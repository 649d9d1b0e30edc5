------------------------------- MODULE Session -------------------------------
(***************************************************************************)
(* The proxy's core: client sessions (src/src/session/session.c), query    *)
(* execution (src/src/protocol/fe_protocol.c), COPY (copy_handler.c) and   *)
(* the shards' connection pools, run by one thread.  Every action between  *)
(* two returns to epoll_wait is one callback, from its first statement to  *)
(* its return, with the calls that it makes.                               *)
(*                                                                         *)
(* Data: a query is its routing decision and the kind of work the server   *)
(* does for it; what a client is sent is a sequence of tokens.  A client   *)
(* sends one request and waits for ReadyForQuery (message framing and      *)
(* pipelining belong to another component).  A scatter goes to all shards, *)
(* each listed once, so a session's scatter slots are indexed by shard.    *)
(***************************************************************************)
EXTENDS ConnPool, FiniteSets

CONSTANTS Sessions,    \* client connections that can be open at once
          Requests,    \* the queries clients send
          MaxCrashes,  \* bound: backend connections lost in one behaviour
          MaxNotices,  \* bound: unsolicited backend messages
          Segments,    \* the server may split an answer over TCP segments
          BadRows      \* the server may abort a COPY IN before its end

ASSUME SessionAssumption ==
  /\ IsFiniteSet(Shards)
  /\ Requests \subseteq [route : {"single", "scatter", "default", "local", "syntax"},
                         shard : Shards \cup {NULL}, op : Op]
  /\ \A q \in Requests : /\ q.route = "single" <=> q.shard # NULL
                         /\ q.route = "scatter" => q.op \in {"query", "begin"}
  /\ MaxCrashes \in Nat /\ MaxNotices \in Nat
  /\ Segments \in BOOLEAN /\ BadRows \in BOOLEAN

VARIABLES
  state,                \* session->state; "NONE": there is no such session
  backend_conn,         \* session->backend_conn
  backend_shard,        \* session->backend_shard
  scatter_conn,         \* session->scatter[i].conn, by shard
  done,                 \* the shards whose scatter[i].done is set
  scatter_done,         \* session->scatter_done
  scatter_header_sent,  \* session->scatter_header_sent
  failed,               \* history: shards that did not run the scatter query
  reply,                \* what the client was sent since its last query
  pool,                 \* shard->pool, by shard
  conn,                 \* the PGconns
  blocked,              \* the PGconn in whose PQgetResult the thread waits
  crashes, notices      \* counters for the two bounds

backendVars == <<backend_conn, backend_shard>>
scatterVars == <<scatter_conn, done, scatter_done, scatter_header_sent, failed>>
envVars == <<crashes, notices>>
vars == <<state, backendVars, scatterVars, reply, pool, conn, blocked, envVars>>

State == {"NONE", "INIT", "READY", "QUERY", "SCATTER", "COPY_IN", "COPY_OUT"}

\* What a client can be sent.  Auth is the answer to its startup message, Rows a
\* whole row set with its tag, Part a row set without the tag, MoreRows data rows
\* without a RowDescription.
Sent == Token \cup {"Auth", "Part", "MoreRows"}

Init ==
  /\ state = [s \in Sessions |-> "NONE"]
  /\ backend_conn = [s \in Sessions |-> NULL]
  /\ backend_shard = [s \in Sessions |-> NULL]
  /\ scatter_conn = [s \in Sessions |-> [sh \in Shards |-> NULL]]
  /\ done = [s \in Sessions |-> {}]
  /\ scatter_done = [s \in Sessions |-> 0]
  /\ scatter_header_sent = [s \in Sessions |-> FALSE]
  /\ failed = [s \in Sessions |-> {}]
  /\ reply = [s \in Sessions |-> <<>>]
  /\ pool = [sh \in Shards |-> conn_pool_init]
  /\ conn = [c \in Conns |-> FreeConn]
  /\ blocked = NULL
  /\ crashes = 0 /\ notices = 0

(***************************************************************************)
(* Giving connections back.                                                *)
(***************************************************************************)
Holding(s) ==
  ({backend_conn[s]} \cup {scatter_conn[s][sh] : sh \in Shards}) \ {NULL}

\* The pools after backend_conn is released to its shard's pool, if it has one.
ReleaseBackend(P, C, s) ==
  IF backend_conn[s] # NULL /\ backend_shard[s] # NULL
  THEN [P EXCEPT ![backend_shard[s]] = conn_pool_release(@, C, backend_conn[s])]
  ELSE P

\* Mutant: the slots are released to the pools of other shards.
ReleaseShifted(P, C, s) ==
  [sh \in Shards |->
     LET other == CHOOSE x \in Shards : x # sh
     IN  IF scatter_conn[s][other] # NULL
         THEN conn_pool_release(P[sh], C, scatter_conn[s][other]) ELSE P[sh]]

\* The pools after the loop of session_release_scatter.
session_release_scatter(P, C, s) ==
  [sh \in Shards |-> IF scatter_conn[s][sh] # NULL
                     THEN conn_pool_release(P[sh], C, scatter_conn[s][sh])
                     ELSE P[sh]]

session_destroy(s, C) ==
  /\ pool' = session_release_scatter(ReleaseBackend(pool, C, s), C, s)
  /\ conn' = Finish(C, Holding(s), pool')
  /\ state' = [state EXCEPT ![s] = "NONE"]
  /\ backend_conn' = [backend_conn EXCEPT ![s] = NULL]
  /\ backend_shard' = [backend_shard EXCEPT ![s] = NULL]
  /\ scatter_conn' = [scatter_conn EXCEPT ![s] = [sh \in Shards |-> NULL]]
  /\ done' = [done EXCEPT ![s] = {}]
  /\ scatter_done' = [scatter_done EXCEPT ![s] = 0]
  /\ scatter_header_sent' = [scatter_header_sent EXCEPT ![s] = FALSE]
  /\ failed' = [failed EXCEPT ![s] = {}]
  /\ reply' = [reply EXCEPT ![s] = <<>>]
  /\ blocked' = NULL

(***************************************************************************)
(* Client events.  All need the thread, which is in epoll_wait.            *)
(***************************************************************************)
InEpollWait == blocked = NULL

on_accept(s) ==
  /\ InEpollWait /\ state[s] = "NONE"
  /\ state' = [state EXCEPT ![s] = "INIT"]
  /\ UNCHANGED <<backendVars, scatterVars, reply, pool, conn, blocked, envVars>>

\* handle_startup_message for protocol 3 (an SSLRequest changes nothing here).
handle_startup_message(s) ==
  /\ InEpollWait /\ state[s] = "INIT"
  /\ state' = [state EXCEPT ![s] = "READY"]
  /\ reply' = [reply EXCEPT ![s] = <<"Auth", "IDLE">>]
  /\ UNCHANGED <<backendVars, scatterVars, pool, conn, blocked, envVars>>

\* The client hangs up or resets, sends Terminate, a CancelRequest or another
\* protocol version, or its replies cannot be sent: the callback destroys the
\* session.  (fe_protocol_process does not look at Terminate in the other
\* states; the end of the client's socket is seen in all.)
ClientGone(s) ==
  /\ InEpollWait /\ state[s] # "NONE"
  /\ session_destroy(s, conn)
  /\ UNCHANGED envVars

\* The client has its ReadyForQuery and sends the next query.
ClientTurn(s) ==
  /\ InEpollWait /\ state[s] = "READY"
  /\ reply[s] # <<>> /\ reply[s][Len(reply[s])] \in Status

\* Replies made by the proxy alone: for a syntax error, SET and SHOW ...
ReplyLocally(s, answer) ==
  /\ ClientTurn(s)
  /\ reply' = [reply EXCEPT ![s] = <<answer, "IDLE">>]
  /\ UNCHANGED <<state, backendVars, scatterVars, pool, conn, blocked, envVars>>

\* ... and for every message of the extended query protocol, which is refused.
RefuseExtended(s) == ReplyLocally(s, "Error")

(***************************************************************************)
(* execute_single: connect, then PQsendQuery.                              *)
(***************************************************************************)

connect_to_shard(P, C, sh) ==
  {[conn |-> a.conn, pool |-> [P EXCEPT ![sh] = a.pool],
    table |-> Acquired(C, P, [P EXCEPT ![sh] = a.pool],
                       [x \in Shards |-> IF x = sh THEN a.conn ELSE NULL])]
     : a \in conn_pool_acquire(P[sh], C)}

\* PQconnectdb to the fallback backend, where the session holds nothing.
connect_to_default(P, C) ==
  {[conn |-> NULL, pool |-> P, table |-> C]}
  \cup {[conn |-> c, pool |-> P, table |-> [C EXCEPT ![c] = PQconnectdb(NULL)]]
          : c \in {f \in Conns : C[f].status = "FREE"}}

\* Mutant: no early return when connecting or PQsendQuery fails.
SendQueryGoesOn(s, c, C, op) ==
  LET ok == c # NULL /\ PQsendQueryOK(C[c])
  IN  /\ conn' = IF ok THEN [C EXCEPT ![c] = PQsendQuery(@, op)] ELSE C
      /\ state' = [state EXCEPT ![s] = "QUERY"]
      /\ reply' = [reply EXCEPT ![s] = IF ok THEN <<>> ELSE <<"Error">>]

\* Mutant: no ReadyForQuery after the proxy's own error.
SendQueryErrorOnly(s, c, C, op) ==
  LET ok == c # NULL /\ PQsendQueryOK(C[c])
  IN  /\ conn' = IF ok THEN [C EXCEPT ![c] = PQsendQuery(@, op)] ELSE C
      /\ state' = [state EXCEPT ![s] = IF ok THEN "QUERY" ELSE "READY"]
      /\ reply' = [reply EXCEPT ![s] = IF ok THEN <<>> ELSE <<"Error">>]

\* PQsendQuery on connection c (NULL: connecting failed).  When it fails the
\* client is told so and the session keeps the connection that it has.
SendQuery(s, c, C, op) ==
  LET ok == c # NULL /\ PQsendQueryOK(C[c])
  IN  /\ conn' = IF ok THEN [C EXCEPT ![c] = PQsendQuery(@, op)] ELSE C
      /\ state' = [state EXCEPT ![s] = IF ok THEN "QUERY" ELSE "READY"]
      /\ reply' = [reply EXCEPT ![s] = IF ok THEN <<>> ELSE <<"Error", "IDLE">>]

\* The session drops its connection, takes one to shard (NULL: the default
\* backend) and sends the query.
Reconnect(s, shard, op) ==
  LET P == ReleaseBackend(pool, conn, s)
      C == Finish(conn, {backend_conn[s]}, P)
  IN  \E r \in IF shard = NULL THEN connect_to_default(P, C)
               ELSE connect_to_shard(P, C, shard) :
        /\ pool' = r.pool
        /\ backend_conn' = [backend_conn EXCEPT ![s] = r.conn]
        /\ backend_shard' =
             [backend_shard EXCEPT ![s] = IF r.conn = NULL THEN NULL ELSE shard]
        /\ SendQuery(s, r.conn, r.table, op)

\* Mutant: the connection that the session has is never used again.
ExecuteReconnects(s, shard, op) ==
  /\ ClientTurn(s) /\ Reconnect(s, shard, op)
  /\ UNCHANGED <<scatterVars, blocked, envVars>>

execute_single(s, shard, op) ==
  /\ ClientTurn(s)
  /\ \/ /\ backend_conn[s] # NULL /\ backend_shard[s] = shard
        /\ SendQuery(s, backend_conn[s], conn, op)
        /\ UNCHANGED <<pool, backendVars>>
     \/ /\ ~(backend_conn[s] # NULL /\ backend_shard[s] = shard)
        /\ Reconnect(s, shard, op)
  /\ UNCHANGED <<scatterVars, blocked, envVars>>

\* handle_query without a shard map: the default backend, reconnected only if
\* libpq knows the connection to be broken.
execute_unsharded(s, op) ==
  /\ ClientTurn(s)
  /\ \/ /\ backend_conn[s] # NULL /\ conn[backend_conn[s]].status = "OK"
        /\ SendQuery(s, backend_conn[s], conn, op)
        /\ UNCHANGED <<pool, backendVars>>
     \/ /\ ~(backend_conn[s] # NULL /\ conn[backend_conn[s]].status = "OK")
        /\ Reconnect(s, NULL, op)
  /\ UNCHANGED <<scatterVars, blocked, envVars>>

(***************************************************************************)
(* execute_scatter: acquire from every pool and send.  A shard without a   *)
(* connection counts as done.  The slots are cleared first (memset),       *)
(* whatever they hold.                                                     *)
(***************************************************************************)
ScatterTo(s, op, a) ==
  LET L == [sh \in Shards |-> a[sh].conn]
      Q == [sh \in Shards |-> a[sh].pool]
      T == Acquired(conn, pool, Q, L)
      sent == {sh \in Shards : L[sh] # NULL /\ PQsendQueryOK(T[L[sh]])}
  IN  /\ \A sh \in Shards : a[sh] \in conn_pool_acquire(pool[sh], conn)
      /\ \A x, y \in Shards : L[x] = L[y] => x = y \/ L[x] = NULL
      /\ pool' = [sh \in Shards |->
                    IF L[sh] = NULL \/ sh \in sent THEN Q[sh]
                    ELSE conn_pool_release(Q[sh], T, L[sh])]
      /\ conn' = Finish([c \in Conns |-> IF \E sh \in sent : L[sh] = c
                                         THEN PQsendQuery(T[c], op) ELSE T[c]],
                        {L[sh] : sh \in Shards \ sent}, pool')
      /\ scatter_conn' = [scatter_conn EXCEPT ![s] =
           [sh \in Shards |-> IF sh \in sent THEN L[sh] ELSE NULL]]
      /\ done' = [done EXCEPT ![s] = Shards \ sent]
      /\ failed' = [failed EXCEPT ![s] = Shards \ sent]
      /\ scatter_done' =
           [scatter_done EXCEPT ![s] = Cardinality(Shards \ sent)]
      /\ scatter_header_sent' = [scatter_header_sent EXCEPT ![s] = FALSE]
      /\ state' = [state EXCEPT ![s] = IF sent = {} THEN "READY" ELSE "SCATTER"]
      /\ reply' = [reply EXCEPT ![s] =
                     IF sent = {} THEN <<"Error", "IDLE">> ELSE <<>>]

execute_scatter(s, op) ==
  /\ ClientTurn(s)
  /\ \E a \in [Shards -> UNION {conn_pool_acquire(pool[sh], conn) : sh \in Shards}] :
       ScatterTo(s, op, a)
  /\ UNCHANGED <<backendVars, blocked, envVars>>

\* handle_query: the routing decision q picks the executor.
handle_query(s, q) ==
  IF Shards = {} THEN execute_unsharded(s, q.op)
  ELSE \/ q.route = "syntax" /\ ReplyLocally(s, "Error")
       \/ q.route = "local" /\ ReplyLocally(s, "Complete")
       \/ q.route \in {"single", "default"} /\ execute_single(s, q.shard, q.op)
       \/ q.route = "scatter" /\ execute_scatter(s, q.op)

\* Mutant: the session stays in COPY_IN.
CopyEndStays(s, ok) ==
  LET c == backend_conn[s]
      k == PQputCopyEnd(conn[c])
  IN  /\ InEpollWait /\ state[s] = "COPY_IN"
      /\ c # NULL /\ conn[c].async = "copy_in"
      /\ conn' = [conn EXCEPT ![c] = IF k.copying THEN CopyEnds(k, ok) ELSE k]
      /\ UNCHANGED <<state, backendVars, scatterVars, reply, pool, blocked, envVars>>

\* copy_handle_client_message for CopyDone and CopyFail.  CopyData only feeds
\* the server; other messages are skipped in COPY_IN.  Its error returns (no
\* connection, PQputCopyEnd fails outside libpq's COPY state) are excluded by
\* the last two guards: StateAgrees says that they are never taken.
CopyEnd(s, ok) ==
  LET c == backend_conn[s]
      k == PQputCopyEnd(conn[c])
  IN  /\ InEpollWait /\ state[s] = "COPY_IN"
      /\ c # NULL /\ conn[c].async = "copy_in"
      /\ conn' = [conn EXCEPT ![c] = IF k.copying THEN CopyEnds(k, ok) ELSE k]
      /\ state' = [state EXCEPT ![s] = "QUERY"]
      /\ UNCHANGED <<backendVars, scatterVars, reply, pool, blocked, envVars>>

(***************************************************************************)
(* session_on_backend_readable, with c = backend_conn[s] and k the state   *)
(* of c after PQconsumeInput.                                              *)
(***************************************************************************)
Say(s, toks) == reply' = [reply EXCEPT ![s] = @ \o toks]

\* The result loop sends a RowDescription with the first row set only.
Forward(s, q) ==
  [i \in DOMAIN q |-> IF /\ q[i] = "Rows"
                         /\ \/ "Rows" \in Range(reply[s])
                            \/ \E j \in 1..(i-1) : q[j] = "Rows"
                      THEN "MoreRows" ELSE q[i]]

\* The thread stays inside PQgetResult(c): a result has been queued and
\* libpq waits in poll() for the rest.
WaitInGetResult(s, c, k, toks) ==
  /\ blocked' = c
  /\ conn' = [conn EXCEPT ![c] = k]
  /\ Say(s, toks)
  /\ UNCHANGED <<backendVars, scatterVars, pool, envVars>>

\* The client's socket fails in session_send.
SendFails(s, C) == session_destroy(s, C) /\ UNCHANGED envVars

\* Mutant: libpq's transaction status goes to the client as it is.
ReadyRawStatus(s, c, k, toks) ==
  /\ Say(s, Append(toks, PQtransactionStatus(k)))
  /\ conn' = [conn EXCEPT ![c] = k]
  /\ state' = [state EXCEPT ![s] = "READY"]
  /\ blocked' = NULL
  /\ UNCHANGED <<backendVars, scatterVars, pool, envVars>>

\* Mutant: the session keeps using the connection that it has released.
ReadyKeeps(s, c, k, toks) ==
  LET C == [conn EXCEPT ![c] = k]
      free == PQtransactionStatus(k) = "IDLE" /\ backend_shard[s] # NULL
  IN  /\ Say(s, Append(toks, "IDLE"))
      /\ pool' = IF free THEN ReleaseBackend(pool, C, s) ELSE pool
      /\ conn' = IF free THEN Finish(C, {c}, pool') ELSE C
      /\ state' = [state EXCEPT ![s] = "READY"]
      /\ blocked' = NULL
      /\ UNCHANGED <<backendVars, scatterVars, envVars>>

\* The end of a query: ReadyForQuery with the transaction status of c, which
\* goes back to its pool if the status is idle.
ReadyForQuery(s, c, k, toks) ==
  LET txn == PQtransactionStatus(k)
      C == [conn EXCEPT ![c] = k]
      free == txn = "IDLE" /\ backend_shard[s] # NULL
      told == IF txn \in {"INTRANS", "INERROR"} THEN txn ELSE "IDLE"
  IN  \/ /\ Say(s, Append(toks, told))
         /\ pool' = IF free THEN ReleaseBackend(pool, C, s) ELSE pool
         /\ conn' = IF free THEN Finish(C, {c}, pool') ELSE C
         /\ backend_conn' = IF free THEN [backend_conn EXCEPT ![s] = NULL]
                                    ELSE backend_conn
         /\ backend_shard' = IF free THEN [backend_shard EXCEPT ![s] = NULL]
                                     ELSE backend_shard
         /\ state' = [state EXCEPT ![s] = "READY"]
         /\ blocked' = NULL
         /\ UNCHANGED <<scatterVars, envVars>>
      \/ SendFails(s, C)

\* The session waits for the peer in a COPY state.
EnterCopy(s, c, k, st, toks) ==
  \/ /\ Say(s, toks)
     /\ conn' = [conn EXCEPT ![c] = k]
     /\ state' = [state EXCEPT ![s] = st]
     /\ blocked' = NULL
     /\ UNCHANGED <<backendVars, scatterVars, pool, envVars>>
  \/ SendFails(s, [conn EXCEPT ![c] = k])

\* After CopyDone: one PQgetResult for the command's outcome.  An error is
\* not forwarded.
FinalResult(s, c, k, toks) ==
  \/ /\ k.inbuf = <<>>
     /\ WaitInGetResult(s, c, k, toks)
     /\ state' = [state EXCEPT ![s] = "COPY_OUT"]
  \/ /\ k.inbuf # <<>>
     /\ ReadyForQuery(s, c, [k EXCEPT !.inbuf = Tail(@)],
                      IF Head(k.inbuf) = "Complete"
                      THEN Append(toks, "Complete") ELSE toks)

\* copy_out_read: PQgetCopyData until there is no complete row left (0) or
\* the copy ends (-1), which any other message of the server also means.
copy_out_read(s, c, k, toks) ==
  \/ /\ Without(k.inbuf, Token \ {"Data"})
     /\ EnterCopy(s, c, [k EXCEPT !.inbuf = <<>>], "COPY_OUT", toks \o k.inbuf)
  \/ \E i \in DOMAIN k.inbuf :
       /\ IsFirst(k.inbuf, i, Token \ {"Data"})
       /\ FinalResult(s, c,
            [k EXCEPT !.async = "busy",
                      !.inbuf = From(@, IF @[i] = "Done" THEN i + 1 ELSE i)],
            Append(toks \o SubSeq(k.inbuf, 1, i - 1), "Done"))

\* The loop over PQgetResult while libpq is in its busy state.
Stop == Status \cup {"CopyIn", "CopyOut"}

\* Mutant: one PQgetResult instead of the loop.
GetOneResult(s, c, k) ==
  ReadyForQuery(s, c, [k EXCEPT !.inbuf = Tail(@)], Forward(s, <<Head(k.inbuf)>>))

GetResults(s, c, k) ==
  \/ /\ Without(k.inbuf, Stop)
     /\ WaitInGetResult(s, c, [k EXCEPT !.inbuf = <<>>], Forward(s, k.inbuf))
     /\ UNCHANGED state
  \/ \E i \in DOMAIN k.inbuf :
       LET results == Forward(s, SubSeq(k.inbuf, 1, i - 1))
           rest == From(k.inbuf, i + 1)
       IN  /\ IsFirst(k.inbuf, i, Stop)
           /\ \/ /\ k.inbuf[i] \in Status
                 /\ ReadyForQuery(s, c, GotReady(k, i), results)
              \/ /\ k.inbuf[i] = "CopyIn"
                 /\ EnterCopy(s, c, [k EXCEPT !.async = "copy_in", !.inbuf = rest],
                              "COPY_IN", Append(results, "CopyIn"))
              \/ /\ k.inbuf[i] = "CopyOut"
                 /\ copy_out_read(s, c, [k EXCEPT !.async = "copy_out", !.inbuf = rest],
                                  Append(results, "CopyOut"))

\* What the callback does after PQconsumeInput, by libpq's state.
AfterConsume(s, c, k) ==
  \/ /\ k.async = "busy" /\ k.inbuf = <<>>            \* PQisBusy
     /\ conn' = [conn EXCEPT ![c] = k]
     /\ UNCHANGED <<state, backendVars, scatterVars, reply, pool, blocked, envVars>>
  \/ /\ k.async = "busy" /\ k.inbuf # <<>>
     /\ GetResults(s, c, k)
  \/ /\ k.async = "idle"                              \* no result at all
     /\ ReadyForQuery(s, c, k, <<>>)
  \/ /\ k.async = "copy_in"                           \* PGRES_COPY_IN again
     /\ EnterCopy(s, c, k, "COPY_IN", <<"CopyIn">>)
  \/ /\ k.async = "copy_out"                          \* PGRES_COPY_OUT again
     /\ copy_out_read(s, c, k, <<"CopyOut">>)

session_on_backend_readable(s) ==
  LET c == backend_conn[s]
  IN  /\ InEpollWait /\ c # NULL /\ Readable(conn[c])
      /\ \/ /\ conn[c].link = "rst"                   \* EPOLLERR | EPOLLHUP
            /\ session_destroy(s, conn)
            /\ UNCHANGED envVars
         \/ /\ AtEOF(conn[c])                         \* PQconsumeInput fails
            /\ session_destroy(s, [conn EXCEPT ![c] = Broken(@)])
            /\ UNCHANGED envVars
         \/ /\ conn[c].link # "rst" /\ ~AtEOF(conn[c])
            /\ AfterConsume(s, c, PQconsumeInput(conn[c]))

\* The wait inside PQgetResult ends: bytes arrive, or the connection is lost
\* and PQgetResult makes an error result.
BackendWaitEnds(s) ==
  LET c == backend_conn[s]
      k == PQconsumeInput(conn[c])
  IN  /\ c # NULL /\ blocked = c
      /\ \/ /\ conn[c].wire # <<>> /\ state[s] # "COPY_OUT"
            /\ GetResults(s, c, k)
         \/ /\ conn[c].wire # <<>> /\ state[s] = "COPY_OUT"
            /\ FinalResult(s, c, k, <<>>)
         \/ /\ conn[c].wire = <<>> /\ conn[c].link # "up"
            /\ ReadyForQuery(s, c, Broken(k),
                             IF state[s] = "COPY_OUT" THEN <<>> ELSE <<"Error">>)

(***************************************************************************)
(* session_on_scatter_readable for the slot of shard sh, with c its        *)
(* connection.                                                             *)
(***************************************************************************)

\* Only row sets are forwarded; the RowDescription goes out once.
ForwardRows(s, q) == IF "Rows" \notin Range(q) THEN <<>>
                     ELSE IF scatter_header_sent[s] THEN <<"MoreRows">>
                     ELSE <<"Part">>
\* Mutant: scatter_header_sent is not set.
HeaderForgotten(s, q) == UNCHANGED scatter_header_sent
HeaderAfter(s, q) ==
  scatter_header_sent' =
    [scatter_header_sent EXCEPT ![s] = @ \/ "Rows" \in Range(q)]
FailedAfter(s, sh, q) ==
  failed' = [failed EXCEPT ![s] = IF "Error" \in Range(q) THEN @ \cup {sh} ELSE @]

\* Mutant: complete one shard early.
CompleteEarly(s) == scatter_done[s] + 2 >= Cardinality(Shards)

\* One more shard is done (results q were forwarded, C is the connection
\* table); check_complete.
check_complete(s) == scatter_done[s] + 1 >= Cardinality(Shards)
ShardDone(s, sh, C, q) ==
  \/ /\ ~check_complete(s)
     /\ scatter_done' = [scatter_done EXCEPT ![s] = @ + 1]
     /\ done' = [done EXCEPT ![s] = @ \cup {sh}]
     /\ Say(s, ForwardRows(s, q))
     /\ HeaderAfter(s, q) /\ FailedAfter(s, sh, q)
     /\ conn' = C
     /\ blocked' = NULL
     /\ UNCHANGED <<state, backendVars, scatter_conn, pool, envVars>>
  \/ /\ check_complete(s)
     /\ Say(s, ForwardRows(s, q) \o <<"Complete", "IDLE">>)
     /\ pool' = session_release_scatter(pool, C, s)
     /\ conn' = Finish(C, {scatter_conn[s][x] : x \in Shards}, pool')
     /\ scatter_conn' = [scatter_conn EXCEPT ![s] = [x \in Shards |-> NULL]]
     /\ scatter_done' = [scatter_done EXCEPT ![s] = 0]
     /\ scatter_header_sent' = [scatter_header_sent EXCEPT ![s] = FALSE]
     /\ done' = [done EXCEPT ![s] = @ \cup {sh}]
     /\ FailedAfter(s, sh, q)
     /\ state' = [state EXCEPT ![s] = "READY"]
     /\ blocked' = NULL
     /\ UNCHANGED <<backendVars, envVars>>
  \/ /\ check_complete(s)
     /\ SendFails(s, C)

ScatterResults(s, sh, c, k) ==
  \/ /\ Without(k.inbuf, Status)
     /\ blocked' = c
     /\ conn' = [conn EXCEPT ![c] = [k EXCEPT !.inbuf = <<>>]]
     /\ Say(s, ForwardRows(s, k.inbuf))
     /\ HeaderAfter(s, k.inbuf) /\ FailedAfter(s, sh, k.inbuf)
     /\ UNCHANGED <<state, backendVars, scatter_conn, done, scatter_done, pool, envVars>>
  \/ \E i \in DOMAIN k.inbuf :
       /\ IsFirst(k.inbuf, i, Status)
       /\ ShardDone(s, sh, [conn EXCEPT ![c] = GotReady(k, i)],
                    SubSeq(k.inbuf, 1, i - 1))

session_on_scatter_readable(s, sh) ==
  LET c == scatter_conn[s][sh]
      k == PQconsumeInput(conn[c])
  IN  /\ InEpollWait /\ c # NULL /\ Readable(conn[c])
      /\ \/ /\ conn[c].link = "rst"                   \* EPOLLERR | EPOLLHUP
            /\ ShardDone(s, sh, conn, <<"Error">>)
         \/ /\ AtEOF(conn[c])                         \* PQconsumeInput fails
            /\ ShardDone(s, sh, [conn EXCEPT ![c] = Broken(@)], <<"Error">>)
         \/ /\ conn[c].link # "rst" /\ ~AtEOF(conn[c])
            /\ \/ /\ k.async = "busy" /\ k.inbuf = <<>>
                  /\ conn' = [conn EXCEPT ![c] = k]
                  /\ UNCHANGED <<state, backendVars, scatterVars, reply, pool,
                                 blocked, envVars>>
               \/ /\ k.async = "busy" /\ k.inbuf # <<>>
                  /\ ScatterResults(s, sh, c, k)
               \/ /\ k.async = "idle"
                  /\ ShardDone(s, sh, [conn EXCEPT ![c] = k], <<>>)

ScatterWaitEnds(s, sh) ==
  LET c == scatter_conn[s][sh]
      k == PQconsumeInput(conn[c])
  IN  /\ c # NULL /\ blocked = c
      /\ \/ conn[c].wire # <<>> /\ ScatterResults(s, sh, c, k)
         \/ /\ conn[c].wire = <<>> /\ conn[c].link # "up"
            /\ ShardDone(s, sh, [conn EXCEPT ![c] = Broken(k)], <<"Error">>)

\* The 30 s timer: health_check_all.
health_check_all ==
  /\ InEpollWait
  /\ pool' = [sh \in Shards |-> conn_pool_health_check(pool[sh], conn)]
  /\ conn' = Finish(conn, Idle(pool), pool')
  /\ UNCHANGED <<state, backendVars, scatterVars, reply, blocked, envVars>>

(***************************************************************************)
(* The backends, which run beside the proxy.                               *)
(***************************************************************************)
OnlyConn(c, k) ==
  /\ conn' = [conn EXCEPT ![c] = k]
  /\ UNCHANGED <<state, backendVars, scatterVars, reply, pool, blocked>>

BackendExecutes(c) ==
  /\ conn[c].status = "OK" /\ conn[c].req # "none"
  /\ \E answer \in Response(conn[c].req, conn[c].xact) : OnlyConn(c, Execute(conn[c], answer))
  /\ UNCHANGED envVars

\* The server writes one token, or the whole answer in one segment.
BackendWrites(c) ==
  /\ conn[c].status = "OK" /\ conn[c].todo # <<>>
  /\ \E n \in 1..Len(conn[c].todo) :
       /\ n = Len(conn[c].todo) \/ Segments
       /\ OnlyConn(c, Emit(conn[c], n))
  /\ UNCHANGED envVars

\* A row that the session has forwarded is bad: the COPY fails at once.
BackendRejectsRow(c) ==
  /\ BadRows /\ conn[c].status = "OK" /\ conn[c].copying
  /\ conn[c].async = "copy_in"
  /\ OnlyConn(c, CopyEnds(conn[c], FALSE))
  /\ UNCHANGED envVars

BackendNotice(c) ==
  /\ notices < MaxNotices
  /\ conn[c].status = "OK" /\ conn[c].link = "up" /\ ~conn[c].notice
  /\ OnlyConn(c, [conn[c] EXCEPT !.notice = TRUE])
  /\ notices' = notices + 1
  /\ UNCHANGED crashes

BackendCrash(c) ==
  /\ crashes < MaxCrashes
  /\ conn[c].status = "OK" /\ conn[c].link = "up"
  /\ \E how \in {"fin", "rst"} : OnlyConn(c, Crash(conn[c], how))
  /\ crashes' = crashes + 1
  /\ UNCHANGED notices

(***************************************************************************)
(* The specification.  Fairness: a ready descriptor is reported by every   *)
(* epoll_wait until it is served (level triggered, at most 256 of them per *)
(* call, in turn), so a callback that is ready again and again runs: SF.   *)
(* A server works through its request and its answer: WF.  A client in the *)
(* middle of COPY IN ends it: SF, as the thread may be busy in between.    *)
(* The timer runs the health check: WF.                                    *)
(***************************************************************************)
Next ==
  \/ \E s \in Sessions :
       \/ on_accept(s) \/ handle_startup_message(s) \/ ClientGone(s)
       \/ RefuseExtended(s)
       \/ \E q \in Requests : handle_query(s, q)
       \/ \E ok \in BOOLEAN : CopyEnd(s, ok)
       \/ session_on_backend_readable(s) \/ BackendWaitEnds(s)
       \/ \E sh \in Shards :
            session_on_scatter_readable(s, sh) \/ ScatterWaitEnds(s, sh)
  \/ health_check_all
  \/ \E c \in Conns : \/ BackendExecutes(c) \/ BackendWrites(c)
                      \/ BackendRejectsRow(c)
                      \/ BackendNotice(c) \/ BackendCrash(c)

Spec == Init /\ [][Next]_vars

Fairness ==
  /\ \A s \in Sessions :
       /\ SF_vars(session_on_backend_readable(s)) /\ WF_vars(BackendWaitEnds(s))
       /\ SF_vars(\E ok \in BOOLEAN : CopyEnd(s, ok))
       /\ \A sh \in Shards : /\ SF_vars(session_on_scatter_readable(s, sh))
                             /\ WF_vars(ScatterWaitEnds(s, sh))
  /\ WF_vars(health_check_all)
  /\ \A c \in Conns : WF_vars(BackendExecutes(c)) /\ WF_vars(BackendWrites(c))

FairSpec == Spec /\ Fairness

(***************************************************************************)
(* Properties.                                                             *)
(***************************************************************************)

\* Every variable keeps its type: the states of session.h, the fields of
\* ClientSession, ScatterConn, ConnPool and of libpq's PGconn.
TypeOK ==
  /\ state \in [Sessions -> State]
  /\ backend_conn \in [Sessions -> Conns \cup {NULL}]
  /\ backend_shard \in [Sessions -> Shards \cup {NULL}]
  /\ scatter_conn \in [Sessions -> [Shards -> Conns \cup {NULL}]]
  /\ done \in [Sessions -> SUBSET Shards]
  /\ failed \in [Sessions -> SUBSET Shards]
  /\ scatter_done \in [Sessions -> Nat]
  /\ scatter_header_sent \in [Sessions -> BOOLEAN]
  /\ reply \in [Sessions -> Seq(Sent)]
  /\ pool \in [Shards -> PoolType]
  /\ conn \in [Conns -> PGconn]
  /\ blocked \in Conns \cup {NULL}
  /\ crashes \in Nat /\ notices \in Nat

\* conn_pool.c never has more than max_size connections to a shard, idle and
\* lent together: idle_conns cannot overflow and conn_pool_release never
\* reaches its "no room" branch, on every path of the session code.
PoolBound == WithinLimit(pool)

\* The parts of ExclusiveOwner, over the sessions' backend_conn (B) and scatter
\* slots (S), the pools P and the connection table C.  IdleOnce (ConnPool):
\* none is in the idle arrays twice; none is in two slots of sessions ...
HeldOnce(B, S) ==
  \A s, t \in Sessions :
    /\ B[s] = B[t] => s = t \/ B[s] = NULL
    /\ \A x \in Shards : B[s] = S[t][x] => B[s] = NULL
    /\ \A x, y \in Shards : S[s][x] = S[t][y] => (s = t /\ x = y) \/ S[s][x] = NULL
\* ... or idle and in a slot, or anywhere after PQfinish.
Unheld(B, S, c) ==
  \A s \in Sessions : B[s] # c /\ \A x \in Shards : S[s][x] # c
IdleUnheld(B, S, P) == \A c \in Idle(P) : Unheld(B, S, c)
ClosedUnowned(B, S, P, C) ==
  \A c \in Conns : C[c].status = "FREE" => c \notin Idle(P) /\ Unheld(B, S, c)
Exclusive(B, S, P, C) == /\ IdleOnce(P) /\ HeldOnce(B, S)
                         /\ IdleUnheld(B, S, P) /\ ClosedUnowned(B, S, P, C)

\* A connection is in one place at a time: conn_pool_acquire never lends a
\* connection that a session still uses, no session releases one twice, and
\* no path uses one after PQfinish.
ExclusiveOwner == Exclusive(backend_conn, scatter_conn, pool, conn)

\* The sessions and pools implement the lending of connections (Lending): a
\* callback moves connections of its own session only, a connection becomes idle
\* only from the hands of the session that held it, and none passes from session
\* to session except through a pool.
idleNow == [sh \in Shards |-> Range(pool[sh].idle_conns)]
heldNow == [s \in Sessions |-> Holding(s)]
Lends == INSTANCE Lending WITH idle <- idleNow, held <- heldNow
LendingKept == Lends!Spec

\* An idle connection is ready for any client: no open transaction, no
\* command under way and no part of an earlier client's answer left in libpq,
\* in the socket or in the server, whatever made the session release it.
CleanIdle ==
  \A c \in Idle(pool) :
    LET k == conn[c]
    IN  /\ PQtransactionStatus(k) = "IDLE"
        /\ k.inbuf = <<>> /\ k.wire = <<>> /\ k.todo = <<>>
        /\ k.req = "none" /\ ~k.copying

\* The connections are at the servers that the idle arrays, backend_shard (BS)
\* and the scatter slots name.
AtHome(B, BS, S, P, C) ==
  /\ \A sh \in Shards : \A i \in DOMAIN P[sh].idle_conns : C[P[sh].idle_conns[i]].home = sh
  /\ \A s \in Sessions :
       /\ B[s] # NULL => C[B[s]].home = BS[s]
       /\ \A sh \in Shards : S[s][sh] # NULL => C[S[s][sh]].home = sh

\* A connection is only ever used for the server it is connected to: idle in
\* the pool of that shard, and held by a session in the backend_shard or the
\* scatter slot of that shard.
RightShard == AtHome(backend_conn, backend_shard, scatter_conn, pool, conn)

\* The sessions' slots that hold a connection of shard sh.
Lent(sh) ==
  {<<s, "backend">> : s \in {t \in Sessions : backend_conn[t] # NULL /\ backend_shard[t] = sh}}
  \cup {<<s, "scatter">> : s \in {t \in Sessions : scatter_conn[t][sh] # NULL}}

\* active_count is the number of "connections currently checked out"
\* (conn_pool.h): no session path loses a connection without releasing it.
ActiveIsCheckedOut ==
  \A sh \in Shards : pool[sh].active_count = Cardinality(Lent(sh))

\* The protocol state of a client after the tokens of q, from "sent" (a query
\* was sent); "bad": the proxy broke the simple query protocol.
ClientStep(v, tok) ==
  CASE v \in {"sent", "wait"} ->
         IF tok \in {"Auth", "Rows", "Complete", "Error"} THEN "wait"
         ELSE IF tok = "Part" THEN "rows"
         ELSE IF tok = "CopyIn" THEN "copyin"
         ELSE IF tok = "CopyOut" THEN "copyout"
         ELSE IF tok \in Status /\ v = "wait" THEN "ready" ELSE "bad"
    [] v = "rows" ->
         IF tok = "MoreRows" THEN "rows"
         ELSE IF tok \in {"Complete", "Error"} THEN "wait" ELSE "bad"
    [] v = "copyin" -> IF tok \in {"Complete", "Error"} THEN "wait" ELSE "bad"
    [] v = "copyout" ->
         IF tok = "Data" THEN "copyout"
         ELSE IF tok = "Done" THEN "copyin"
         ELSE IF tok = "Error" THEN "wait" ELSE "bad"
    [] OTHER -> "bad"
ClientView(q) ==
  LET view[i \in 0..Len(q)] == IF i = 0 THEN "sent" ELSE ClientStep(view[i-1], q[i])
  IN  view[Len(q)]

\* What session.c and fe_protocol.c send for a query is a legal answer of the
\* simple query protocol: row sets with their description, one CopyOutResponse
\* per COPY, one ReadyForQuery and nothing after it.  The client has its
\* ReadyForQuery exactly when the session is in SESSION_STATE_READY.
LegalReply ==
  \A s \in Sessions : /\ ClientView(reply[s]) # "bad"
                       /\ ClientView(reply[s]) = "ready" <=> state[s] = "READY"

\* session_on_scatter_readable answers the client only when "All shards done",
\* unless a connection was lost: a reset slot is reported, and counted, by every
\* epoll_wait until the scatter ends.
AllShardsDone ==
  [][\A s \in Sessions : state[s] = "SCATTER" /\ state'[s] = "READY" /\ crashes = 0
                           => done'[s] = Shards]_vars

\* A scatter query that failed on a shard is not reported as a success: the
\* shard's error reaches the client.
ScatterErrorsForwarded ==
  [][\A s \in Sessions :
       state[s] = "SCATTER" /\ state'[s] = "READY" /\ failed'[s] # {}
         => "Error" \in Range(reply'[s])]_vars

\* A transaction stays on its connection while the statements go to its server:
\* a ready session gives a connection with an open transaction up only for a
\* statement to another server, or when the session ends.
TransactionPinned ==
  [][\A s \in Sessions :
       /\ state[s] = "READY" /\ backend_conn[s] # NULL /\ state'[s] # "NONE"
       /\ PQtransactionStatus(conn[backend_conn[s]]) \in {"INTRANS", "INERROR"}
       => \/ backend_conn'[s] = backend_conn[s]
          \/ backend_shard'[s] # backend_shard[s] \/ backend_conn'[s] = NULL]_vars

\* At the end of a query the client is told the truth about its transaction: the
\* status in ReadyForQuery is the server's, whenever the session keeps the
\* connection, however the answer was split and whatever the thread waited for.
StatusTold ==
  [][\A s \in Sessions :
       LET c == backend_conn'[s]
       IN  state[s] = "QUERY" /\ state'[s] = "READY" /\ c # NULL /\ conn'[c].link = "up"
             => reply'[s][Len(reply'[s])] = conn'[c].xact]_vars

\* A session that is ready for the next query can send it: the connection it
\* kept (for a transaction, or the default backend) has no command under way,
\* unless a connection was lost.
UsableWhenReady ==
  \A s \in Sessions :
    state[s] = "READY" /\ backend_conn[s] # NULL /\ crashes = 0
      => PQsendQueryOK(conn[backend_conn[s]])

\* The session's state and libpq's agree: a session waits for results only of a
\* command under way, and takes COPY data only while libpq does, so that
\* copy_handle_client_message never fails.
StateAgrees ==
  \A s \in Sessions :
    state[s] \in {"QUERY", "COPY_IN", "COPY_OUT"} =>
      /\ backend_conn[s] # NULL
      /\ LET k == conn[backend_conn[s]]
         IN  /\ k.status = "OK"
             /\ state[s] = "QUERY" => k.async = "busy"
             /\ state[s] = "COPY_IN" => k.async = "copy_in"
             /\ state[s] = "COPY_OUT" =>
                  k.async = IF blocked = backend_conn[s] THEN "busy" ELSE "copy_out"

\* Every query is answered, or the session is closed: no interleaving of the
\* shards' answers and failures leaves a session in QUERY, SCATTER or COPY.
QueryAnswered ==
  \A s \in Sessions : state[s] \notin {"NONE", "INIT", "READY"} ~> state[s] \in {"NONE", "READY"}
=============================================================================
