-------------------------------- MODULE Libpq --------------------------------
(***************************************************************************)
(* External: one libpq connection (PGconn, nonblocking mode) and the       *)
(* PostgreSQL backend at its other end, as src/src uses them.  libpq and   *)
(* the server are not part of the repository; what is kept is what the     *)
(* calls in conn_pool.c, fe_protocol.c, copy_handler.c and session.c can   *)
(* observe: PQstatus, PQtransactionStatus, PQsendQuery, PQconsumeInput,    *)
(* PQisBusy, PQgetResult, PQgetCopyData and PQputCopyEnd.                  *)
(*                                                                         *)
(* The server's answer is a sequence of tokens, one per result or COPY     *)
(* message.  A ReadyForQuery is the token of the transaction status that   *)
(* it carries, so the status tokens double as PQtransactionStatus values.  *)
(***************************************************************************)
EXTENDS Integers, Sequences

CONSTANTS Conns,      \* PGconn addresses
          Shards,     \* configured shards
          NULL,       \* no connection, or the default backend
          Results     \* result lists an ordinary query may return

Status == {"IDLE", "INTRANS", "INERROR"}
Token == Status \cup {"Rows", "Complete", "Error",
                      "CopyIn", "CopyOut", "Data", "Done"}
Op == {"query", "begin", "commit", "copyin", "copyout"}

ASSUME LibpqAssumption ==
  /\ NULL \notin Conns
  /\ NULL \notin Shards
  /\ Results \subseteq Seq({"Rows", "Complete"})

(***************************************************************************)
(* The PGconn and its socket.  async is libpq's asyncStatus; inbuf holds   *)
(* what libpq has read and not parsed, wire what waits in the socket, todo *)
(* what the server has still to write.  notice: unsolicited bytes (a       *)
(* notice, a parameter change) wait in the socket.  link: the server end   *)
(* is up, has closed (fin) or has reset the connection (rst).              *)
(***************************************************************************)
PGconn == [status  : {"FREE", "OK", "BAD"},
           async   : {"idle", "busy", "copy_in", "copy_out"},
           xact    : Status,
           inbuf   : Seq(Token),
           wire    : Seq(Token),
           req     : Op \cup {"none"},
           todo    : Seq(Token),
           copying : BOOLEAN,
           notice  : BOOLEAN,
           link    : {"up", "fin", "rst"},
           home    : Shards \cup {NULL}]

\* Memory that holds no PGconn: what PQfinish leaves behind.
FreeConn == [status |-> "FREE", async |-> "idle", xact |-> "IDLE",
             inbuf |-> <<>>, wire |-> <<>>, req |-> "none", todo |-> <<>>,
             copying |-> FALSE, notice |-> FALSE, link |-> "up",
             home |-> NULL]

\* A successful PQconnectdb to shard sh (NULL: the default backend).
PQconnectdb(sh) == [FreeConn EXCEPT !.status = "OK", !.home = sh]

PQtransactionStatus(k) == IF k.status # "OK" THEN "UNKNOWN"
                          ELSE IF k.async # "idle" THEN "ACTIVE"
                          ELSE k.xact

\* PQsendQuery refuses a broken connection and one with a command under way.
PQsendQueryOK(k) == k.status = "OK" /\ k.async = "idle"
PQsendQuery(k, op) ==
  [k EXCEPT !.async = "busy", !.req = IF k.link = "up" THEN op ELSE "none"]

\* epoll reports the socket: bytes to read, end of file, or an error.
Readable(k) == k.status = "OK" /\ (k.wire # <<>> \/ k.notice \/ k.link # "up")

\* PQconsumeInput meets end of file: it closes the socket.
AtEOF(k) == k.link = "fin" /\ k.wire = <<>> /\ ~k.notice
Broken(k) == [k EXCEPT !.status = "BAD"]

\* PQconsumeInput with something to read moves the socket's bytes to inbuf.
PQconsumeInput(k) ==
  [k EXCEPT !.inbuf = @ \o k.wire, !.wire = <<>>, !.notice = FALSE]

\* Position i of q holds the first token of S; no token of S is in q.
IsFirst(q, i, S) == q[i] \in S /\ \A j \in 1..(i-1) : q[j] \notin S
Without(q, S) == \A i \in DOMAIN q : q[i] \notin S

\* The rest of q from position i on.
From(q, i) == SubSeq(q, i, Len(q))

\* PQgetResult returned NULL: the token at i of inbuf was ReadyForQuery.
GotReady(k, i) == [k EXCEPT !.async = "idle", !.xact = k.inbuf[i],
                            !.inbuf = From(@, i + 1)]

\* PQputCopyEnd: libpq expects results again.
PQputCopyEnd(k) == [k EXCEPT !.async = "busy"]

(***************************************************************************)
(* The server.                                                             *)
(***************************************************************************)
OnError(x) == IF x = "IDLE" THEN "IDLE" ELSE "INERROR"

\* The answers to op in transaction status x.
Response(op, x) ==
  LET failed == {<<"Error", OnError(x)>>}
  IN  IF op = "commit" THEN {<<"Complete", "IDLE">>}
      ELSE IF x = "INERROR" THEN failed
      ELSE CASE op = "query"   -> failed \cup {Append(r, x) : r \in Results}
             [] op = "begin"   -> {<<"Complete", "INTRANS">>}
             [] op = "copyin"  -> failed \cup {<<"CopyIn">>}
             [] op = "copyout" ->
                  {<<"CopyOut", "Data", "Done", "Complete", x>>,
                   <<"CopyOut", "Data", "Error", OnError(x)>>}

\* The server executes the request it has received ...
Execute(k, answer) == [k EXCEPT !.req = "none", !.todo = answer,
                                !.copying = answer = <<"CopyIn">>]

\* ... writes the next n tokens of its answer ...
Emit(k, n) == [k EXCEPT !.wire = @ \o SubSeq(k.todo, 1, n),
                        !.todo = From(@, n + 1)]

\* ... finishes a COPY FROM STDIN, with success or with an error, at the
\* client's CopyDone or CopyFail or, on a bad row, before it ...
CopyEnds(k, ok) ==
  [k EXCEPT !.copying = FALSE,
            !.todo = @ \o IF ok THEN <<"Complete", k.xact>>
                                ELSE <<"Error", OnError(k.xact)>>]

\* ... and may go away: how is "fin" or "rst" (which drops unread bytes).
Crash(k, how) ==
  [k EXCEPT !.link = how, !.req = "none", !.todo = <<>>, !.copying = FALSE,
            !.wire = IF how = "rst" THEN <<>> ELSE @,
            !.notice = IF how = "rst" THEN FALSE ELSE @]
=============================================================================
