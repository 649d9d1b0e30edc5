--------------------------- MODULE LendingProofs ---------------------------
(***************************************************************************)
(* The sessions and pools implement Lending, for any number of sessions,   *)
(* shards and connections.  One lemma per operator of Session that moves   *)
(* connections says that it moves those of its own session only (Moves);   *)
(* that each has one owner afterwards is the invariant of SessionProofs.   *)
(***************************************************************************)
EXTENDS SessionProofs

IdleOf(P, x) == Range(P[x].idle_conns)

\* A step of session s: the other sessions keep what they hold, and what becomes
\* idle was held by s.
Frame(s) == \A t \in Sessions \ {s} : /\ backend_conn'[t] = backend_conn[t]
                                      /\ scatter_conn'[t] = scatter_conn[t]
Gives(s) == \A x \in Shards : IdleOf(pool', x) \subseteq IdleOf(pool, x) \cup Holding(s)
Moves(s) == Frame(s) /\ Gives(s)

\* What a session holds, slot by slot.
LEMMA HoldingAt ==
  ASSUME NEW s \in Sessions
  PROVE  /\ backend_conn[s] # NULL => backend_conn[s] \in Holding(s)
         /\ \A x \in Shards : scatter_conn[s][x] # NULL => scatter_conn[s][x] \in Holding(s)
BY DEF Holding

\* conn_pool_release makes no other connection idle than the one it is given.
LEMMA ReleaseRange ==
  ASSUME NEW p \in PoolType, NEW C, NEW c \in Conns
  PROVE  /\ conn_pool_release(p, C, c) \in PoolType
         /\ Range(conn_pool_release(p, C, c).idle_conns) \subseteq Range(p.idle_conns) \cup {c}
<1>1. p.idle_conns \in Seq(Conns) /\ p.active_count - 1 \in Int
  BY DEF PoolType
<1>2. /\ Append(p.idle_conns, c) \in Seq(Conns)
      /\ Range(Append(p.idle_conns, c)) \subseteq Range(p.idle_conns) \cup {c}
  BY <1>1 DEF Range
<1>3. PICK q \in {p.idle_conns, Append(p.idle_conns, c)} :
        conn_pool_release(p, C, c) = [idle_conns |-> q, active_count |-> p.active_count - 1]
  BY Zenon DEF conn_pool_release
<1>4. q \in Seq(Conns) /\ Range(q) \subseteq Range(p.idle_conns) \cup {c}
  BY ONLY <1>1, <1>2, <1>3
<1> QED
  BY ONLY <1>1, <1>3, <1>4 DEF PoolType

\* conn_pool_acquire makes no connection idle, and what it lends was idle or is new.
LEMMA AcquireRange ==
  ASSUME NEW p \in PoolType, NEW C \in [Conns -> PGconn], NEW a \in conn_pool_acquire(p, C)
  PROVE  /\ a.pool \in PoolType /\ a.conn \in Conns \cup {NULL}
         /\ Range(a.pool.idle_conns) \subseteq Range(p.idle_conns)
         /\ a.conn # NULL => C[a.conn].status = "FREE" \/ a.conn \in Range(p.idle_conns)
<1>1. PICK n \in 0..Len(p.idle_conns) :
        /\ a.pool.idle_conns = SubSeq(p.idle_conns, 1, n)
        /\ a.conn # NULL => \/ C[a.conn].status = "FREE"
                            \/ n + 1 \in DOMAIN p.idle_conns /\ a.conn = p.idle_conns[n + 1]
  BY AcquireFacts
<1>2. p.idle_conns \in Seq(Conns)
  BY DEF PoolType
<1>3. Range(SubSeq(p.idle_conns, 1, n)) \subseteq Range(p.idle_conns)
  BY <1>2 DEF Range
<1>4. a.pool \in PoolType /\ a.conn \in Conns \cup {NULL}
  BY AcquireFacts
<1> QED
  BY <1>1, <1>3, <1>4 DEF Range

\* The pools after backend_conn is released.
LEMMA ReleaseBackendRange ==
  ASSUME TypeOK, NEW s \in Sessions, NEW C, NEW P, P = ReleaseBackend(pool, C, s)
  PROVE  /\ P \in [Shards -> PoolType]
         /\ \A x \in Shards : IdleOf(P, x) \subseteq IdleOf(pool, x) \cup Holding(s)
<1> DEFINE c == backend_conn[s]
           h == backend_shard[s]
<1>1. /\ pool \in [Shards -> PoolType] /\ c \in Conns \cup {NULL}
      /\ h \in Shards \cup {NULL}
  BY DEF TypeOK
<1>2. CASE c # NULL /\ h # NULL
  <2> DEFINE r == conn_pool_release(pool[h], C, c)
  <2>1. P = [pool EXCEPT ![h] = r] /\ c \in Conns /\ h \in Shards
    BY <1>1, <1>2 DEF ReleaseBackend
  <2>2. r \in PoolType /\ Range(r.idle_conns) \subseteq Range(pool[h].idle_conns) \cup {c}
    <3>1. pool[h] \in PoolType /\ c \in Conns
      BY <1>1, <2>1
    <3> QED
      BY ONLY <3>1, ReleaseRange, Zenon
  <2>3. c \in Holding(s)
    BY <1>2, HoldingAt
  <2> HIDE DEF c, h, r
  <2> QED
    BY ONLY <1>1, <2>1, <2>2, <2>3 DEF IdleOf
<1>3. CASE ~(c # NULL /\ h # NULL)
  <2>1. P = pool
    BY <1>3 DEF ReleaseBackend
  <2> QED
    BY <1>1, <2>1
<1> QED
  BY <1>2, <1>3

\* The pools after session_release_scatter.
LEMMA ReleaseScatterRange ==
  ASSUME TypeOK, NEW s \in Sessions, NEW C, NEW P \in [Shards -> PoolType], NEW x \in Shards
  PROVE  IdleOf(session_release_scatter(P, C, s), x) \subseteq IdleOf(P, x) \cup Holding(s)
<1> DEFINE c == scatter_conn[s][x]
           r == conn_pool_release(P[x], C, c)
<1>1. c \in Conns \cup {NULL} /\ P[x] \in PoolType
  BY DEF TypeOK
<1>2. session_release_scatter(P, C, s)[x] = IF c # NULL THEN r ELSE P[x]
  BY DEF session_release_scatter
<1>3. CASE c # NULL
  <2>1. c \in Holding(s)
    BY <1>3, HoldingAt
  <2>2. Range(r.idle_conns) \subseteq Range(P[x].idle_conns) \cup {c}
    <3>1. P[x] \in PoolType /\ c \in Conns
      BY <1>1, <1>3
    <3> QED
      BY ONLY <3>1, ReleaseRange, Zenon
  <2> HIDE DEF c, r
  <2> QED
    BY <1>2, <1>3, <2>1, <2>2 DEF IdleOf
<1> QED
  BY <1>2, <1>3 DEF IdleOf

\* session_destroy gives back what the session holds.
LEMMA DestroyMoves ==
  ASSUME TypeOK, NEW s \in Sessions, NEW C, session_destroy(s, C)
  PROVE  Moves(s)
<1> DEFINE P == ReleaseBackend(pool, C, s)
<1>1. /\ P \in [Shards -> PoolType]
      /\ \A x \in Shards : IdleOf(P, x) \subseteq IdleOf(pool, x) \cup Holding(s)
  BY ReleaseBackendRange
<1>2. pool' = session_release_scatter(P, C, s)
  BY DEF session_destroy
<1> HIDE DEF P
<1>3. \A x \in Shards : IdleOf(pool', x) \subseteq IdleOf(P, x) \cup Holding(s)
  BY <1>1, <1>2, ReleaseScatterRange
<1>4. Frame(s)
  BY DEF session_destroy, Frame, TypeOK
<1> QED
  BY <1>1, <1>3, <1>4 DEF Moves, Gives

\* A step that leaves the pools and the slots alone.
LEMMA KeepMoves ==
  ASSUME NEW s \in Sessions, UNCHANGED <<backend_conn, scatter_conn, pool>>
  PROVE  Moves(s)
BY DEF Moves, Frame, Gives

\* The end of a query gives the connection back, or keeps it.
LEMMA ReadyMoves ==
  ASSUME TypeOK, NEW s \in Sessions, NEW c, NEW k, NEW toks, ReadyForQuery(s, c, k, toks)
  PROVE  Moves(s)
<1> DEFINE C == [conn EXCEPT ![c] = k]
           P == ReleaseBackend(pool, C, s)
<1>1. CASE SendFails(s, C)
  BY <1>1, DestroyMoves, Zenon DEF SendFails
<1>2. CASE ~SendFails(s, C)
  <2>1. /\ pool' = P \/ pool' = pool
        /\ backend_conn' = backend_conn \/ backend_conn' = [backend_conn EXCEPT ![s] = NULL]
        /\ scatter_conn' = scatter_conn
    BY <1>2, Zenon DEF ReadyForQuery, scatterVars
  <2>2. \A x \in Shards : IdleOf(P, x) \subseteq IdleOf(pool, x) \cup Holding(s)
    BY ReleaseBackendRange, Zenon
  <2>3. Gives(s)
    <3> HIDE DEF P
    <3> QED
      BY ONLY <2>1, <2>2 DEF Gives
  <2>4. Frame(s)
    BY <2>1 DEF Frame, TypeOK
  <2> QED
    BY <2>3, <2>4 DEF Moves
<1> QED
  BY <1>1, <1>2

\* The wait inside PQgetResult, and the COPY states.
LEMMA WaitMoves ==
  ASSUME TypeOK, NEW s \in Sessions, NEW c, NEW k, NEW toks, NEW st,
         WaitInGetResult(s, c, k, toks) \/ EnterCopy(s, c, k, st, toks)
  PROVE  Moves(s)
<1>1. CASE SendFails(s, [conn EXCEPT ![c] = k])
  BY <1>1, DestroyMoves, Zenon DEF SendFails
<1>2. CASE UNCHANGED <<backendVars, scatterVars, pool, envVars>>
  BY <1>2, KeepMoves DEF backendVars, scatterVars
<1> QED
  BY <1>1, <1>2, Zenon DEF WaitInGetResult, EnterCopy

\* The end of COPY OUT ...
LEMMA FinalResultMoves ==
  ASSUME TypeOK, NEW s \in Sessions, NEW c, NEW k, NEW toks, FinalResult(s, c, k, toks)
  PROVE  Moves(s)
BY ReadyMoves, WaitMoves, Zenon DEF FinalResult

\* ... and its data.
LEMMA CopyOutReadMoves ==
  ASSUME TypeOK, NEW s \in Sessions, NEW c, NEW k, NEW toks, copy_out_read(s, c, k, toks)
  PROVE  Moves(s)
BY FinalResultMoves, WaitMoves, Zenon DEF copy_out_read

\* The loop over PQgetResult.
LEMMA GetResultsMoves ==
  ASSUME TypeOK, NEW s \in Sessions, NEW c, NEW k, GetResults(s, c, k)
  PROVE  Moves(s)
BY ReadyMoves, WaitMoves, CopyOutReadMoves, Zenon DEF GetResults

\* session_on_backend_readable, and the end of its wait.
LEMMA BackendMoves ==
  ASSUME TypeOK, NEW s \in Sessions, session_on_backend_readable(s) \/ BackendWaitEnds(s)
  PROVE  Moves(s)
<1>1. ASSUME NEW c, NEW k, AfterConsume(s, c, k) PROVE Moves(s)
  <2>1. CASE UNCHANGED <<state, backendVars, scatterVars, reply, pool, blocked, envVars>>
    BY <2>1, KeepMoves DEF backendVars, scatterVars
  <2> QED
    BY <1>1, <2>1, GetResultsMoves, ReadyMoves, WaitMoves, CopyOutReadMoves, Zenon
    DEF AfterConsume
<1>2. CASE BackendWaitEnds(s)
  BY <1>2, GetResultsMoves, FinalResultMoves, ReadyMoves, Zenon DEF BackendWaitEnds
<1> QED
  BY <1>1, <1>2, DestroyMoves, Zenon DEF session_on_backend_readable

\* A shard of a scatter is done.
LEMMA ShardDoneMoves ==
  ASSUME TypeOK, NEW s \in Sessions, NEW sh, NEW C, NEW q, ShardDone(s, sh, C, q)
  PROVE  Moves(s)
<1>1. CASE SendFails(s, C)
  BY <1>1, DestroyMoves, Zenon DEF SendFails
<1>2. CASE UNCHANGED <<state, backendVars, scatter_conn, pool, envVars>>
  BY <1>2, KeepMoves DEF backendVars
<1>3. CASE /\ pool' = session_release_scatter(pool, C, s)
           /\ scatter_conn' = [scatter_conn EXCEPT ![s] = [x \in Shards |-> NULL]]
           /\ UNCHANGED <<backendVars, envVars>>
  <2>1. Gives(s)
    <3>1. pool \in [Shards -> PoolType]
      BY DEF TypeOK
    <3> QED
      BY <1>3, <3>1, ReleaseScatterRange, Zenon DEF Gives
  <2>2. Frame(s)
    BY <1>3 DEF Frame, TypeOK, backendVars
  <2> QED
    BY <2>1, <2>2 DEF Moves
<1> QED
  BY <1>1, <1>2, <1>3, Zenon DEF ShardDone

\* session_on_scatter_readable, and the end of its wait.
LEMMA ScatterMoves ==
  ASSUME TypeOK, NEW s \in Sessions, NEW sh \in Shards,
         session_on_scatter_readable(s, sh) \/ ScatterWaitEnds(s, sh)
  PROVE  Moves(s)
<1>1. ASSUME NEW c, NEW k, ScatterResults(s, sh, c, k) PROVE Moves(s)
  <2>1. CASE UNCHANGED <<state, backendVars, scatter_conn, done, scatter_done, pool, envVars>>
    BY <2>1, KeepMoves DEF backendVars
  <2> QED
    BY <1>1, <2>1, ShardDoneMoves, Zenon DEF ScatterResults
<1>2. CASE UNCHANGED <<state, backendVars, scatterVars, reply, pool, blocked, envVars>>
  BY <1>2, KeepMoves DEF backendVars, scatterVars
<1> QED
  BY <1>1, <1>2, ShardDoneMoves, Zenon DEF session_on_scatter_readable, ScatterWaitEnds

\* Connecting makes nothing idle.
LEMMA ConnectRange ==
  ASSUME NEW P \in [Shards -> PoolType], NEW C \in [Conns -> PGconn],
         NEW shard \in Shards \cup {NULL},
         NEW r \in IF shard = NULL THEN connect_to_default(P, C)
                   ELSE connect_to_shard(P, C, shard),
         NEW x \in Shards
  PROVE  IdleOf(r.pool, x) \subseteq IdleOf(P, x)
<1>1. CASE shard = NULL
  <2>1. CASE r = [conn |-> NULL, pool |-> P, table |-> C]
    BY <2>1
  <2>2. ASSUME NEW f \in Conns,
               r = [conn |-> f, pool |-> P, table |-> [C EXCEPT ![f] = PQconnectdb(NULL)]]
        PROVE  r.pool = P
    BY <2>2
  <2> QED
    BY <1>1, <2>1, <2>2 DEF connect_to_default
<1>2. CASE shard # NULL
  <2>0. PICK a \in conn_pool_acquire(P[shard], C) :
          r = [conn |-> a.conn, pool |-> [P EXCEPT ![shard] = a.pool],
               table |-> Acquired(C, P, [P EXCEPT ![shard] = a.pool],
                                  [y \in Shards |-> IF y = shard THEN a.conn ELSE NULL])]
    BY <1>2, Zenon DEF connect_to_shard
  <2>1. r.pool = [P EXCEPT ![shard] = a.pool]
    BY <2>0
  <2>2. P[shard] \in PoolType
    BY <1>2
  <2>3. Range(a.pool.idle_conns) \subseteq Range(P[shard].idle_conns)
    BY <2>0, <2>2, AcquireRange, Zenon
  <2> QED
    BY ONLY <1>2, <2>1, <2>3, shard \in Shards \cup {NULL}, P \in [Shards -> PoolType],
            x \in Shards DEF IdleOf
<1> QED
  BY <1>1, <1>2

\* execute_single and execute_unsharded.
LEMMA ReconnectMoves ==
  ASSUME TypeOK, NEW s \in Sessions, NEW shard \in Shards \cup {NULL}, NEW op,
         Reconnect(s, shard, op), UNCHANGED scatter_conn
  PROVE  Moves(s)
<1> DEFINE P == ReleaseBackend(pool, conn, s)
           C == Finish(conn, {backend_conn[s]}, P)
<1>1. /\ P \in [Shards -> PoolType]
      /\ \A x \in Shards : IdleOf(P, x) \subseteq IdleOf(pool, x) \cup Holding(s)
  BY ReleaseBackendRange, Zenon
<1>2. C \in [Conns -> PGconn]
  BY FinishType, Zenon DEF TypeOK
<1>3. PICK r \in IF shard = NULL THEN connect_to_default(P, C)
                 ELSE connect_to_shard(P, C, shard) :
        /\ pool' = r.pool
        /\ backend_conn' = [backend_conn EXCEPT ![s] = r.conn]
  BY Zenon DEF Reconnect
<1> HIDE DEF P, C
<1>4. \A x \in Shards : IdleOf(r.pool, x) \subseteq IdleOf(P, x)
  BY <1>1, <1>2, <1>3, ConnectRange, Zenon
<1>5. Gives(s)
  BY ONLY <1>1, <1>3, <1>4 DEF Gives
<1>6. Frame(s)
  BY <1>3 DEF Frame, TypeOK
<1> QED
  BY <1>5, <1>6 DEF Moves

\* execute_scatter: a connection that refuses the query was idle before.
LEMMA ScatterToMoves ==
  ASSUME TypeOK, NEW s \in Sessions, NEW op, NEW a, ScatterTo(s, op, a), UNCHANGED backend_conn
  PROVE  Moves(s)
<1> DEFINE L == [sh \in Shards |-> a[sh].conn]
           Q == [sh \in Shards |-> a[sh].pool]
           T == Acquired(conn, pool, Q, L)
           sent == {sh \in Shards : L[sh] # NULL /\ PQsendQueryOK(T[L[sh]])}
<1>1. /\ \A sh \in Shards : a[sh] \in conn_pool_acquire(pool[sh], conn)
      /\ pool' = [sh \in Shards |-> IF L[sh] = NULL \/ sh \in sent THEN Q[sh]
                                    ELSE conn_pool_release(Q[sh], T, L[sh])]
      /\ scatter_conn' = [scatter_conn EXCEPT ![s] =
                            [sh \in Shards |-> IF sh \in sent THEN L[sh] ELSE NULL]]
  BY Zenon DEF ScatterTo
<1>2. pool \in [Shards -> PoolType] /\ conn \in [Conns -> PGconn]
  BY DEF TypeOK
<1>3. ASSUME NEW x \in Shards PROVE IdleOf(pool', x) \subseteq IdleOf(pool, x)
  <2>1. /\ L[x] = a[x].conn /\ Q[x] = a[x].pool
        /\ a[x] \in conn_pool_acquire(pool[x], conn) /\ pool[x] \in PoolType
    BY <1>1, <1>2
  <2>2. /\ Q[x] \in PoolType /\ L[x] \in Conns \cup {NULL}
        /\ Range(Q[x].idle_conns) \subseteq Range(pool[x].idle_conns)
        /\ L[x] # NULL => conn[L[x]].status = "FREE" \/ L[x] \in Range(pool[x].idle_conns)
    BY ONLY <1>2, <2>1, AcquireRange
  <2>3. ASSUME L[x] # NULL, conn[L[x]].status = "FREE" PROVE x \in sent
    <3>1. \A z : PQsendQueryOK(PQconnectdb(z))
      BY DEF PQsendQueryOK, PQconnectdb, FreeConn
    <3>2. \E sh \in Shards : L[sh] = L[x]
      OBVIOUS
    <3>3. L[x] \in Conns
      BY <2>2, <2>3
    <3> HIDE DEF L, Q
    <3>4. T[L[x]] = PQconnectdb(CHOOSE sh \in Shards : L[sh] = L[x])
      BY <2>3, <3>2, <3>3 DEF Acquired
    <3> HIDE DEF T
    <3> QED
      BY <2>3, <3>1, <3>4
  <2>4. pool'[x] = IF L[x] = NULL \/ x \in sent THEN Q[x]
                   ELSE conn_pool_release(Q[x], T, L[x])
    BY <1>1, Zenon
  <2> HIDE DEF L, Q, T, sent
  <2>5. CASE L[x] = NULL \/ x \in sent
    BY <2>2, <2>4, <2>5 DEF IdleOf
  <2>6. CASE ~(L[x] = NULL \/ x \in sent)
    <3>1. L[x] \in Conns /\ L[x] \in Range(pool[x].idle_conns)
      BY <2>2, <2>3, <2>6
    <3>2. Range(conn_pool_release(Q[x], T, L[x]).idle_conns) \subseteq Range(Q[x].idle_conns) \cup {L[x]}
      BY ONLY <2>2, <3>1, ReleaseRange, Zenon
    <3> QED
      BY ONLY <2>2, <2>4, <2>6, <3>1, <3>2 DEF IdleOf
  <2> QED
    BY <2>5, <2>6
<1>4. Frame(s)
  BY <1>1 DEF Frame, TypeOK
<1> QED
  BY <1>3, <1>4 DEF Moves, Gives

\* handle_query.
LEMMA QueryMoves ==
  ASSUME TypeOK, NEW s \in Sessions, NEW q \in Requests, handle_query(s, q)
  PROVE  Moves(s)
<1>1. q.shard \in Shards \cup {NULL} /\ NULL \in Shards \cup {NULL}
  BY SessionAssumption
<1>2. ASSUME NEW shard \in Shards \cup {NULL}, NEW op,
             Reconnect(s, shard, op) \/ UNCHANGED <<pool, backendVars>>,
             UNCHANGED <<scatterVars, blocked, envVars>>
      PROVE  Moves(s)
  <2>1. UNCHANGED scatter_conn
    BY <1>2 DEF scatterVars
  <2>2. UNCHANGED <<pool, backendVars>> => UNCHANGED <<backend_conn, pool>>
    BY DEF backendVars
  <2> QED
    BY <1>2, <2>1, <2>2, ReconnectMoves, KeepMoves, Zenon
<1>3. ASSUME NEW answer, ReplyLocally(s, answer) PROVE Moves(s)
  BY <1>3, KeepMoves DEF ReplyLocally, backendVars, scatterVars
<1>4. CASE execute_scatter(s, q.op)
  <2>1. UNCHANGED backend_conn
    BY <1>4 DEF execute_scatter, backendVars
  <2> QED
    BY <1>4, <2>1, ScatterToMoves, Zenon DEF execute_scatter
<1>5. CASE execute_single(s, q.shard, q.op)
  BY <1>1, <1>2, <1>5, Zenon DEF execute_single
<1>6. CASE execute_unsharded(s, q.op)
  BY <1>1, <1>2, <1>6, Zenon DEF execute_unsharded
<1> QED
  BY <1>3, <1>4, <1>5, <1>6, Zenon DEF handle_query

\* One owner each, in the terms of Lending.
Slots(B, S, s) == ({B[s]} \cup {S[s][x] : x \in Shards}) \ {NULL}

LEMMA OwnersApart ==
  ASSUME NEW B, NEW S, NEW P, NEW C, Exclusive(B, S, P, C)
  PROVE  /\ \A x, y \in Shards : x # y => IdleOf(P, x) \cap IdleOf(P, y) = {}
         /\ \A s, t \in Sessions : s # t => Slots(B, S, s) \cap Slots(B, S, t) = {}
         /\ \A x \in Shards, s \in Sessions : IdleOf(P, x) \cap Slots(B, S, s) = {}
<1>1. IdleOnce(P) /\ HeldOnce(B, S) /\ IdleUnheld(B, S, P)
  BY DEF Exclusive
<1>2. ASSUME NEW x \in Shards, NEW y \in Shards, x # y
      PROVE  IdleOf(P, x) \cap IdleOf(P, y) = {}
  BY <1>1, <1>2 DEF IdleOnce, IdleOf, Range
<1>3. ASSUME NEW s \in Sessions, NEW t \in Sessions, s # t
      PROVE  Slots(B, S, s) \cap Slots(B, S, t) = {}
  BY <1>1, <1>3 DEF HeldOnce, Slots
<1>4. ASSUME NEW x \in Shards, NEW s \in Sessions
      PROVE  IdleOf(P, x) \cap Slots(B, S, s) = {}
  <2>1. \A c \in IdleOf(P, x) : Unheld(B, S, c)
    BY <1>1 DEF IdleUnheld, Idle, IdleOf
  <2> QED
    BY <2>1 DEF Unheld, Slots
<1> QED
  BY <1>2, <1>3, <1>4

\* A step of a session is an exchange of Lending.
LEMMA MovesExchange ==
  ASSUME NEW s \in Sessions, Moves(s), ExclusiveOwner'
  PROVE  Lends!Exchange(s)
<1>1. /\ \A x, y \in Shards : x # y => idleNow'[x] \cap idleNow'[y] = {}
      /\ \A u, t \in Sessions : u # t => heldNow'[u] \cap heldNow'[t] = {}
      /\ \A x \in Shards, u \in Sessions : idleNow'[x] \cap heldNow'[u] = {}
  <2>1. Exclusive(backend_conn', scatter_conn', pool', conn')
    BY DEF ExclusiveOwner
  <2>2. /\ \A u \in Sessions : heldNow'[u] = Slots(backend_conn', scatter_conn', u)
        /\ \A x \in Shards : idleNow'[x] = IdleOf(pool', x)
    BY DEF idleNow, heldNow, Holding, Slots, IdleOf
  <2> QED
    BY ONLY <2>1, <2>2, OwnersApart
<1>2. \A t \in Sessions \ {s} : heldNow'[t] = heldNow[t]
  BY DEF Moves, Frame, heldNow, Holding
<1>3. \A x \in Shards : idleNow'[x] \subseteq idleNow[x] \cup heldNow[s]
  BY DEF Moves, Gives, idleNow, heldNow, IdleOf
<1> QED
  BY <1>1, <1>2, <1>3 DEF Lends!Exchange, Lends!OneOwnerEach

\* A step of Session is a step of Lending, or changes nothing there.
LEMMA NextLends ==
  ASSUME IInv, IInv', [Next]_vars
  PROVE  [Lends!Next]_<<idleNow, heldNow>>
<1>1. TypeOK /\ ExclusiveOwner'
  BY DEF IInv, OwnNow, Own, ExclusiveOwner
<1>2. ASSUME NEW s \in Sessions, Moves(s) PROVE Lends!Next
  BY <1>1, <1>2, MovesExchange, Zenon DEF Lends!Next
<1>3. ASSUME UNCHANGED <<backend_conn, scatter_conn, pool>>
      PROVE  UNCHANGED <<idleNow, heldNow>>
  BY <1>3 DEF idleNow, heldNow, Holding
<1>4. ASSUME NEW s \in Sessions,
             \/ on_accept(s) \/ handle_startup_message(s) \/ ClientGone(s)
             \/ RefuseExtended(s)
             \/ \E q \in Requests : handle_query(s, q)
             \/ \E ok \in BOOLEAN : CopyEnd(s, ok)
             \/ session_on_backend_readable(s) \/ BackendWaitEnds(s)
             \/ \E sh \in Shards :
                  session_on_scatter_readable(s, sh) \/ ScatterWaitEnds(s, sh)
      PROVE  Moves(s)
  <2>1. CASE \/ on_accept(s) \/ handle_startup_message(s) \/ RefuseExtended(s)
             \/ \E ok \in BOOLEAN : CopyEnd(s, ok)
    <3>1. UNCHANGED <<backend_conn, scatter_conn, pool>>
      BY <2>1, Zenon DEF on_accept, handle_startup_message, RefuseExtended, ReplyLocally,
           CopyEnd, backendVars, scatterVars
    <3> QED
      BY <3>1, KeepMoves
  <2>2. CASE ClientGone(s)
    BY <1>1, <2>2, DestroyMoves, Zenon DEF ClientGone
  <2> QED
    BY <1>1, <1>4, <2>1, <2>2, QueryMoves, BackendMoves, ScatterMoves, Zenon
<1>5. CASE health_check_all
  <2>1. UNCHANGED <<backend_conn, scatter_conn>>
    BY <1>5 DEF health_check_all, backendVars, scatterVars
  <2>2. UNCHANGED pool
    BY <1>1, <1>5, HealthCheckFacts DEF IInv, OwnNow, Own
  <2> QED
    BY <1>3, <2>1, <2>2
<1>6. ASSUME NEW c \in Conns,
             \/ BackendExecutes(c) \/ BackendWrites(c) \/ BackendRejectsRow(c)
             \/ BackendNotice(c) \/ BackendCrash(c)
      PROVE  UNCHANGED <<idleNow, heldNow>>
  <2>1. UNCHANGED <<backend_conn, scatter_conn, pool>>
    BY <1>6, Zenon DEF BackendExecutes, BackendWrites, BackendRejectsRow, BackendNotice,
         BackendCrash, OnlyConn, backendVars, scatterVars
  <2> QED
    BY <1>3, <2>1
<1>7. CASE UNCHANGED vars
  BY <1>3, <1>7 DEF vars, backendVars, scatterVars
<1> QED
  BY <1>2, <1>4, <1>5, <1>6, <1>7, Zenon DEF Next

\* Refinement: in every behaviour of the sessions, pools and backends, connections
\* are lent as Lending says.
THEOREM LendingRefined == Spec => LendingKept
<1>1. Init => Lends!Init
  <2> SUFFICES ASSUME Init PROVE Lends!Init
    OBVIOUS
  <2>1. idleNow = [a \in Shards |-> {}]
    BY DEF Init, idleNow, conn_pool_init, Range
  <2>2. heldNow = [s \in Sessions |-> {}]
    BY DEF Init, heldNow, Holding
  <2> QED
    BY <2>1, <2>2 DEF Lends!Init
<1>2. IInv /\ IInv' /\ [Next]_vars => [Lends!Next]_<<idleNow, heldNow>>
  BY NextLends
<1> QED
  BY <1>1, <1>2, Invariance, PTL DEF Spec, LendingKept, Lends!Spec
=============================================================================
