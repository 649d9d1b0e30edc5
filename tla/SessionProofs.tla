---------------------------- MODULE SessionProofs ----------------------------
(***************************************************************************)
(* Theorems about Session, for any numbers of sessions, shards and         *)
(* connections, any pool size, any set of queries and any number of        *)
(* backend failures.  The inductive invariant IInv joins the types to Own  *)
(* (module Ownership): ownership is needed for the types, because the      *)
(* health check leaves the pools alone only while no idle connection is    *)
(* known to be broken, and that no session breaks an idle connection is    *)
(* a matter of ownership.                                                  *)
(***************************************************************************)
EXTENDS Ownership

OwnNow == Own(backend_conn, backend_shard, scatter_conn, pool, conn)
IInv == TypeOK /\ OwnNow

\* k is a later state of the open connection c.
Later(k, c) == k \in PGconn /\ k.status # "FREE" /\ k.home = conn[c].home

\* A session's own connection may change in any such way.
LEMMA TouchHeld ==
  ASSUME IInv, NEW s \in Sessions, NEW c \in Conns, NEW k, Later(k, c),
         c = backend_conn[s] \/ \E x \in Shards : c = scatter_conn[s][x]
  PROVE  Own(backend_conn, backend_shard, scatter_conn, pool, [conn EXCEPT ![c] = k])
<1> DEFINE C1 == [conn EXCEPT ![c] = k]
<1>1. conn \in [Conns -> PGconn] /\ C1 \in [Conns -> PGconn]
  BY DEF IInv, TypeOK, Later
<1>2. \A d \in Conns : C1[d] = IF d = c THEN k ELSE conn[d]
  BY <1>1
<1> HIDE DEF C1
<1>3. c \notin Idle(pool)
  BY DEF IInv, OwnNow, Own, Exclusive, IdleUnheld, Unheld
<1>4. IdleAlive(pool, conn) /\ OwnNow
  BY DEF IInv, OwnNow, Own
<1>5. \A d \in Conns : /\ C1[d].home = conn[d].home
                       /\ C1[d].status = "FREE" => conn[d].status = "FREE"
                       /\ d \in Idle(pool) => C1[d].status = "OK"
  BY <1>2, <1>3, <1>4, Zenon DEF IdleAlive, Later
<1> QED
  BY <1>1, <1>4, <1>5, Touch, Zenon DEF OwnNow, C1

\* A session gives up backend_conn: it goes to the pool of its shard, or is closed.
LEMMA DropBackend ==
  ASSUME TypeOK, NEW s \in Sessions, NEW C,
         Own(backend_conn, backend_shard, scatter_conn, pool, C),
         NEW P1, P1 = ReleaseBackend(pool, C, s), NEW D \in SUBSET {backend_conn[s]}
  PROVE  /\ Own([backend_conn EXCEPT ![s] = NULL], [backend_shard EXCEPT ![s] = NULL],
                scatter_conn, P1, Finish(C, D, P1))
         /\ \A c \in Idle(P1) : c \in Idle(pool) \/ c = backend_conn[s]
<1> DEFINE b == backend_conn[s]
           h == backend_shard[s]
           B1 == [backend_conn EXCEPT ![s] = NULL]
           BS1 == [backend_shard EXCEPT ![s] = NULL]
           r == [x \in Shards |-> IF x = h /\ b # NULL THEN b ELSE NULL]
<1>1. /\ backend_conn \in [Sessions -> Conns \cup {NULL}]
      /\ backend_shard \in [Sessions -> Shards \cup {NULL}]
      /\ b \in Conns \cup {NULL} /\ h \in Shards \cup {NULL}
  BY DEF TypeOK
<1>2. /\ \A t \in Sessions : B1[t] = IF t = s THEN NULL ELSE backend_conn[t]
      /\ \A t \in Sessions : BS1[t] = IF t = s THEN NULL ELSE backend_shard[t]
      /\ B1 \in [Sessions -> Conns \cup {NULL}] /\ BS1 \in [Sessions -> Shards \cup {NULL}]
  BY <1>1
<1>3. /\ OwnType(backend_conn, backend_shard, scatter_conn, pool, C)
      /\ HeldOnce(backend_conn, scatter_conn) /\ IdleUnheld(backend_conn, scatter_conn, pool)
      /\ AtHome(backend_conn, backend_shard, scatter_conn, pool, C)
  BY DEF Own, Exclusive
<1>4. Own(B1, BS1, scatter_conn, pool, C)
  <2>1. OwnType(B1, BS1, scatter_conn, pool, C)
    BY <1>2, <1>3 DEF OwnType
  <2>2. \A t \in Sessions :
           /\ B1[t] = NULL \/ (B1[t] = backend_conn[t] /\ BS1[t] = backend_shard[t])
           /\ \A x \in Shards : scatter_conn[t][x] = NULL \/ scatter_conn[t][x] = scatter_conn[t][x]
    BY <1>2
  <2> HIDE DEF B1, BS1
  <2> QED
    BY <2>1, <2>2, Forget, SMTT(30)
<1>5. b # NULL => Unheld(B1, scatter_conn, b) /\ b \notin Idle(pool) /\ C[b].home = h
  <2> HIDE DEF B1
  <2>1. ASSUME b # NULL PROVE Unheld(B1, scatter_conn, b)
    BY <1>2, <1>3, <2>1 DEF HeldOnce, Unheld
  <2>2. b \notin Idle(pool)
    BY <1>3 DEF IdleUnheld, Unheld
  <2>3. b # NULL => C[b].home = h
    BY <1>3 DEF AtHome
  <2> QED
    BY <2>1, <2>2, <2>3
<1> HIDE DEF B1, BS1, b, h
<1>6. /\ r \in [Shards -> Conns \cup {NULL}]
      /\ \A x \in Shards : r[x] = IF x = h /\ b # NULL THEN b ELSE NULL
  BY <1>1
<1> HIDE DEF r
<1>7. P1 = [x \in Shards |-> IF r[x] = NULL THEN pool[x]
                             ELSE conn_pool_release(pool[x], C, r[x])]
  <2>1. pool \in [Shards -> PoolType]
    BY DEF TypeOK
  <2>2. CASE b # NULL /\ h # NULL
    <3>1. P1 = [pool EXCEPT ![h] = conn_pool_release(@, C, b)]
      BY <2>2 DEF ReleaseBackend, b, h
    <3> QED
      BY <1>6, <2>1, <2>2, <3>1, Zenon
  <2>3. CASE ~(b # NULL /\ h # NULL)
    <3>1. P1 = pool
      BY <2>3 DEF ReleaseBackend, b, h
    <3>2. \A x \in Shards : r[x] = NULL
      BY <1>6, <2>3, LibpqAssumption
    <3> QED
      BY <2>1, <3>1, <3>2
  <2> QED
    BY <2>2, <2>3
<1>8. /\ \A x, y \in Shards : r[x] = r[y] => x = y \/ r[x] = NULL
      /\ \A x \in Shards : r[x] # NULL => /\ r[x] \notin Idle(pool) /\ Unheld(B1, scatter_conn, r[x])
                                          /\ C[r[x]].home = x
      /\ \A c \in D \cap Conns : Unheld(B1, scatter_conn, c)
  BY <1>5, <1>6, LibpqAssumption DEF b
<1>9. GivesBack(B1, scatter_conn, pool, C, r, P1)
  BY <1>6, <1>7, <1>8 DEF GivesBack
<1>10. Own(B1, BS1, scatter_conn, P1, Finish(C, D, P1))
  BY ONLY <1>4, <1>8, <1>9, Return, SMTT(30)
<1>11. \A c \in Idle(P1) : c \in Idle(pool) \/ \E x \in Shards : r[x] = c /\ r[x] # NULL
  <2>1. PoolsAfter(pool, C, r, P1)
    BY ONLY <1>4, <1>9, ReturnPools, Zenon
  <2> QED
    BY ONLY <2>1 DEF PoolsAfter
<1> QED
  BY <1>6, <1>10, <1>11 DEF B1, BS1, b

\* session_destroy.
LEMMA DestroyOwn ==
  ASSUME TypeOK, NEW s \in Sessions, NEW C,
         Own(backend_conn, backend_shard, scatter_conn, pool, C), session_destroy(s, C)
  PROVE  OwnNow'
<1> DEFINE P1 == ReleaseBackend(pool, C, s)
           B1 == [backend_conn EXCEPT ![s] = NULL]
           BS1 == [backend_shard EXCEPT ![s] = NULL]
           S1 == [scatter_conn EXCEPT ![s] = [sh \in Shards |-> NULL]]
           r == scatter_conn[s]
<1>1. C \in [Conns -> PGconn] /\ {} \in SUBSET {backend_conn[s]}
  BY DEF Own, OwnType
<1>2. Finish(C, {}, P1) = C
  BY <1>1 DEF Finish
<1>3. /\ Own(B1, BS1, scatter_conn, P1, C)
      /\ \A c \in Idle(P1) : c \in Idle(pool) \/ c = backend_conn[s]
  BY <1>1, <1>2, DropBackend, SMTT(30)
<1>4. /\ scatter_conn \in [Sessions -> [Shards -> Conns \cup {NULL}]]
      /\ backend_conn \in [Sessions -> Conns \cup {NULL}]
      /\ r \in [Shards -> Conns \cup {NULL}]
  BY DEF TypeOK
<1>5. /\ \A t \in Sessions : B1[t] = IF t = s THEN NULL ELSE backend_conn[t]
      /\ \A t \in Sessions : S1[t] = IF t = s THEN [sh \in Shards |-> NULL] ELSE scatter_conn[t]
      /\ S1 \in [Sessions -> [Shards -> Conns \cup {NULL}]]
  BY <1>4
<1>6. /\ pool' = session_release_scatter(P1, C, s)
      /\ conn' = Finish(C, Holding(s), pool')
      /\ backend_conn' = B1 /\ backend_shard' = BS1 /\ scatter_conn' = S1
  BY DEF session_destroy
<1>7. pool' = [x \in Shards |-> IF r[x] = NULL THEN P1[x] ELSE conn_pool_release(P1[x], C, r[x])]
  BY <1>6 DEF session_release_scatter
<1>8. /\ HeldOnce(backend_conn, scatter_conn) /\ IdleUnheld(backend_conn, scatter_conn, pool)
      /\ AtHome(backend_conn, backend_shard, scatter_conn, pool, C)
  BY DEF Own, Exclusive
<1> HIDE DEF P1, B1, BS1, S1
<1>9. Own(B1, BS1, S1, P1, C)
  <2>1. OwnType(B1, BS1, S1, P1, C)
    BY <1>3, <1>5 DEF Own, OwnType
  <2>2. \A t \in Sessions :
           /\ B1[t] = NULL \/ (B1[t] = B1[t] /\ BS1[t] = BS1[t])
           /\ \A x \in Shards : S1[t][x] = NULL \/ S1[t][x] = scatter_conn[t][x]
    BY <1>5
  <2> QED
    BY ONLY <1>3, <2>1, <2>2, Forget, SMTT(30)
<1>10. \A x, y \in Shards : r[x] = r[y] => x = y \/ r[x] = NULL
  BY <1>8 DEF HeldOnce
<1>11. \A x \in Shards : r[x] # NULL => /\ r[x] \notin Idle(P1) /\ Unheld(B1, S1, r[x])
                                        /\ C[r[x]].home = x
  <2>1. \A x \in Shards : r[x] # NULL => r[x] \notin Idle(P1)
    BY <1>3, <1>8 DEF HeldOnce, IdleUnheld, Unheld
  <2>2. \A x \in Shards : r[x] # NULL => Unheld(B1, S1, r[x])
    BY <1>5, <1>8 DEF HeldOnce, Unheld
  <2>3. \A x \in Shards : r[x] # NULL => C[r[x]].home = x
    BY <1>8 DEF AtHome
  <2> QED
    BY <2>1, <2>2, <2>3
<1>12. \A c \in Holding(s) \cap Conns : Unheld(B1, S1, c)
  <2>1. backend_conn[s] # NULL => Unheld(B1, S1, backend_conn[s])
    BY <1>5, <1>8 DEF HeldOnce, Unheld
  <2> QED
    BY <1>11, <2>1 DEF Holding
<1> HIDE DEF r
<1>13. Own(B1, BS1, S1, pool', Finish(C, Holding(s), pool'))
  <2>1. GivesBack(B1, S1, P1, C, r, pool')
    BY <1>4, <1>7, <1>10, <1>11 DEF GivesBack
  <2> QED
    BY ONLY <1>9, <1>12, <2>1, Return, SMTT(30)
<1> QED
  BY <1>6, <1>13 DEF OwnNow

\* The end of a query.
LEMMA ReadyForQueryOwn ==
  ASSUME IInv, NEW s \in Sessions, NEW c \in Conns, c = backend_conn[s],
         NEW k, Later(k, c), NEW toks, ReadyForQuery(s, c, k, toks)
  PROVE  OwnNow'
<1> DEFINE C == [conn EXCEPT ![c] = k]
           free == PQtransactionStatus(k) = "IDLE" /\ backend_shard[s] # NULL
<1>1. Own(backend_conn, backend_shard, scatter_conn, pool, C) /\ TypeOK
  BY TouchHeld, SMTT(30) DEF IInv
<1> HIDE DEF C
<1>2. CASE SendFails(s, C)
  BY <1>1, <1>2, DestroyOwn, SMTT(30) DEF SendFails
<1>3. CASE ~SendFails(s, C)
  <2>1. /\ pool' = IF free THEN ReleaseBackend(pool, C, s) ELSE pool
        /\ conn' = IF free THEN Finish(C, {c}, pool') ELSE C
        /\ backend_conn' = IF free THEN [backend_conn EXCEPT ![s] = NULL] ELSE backend_conn
        /\ backend_shard' = IF free THEN [backend_shard EXCEPT ![s] = NULL] ELSE backend_shard
        /\ scatter_conn' = scatter_conn
    BY <1>3 DEF ReadyForQuery, C, scatterVars
  <2> HIDE DEF free
  <2>2. CASE ~free
    BY <1>1, <2>1, <2>2 DEF OwnNow
  <2>3. CASE free
    <3>1. pool' = ReleaseBackend(pool, C, s) /\ {c} \in SUBSET {backend_conn[s]}
      BY <2>1, <2>3
    <3>2. Own([backend_conn EXCEPT ![s] = NULL], [backend_shard EXCEPT ![s] = NULL],
              scatter_conn, pool', Finish(C, {c}, pool'))
      BY ONLY <1>1, <3>1, s \in Sessions, DropBackend, SMTT(30)
    <3> QED
      BY <2>1, <2>3, <3>2 DEF OwnNow
  <2> QED
    BY <2>2, <2>3
<1> QED
  BY <1>2, <1>3

\* Steps that change nothing but the session's connection.
LEMMA OnlyTouch ==
  ASSUME IInv, NEW s \in Sessions, NEW c \in Conns, NEW k, Later(k, c),
         c = backend_conn[s] \/ \E x \in Shards : c = scatter_conn[s][x],
         conn' = [conn EXCEPT ![c] = k],
         UNCHANGED <<backend_conn, backend_shard, scatter_conn, pool>>
  PROVE  OwnNow'
BY TouchHeld, Zenon DEF OwnNow

\* The loop's wait inside PQgetResult, and the COPY states.
LEMMA WaitOwn ==
  ASSUME IInv, NEW s \in Sessions, NEW c \in Conns, c = backend_conn[s],
         NEW k, Later(k, c), NEW toks, NEW st,
         WaitInGetResult(s, c, k, toks) \/ EnterCopy(s, c, k, st, toks)
  PROVE  OwnNow'
<1>1. Own(backend_conn, backend_shard, scatter_conn, pool, [conn EXCEPT ![c] = k]) /\ TypeOK
  BY TouchHeld, SMTT(30) DEF IInv
<1>2. CASE SendFails(s, [conn EXCEPT ![c] = k])
  BY <1>1, <1>2, DestroyOwn, SMTT(30) DEF SendFails
<1>3. CASE ~SendFails(s, [conn EXCEPT ![c] = k])
  <2>1. /\ conn' = [conn EXCEPT ![c] = k]
        /\ UNCHANGED <<backend_conn, backend_shard, scatter_conn, pool>>
    BY <1>3 DEF WaitInGetResult, EnterCopy, backendVars, scatterVars
  <2> QED
    BY <2>1, OnlyTouch, Zenon
<1> QED
  BY <1>2, <1>3

\* What libpq's functions make of a connection is a later state of it.
LEMMA LaterFacts ==
  ASSUME NEW c \in Conns, NEW k, Later(k, c)
  PROVE  /\ Later(PQconsumeInput(k), c) /\ Later(Broken(k), c)
         /\ \A q \in Seq(Token) :
              /\ Later([k EXCEPT !.inbuf = q], c)
              /\ \A a \in {"busy", "copy_in", "copy_out"} :
                   Later([k EXCEPT !.async = a, !.inbuf = q], c)
         /\ \A i \in DOMAIN k.inbuf : k.inbuf[i] \in Status => Later(GotReady(k, i), c)
<1>1. k \in PGconn /\ k.status # "FREE" /\ k.home = conn[c].home
  BY DEF Later
<1>2. Later(PQconsumeInput(k), c)
  <2>1. PQconsumeInput(k).status = k.status /\ PQconsumeInput(k).home = k.home
    BY <1>1 DEF PQconsumeInput, PGconn
  <2> QED
    BY <1>1, <2>1, ConsumeType DEF Later
<1>3. Later(Broken(k), c)
  <2>1. Broken(k).status = "BAD" /\ Broken(k).home = k.home
    BY <1>1 DEF Broken, PGconn
  <2> QED
    BY <1>1, <2>1, BrokenType DEF Later
<1>4. ASSUME NEW q \in Seq(Token) PROVE Later([k EXCEPT !.inbuf = q], c)
  BY <1>1 DEF Later, PGconn
<1>5. ASSUME NEW q \in Seq(Token), NEW a \in {"busy", "copy_in", "copy_out"}
      PROVE  Later([k EXCEPT !.async = a, !.inbuf = q], c)
  BY <1>1, Zenon DEF Later, PGconn
<1>6. ASSUME NEW i \in DOMAIN k.inbuf, k.inbuf[i] \in Status PROVE Later(GotReady(k, i), c)
  <2>1. GotReady(k, i).status = k.status /\ GotReady(k, i).home = k.home
    BY <1>1 DEF GotReady, PGconn
  <2> QED
    BY <1>1, <1>6, <2>1, GotReadyType DEF Later
<1> QED
  BY <1>2, <1>3, <1>4, <1>5, <1>6, Zenon

\* The end of a COPY OUT.
LEMMA FinalResultOwn ==
  ASSUME IInv, NEW s \in Sessions, NEW c \in Conns, c = backend_conn[s],
         NEW k, Later(k, c), NEW toks, FinalResult(s, c, k, toks)
  PROVE  OwnNow'
<1>1. k.inbuf \in Seq(Token)
  BY DEF Later, PGconn
<1>2. CASE k.inbuf = <<>> /\ WaitInGetResult(s, c, k, toks)
  BY <1>2, WaitOwn, Zenon
<1>3. CASE k.inbuf # <<>>
  <2>1. Tail(k.inbuf) \in Seq(Token)
    BY <1>1, <1>3
  <2>2. Later([k EXCEPT !.inbuf = Tail(@)], c)
    BY <2>1, LaterFacts, Zenon
  <2> QED
    BY <1>3, <2>2, ReadyForQueryOwn, Zenon DEF FinalResult
<1> QED
  BY <1>2, <1>3 DEF FinalResult

\* copy_out_read.
LEMMA CopyOutReadOwn ==
  ASSUME IInv, NEW s \in Sessions, NEW c \in Conns, c = backend_conn[s],
         NEW k, Later(k, c), NEW toks, copy_out_read(s, c, k, toks)
  PROVE  OwnNow'
<1>1. k.inbuf \in Seq(Token)
  BY DEF Later, PGconn
<1>2. CASE EnterCopy(s, c, [k EXCEPT !.inbuf = <<>>], "COPY_OUT", toks \o k.inbuf)
  <2>1. <<>> \in Seq(Token)
    OBVIOUS
  <2>2. Later([k EXCEPT !.inbuf = <<>>], c)
    BY <2>1, LaterFacts, Zenon
  <2> QED
    BY <1>2, <2>2, WaitOwn, Zenon
<1>3. ASSUME NEW i \in DOMAIN k.inbuf, NEW t,
             FinalResult(s, c,
               [k EXCEPT !.async = "busy",
                         !.inbuf = From(@, IF @[i] = "Done" THEN i + 1 ELSE i)], t)
      PROVE  OwnNow'
  <2> DEFINE q == From(k.inbuf, IF k.inbuf[i] = "Done" THEN i + 1 ELSE i)
  <2>1. (IF k.inbuf[i] = "Done" THEN i + 1 ELSE i) \in 1..(Len(k.inbuf) + 1)
    BY <1>1
  <2>2. q \in Seq(Token)
    BY <1>1, <2>1, FromType
  <2>3. FinalResult(s, c, [k EXCEPT !.async = "busy", !.inbuf = q], t)
    BY <1>3
  <2> HIDE DEF q
  <2>4. Later([k EXCEPT !.async = "busy", !.inbuf = q], c)
    BY <2>2, LaterFacts, Zenon
  <2> QED
    BY <2>3, <2>4, FinalResultOwn, SMTT(30)
<1> QED
  BY <1>2, <1>3, Zenon DEF copy_out_read

\* The loop over PQgetResult.
LEMMA GetResultsOwn ==
  ASSUME IInv, NEW s \in Sessions, NEW c \in Conns, c = backend_conn[s],
         NEW k, Later(k, c), GetResults(s, c, k)
  PROVE  OwnNow'
<1>1. k.inbuf \in Seq(Token) /\ <<>> \in Seq(Token)
  BY DEF Later, PGconn
<1>2. CASE WaitInGetResult(s, c, [k EXCEPT !.inbuf = <<>>], Forward(s, k.inbuf))
  <2>1. Later([k EXCEPT !.inbuf = <<>>], c)
    BY <1>1, LaterFacts, Zenon
  <2> QED
    BY <1>2, <2>1, WaitOwn, Zenon
<1>3. ASSUME NEW i \in DOMAIN k.inbuf, NEW t,
             \/ k.inbuf[i] \in Status /\ ReadyForQuery(s, c, GotReady(k, i), t)
             \/ EnterCopy(s, c, [k EXCEPT !.async = "copy_in", !.inbuf = From(k.inbuf, i + 1)],
                          "COPY_IN", t)
             \/ copy_out_read(s, c,
                  [k EXCEPT !.async = "copy_out", !.inbuf = From(k.inbuf, i + 1)], t)
      PROVE  OwnNow'
  <2> DEFINE q == From(k.inbuf, i + 1)
  <2>1. i + 1 \in 1..(Len(k.inbuf) + 1)
    BY <1>1
  <2>2. q \in Seq(Token)
    BY <1>1, <2>1, FromType
  <2> HIDE DEF q
  <2>3. /\ Later([k EXCEPT !.async = "copy_in", !.inbuf = q], c)
        /\ Later([k EXCEPT !.async = "copy_out", !.inbuf = q], c)
        /\ k.inbuf[i] \in Status => Later(GotReady(k, i), c)
    BY <2>2, LaterFacts, Zenon
  <2> QED
    BY <1>3, <2>3, ReadyForQueryOwn, WaitOwn, CopyOutReadOwn, SMTT(30) DEF q
<1> QED
  BY <1>2, <1>3, Zenon DEF GetResults

\* session_on_backend_readable, and the end of its wait inside PQgetResult.
LEMMA BackendOwn ==
  ASSUME IInv, NEW s \in Sessions, session_on_backend_readable(s) \/ BackendWaitEnds(s)
  PROVE  OwnNow'
<1> DEFINE c == backend_conn[s]
           k == PQconsumeInput(conn[c])
<1>1. c \in Conns /\ conn \in [Conns -> PGconn] /\ TypeOK
  BY DEF session_on_backend_readable, BackendWaitEnds, IInv, TypeOK
<1>2. Later(conn[c], c)
  BY <1>1 DEF Later, IInv, OwnNow, Own, Exclusive, ClosedUnowned, Unheld
<1>3. Later(k, c) /\ Later(Broken(conn[c]), c) /\ Later(Broken(k), c)
  BY <1>1, <1>2, LaterFacts, Zenon
<1>4. Own(backend_conn, backend_shard, scatter_conn, pool, [conn EXCEPT ![c] = Broken(conn[c])])
  BY <1>1, <1>3, TouchHeld, Zenon
<1>5. CASE \/ session_destroy(s, conn)
           \/ session_destroy(s, [conn EXCEPT ![c] = Broken(@)])
  BY <1>1, <1>4, <1>5, DestroyOwn, SMTT(30) DEF IInv, OwnNow
<1>6. CASE AfterConsume(s, c, k)
  <2> HIDE DEF c, k
  <2>1. CASE /\ conn' = [conn EXCEPT ![c] = k]
             /\ UNCHANGED <<state, backendVars, scatterVars, reply, pool, blocked, envVars>>
    BY <1>1, <1>3, <2>1, OnlyTouch, Zenon DEF c, backendVars, scatterVars
  <2>2. CASE GetResults(s, c, k)
    BY <1>1, <1>3, <2>2, GetResultsOwn, SMTT(30) DEF c
  <2>3. CASE ReadyForQuery(s, c, k, <<>>)
    BY <1>1, <1>3, <2>3, ReadyForQueryOwn, Zenon DEF c
  <2>4. CASE EnterCopy(s, c, k, "COPY_IN", <<"CopyIn">>)
    BY <1>1, <1>3, <2>4, WaitOwn, SMTT(30) DEF c
  <2>5. CASE copy_out_read(s, c, k, <<"CopyOut">>)
    BY <1>1, <1>3, <2>5, CopyOutReadOwn, SMTT(30) DEF c
  <2> QED
    BY <1>6, <2>1, <2>2, <2>3, <2>4, <2>5 DEF AfterConsume
<1>7. CASE BackendWaitEnds(s)
  <2>1. PICK t : GetResults(s, c, k) \/ FinalResult(s, c, k, <<>>) \/ ReadyForQuery(s, c, Broken(k), t)
    BY <1>7 DEF BackendWaitEnds
  <2> HIDE DEF c, k
  <2> QED
    BY <1>1, <1>3, <2>1, GetResultsOwn, FinalResultOwn, ReadyForQueryOwn, Zenon DEF c
<1> QED
  BY <1>5, <1>6, <1>7 DEF session_on_backend_readable

\* A shard of a scatter is done; after the last one the slots are released.
LEMMA ShardDoneOwn ==
  ASSUME TypeOK, NEW s \in Sessions, NEW sh, NEW q, NEW C,
         Own(backend_conn, backend_shard, scatter_conn, pool, C), ShardDone(s, sh, C, q)
  PROVE  OwnNow'
<1> DEFINE r == scatter_conn[s]
           S1 == [scatter_conn EXCEPT ![s] = [x \in Shards |-> NULL]]
           D == {scatter_conn[s][x] : x \in Shards}
<1>1. CASE SendFails(s, C)
  BY <1>1, DestroyOwn, SMTT(30) DEF SendFails
<1>2. CASE conn' = C /\ UNCHANGED <<backendVars, scatter_conn, pool>>
  BY <1>2 DEF OwnNow, backendVars
<1>3. CASE /\ pool' = session_release_scatter(pool, C, s)
           /\ conn' = Finish(C, D, pool')
           /\ scatter_conn' = S1 /\ UNCHANGED backendVars
  <2>1. /\ scatter_conn \in [Sessions -> [Shards -> Conns \cup {NULL}]]
        /\ r \in [Shards -> Conns \cup {NULL}]
    BY DEF TypeOK
  <2>2. /\ \A t \in Sessions : S1[t] = IF t = s THEN [x \in Shards |-> NULL] ELSE scatter_conn[t]
        /\ S1 \in [Sessions -> [Shards -> Conns \cup {NULL}]]
    BY <2>1
  <2>3. pool' = [x \in Shards |-> IF r[x] = NULL THEN pool[x]
                                  ELSE conn_pool_release(pool[x], C, r[x])]
    BY <1>3 DEF session_release_scatter
  <2>4. /\ HeldOnce(backend_conn, scatter_conn) /\ IdleUnheld(backend_conn, scatter_conn, pool)
        /\ AtHome(backend_conn, backend_shard, scatter_conn, pool, C)
        /\ OwnType(backend_conn, backend_shard, scatter_conn, pool, C)
    BY DEF Own, Exclusive
  <2> HIDE DEF S1
  <2>5. Own(backend_conn, backend_shard, S1, pool, C)
    <3>1. OwnType(backend_conn, backend_shard, S1, pool, C)
      BY <2>2, <2>4 DEF OwnType
    <3>2. \A t \in Sessions :
            /\ \/ backend_conn[t] = NULL
               \/ backend_conn[t] = backend_conn[t] /\ backend_shard[t] = backend_shard[t]
            /\ \A x \in Shards : S1[t][x] = NULL \/ S1[t][x] = scatter_conn[t][x]
      BY <2>2
    <3> QED
      BY <3>1, <3>2, Forget, SMTT(30)
  <2>6. \A x, y \in Shards : r[x] = r[y] => x = y \/ r[x] = NULL
    BY <2>4 DEF HeldOnce
  <2>7. \A x \in Shards : r[x] # NULL => /\ r[x] \notin Idle(pool) /\ Unheld(backend_conn, S1, r[x])
                                         /\ C[r[x]].home = x
    <3>1. \A x \in Shards : r[x] # NULL => r[x] \notin Idle(pool)
      BY <2>4 DEF IdleUnheld, Unheld
    <3>2. \A x \in Shards : r[x] # NULL => Unheld(backend_conn, S1, r[x])
      BY <2>2, <2>4 DEF HeldOnce, Unheld
    <3>3. \A x \in Shards : r[x] # NULL => C[r[x]].home = x
      BY <2>4 DEF AtHome
    <3> QED
      BY <3>1, <3>2, <3>3
  <2>8. \A c \in D \cap Conns : Unheld(backend_conn, S1, c)
    BY <2>7, LibpqAssumption
  <2> HIDE DEF r, D
  <2>9. Own(backend_conn, backend_shard, S1, pool', Finish(C, D, pool'))
    <3>1. GivesBack(backend_conn, S1, pool, C, r, pool')
      BY <2>1, <2>3, <2>6, <2>7 DEF GivesBack
    <3> QED
      BY ONLY <2>5, <2>8, <3>1, Return, SMTT(30)
  <2> QED
    BY <1>3, <2>9 DEF OwnNow, backendVars
<1> QED
  BY <1>1, <1>2, <1>3 DEF ShardDone

\* session_on_scatter_readable's loop over PQgetResult.
LEMMA ScatterResultsOwn ==
  ASSUME IInv, NEW s \in Sessions, NEW sh \in Shards, NEW c \in Conns,
         c = scatter_conn[s][sh], NEW k, Later(k, c), ScatterResults(s, sh, c, k)
  PROVE  OwnNow'
<1>1. k.inbuf \in Seq(Token) /\ <<>> \in Seq(Token) /\ TypeOK
  BY DEF Later, PGconn, IInv
<1>2. CASE /\ conn' = [conn EXCEPT ![c] = [k EXCEPT !.inbuf = <<>>]]
           /\ UNCHANGED <<backendVars, scatter_conn, pool>>
  <2>1. Later([k EXCEPT !.inbuf = <<>>], c)
    BY <1>1, LaterFacts, Zenon
  <2> QED
    BY <1>2, <2>1, OnlyTouch, Zenon DEF backendVars
<1>3. ASSUME NEW i \in DOMAIN k.inbuf, IsFirst(k.inbuf, i, Status), NEW q,
             ShardDone(s, sh, [conn EXCEPT ![c] = GotReady(k, i)], q)
      PROVE  OwnNow'
  <2>1. Later(GotReady(k, i), c)
    BY <1>3, LaterFacts, Zenon DEF IsFirst
  <2>2. Own(backend_conn, backend_shard, scatter_conn, pool, [conn EXCEPT ![c] = GotReady(k, i)])
    BY <2>1, TouchHeld, SMTT(30)
  <2> QED
    BY <1>1, <1>3, <2>2, ShardDoneOwn, SMTT(30)
<1> QED
  BY <1>2, <1>3, Zenon DEF ScatterResults

\* session_on_scatter_readable, and the end of its wait inside PQgetResult.
LEMMA ScatterOwn ==
  ASSUME IInv, NEW s \in Sessions, NEW sh \in Shards,
         session_on_scatter_readable(s, sh) \/ ScatterWaitEnds(s, sh)
  PROVE  OwnNow'
<1> DEFINE c == scatter_conn[s][sh]
           k == PQconsumeInput(conn[c])
<1>1. c \in Conns /\ conn \in [Conns -> PGconn] /\ TypeOK
  <2>1. ASSUME session_on_scatter_readable(s, sh) PROVE scatter_conn[s][sh] # NULL
    BY <2>1, Zenon DEF session_on_scatter_readable
  <2>2. ASSUME ScatterWaitEnds(s, sh) PROVE scatter_conn[s][sh] # NULL
    BY <2>2 DEF ScatterWaitEnds
  <2>3. scatter_conn[s][sh] \in Conns \cup {NULL} /\ conn \in [Conns -> PGconn] /\ TypeOK
    BY DEF IInv, TypeOK
  <2> QED
    BY <2>1, <2>2, <2>3
<1>2. Later(conn[c], c)
  BY <1>1 DEF Later, IInv, OwnNow, Own, Exclusive, ClosedUnowned, Unheld
<1>3. Later(k, c) /\ Later(Broken(conn[c]), c) /\ Later(Broken(k), c)
  BY <1>1, <1>2, LaterFacts, Zenon
<1>4. /\ Own(backend_conn, backend_shard, scatter_conn, pool, [conn EXCEPT ![c] = Broken(conn[c])])
      /\ Own(backend_conn, backend_shard, scatter_conn, pool, [conn EXCEPT ![c] = Broken(k)])
      /\ Own(backend_conn, backend_shard, scatter_conn, pool, [conn EXCEPT ![c] = k])
      /\ Own(backend_conn, backend_shard, scatter_conn, pool, conn)
  BY <1>1, <1>3, TouchHeld, Zenon DEF IInv, OwnNow
<1>5. ASSUME NEW q, \/ ShardDone(s, sh, conn, q)
                    \/ ShardDone(s, sh, [conn EXCEPT ![c] = Broken(@)], q)
                    \/ ShardDone(s, sh, [conn EXCEPT ![c] = Broken(k)], q)
                    \/ ShardDone(s, sh, [conn EXCEPT ![c] = k], q)
      PROVE  OwnNow'
  BY <1>1, <1>4, <1>5, ShardDoneOwn, SMTT(30)
<1>6. CASE /\ conn' = [conn EXCEPT ![c] = k]
           /\ UNCHANGED <<state, backendVars, scatterVars, reply, pool, blocked, envVars>>
  BY <1>1, <1>4, <1>6 DEF OwnNow, backendVars, scatterVars
<1>7. CASE ScatterResults(s, sh, c, k)
  BY <1>1, <1>3, <1>7, ScatterResultsOwn, SMTT(30)
<1> QED
  BY <1>5, <1>6, <1>7, Zenon DEF session_on_scatter_readable, ScatterWaitEnds

\* PQsendQuery on a connection that is not idle in a pool.
LEMMA SendQueryOwn ==
  ASSUME NEW B, NEW BS, NEW S, NEW P, NEW C, Own(B, BS, S, P, C),
         NEW s \in Sessions, NEW c \in Conns \cup {NULL}, c \notin Idle(P),
         NEW op \in Op, SendQuery(s, c, C, op)
  PROVE  Own(B, BS, S, P, conn')
<1>1. C \in [Conns -> PGconn] /\ IdleAlive(P, C)
  BY DEF Own, OwnType
<1>2. CASE conn' = C
  BY <1>2
<1>3. CASE c # NULL /\ conn' = [C EXCEPT ![c] = PQsendQuery(C[c], op)]
  <2>1. C[c] \in PGconn /\ PQsendQuery(C[c], op) \in PGconn
    BY <1>1, <1>3, SendQueryType
  <2>2. PQsendQuery(C[c], op).home = C[c].home /\ PQsendQuery(C[c], op).status = C[c].status
    BY <2>1 DEF PQsendQuery, PGconn
  <2>3. conn' \in [Conns -> PGconn]
    BY <1>1, <1>3, <2>1
  <2>4. \A d \in Conns : conn'[d] = IF d = c THEN PQsendQuery(C[c], op) ELSE C[d]
    BY <1>1, <1>3
  <2>5. \A d \in Conns : /\ conn'[d].home = C[d].home
                         /\ conn'[d].status = "FREE" => C[d].status = "FREE"
                         /\ d \in Idle(P) => conn'[d].status = "OK"
    BY <1>1, <2>2, <2>4 DEF IdleAlive
  <2> QED
    BY ONLY Own(B, BS, S, P, C), <2>3, <2>5, Touch, SMTT(30)
<1> QED
  BY <1>2, <1>3 DEF SendQuery

\* A new connection to the default backend.
LEMMA OpenDefault ==
  ASSUME NEW B, NEW BS, NEW S, NEW P, NEW C, Own(B, BS, S, P, C),
         NEW f \in Conns, C[f].status = "FREE"
  PROVE  Own(B, BS, S, P, [C EXCEPT ![f] = PQconnectdb(NULL)])
<1> DEFINE n == PQconnectdb(NULL)
           C1 == [C EXCEPT ![f] = n]
<1>1. /\ OwnType(B, BS, S, P, C) /\ IdleOnce(P) /\ HeldOnce(B, S) /\ IdleUnheld(B, S, P)
      /\ ClosedUnowned(B, S, P, C) /\ IdleAlive(P, C) /\ AtHome(B, BS, S, P, C)
      /\ WithinLimit(P)
  BY DEF Own, Exclusive
<1>2. n \in PGconn
  BY ConnectType
<1> HIDE DEF n
<1>3. C1 \in [Conns -> PGconn] /\ \A c \in Conns : c # f => C1[c] = C[c]
  BY <1>1, <1>2 DEF OwnType
<1> HIDE DEF C1
<1>4. f \notin Idle(P) /\ Unheld(B, S, f)
  BY <1>1, Zenon DEF ClosedUnowned
<1>5. OwnType(B, BS, S, P, C1)
  BY <1>1, <1>3 DEF OwnType
<1>6. ClosedUnowned(B, S, P, C1)
  BY <1>1, <1>3, <1>4 DEF ClosedUnowned
<1>7. IdleAlive(P, C1)
  BY <1>1, <1>3, <1>4, IdleType, Zenon DEF IdleAlive, OwnType
<1>8. AtHome(B, BS, S, P, C1)
  <2>1. ASSUME NEW sh \in Shards, NEW i \in DOMAIN P[sh].idle_conns
        PROVE  C1[P[sh].idle_conns[i]].home = sh
    <3>1. P[sh].idle_conns[i] \in Idle(P) /\ P[sh].idle_conns[i] \in Conns
      BY <1>1, IdleEntry, SMTT(30) DEF OwnType
    <3>2. C1[P[sh].idle_conns[i]] = C[P[sh].idle_conns[i]]
      BY <1>3, <1>4, <3>1
    <3>3. C[P[sh].idle_conns[i]].home = sh
      BY <1>1 DEF AtHome
    <3> QED
      BY ONLY <3>2, <3>3
  <2>2. ASSUME NEW t \in Sessions
        PROVE  /\ B[t] # NULL => C1[B[t]].home = BS[t]
               /\ \A sh \in Shards : S[t][sh] # NULL => C1[S[t][sh]].home = sh
    <3>1. /\ B[t] \in Conns \cup {NULL} /\ B[t] # f
          /\ \A sh \in Shards : S[t][sh] \in Conns \cup {NULL} /\ S[t][sh] # f
      BY <1>1, <1>4 DEF OwnType, Unheld
    <3> QED
      BY <1>1, <1>3, <3>1, Zenon DEF AtHome
  <2> QED
    BY <2>1, <2>2 DEF AtHome
<1> QED
  BY <1>1, <1>5, <1>6, <1>7, <1>8 DEF Own, Exclusive, C1, n

\* What a connection that connect_to_shard or connect_to_default returns is like.
Connected(B, S, r, shard) ==
  r.conn # NULL => /\ r.conn \in Conns /\ r.conn \notin Idle(r.pool) /\ Unheld(B, S, r.conn)
                   /\ r.table[r.conn].status = "OK" /\ r.table[r.conn].home = shard

\* connect_to_shard and connect_to_default.
LEMMA ConnectOwn ==
  ASSUME NEW B, NEW BS, NEW S, NEW P, NEW C, Own(B, BS, S, P, C),
         NEW shard \in Shards \cup {NULL},
         NEW r \in IF shard = NULL THEN connect_to_default(P, C)
                   ELSE connect_to_shard(P, C, shard)
  PROVE  Own(B, BS, S, r.pool, r.table) /\ Connected(B, S, r, shard)
<1>1. C \in [Conns -> PGconn] /\ P \in [Shards -> PoolType]
  BY DEF Own, OwnType
<1>2. CASE shard = NULL
  <2>1. CASE r = [conn |-> NULL, pool |-> P, table |-> C]
    BY <2>1 DEF Connected
  <2>2. ASSUME NEW f \in Conns, C[f].status = "FREE",
               r = [conn |-> f, pool |-> P, table |-> [C EXCEPT ![f] = PQconnectdb(NULL)]]
        PROVE  Own(B, BS, S, r.pool, r.table) /\ Connected(B, S, r, shard)
    <3>1. r.conn = f /\ r.pool = P /\ r.table = [C EXCEPT ![f] = PQconnectdb(NULL)]
      BY <2>2
    <3>2. Own(B, BS, S, P, [C EXCEPT ![f] = PQconnectdb(NULL)])
      BY <2>2, OpenDefault, Zenon
    <3>3. f \notin Idle(P) /\ Unheld(B, S, f)
      BY <2>2 DEF Own, Exclusive, ClosedUnowned
    <3>4. PQconnectdb(NULL).status = "OK" /\ PQconnectdb(NULL).home = NULL
      BY DEF PQconnectdb, FreeConn
    <3>5. [C EXCEPT ![f] = PQconnectdb(NULL)][f] = PQconnectdb(NULL)
      BY <1>1
    <3> QED
      BY <1>2, <3>1, <3>2, <3>3, <3>4, <3>5 DEF Connected
  <2> QED
    BY <1>2, <2>1, <2>2 DEF connect_to_default
<1>3. CASE shard # NULL
  <2>1. PICK a \in conn_pool_acquire(P[shard], C) :
          r = [conn |-> a.conn, pool |-> [P EXCEPT ![shard] = a.pool],
               table |-> Acquired(C, P, [P EXCEPT ![shard] = a.pool],
                                  [x \in Shards |-> IF x = shard THEN a.conn ELSE NULL])]
    BY <1>3, Zenon DEF connect_to_shard
  <2> DEFINE Q == [P EXCEPT ![shard] = a.pool]
             L == [x \in Shards |-> IF x = shard THEN a.conn ELSE NULL]
  <2>2. r.conn = a.conn /\ r.pool = Q /\ r.table = Acquired(C, P, Q, L)
    BY <2>1
  <2>3. a.conn \in Conns \cup {NULL} /\ shard \in Shards
    BY <1>1, <1>3, AcquireFacts
  <2>4. /\ \A x \in Shards : L[x] = IF x = shard THEN a.conn ELSE NULL
        /\ \A x \in Shards : Q[x] = IF x = shard THEN a.pool ELSE P[x]
        /\ L \in [Shards -> Conns \cup {NULL}] /\ Q = [x \in Shards |-> Q[x]]
    BY <1>1, <2>3, Zenon
  <2> HIDE DEF Q, L
  <2>5. Takes(P, C, Q, L)
    BY <2>3, <2>4 DEF Takes
  <2>6. /\ Own(B, BS, S, Q, Acquired(C, P, Q, L))
        /\ \A x \in Shards : L[x] # NULL =>
              /\ L[x] \in Conns /\ L[x] \notin Idle(Q) /\ Unheld(B, S, L[x])
              /\ Acquired(C, P, Q, L)[L[x]].status = "OK"
              /\ Acquired(C, P, Q, L)[L[x]].home = x
    BY ONLY Own(B, BS, S, P, C), <2>4, <2>5, Take, SMTT(30)
  <2> QED
    BY <2>2, <2>3, <2>4, <2>6 DEF Connected
<1> QED
  BY <1>2, <1>3

\* execute_single and the query path without a shard map.
LEMMA ExecuteOwn ==
  ASSUME IInv, NEW s \in Sessions, NEW shard \in Shards \cup {NULL}, NEW op \in Op,
         \/ Reconnect(s, shard, op)
         \/ /\ SendQuery(s, backend_conn[s], conn, op)
            /\ UNCHANGED <<pool, backendVars>>,
         UNCHANGED <<scatterVars, blocked, envVars>>
  PROVE  OwnNow'
<1>1. /\ backend_conn \in [Sessions -> Conns \cup {NULL}]
      /\ backend_shard \in [Sessions -> Shards \cup {NULL}]
      /\ TypeOK /\ scatter_conn' = scatter_conn
      /\ Own(backend_conn, backend_shard, scatter_conn, pool, conn)
  BY DEF IInv, TypeOK, OwnNow, scatterVars
<1>2. CASE SendQuery(s, backend_conn[s], conn, op) /\ UNCHANGED <<pool, backendVars>>
  <2>1. backend_conn[s] \notin Idle(pool) /\ backend_conn[s] \in Conns \cup {NULL}
    BY <1>1, Zenon DEF Own, Exclusive, IdleUnheld, Unheld
  <2> QED
    BY <1>1, <1>2, <2>1, SendQueryOwn, SMTT(30) DEF OwnNow, backendVars
<1>3. CASE Reconnect(s, shard, op)
  <2> DEFINE P == ReleaseBackend(pool, conn, s)
             C == Finish(conn, {backend_conn[s]}, P)
             B0 == [backend_conn EXCEPT ![s] = NULL]
             BS0 == [backend_shard EXCEPT ![s] = NULL]
  <2>1. Own(B0, BS0, scatter_conn, P, C)
    BY <1>1, DropBackend, Zenon
  <2>2. PICK r \in IF shard = NULL THEN connect_to_default(P, C)
                   ELSE connect_to_shard(P, C, shard) :
          /\ pool' = r.pool
          /\ backend_conn' = [backend_conn EXCEPT ![s] = r.conn]
          /\ backend_shard' =
               [backend_shard EXCEPT ![s] = IF r.conn = NULL THEN NULL ELSE shard]
          /\ SendQuery(s, r.conn, r.table, op)
    BY <1>3, Zenon DEF Reconnect
  <2>3. \A c : [B0 EXCEPT ![s] = c] = [backend_conn EXCEPT ![s] = c]
    BY <1>1, Zenon
  <2>4. [BS0 EXCEPT ![s] = shard] = [backend_shard EXCEPT ![s] = shard]
    BY <1>1, Zenon
  <2> HIDE DEF P, C
  <2>5. Own(B0, BS0, scatter_conn, r.pool, r.table) /\ Connected(B0, scatter_conn, r, shard)
    <3> HIDE DEF B0, BS0
    <3>1. /\ shard \in Shards \cup {NULL}
          /\ r \in IF shard = NULL THEN connect_to_default(P, C)
                   ELSE connect_to_shard(P, C, shard)
      OBVIOUS
    <3> QED
      BY ONLY <2>1, <3>1, ConnectOwn, Zenon
  <2>6. CASE r.conn = NULL
    <3>1. Own(B0, BS0, scatter_conn, r.pool, r.table) /\ NULL \notin Idle(r.pool)
      <4>1. Own(B0, BS0, scatter_conn, r.pool, r.table)
        BY <2>5
      <4>2. Idle(r.pool) \subseteq Conns
        BY <4>1, IdleType, Zenon DEF Own, OwnType
      <4> QED
        BY <4>1, <4>2, LibpqAssumption
    <3>2. backend_conn' = B0 /\ backend_shard' = BS0 /\ SendQuery(s, NULL, r.table, op)
      BY <2>2, <2>6
    <3> HIDE DEF B0, BS0
    <3>3. Own(B0, BS0, scatter_conn, r.pool, conn')
      BY <3>1, <3>2, SendQueryOwn, SMTT(30)
    <3> QED
      BY <1>1, <2>2, <3>2, <3>3, Zenon DEF OwnNow
  <2>7. CASE r.conn # NULL
    <3> DEFINE c == r.conn
    <3> HIDE DEF B0, BS0
    <3>1. /\ Own(B0, BS0, scatter_conn, r.pool, r.table)
          /\ c \in Conns /\ c \notin Idle(r.pool) /\ Unheld(B0, scatter_conn, c)
          /\ r.table[c].status = "OK" /\ r.table[c].home = shard
      BY ONLY <2>7, <2>5 DEF Connected
    <3> HIDE DEF c
    <3>2. Own([B0 EXCEPT ![s] = c], [BS0 EXCEPT ![s] = shard], scatter_conn, r.pool, r.table)
      BY <3>1, Attach, Zenon
    <3>3. Own([B0 EXCEPT ![s] = c], [BS0 EXCEPT ![s] = shard], scatter_conn, r.pool, conn')
      BY <2>2, <3>1, <3>2, SendQueryOwn, Zenon DEF c
    <3> QED
      BY <1>1, <2>2, <2>3, <2>4, <2>7, <3>3, Zenon DEF OwnNow, c
  <2> QED
    BY <2>6, <2>7
<1> QED
  BY <1>2, <1>3

\* execute_scatter: the slots are cleared, connections acquired, queries sent, the
\* connections that refuse the query returned, the others put into the slots.
LEMMA ScatterToOwn ==
  ASSUME IInv, NEW s \in Sessions, NEW op \in Op, NEW a, ScatterTo(s, op, a)
  PROVE  Own(backend_conn, backend_shard, scatter_conn', pool', conn')
<1> DEFINE B == backend_conn
           BS == backend_shard
           S0 == [scatter_conn EXCEPT ![s] = [sh \in Shards |-> NULL]]
           L == [sh \in Shards |-> a[sh].conn]
           Q == [sh \in Shards |-> a[sh].pool]
           T == Acquired(conn, pool, Q, L)
           sent == {sh \in Shards : L[sh] # NULL /\ PQsendQueryOK(T[L[sh]])}
           T1 == [c \in Conns |-> IF \E sh \in sent : L[sh] = c
                                  THEN PQsendQuery(T[c], op) ELSE T[c]]
           K == [sh \in Shards |-> IF sh \in sent THEN L[sh] ELSE NULL]
<1>1. /\ \A sh \in Shards : a[sh] \in conn_pool_acquire(pool[sh], conn)
      /\ \A x, y \in Shards : L[x] = L[y] => x = y \/ L[x] = NULL
      /\ pool' = [sh \in Shards |-> IF L[sh] = NULL \/ sh \in sent THEN Q[sh]
                                    ELSE conn_pool_release(Q[sh], T, L[sh])]
      /\ conn' = Finish(T1, {L[sh] : sh \in Shards \ sent}, pool')
      /\ scatter_conn' = [scatter_conn EXCEPT ![s] = K]
  BY Zenon DEF ScatterTo
<1>2. /\ scatter_conn \in [Sessions -> [Shards -> Conns \cup {NULL}]]
      /\ pool \in [Shards -> PoolType] /\ conn \in [Conns -> PGconn]
      /\ Own(B, BS, scatter_conn, pool, conn)
  BY DEF IInv, TypeOK, OwnNow
<1>3. \A sh \in Shards : a[sh].conn \in Conns \cup {NULL}
  BY <1>1, <1>2, AcquireFacts, Zenon
<1>4. /\ L \in [Shards -> Conns \cup {NULL}] /\ Q = [x \in Shards |-> Q[x]]
      /\ \A x \in Shards : L[x] = a[x].conn /\ Q[x] = a[x].pool
  BY <1>3
<1>5. sent \subseteq Shards /\ \A x \in sent : L[x] # NULL
  BY Zenon
<1>7. /\ S0 \in [Sessions -> [Shards -> Conns \cup {NULL}]]
      /\ \A t \in Sessions : \A x \in Shards : S0[t][x] = NULL \/ S0[t][x] = scatter_conn[t][x]
      /\ [S0 EXCEPT ![s] = K] = [scatter_conn EXCEPT ![s] = K]
  BY <1>2, Zenon
<1>8. \A c \in Conns : T1[c] = IF \E sh \in sent : L[sh] = c THEN PQsendQuery(T[c], op) ELSE T[c]
  BY Zenon
<1>9. T \in [Conns -> PGconn]
  BY <1>2, AcquiredType
<1>10. T1 \in [Conns -> PGconn]
  <2> HIDE DEF T, sent, L
  <2> QED
    BY <1>9, SendQueryType
<1> HIDE DEF S0, L, Q, T, sent, T1, K
<1>12. Own(B, BS, S0, pool, conn)
  <2>1. OwnType(B, BS, S0, pool, conn)
    BY <1>2, <1>7 DEF Own, OwnType
  <2> QED
    <3> HIDE DEF B, BS
    <3>1. Own(B, BS, scatter_conn, pool, conn)
      BY <1>2
    <3>2. \A t \in Sessions :
            /\ B[t] = NULL \/ (B[t] = B[t] /\ BS[t] = BS[t])
            /\ \A x \in Shards : S0[t][x] = NULL \/ S0[t][x] = scatter_conn[t][x]
      BY <1>7
    <3> QED
      BY ONLY <2>1, <3>1, <3>2, Forget, SMTT(60)
<1>13. Takes(pool, conn, Q, L)
  BY <1>1, <1>4 DEF Takes
<1>14. /\ Own(B, BS, S0, Q, T)
       /\ \A x \in Shards : L[x] # NULL =>
            /\ L[x] \in Conns /\ L[x] \notin Idle(Q) /\ Unheld(B, S0, L[x])
            /\ T[L[x]].status = "OK" /\ T[L[x]].home = x
  BY <1>4, <1>12, <1>13, Take, SMTT(30) DEF T
<1>15. \A c \in Conns : T1[c].home = T[c].home /\ T1[c].status = T[c].status
  <2>1. ASSUME NEW k \in PGconn
        PROVE  PQsendQuery(k, op).home = k.home /\ PQsendQuery(k, op).status = k.status
    BY DEF PQsendQuery, PGconn
  <2> QED
    BY <1>8, <1>9, <2>1, Zenon
<1>16. Own(B, BS, S0, Q, T1)
  <2>1. \A c \in Conns : /\ T1[c].home = T[c].home
                         /\ T1[c].status = "FREE" => T[c].status = "FREE"
                         /\ c \in Idle(Q) => T1[c].status = "OK"
    <3>1. \A c \in Idle(Q) : T[c].status = "OK"
      BY <1>14 DEF Own, IdleAlive
    <3> QED
      BY ONLY <1>15, <3>1, Zenon
  <2>2. Own(B, BS, S0, Q, T)
    BY <1>14
  <2> HIDE DEF B, BS
  <2> QED
    BY ONLY <1>10, <2>1, <2>2, Touch, SMTT(60)
<1>17. pool' = [x \in Shards |-> IF L[x] = NULL \/ x \in sent THEN Q[x]
                                 ELSE conn_pool_release(Q[x], T1, L[x])]
  <2>1. ASSUME NEW x \in Shards, x \notin sent, L[x] # NULL
        PROVE  conn_pool_release(Q[x], T, L[x]) = conn_pool_release(Q[x], T1, L[x])
    <3>1. T1[L[x]] = T[L[x]]
      BY <1>1, <1>4, <1>5, <1>8, <2>1
    <3> QED
      BY <3>1 DEF conn_pool_release
  <2> QED
    BY <1>1, <2>1, Zenon
<1>18. \A x \in Shards : L[x] # NULL =>
         /\ L[x] \notin Idle(Q) /\ Unheld(B, S0, L[x])
         /\ T1[L[x]].status = "OK" /\ T1[L[x]].home = x
  BY <1>14, <1>15
<1>19. /\ L \in [Shards -> Conns \cup {NULL}] /\ sent \in SUBSET Shards
       /\ \A x, y \in Shards : L[x] = L[y] => x = y \/ L[x] = NULL
       /\ \A x \in sent : L[x] # NULL
  BY <1>1, <1>4, <1>5
<1> DEFINE D == {L[x] : x \in Shards \ sent}
<1>20. Keeps(B, S0, Q, T1, L, sent, K, D, pool')
  BY <1>17, <1>18, <1>19, Zenon DEF Keeps, K
<1> HIDE DEF D
<1>21. Own(B, BS, [S0 EXCEPT ![s] = K], pool', Finish(T1, D, pool'))
  BY ONLY s \in Sessions, <1>16, <1>20, KeepSome, SMTT(30)
<1> QED
  BY <1>1, <1>7, <1>21, Zenon DEF D

\* The server's steps, and a client's CopyDone or CopyFail: connection c lives on.
LEMMA AliveOwn ==
  ASSUME IInv, NEW c \in Conns, NEW k \in PGconn,
         k.status = conn[c].status, k.home = conn[c].home, conn' = [conn EXCEPT ![c] = k],
         UNCHANGED <<backend_conn, backend_shard, scatter_conn, pool>>
  PROVE  OwnNow'
<1>1. conn \in [Conns -> PGconn] /\ IdleAlive(pool, conn)
      /\ Own(backend_conn, backend_shard, scatter_conn, pool, conn)
  BY DEF IInv, TypeOK, OwnNow, Own
<1>2. conn' \in [Conns -> PGconn] /\ \A d \in Conns : conn'[d] = IF d = c THEN k ELSE conn[d]
  BY <1>1
<1>3. \A d \in Conns : /\ conn'[d].home = conn[d].home
                       /\ conn'[d].status = "FREE" => conn[d].status = "FREE"
                       /\ d \in Idle(pool) => conn'[d].status = "OK"
  BY <1>1, <1>2 DEF IdleAlive
<1>4. Own(backend_conn, backend_shard, scatter_conn, pool, conn')
  <2>1. conn' \in [Conns -> PGconn]
    BY <1>2
  <2>2. Own(backend_conn, backend_shard, scatter_conn, pool, conn)
    BY <1>1
  <2> QED
    BY ONLY <1>3, <2>1, <2>2, Touch, Zenon
<1> QED
  BY <1>4 DEF OwnNow

\* The backends' own steps change no owner and no server of a connection.
LEMMA ServerOwn ==
  ASSUME IInv, NEW c \in Conns,
         \/ BackendExecutes(c) \/ BackendWrites(c) \/ BackendRejectsRow(c)
         \/ BackendNotice(c) \/ BackendCrash(c)
  PROVE  OwnNow'
<1>1. conn[c] \in PGconn /\ conn[c].req \in Op \cup {"none"} /\ conn[c].xact \in Status
  BY Zenon DEF IInv, TypeOK, PGconn
<1>2. ASSUME NEW k \in PGconn, k.status = conn[c].status, k.home = conn[c].home, OnlyConn(c, k)
      PROVE  OwnNow'
  BY <1>2, AliveOwn, Zenon DEF OnlyConn, backendVars, scatterVars
<1>3. CASE BackendExecutes(c)
  <2>1. PICK answer \in Response(conn[c].req, conn[c].xact) : OnlyConn(c, Execute(conn[c], answer))
    BY <1>3 DEF BackendExecutes
  <2>2. answer \in Seq(Token)
    BY <1>1, <1>3, <2>1, ResponseType, Zenon DEF BackendExecutes
  <2>3. Execute(conn[c], answer) \in PGconn
    BY <1>1, <2>2, ServerType
  <2>4. /\ Execute(conn[c], answer).status = conn[c].status
        /\ Execute(conn[c], answer).home = conn[c].home
    BY <1>1 DEF Execute, PGconn
  <2> QED
    BY <1>2, <2>1, <2>3, <2>4
<1>4. CASE BackendWrites(c)
  <2>1. PICK n \in 1..Len(conn[c].todo) : OnlyConn(c, Emit(conn[c], n))
    BY <1>4 DEF BackendWrites
  <2>2. Emit(conn[c], n) \in PGconn
    BY <1>1, ServerType
  <2>3. Emit(conn[c], n).status = conn[c].status /\ Emit(conn[c], n).home = conn[c].home
    BY <1>1 DEF Emit, PGconn
  <2> QED
    BY <1>2, <2>1, <2>2, <2>3
<1>5. CASE BackendRejectsRow(c)
  <2>1. CopyEnds(conn[c], FALSE) \in PGconn
    BY <1>1, CopyEndType, Zenon
  <2>2. /\ CopyEnds(conn[c], FALSE).status = conn[c].status
        /\ CopyEnds(conn[c], FALSE).home = conn[c].home
    BY <1>1 DEF CopyEnds, PGconn
  <2> QED
    BY <1>2, <1>5, <2>1, <2>2, Zenon DEF BackendRejectsRow
<1>6. CASE BackendNotice(c)
  <2>1. /\ [conn[c] EXCEPT !.notice = TRUE] \in PGconn
        /\ [conn[c] EXCEPT !.notice = TRUE].status = conn[c].status
        /\ [conn[c] EXCEPT !.notice = TRUE].home = conn[c].home
    BY <1>1, Zenon DEF PGconn
  <2> QED
    BY <1>2, <1>6, <2>1, Zenon DEF BackendNotice
<1>7. CASE BackendCrash(c)
  <2>1. PICK how \in {"fin", "rst"} : OnlyConn(c, Crash(conn[c], how))
    BY <1>7 DEF BackendCrash
  <2>2. Crash(conn[c], how) \in PGconn
    BY <1>1, ServerType
  <2>3. Crash(conn[c], how).status = conn[c].status /\ Crash(conn[c], how).home = conn[c].home
    BY <1>1 DEF Crash, PGconn
  <2> QED
    BY <1>2, <2>1, <2>2, <2>3
<1> QED
  BY <1>3, <1>4, <1>5, <1>6, <1>7

\* CopyEnd: copy_handle_client_message gives no connection away.
LEMMA CopyEndOwn ==
  ASSUME IInv, NEW s \in Sessions, NEW ok \in BOOLEAN, CopyEnd(s, ok)
  PROVE  OwnNow'
<1> DEFINE c == backend_conn[s]
           p == PQputCopyEnd(conn[c])
           k == IF p.copying THEN CopyEnds(p, ok) ELSE p
<1>1. c \in Conns /\ conn[c] \in PGconn
  BY DEF CopyEnd, IInv, TypeOK
<1>2. /\ conn' = [conn EXCEPT ![c] = k]
      /\ UNCHANGED <<backend_conn, backend_shard, scatter_conn, pool>>
  BY DEF CopyEnd, backendVars, scatterVars
<1>3. p \in PGconn /\ p.status = conn[c].status /\ p.home = conn[c].home
  <2>1. p.status = conn[c].status /\ p.home = conn[c].home
    BY <1>1 DEF PQputCopyEnd, PGconn
  <2> QED
    BY <1>1, <2>1, CopyEndType
<1> HIDE DEF p
<1>4. CopyEnds(p, ok) \in PGconn
  BY <1>3, CopyEndType
<1>5. CopyEnds(p, ok).status = p.status /\ CopyEnds(p, ok).home = p.home
  BY <1>3 DEF CopyEnds, PGconn
<1>6. k \in PGconn /\ k.status = conn[c].status /\ k.home = conn[c].home
  BY <1>3, <1>4, <1>5
<1> HIDE DEF k, c
<1> QED
  BY <1>1, <1>2, <1>6, AliveOwn, Zenon

\* handle_query.
LEMMA HandleQueryOwn ==
  ASSUME IInv, NEW s \in Sessions, NEW q \in Requests, handle_query(s, q)
  PROVE  OwnNow'
<1>1. q.op \in Op /\ q.shard \in Shards \cup {NULL} /\ NULL \in Shards \cup {NULL}
  BY SessionAssumption
<1>2. CASE execute_unsharded(s, q.op)
  <2>1. /\ \/ Reconnect(s, NULL, q.op)
           \/ /\ SendQuery(s, backend_conn[s], conn, q.op)
              /\ UNCHANGED <<pool, backendVars>>
        /\ UNCHANGED <<scatterVars, blocked, envVars>>
    BY <1>2, Zenon DEF execute_unsharded
  <2> QED
    BY <1>1, <2>1, ExecuteOwn, SMTT(30)
<1>3. CASE execute_single(s, q.shard, q.op)
  <2>1. /\ \/ Reconnect(s, q.shard, q.op)
           \/ /\ SendQuery(s, backend_conn[s], conn, q.op)
              /\ UNCHANGED <<pool, backendVars>>
        /\ UNCHANGED <<scatterVars, blocked, envVars>>
    BY <1>3 DEF execute_single
  <2> QED
    BY <1>1, <2>1, ExecuteOwn, SMTT(30)
<1>4. CASE execute_scatter(s, q.op)
  <2>1. PICK a \in [Shards -> UNION {conn_pool_acquire(pool[sh], conn) : sh \in Shards}] :
          ScatterTo(s, q.op, a)
    BY <1>4 DEF execute_scatter
  <2>2. Own(backend_conn, backend_shard, scatter_conn', pool', conn')
    <3>1. IInv /\ q.op \in Op /\ ScatterTo(s, q.op, a)
      BY ONLY <1>1, <2>1, IInv, Zenon
    <3> QED
      BY ONLY s \in Sessions, <3>1, ScatterToOwn, Zenon
  <2>3. UNCHANGED backendVars
    BY <1>4 DEF execute_scatter
  <2> QED
    BY <2>2, <2>3 DEF OwnNow, backendVars
<1>5. ASSUME NEW answer, ReplyLocally(s, answer) PROVE OwnNow'
  BY <1>5 DEF ReplyLocally, IInv, OwnNow, backendVars, scatterVars
<1> QED
  BY <1>2, <1>3, <1>4, <1>5 DEF handle_query

\* Every step keeps the inductive invariant.
LEMMA NextIInv ==
  ASSUME IInv, [Next]_vars
  PROVE  IInv'
<1>1. TypeOK /\ IdleAlive(pool, conn)
  BY DEF IInv, OwnNow, Own
<1>2. TypeOK'
  BY <1>1, NextType
<1>3. ASSUME UNCHANGED <<backend_conn, backend_shard, scatter_conn, pool, conn>>
      PROVE  OwnNow'
  BY <1>3 DEF IInv, OwnNow
<1>4. ASSUME NEW s \in Sessions, on_accept(s) \/ handle_startup_message(s) PROVE OwnNow'
  BY <1>3, <1>4 DEF on_accept, handle_startup_message, backendVars, scatterVars
<1>5. ASSUME NEW s \in Sessions, ClientGone(s) PROVE OwnNow'
  BY <1>1, <1>5, DestroyOwn, SMTT(30) DEF ClientGone, IInv, OwnNow
<1>6. ASSUME health_check_all PROVE OwnNow'
  <2>1. pool' = pool /\ conn' = conn
    BY <1>1, <1>6, HealthCheckFacts
  <2>2. UNCHANGED <<backend_conn, backend_shard, scatter_conn>>
    BY <1>6 DEF health_check_all, backendVars, scatterVars
  <2> QED
    BY <2>1, <2>2 DEF IInv, OwnNow
<1>7. ASSUME UNCHANGED vars PROVE OwnNow'
  <2>1. UNCHANGED <<backend_conn, backend_shard, scatter_conn, pool, conn>>
    BY <1>7 DEF vars, backendVars, scatterVars
  <2> QED
    BY <1>3, <2>1
<1>8. ASSUME NEW s \in Sessions, NEW q \in Requests, handle_query(s, q) PROVE OwnNow'
  BY <1>8, HandleQueryOwn, SMTT(30)
<1>9. ASSUME NEW s \in Sessions, NEW ok \in BOOLEAN, CopyEnd(s, ok) PROVE OwnNow'
  BY <1>9, CopyEndOwn, SMTT(30)
<1>10. ASSUME NEW s \in Sessions, session_on_backend_readable(s) \/ BackendWaitEnds(s)
       PROVE  OwnNow'
  BY <1>10, BackendOwn, SMTT(30)
<1>11. ASSUME NEW s \in Sessions, NEW sh \in Shards,
              session_on_scatter_readable(s, sh) \/ ScatterWaitEnds(s, sh)
       PROVE  OwnNow'
  BY <1>11, ScatterOwn, SMTT(30)
<1>12. ASSUME NEW c \in Conns,
              \/ BackendExecutes(c) \/ BackendWrites(c) \/ BackendRejectsRow(c)
              \/ BackendNotice(c) \/ BackendCrash(c)
       PROVE  OwnNow'
  BY <1>12, ServerOwn, SMTT(30)
<1>13. ASSUME NEW s \in Sessions, RefuseExtended(s) PROVE OwnNow'
  BY <1>3, <1>13 DEF RefuseExtended, ReplyLocally, backendVars, scatterVars
<1>14. OwnNow'
  BY <1>4, <1>5, <1>6, <1>7, <1>8, <1>9, <1>10, <1>11, <1>12, <1>13 DEF Next
<1> QED
  BY <1>2, <1>14 DEF IInv

\* The initial state satisfies it.
LEMMA InitIInv == Init => IInv
<1> SUFFICES ASSUME Init PROVE IInv
  OBVIOUS
<1>1. <<>> \in Seq(Conns) /\ <<>> \in Seq(Sent) /\ FreeConn \in PGconn
  BY FreeConnType
<1>2. conn_pool_init \in PoolType
  BY <1>1 DEF conn_pool_init, PoolType
<1>3. /\ \A sh \in Shards : pool[sh].idle_conns = <<>> /\ pool[sh].active_count = 0
      /\ \A s \in Sessions : backend_conn[s] = NULL /\ \A sh \in Shards : scatter_conn[s][sh] = NULL
  BY DEF Init, conn_pool_init
<1>4. Idle(pool) = {}
  <2>1. Range(<<>>) = {}
    BY DEF Range
  <2> QED
    BY ONLY <1>3, <2>1, Zenon DEF Idle
<1>5. TypeOK
  BY <1>1, <1>2 DEF Init, TypeOK, State
<1>6. OwnType(backend_conn, backend_shard, scatter_conn, pool, conn)
  BY <1>5 DEF TypeOK, OwnType
<1>7. Exclusive(backend_conn, scatter_conn, pool, conn) /\ IdleAlive(pool, conn)
  BY <1>3, <1>4, LibpqAssumption
  DEF Exclusive, IdleOnce, HeldOnce, IdleUnheld, ClosedUnowned, Unheld, IdleAlive
<1>8. AtHome(backend_conn, backend_shard, scatter_conn, pool, conn)
  BY <1>3 DEF AtHome
<1>9. WithinLimit(pool)
  BY <1>3, PoolAssumption DEF WithinLimit
<1> QED
  BY <1>5, <1>6, <1>7, <1>8, <1>9 DEF IInv, OwnNow, Own

(***************************************************************************)
(* The theorems.                                                           *)
(***************************************************************************)

\* The inductive invariant holds in every reachable state of the proxy.
THEOREM Invariance == Spec => []IInv
<1>1. Init => IInv
  BY InitIInv, SMTT(30)
<1>2. IInv /\ [Next]_vars => IInv'
  BY NextIInv, SMTT(30)
<1> QED
  BY <1>1, <1>2, PTL DEF Spec

\* Type correctness: every callback of session.c and fe_protocol.c leaves the
\* fields of ClientSession, ConnPool and PGconn within their types.
THEOREM TypeCorrect == Spec => []TypeOK
<1>1. IInv => TypeOK
  BY DEF IInv
<1> QED
  BY <1>1, Invariance, PTL

\* conn_pool.c's limit: whatever the sessions do, a shard never has more than
\* max_size connections, so idle_conns cannot overflow and conn_pool_release
\* always has room.
THEOREM PoolsBounded == Spec => []PoolBound
<1>1. IInv => PoolBound
  BY DEF IInv, OwnNow, Own, PoolBound
<1> QED
  BY <1>1, Invariance, PTL

\* No connection is lent to two clients, released twice or used after PQfinish.
THEOREM OneOwner == Spec => []ExclusiveOwner
<1>1. IInv => ExclusiveOwner
  BY DEF IInv, OwnNow, Own, ExclusiveOwner
<1> QED
  BY <1>1, Invariance, PTL

\* A query is only ever sent to the shard the session chose: the connections in
\* the pools, in backend_conn and in the scatter slots are to the right servers.
THEOREM ShardsKept == Spec => []RightShard
<1>1. IInv => RightShard
  BY DEF IInv, OwnNow, Own, RightShard
<1> QED
  BY <1>1, Invariance, PTL

\* conn_pool_health_check closes nothing: PQstatus of an idle connection is
\* always CONNECTION_OK, since nothing reads its socket while it is idle.
THEOREM HealthCheckIdles == Spec => [][health_check_all => UNCHANGED <<pool, conn>>]_vars
<1>1. IInv /\ [Next]_vars => [health_check_all => UNCHANGED <<pool, conn>>]_vars
  <2> SUFFICES ASSUME IInv, health_check_all PROVE UNCHANGED <<pool, conn>>
    OBVIOUS
  <2>1. TypeOK /\ IdleAlive(pool, conn)
    BY DEF IInv, OwnNow, Own
  <2> QED
    BY <2>1, HealthCheckFacts
<1> QED
  BY <1>1, Invariance, PTL DEF Spec
=============================================================================
