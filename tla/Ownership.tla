------------------------------ MODULE Ownership ------------------------------
(***************************************************************************)
(* The actions of Session move connections between the pools and the       *)
(* sessions' slots in a few ways.  Own says of such a state that every     *)
(* connection has one owner, at the right server, and every pool is within *)
(* its limit; the lemmas say that each way of moving connections keeps it. *)
(***************************************************************************)
EXTENDS SessionTypes

\* B: backend_conn, BS: backend_shard, S: scatter slots, P: pools, C: PGconns.
OwnType(B, BS, S, P, C) ==
  /\ B \in [Sessions -> Conns \cup {NULL}]
  /\ BS \in [Sessions -> Shards \cup {NULL}]
  /\ S \in [Sessions -> [Shards -> Conns \cup {NULL}]]
  /\ P \in [Shards -> PoolType]
  /\ C \in [Conns -> PGconn]
Own(B, BS, S, P, C) ==
  /\ OwnType(B, BS, S, P, C)
  /\ Exclusive(B, S, P, C)
  /\ IdleAlive(P, C)
  /\ AtHome(B, BS, S, P, C)
  /\ WithinLimit(P)

\* The idle array's entries are idle connections, which are connections.
LEMMA IdleEntry ==
  ASSUME NEW P \in [Shards -> PoolType], NEW x \in Shards,
         NEW i \in DOMAIN P[x].idle_conns
  PROVE  P[x].idle_conns[i] \in Idle(P) /\ P[x].idle_conns[i] \in Conns
<1>1. P[x].idle_conns[i] \in Idle(P)
  BY DEF Idle, Range
<1> QED
  BY <1>1, IdleType

\* Slots of sessions are emptied.
LEMMA Forget ==
  ASSUME NEW B, NEW BS, NEW S, NEW P, NEW C, Own(B, BS, S, P, C),
         NEW B1, NEW BS1, NEW S1, OwnType(B1, BS1, S1, P, C),
         \A s \in Sessions :
           /\ B1[s] = NULL \/ (B1[s] = B[s] /\ BS1[s] = BS[s])
           /\ \A x \in Shards : S1[s][x] = NULL \/ S1[s][x] = S[s][x]
  PROVE  Own(B1, BS1, S1, P, C)
<1>1. ASSUME NEW c \in Conns, Unheld(B, S, c) PROVE Unheld(B1, S1, c)
  BY <1>1, LibpqAssumption DEF Unheld
<1>2. HeldOnce(B1, S1)
  BY DEF Own, Exclusive, HeldOnce
<1>3. IdleUnheld(B1, S1, P)
  BY <1>1, IdleType, Zenon DEF Own, OwnType, Exclusive, IdleUnheld
<1>4. ClosedUnowned(B1, S1, P, C)
  BY <1>1 DEF Own, Exclusive, ClosedUnowned
<1>5. AtHome(B1, BS1, S1, P, C)
  BY DEF Own, AtHome
<1> QED
  BY <1>2, <1>3, <1>4, <1>5 DEF Own, Exclusive

\* libpq and the servers change connections, without opening or closing any.
LEMMA Touch ==
  ASSUME NEW B, NEW BS, NEW S, NEW P, NEW C, Own(B, BS, S, P, C),
         NEW C1 \in [Conns -> PGconn],
         \A c \in Conns : /\ C1[c].home = C[c].home
                          /\ C1[c].status = "FREE" => C[c].status = "FREE"
                          /\ c \in Idle(P) => C1[c].status = "OK"
  PROVE  Own(B, BS, S, P, C1)
<1>1. OwnType(B, BS, S, P, C1)
  BY DEF Own, OwnType
<1>2. ClosedUnowned(B, S, P, C1)
  BY DEF Own, Exclusive, ClosedUnowned
<1>3. IdleAlive(P, C1)
  BY IdleType, Zenon DEF Own, OwnType, IdleAlive
<1>4. AtHome(B, BS, S, P, C1)
  <2>1. ASSUME NEW sh \in Shards, NEW i \in DOMAIN P[sh].idle_conns
        PROVE  C1[P[sh].idle_conns[i]].home = sh
    <3>1. P[sh].idle_conns[i] \in Conns
      BY IdleEntry, SMTT(30) DEF Own, OwnType
    <3>2. C[P[sh].idle_conns[i]].home = sh
      BY DEF Own, AtHome
    <3> QED
      BY <3>1, <3>2
  <2>2. ASSUME NEW s \in Sessions
        PROVE  /\ B[s] # NULL => C1[B[s]].home = BS[s]
               /\ \A sh \in Shards : S[s][sh] # NULL => C1[S[s][sh]].home = sh
    <3>1. B[s] \in Conns \cup {NULL} /\ \A sh \in Shards : S[s][sh] \in Conns \cup {NULL}
      BY DEF Own, OwnType
    <3>2. /\ B[s] # NULL => C[B[s]].home = BS[s]
          /\ \A sh \in Shards : S[s][sh] # NULL => C[S[s][sh]].home = sh
      BY DEF Own, AtHome
    <3> QED
      BY <3>1, <3>2
  <2> QED
    BY <2>1, <2>2 DEF AtHome
<1> QED
  BY <1>1, <1>2, <1>3, <1>4 DEF Own, Exclusive

\* Connections r[x] that no session holds are handed to conn_pool_release, which
\* leaves the pools P1.
GivesBack(B, S, P, C, r, P1) ==
  /\ r \in [Shards -> Conns \cup {NULL}]
  /\ \A x, y \in Shards : r[x] = r[y] => x = y \/ r[x] = NULL
  /\ \A x \in Shards : r[x] # NULL => /\ r[x] \notin Idle(P) /\ Unheld(B, S, r[x])
                                      /\ C[r[x]].home = x
  /\ P1 = [x \in Shards |-> IF r[x] = NULL THEN P[x] ELSE conn_pool_release(P[x], C, r[x])]

\* The pools afterwards.
PoolsAfter(P, C, r, P1) ==
  /\ P1 \in [Shards -> PoolType] /\ WithinLimit(P1) /\ IdleOnce(P1)
  /\ \A c \in Idle(P1) : c \in Idle(P) \/ \E x \in Shards : r[x] = c /\ r[x] # NULL
  /\ \A x \in Shards :
       \/ P1[x].idle_conns = P[x].idle_conns
       \/ /\ r[x] # NULL /\ P1[x].idle_conns = Append(P[x].idle_conns, r[x])
          /\ C[r[x]].status = "OK"

\* What conn_pool_release leaves.
LEMMA ReturnPools ==
  ASSUME NEW B, NEW BS, NEW S, NEW P, NEW C, Own(B, BS, S, P, C),
         NEW r, NEW P1, GivesBack(B, S, P, C, r, P1)
  PROVE  PoolsAfter(P, C, r, P1)
<1>0. /\ r \in [Shards -> Conns \cup {NULL}]
      /\ \A x, y \in Shards : r[x] = r[y] => x = y \/ r[x] = NULL
      /\ \A x \in Shards : r[x] # NULL => /\ r[x] \notin Idle(P) /\ Unheld(B, S, r[x])
                                          /\ C[r[x]].home = x
      /\ P1 = [x \in Shards |-> IF r[x] = NULL THEN P[x]
                                ELSE conn_pool_release(P[x], C, r[x])]
  BY DEF GivesBack
<1>1. /\ P \in [Shards -> PoolType] /\ C \in [Conns -> PGconn]
      /\ IdleOnce(P) /\ WithinLimit(P)
  BY DEF Own, OwnType, Exclusive
<1>2. ASSUME NEW x \in Shards
      PROVE  /\ P1[x] \in PoolType
             /\ \/ P1[x].idle_conns = P[x].idle_conns
                \/ /\ r[x] # NULL /\ P1[x].idle_conns = Append(P[x].idle_conns, r[x])
                   /\ C[r[x]].status = "OK"
             /\ Len(P1[x].idle_conns) + P1[x].active_count <= max_size
  <2>1. P[x] \in PoolType /\ Len(P[x].idle_conns) + P[x].active_count <= max_size
    BY <1>0, <1>1 DEF WithinLimit
  <2>2. CASE r[x] = NULL
    BY <1>0, <2>1, <2>2
  <2>3. CASE r[x] # NULL
    <3>1. r[x] \in Conns /\ P1[x] = conn_pool_release(P[x], C, r[x])
      BY <1>0, <2>3
    <3>2. /\ P1[x] \in PoolType
          /\ \/ P1[x].idle_conns = P[x].idle_conns
             \/ P1[x].idle_conns = Append(P[x].idle_conns, r[x]) /\ C[r[x]].status = "OK"
          /\ Len(P1[x].idle_conns) + P1[x].active_count
               <= Len(P[x].idle_conns) + P[x].active_count
      BY <1>0, <1>1, <2>1, <3>1, ReleaseFacts
    <3>3. /\ Len(P1[x].idle_conns) \in Nat /\ P1[x].active_count \in Int
          /\ Len(P[x].idle_conns) \in Nat /\ P[x].active_count \in Int
      BY <1>0, <2>1, <3>2 DEF PoolType
    <3>4. Len(P1[x].idle_conns) + P1[x].active_count <= max_size
      <4> DEFINE m == Len(P[x].idle_conns) + P[x].active_count
                 m1 == Len(P1[x].idle_conns) + P1[x].active_count
      <4>1. m \in Int /\ m1 \in Int /\ max_size \in Int
        <5>1. max_size \in Int
          BY PoolAssumption
        <5> QED
          BY ONLY <3>3, <5>1
      <4>2. m1 <= m /\ m <= max_size
        BY <2>1, <3>2
      <4> HIDE DEF m, m1
      <4>3. m1 <= max_size
        BY ONLY <4>1, <4>2
      <4> QED
        BY <4>3 DEF m1
    <3> QED
      BY <1>0, <2>3, <3>2, <3>4
  <2> QED
    BY <1>0, <2>2, <2>3
<1>3. P1 \in [Shards -> PoolType] /\ WithinLimit(P1)
  BY <1>0, <1>2 DEF WithinLimit
<1>4. /\ IdleOnce(P1)
      /\ \A c \in Idle(P1) : c \in Idle(P) \/ \E x \in Shards : r[x] = c /\ r[x] # NULL
  <2>1. \A x \in Shards : r[x] \notin Idle(P)
    <3>1. NULL \notin Idle(P)
      BY <1>0, <1>1, IdleType, LibpqAssumption
    <3> QED
      BY <1>0, <3>1
  <2>2. \A x \in Shards : \/ P1[x].idle_conns = P[x].idle_conns
                          \/ r[x] # NULL /\ P1[x].idle_conns = Append(P[x].idle_conns, r[x])
    BY <1>0, <1>2
  <2>3. /\ IdleOnce(P) /\ P \in [Shards -> PoolType] /\ P1 \in [Shards -> PoolType]
        /\ r \in [Shards -> Conns \cup {NULL}]
        /\ \A x, y \in Shards : r[x] = r[y] => x = y \/ r[x] = NULL
    BY <1>0, <1>1, <1>3
  <2> QED
    BY ONLY <2>1, <2>2, <2>3, ReturnFacts, SMTT(30)
<1> QED
  BY <1>0, <1>2, <1>3, <1>4 DEF PoolsAfter

\* Those of them in D that no pool keeps are closed.
LEMMA Return ==
  ASSUME NEW B, NEW BS, NEW S, NEW P, NEW C, Own(B, BS, S, P, C),
         NEW r, NEW P1, GivesBack(B, S, P, C, r, P1),
         NEW D, \A c \in D \cap Conns : Unheld(B, S, c)
  PROVE  Own(B, BS, S, P1, Finish(C, D, P1))
<1> DEFINE C1 == Finish(C, D, P1)
<1>1. /\ P \in [Shards -> PoolType] /\ C \in [Conns -> PGconn]
      /\ IdleOnce(P) /\ HeldOnce(B, S) /\ IdleUnheld(B, S, P)
      /\ ClosedUnowned(B, S, P, C) /\ IdleAlive(P, C) /\ AtHome(B, BS, S, P, C)
      /\ WithinLimit(P) /\ OwnType(B, BS, S, P, C)
  BY DEF Own, OwnType, Exclusive
<1>2. /\ r \in [Shards -> Conns \cup {NULL}]
      /\ \A x, y \in Shards : r[x] = r[y] => x = y \/ r[x] = NULL
      /\ \A x \in Shards : r[x] # NULL => /\ r[x] \notin Idle(P) /\ Unheld(B, S, r[x])
                                          /\ C[r[x]].home = x
  BY DEF GivesBack
<1>3. /\ P1 \in [Shards -> PoolType] /\ WithinLimit(P1) /\ IdleOnce(P1)
      /\ \A c \in Idle(P1) : c \in Idle(P) \/ \E x \in Shards : r[x] = c /\ r[x] # NULL
      /\ \A x \in Shards :
           \/ P1[x].idle_conns = P[x].idle_conns
           \/ /\ r[x] # NULL /\ P1[x].idle_conns = Append(P[x].idle_conns, r[x])
              /\ C[r[x]].status = "OK"
  <2>1. PoolsAfter(P, C, r, P1)
    BY ONLY Own(B, BS, S, P, C), GivesBack(B, S, P, C, r, P1), ReturnPools, Zenon
  <2> QED
    BY ONLY <2>1 DEF PoolsAfter
<1>5. ASSUME NEW x \in Shards, NEW i \in DOMAIN P1[x].idle_conns
      PROVE  C[P1[x].idle_conns[i]].home = x /\ C[P1[x].idle_conns[i]].status = "OK"
  <2>1. P[x].idle_conns \in Seq(Conns)
    BY <1>2, <1>1 DEF PoolType
  <2>2. ASSUME NEW j \in DOMAIN P[x].idle_conns
        PROVE  C[P[x].idle_conns[j]].home = x /\ C[P[x].idle_conns[j]].status = "OK"
    <3>1. P[x].idle_conns[j] \in Idle(P)
      BY <1>2, <1>1, IdleEntry, SMTT(30)
    <3> QED
      BY <1>2, <1>1, <3>1 DEF AtHome, IdleAlive
  <2>3. CASE P1[x].idle_conns = P[x].idle_conns
    BY <1>2, <2>2, <2>3
  <2>4. CASE /\ r[x] # NULL /\ P1[x].idle_conns = Append(P[x].idle_conns, r[x])
             /\ C[r[x]].status = "OK"
    <3>1. \/ i \in DOMAIN P[x].idle_conns /\ P1[x].idle_conns[i] = P[x].idle_conns[i]
          \/ P1[x].idle_conns[i] = r[x]
      BY <1>2, <2>1, <2>4, SMTT(30)
    <3> QED
      BY <1>2, <2>2, <2>4, <3>1
  <2> QED
    BY <1>2, <1>3, <2>3, <2>4, Zenon
<1>6. C1 \in [Conns -> PGconn]
  BY <1>1, FinishType
<1>7. ASSUME NEW c \in Conns
      PROVE  C1[c] = IF c \in D /\ c \notin Idle(P1) THEN FreeConn ELSE C[c]
  BY DEF Finish
<1> HIDE DEF C1
<1>8. IdleUnheld(B, S, P1)
  <2>1. ASSUME NEW c \in Idle(P1) PROVE Unheld(B, S, c)
    BY <1>1, <1>2, <1>3 DEF IdleUnheld
  <2> QED
    BY <2>1, Zenon DEF IdleUnheld
<1>9. IdleAlive(P1, C1)
  <2>1. ASSUME NEW c \in Idle(P1) PROVE C1[c].status = "OK"
    <3>1. c \in Conns
      BY <1>3, IdleType
    <3>2. PICK x \in Shards : \E i \in DOMAIN P1[x].idle_conns : P1[x].idle_conns[i] = c
      BY DEF Idle, Range
    <3> QED
      BY <1>5, <1>7, <3>1, <3>2
  <2> QED
    BY <2>1, Zenon DEF IdleAlive
<1>10. ClosedUnowned(B, S, P1, C1)
  <2>1. ASSUME NEW c \in Conns, C1[c].status = "FREE"
        PROVE  c \notin Idle(P1) /\ Unheld(B, S, c)
    <3>1. c \notin Idle(P1)
      BY <1>9, <2>1 DEF IdleAlive
    <3>2. c \in D \/ C[c].status = "FREE"
      BY <1>7, <2>1, SMTT(30)
    <3> QED
      BY <1>1, <3>1, <3>2 DEF ClosedUnowned
  <2> QED
    BY <2>1 DEF ClosedUnowned
<1>11. AtHome(B, BS, S, P1, C1)
  <2>1. ASSUME NEW sh \in Shards, NEW i \in DOMAIN P1[sh].idle_conns
        PROVE  C1[P1[sh].idle_conns[i]].home = sh
    <3>1. P1[sh].idle_conns[i] \in Idle(P1) /\ P1[sh].idle_conns[i] \in Conns
      BY <1>3, IdleEntry
    <3>2. C1[P1[sh].idle_conns[i]] = C[P1[sh].idle_conns[i]]
      BY ONLY <1>7, <3>1
    <3>3. C[P1[sh].idle_conns[i]].home = sh
      BY ONLY <1>5, sh \in Shards, i \in DOMAIN P1[sh].idle_conns
    <3> QED
      BY ONLY <3>2, <3>3
  <2>2. ASSUME NEW c \in Conns, ~Unheld(B, S, c) PROVE C1[c] = C[c]
    BY <1>7, <2>2
  <2>3. ASSUME NEW s \in Sessions
        PROVE  /\ B[s] # NULL => C1[B[s]].home = BS[s]
               /\ \A sh \in Shards : S[s][sh] # NULL => C1[S[s][sh]].home = sh
    <3>1. B[s] \in Conns \cup {NULL} /\ \A sh \in Shards : S[s][sh] \in Conns \cup {NULL}
      BY <1>1 DEF OwnType
    <3>2. ~Unheld(B, S, B[s]) /\ \A sh \in Shards : ~Unheld(B, S, S[s][sh])
      BY DEF Unheld
    <3>3. /\ B[s] # NULL => C[B[s]].home = BS[s]
          /\ \A sh \in Shards : S[s][sh] # NULL => C[S[s][sh]].home = sh
      BY <1>1, Zenon DEF AtHome
    <3>4. /\ B[s] # NULL => C1[B[s]] = C[B[s]]
          /\ \A sh \in Shards : S[s][sh] # NULL => C1[S[s][sh]] = C[S[s][sh]]
      BY ONLY <2>2, <3>1, <3>2
    <3> QED
      BY ONLY <3>3, <3>4
  <2> QED
    BY <2>1, <2>3 DEF AtHome
<1>12. OwnType(B, BS, S, P1, C1)
  BY <1>1, <1>3, <1>6 DEF OwnType
<1> QED
  BY <1>1, <1>3, <1>8, <1>9, <1>10, <1>11, <1>12 DEF Own, Exclusive, C1

\* conn_pool_acquire on some of the pools P, with outcome L (connections lent)
\* and Q (pools left), the connections lent being different ones.
Takes(P, C, Q, L) ==
  /\ L \in [Shards -> Conns \cup {NULL}]
  /\ \A x \in Shards : \/ L[x] = NULL /\ Q[x] = P[x]
                       \/ \E a \in conn_pool_acquire(P[x], C) : L[x] = a.conn /\ Q[x] = a.pool
  /\ \A x, y \in Shards : L[x] = L[y] => x = y \/ L[x] = NULL

\* What is lent is a usable connection to that shard that nobody else has.
LEMMA Take ==
  ASSUME NEW B, NEW BS, NEW S, NEW P, NEW C, Own(B, BS, S, P, C),
         NEW Q, NEW L, Takes(P, C, Q, L), Q = [x \in Shards |-> Q[x]]
  PROVE  /\ Own(B, BS, S, Q, Acquired(C, P, Q, L))
         /\ \A x \in Shards : L[x] # NULL =>
              /\ L[x] \in Conns /\ L[x] \notin Idle(Q) /\ Unheld(B, S, L[x])
              /\ Acquired(C, P, Q, L)[L[x]].status = "OK"
              /\ Acquired(C, P, Q, L)[L[x]].home = x
<1> DEFINE T == Acquired(C, P, Q, L)
           Prefix(x, n) ==
             /\ Q[x].idle_conns = SubSeq(P[x].idle_conns, 1, n)
             /\ L[x] # NULL =>
                  \/ C[L[x]].status = "FREE"
                  \/ /\ n + 1 \in DOMAIN P[x].idle_conns
                     /\ P[x].idle_conns[n + 1] = L[x] /\ C[L[x]].status = "OK"
<1>1. /\ P \in [Shards -> PoolType] /\ C \in [Conns -> PGconn]
      /\ IdleOnce(P) /\ HeldOnce(B, S) /\ IdleUnheld(B, S, P)
      /\ ClosedUnowned(B, S, P, C) /\ IdleAlive(P, C) /\ AtHome(B, BS, S, P, C)
      /\ WithinLimit(P) /\ OwnType(B, BS, S, P, C)
  BY DEF Own, OwnType, Exclusive
<1>2. ASSUME NEW x \in Shards
      PROVE  /\ Q[x] \in PoolType
             /\ \E n \in 0..Len(P[x].idle_conns) : Prefix(x, n)
             /\ Len(Q[x].idle_conns) + Q[x].active_count <= max_size
  <2>1. /\ P[x] \in PoolType /\ Len(P[x].idle_conns) + P[x].active_count <= max_size
        /\ P[x].idle_conns \in Seq(Conns) /\ Len(P[x].idle_conns) \in Nat
    BY <1>1 DEF WithinLimit, PoolType
  <2>2. CASE L[x] = NULL /\ Q[x] = P[x]
    <3>1. SubSeq(P[x].idle_conns, 1, Len(P[x].idle_conns)) = P[x].idle_conns
      BY <2>1
    <3>2. Len(P[x].idle_conns) \in 0..Len(P[x].idle_conns)
      BY <2>1
    <3>3. Prefix(x, Len(P[x].idle_conns))
      BY <2>2, <3>1
    <3> QED
      BY <2>1, <2>2, <3>2, <3>3, Zenon
  <2>3. ASSUME NEW a \in conn_pool_acquire(P[x], C), L[x] = a.conn, Q[x] = a.pool
        PROVE  /\ Q[x] \in PoolType
               /\ \E n \in 0..Len(P[x].idle_conns) : Prefix(x, n)
               /\ Len(Q[x].idle_conns) + Q[x].active_count <= max_size
    <3>1. /\ a.pool \in PoolType
          /\ \E m \in 0..Len(P[x].idle_conns) :
               /\ a.pool.idle_conns = SubSeq(P[x].idle_conns, 1, m)
               /\ a.conn # NULL =>
                    \/ C[a.conn].status = "FREE"
                    \/ /\ m + 1 \in DOMAIN P[x].idle_conns
                       /\ P[x].idle_conns[m + 1] = a.conn /\ C[a.conn].status = "OK"
          /\ Len(a.pool.idle_conns) + a.pool.active_count <= max_size
      BY <1>1, <2>1, AcquireFacts
    <3> QED
      BY <2>3, <3>1, Zenon
  <2> QED
    BY <2>2, <2>3 DEF Takes
<1> HIDE DEF Prefix
<1>3. Q \in [Shards -> PoolType] /\ WithinLimit(Q)
  BY <1>2 DEF WithinLimit
<1> DEFINE n == [x \in Shards |-> CHOOSE m \in 0..Len(P[x].idle_conns) : Prefix(x, m)]
<1>4. ASSUME NEW x \in Shards PROVE n[x] \in 0..Len(P[x].idle_conns) /\ Prefix(x, n[x])
  BY <1>2
<1>5. n \in [Shards -> Nat]
  BY <1>4
<1> HIDE DEF n
<1>6. /\ IdleOnce(Q) /\ Idle(Q) \subseteq Idle(P)
      /\ \A x \in Shards : \A i \in DOMAIN P[x].idle_conns :
           i > n[x] => P[x].idle_conns[i] \notin Idle(Q)
  <2>1. \A x \in Shards : /\ n[x] \in 0..Len(P[x].idle_conns)
                          /\ Q[x].idle_conns = SubSeq(P[x].idle_conns, 1, n[x])
    BY <1>4 DEF Prefix
  <2>2. IdleOnce(P) /\ P \in [Shards -> PoolType]
    BY <1>1
  <2> QED
    BY ONLY <1>3, <1>5, <2>1, <2>2, PrefixFacts, Zenon
<1>7. ASSUME NEW x \in Shards, L[x] # NULL
      PROVE  /\ L[x] \in Conns /\ L[x] \notin Idle(Q) /\ Unheld(B, S, L[x])
             /\ C[L[x]].status = "FREE" \/ (C[L[x]].status = "OK" /\ C[L[x]].home = x)
  <2>1. L[x] \in Conns
    BY <1>7 DEF Takes
  <2>2. CASE C[L[x]].status = "FREE"
    BY <1>1, <1>6, <2>1, <2>2 DEF ClosedUnowned
  <2>3. CASE /\ n[x] + 1 \in DOMAIN P[x].idle_conns
             /\ P[x].idle_conns[n[x] + 1] = L[x] /\ C[L[x]].status = "OK"
    <3>1. n[x] + 1 > n[x]
      BY <1>5
    <3>2. L[x] \notin Idle(Q)
      BY <1>6, <2>3, <3>1
    <3>3. L[x] \in Idle(P)
      BY <1>1, <2>3, IdleEntry, SMTT(30)
    <3>4. Unheld(B, S, L[x]) /\ C[L[x]].home = x
      BY <1>1, <2>3, <3>3 DEF IdleUnheld, AtHome
    <3> QED
      BY <2>1, <2>3, <3>2, <3>4
  <2> QED
    BY <1>4, <1>7, <2>2, <2>3 DEF Prefix
<1>8. T \in [Conns -> PGconn]
  BY <1>1, AcquiredType
<1>9. ASSUME NEW c \in Conns
      PROVE  T[c] = IF \E sh \in Shards : L[sh] = c
                    THEN IF C[c].status = "FREE"
                         THEN PQconnectdb(CHOOSE sh \in Shards : L[sh] = c) ELSE C[c]
                    ELSE IF c \in Idle(P) \ Idle(Q) THEN FreeConn ELSE C[c]
  BY DEF Acquired
<1> HIDE DEF T
<1>10. ASSUME NEW x \in Shards, L[x] # NULL
       PROVE  T[L[x]].status = "OK" /\ T[L[x]].home = x
  <2>1. L[x] \in Conns
    BY <1>7, <1>10
  <2>2. (CHOOSE sh \in Shards : L[sh] = L[x]) = x
    BY <1>10 DEF Takes
  <2>3. PQconnectdb(x).status = "OK" /\ PQconnectdb(x).home = x
    BY DEF PQconnectdb, FreeConn
  <2>4. T[L[x]] = IF C[L[x]].status = "FREE" THEN PQconnectdb(x) ELSE C[L[x]]
    BY <1>9, <2>1, <2>2
  <2> QED
    BY <1>7, <1>10, <2>3, <2>4
<1>11. ASSUME NEW c \in Idle(Q) PROVE T[c] = C[c] /\ c \in Conns
  <2>1. c \in Conns
    BY <1>3, IdleType
  <2>2. \A sh \in Shards : L[sh] # c
    BY <1>7, <2>1, LibpqAssumption
  <2> QED
    BY <1>9, <2>1, <2>2
<1>12. ASSUME NEW c \in Conns, ~Unheld(B, S, c) PROVE T[c] = C[c]
  <2>1. \A sh \in Shards : L[sh] # c
    BY <1>7, <1>12, LibpqAssumption
  <2>2. c \notin Idle(P)
    BY <1>1, <1>12 DEF IdleUnheld
  <2> QED
    BY <1>9, <2>1, <2>2
<1>13. IdleUnheld(B, S, Q) /\ IdleAlive(Q, T)
  BY <1>1, <1>6, <1>11 DEF IdleUnheld, IdleAlive
<1>14. ClosedUnowned(B, S, Q, T)
  <2>1. ASSUME NEW c \in Conns, T[c].status = "FREE"
        PROVE  c \notin Idle(Q) /\ Unheld(B, S, c)
    <3>1. c \notin Idle(Q)
      BY <1>13, <2>1 DEF IdleAlive
    <3>2. CASE ~Unheld(B, S, c)
      BY <1>1, <1>12, <2>1, <3>2 DEF ClosedUnowned
    <3> QED
      BY <3>1, <3>2
  <2> QED
    BY <2>1 DEF ClosedUnowned
<1>15. AtHome(B, BS, S, Q, T)
  <2>1. ASSUME NEW sh \in Shards, NEW i \in DOMAIN Q[sh].idle_conns
        PROVE  T[Q[sh].idle_conns[i]].home = sh
    <3>1. Q[sh].idle_conns[i] \in Idle(Q)
      BY <1>3, IdleEntry, SMTT(30)
    <3>2. n[sh] \in 0..Len(P[sh].idle_conns) /\ Q[sh].idle_conns = SubSeq(P[sh].idle_conns, 1, n[sh])
      BY <1>4 DEF Prefix
    <3>3. P[sh].idle_conns \in Seq(Conns)
      BY <1>1 DEF PoolType
    <3>4. i \in DOMAIN P[sh].idle_conns /\ Q[sh].idle_conns[i] = P[sh].idle_conns[i]
      <4> DEFINE q == P[sh].idle_conns
                 m == n[sh]
      <4>1. DOMAIN SubSeq(q, 1, m) = 1..m /\ i \in DOMAIN SubSeq(q, 1, m)
        BY <3>2, <3>3
      <4>2. i \in 1..m /\ i \in 1..Len(q)
        BY <3>2, <3>3, <4>1
      <4> QED
        BY <3>2, <3>3, <4>2
    <3>5. C[P[sh].idle_conns[i]].home = sh
      BY <1>1, <3>4 DEF AtHome
    <3> QED
      BY <1>11, <3>1, <3>4, <3>5
  <2>2. ASSUME NEW s \in Sessions
        PROVE  /\ B[s] # NULL => T[B[s]].home = BS[s]
               /\ \A sh \in Shards : S[s][sh] # NULL => T[S[s][sh]].home = sh
    <3>1. B[s] \in Conns \cup {NULL} /\ \A sh \in Shards : S[s][sh] \in Conns \cup {NULL}
      BY <1>1 DEF OwnType
    <3>2. ~Unheld(B, S, B[s]) /\ \A sh \in Shards : ~Unheld(B, S, S[s][sh])
      BY DEF Unheld
    <3>3. /\ B[s] # NULL => C[B[s]].home = BS[s]
          /\ \A sh \in Shards : S[s][sh] # NULL => C[S[s][sh]].home = sh
      BY <1>1 DEF AtHome
    <3> QED
      BY <1>12, <3>1, <3>2, <3>3
  <2> QED
    BY <2>1, <2>2 DEF AtHome
<1>16. OwnType(B, BS, S, Q, T)
  BY <1>1, <1>3, <1>8 DEF OwnType
<1> QED
  BY <1>1, <1>3, <1>6, <1>7, <1>10, <1>13, <1>14, <1>15, <1>16, Zenon DEF Own, Exclusive, T

\* A connection that nobody has becomes a session's backend_conn.
LEMMA Attach ==
  ASSUME NEW B, NEW BS, NEW S, NEW P, NEW C, Own(B, BS, S, P, C),
         NEW s \in Sessions, NEW c \in Conns, NEW h \in Shards \cup {NULL},
         c \notin Idle(P), Unheld(B, S, c), C[c].status # "FREE", C[c].home = h
  PROVE  Own([B EXCEPT ![s] = c], [BS EXCEPT ![s] = h], S, P, C)
<1> DEFINE B1 == [B EXCEPT ![s] = c]
           BS1 == [BS EXCEPT ![s] = h]
<1>1. /\ OwnType(B, BS, S, P, C) /\ IdleOnce(P) /\ HeldOnce(B, S) /\ IdleUnheld(B, S, P)
      /\ ClosedUnowned(B, S, P, C) /\ IdleAlive(P, C) /\ AtHome(B, BS, S, P, C)
      /\ WithinLimit(P)
  BY DEF Own, Exclusive
<1>2. OwnType(B1, BS1, S, P, C)
  BY <1>1 DEF OwnType
<1>3. \A t \in Sessions : /\ B1[t] = IF t = s THEN c ELSE B[t]
                          /\ BS1[t] = IF t = s THEN h ELSE BS[t]
  BY <1>1 DEF OwnType
<1> HIDE DEF B1, BS1
<1>4. HeldOnce(B1, S)
  <2>1. ASSUME NEW t \in Sessions, NEW u \in Sessions
        PROVE  /\ B1[t] = B1[u] => t = u \/ B1[t] = NULL
               /\ \A x \in Shards : B1[t] = S[u][x] => B1[t] = NULL
               /\ \A x, y \in Shards : S[t][x] = S[u][y] => (t = u /\ x = y) \/ S[t][x] = NULL
    <3>1. /\ B[t] = B[u] => t = u \/ B[t] = NULL
          /\ \A x \in Shards : B[t] = S[u][x] => B[t] = NULL
          /\ \A x, y \in Shards : S[t][x] = S[u][y] => (t = u /\ x = y) \/ S[t][x] = NULL
      BY <1>1, Zenon DEF HeldOnce
    <3>2. B[t] # c /\ B[u] # c /\ \A x \in Shards : S[u][x] # c
      BY DEF Unheld
    <3>3. B1[t] = (IF t = s THEN c ELSE B[t]) /\ B1[u] = (IF u = s THEN c ELSE B[u])
      BY <1>3
    <3> QED
      BY ONLY <3>1, <3>2, <3>3
  <2> QED
    BY ONLY <2>1 DEF HeldOnce
<1>5. ASSUME NEW d, d # c, Unheld(B, S, d) PROVE Unheld(B1, S, d)
  BY <1>3, <1>5 DEF Unheld
<1>6. IdleUnheld(B1, S, P) /\ ClosedUnowned(B1, S, P, C)
  BY <1>1, <1>5 DEF IdleUnheld, ClosedUnowned
<1>7. AtHome(B1, BS1, S, P, C)
  BY <1>1, <1>3 DEF AtHome
<1> QED
  BY <1>1, <1>2, <1>4, <1>6, <1>7 DEF Own, Exclusive, B1, BS1

\* Connections that nobody has become a session's scatter slots.
LEMMA AttachScatter ==
  ASSUME NEW B, NEW BS, NEW S, NEW P, NEW C, Own(B, BS, S, P, C),
         NEW s \in Sessions, NEW L \in [Shards -> Conns \cup {NULL}],
         \A x, y \in Shards : L[x] = L[y] => x = y \/ L[x] = NULL,
         \A x \in Shards : L[x] # NULL =>
           /\ L[x] \notin Idle(P) /\ Unheld(B, S, L[x])
           /\ C[L[x]].status # "FREE" /\ C[L[x]].home = x
  PROVE  Own(B, BS, [S EXCEPT ![s] = L], P, C)
<1> DEFINE S1 == [S EXCEPT ![s] = L]
<1>1. /\ OwnType(B, BS, S, P, C) /\ IdleOnce(P) /\ HeldOnce(B, S) /\ IdleUnheld(B, S, P)
      /\ ClosedUnowned(B, S, P, C) /\ IdleAlive(P, C) /\ AtHome(B, BS, S, P, C)
      /\ WithinLimit(P)
  BY DEF Own, Exclusive
<1>2. OwnType(B, BS, S1, P, C)
  BY <1>1 DEF OwnType
<1>3. \A t \in Sessions : S1[t] = IF t = s THEN L ELSE S[t]
  BY <1>1 DEF OwnType
<1> HIDE DEF S1
<1>4. HeldOnce(B, S1)
  <2>1. ASSUME NEW t \in Sessions, NEW u \in Sessions
        PROVE  /\ B[t] = B[u] => t = u \/ B[t] = NULL
               /\ \A x \in Shards : B[t] = S1[u][x] => B[t] = NULL
    <3>1. /\ B[t] = B[u] => t = u \/ B[t] = NULL
          /\ \A x \in Shards : B[t] = S[u][x] => B[t] = NULL
      BY <1>1, Zenon DEF HeldOnce
    <3>2. ASSUME NEW x \in Shards, L[x] # NULL PROVE B[t] # L[x]
      BY <3>2 DEF Unheld
    <3>3. S1[u] = IF u = s THEN L ELSE S[u]
      BY <1>3
    <3> QED
      BY ONLY <3>1, <3>2, <3>3
  <2>2. ASSUME NEW t \in Sessions, NEW u \in Sessions, NEW x \in Shards, NEW y \in Shards,
               S1[t][x] = S1[u][y]
        PROVE  (t = u /\ x = y) \/ S1[t][x] = NULL
    <3>1. CASE t # s /\ u # s
      <4>1. S1[t] = S[t] /\ S1[u] = S[u]
        BY ONLY t \in Sessions, u \in Sessions, <1>3, <3>1
      <4>2. S[t][x] = S[u][y] => (t = u /\ x = y) \/ S[t][x] = NULL
        <5>1. HeldOnce(B, S)
          BY <1>1
        <5> QED
          BY ONLY <5>1, t \in Sessions, u \in Sessions, x \in Shards, y \in Shards DEF HeldOnce
      <4> QED
        BY ONLY <2>2, <4>1, <4>2
    <3>2. CASE t = s /\ u # s
      BY <1>3, <2>2, <3>2 DEF Unheld
    <3>3. CASE t # s /\ u = s
      BY <1>3, <2>2, <3>3 DEF Unheld
    <3>4. CASE t = s /\ u = s
      BY <1>3, <2>2, <3>4
    <3> QED
      BY <3>1, <3>2, <3>3, <3>4
  <2> QED
    BY <2>1, <2>2 DEF HeldOnce
<1>5. ASSUME NEW d, \A x \in Shards : L[x] # d, Unheld(B, S, d) PROVE Unheld(B, S1, d)
  BY <1>3, <1>5 DEF Unheld
<1>6. IdleUnheld(B, S1, P)
  <2>1. ASSUME NEW d \in Idle(P) PROVE Unheld(B, S1, d)
    <3>1. d \in Conns
      BY <1>1, IdleType DEF OwnType
    <3>2. \A x \in Shards : L[x] # d
      BY <3>1, LibpqAssumption
    <3> QED
      BY <1>1, <1>5, <3>2 DEF IdleUnheld
  <2> QED
    BY <2>1 DEF IdleUnheld
<1>7. ClosedUnowned(B, S1, P, C)
  <2>1. ASSUME NEW d \in Conns, C[d].status = "FREE"
        PROVE  d \notin Idle(P) /\ Unheld(B, S1, d)
    <3>1. \A x \in Shards : L[x] # d
      BY <2>1, LibpqAssumption
    <3> QED
      BY <1>1, <1>5, <2>1, <3>1 DEF ClosedUnowned
  <2> QED
    BY <2>1 DEF ClosedUnowned
<1>8. AtHome(B, BS, S1, P, C)
  <2>1. ASSUME NEW t \in Sessions
        PROVE  /\ B[t] # NULL => C[B[t]].home = BS[t]
               /\ \A sh \in Shards : S1[t][sh] # NULL => C[S1[t][sh]].home = sh
    <3>1. /\ B[t] # NULL => C[B[t]].home = BS[t]
          /\ \A sh \in Shards : S[t][sh] # NULL => C[S[t][sh]].home = sh
      BY <1>1 DEF AtHome
    <3>2. S1[t] = IF t = s THEN L ELSE S[t]
      BY <1>3
    <3>3. \A sh \in Shards : L[sh] # NULL => C[L[sh]].home = sh
      OBVIOUS
    <3> QED
      BY ONLY <3>1, <3>2, <3>3
  <2>2. \A sh \in Shards : \A i \in DOMAIN P[sh].idle_conns : C[P[sh].idle_conns[i]].home = sh
    BY <1>1 DEF AtHome
  <2> QED
    BY ONLY <2>1, <2>2 DEF AtHome
<1> QED
  BY <1>1, <1>2, <1>4, <1>6, <1>7, <1>8 DEF Own, Exclusive, S1

\* Of the connections L that were lent, those of the shards in sent are kept (K), the
\* others (D) go back, which leaves the pools P1.
Keeps(B, S, Q, T, L, sent, K, D, P1) ==
  /\ L \in [Shards -> Conns \cup {NULL}] /\ sent \in SUBSET Shards
  /\ \A x, y \in Shards : L[x] = L[y] => x = y \/ L[x] = NULL
  /\ \A x \in Shards : L[x] # NULL =>
       /\ L[x] \notin Idle(Q) /\ Unheld(B, S, L[x])
       /\ T[L[x]].status = "OK" /\ T[L[x]].home = x
  /\ \A x \in sent : L[x] # NULL
  /\ K = [x \in Shards |-> IF x \in sent THEN L[x] ELSE NULL]
  /\ D = {L[x] : x \in Shards \ sent}
  /\ P1 = [x \in Shards |-> IF L[x] = NULL \/ x \in sent THEN Q[x]
                            ELSE conn_pool_release(Q[x], T, L[x])]

\* The connections kept go into the slots of s, the others back to the pools.
LEMMA KeepSome ==
  ASSUME NEW B, NEW BS, NEW S, NEW Q, NEW T, Own(B, BS, S, Q, T),
         NEW s \in Sessions, NEW L, NEW sent, NEW K, NEW D, NEW P1,
         Keeps(B, S, Q, T, L, sent, K, D, P1)
  PROVE  Own(B, BS, [S EXCEPT ![s] = K], P1, Finish(T, D, P1))
<1> DEFINE C1 == Finish(T, D, P1)
           r == [x \in Shards |-> IF x \in sent THEN NULL ELSE L[x]]
<1>0. /\ L \in [Shards -> Conns \cup {NULL}] /\ sent \in SUBSET Shards
      /\ \A x, y \in Shards : L[x] = L[y] => x = y \/ L[x] = NULL
      /\ \A x \in Shards : L[x] # NULL =>
           /\ L[x] \notin Idle(Q) /\ Unheld(B, S, L[x])
           /\ T[L[x]].status = "OK" /\ T[L[x]].home = x
      /\ \A x \in sent : L[x] # NULL
      /\ K = [x \in Shards |-> IF x \in sent THEN L[x] ELSE NULL]
      /\ D = {L[x] : x \in Shards \ sent}
      /\ P1 = [x \in Shards |-> IF L[x] = NULL \/ x \in sent THEN Q[x]
                                ELSE conn_pool_release(Q[x], T, L[x])]
  BY DEF Keeps
<1>1. r \in [Shards -> Conns \cup {NULL}] /\ K \in [Shards -> Conns \cup {NULL}]
  BY <1>0
<1>2. /\ \A x \in Shards : r[x] = IF x \in sent THEN NULL ELSE L[x]
      /\ \A x \in Shards : K[x] = IF x \in sent THEN L[x] ELSE NULL
      /\ \A c : c \in D <=> \E x \in Shards \ sent : c = L[x]
  BY <1>0
<1> HIDE DEF r
<1>3. P1 = [x \in Shards |-> IF r[x] = NULL THEN Q[x] ELSE conn_pool_release(Q[x], T, r[x])]
  BY <1>0, <1>2
<1>4. \A x, y \in Shards : r[x] = r[y] => x = y \/ r[x] = NULL
  BY <1>0, <1>2
<1>5. \A x \in Shards : r[x] # NULL => /\ r[x] \notin Idle(Q) /\ Unheld(B, S, r[x])
                                       /\ T[r[x]].home = x
  BY <1>0, <1>2
<1>6. \A c \in D \cap Conns : Unheld(B, S, c)
  BY <1>0, <1>2, LibpqAssumption
<1>7. /\ Own(B, BS, S, P1, Finish(T, D, P1))
      /\ \A c \in Idle(P1) : c \in Idle(Q) \/ \E x \in Shards : r[x] = c /\ r[x] # NULL
  <2>1. GivesBack(B, S, Q, T, r, P1)
    BY <1>1, <1>3, <1>4, <1>5 DEF GivesBack
  <2>2. Own(B, BS, S, P1, Finish(T, D, P1))
    BY ONLY Own(B, BS, S, Q, T), <1>6, <2>1, Return, SMTT(30)
  <2>3. \A c \in Idle(P1) : c \in Idle(Q) \/ \E x \in Shards : r[x] = c /\ r[x] # NULL
    <3>1. PoolsAfter(Q, T, r, P1)
      BY ONLY Own(B, BS, S, Q, T), <2>1, ReturnPools, Zenon
    <3> QED
      BY ONLY <3>1 DEF PoolsAfter
  <2> QED
    BY <2>2, <2>3
<1>8. \A x, y \in Shards : K[x] = K[y] => x = y \/ K[x] = NULL
  BY <1>0, <1>2
<1>9. ASSUME NEW x \in Shards, K[x] # NULL
      PROVE  /\ K[x] \notin Idle(P1) /\ Unheld(B, S, K[x])
             /\ C1[K[x]].status # "FREE" /\ C1[K[x]].home = x
  <2>1. x \in sent /\ K[x] = L[x] /\ L[x] # NULL /\ L[x] \in Conns
    BY <1>0, <1>2, <1>9
  <2>2. L[x] \notin D /\ \A y \in Shards : r[y] = L[x] => r[y] = NULL
    BY <1>0, <1>2, <2>1
  <2>3. C1[L[x]] = T[L[x]]
    BY <2>1, <2>2 DEF Finish
  <2> QED
    BY <1>0, <1>7, <2>1, <2>2, <2>3
<1> HIDE DEF C1
<1>10. Own(B, BS, S, P1, C1)
  BY <1>7 DEF C1
<1>11. Own(B, BS, [S EXCEPT ![s] = K], P1, C1)
  BY ONLY s \in Sessions, <1>1, <1>8, <1>9, <1>10, AttachScatter, SMTT(30)
<1> QED
  BY ONLY <1>11 DEF C1
=============================================================================
