------------------------------- MODULE ConnPool -------------------------------
(***************************************************************************)
(* src/src/pool/conn_pool.c: the per-shard pool of backend connections.    *)
(* The functions are operators from a pool record and the connection       *)
(* table C to their results; the session module calls them.                *)
(***************************************************************************)
EXTENDS Libpq, Functions

CONSTANT max_size     \* pool->max_size, the same for every shard

ASSUME PoolAssumption == max_size \in Nat

\* ConnPool: the idle_conns array (its first idle_count entries) and
\* active_count, an int the code decrements without a check.
PoolType == [idle_conns : Seq(Conns), active_count : Int]

conn_pool_init == [idle_conns |-> <<>>, active_count |-> 0]

(***************************************************************************)
(* conn_pool_acquire pops idle connections from the end and closes dead    *)
(* ones until it meets a live one; without one it connects, below the      *)
(* limit.  The result is the set of outcomes: the connection or NULL (at   *)
(* the limit, or PQconnectdb fails) and the pool afterwards.               *)
(***************************************************************************)
Live(p, C) == {i \in DOMAIN p.idle_conns : C[p.idle_conns[i]].status = "OK"}

\* Mutant: one connection more than the limit.
AcquireOneMore(p, C) ==
  LET top == {i \in Live(p, C) : \A j \in Live(p, C) : j <= i}
      none(n) == [idle_conns |-> <<>>, active_count |-> n]
      new == {c \in Conns : p.active_count <= max_size /\ C[c].status = "FREE"}
  IN  IF Live(p, C) # {}
      THEN {[conn |-> p.idle_conns[i],
             pool |-> [idle_conns |-> SubSeq(p.idle_conns, 1, i - 1),
                       active_count |-> p.active_count + 1]] : i \in top}
      ELSE {[conn |-> NULL, pool |-> none(p.active_count)]}
           \cup {[conn |-> c, pool |-> none(p.active_count + 1)] : c \in new}

conn_pool_acquire(p, C) ==
  LET top == {i \in Live(p, C) : \A j \in Live(p, C) : j <= i}
      none(n) == [idle_conns |-> <<>>, active_count |-> n]
      new == {c \in Conns : p.active_count < max_size /\ C[c].status = "FREE"}
  IN  IF Live(p, C) # {}
      THEN {[conn |-> p.idle_conns[i],
             pool |-> [idle_conns |-> SubSeq(p.idle_conns, 1, i - 1),
                       active_count |-> p.active_count + 1]] : i \in top}
      ELSE {[conn |-> NULL, pool |-> none(p.active_count)]}
           \cup {[conn |-> c, pool |-> none(p.active_count + 1)] : c \in new}

\* Mutant: the transaction status is not looked at.
ReleaseAnyStatus(p, C, c) ==
  [idle_conns |-> IF C[c].status = "OK" /\ Len(p.idle_conns) < max_size
                  THEN Append(p.idle_conns, c) ELSE p.idle_conns,
   active_count |-> p.active_count - 1]

\* Mutant: a connection that is closed stays counted.
ReleaseMiscounts(p, C, c) ==
  IF /\ C[c].status = "OK" /\ PQtransactionStatus(C[c]) = "IDLE"
     /\ Len(p.idle_conns) < max_size
  THEN [idle_conns |-> Append(p.idle_conns, c), active_count |-> p.active_count - 1]
  ELSE p

\* conn_pool_release takes the connection back only if it is healthy and
\* outside any transaction or command; active_count goes down either way.
conn_pool_release(p, C, c) ==
  [idle_conns |-> IF /\ C[c].status = "OK"
                     /\ PQtransactionStatus(C[c]) = "IDLE"
                     /\ Len(p.idle_conns) < max_size
                  THEN Append(p.idle_conns, c)
                  ELSE p.idle_conns,
   active_count |-> p.active_count - 1]

\* conn_pool_health_check drops the idle connections that libpq knows to be
\* broken; it reads nothing from their sockets.
conn_pool_health_check(p, C) ==
  LET alive(c) == C[c].status = "OK"
  IN  IF Live(p, C) = DOMAIN p.idle_conns THEN p
      ELSE [p EXCEPT !.idle_conns = SelectSeq(@, alive)]

\* The connections that are idle in the pools P.
Idle(P) == UNION {Range(P[sh].idle_conns) : sh \in Shards}

\* No pool has more connections, idle and lent together, than its limit.
WithinLimit(P) ==
  \A sh \in Shards : Len(P[sh].idle_conns) + P[sh].active_count <= max_size

\* No connection is twice in the idle arrays.
IdleOnce(P) ==
  \A x, y \in Shards :
    \A i \in DOMAIN P[x].idle_conns, j \in DOMAIN P[y].idle_conns :
      P[x].idle_conns[i] = P[y].idle_conns[j] => x = y /\ i = j

\* libpq knows of no broken connection among the idle ones.
IdleAlive(P, C) == \A c \in Idle(P) : C[c].status = "OK"

\* The connection table after the connections S have been handed to
\* conn_pool_release, conn_pool_health_check or PQfinish and left the pools P:
\* those that no pool keeps have been closed.
Finish(C, S, P) ==
  [c \in Conns |-> IF c \in S /\ c \notin Idle(P) THEN FreeConn ELSE C[c]]

\* The connection table after conn_pool_acquire on pools P left the pools Q and
\* lent L[sh] to the caller: a new connection has been opened, dead idle ones
\* have been closed.
Acquired(C, P, Q, L) ==
  [c \in Conns |->
     IF \E sh \in Shards : L[sh] = c
     THEN IF C[c].status = "FREE"
          THEN PQconnectdb(CHOOSE sh \in Shards : L[sh] = c) ELSE C[c]
     ELSE IF c \in Idle(P) \ Idle(Q) THEN FreeConn ELSE C[c]]
=============================================================================
