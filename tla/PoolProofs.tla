------------------------------ MODULE PoolProofs ------------------------------
(***************************************************************************)
(* Lemmas about the operators of Libpq and ConnPool: types, and what the   *)
(* pool functions do to the idle array and to active_count.                *)
(***************************************************************************)
EXTENDS ConnPool, TLAPS

(***************************************************************************)
(* libpq operations keep a PGconn a PGconn.                                *)
(***************************************************************************)

\* Freed memory has the type of a PGconn.
LEMMA FreeConnType == FreeConn \in PGconn
BY DEF FreeConn, PGconn, Status, Token, Op

\* So has what PQconnectdb returns.
LEMMA ConnectType ==
  ASSUME NEW sh \in Shards \cup {NULL}
  PROVE  PQconnectdb(sh) \in PGconn
BY FreeConnType, Zenon DEF PQconnectdb, PGconn

\* PQsendQuery.
LEMMA SendQueryType ==
  ASSUME NEW k \in PGconn, NEW op \in Op
  PROVE  PQsendQuery(k, op) \in PGconn
BY Zenon DEF PQsendQuery, PGconn

\* PQconsumeInput.
LEMMA ConsumeType ==
  ASSUME NEW k \in PGconn
  PROVE  PQconsumeInput(k) \in PGconn
<1>1. k.inbuf \o k.wire \in Seq(Token) /\ <<>> \in Seq(Token)
  BY DEF PGconn
<1> QED
  BY <1>1, Zenon DEF PQconsumeInput, PGconn

\* The results libpq had parsed are used up.
LEMMA EmptiedType ==
  ASSUME NEW k \in PGconn
  PROVE  [k EXCEPT !.inbuf = <<>>] \in PGconn
<1>1. <<>> \in Seq(Token)
  OBVIOUS
<1> QED
  BY <1>1, Zenon DEF PGconn

\* A connection that libpq finds broken.
LEMMA BrokenType ==
  ASSUME NEW k \in PGconn
  PROVE  Broken(k) \in PGconn
BY Zenon DEF Broken, PGconn

\* The rest of a sequence is a sequence.
LEMMA FromType ==
  ASSUME NEW S, NEW q \in Seq(S), NEW i \in 1..(Len(q) + 1)
  PROVE  From(q, i) \in Seq(S)
BY DEF From

\* PQgetResult that ends a command.
LEMMA GotReadyType ==
  ASSUME NEW k \in PGconn, NEW i \in DOMAIN k.inbuf, k.inbuf[i] \in Status
  PROVE  GotReady(k, i) \in PGconn
<1>1. k.inbuf \in Seq(Token) /\ i + 1 \in 1..(Len(k.inbuf) + 1)
  BY DEF PGconn
<1>2. From(k.inbuf, i + 1) \in Seq(Token)
  BY <1>1, FromType
<1> QED
  BY <1>2, Zenon DEF GotReady, PGconn

\* PQputCopyEnd, and the server's end of a COPY.
LEMMA CopyEndType ==
  ASSUME NEW k \in PGconn, NEW ok \in BOOLEAN
  PROVE  PQputCopyEnd(k) \in PGconn /\ CopyEnds(k, ok) \in PGconn
<1>1. k.todo \in Seq(Token) /\ k.xact \in Status
  BY DEF PGconn
<1> DEFINE more == IF ok THEN <<"Complete", k.xact>> ELSE <<"Error", OnError(k.xact)>>
<1>2. more \in Seq(Token)
  <2>1. OnError(k.xact) \in Token /\ k.xact \in Token /\ "Complete" \in Token /\ "Error" \in Token
    BY <1>1 DEF OnError, Token, Status
  <2> QED
    BY <2>1
<1>3. k.todo \o more \in Seq(Token)
  BY <1>1, <1>2
<1>4. CopyEnds(k, ok) \in PGconn
  BY <1>3, Zenon DEF CopyEnds, PGconn
<1>5. PQputCopyEnd(k) \in PGconn
  BY SMTT(30) DEF PQputCopyEnd, PGconn
<1> QED
  BY <1>4, <1>5

\* The server's answer is a sequence of tokens.
LEMMA ResponseType ==
  ASSUME NEW op \in Op, NEW x \in Status, NEW answer \in Response(op, x)
  PROVE  answer \in Seq(Token)
<1>1. /\ x \in Token /\ OnError(x) \in Token
      /\ {"Complete", "Error", "CopyIn", "CopyOut", "Data", "Done", "IDLE", "INTRANS"}
           \subseteq Token
  BY DEF Token, Status, OnError
<1>2. ASSUME NEW r \in Results PROVE Append(r, x) \in Seq(Token)
  <2>1. r \in Seq({"Rows", "Complete"}) /\ {"Rows", "Complete"} \subseteq Token
    BY LibpqAssumption DEF Token
  <2>2. r \in Seq(Token)
    BY <2>1
  <2> QED
    BY <2>2, <1>1
<1> DEFINE failed == {<<"Error", OnError(x)>>}
<1>3. failed \subseteq Seq(Token)
  BY <1>1
<1>3a. <<"CopyIn">> \in Seq(Token)
  <2>1. "CopyIn" \in Token
    BY DEF Token
  <2> QED
    BY <2>1
<1>3b. <<"CopyOut", "Data", "Done", "Complete", x>> \in Seq(Token)
  BY <1>1
<1>3c. <<"CopyOut", "Data", "Error", OnError(x)>> \in Seq(Token)
  BY <1>1
<1>4. CASE op = "commit"
  BY <1>4, <1>1 DEF Response
<1>5. CASE op # "commit" /\ x = "INERROR"
  BY <1>5, <1>3, Zenon DEF Response
<1>6. CASE op # "commit" /\ x # "INERROR" /\ op = "query"
  BY <1>6, <1>3, <1>2, Zenon DEF Response
<1>7. CASE op # "commit" /\ x # "INERROR" /\ op = "begin"
  <2>1. answer = <<"Complete", "INTRANS">>
    BY <1>7 DEF Response
  <2> QED
    BY <2>1, <1>1
<1>8. CASE op # "commit" /\ x # "INERROR" /\ op = "copyin"
  <2>1. answer \in failed \/ answer = <<"CopyIn">>
    BY <1>8 DEF Response
  <2> QED
    BY <2>1, <1>3, <1>3a, Zenon
<1>9. CASE op # "commit" /\ x # "INERROR" /\ op = "copyout"
  <2>1. \/ answer = <<"CopyOut", "Data", "Done", "Complete", x>>
        \/ answer = <<"CopyOut", "Data", "Error", OnError(x)>>
    BY <1>9 DEF Response
  <2> QED
    BY <2>1, <1>3b, <1>3c, Zenon
<1> QED
  BY <1>4, <1>5, <1>6, <1>7, <1>8, <1>9 DEF Op

\* What the server does to a connection: execute, write, go away.
LEMMA ServerType ==
  ASSUME NEW k \in PGconn
  PROVE  /\ \A answer \in Seq(Token) : Execute(k, answer) \in PGconn
         /\ \A n \in 1..Len(k.todo) : Emit(k, n) \in PGconn
         /\ \A how \in {"fin", "rst"} : Crash(k, how) \in PGconn
<1>1. k.todo \in Seq(Token) /\ k.wire \in Seq(Token) /\ k.notice \in BOOLEAN
      /\ <<>> \in Seq(Token)
  BY DEF PGconn
<1>2. ASSUME NEW answer \in Seq(Token) PROVE Execute(k, answer) \in PGconn
  BY Zenon DEF Execute, PGconn
<1>3. ASSUME NEW n \in 1..Len(k.todo) PROVE Emit(k, n) \in PGconn
  <2>1. SubSeq(k.todo, 1, n) \in Seq(Token) /\ n + 1 \in 1..(Len(k.todo) + 1)
    BY <1>1
  <2>2. k.wire \o SubSeq(k.todo, 1, n) \in Seq(Token)
    BY <1>1, <2>1
  <2>3. From(k.todo, n + 1) \in Seq(Token)
    BY <1>1, <2>1, FromType
  <2> QED
    BY <2>2, <2>3, Zenon DEF Emit, PGconn
<1>4. ASSUME NEW how \in {"fin", "rst"} PROVE Crash(k, how) \in PGconn
  BY <1>1, Zenon DEF Crash, PGconn
<1> QED
  BY <1>2, <1>3, <1>4

(***************************************************************************)
(* The pool functions.                                                     *)
(***************************************************************************)

\* conn_pool_release: the connection is appended to the idle array, healthy, or
\* the array is unchanged; idle and active connections together do not grow.
LEMMA ReleaseFacts ==
  ASSUME NEW p \in PoolType, NEW C \in [Conns -> PGconn], NEW c \in Conns,
         NEW r, r = conn_pool_release(p, C, c)
  PROVE  /\ r \in PoolType
         /\ \/ r.idle_conns = p.idle_conns
            \/ r.idle_conns = Append(p.idle_conns, c) /\ C[c].status = "OK"
         /\ Len(r.idle_conns) + r.active_count <= Len(p.idle_conns) + p.active_count
<1>1. p.idle_conns \in Seq(Conns) /\ p.active_count \in Int
  BY DEF PoolType
<1>2. r.active_count = p.active_count - 1
  BY DEF conn_pool_release
<1>3. \/ r.idle_conns = p.idle_conns
      \/ r.idle_conns = Append(p.idle_conns, c) /\ C[c].status = "OK"
  BY DEF conn_pool_release
<1>4. r.idle_conns \in Seq(Conns) /\ Len(r.idle_conns) <= Len(p.idle_conns) + 1
  <2>1. /\ Append(p.idle_conns, c) \in Seq(Conns) /\ Len(p.idle_conns) \in Nat
        /\ Len(Append(p.idle_conns, c)) = Len(p.idle_conns) + 1
    BY <1>1
  <2>2. r.idle_conns = p.idle_conns \/ r.idle_conns = Append(p.idle_conns, c)
    BY <1>3
  <2>3. CASE r.idle_conns = p.idle_conns
    BY <1>1, <2>3
  <2>4. CASE r.idle_conns = Append(p.idle_conns, c)
    BY <2>1, <2>4
  <2> QED
    BY <2>2, <2>3, <2>4
<1>5. r \in PoolType
  BY <1>1, <1>2, <1>4 DEF conn_pool_release, PoolType
<1>6. Len(p.idle_conns) \in Nat /\ Len(r.idle_conns) \in Nat
  BY <1>1, <1>4
<1> QED
  BY <1>1, <1>2, <1>3, <1>4, <1>5, <1>6

\* conn_pool_acquire leaves a prefix of the idle array.  It lends the healthy
\* entry behind that prefix, or a new connection, and keeps within max_size.
LEMMA AcquireFacts ==
  ASSUME NEW p \in PoolType, NEW C \in [Conns -> PGconn],
         NEW a \in conn_pool_acquire(p, C)
  PROVE  /\ a.conn \in Conns \cup {NULL} /\ a.pool \in PoolType
         /\ \E n \in 0..Len(p.idle_conns) :
              /\ a.pool.idle_conns = SubSeq(p.idle_conns, 1, n)
              /\ a.conn # NULL =>
                   \/ C[a.conn].status = "FREE"
                   \/ /\ n + 1 \in DOMAIN p.idle_conns
                      /\ p.idle_conns[n + 1] = a.conn /\ C[a.conn].status = "OK"
         /\ Len(p.idle_conns) + p.active_count <= max_size
              => Len(a.pool.idle_conns) + a.pool.active_count <= max_size
<1>1. p.idle_conns \in Seq(Conns) /\ p.active_count \in Int /\ Len(p.idle_conns) \in Nat
  BY DEF PoolType
<1>2. CASE Live(p, C) # {}
  <2>1. PICK i \in Live(p, C) :
          a = [conn |-> p.idle_conns[i],
               pool |-> [idle_conns |-> SubSeq(p.idle_conns, 1, i - 1),
                         active_count |-> p.active_count + 1]]
    BY <1>2 DEF conn_pool_acquire
  <2>2. i \in DOMAIN p.idle_conns /\ C[p.idle_conns[i]].status = "OK"
    BY DEF Live
  <2>3. i - 1 \in 0..Len(p.idle_conns) /\ (i - 1) + 1 = i /\ i \in 1..Len(p.idle_conns)
    BY <1>1, <2>2
  <2>4. /\ SubSeq(p.idle_conns, 1, i - 1) \in Seq(Conns)
        /\ Len(SubSeq(p.idle_conns, 1, i - 1)) = i - 1
    BY <1>1, <2>3
  <2>5. /\ a.conn = p.idle_conns[i] /\ a.pool.active_count = p.active_count + 1
        /\ a.pool.idle_conns = SubSeq(p.idle_conns, 1, i - 1)
    BY <2>1
  <2>6. a.conn \in Conns
    BY <1>1, <2>2, <2>5
  <2>7. a.pool \in PoolType
    BY <1>1, <2>1, <2>4 DEF PoolType
  <2>8. /\ a.pool.idle_conns = SubSeq(p.idle_conns, 1, i - 1)
        /\ \/ C[a.conn].status = "FREE"
           \/ /\ (i - 1) + 1 \in DOMAIN p.idle_conns
              /\ p.idle_conns[(i - 1) + 1] = a.conn /\ C[a.conn].status = "OK"
    BY <2>2, <2>3, <2>5
  <2>9. Len(p.idle_conns) + p.active_count <= max_size
          => Len(a.pool.idle_conns) + a.pool.active_count <= max_size
    BY <1>1, <2>3, <2>4, <2>5, PoolAssumption
  <2> QED
    BY <2>3, <2>6, <2>7, <2>8, <2>9
<1>3. CASE Live(p, C) = {}
  <2> DEFINE none(n) == [idle_conns |-> <<>>, active_count |-> n]
  <2>1. \/ a = [conn |-> NULL, pool |-> none(p.active_count)]
        \/ \E c \in Conns : /\ p.active_count < max_size /\ C[c].status = "FREE"
                            /\ a = [conn |-> c, pool |-> none(p.active_count + 1)]
    BY <1>3 DEF conn_pool_acquire
  <2>2. a.conn = NULL \/ (a.conn \in Conns /\ C[a.conn].status = "FREE")
    BY <2>1
  <2>3. a.pool.idle_conns = <<>> /\ a.pool \in PoolType
    <3>1. PICK n \in Int : a.pool = none(n)
      BY <1>1, <2>1
    <3>2. <<>> \in Seq(Conns)
      OBVIOUS
    <3> QED
      BY <3>1, <3>2 DEF PoolType
  <2>4. SubSeq(p.idle_conns, 1, 0) = <<>>
    BY <1>1
  <2>5. \/ a.pool.active_count = p.active_count
        \/ a.pool.active_count = p.active_count + 1 /\ p.active_count < max_size
    BY <2>1
  <2>6. Len(p.idle_conns) + p.active_count <= max_size
          => Len(a.pool.idle_conns) + a.pool.active_count <= max_size
    BY <1>1, <2>3, <2>5, PoolAssumption
  <2> QED
    BY <1>1, <2>2, <2>3, <2>4, <2>6
<1> QED
  BY <1>2, <1>3

\* Closing connections keeps the connection table's type.
LEMMA FinishType ==
  ASSUME NEW C \in [Conns -> PGconn], NEW S, NEW P
  PROVE  Finish(C, S, P) \in [Conns -> PGconn]
BY FreeConnType DEF Finish

\* So does lending connections.
LEMMA AcquiredType ==
  ASSUME NEW C \in [Conns -> PGconn], NEW P, NEW Q, NEW L
  PROVE  Acquired(C, P, Q, L) \in [Conns -> PGconn]
<1>1. ASSUME NEW c \in Conns, \E sh \in Shards : L[sh] = c
      PROVE  PQconnectdb(CHOOSE sh \in Shards : L[sh] = c) \in PGconn
  <2>1. (CHOOSE sh \in Shards : L[sh] = c) \in Shards
    BY <1>1
  <2> QED
    BY <2>1, ConnectType
<1> QED
  BY <1>1, FreeConnType DEF Acquired

\* Membership in Idle, by position.
LEMMA IdleAt ==
  ASSUME NEW P, NEW c
  PROVE  c \in Idle(P) <=> \E x \in Shards : \E i \in DOMAIN P[x].idle_conns :
                               P[x].idle_conns[i] = c
BY DEF Idle, Range

\* Idle connections are connections.
LEMMA IdleType ==
  ASSUME NEW P \in [Shards -> PoolType]
  PROVE  Idle(P) \subseteq Conns
<1>1. ASSUME NEW x \in Shards, NEW i \in DOMAIN P[x].idle_conns
      PROVE  P[x].idle_conns[i] \in Conns
  <2>1. P[x].idle_conns \in Seq(Conns)
    BY DEF PoolType
  <2> QED
    BY <2>1
<1> QED
  BY <1>1, IdleAt

\* Connections r[x], each another one and none of them idle, go back to the pools
\* x (or are closed): the idle arrays still hold nothing twice.
LEMMA ReturnFacts ==
  ASSUME NEW P \in [Shards -> PoolType], NEW P1 \in [Shards -> PoolType], IdleOnce(P),
         NEW r \in [Shards -> Conns \cup {NULL}],
         \A x, y \in Shards : r[x] = r[y] => x = y \/ r[x] = NULL,
         \A x \in Shards : r[x] \notin Idle(P),
         \A x \in Shards :
           \/ P1[x].idle_conns = P[x].idle_conns
           \/ r[x] # NULL /\ P1[x].idle_conns = Append(P[x].idle_conns, r[x])
  PROVE  /\ IdleOnce(P1)
         /\ \A c \in Idle(P1) : c \in Idle(P) \/ \E x \in Shards : r[x] = c /\ r[x] # NULL
<1> DEFINE q(x) == P[x].idle_conns
           q1(x) == P1[x].idle_conns
<1>1. ASSUME NEW x \in Shards PROVE q(x) \in Seq(Conns) /\ q1(x) \in Seq(Conns)
  BY DEF PoolType
<1>2. ASSUME NEW x \in Shards, NEW i \in DOMAIN q1(x)
      PROVE  \/ i \in DOMAIN q(x) /\ q1(x)[i] = q(x)[i]
             \/ i = Len(q(x)) + 1 /\ q1(x)[i] = r[x] /\ r[x] # NULL
  <2>1. CASE q1(x) = q(x)
    BY <2>1
  <2>2. CASE r[x] # NULL /\ q1(x) = Append(q(x), r[x])
    BY <2>2, <1>1
  <2> QED
    BY <2>1, <2>2
<1>3. ASSUME NEW x \in Shards, NEW i \in DOMAIN q(x)
      PROVE  q(x)[i] \in Idle(P) /\ i \in 1..Len(q(x))
  BY <1>1, IdleAt
<1>4. ASSUME NEW x \in Shards, NEW y \in Shards, NEW i \in DOMAIN q1(x),
             NEW j \in DOMAIN q1(y), q1(x)[i] = q1(y)[j]
      PROVE  x = y /\ i = j
  <2>1. CASE i \in DOMAIN q(x) /\ q1(x)[i] = q(x)[i] /\ j \in DOMAIN q(y) /\ q1(y)[j] = q(y)[j]
    BY <2>1, <1>4, SMTT(30) DEF IdleOnce
  <2>2. CASE i \in DOMAIN q(x) /\ q1(x)[i] = q(x)[i] /\ q1(y)[j] = r[y]
    BY <2>2, <1>3, <1>4
  <2>3. CASE j \in DOMAIN q(y) /\ q1(y)[j] = q(y)[j] /\ q1(x)[i] = r[x]
    BY <2>3, <1>3, <1>4, Zenon
  <2>4. CASE /\ i = Len(q(x)) + 1 /\ q1(x)[i] = r[x] /\ r[x] # NULL
             /\ j = Len(q(y)) + 1 /\ q1(y)[j] = r[y]
    <3>1. x = y
      BY <2>4, <1>4, Zenon
    <3> QED
      BY <2>4, <3>1
  <2> QED
    BY <1>2, <2>1, <2>2, <2>3, <2>4
<1>5. IdleOnce(P1)
  BY <1>4 DEF IdleOnce
<1>6. ASSUME NEW c \in Idle(P1)
      PROVE  c \in Idle(P) \/ \E x \in Shards : r[x] = c /\ r[x] # NULL
  <2>1. PICK x \in Shards : \E i \in DOMAIN q1(x) : q1(x)[i] = c
    BY IdleAt
  <2> QED
    BY <2>1, <1>2, <1>3
<1> QED
  BY <1>5, <1>6

\* conn_pool_acquire leaves prefixes Q of the idle arrays P: nothing is twice in
\* them, and an entry behind its prefix is no longer idle.
LEMMA PrefixFacts ==
  ASSUME NEW P \in [Shards -> PoolType], NEW Q \in [Shards -> PoolType], IdleOnce(P),
         NEW n \in [Shards -> Nat],
         \A x \in Shards : /\ n[x] \in 0..Len(P[x].idle_conns)
                           /\ Q[x].idle_conns = SubSeq(P[x].idle_conns, 1, n[x])
  PROVE  /\ IdleOnce(Q) /\ Idle(Q) \subseteq Idle(P)
         /\ \A x \in Shards : \A i \in DOMAIN P[x].idle_conns :
              i > n[x] => P[x].idle_conns[i] \notin Idle(Q)
<1> DEFINE q(x) == P[x].idle_conns
           q1(x) == Q[x].idle_conns
<1>1. ASSUME NEW x \in Shards PROVE q(x) \in Seq(Conns) /\ q1(x) = SubSeq(q(x), 1, n[x])
  BY DEF PoolType
<1>2. ASSUME NEW x \in Shards, NEW i \in DOMAIN q1(x)
      PROVE  i \in DOMAIN q(x) /\ q1(x)[i] = q(x)[i] /\ i <= n[x] /\ i \in Nat
  <2>1. n[x] \in 0..Len(q(x))
    OBVIOUS
  <2>2. DOMAIN SubSeq(q(x), 1, n[x]) = 1..n[x]
    BY <1>1, <2>1
  <2> QED
    BY <1>1, <2>1, <2>2
<1>3. IdleOnce(Q)
  <2>1. ASSUME NEW x \in Shards, NEW y \in Shards, NEW i \in DOMAIN q1(x),
               NEW j \in DOMAIN q1(y), q1(x)[i] = q1(y)[j]
        PROVE  x = y /\ i = j
    <3>1. i \in DOMAIN q(x) /\ j \in DOMAIN q(y) /\ q(x)[i] = q(y)[j]
      BY <1>2, <2>1
    <3> QED
      BY <3>1 DEF IdleOnce
  <2> QED
    BY <2>1 DEF IdleOnce
<1>4. Idle(Q) \subseteq Idle(P)
  <2>1. ASSUME NEW c \in Idle(Q) PROVE c \in Idle(P)
    <3>1. PICK x \in Shards : \E i \in DOMAIN q1(x) : q1(x)[i] = c
      BY IdleAt
    <3> QED
      BY <3>1, <1>2, IdleAt
  <2> QED
    BY <2>1
<1>5. ASSUME NEW x \in Shards, NEW i \in DOMAIN q(x), i > n[x], q(x)[i] \in Idle(Q)
      PROVE  FALSE
  <2>0. PICK y \in Shards : \E j \in DOMAIN q1(y) : q1(y)[j] = q(x)[i]
    BY <1>5 DEF Idle, Range
  <2>1. PICK j \in DOMAIN q1(y) : q1(y)[j] = q(x)[i]
    BY <2>0
  <2>2. j \in DOMAIN q(y) /\ q(y)[j] = q(x)[i] /\ j <= n[y] /\ j \in Nat
    BY <1>2, <2>1
  <2>3. y = x /\ j = i
    BY <2>2 DEF IdleOnce
  <2> QED
    BY <2>2, <2>3, <1>5
<1> QED
  BY <1>3, <1>4, <1>5
=============================================================================
