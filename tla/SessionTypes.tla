----------------------------- MODULE SessionTypes -----------------------------
(***************************************************************************)
(* Lemmas about Session: every action keeps the types of the variables,    *)
(* for any values of the constants.                                        *)
(***************************************************************************)
EXTENDS Session, PoolProofs, SequenceTheorems, FiniteSetTheorems

\* Sequences of tokens can be sent.
LEMMA SentType ==
  ASSUME NEW q \in Seq(Token)
  PROVE  q \in Seq(Sent)
<1>1. Token \subseteq Sent
  BY DEF Sent
<1> QED
  BY <1>1

\* The result loop forwards tokens.
LEMMA ForwardType ==
  ASSUME NEW s \in Sessions, NEW q \in Seq(Token)
  PROVE  Forward(s, q) \in Seq(Sent)
<1>1. q \in Seq(Sent) /\ "MoreRows" \in Sent
  BY SentType DEF Sent
<1>2. Forward(s, q) \in [1..Len(q) -> Sent] /\ Len(q) \in Nat
  BY <1>1 DEF Forward
<1> QED
  BY <1>2, SeqDef

\* Sending tokens keeps the type of reply.
LEMMA SayType ==
  ASSUME TypeOK, NEW s \in Sessions, NEW toks \in Seq(Sent), Say(s, toks)
  PROVE  reply' \in [Sessions -> Seq(Sent)]
<1>1. reply[s] \in Seq(Sent)
  BY DEF TypeOK
<1>2. reply[s] \o toks \in Seq(Sent)
  BY <1>1
<1> QED
  BY <1>2 DEF Say, TypeOK

\* Releasing backend_conn keeps the pools' type.
LEMMA ReleaseBackendType ==
  ASSUME TypeOK, NEW s \in Sessions, NEW P \in [Shards -> PoolType],
         NEW C \in [Conns -> PGconn]
  PROVE  ReleaseBackend(P, C, s) \in [Shards -> PoolType]
<1>1. CASE backend_conn[s] # NULL /\ backend_shard[s] # NULL
  <2>1. backend_conn[s] \in Conns /\ backend_shard[s] \in Shards
    BY <1>1 DEF TypeOK
  <2>2. conn_pool_release(P[backend_shard[s]], C, backend_conn[s]) \in PoolType
    BY <2>1, ReleaseFacts
  <2> QED
    BY <2>1, <2>2 DEF ReleaseBackend
<1>2. CASE ~(backend_conn[s] # NULL /\ backend_shard[s] # NULL)
  BY <1>2 DEF ReleaseBackend
<1> QED
  BY <1>1, <1>2

\* So does the loop of session_release_scatter.
LEMMA ReleaseScatterType ==
  ASSUME TypeOK, NEW s \in Sessions, NEW P \in [Shards -> PoolType],
         NEW C \in [Conns -> PGconn]
  PROVE  session_release_scatter(P, C, s) \in [Shards -> PoolType]
<1>1. ASSUME NEW sh \in Shards, scatter_conn[s][sh] # NULL
      PROVE  conn_pool_release(P[sh], C, scatter_conn[s][sh]) \in PoolType
  <2>1. scatter_conn[s][sh] \in Conns
    BY <1>1 DEF TypeOK
  <2> QED
    BY <2>1, ReleaseFacts
<1> QED
  BY <1>1 DEF session_release_scatter

\* session_destroy.
LEMMA DestroyType ==
  ASSUME TypeOK, NEW s \in Sessions, NEW C \in [Conns -> PGconn],
         session_destroy(s, C), UNCHANGED envVars
  PROVE  TypeOK'
<1>1. pool' \in [Shards -> PoolType]
  <2>1. pool \in [Shards -> PoolType]
    BY DEF TypeOK
  <2>2. ReleaseBackend(pool, C, s) \in [Shards -> PoolType]
    BY <2>1, ReleaseBackendType
  <2> QED
    BY <2>2, ReleaseScatterType DEF session_destroy
<1>2. conn' \in [Conns -> PGconn]
  BY FinishType DEF session_destroy
<1>3. <<>> \in Seq(Sent)
  OBVIOUS
<1> QED
  BY <1>1, <1>2, <1>3 DEF TypeOK, session_destroy, envVars, State

\* A ReadyForQuery, or the failure to send it.
LEMMA ReadyForQueryType ==
  ASSUME TypeOK, NEW s \in Sessions, NEW c \in Conns, NEW k \in PGconn,
         NEW toks \in Seq(Sent), ReadyForQuery(s, c, k, toks)
  PROVE  TypeOK'
<1> DEFINE txn == PQtransactionStatus(k)
           C == [conn EXCEPT ![c] = k]
           free == txn = "IDLE" /\ backend_shard[s] # NULL
           told == IF txn \in {"INTRANS", "INERROR"} THEN txn ELSE "IDLE"
<1>1. C \in [Conns -> PGconn]
  BY DEF TypeOK
<1>2. CASE SendFails(s, C)
  BY <1>1, <1>2, DestroyType, Zenon DEF SendFails
<1>3. CASE ~SendFails(s, C)
  <2>1. told \in Sent
    BY DEF Sent, Token, Status
  <2>2. Append(toks, told) \in Seq(Sent)
    BY <2>1
  <2> HIDE DEF told
  <2>3. /\ Say(s, Append(toks, told))
        /\ pool' = IF free THEN ReleaseBackend(pool, C, s) ELSE pool
        /\ conn' = IF free THEN Finish(C, {c}, pool') ELSE C
        /\ backend_conn' = IF free THEN [backend_conn EXCEPT ![s] = NULL] ELSE backend_conn
        /\ backend_shard' = IF free THEN [backend_shard EXCEPT ![s] = NULL] ELSE backend_shard
        /\ state' = [state EXCEPT ![s] = "READY"]
        /\ blocked' = NULL
        /\ UNCHANGED <<scatterVars, envVars>>
    BY <1>3 DEF ReadyForQuery, told
  <2>4. reply' \in [Sessions -> Seq(Sent)]
    BY <2>2, <2>3, SayType, Zenon
  <2>5. pool' \in [Shards -> PoolType]
    <3>1. pool \in [Shards -> PoolType]
      BY DEF TypeOK
    <3>2. ReleaseBackend(pool, C, s) \in [Shards -> PoolType]
      BY <3>1, <1>1, ReleaseBackendType, Zenon
    <3> QED
      BY <3>1, <3>2, <2>3, Zenon
  <2>6. conn' \in [Conns -> PGconn]
    BY <1>1, <2>3, FinishType, Zenon
  <2> HIDE DEF free, C
  <2> QED
    BY <2>3, <2>4, <2>5, <2>6, Zenon DEF TypeOK, State, scatterVars, envVars
<1> QED
  BY <1>2, <1>3

\* A wait inside PQgetResult; the state is given by the caller.
LEMMA WaitType ==
  ASSUME TypeOK, NEW s \in Sessions, NEW c \in Conns, NEW k \in PGconn,
         NEW toks \in Seq(Sent), WaitInGetResult(s, c, k, toks),
         state' \in [Sessions -> State]
  PROVE  TypeOK'
<1>1. reply' \in [Sessions -> Seq(Sent)]
  BY SayType DEF WaitInGetResult
<1> QED
  BY <1>1 DEF TypeOK, WaitInGetResult, backendVars, scatterVars, envVars

\* Entering or staying in a COPY state.
LEMMA EnterCopyType ==
  ASSUME TypeOK, NEW s \in Sessions, NEW c \in Conns, NEW k \in PGconn,
         NEW st \in State, NEW toks \in Seq(Sent), EnterCopy(s, c, k, st, toks)
  PROVE  TypeOK'
<1>1. [conn EXCEPT ![c] = k] \in [Conns -> PGconn]
  BY DEF TypeOK
<1>2. CASE SendFails(s, [conn EXCEPT ![c] = k])
  BY <1>1, <1>2, DestroyType, Zenon DEF SendFails
<1>3. CASE ~SendFails(s, [conn EXCEPT ![c] = k])
  <2>1. /\ Say(s, toks)
        /\ conn' = [conn EXCEPT ![c] = k]
        /\ state' = [state EXCEPT ![s] = st]
        /\ blocked' = NULL
        /\ UNCHANGED <<backendVars, scatterVars, pool, envVars>>
    BY <1>3 DEF EnterCopy
  <2>2. reply' \in [Sessions -> Seq(Sent)]
    BY <2>1, SayType
  <2>3. conn' \in [Conns -> PGconn]
    BY <1>1, <2>1
  <2> QED
    BY <2>1, <2>2, <2>3, Zenon DEF TypeOK, backendVars, scatterVars, envVars
<1> QED
  BY <1>2, <1>3

\* The end of a COPY OUT.
LEMMA FinalResultType ==
  ASSUME TypeOK, NEW s \in Sessions, NEW c \in Conns, NEW k \in PGconn,
         NEW toks \in Seq(Sent), FinalResult(s, c, k, toks)
  PROVE  TypeOK'
<1>1. CASE k.inbuf = <<>>
  <2>1. state' \in [Sessions -> State]
    BY <1>1, Zenon DEF FinalResult, TypeOK, State
  <2> QED
    BY <1>1, <2>1, WaitType DEF FinalResult
<1>2. CASE k.inbuf # <<>>
  <2> DEFINE k1 == [k EXCEPT !.inbuf = Tail(@)]
             t1 == IF Head(k.inbuf) = "Complete" THEN Append(toks, "Complete") ELSE toks
  <2>1. k1 \in PGconn
    <3>1. k.inbuf \in Seq(Token)
      BY DEF PGconn
    <3>2. Tail(k.inbuf) \in Seq(Token)
      BY <3>1, <1>2
    <3> QED
      BY <3>2, Zenon DEF PGconn
  <2>2. t1 \in Seq(Sent)
    <3>1. "Complete" \in Sent
      BY DEF Sent, Token
    <3> QED
      BY <3>1
  <2> QED
    BY <1>2, <2>1, <2>2, ReadyForQueryType, Zenon DEF FinalResult
<1> QED
  BY <1>1, <1>2

\* copy_out_read.
LEMMA CopyOutReadType ==
  ASSUME TypeOK, NEW s \in Sessions, NEW c \in Conns, NEW k \in PGconn,
         NEW toks \in Seq(Sent), copy_out_read(s, c, k, toks)
  PROVE  TypeOK'
<1>1. k.inbuf \in Seq(Token) /\ k.inbuf \in Seq(Sent)
  BY SentType DEF PGconn
<1>2. CASE EnterCopy(s, c, [k EXCEPT !.inbuf = <<>>], "COPY_OUT", toks \o k.inbuf)
  <2>1. [k EXCEPT !.inbuf = <<>>] \in PGconn
    BY EmptiedType
  <2>2. toks \o k.inbuf \in Seq(Sent) /\ "COPY_OUT" \in State
    BY <1>1 DEF State
  <2> QED
    BY <1>2, <2>1, <2>2, EnterCopyType, Zenon
<1>3. ASSUME NEW i \in DOMAIN k.inbuf,
             FinalResult(s, c,
               [k EXCEPT !.async = "busy",
                         !.inbuf = From(@, IF @[i] = "Done" THEN i + 1 ELSE i)],
               Append(toks \o SubSeq(k.inbuf, 1, i - 1), "Done"))
      PROVE  TypeOK'
  <2>1. i \in 1..Len(k.inbuf) /\ i + 1 \in 1..(Len(k.inbuf) + 1)
    BY <1>1
  <2>2. From(k.inbuf, IF k.inbuf[i] = "Done" THEN i + 1 ELSE i) \in Seq(Token)
    BY <1>1, <2>1, FromType
  <2>3. [k EXCEPT !.async = "busy",
                  !.inbuf = From(@, IF @[i] = "Done" THEN i + 1 ELSE i)] \in PGconn
    BY <2>2, Zenon DEF PGconn
  <2>4. Append(toks \o SubSeq(k.inbuf, 1, i - 1), "Done") \in Seq(Sent)
    <3>1. SubSeq(k.inbuf, 1, i - 1) \in Seq(Sent) /\ "Done" \in Sent
      BY <1>1, <2>1 DEF Sent, Token
    <3> QED
      BY <3>1
  <2> QED
    BY <1>3, <2>3, <2>4, FinalResultType, Zenon
<1> QED
  BY <1>2, <1>3, Zenon DEF copy_out_read

\* The loop over PQgetResult.
LEMMA GetResultsType ==
  ASSUME TypeOK, NEW s \in Sessions, NEW c \in Conns, NEW k \in PGconn,
         GetResults(s, c, k)
  PROVE  TypeOK'
<1>1. k.inbuf \in Seq(Token)
  BY DEF PGconn
<1>2. CASE /\ WaitInGetResult(s, c, [k EXCEPT !.inbuf = <<>>], Forward(s, k.inbuf))
           /\ UNCHANGED state
  <2>1. [k EXCEPT !.inbuf = <<>>] \in PGconn /\ state' \in [Sessions -> State]
    BY <1>2, EmptiedType DEF TypeOK
  <2>2. Forward(s, k.inbuf) \in Seq(Sent)
    BY <1>1, ForwardType
  <2> QED
    BY <1>2, <2>1, <2>2, WaitType
<1>3. ASSUME NEW i \in DOMAIN k.inbuf
      PROVE  LET results == Forward(s, SubSeq(k.inbuf, 1, i - 1))
                 rest == From(k.inbuf, i + 1)
             IN  /\ k.inbuf[i] \in Status /\ ReadyForQuery(s, c, GotReady(k, i), results)
                      => TypeOK'
                 /\ EnterCopy(s, c, [k EXCEPT !.async = "copy_in", !.inbuf = rest],
                              "COPY_IN", Append(results, "CopyIn")) => TypeOK'
                 /\ copy_out_read(s, c, [k EXCEPT !.async = "copy_out", !.inbuf = rest],
                                  Append(results, "CopyOut")) => TypeOK'
  <2> DEFINE results == Forward(s, SubSeq(k.inbuf, 1, i - 1))
             rest == From(k.inbuf, i + 1)
  <2>1. i \in 1..Len(k.inbuf) /\ i + 1 \in 1..(Len(k.inbuf) + 1)
    BY <1>1
  <2>2. rest \in Seq(Token)
    BY <1>1, <2>1, FromType
  <2>3. results \in Seq(Sent)
    <3>1. SubSeq(k.inbuf, 1, i - 1) \in Seq(Token)
      BY <1>1, <2>1
    <3> QED
      BY <3>1, ForwardType, Zenon
  <2> HIDE DEF results, rest
  <2>4. ASSUME k.inbuf[i] \in Status, ReadyForQuery(s, c, GotReady(k, i), results)
        PROVE  TypeOK'
    <3>1. GotReady(k, i) \in PGconn
      BY <2>4, GotReadyType
    <3> QED
      BY <2>3, <2>4, <3>1, ReadyForQueryType
  <2>5. Append(results, "CopyIn") \in Seq(Sent) /\ Append(results, "CopyOut") \in Seq(Sent)
    <3>1. "CopyIn" \in Sent /\ "CopyOut" \in Sent
      BY DEF Sent, Token
    <3> QED
      BY <2>3, <3>1
  <2>6. ASSUME EnterCopy(s, c, [k EXCEPT !.async = "copy_in", !.inbuf = rest],
                         "COPY_IN", Append(results, "CopyIn"))
        PROVE  TypeOK'
    <3>1. [k EXCEPT !.async = "copy_in", !.inbuf = rest] \in PGconn /\ "COPY_IN" \in State
      BY <2>2, Zenon DEF PGconn, State
    <3> QED
      BY <2>5, <2>6, <3>1, EnterCopyType, Zenon
  <2>7. ASSUME copy_out_read(s, c, [k EXCEPT !.async = "copy_out", !.inbuf = rest],
                             Append(results, "CopyOut"))
        PROVE  TypeOK'
    <3>1. [k EXCEPT !.async = "copy_out", !.inbuf = rest] \in PGconn
      BY <2>2, Zenon DEF PGconn
    <3> QED
      BY <2>5, <2>7, <3>1, CopyOutReadType, Zenon
  <2> QED
    BY <2>4, <2>6, <2>7 DEF results, rest
<1> QED
  BY <1>2, <1>3, Zenon DEF GetResults

\* session_on_backend_readable after PQconsumeInput.
LEMMA AfterConsumeType ==
  ASSUME TypeOK, NEW s \in Sessions, NEW c \in Conns, NEW k \in PGconn,
         AfterConsume(s, c, k)
  PROVE  TypeOK'
<1>1. "CopyIn" \in Sent /\ "CopyOut" \in Sent /\ "COPY_IN" \in State
  BY DEF Sent, Token, State
<1>2. <<"CopyIn">> \in Seq(Sent) /\ <<"CopyOut">> \in Seq(Sent) /\ <<>> \in Seq(Sent)
  BY <1>1
<1>3. CASE /\ conn' = [conn EXCEPT ![c] = k]
           /\ UNCHANGED <<state, backendVars, scatterVars, reply, pool, blocked, envVars>>
  BY <1>3 DEF TypeOK, backendVars, scatterVars, envVars
<1>4. CASE GetResults(s, c, k)
  BY <1>4, GetResultsType
<1>5. CASE ReadyForQuery(s, c, k, <<>>)
  BY <1>2, <1>5, ReadyForQueryType, Zenon
<1>6. CASE EnterCopy(s, c, k, "COPY_IN", <<"CopyIn">>)
  BY <1>1, <1>2, <1>6, EnterCopyType, Zenon
<1>7. CASE copy_out_read(s, c, k, <<"CopyOut">>)
  BY <1>2, <1>7, CopyOutReadType, Zenon
<1> QED
  BY <1>3, <1>4, <1>5, <1>6, <1>7 DEF AfterConsume

\* session_on_backend_readable.
LEMMA BackendReadableType ==
  ASSUME TypeOK, NEW s \in Sessions, session_on_backend_readable(s)
  PROVE  TypeOK'
<1> DEFINE c == backend_conn[s]
<1>1. c \in Conns
  BY DEF session_on_backend_readable, TypeOK
<1>2. conn \in [Conns -> PGconn] /\ conn[c] \in PGconn
  BY <1>1 DEF TypeOK
<1>3. PQconsumeInput(conn[c]) \in PGconn /\ Broken(conn[c]) \in PGconn
  BY <1>2, ConsumeType, BrokenType
<1> HIDE DEF c
<1>4. [conn EXCEPT ![c] = Broken(@)] \in [Conns -> PGconn]
  BY <1>2, <1>3, Zenon
<1> QED
  BY <1>1, <1>2, <1>3, <1>4, DestroyType, AfterConsumeType, Zenon
  DEF session_on_backend_readable, c

\* The end of a wait inside PQgetResult.
LEMMA BackendWaitType ==
  ASSUME TypeOK, NEW s \in Sessions, BackendWaitEnds(s)
  PROVE  TypeOK'
<1> DEFINE c == backend_conn[s]
           k == PQconsumeInput(conn[c])
           t == IF state[s] = "COPY_OUT" THEN <<>> ELSE <<"Error">>
<1>1. c \in Conns
  BY DEF BackendWaitEnds, TypeOK
<1>2. k \in PGconn /\ Broken(k) \in PGconn
  BY <1>1, ConsumeType, BrokenType DEF TypeOK
<1>3. <<>> \in Seq(Sent) /\ t \in Seq(Sent)
  <2>1. "Error" \in Sent
    BY DEF Sent, Token
  <2>2. <<>> \in Seq(Sent) /\ <<"Error">> \in Seq(Sent)
    BY <2>1
  <2> QED
    BY <2>2
<1>4. GetResults(s, c, k) \/ FinalResult(s, c, k, <<>>) \/ ReadyForQuery(s, c, Broken(k), t)
  BY DEF BackendWaitEnds
<1> HIDE DEF c, k, t
<1> QED
  BY <1>1, <1>2, <1>3, <1>4, GetResultsType, FinalResultType, ReadyForQueryType, Zenon

\* What a scatter slot forwards.
LEMMA ForwardRowsType ==
  ASSUME TypeOK, NEW s \in Sessions, NEW q
  PROVE  ForwardRows(s, q) \in Seq(Sent)
<1>1. "MoreRows" \in Sent /\ "Part" \in Sent
  BY DEF Sent
<1>2. <<"MoreRows">> \in Seq(Sent) /\ <<"Part">> \in Seq(Sent) /\ <<>> \in Seq(Sent)
  BY <1>1
<1> QED
  BY <1>2 DEF ForwardRows

\* HeaderAfter and FailedAfter.
LEMMA AfterType ==
  ASSUME TypeOK, NEW s \in Sessions, NEW sh \in Shards, NEW q
  PROVE  /\ HeaderAfter(s, q) => scatter_header_sent' \in [Sessions -> BOOLEAN]
         /\ FailedAfter(s, sh, q) => failed' \in [Sessions -> SUBSET Shards]
<1>1. HeaderAfter(s, q) => scatter_header_sent' \in [Sessions -> BOOLEAN]
  BY DEF HeaderAfter, TypeOK
<1>2. FailedAfter(s, sh, q) => failed' \in [Sessions -> SUBSET Shards]
  BY DEF FailedAfter, TypeOK
<1> QED
  BY <1>1, <1>2

\* One more shard of a scatter is done.
LEMMA ShardDoneType ==
  ASSUME TypeOK, NEW s \in Sessions, NEW sh \in Shards, NEW C \in [Conns -> PGconn],
         NEW q, ShardDone(s, sh, C, q)
  PROVE  TypeOK'
<1>1. ForwardRows(s, q) \in Seq(Sent)
  BY ForwardRowsType
<1>2. CASE ~check_complete(s)
  <2>1. /\ scatter_done' = [scatter_done EXCEPT ![s] = @ + 1]
        /\ done' = [done EXCEPT ![s] = @ \cup {sh}]
        /\ Say(s, ForwardRows(s, q))
        /\ HeaderAfter(s, q) /\ FailedAfter(s, sh, q)
        /\ conn' = C
        /\ blocked' = NULL
        /\ UNCHANGED <<state, backendVars, scatter_conn, pool, envVars>>
    BY <1>2 DEF ShardDone
  <2>2. reply' \in [Sessions -> Seq(Sent)]
    BY <1>1, <2>1, SayType
  <2>3. scatter_header_sent' \in [Sessions -> BOOLEAN] /\ failed' \in [Sessions -> SUBSET Shards]
    BY <2>1, AfterType
  <2>4. scatter_done' \in [Sessions -> Nat] /\ done' \in [Sessions -> SUBSET Shards]
    BY <2>1 DEF TypeOK
  <2> QED
    BY <2>1, <2>2, <2>3, <2>4 DEF TypeOK, backendVars, envVars
<1>3. CASE SendFails(s, C)
  BY <1>3, DestroyType DEF SendFails
<1>4. CASE check_complete(s) /\ ~SendFails(s, C)
  <2>1. /\ Say(s, ForwardRows(s, q) \o <<"Complete", "IDLE">>)
        /\ pool' = session_release_scatter(pool, C, s)
        /\ conn' = Finish(C, {scatter_conn[s][x] : x \in Shards}, pool')
        /\ scatter_conn' = [scatter_conn EXCEPT ![s] = [x \in Shards |-> NULL]]
        /\ scatter_done' = [scatter_done EXCEPT ![s] = 0]
        /\ scatter_header_sent' = [scatter_header_sent EXCEPT ![s] = FALSE]
        /\ done' = [done EXCEPT ![s] = @ \cup {sh}]
        /\ FailedAfter(s, sh, q)
        /\ state' = [state EXCEPT ![s] = "READY"]
        /\ blocked' = NULL
        /\ UNCHANGED <<backendVars, envVars>>
    BY <1>4 DEF ShardDone
  <2>2. reply' \in [Sessions -> Seq(Sent)]
    <3>1. "Complete" \in Sent /\ "IDLE" \in Sent
      BY DEF Sent, Token, Status
    <3>2. ForwardRows(s, q) \o <<"Complete", "IDLE">> \in Seq(Sent)
      BY <1>1, <3>1
    <3> QED
      BY <2>1, <3>2, SayType, Zenon
  <2>3. failed' \in [Sessions -> SUBSET Shards]
    BY <2>1, AfterType
  <2>4. pool' \in [Shards -> PoolType]
    <3>1. pool \in [Shards -> PoolType]
      BY DEF TypeOK
    <3> QED
      BY <2>1, <3>1, ReleaseScatterType
  <2>5. conn' \in [Conns -> PGconn]
    BY <2>1, FinishType
  <2>6. done' \in [Sessions -> SUBSET Shards]
    BY <2>1 DEF TypeOK
  <2> QED
    BY <2>1, <2>2, <2>3, <2>4, <2>5, <2>6, Zenon DEF TypeOK, backendVars, envVars, State
<1> QED
  BY <1>2, <1>3, <1>4

\* The result loop of a scatter slot.
LEMMA ScatterResultsType ==
  ASSUME TypeOK, NEW s \in Sessions, NEW sh \in Shards, NEW c \in Conns,
         NEW k \in PGconn, ScatterResults(s, sh, c, k)
  PROVE  TypeOK'
<1>1. CASE /\ blocked' = c
           /\ conn' = [conn EXCEPT ![c] = [k EXCEPT !.inbuf = <<>>]]
           /\ Say(s, ForwardRows(s, k.inbuf))
           /\ HeaderAfter(s, k.inbuf) /\ FailedAfter(s, sh, k.inbuf)
           /\ UNCHANGED <<state, backendVars, scatter_conn, done, scatter_done, pool, envVars>>
  <2>1. reply' \in [Sessions -> Seq(Sent)]
    BY <1>1, ForwardRowsType, SayType
  <2>2. scatter_header_sent' \in [Sessions -> BOOLEAN] /\ failed' \in [Sessions -> SUBSET Shards]
    BY <1>1, AfterType
  <2>3. conn' \in [Conns -> PGconn]
    BY <1>1, EmptiedType DEF TypeOK
  <2> QED
    BY <1>1, <2>1, <2>2, <2>3 DEF TypeOK, backendVars, envVars
<1>2. ASSUME NEW i \in DOMAIN k.inbuf, k.inbuf[i] \in Status,
             ShardDone(s, sh, [conn EXCEPT ![c] = GotReady(k, i)],
                       SubSeq(k.inbuf, 1, i - 1))
      PROVE  TypeOK'
  <2>1. [conn EXCEPT ![c] = GotReady(k, i)] \in [Conns -> PGconn]
    BY <1>2, GotReadyType DEF TypeOK
  <2> QED
    BY <1>2, <2>1, ShardDoneType, Zenon
<1> QED
  BY <1>1, <1>2, Zenon DEF ScatterResults, IsFirst

\* session_on_scatter_readable.
LEMMA ScatterReadableType ==
  ASSUME TypeOK, NEW s \in Sessions, NEW sh \in Shards, session_on_scatter_readable(s, sh)
  PROVE  TypeOK'
<1> DEFINE c == scatter_conn[s][sh]
           k == PQconsumeInput(conn[c])
<1>1. c \in Conns
  <2>1. scatter_conn[s][sh] # NULL
    BY DEF session_on_scatter_readable
  <2>2. scatter_conn[s][sh] \in Conns \cup {NULL}
    BY DEF TypeOK
  <2> QED
    BY ONLY <2>1, <2>2
<1>2. conn \in [Conns -> PGconn] /\ conn[c] \in PGconn
  BY <1>1 DEF TypeOK
<1>3. k \in PGconn /\ Broken(conn[c]) \in PGconn
  BY <1>2, ConsumeType, BrokenType
<1>4. \/ ShardDone(s, sh, conn, <<"Error">>)
      \/ ShardDone(s, sh, [conn EXCEPT ![c] = Broken(@)], <<"Error">>)
      \/ /\ conn' = [conn EXCEPT ![c] = k]
         /\ UNCHANGED <<state, backendVars, scatterVars, reply, pool, blocked, envVars>>
      \/ ScatterResults(s, sh, c, k)
      \/ ShardDone(s, sh, [conn EXCEPT ![c] = k], <<>>)
  BY Zenon DEF session_on_scatter_readable
<1> HIDE DEF c, k
<1>5. /\ [conn EXCEPT ![c] = Broken(@)] \in [Conns -> PGconn]
      /\ [conn EXCEPT ![c] = k] \in [Conns -> PGconn]
  BY <1>2, <1>3, Zenon
<1>6. CASE /\ conn' = [conn EXCEPT ![c] = k]
           /\ UNCHANGED <<state, backendVars, scatterVars, reply, pool, blocked, envVars>>
  BY <1>5, <1>6 DEF TypeOK, backendVars, scatterVars, envVars
<1> QED
  BY <1>1, <1>2, <1>3, <1>4, <1>5, <1>6, ShardDoneType, ScatterResultsType, Zenon

\* The end of a wait inside PQgetResult of a scatter slot.
LEMMA ScatterWaitType ==
  ASSUME TypeOK, NEW s \in Sessions, NEW sh \in Shards, ScatterWaitEnds(s, sh)
  PROVE  TypeOK'
<1> DEFINE c == scatter_conn[s][sh]
           k == PQconsumeInput(conn[c])
<1>1. c \in Conns
  <2>1. scatter_conn[s][sh] # NULL
    BY DEF ScatterWaitEnds
  <2>2. scatter_conn[s][sh] \in Conns \cup {NULL}
    BY DEF TypeOK
  <2> QED
    BY ONLY <2>1, <2>2
<1>2. k \in PGconn /\ Broken(k) \in PGconn
  BY <1>1, ConsumeType, BrokenType DEF TypeOK
<1>3. \/ ScatterResults(s, sh, c, k)
      \/ ShardDone(s, sh, [conn EXCEPT ![c] = Broken(k)], <<"Error">>)
  BY DEF ScatterWaitEnds
<1> HIDE DEF c, k
<1>4. [conn EXCEPT ![c] = Broken(k)] \in [Conns -> PGconn]
  BY <1>1, <1>2 DEF TypeOK
<1> QED
  BY <1>1, <1>2, <1>3, <1>4, ShardDoneType, ScatterResultsType, Zenon

\* PQsendQuery and its outcome.
LEMMA SendQueryFacts ==
  ASSUME TypeOK, NEW s \in Sessions, NEW c \in Conns \cup {NULL},
         NEW C \in [Conns -> PGconn], NEW op \in Op, SendQuery(s, c, C, op)
  PROVE  /\ conn' \in [Conns -> PGconn]
         /\ state' \in [Sessions -> State]
         /\ reply' \in [Sessions -> Seq(Sent)]
<1> DEFINE ok == c # NULL /\ PQsendQueryOK(C[c])
           t == IF ok THEN <<>> ELSE <<"Error", "IDLE">>
<1>1. conn' \in [Conns -> PGconn]
  <2>1. c # NULL => PQsendQuery(C[c], op) \in PGconn
    BY SendQueryType
  <2> QED
    BY <2>1 DEF SendQuery
<1>2. state' \in [Sessions -> State]
  BY DEF SendQuery, State, TypeOK
<1>3. reply' \in [Sessions -> Seq(Sent)]
  <2>1. "Error" \in Sent /\ "IDLE" \in Sent
    BY DEF Sent, Token, Status
  <2>2. <<>> \in Seq(Sent) /\ <<"Error", "IDLE">> \in Seq(Sent)
    BY <2>1
  <2>3. t \in Seq(Sent)
    BY <2>2
  <2>4. reply' = [reply EXCEPT ![s] = t]
    BY DEF SendQuery
  <2> HIDE DEF t
  <2> QED
    BY <2>3, <2>4 DEF TypeOK
<1> QED
  BY <1>1, <1>2, <1>3

\* connect_to_shard and connect_to_default.
LEMMA ConnectToType ==
  ASSUME NEW P \in [Shards -> PoolType], NEW C \in [Conns -> PGconn],
         NEW shard \in Shards \cup {NULL},
         NEW r \in IF shard = NULL THEN connect_to_default(P, C)
                   ELSE connect_to_shard(P, C, shard)
  PROVE  /\ r.conn \in Conns \cup {NULL}
         /\ r.pool \in [Shards -> PoolType]
         /\ r.table \in [Conns -> PGconn]
<1>1. CASE shard = NULL
  <2>1. PQconnectdb(NULL) \in PGconn
    BY ConnectType
  <2>2. \/ r = [conn |-> NULL, pool |-> P, table |-> C]
        \/ \E c \in Conns : r = [conn |-> c, pool |-> P,
                                  table |-> [C EXCEPT ![c] = PQconnectdb(NULL)]]
    BY <1>1, Zenon DEF connect_to_default
  <2>3. ASSUME NEW c \in Conns PROVE [C EXCEPT ![c] = PQconnectdb(NULL)] \in [Conns -> PGconn]
    BY <2>1
  <2>4. CASE r = [conn |-> NULL, pool |-> P, table |-> C]
    BY <2>4
  <2>5. ASSUME NEW c \in Conns,
               r = [conn |-> c, pool |-> P, table |-> [C EXCEPT ![c] = PQconnectdb(NULL)]]
        PROVE  r.conn = c /\ r.pool = P /\ r.table = [C EXCEPT ![c] = PQconnectdb(NULL)]
    BY <2>5
  <2> QED
    BY <2>2, <2>3, <2>4, <2>5, Zenon
<1>2. CASE shard # NULL
  <2>1. shard \in Shards
    BY <1>2
  <2> DEFINE Lent1(a) == [x \in Shards |-> IF x = shard THEN a.conn ELSE NULL]
  <2>2. PICK a \in conn_pool_acquire(P[shard], C) :
          r = [conn |-> a.conn, pool |-> [P EXCEPT ![shard] = a.pool],
               table |-> Acquired(C, P, [P EXCEPT ![shard] = a.pool], Lent1(a))]
    BY <1>2, Zenon DEF connect_to_shard
  <2>3. a.conn \in Conns \cup {NULL} /\ a.pool \in PoolType
    BY <2>1, AcquireFacts
  <2>4. Acquired(C, P, [P EXCEPT ![shard] = a.pool], Lent1(a)) \in [Conns -> PGconn]
    BY AcquiredType
  <2> HIDE DEF Lent1
  <2> QED
    BY <2>1, <2>2, <2>3, <2>4, Zenon
<1> QED
  BY <1>1, <1>2

\* Reconnect and send, or send on the connection the session has.
LEMMA ExecuteType ==
  ASSUME TypeOK, NEW s \in Sessions, NEW shard \in Shards \cup {NULL}, NEW op \in Op,
         \/ Reconnect(s, shard, op)
         \/ /\ SendQuery(s, backend_conn[s], conn, op)
            /\ UNCHANGED <<pool, backendVars>>,
         UNCHANGED <<scatterVars, blocked, envVars>>
  PROVE  TypeOK'
<1>1. CASE /\ SendQuery(s, backend_conn[s], conn, op)
           /\ UNCHANGED <<pool, backendVars>>
  <2>1. backend_conn[s] \in Conns \cup {NULL} /\ conn \in [Conns -> PGconn]
    BY DEF TypeOK
  <2>2. /\ conn' \in [Conns -> PGconn]
        /\ state' \in [Sessions -> State]
        /\ reply' \in [Sessions -> Seq(Sent)]
    BY <1>1, <2>1, SendQueryFacts
  <2> QED
    BY <1>1, <2>2 DEF TypeOK, backendVars, scatterVars, envVars
<1>2. CASE Reconnect(s, shard, op)
  <2> DEFINE P == ReleaseBackend(pool, conn, s)
             C == Finish(conn, {backend_conn[s]}, P)
  <2>1. P \in [Shards -> PoolType]
    BY ReleaseBackendType, Zenon DEF TypeOK
  <2>2. C \in [Conns -> PGconn]
    BY FinishType, Zenon DEF TypeOK
  <2>3. PICK r \in IF shard = NULL THEN connect_to_default(P, C)
                   ELSE connect_to_shard(P, C, shard) :
          /\ pool' = r.pool
          /\ backend_conn' = [backend_conn EXCEPT ![s] = r.conn]
          /\ backend_shard' =
               [backend_shard EXCEPT ![s] = IF r.conn = NULL THEN NULL ELSE shard]
          /\ SendQuery(s, r.conn, r.table, op)
    BY <1>2, Zenon DEF Reconnect
  <2> HIDE DEF P, C
  <2>4. /\ r.conn \in Conns \cup {NULL}
        /\ r.pool \in [Shards -> PoolType]
        /\ r.table \in [Conns -> PGconn]
    BY <2>1, <2>2, ConnectToType, Zenon
  <2>5. /\ conn' \in [Conns -> PGconn]
        /\ state' \in [Sessions -> State]
        /\ reply' \in [Sessions -> Seq(Sent)]
    BY <2>3, <2>4, SendQueryFacts, Zenon
  <2> QED
    BY <2>3, <2>4, <2>5, Zenon DEF TypeOK, scatterVars, envVars
<1> QED
  BY <1>1, <1>2

\* execute_scatter.
LEMMA ExecuteScatterType ==
  ASSUME TypeOK, NEW s \in Sessions, NEW op \in Op, execute_scatter(s, op)
  PROVE  TypeOK'
<1>1. PICK a \in [Shards -> UNION {conn_pool_acquire(pool[sh], conn) : sh \in Shards}] :
        ScatterTo(s, op, a)
  BY DEF execute_scatter
<1>0. UNCHANGED <<backendVars, blocked, envVars>>
  BY DEF execute_scatter
<1> DEFINE L == [sh \in Shards |-> a[sh].conn]
           Q == [sh \in Shards |-> a[sh].pool]
           T == Acquired(conn, pool, Q, L)
           sent == {sh \in Shards : L[sh] # NULL /\ PQsendQueryOK(T[L[sh]])}
           T1 == [c \in Conns |-> IF \E sh \in sent : L[sh] = c
                                  THEN PQsendQuery(T[c], op) ELSE T[c]]
           told == IF sent = {} THEN <<"Error", "IDLE">> ELSE <<>>
<1>2. \A sh \in Shards : a[sh].conn \in Conns \cup {NULL} /\ a[sh].pool \in PoolType
  <2>1. \A sh \in Shards : pool[sh] \in PoolType /\ conn \in [Conns -> PGconn]
    BY DEF TypeOK
  <2> QED
    BY <1>1, <2>1, AcquireFacts, Zenon DEF ScatterTo
<1>3. /\ L \in [Shards -> Conns \cup {NULL}] /\ Q \in [Shards -> PoolType]
  BY <1>2
<1>4. T \in [Conns -> PGconn]
  BY AcquiredType, Zenon DEF TypeOK
<1>5. T1 \in [Conns -> PGconn]
  <2> HIDE DEF T, sent, L
  <2> QED
    BY <1>4, SendQueryType
<1>6. pool' \in [Shards -> PoolType]
  <2>1. pool' = [sh \in Shards |-> IF L[sh] = NULL \/ sh \in sent THEN Q[sh]
                                   ELSE conn_pool_release(Q[sh], T, L[sh])]
    BY <1>1, Zenon DEF ScatterTo
  <2> HIDE DEF T, sent, L, Q
  <2>2. ASSUME NEW sh \in Shards, L[sh] # NULL
        PROVE  conn_pool_release(Q[sh], T, L[sh]) \in PoolType
    <3>1. L[sh] \in Conns /\ Q[sh] \in PoolType
      BY <1>3, <2>2
    <3> QED
      BY <1>4, <3>1, ReleaseFacts, Zenon
  <2> QED
    BY <1>3, <2>1, <2>2
<1>7. conn' \in [Conns -> PGconn]
  <2>1. conn' = Finish(T1, {L[sh] : sh \in Shards \ sent}, pool')
    BY <1>1, Zenon DEF ScatterTo
  <2> QED
    BY <1>5, <2>1, FinishType, Zenon
<1>8. sent \subseteq Shards /\ Cardinality(Shards \ sent) \in Nat
  <2>1. IsFiniteSet(Shards \ sent)
    BY SessionAssumption, FS_Difference, Zenon
  <2> QED
    BY <2>1, FS_CardinalityType, Zenon
<1>9. told \in Seq(Sent)
  <2>1. "Error" \in Sent /\ "IDLE" \in Sent
    BY DEF Sent, Token, Status
  <2>2. <<>> \in Seq(Sent) /\ <<"Error", "IDLE">> \in Seq(Sent)
    BY <2>1
  <2> QED
    BY <2>2, Zenon
<1>10. /\ scatter_conn' = [scatter_conn EXCEPT ![s] =
                [sh \in Shards |-> IF sh \in sent THEN L[sh] ELSE NULL]]
       /\ done' = [done EXCEPT ![s] = Shards \ sent]
       /\ failed' = [failed EXCEPT ![s] = Shards \ sent]
       /\ scatter_done' = [scatter_done EXCEPT ![s] = Cardinality(Shards \ sent)]
       /\ scatter_header_sent' = [scatter_header_sent EXCEPT ![s] = FALSE]
       /\ state' = [state EXCEPT ![s] = IF sent = {} THEN "READY" ELSE "SCATTER"]
       /\ reply' = [reply EXCEPT ![s] = told]
  BY <1>1, Zenon DEF ScatterTo
<1> HIDE DEF told, sent, L, Q, T, T1
<1>11. scatter_conn' \in [Sessions -> [Shards -> Conns \cup {NULL}]]
  <2>1. [sh \in Shards |-> IF sh \in sent THEN L[sh] ELSE NULL] \in [Shards -> Conns \cup {NULL}]
    BY <1>3
  <2> QED
    BY <1>10, <2>1, Zenon DEF TypeOK
<1>12. /\ done' \in [Sessions -> SUBSET Shards] /\ failed' \in [Sessions -> SUBSET Shards]
       /\ scatter_done' \in [Sessions -> Nat]
  BY <1>8, <1>10, Zenon DEF TypeOK
<1>13. /\ scatter_header_sent' \in [Sessions -> BOOLEAN]
       /\ state' \in [Sessions -> State] /\ reply' \in [Sessions -> Seq(Sent)]
  BY <1>9, <1>10 DEF TypeOK, State
<1> QED
  BY <1>0, <1>6, <1>7, <1>11, <1>12, <1>13 DEF TypeOK, backendVars, envVars

\* copy_handle_client_message.
LEMMA CopyEndStepType ==
  ASSUME TypeOK, NEW s \in Sessions, NEW ok \in BOOLEAN, CopyEnd(s, ok)
  PROVE  TypeOK'
<1> DEFINE c == backend_conn[s]
           k == PQputCopyEnd(conn[c])
           k1 == IF k.copying THEN CopyEnds(k, ok) ELSE k
<1>1. c \in Conns
  BY DEF TypeOK, CopyEnd
<1>2. k \in PGconn
  BY <1>1, CopyEndType DEF TypeOK
<1>3. k1 \in PGconn
  <2> HIDE DEF k
  <2> QED
    BY <1>2, CopyEndType
<1>4. conn' = [conn EXCEPT ![c] = k1] /\ state' = [state EXCEPT ![s] = "QUERY"]
  BY DEF CopyEnd
<1> HIDE DEF k1
<1> QED
  BY <1>1, <1>3, <1>4 DEF CopyEnd, TypeOK, State, backendVars, scatterVars, envVars

\* The servers' steps.
LEMMA ServerStepType ==
  ASSUME TypeOK, NEW c \in Conns,
         \/ BackendExecutes(c) \/ BackendWrites(c) \/ BackendRejectsRow(c)
         \/ BackendNotice(c) \/ BackendCrash(c)
  PROVE  TypeOK'
<1>1. conn[c] \in PGconn /\ crashes \in Nat /\ notices \in Nat
  BY DEF TypeOK
<1>2. PICK k \in PGconn : OnlyConn(c, k)
  <2>1. CASE BackendExecutes(c)
    <3>1. conn[c].req \in Op /\ conn[c].xact \in Status
      BY <1>1, <2>1, Zenon DEF BackendExecutes, PGconn
    <3> QED
      BY <1>1, <2>1, <3>1, ResponseType, ServerType DEF BackendExecutes
  <2>2. CASE BackendWrites(c)
    BY <1>1, <2>2, ServerType DEF BackendWrites
  <2>3. CASE BackendRejectsRow(c)
    BY <1>1, <2>3, CopyEndType, Zenon DEF BackendRejectsRow
  <2>4. CASE BackendNotice(c)
    <3>1. [conn[c] EXCEPT !.notice = TRUE] \in PGconn
      BY <1>1, Zenon DEF PGconn
    <3> QED
      BY <2>4, <3>1 DEF BackendNotice
  <2>5. CASE BackendCrash(c)
    BY <1>1, <2>5, ServerType DEF BackendCrash
  <2> QED
    BY <2>1, <2>2, <2>3, <2>4, <2>5
<1>3. crashes' \in Nat /\ notices' \in Nat
  <2>1. \/ UNCHANGED envVars
        \/ notices' = notices + 1 /\ UNCHANGED crashes
        \/ crashes' = crashes + 1 /\ UNCHANGED notices
    BY Zenon DEF BackendExecutes, BackendWrites, BackendRejectsRow, BackendNotice, BackendCrash
  <2> QED
    BY <1>1, <2>1 DEF envVars
<1> QED
  BY <1>2, <1>3 DEF OnlyConn, TypeOK, backendVars, scatterVars

\* The health check finds no dead connection: it changes no pool.
LEMMA HealthCheckFacts ==
  ASSUME TypeOK, IdleAlive(pool, conn), health_check_all
  PROVE  pool' = pool /\ conn' = conn
<1>1. ASSUME NEW sh \in Shards PROVE conn_pool_health_check(pool[sh], conn) = pool[sh]
  <2>1. \A i \in DOMAIN pool[sh].idle_conns : pool[sh].idle_conns[i] \in Idle(pool)
    BY IdleAt
  <2>2. Live(pool[sh], conn) = DOMAIN pool[sh].idle_conns
    BY <2>1 DEF Live, IdleAlive
  <2> QED
    BY <2>2 DEF conn_pool_health_check
<1>2. pool' = pool
  BY <1>1 DEF health_check_all, TypeOK
<1>3. conn' = conn
  <2>1. conn' = Finish(conn, Idle(pool), pool)
    BY <1>2 DEF health_check_all
  <2> QED
    BY <2>1 DEF Finish, TypeOK
<1> QED
  BY <1>2, <1>3

\* The proxy's own replies.
LEMMA ReplyLocallyType ==
  ASSUME TypeOK, NEW s \in Sessions, NEW answer \in {"Error", "Complete"},
         ReplyLocally(s, answer)
  PROVE  TypeOK'
<1>1. answer \in Sent /\ "IDLE" \in Sent
  BY DEF Sent, Token, Status
<1>2. <<answer, "IDLE">> \in Seq(Sent)
  BY <1>1
<1>3. reply' = [reply EXCEPT ![s] = <<answer, "IDLE">>]
  BY DEF ReplyLocally
<1>4. reply' \in [Sessions -> Seq(Sent)]
  BY <1>2, <1>3 DEF TypeOK
<1> QED
  BY <1>4 DEF ReplyLocally, TypeOK, backendVars, scatterVars, envVars

\* handle_query, whatever the routing decision.
LEMMA HandleQueryType ==
  ASSUME TypeOK, NEW s \in Sessions, NEW q \in Requests, handle_query(s, q)
  PROVE  TypeOK'
<1>1. q.op \in Op /\ q.shard \in Shards \cup {NULL}
  BY SessionAssumption
<1>2. ASSUME NEW answer \in {"Error", "Complete"}, ReplyLocally(s, answer) PROVE TypeOK'
  BY <1>2, ReplyLocallyType
<1>3. CASE execute_unsharded(s, q.op)
  <2>1. NULL \in Shards \cup {NULL}
    OBVIOUS
  <2> QED
    BY <1>1, <1>3, <2>1, ExecuteType DEF execute_unsharded
<1>4. CASE execute_single(s, q.shard, q.op)
  BY <1>1, <1>4, ExecuteType, Zenon DEF execute_single
<1>5. CASE execute_scatter(s, q.op)
  BY <1>1, <1>5, ExecuteScatterType
<1> QED
  BY <1>2, <1>3, <1>4, <1>5 DEF handle_query

\* Every step keeps the types, given that no idle connection is known to be dead
\* (for the health check).
LEMMA NextType ==
  ASSUME TypeOK, IdleAlive(pool, conn), [Next]_vars
  PROVE  TypeOK'
<1>1. ASSUME NEW s \in Sessions, on_accept(s) \/ handle_startup_message(s) PROVE TypeOK'
  <2>1. <<"Auth", "IDLE">> \in Seq(Sent)
    <3>1. "Auth" \in Sent /\ "IDLE" \in Sent
      BY DEF Sent, Token, Status
    <3> QED
      BY <3>1
  <2>2. CASE on_accept(s)
    BY <2>2 DEF on_accept, TypeOK, State, backendVars, scatterVars, envVars
  <2>3. CASE handle_startup_message(s)
    <3>1. reply' = [reply EXCEPT ![s] = <<"Auth", "IDLE">>]
      BY <2>3 DEF handle_startup_message
    <3>2. reply' \in [Sessions -> Seq(Sent)]
      BY <2>1, <3>1 DEF TypeOK
    <3> QED
      BY <2>3, <3>2 DEF handle_startup_message, TypeOK, State, backendVars, scatterVars, envVars
  <2> QED
    BY <1>1, <2>2, <2>3
<1>2. ASSUME NEW s \in Sessions, ClientGone(s) PROVE TypeOK'
  <2>1. conn \in [Conns -> PGconn]
    BY DEF TypeOK
  <2> QED
    BY <1>2, <2>1, DestroyType DEF ClientGone
<1>3. ASSUME NEW s \in Sessions, NEW q \in Requests, handle_query(s, q) PROVE TypeOK'
  BY <1>3, HandleQueryType
<1>4. ASSUME NEW s \in Sessions, NEW ok \in BOOLEAN, CopyEnd(s, ok) PROVE TypeOK'
  BY <1>4, CopyEndStepType
<1>5. ASSUME NEW s \in Sessions, session_on_backend_readable(s) \/ BackendWaitEnds(s)
      PROVE  TypeOK'
  BY <1>5, BackendReadableType, BackendWaitType
<1>6. ASSUME NEW s \in Sessions, NEW sh \in Shards,
             session_on_scatter_readable(s, sh) \/ ScatterWaitEnds(s, sh)
      PROVE  TypeOK'
  BY <1>6, ScatterReadableType, ScatterWaitType
<1>7. CASE health_check_all
  <2>1. pool' = pool /\ conn' = conn
    BY <1>7, HealthCheckFacts
  <2> QED
    BY <1>7, <2>1, Zenon DEF health_check_all, TypeOK, backendVars, scatterVars, envVars
<1>8. ASSUME NEW c \in Conns,
             \/ BackendExecutes(c) \/ BackendWrites(c) \/ BackendRejectsRow(c)
             \/ BackendNotice(c) \/ BackendCrash(c)
      PROVE  TypeOK'
  BY <1>8, ServerStepType
<1>9. ASSUME NEW s \in Sessions, RefuseExtended(s) PROVE TypeOK'
  BY <1>9, ReplyLocallyType DEF RefuseExtended
<1>10. CASE UNCHANGED vars
  BY <1>10 DEF TypeOK, vars, backendVars, scatterVars, envVars
<1> QED
  BY <1>1, <1>2, <1>3, <1>4, <1>5, <1>6, <1>7, <1>8, <1>9, <1>10 DEF Next
=============================================================================
