------------------------------ MODULE Frontend ------------------------------
(***************************************************************************)
(* One client connection of sharegres, from socket to socket: the receive  *)
(* buffer and the message framing of fe_protocol_process, the send buffer  *)
(* of session_send, and the events for which the client socket is          *)
(* registered.  What a query does behind handle_query is module Session;   *)
(* here a query ends at once, or leaves the session waiting for backend    *)
(* callbacks that queue messages.                                          *)
(*                                                                         *)
(* Bytes are grouped into units: the type byte, the 4-byte length and each *)
(* field of the body are one unit each.  A unit the client sends is        *)
(* <<m, i>>, the i-th of message m, so that a buffer shows where every     *)
(* part of it came from.  The proxy knows a message only by its header.    *)
(***************************************************************************)
EXTENDS Integers, Sequences, FiniteSets, SequencesExt

CONSTANTS Kinds,              \* message kinds that the client sends
          MaxSent,            \* bound: messages of the client
          MaxQueued,          \* bound: messages to the client
          RECV_BUF_INITIAL,   \* initial capacity of recv_buf
          RECV_MIN,           \* room made before each recv
          SEND_BUF_INITIAL,   \* initial capacity of send_buf
          SOCKET_ROOM         \* units the client's socket buffer holds

ASSUME FrontendAssumption ==
  /\ {RECV_BUF_INITIAL, RECV_MIN, SEND_BUF_INITIAL, SOCKET_ROOM}
       \subseteq Nat \ {0}
  /\ {MaxSent, MaxQueued} \subseteq Nat

VARIABLES
  state,      \* session->state
  recv_buf,   \* recv_buf.data[0 .. len-1]
  recv_cap,   \* recv_buf.cap
  send_buf,   \* send_buf.data[0 .. len-1]
  send_cap,   \* send_buf.cap
  send_pos,   \* session->send_pos
  events,     \* ev_handler.events; "NONE" when the session is destroyed
  inflow,     \* units under way from the client
  outflow,    \* units in the socket buffer to the client
  got,        \* units that the client has read
  peer,       \* the client's end: "open", "closed" or "reset"
  sent,       \* history: messages of the client
  taken,      \* history: messages removed from recv_buf
  ran,        \* history: query texts given to handle_query
  queued,     \* history: messages queued for the client
  why,        \* history: what ended the session
  eager       \* history: the client did not wait for an answer

vars == <<state, recv_buf, recv_cap, send_buf, send_cap, send_pos, events,
          inflow, outflow, got, peer, sent, taken, ran, queued, why, eager>>
session == <<state, recv_buf, recv_cap, send_buf, send_cap, send_pos, events,
             taken, ran, queued, why>>
client == <<inflow, got, peer, sent, eager>>

alive == events # "NONE"

-----------------------------------------------------------------------------
(* Messages of the client.  A startup packet has no type byte.             *)

StartupKinds == {"Startup", "SSLRequest", "CancelRequest", "OldStartup",
                 "ShortStartup", "LongStartup"}
HEADER == 2
Body == [k \in StartupKinds |->
           IF k \in {"ShortStartup", "LongStartup"} THEN 0 ELSE 1]
          @@ [k \in {"Query", "CopyData"} |-> 2]
          @@ [k \in {"Parse", "CopyFail", "Unknown"} |-> 1]
          @@ [k \in {"Terminate", "CopyDone", "BadLength"} |-> 0]

Size(k) == Body[k] + (IF k \in StartupKinds THEN 1 ELSE HEADER)
Message(n, k) == [id |-> n, kind |-> k, size |-> Size(k)]
Units(m) == [i \in 1..m.size |-> <<m, i>>]
Stream(ms) == FlattenSeq([i \in DOMAIN ms |-> Units(ms[i])])

(* The text of a query runs to the first string terminator, which is the   *)
(* last unit of a message with a body.                                     *)
Terminator(u) == u[2] = u[1].size /\ Body[u[1].kind] > 0
TextAt(mem, p) ==
  LET ends == {q \in p..Len(mem) : Terminator(mem[q])}
  IN SubSeq(mem, p, IF ends = {} THEN Len(mem)
                    ELSE CHOOSE q \in ends : \A r \in ends : q <= r)

-----------------------------------------------------------------------------
(* message.c: the send buffer.                                             *)

RECURSIVE Doubled(_, _)
Doubled(cap, need) == IF cap >= need THEN cap ELSE Doubled(2 * cap, need)

\* Mutant: the capacity is doubled once.
EnsureOnce(cap, need) == IF need <= cap THEN cap ELSE 2 * cap

msgbuf_ensure(cap, need) == IF need <= cap THEN cap ELSE Doubled(2 * cap, need)

(* A message as msg_begin and msg_end leave it: the length counts itself   *)
(* and the body, not the type.  The answer to an SSLRequest is one byte.   *)
Fields == [ready |-> 1, data |-> 2] @@ [t \in {"auth", "complete", "error",
           "copyin", "copyout"} |-> 1] @@ [done |-> 0]
Wire(t) ==
  IF t = "N" THEN <<<<"type", "N">>>>
  ELSE LET open == <<<<"type", t>>, <<"length", 0>>>>
           full == open \o [i \in 1..Fields[t] |-> <<"field", i>>]
       IN [full EXCEPT ![2] = <<"length", Len(full) - 1>>]

(* The client's view of a stream: the complete messages in it.             *)
RECURSIVE Decode(_)
Decode(s) ==
  CASE s = <<>> -> <<>>
    [] s # <<>> /\ s[1] = <<"type", "N">> -> <<"N">> \o Decode(Tail(s))
    [] OTHER ->
         IF Len(s) < 2 THEN <<>>
         ELSE IF s[1][1] # "type" \/ s[2][1] # "length" THEN <<"garbled">>
         ELSE IF Len(s) < 1 + s[2][2] THEN <<>>
         ELSE <<s[1][2]>> \o Decode(SubSeq(s, 2 + s[2][2], Len(s)))

-----------------------------------------------------------------------------
(* fe_protocol_process.  S holds the fields that the loop changes; rc is   *)
(* "more" to go round again, "wait" for return 0, "close" for return -1,   *)
(* "query" when handle_query is called, whose result is the function's.    *)

\* Mutant: the type byte is left out of the message's size.
ConsumeLength(S, m) ==
  [S EXCEPT !.buf = SubSeq(@, m.size, Len(@)), !.taken = Append(@, m.id),
            !.rc = "more"]

Consume(S, m) ==
  [S EXCEPT !.buf = SubSeq(@, m.size + 1, Len(@)), !.taken = Append(@, m.id),
            !.rc = "more"]
Return(S, rc) == [S EXCEPT !.rc = rc]

(* The bytes behind a removed message move over it; those behind the new   *)
(* end stay what they were.                                                *)
memmove(buf, total) ==
  LET rest == Len(buf) - total
  IN [i \in DOMAIN buf |-> IF i <= rest THEN buf[i + total] ELSE buf[i]]

handle_startup_message(S, m) ==
  CASE m.kind = "SSLRequest" ->
         [Consume(S, m) EXCEPT !.out = Append(@, "N")]
    [] m.kind = "Startup" ->
         [Consume(S, m) EXCEPT !.out = @ \o <<"auth", "ready">>,
                               !.state = "READY"]
    [] OTHER -> Return(S, "close")

StartupStep(S) ==
  LET u == S.buf[1]
  IN CASE u[2] # 1 \/ u[1].kind = "LongStartup" -> Return(S, "close")
       [] Len(S.buf) < u[1].size -> Return(S, "wait")
       [] OTHER -> handle_startup_message(S, u[1])

CopyStep(S, m, fails) ==
  CASE m.kind \in {"CopyData", "CopyDone", "CopyFail"} /\ fails ->
         Return(S, "close")
    [] m.kind \in {"CopyDone", "CopyFail"} /\ ~fails ->
         [Consume(S, m) EXCEPT !.state = "QUERY"]
    [] OTHER -> Consume(S, m)

\* Mutant: the message is removed before the text's address is taken.
QueryStepLate(S, m) ==
  LET rest == Consume(S, m)
  IN [rest EXCEPT
        !.ran = Append(@, [id |-> m.id, behind |-> Len(rest.buf),
                           text |-> TextAt(rest.buf, HEADER + 1)]),
        !.rc = "query"]

QueryStep(S, m) ==
  [Consume(S, m) EXCEPT
     !.ran = Append(@, [id |-> m.id, behind |-> Len(S.buf) - m.size,
                        text |-> TextAt(memmove(S.buf, m.size), HEADER + 1)]),
     !.rc = "query"]

MessageStep(S, fails) ==
  LET u == S.buf[1]
      m == u[1]
  IN CASE S.state \in {"QUERY", "SCATTER", "COPY_OUT"} -> Return(S, "wait")
       [] Len(S.buf) < HEADER -> Return(S, "wait")
       [] u[2] # 1 \/ m.kind = "BadLength" -> Return(S, "close")
       [] Len(S.buf) < m.size -> Return(S, "wait")
       [] S.state = "COPY_IN" -> CopyStep(S, m, fails)
       [] m.kind = "Query" -> QueryStep(S, m)
       [] m.kind = "Terminate" -> Return(S, "close")
       [] m.kind = "Parse" ->
            [Consume(S, m) EXCEPT !.out = @ \o <<"error", "ready">>]
       [] OTHER -> Consume(S, m)

RECURSIVE fe_protocol_process(_, _)
fe_protocol_process(S, fails) ==
  IF S.buf = <<>> THEN Return(S, "wait")
  ELSE LET T == IF S.state = "INIT" THEN StartupStep(S)
                ELSE MessageStep(S, fails)
       IN IF T.rc = "more" THEN fe_protocol_process(T, fails) ELSE T

-----------------------------------------------------------------------------
(* session.c                                                               *)

session_destroy(cause) ==
  /\ recv_buf' = <<>> /\ recv_cap' = 0
  /\ send_buf' = <<>> /\ send_cap' = 0 /\ send_pos' = 0
  /\ events' = "NONE" /\ why' = cause

session_queue_send(out) ==
  send_buf \o FlattenSeq([i \in DOMAIN out |-> Wire(out[i])])

\* Mutants: a send that is cut short does not record how far it came, or
\* does not ask for EPOLLOUT; one that is complete does not ask for EPOLLIN.
SendForgetsPosition(buf, n) ==
  \/ /\ send_pos + n = Len(buf)
     /\ send_buf' = <<>> /\ send_pos' = 0 /\ events' = "EPOLLIN"
  \/ /\ send_pos + n < Len(buf)
     /\ send_buf' = buf /\ events' = "EPOLLOUT" /\ UNCHANGED send_pos
SendWithoutEpollout(buf, n) ==
  \/ /\ send_pos + n = Len(buf)
     /\ send_buf' = <<>> /\ send_pos' = 0 /\ events' = "EPOLLIN"
  \/ /\ send_pos + n < Len(buf)
     /\ send_buf' = buf /\ send_pos' = send_pos + n /\ UNCHANGED events
SendWithoutEpollin(buf, n) ==
  \/ /\ send_pos + n = Len(buf)
     /\ send_buf' = <<>> /\ send_pos' = 0 /\ UNCHANGED events
  \/ /\ send_pos + n < Len(buf)
     /\ send_buf' = buf /\ send_pos' = send_pos + n /\ events' = "EPOLLOUT"

(* The loop over send() ends after n units: all is sent, or EAGAIN.        *)
SendEnds(buf, n) ==
  \/ /\ send_pos + n = Len(buf)
     /\ send_buf' = <<>> /\ send_pos' = 0 /\ events' = "EPOLLIN"
  \/ /\ send_pos + n < Len(buf)
     /\ send_buf' = buf /\ send_pos' = send_pos + n /\ events' = "EPOLLOUT"

Accepted(buf) == Min({Len(buf) - send_pos, SOCKET_ROOM - Len(outflow)})
Transmit(buf, n) ==
  outflow' = outflow \o SubSeq(buf, send_pos + 1, send_pos + n)

session_send(buf) ==
  Transmit(buf, Accepted(buf)) /\ SendEnds(buf, Accepted(buf))

(* How a callback ends that has queued out: with session_send, or, when    *)
(* send() fails because the client is gone, with session_destroy.          *)
QueueAndSend(out, buf, cap) ==
  \/ \E all \in {session_queue_send(out)} :
       /\ peer # "reset"
       /\ session_send(all)
       /\ send_cap' = msgbuf_ensure(send_cap, Len(all))
       /\ recv_buf' = buf /\ recv_cap' = cap
       /\ UNCHANGED why
  \/ /\ peer # "open"
     /\ session_destroy("send")
     /\ UNCHANGED outflow

(* The error and hang-up branch of both client callbacks.                  *)
ClientHangup ==
  /\ alive /\ peer = "reset"
  /\ session_destroy("hup")
  /\ UNCHANGED <<state, outflow, client, taken, ran, queued>>

session_on_client_writable ==
  /\ events = "EPOLLOUT" /\ peer # "reset"
  /\ Len(outflow) < SOCKET_ROOM \/ peer = "closed"
  /\ QueueAndSend(<<>>, recv_buf, recv_cap)
  /\ UNCHANGED <<state, client, taken, ran, queued>>

\* Mutant: no room is made before recv.
NoEnsure == recv_cap

recvbuf_ensure == msgbuf_ensure(recv_cap, Len(recv_buf) + RECV_MIN)

(* The end of the callback: session_send if anything is queued.            *)
ReadableEnds(out, buf) ==
  \/ /\ send_buf = <<>> /\ out = <<>>
     /\ recv_buf' = buf /\ recv_cap' = recvbuf_ensure
     /\ UNCHANGED <<send_buf, send_cap, send_pos, events, outflow, why>>
  \/ /\ send_buf # <<>> \/ out # <<>>
     /\ QueueAndSend(out, buf, recvbuf_ensure)

(* What handle_query may come to: an answer of the proxy itself, an error, *)
(* or a query under way on one backend or on several.                      *)
QueryOutcomes ==
  {[out |-> <<"complete", "ready">>, to |-> "READY"],
   [out |-> <<"error", "ready">>, to |-> "READY"],
   [out |-> <<>>, to |-> "QUERY"], [out |-> <<>>, to |-> "SCATTER"]}

(* recv() gives n units, those that have arrived and fit; 0 of them, for   *)
(* the code, mean that the client has disconnected.                        *)
Receive(n, fails) ==
  \E S \in {fe_protocol_process(
             [state |-> state, buf |-> recv_buf \o SubSeq(inflow, 1, n),
              out |-> <<>>, taken |-> taken, ran |-> ran, rc |-> "more"],
             fails)} :
    /\ inflow' = SubSeq(inflow, n + 1, Len(inflow))
    /\ taken' = S.taken /\ ran' = S.ran
    /\ \/ /\ S.rc = "close"
          /\ session_destroy("protocol")
          /\ queued' = queued \o S.out
          /\ UNCHANGED <<state, outflow>>
       \/ /\ S.rc = "wait"
          /\ ReadableEnds(S.out, S.buf)
          /\ state' = S.state /\ queued' = queued \o S.out
       \/ \E o \in QueryOutcomes :
            /\ S.rc = "query"
            /\ ReadableEnds(S.out \o o.out, S.buf)
            /\ state' = o.to /\ queued' = queued \o S.out \o o.out

session_on_client_readable ==
  /\ events = "EPOLLIN" /\ peer # "reset"
  /\ UNCHANGED <<got, peer, sent, eager>>
  /\ LET room == recvbuf_ensure - Len(recv_buf)
         most == Min({Len(inflow), room})
     IN \/ /\ inflow # <<>> \/ peer = "closed"
           /\ most = 0
           /\ session_destroy("eof")
           /\ UNCHANGED <<state, outflow, inflow, taken, ran, queued>>
        \/ \E n \in 1..most, fails \in BOOLEAN : Receive(n, fails)

-----------------------------------------------------------------------------
(* Backend callbacks, by what they queue: module Session has the rest.     *)
(* The rows of a scatter are queued and sent only when all shards are done.*)

BackendReplies ==
  {[from |-> "QUERY", out |-> <<"data", "complete", "ready">>, to |-> "READY"],
   [from |-> "QUERY", out |-> <<"error", "ready">>, to |-> "READY"],
   [from |-> "QUERY", out |-> <<"copyin">>, to |-> "COPY_IN"],
   [from |-> "QUERY", out |-> <<"copyout">>, to |-> "COPY_OUT"],
   [from |-> "COPY_OUT", out |-> <<"data">>, to |-> "COPY_OUT"],
   [from |-> "COPY_OUT", out |-> <<"done", "complete", "ready">>,
    to |-> "READY"],
   [from |-> "SCATTER", out |-> <<"complete", "ready">>, to |-> "READY"]}

session_on_backend_readable ==
  \E r \in BackendReplies :
    /\ alive /\ state = r.from
    /\ r.to = "READY" \/ Len(queued) < MaxQueued
    /\ QueueAndSend(r.out, recv_buf, recv_cap)
    /\ state' = r.to /\ queued' = queued \o r.out
    /\ UNCHANGED <<client, taken, ran>>

session_forward_result ==
  /\ alive /\ state = "SCATTER" /\ Len(queued) < MaxQueued
  /\ send_buf' = session_queue_send(<<"data">>)
  /\ send_cap' = msgbuf_ensure(send_cap, Len(send_buf'))
  /\ queued' = Append(queued, "data")
  /\ UNCHANGED <<state, recv_buf, recv_cap, send_pos, events, outflow, client,
                 taken, ran, why>>

(* The backend is lost: the error is queued and as much of it as the       *)
(* socket takes is sent, then the session is destroyed.                    *)
BackendLost ==
  LET all == session_queue_send(<<"error">>)
  IN /\ alive /\ state \in {"QUERY", "COPY_IN", "COPY_OUT"}
     /\ Transmit(all, IF peer = "open" THEN Accepted(all) ELSE 0)
     /\ session_destroy("backend")
     /\ queued' = Append(queued, "error")
     /\ UNCHANGED <<state, client, taken, ran>>

-----------------------------------------------------------------------------
(* External: the client.  It waits for answers, or it does not (eager).    *)

Replies == Decode(got)
Count(seq, S) == Len(SelectSeq(seq, LAMBDA x : x \in S))
SentKinds == [i \in DOMAIN sent |-> sent[i].kind]
Asked == Count(SentKinds, {"Startup", "Query", "Parse"})
Answered == Count(Replies, {"ready"})

InPhase(k) == k \in StartupKinds <=> Count(SentKinds, {"Startup"}) = 0
Copying == Replies # <<>> /\ Last(Replies) = "copyin"
           /\ Count(SentKinds, {"CopyDone", "CopyFail"})
                < Count(Replies, {"copyin"})
Waits(k) ==
  IF k \in {"CopyData", "CopyDone", "CopyFail"} THEN Copying
  ELSE Asked = Answered
       /\ Count(SentKinds, {"SSLRequest"}) = Count(Replies, {"N"})

ClientSends(k) ==
  /\ alive /\ peer = "open" /\ Len(sent) < MaxSent /\ InPhase(k)
  /\ LET m == Message(Len(sent) + 1, k)
     IN sent' = Append(sent, m) /\ inflow' = inflow \o Units(m)
  /\ eager' = (eager \/ ~Waits(k))
  /\ UNCHANGED <<session, outflow, got, peer>>

ClientReads ==
  /\ peer = "open" /\ outflow # <<>>
  /\ got' = got \o outflow /\ outflow' = <<>>
  /\ UNCHANGED <<session, inflow, peer, sent, eager>>

ClientLeaves ==
  /\ alive /\ peer = "open"
  /\ peer' \in {"closed", "reset"}
  /\ UNCHANGED <<session, outflow, inflow, got, sent, eager>>

-----------------------------------------------------------------------------
Init ==
  /\ state = "INIT"
  /\ recv_buf = <<>> /\ recv_cap = RECV_BUF_INITIAL
  /\ send_buf = <<>> /\ send_cap = SEND_BUF_INITIAL /\ send_pos = 0
  /\ events = "EPOLLIN"
  /\ inflow = <<>> /\ outflow = <<>> /\ got = <<>> /\ peer = "open"
  /\ sent = <<>> /\ taken = <<>> /\ ran = <<>> /\ queued = <<>>
  /\ why = "none" /\ eager = FALSE

Next ==
  \/ ClientHangup \/ session_on_client_readable \/ session_on_client_writable
  \/ session_on_backend_readable \/ session_forward_result \/ BackendLost
  \/ \E k \in Kinds : ClientSends(k)
  \/ ClientReads \/ ClientLeaves

Spec == Init /\ [][Next]_vars

(* The loop reports a ready socket again until it is served, the thread    *)
(* always returns to it, the servers answer, and a client that is there    *)
(* reads what arrives.  Nothing says that the client sends anything.       *)
FairSpec ==
  /\ Spec
  /\ WF_vars(session_on_client_readable) /\ WF_vars(session_on_client_writable)
  /\ WF_vars(session_on_backend_readable) /\ WF_vars(ClientReads)

-----------------------------------------------------------------------------
(* Type invariant.  The buffers never hold more than their capacity: every *)
(* write is preceded by recvbuf_ensure or msgbuf_ensure.                   *)
TypeOK ==
  /\ state \in {"INIT", "READY", "QUERY", "SCATTER", "COPY_IN", "COPY_OUT"}
  /\ events \in {"EPOLLIN", "EPOLLOUT", "NONE"}
  /\ peer \in {"open", "closed", "reset"}
  /\ why \in {"none", "protocol", "eof", "hup", "send", "backend"}
  /\ Len(recv_buf) <= recv_cap
  /\ Len(send_buf) <= send_cap /\ send_pos <= Len(send_buf)
  /\ Len(outflow) <= SOCKET_ROOM

(* However the client's bytes are cut into segments, fe_protocol_process   *)
(* takes its messages in order and each once: what is buffered and what is *)
(* under way is exactly the stream of the messages not yet taken.          *)
StreamIntact ==
  alive => /\ taken = [i \in 1..Len(taken) |-> i]
           /\ recv_buf \o inflow
                = Stream(SubSeq(sent, Len(taken) + 1, Len(sent)))

(* The text that handle_query reads from recv_buf is the text of the       *)
(* query, although the memmove before it moves the following bytes: they   *)
(* reach the text only if more than a message header follows the query.    *)
TextIntact ==
  \A r \in ToSet(ran) :
    r.behind <= HEADER =>
      r.text = SubSeq(Units(sent[r.id]), HEADER + 1, sent[r.id].size)

unsent == SubSeq(send_buf, send_pos + 1, Len(send_buf))

(* The client finds in its stream the messages that were queued, whole, in *)
(* order and once, whatever send() accepts at a time; a session that ends  *)
(* cuts the stream off and does nothing else to it.                        *)
RepliesIntact ==
  /\ alive => Decode(got \o outflow \o unsent) = queued
  /\ IsPrefix(Decode(got \o outflow), queued)

(* recv() is never called without room, where it would return 0: a session *)
(* that ends because the client "disconnected" has a client that did.      *)
NoFalseEof == why = "eof" => peer # "open"

(* Between callbacks the socket is watched for writing exactly when a send *)
(* was cut short.  Only the rows of a running scatter wait in send_buf     *)
(* without that, for the callback that completes it.                       *)
RepliesScheduled ==
  alive => /\ events = "EPOLLOUT" => unsent # <<>>
           /\ unsent # <<>> /\ state # "SCATTER" => events = "EPOLLOUT"

(* Every message queued reaches a client that stays and reads, also when   *)
(* the client goes on sending meanwhile.                                   *)
Delivered ==
  Replies # queued ~> Replies = queued \/ ~alive \/ peer # "open"

(* A client that waits for each answer before it sends the next message    *)
(* gets every answer, unless it has to finish a COPY first.                *)
AnswersArrive ==
  Asked > Answered /\ ~eager
    ~> Asked = Answered \/ eager \/ Copying \/ ~alive \/ peer # "open"

(* A message that has been received completely is handled, or the session  *)
(* ends: src/docs/design.md on messages that arrive with a query.          *)
MessagesHandled ==
  \A i \in 1..MaxSent :
    /\ alive /\ i \in DOMAIN sent /\ Len(taken) = i - 1
    /\ Len(recv_buf) >= sent[i].size
    ~> Len(taken) >= i \/ ~alive \/ peer # "open"
=============================================================================
