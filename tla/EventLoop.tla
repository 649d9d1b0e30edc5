----------------------------- MODULE EventLoop -----------------------------
(***************************************************************************)
(* Descriptors, epoll registrations and handlers: which memory an event    *)
(* reaches.  event_loop_run takes a batch of events from epoll_wait and    *)
(* calls the handler that each registration points to; the callbacks       *)
(* accept, create and destroy sessions and acquire and release             *)
(* connections, and so change registrations, descriptors and memory while  *)
(* the rest of the batch is still to come.                                 *)
(*                                                                         *)
(* What the callbacks say to clients and servers is in modules Session and *)
(* Frontend; here a callback is one of the outcomes it may have for        *)
(* descriptors.  A socket may be readable, or in error, at any time.       *)
(***************************************************************************)
EXTENDS Integers, Sequences, FiniteSets, Functions

CONSTANTS NONE,
          Slots,         \* memory for sessions
          Fds,           \* descriptor numbers
          MaxScatter,    \* shards of a scatter, at most
          MAX_EVENTS     \* events that one epoll_wait returns

ASSUME EventLoopAssumption ==
  /\ MaxScatter \in Nat /\ MAX_EVENTS \in Nat \ {0}
  /\ NONE \notin Fds \cup Slots

(* The EventHandlers embedded in a session, ev_handler, backend_ev and     *)
(* scatter[i].ev, and that of the listener.                                *)
client == -1
backend == 0
Handlers == Slots \X ({client, backend} \cup (1..MaxScatter))
listener == <<NONE, client>>

VARIABLES
  phase,          \* "wait", "dispatch"; "undefined" once freed memory is used
  batch,          \* events of loop->events that are still to be dispatched
  state,          \* session->state by slot; "free" when it is not allocated
  fd,             \* handler's fd while its socket or conn is in use, or NONE
  armed,          \* handlers whose callback pointer is set
  lost,           \* handlers whose conn libpq has found dead and closed
  scatter_count,
  scatter_done,
  file,           \* descriptors: "closed", "used", "idle" in a pool
  reg,            \* epoll: the handler for which a descriptor is registered
  mishap          \* history: "lost", "overwritten"; see below

vars == <<phase, batch, state, fd, armed, lost, scatter_count, scatter_done,
          file, reg, mishap>>

-----------------------------------------------------------------------------
alive(s) == state[s] # "free"
Scatter(s) == {<<s, i>> : i \in 1..scatter_count[s]}

(* The sockets and connections that session_destroy knows of.              *)
Held(s) ==
  {h \in {<<s, client>>, <<s, backend>>} \cup Scatter(s) : fd[h] # NONE}

(* The open descriptors behind handlers H: libpq has closed a lost one, so *)
(* its number may meanwhile be another's.                                  *)
Open(H) == {fd[h] : h \in H \ lost}

none == [h \in {} |-> NONE]

(* event_loop_del and release for each of H, of which those in keep go     *)
(* back to a pool and the others are closed; then event_loop_add of the    *)
(* handlers in DOMAIN c with the descriptors c.  EPOLL_CTL_DEL takes a     *)
(* number: it removes whatever registration has that number now.           *)
FilesAfter(H, keep, c) ==
  [f \in Fds |-> IF f \in Range(c) THEN "used"
                 ELSE IF f \in keep THEN "idle"
                 ELSE IF f \in Open(H) THEN "closed" ELSE file[f]]

\* Mutants: a connection that goes back to a pool stays registered; the
\* registrations are removed after the new ones are made.
RegClosedOnly(H, keep, c) ==
  [f \in Fds |-> IF f \in Range(c) THEN CHOOSE h \in DOMAIN c : c[h] = f
                 ELSE IF f \in Open(H) \ keep THEN NONE ELSE reg[f]]

RegDelLast(H, keep, c) ==
  [f \in Fds |-> IF f \in {fd[h] : h \in H} THEN NONE
                 ELSE IF f \in Range(c) THEN CHOOSE h \in DOMAIN c : c[h] = f
                 ELSE reg[f]]

RegAfter(H, keep, c) ==
  [f \in Fds |-> IF f \in Range(c) THEN CHOOSE h \in DOMAIN c : c[h] = f
                 ELSE IF f \in {fd[h] : h \in H} THEN NONE ELSE reg[f]]

Change(H, keep, c) ==
  /\ file' = FilesAfter(H, keep, c)
  /\ reg' = RegAfter(H, keep, c)
  /\ fd' = [h \in Handlers |-> IF h \in DOMAIN c THEN c[h]
                               ELSE IF h \in H THEN NONE ELSE fd[h]]

(* Of the connections of H, any may be kept in a pool.                     *)
Kept(H) == SUBSET Open({h \in H : h[2] # client})

(* Connections or sockets for some of H: pooled ones or new ones, each its *)
(* own; the kernel may give any number that is closed.                     *)
Closed == {f \in Fds : file[f] = "closed"}
Idle == {f \in Fds : file[f] = "idle"}
Acquired(H, free) ==
  {c \in UNION {[D -> free] : D \in SUBSET H} : IsInjective(c)}

(* The next event of the batch is for h.                                   *)
Event(h, events) ==
  /\ phase = "dispatch" /\ batch # <<>>
  /\ Head(batch).h = h /\ Head(batch).ev \in events
  /\ batch' = Tail(batch) /\ UNCHANGED phase

-----------------------------------------------------------------------------
(* session.c                                                               *)

session_destroy(s, keep) ==
  /\ file' = FilesAfter(Held(s), keep, none)
  /\ reg' = RegAfter(Held(s), keep, none)
  /\ fd' = [h \in Handlers |-> IF h[1] = s THEN NONE ELSE fd[h]]
  /\ state' = [state EXCEPT ![s] = "free"]
  /\ armed' = {h \in armed : h[1] # s}
  /\ lost' = {h \in lost : h[1] # s}
  /\ scatter_count' = [scatter_count EXCEPT ![s] = 0]
  /\ scatter_done' = [scatter_done EXCEPT ![s] = 0]
  /\ UNCHANGED mishap

Destroys(s) == \E keep \in Kept(Held(s)) : session_destroy(s, keep)

(* Callbacks that change no descriptor: nothing to read, a message that is *)
(* not complete, an answer by the proxy itself, a result still under way.  *)
Nothing ==
  UNCHANGED <<state, fd, armed, lost, scatter_count, scatter_done, file, reg,
              mishap>>

(* on_accept: connections up to EAGAIN.  One for which there is no memory  *)
(* is closed again.                                                        *)
on_accept ==
  /\ Event(listener, {"in"})
  /\ \E c \in Acquired({<<s, client>> : s \in {t \in Slots : ~alive(t)}},
                       Closed) :
       /\ Change({}, {}, c)
       /\ state' = [s \in Slots |-> IF <<s, client>> \in DOMAIN c
                                    THEN "READY" ELSE state[s]]
       /\ armed' = armed \cup DOMAIN c
  /\ UNCHANGED <<lost, scatter_count, scatter_done, mishap>>

(* The end of the session: error or hang-up, end of file, a message that   *)
(* fe_protocol_process refuses, a failed send.                             *)
ClientEnds(s) ==
  /\ alive(s) /\ Event(<<s, client>>, {"in", "hup"})
  /\ Destroys(s)

ClientIdles(s) ==
  /\ alive(s) /\ Event(<<s, client>>, {"in"})
  /\ Nothing

(* execute_single: a connection to another shard is given back first; the  *)
(* one in use is kept if it is the right one.                              *)
execute_single(s) ==
  LET b == <<s, backend>>
  IN /\ alive(s) /\ Event(<<s, client>>, {"in"})
     /\ state[s] = "READY"
     /\ \/ /\ fd[b] # NONE
           /\ state' = [state EXCEPT ![s] = "QUERY"]
           /\ UNCHANGED <<fd, armed, lost, file, reg>>
        \/ \E keep \in Kept({b} \cap Held(s)) :
             \E c \in Acquired({b}, Closed \cup Idle \cup Open({b} \cap Held(s))) :
               /\ Change({b} \cap Held(s), keep, c)
               /\ \/ c # none /\ state' = [state EXCEPT ![s] = "QUERY"]
                  \/ UNCHANGED state
               /\ armed' = armed \cup DOMAIN c
               /\ lost' = lost \ {b}
     /\ UNCHANGED <<scatter_count, scatter_done, mishap>>

(* execute_scatter: the slots are cleared, whatever is in them.            *)
execute_scatter(s) ==
  \E n \in 1..MaxScatter :
    LET T == {<<s, i>> : i \in 1..n}
    IN /\ alive(s) /\ Event(<<s, client>>, {"in"})
       /\ state[s] = "READY"
       /\ \E c \in Acquired(T, Closed \cup Idle) :
            /\ file' = FilesAfter({}, {}, c)
            /\ reg' = RegAfter({}, {}, c)
            /\ fd' = [h \in Handlers |-> IF h \in DOMAIN c THEN c[h]
                                         ELSE IF h \in T THEN NONE ELSE fd[h]]
            /\ armed' = (armed \ T) \cup DOMAIN c
            /\ scatter_done' = [scatter_done EXCEPT
                                  ![s] = n - Cardinality(DOMAIN c)]
            /\ state' = IF c = none THEN state
                        ELSE [state EXCEPT ![s] = "SCATTER"]
       /\ lost' = lost \ T
       /\ scatter_count' = [scatter_count EXCEPT ![s] = n]
       /\ mishap' = IF \E i \in 1..MaxScatter : fd[<<s, i>>] # NONE
                    THEN mishap \cup {"overwritten"} ELSE mishap

(* session_on_backend_readable: an error or hang-up ends the session,      *)
(* before the test for a connection that is gone.                          *)
BackendEnds(s) ==
  /\ alive(s) /\ <<s, backend>> \in armed
  /\ \/ Event(<<s, backend>>, {"hup"})
     \/ Event(<<s, backend>>, {"in"}) /\ fd[<<s, backend>>] # NONE
  /\ Destroys(s)

BackendIdles(s) ==
  /\ alive(s) /\ <<s, backend>> \in armed
  /\ Event(<<s, backend>>, {"in"})
  /\ Nothing

(* The results are complete: the connection stays, in a transaction or to  *)
(* the default backend, or goes back.                                      *)
BackendDone(s) ==
  LET b == <<s, backend>>
  IN /\ alive(s) /\ b \in armed /\ fd[b] # NONE
     /\ Event(b, {"in"})
     /\ state' = [state EXCEPT ![s] = "READY"]
     /\ \/ UNCHANGED <<fd, file, reg, lost>>
        \/ \E keep \in Kept({b}) : Change({b}, keep, none)
                                   /\ lost' = lost \ {b}
     /\ UNCHANGED <<armed, scatter_count, scatter_done, mishap>>

(* session_on_scatter_readable.  One more shard is done, with its socket   *)
(* closed by PQconsumeInput (fails) or not; after the last one, all        *)
(* connections go back, and a failed send ends the session.                *)

\* Mutants: the connections are forgotten; the counter is not reset.
CompleteForgets(s, gone) ==
  /\ scatter_done[s] + 1 >= scatter_count[s]
  /\ fd' = [h \in Handlers |-> IF h \in Scatter(s) THEN NONE ELSE fd[h]]
  /\ state' = [state EXCEPT ![s] = "READY"]
  /\ scatter_count' = [scatter_count EXCEPT ![s] = 0]
  /\ scatter_done' = [scatter_done EXCEPT ![s] = 0]
  /\ UNCHANGED <<armed, file, reg, lost>>
CompleteUnreset(s, gone) ==
  LET H == {h \in Scatter(s) : fd[h] # NONE}
  IN /\ scatter_done[s] + 1 >= scatter_count[s]
     /\ \E keep \in SUBSET (Open(H) \ gone) : Change(H, keep, none)
     /\ state' = [state EXCEPT ![s] = "READY"]
     /\ lost' = lost \ H
     /\ scatter_count' = [scatter_count EXCEPT ![s] = 0]
     /\ scatter_done' = [scatter_done EXCEPT ![s] = @ + 1]
     /\ UNCHANGED armed

check_complete(s, gone) ==
  LET H == {h \in Scatter(s) : fd[h] # NONE}
  IN /\ scatter_done[s] + 1 >= scatter_count[s]
     /\ \E keep \in SUBSET (Open(H) \ gone) : Change(H, keep, none)
     /\ state' = [state EXCEPT ![s] = "READY"]
     /\ lost' = lost \ H
     /\ scatter_count' = [scatter_count EXCEPT ![s] = 0]
     /\ scatter_done' = [scatter_done EXCEPT ![s] = 0]
     /\ UNCHANGED armed

ScatterDone(s, i) ==
  LET h == <<s, i>>
  IN /\ alive(s) /\ h \in armed
     /\ \E fails \in BOOLEAN :
          LET gone == IF fails THEN Open({h}) ELSE {}
          IN /\ \/ Event(h, {"hup"}) /\ ~fails
                \/ Event(h, {"in"}) /\ fd[h] # NONE
             /\ mishap' = IF fails THEN mishap \cup {"lost"} ELSE mishap
             /\ \/ check_complete(s, gone)
                \/ /\ scatter_done[s] + 1 < scatter_count[s]
                   /\ scatter_done' = [scatter_done EXCEPT ![s] = @ + 1]
                   /\ file' = [f \in Fds |-> IF f \in gone THEN "closed"
                                             ELSE file[f]]
                   /\ reg' = [f \in Fds |-> IF f \in gone THEN NONE
                                            ELSE reg[f]]
                   /\ lost' = IF fails THEN lost \cup {h} ELSE lost
                   /\ UNCHANGED <<state, fd, armed, scatter_count>>

ScatterEnds(s, i) ==
  /\ alive(s) /\ <<s, i>> \in armed
  /\ scatter_done[s] + 1 >= scatter_count[s]
  /\ \/ Event(<<s, i>>, {"hup"})
     \/ Event(<<s, i>>, {"in"}) /\ fd[<<s, i>>] # NONE
  /\ Destroys(s)

ScatterIdles(s, i) ==
  /\ alive(s) /\ <<s, i>> \in armed
  /\ Event(<<s, i>>, {"in"})
  /\ Nothing

-----------------------------------------------------------------------------
(* event_loop.c                                                            *)

(* The events of one batch: registered descriptors, each once, in any      *)
(* order.                                                                  *)
Ready == {[f |-> f, h |-> reg[f], ev |-> e] :
            f \in {g \in Fds : reg[g] # NONE}, e \in {"in", "hup"}}
         \cup {[f |-> NONE, h |-> listener, ev |-> "in"]}
Batches == {b \in UNION {[1..n -> Ready] : n \in 0..MAX_EVENTS} :
              \A i, j \in DOMAIN b : i # j => b[i].f # b[j].f}

epoll_wait ==
  /\ phase = "wait" /\ phase' = "dispatch"
  /\ batch' \in {[i \in DOMAIN b |-> [h |-> b[i].h, ev |-> b[i].ev]] :
                   b \in Batches}
  /\ Nothing


(* A handler in memory that has been freed: undefined behaviour.  In       *)
(* memory that has been allocated again, the event reaches a handler of    *)
(* the new session, whose callback is NULL until it is registered.         *)
DispatchFreed(s) ==
  /\ phase = "dispatch" /\ batch # <<>>
  /\ Head(batch).h[1] = s /\ ~alive(s)
  /\ phase' = "undefined" /\ batch' = <<>>
  /\ Nothing

DispatchNull(h) ==
  /\ alive(h[1]) /\ h \notin armed
  /\ Event(h, {"in", "hup"})
  /\ Nothing

(* timer_process_expired.  The health check closes no descriptor: libpq    *)
(* finds out that a connection is dead only when it is used.               *)
TimersExpired ==
  /\ phase = "dispatch" /\ batch = <<>> /\ phase' = "wait"
  /\ UNCHANGED batch
  /\ Nothing

Init ==
  /\ phase = "wait" /\ batch = <<>>
  /\ state = [s \in Slots |-> "free"]
  /\ fd = [h \in Handlers |-> NONE] /\ armed = {} /\ lost = {}
  /\ scatter_count = [s \in Slots |-> 0]
  /\ scatter_done = [s \in Slots |-> 0]
  /\ file = [f \in Fds |-> "closed"] /\ reg = [f \in Fds |-> NONE]
  /\ mishap = {}

Next ==
  \/ epoll_wait \/ on_accept \/ TimersExpired
  \/ \E s \in Slots :
       \/ ClientEnds(s) \/ ClientIdles(s)
       \/ execute_single(s) \/ execute_scatter(s)
       \/ BackendEnds(s) \/ BackendIdles(s) \/ BackendDone(s)
       \/ DispatchFreed(s)
       \/ \E i \in 1..MaxScatter :
            ScatterDone(s, i) \/ ScatterEnds(s, i) \/ ScatterIdles(s, i)
  \/ \E h \in Handlers : DispatchNull(h)

Spec == Init /\ [][Next]_vars

-----------------------------------------------------------------------------
TypeOK ==
  /\ phase \in {"wait", "dispatch", "undefined"}
  /\ batch \in Seq([h : Handlers \cup {listener}, ev : {"in", "hup"}])
  /\ state \in [Slots -> {"free", "READY", "QUERY", "SCATTER"}]
  /\ fd \in [Handlers -> Fds \cup {NONE}]
  /\ armed \subseteq Handlers /\ lost \subseteq Handlers
  /\ scatter_count \in [Slots -> 0..MaxScatter]
  /\ scatter_done \in [Slots -> 0..MaxScatter]
  /\ file \in [Fds -> {"closed", "idle", "used"}]
  /\ reg \in [Fds -> Handlers \cup {NONE}]
  /\ mishap \subseteq {"lost", "overwritten"}

(* What epoll_wait returns is safe to dispatch: a descriptor is registered *)
(* only for the handler of a live session that still has it.  Events reach *)
(* freed or foreign memory only by way of the batch they came in, unless a *)
(* scatter has overwritten the slots of another.                           *)
RegistrationsLive ==
  "overwritten" \notin mishap =>
    \A f \in Fds : reg[f] # NONE =>
      /\ alive(reg[f][1]) /\ reg[f] \in armed /\ reg[f] \in Held(reg[f][1])
      /\ fd[reg[f]] = f /\ reg[f] \notin lost

(* Every socket and connection in use is registered for its own handler,   *)
(* so that no session waits for an event that cannot come.  Only           *)
(* session_release_scatter can break this: EPOLL_CTL_DEL of a number that  *)
(* libpq has closed removes what the kernel has given the number to.       *)
Watched ==
  mishap = {} =>
    \A s \in Slots : alive(s) =>
      /\ fd[<<s, client>>] # NONE
      /\ \A h \in Held(s) \ lost : reg[fd[h]] = h

(* No descriptor is leaked or shared: each one in use belongs to one live  *)
(* handler, and pooled or closed ones to none.                             *)
OneHolder ==
  "overwritten" \notin mishap =>
    \A f \in Fds :
      Cardinality({h \in Handlers : fd[h] = f /\ h \notin lost})
        = IF file[f] = "used" THEN 1 ELSE 0

(* An event is dispatched to a session that exists.                        *)
NoFreedDispatch == phase # "undefined"
=============================================================================
