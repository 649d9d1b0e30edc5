------------------------------- MODULE Timers -------------------------------
(***************************************************************************)
(* The timer queue and the loop that serves it: event_loop_run from        *)
(* start-up to shutdown, with the clock, the signals and the time that     *)
(* callbacks take.  What the callbacks do is in the other modules.         *)
(*                                                                         *)
(* The clock counts ticks, of which NS_PER_MS make a millisecond; a        *)
(* timespec splits it into seconds and ticks as the code does.             *)
(***************************************************************************)
EXTENDS Integers, Sequences, FiniteSetsExt

CONSTANTS NS_PER_MS,    \* 1000000 in the code
          MS_PER_S,     \* 1000
          DEFAULT_MS,   \* 1000: the longest sleep
          MAX_TIMERS,   \* 32
          Intervals,    \* periods of the timers that main adds, in order
          MaxPause,     \* bound: ticks that the callbacks of one step take
          MaxTime       \* bound: clock

ASSUME TimersAssumption ==
  /\ {NS_PER_MS, MS_PER_S, DEFAULT_MS, MAX_TIMERS} \subseteq Nat \ {0}
  /\ Intervals \in Seq(Nat \ {0}) /\ Len(Intervals) <= MAX_TIMERS
  /\ {MaxPause, MaxTime} \subseteq Nat

VARIABLES
  phase,      \* where main is: "setup", "top" of the loop, "wait" in
              \* epoll_wait, "dispatch", "timers", "stopped"
  running,    \* loop->running
  timers,     \* loop->timers
  now,        \* the clock
  timeout,    \* timeout_ms of the current epoll_wait
  signalled,  \* history: SIGTERM or SIGINT has been delivered to the loop
  last,       \* history: when each timer was last set, by timer
  fired       \* history: timers called in this round of the loop

vars == <<phase, running, timers, now, timeout, signalled, last, fired>>

-----------------------------------------------------------------------------
(* timer.c                                                                 *)

NS_PER_S == NS_PER_MS * MS_PER_S

\* External: clock_gettime(CLOCK_MONOTONIC).
clock_gettime(t) == [tv_sec |-> t \div NS_PER_S, tv_nsec |-> t % NS_PER_S]

\* Mutant: nothing is carried from the nanoseconds into the seconds.
AddNoCarry(ts, ms) ==
  [tv_sec |-> ts.tv_sec, tv_nsec |-> ts.tv_nsec + ms * NS_PER_MS]

timespec_add_ms(ts, ms) ==
  LET nsec == ts.tv_nsec + ms * NS_PER_MS
  IN [tv_sec |-> ts.tv_sec + nsec \div NS_PER_S, tv_nsec |-> nsec % NS_PER_S]

(* Integer division of C: it rounds towards zero.                          *)
Quotient(a, b) == IF a >= 0 THEN a \div b ELSE -((-a) \div b)

timespec_diff_ms(a, b) ==
  (a.tv_sec - b.tv_sec) * MS_PER_S + Quotient(a.tv_nsec - b.tv_nsec, NS_PER_MS)

timer_add(tq, interval, t) ==
  IF Len(tq) >= MAX_TIMERS THEN tq
  ELSE Append(tq, [interval_ms |-> interval,
                   next_fire |-> timespec_add_ms(clock_gettime(t), interval)])

Remaining(timer, t) == timespec_diff_ms(timer.next_fire, clock_gettime(t))
Due(timer, t) == Remaining(timer, t) <= 0

\* Mutant: the sleep ends with the last timer, not with the first.
NextTimeoutLast(tq, t) ==
  IF tq = <<>> THEN DEFAULT_MS
  ELSE LET r == Remaining(tq[Len(tq)], t)
       IN IF r <= 0 THEN 0 ELSE IF r < DEFAULT_MS THEN r ELSE DEFAULT_MS

timer_next_timeout_ms(tq, t) ==
  IF \E i \in DOMAIN tq : Due(tq[i], t) THEN 0
  ELSE Min({DEFAULT_MS} \cup {Remaining(tq[i], t) : i \in DOMAIN tq})

\* Mutant: the next firing is set from the due time, a whole number of
\* periods later that may have passed already.
RescheduleDue(timer, t) ==
  [timer EXCEPT !.next_fire = timespec_add_ms(@, timer.interval_ms)]

Reschedule(timer, t) ==
  [timer EXCEPT
     !.next_fire = timespec_add_ms(clock_gettime(t), timer.interval_ms)]

(* at[i] is the clock after the callback of timer i; the clock that decides *)
(* which timers are due is read once, before the first callback.           *)
timer_process_expired(at) ==
  LET fires(i) == Due(timers[i], now)
  IN /\ timers' = [i \in DOMAIN timers |->
                     IF fires(i) THEN Reschedule(timers[i], at[i])
                     ELSE timers[i]]
     /\ last' = [i \in DOMAIN timers |->
                   IF fires(i) THEN at[i] ELSE last[i]]
     /\ fired' = {i \in DOMAIN timers : fires(i)}

-----------------------------------------------------------------------------
(* main: the timers are added before the loop runs.                        *)

Setup ==
  /\ phase = "setup" /\ Len(timers) < Len(Intervals)
  /\ timers' = timer_add(timers, Intervals[Len(timers) + 1], now)
  /\ last' = Append(last, now)
  /\ UNCHANGED <<phase, running, now, timeout, signalled, fired>>

(* The clock moves on while the process is in a phase whose steps the      *)
(* model does not divide: start-up, and the callbacks of a batch.          *)
Pass(from, to) ==
  /\ phase = from
  /\ now' \in now..Min({now + MaxPause, MaxTime})
  /\ phase' = to

event_loop_run ==
  /\ Pass("setup", "top") /\ Len(timers) = Len(Intervals)
  /\ running' = TRUE
  /\ UNCHANGED <<timers, timeout, signalled, last, fired>>

\* Mutant: the loop does not test loop->running.
LoopForever ==
  /\ phase = "top" /\ phase' = "wait"
  /\ timeout' = timer_next_timeout_ms(timers, now)
  /\ fired' = {}
  /\ UNCHANGED <<running, timers, now, signalled, last>>

LoopTest ==
  /\ phase = "top"
  /\ \/ /\ running /\ phase' = "wait"
        /\ timeout' = timer_next_timeout_ms(timers, now)
     \/ /\ ~running /\ phase' = "stopped"
        /\ UNCHANGED timeout
  /\ fired' = {}
  /\ UNCHANGED <<running, timers, now, signalled, last>>

(* epoll_wait returns events at any time before the timeout, or nothing    *)
(* once it has passed, and at most MaxPause late.                          *)
epoll_wait ==
  /\ phase = "wait"
  /\ now' \in now..Min({now + timeout * NS_PER_MS + MaxPause, MaxTime})
  /\ phase' = "dispatch"
  /\ UNCHANGED <<running, timers, timeout, signalled, last, fired>>

\* Mutant: the loop goes straight back to epoll_wait after the callbacks.
DispatchOnly ==
  /\ Pass("dispatch", "top")
  /\ UNCHANGED <<running, timers, timeout, signalled, last, fired>>

Dispatch ==
  /\ Pass("dispatch", "timers")
  /\ UNCHANGED <<running, timers, timeout, signalled, last, fired>>

TimersExpired ==
  /\ phase = "timers"
  /\ \E at \in [DOMAIN timers -> now..Min({now + MaxPause, MaxTime})] :
       /\ \A i, j \in DOMAIN timers : i < j => at[i] <= at[j]
       /\ timer_process_expired(at)
       /\ now' = Max({now} \cup {at[i] : i \in DOMAIN timers})
  /\ phase' = "top"
  /\ UNCHANGED <<running, timeout, signalled>>

(* A signal only sets the flag.  One that is delivered while the process   *)
(* sleeps also ends epoll_wait, with EINTR, and the timers are not served. *)
on_signal ==
  /\ phase # "stopped" /\ ~signalled
  /\ running' = FALSE
  /\ signalled' = (phase # "setup")
  /\ \/ phase = "wait" /\ phase' = "top"
     \/ UNCHANGED phase
  /\ UNCHANGED <<timers, now, timeout, last, fired>>

Init ==
  /\ phase = "setup" /\ running = FALSE
  /\ timers = <<>> /\ last = <<>> /\ now = 0 /\ timeout = 0
  /\ signalled = FALSE /\ fired = {}

Next == Setup \/ event_loop_run \/ LoopTest \/ epoll_wait \/ Dispatch
        \/ TimersExpired \/ on_signal

Spec == Init /\ [][Next]_vars

(* The process goes on: epoll_wait returns, callbacks return.              *)
FairSpec ==
  Spec /\ WF_vars(LoopTest \/ epoll_wait \/ Dispatch \/ TimersExpired)

-----------------------------------------------------------------------------
Ticks(ts) == ts.tv_sec * NS_PER_S + ts.tv_nsec
Millisecond == NS_PER_MS

TypeOK ==
  /\ phase \in {"setup", "top", "wait", "dispatch", "timers", "stopped"}
  /\ running \in BOOLEAN /\ signalled \in BOOLEAN
  /\ now \in 0..MaxTime /\ timeout \in 0..DEFAULT_MS
  /\ Len(timers) <= Len(Intervals) /\ Len(last) = Len(timers)
  /\ \A i \in DOMAIN timers : timers[i].next_fire.tv_nsec \in 0..NS_PER_S - 1

(* The timeout that timer_next_timeout_ms gives to epoll_wait never lets   *)
(* the loop sleep a full millisecond past the time of any timer, although  *)
(* timespec_diff_ms rounds seconds and nanoseconds apart and towards zero, *)
(* and it is never longer than the default.                                *)
NoOversleep ==
  phase = "wait" =>
    /\ timeout <= DEFAULT_MS
    /\ \A i \in DOMAIN timers :
         timeout = 0 \/ now + timeout * NS_PER_MS
                          < Ticks(timers[i].next_fire) + Millisecond

(* timer_process_expired calls a timer at most once per period, less the   *)
(* millisecond that the rounding may take off, also after a late call: a   *)
(* delayed timer does not fire in a burst to catch up.                     *)
NoBurst ==
  [][\A i \in DOMAIN timers :
       last'[i] # last[i] =>
         now > last[i] + (timers[i].interval_ms - 1) * NS_PER_MS]_vars

(* A timer that is due is served however busy the sockets are: its         *)
(* callback runs after the current batch of events.                        *)
TimersServed ==
  \A i \in 1..Len(Intervals) :
    (phase = "wait" /\ Due(timers[i], now)) ~> (i \in fired \/ signalled)

(* A signal that reaches the running loop stops it; one that is delivered  *)
(* before event_loop_run sets the flag is forgotten.                       *)
SignalStops == signalled ~> phase = "stopped"
=============================================================================
