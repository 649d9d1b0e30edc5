----------------------------- MODULE TimerProofs -----------------------------
(***************************************************************************)
(* Theorems about the timer queue, for every unit of the clock, every      *)
(* number of timers and every delay of a callback.  The heart is one fact  *)
(* of arithmetic: timespec_diff_ms, which divides seconds and nanoseconds  *)
(* apart, is off by less than a millisecond in either direction.           *)
(***************************************************************************)
EXTENDS Timers, WellFoundedInduction, TLAPS

Timespec == [tv_sec : Nat, tv_nsec : Nat]
Timer == [interval_ms : Nat \ {0}, next_fire : Timespec]

-----------------------------------------------------------------------------
\* The units are positive.
LEMMA Units ==
  /\ NS_PER_MS \in Nat \ {0} /\ MS_PER_S \in Nat \ {0} /\ DEFAULT_MS \in Nat \ {0}
  /\ NS_PER_S \in Nat \ {0} /\ MAX_TIMERS \in Nat
<1>1. NS_PER_MS \in Nat \ {0} /\ MS_PER_S \in Nat \ {0} /\ DEFAULT_MS \in Nat \ {0}
  BY TimersAssumption
<1>2. \A a, b \in Nat \ {0} : a * b \in Nat \ {0}
  OBVIOUS
<1> QED
  BY <1>1, <1>2, TimersAssumption DEF NS_PER_S

\* Division and remainder by a positive number.
LEMMA Division ==
  ASSUME NEW t \in Nat, NEW n \in Nat \ {0}
  PROVE  /\ t \div n \in Nat /\ t % n \in Nat
         /\ t = (t \div n) * n + (t % n)
         /\ (t \div n) * n <= t /\ t < (t \div n) * n + n
OBVIOUS

\* A timespec of the clock counts the clock's ticks.
LEMMA ClockTicks ==
  ASSUME NEW t \in Nat
  PROVE  clock_gettime(t) \in Timespec /\ Ticks(clock_gettime(t)) = t
BY Units, Division DEF clock_gettime, Ticks, Timespec

\* timespec_add_ms adds the milliseconds, whatever it carries.
LEMMA AddTicks ==
  ASSUME NEW ts \in Timespec, NEW ms \in Nat
  PROVE  /\ timespec_add_ms(ts, ms) \in Timespec
         /\ Ticks(timespec_add_ms(ts, ms)) = Ticks(ts) + ms * NS_PER_MS
<1>1. PICK nsec : nsec = ts.tv_nsec + ms * NS_PER_MS
  OBVIOUS
<1>2. ts.tv_sec \in Nat /\ ts.tv_nsec \in Nat
  BY DEF Timespec
<1>3. ms * NS_PER_MS \in Nat
  BY Units
<1>4. nsec \in Nat
  BY <1>1, <1>2, <1>3
<1>5. PICK d, m : d = nsec \div NS_PER_S /\ m = nsec % NS_PER_S
  OBVIOUS
<1>6. d \in Nat /\ m \in Nat /\ nsec = d * NS_PER_S + m
  BY <1>4, <1>5, Units, Division
<1>7. timespec_add_ms(ts, ms) = [tv_sec |-> ts.tv_sec + d, tv_nsec |-> m]
  BY <1>1, <1>5 DEF timespec_add_ms
<1>8. (ts.tv_sec + d) * NS_PER_S + m = ts.tv_sec * NS_PER_S + ts.tv_nsec + ms * NS_PER_MS
  <2>1. \A a, b, c \in Nat : (a + b) * c = a * c + b * c
    OBVIOUS
  <2>2. (ts.tv_sec + d) * NS_PER_S = ts.tv_sec * NS_PER_S + d * NS_PER_S
    BY <1>2, <1>6, <2>1, Units
  <2>3. ts.tv_sec * NS_PER_S \in Nat /\ d * NS_PER_S \in Nat
    BY <1>2, <1>6, Units
  <2> QED
    BY ONLY <1>1, <1>2, <1>3, <1>6, <2>2, <2>3
<1> QED
  BY <1>2, <1>6, <1>7, <1>8 DEF Timespec, Ticks

\* C's division is off by less than one in either direction.
LEMMA QuotientClose ==
  ASSUME NEW a \in Int, NEW n \in Nat \ {0}
  PROVE  /\ Quotient(a, n) \in Int
         /\ a - n < Quotient(a, n) * n /\ Quotient(a, n) * n < a + n
<1>1. CASE a >= 0
  <2>1. PICK d : d = a \div n
    OBVIOUS
  <2>2. d \in Nat /\ d * n <= a /\ a < d * n + n
    BY <1>1, <2>1, Division
  <2>3. d * n \in Nat
    BY <2>2
  <2>4. Quotient(a, n) = d
    BY <1>1, <2>1 DEF Quotient
  <2> QED
    BY ONLY a \in Int, n \in Nat \ {0}, <2>2, <2>3, <2>4
<1>2. CASE ~(a >= 0)
  <2>1. PICK d : d = (-a) \div n
    OBVIOUS
  <2>2. d \in Nat /\ d * n <= -a /\ -a < d * n + n
    BY <1>2, <2>1, Division
  <2>3. d * n \in Nat /\ (-d) * n = -(d * n)
    BY <2>2
  <2>4. Quotient(a, n) = -d
    BY <1>2, <2>1 DEF Quotient
  <2> QED
    BY ONLY a \in Int, n \in Nat \ {0}, <2>2, <2>3, <2>4
<1> QED
  BY <1>1, <1>2

\* timespec_diff_ms is off by less than a millisecond in either direction.
LEMMA DiffClose ==
  ASSUME NEW a \in Timespec, NEW b \in Timespec
  PROVE  /\ timespec_diff_ms(a, b) \in Int
         /\ Ticks(a) - Ticks(b) - NS_PER_MS < timespec_diff_ms(a, b) * NS_PER_MS
         /\ timespec_diff_ms(a, b) * NS_PER_MS < Ticks(a) - Ticks(b) + NS_PER_MS
<1>1. /\ a.tv_sec \in Nat /\ a.tv_nsec \in Nat
      /\ b.tv_sec \in Nat /\ b.tv_nsec \in Nat
  BY DEF Timespec
<1>2. PICK s, r, q : /\ s = a.tv_sec - b.tv_sec /\ r = a.tv_nsec - b.tv_nsec
                     /\ q = Quotient(r, NS_PER_MS)
  OBVIOUS
<1>3. s \in Int /\ r \in Int
  BY <1>1, <1>2
<1>4. q \in Int /\ r - NS_PER_MS < q * NS_PER_MS /\ q * NS_PER_MS < r + NS_PER_MS
  BY <1>2, <1>3, Units, QuotientClose
<1>5. timespec_diff_ms(a, b) = s * MS_PER_S + q
  BY <1>2 DEF timespec_diff_ms
<1>6. (s * MS_PER_S + q) * NS_PER_MS = s * NS_PER_S + q * NS_PER_MS
  <2>1. \A x, y, z, w \in Int : (x * y + z) * w = x * (w * y) + z * w
    OBVIOUS
  <2> QED
    BY <1>3, <1>4, <2>1, Units DEF NS_PER_S
<1>7. Ticks(a) - Ticks(b) = s * NS_PER_S + r
  <2>1. \A x, y, n \in Int : (x - y) * n = x * n - y * n
    OBVIOUS
  <2>2. s * NS_PER_S = a.tv_sec * NS_PER_S - b.tv_sec * NS_PER_S
    BY <1>1, <1>2, <2>1, Units
  <2>3. a.tv_sec * NS_PER_S \in Nat /\ b.tv_sec * NS_PER_S \in Nat
    BY <1>1, Units
  <2> QED
    BY ONLY <1>1, <1>2, <2>2, <2>3 DEF Ticks
<1>8. /\ s * NS_PER_S \in Int /\ q * NS_PER_MS \in Int /\ s * MS_PER_S + q \in Int
      /\ NS_PER_MS \in Int
  BY <1>3, <1>4, Units
<1> QED
  BY ONLY <1>3, <1>4, <1>5, <1>6, <1>7, <1>8
-----------------------------------------------------------------------------
\* A set of naturals that is not empty has a least element.
LEMMA LeastNat ==
  ASSUME NEW S \in SUBSET Nat, S # {}
  PROVE  \E x \in S : \A y \in S : x <= y
<1>1. PICK x \in S : \A y \in S : ~(<<y, x>> \in OpToRel(<, Nat))
  BY NatLessThanWellFounded, WFMin, Zenon
<1>2. ASSUME NEW y \in S PROVE x <= y
  <2>1. ~(<<y, x>> \in {p \in Nat \X Nat : p[1] < p[2]})
    BY <1>1 DEF OpToRel
  <2> QED
    BY <2>1
<1> QED
  BY <1>2

\* Hence Min of one is one of them and the least.
LEMMA MinFacts ==
  ASSUME NEW S \in SUBSET Nat, S # {}
  PROVE  Min(S) \in S /\ \A y \in S : Min(S) <= y
<1>1. \E x \in S : \A y \in S : x <= y
  BY LeastNat
<1> QED
  BY <1>1 DEF Min

\* And Max of one that has an upper bound is one of them.
LEMMA MaxFacts ==
  ASSUME NEW S \in SUBSET Nat, S # {}, NEW b \in Nat, \A x \in S : x <= b
  PROVE  Max(S) \in S
<1> DEFINE T == {b - x : x \in S}
<1>1. T \in SUBSET Nat /\ T # {}
  <2>1. \A x \in S : x \in Nat /\ x <= b
    OBVIOUS
  <2>2. \A x \in S : b - x \in Nat
    BY <2>1
  <2>3. PICK z : z \in S
    OBVIOUS
  <2>4. b - z \in T
    BY <2>3
  <2> QED
    BY ONLY <2>2, <2>4
<1>2. PICK l \in T : \A y \in T : l <= y
  BY <1>1, LeastNat
<1>3. PICK x \in S : l = b - x
  OBVIOUS
<1>4. \A y \in S : x >= y
  <2>1. ASSUME NEW y \in S PROVE x >= y
    <3>1. b - y \in T
      OBVIOUS
    <3>2. l <= b - y
      BY <1>2, <3>1
    <3> QED
      BY ONLY <1>3, <3>2, x \in Nat, y \in Nat, b \in Nat
  <2> QED
    BY <2>1
<1> QED
  BY <1>4 DEF Max

\* timer_next_timeout_ms: a timer is due and it is 0, or it is positive, at
\* most the default and at most what remains of any timer.
LEMMA NextTimeout ==
  ASSUME NEW tq \in Seq(Timer), NEW t \in Nat
  PROVE  /\ timer_next_timeout_ms(tq, t) \in 0..DEFAULT_MS
         /\ timer_next_timeout_ms(tq, t) # 0 =>
              \A i \in DOMAIN tq : timer_next_timeout_ms(tq, t) <= Remaining(tq[i], t)
<1>1. CASE \E i \in DOMAIN tq : Due(tq[i], t)
  BY <1>1, Units DEF timer_next_timeout_ms
<1>2. CASE ~(\E i \in DOMAIN tq : Due(tq[i], t))
  <2> DEFINE S == {DEFAULT_MS} \cup {Remaining(tq[i], t) : i \in DOMAIN tq}
  <2>1. \A i \in DOMAIN tq : Remaining(tq[i], t) \in Nat
    <3>1. ASSUME NEW i \in DOMAIN tq PROVE Remaining(tq[i], t) \in Nat
      <4>1. tq[i].next_fire \in Timespec
        <5>1. tq[i] \in Timer
          OBVIOUS
        <5> QED
          BY <5>1 DEF Timer
      <4>2. Remaining(tq[i], t) \in Int
        <5>1. clock_gettime(t) \in Timespec
          BY ClockTicks
        <5> QED
          BY <4>1, <5>1, DiffClose, Zenon DEF Remaining
      <4>3. ~(Remaining(tq[i], t) <= 0)
        BY <1>2 DEF Due
      <4> QED
        BY ONLY <4>2, <4>3
    <3> QED
      BY <3>1
  <2>2. S \in SUBSET Nat /\ S # {} /\ DEFAULT_MS \in S
    BY <2>1, Units
  <2>3. Min(S) \in S /\ \A y \in S : Min(S) <= y
    BY <2>2, MinFacts
  <2>4. timer_next_timeout_ms(tq, t) = Min(S)
    BY <1>2 DEF timer_next_timeout_ms
  <2>5. \A i \in DOMAIN tq : Remaining(tq[i], t) \in S
    OBVIOUS
  <2>6. Min(S) \in Nat /\ Min(S) <= DEFAULT_MS
    BY <2>2, <2>3
  <2>7. \A i \in DOMAIN tq : Min(S) <= Remaining(tq[i], t)
    BY <2>3, <2>5
  <2> HIDE DEF S
  <2> QED
    BY ONLY <2>4, <2>6, <2>7, Units
<1> QED
  BY <1>1, <1>2

-----------------------------------------------------------------------------
(* The inductive invariant: every timer fires a period after it was last   *)
(* set, and the timeout of a sleep is the one computed before it.          *)
Queue ==
  /\ timers \in Seq(Timer) /\ last \in Seq(Nat) /\ Len(last) = Len(timers)
  /\ \A i \in DOMAIN timers :
       Ticks(timers[i].next_fire) = last[i] + timers[i].interval_ms * NS_PER_MS

Clocked ==
  /\ now \in Nat
  /\ timeout \in 0..DEFAULT_MS
  /\ phase = "wait" => timeout = timer_next_timeout_ms(timers, now)

Ticking == Queue /\ Clocked

\* A clock reading of a step is a natural number.
LEMMA Readings ==
  ASSUME NEW a \in Nat, NEW b \in Nat
  PROVE  Min({a, b}) \in Nat /\ \A t \in now..Min({a, b}) : now \in Nat => t \in Nat
<1>1. {a, b} \in SUBSET Nat /\ {a, b} # {}
  OBVIOUS
<1>2. Min({a, b}) \in {a, b}
  BY <1>1, MinFacts, Zenon
<1> QED
  BY <1>2

\* A timer set at time t fires its period later.
LEMMA SetTimer ==
  ASSUME NEW t \in Nat, NEW ms \in Nat
  PROVE  /\ timespec_add_ms(clock_gettime(t), ms) \in Timespec
         /\ Ticks(timespec_add_ms(clock_gettime(t), ms)) = t + ms * NS_PER_MS
<1>1. clock_gettime(t) \in Timespec /\ Ticks(clock_gettime(t)) = t
  BY ClockTicks
<1>2. /\ timespec_add_ms(clock_gettime(t), ms) \in Timespec
      /\ Ticks(timespec_add_ms(clock_gettime(t), ms))
           = Ticks(clock_gettime(t)) + ms * NS_PER_MS
  BY <1>1, AddTicks, Zenon
<1> QED
  BY <1>1, <1>2

\* main adds a timer.
LEMMA SetupTicking ==
  ASSUME Ticking, Setup
  PROVE  Ticking'
<1>1. PICK ms : ms = Intervals[Len(timers) + 1]
  OBVIOUS
<1>2. /\ timers \in Seq(Timer) /\ last \in Seq(Nat) /\ Len(last) = Len(timers)
      /\ now \in Nat /\ now' = now /\ timeout' = timeout /\ phase' = "setup"
      /\ Len(timers) < Len(Intervals) /\ last' = Append(last, now)
      /\ timers' = timer_add(timers, ms, now)
  BY <1>1 DEF Ticking, Queue, Clocked, Setup
<1>3. ms \in Nat \ {0} /\ Len(timers) < MAX_TIMERS
  BY <1>1, <1>2, TimersAssumption
<1>4. PICK e : e = [interval_ms |-> ms,
                    next_fire |-> timespec_add_ms(clock_gettime(now), ms)]
  OBVIOUS
<1>5. /\ e \in Timer /\ e.interval_ms = ms
      /\ Ticks(e.next_fire) = now + ms * NS_PER_MS
  <2>1. PICK ts \in Timespec : /\ ts = timespec_add_ms(clock_gettime(now), ms)
                               /\ Ticks(ts) = now + ms * NS_PER_MS
    BY <1>2, <1>3, SetTimer
  <2> QED
    BY ONLY <1>3, <1>4, <2>1 DEF Timer
<1>6. timers' = Append(timers, e)
  BY <1>2, <1>3, <1>4, Units DEF timer_add
<1>7. PICK n \in Nat : n = Len(timers)
  BY <1>2
<1>8. /\ timers' \in Seq(Timer) /\ last' \in Seq(Nat)
      /\ Len(timers') = n + 1 /\ Len(last') = n + 1
      /\ timers'[n + 1] = e /\ last'[n + 1] = now
      /\ \A i \in DOMAIN timers' : \/ i = n + 1
                                   \/ /\ i \in DOMAIN timers
                                      /\ timers'[i] = timers[i] /\ last'[i] = last[i]
  BY ONLY <1>2, <1>5, <1>6, <1>7
<1>9. \A i \in DOMAIN timers :
        Ticks(timers[i].next_fire) = last[i] + timers[i].interval_ms * NS_PER_MS
  BY DEF Ticking, Queue
<1>10. Queue'
  BY ONLY <1>5, <1>8, <1>9 DEF Queue, Ticks
<1>11. Clocked'
  BY <1>2 DEF Ticking, Clocked
<1> QED
  BY <1>10, <1>11 DEF Ticking

\* The timers that are due are called and set again.
LEMMA ExpiredTicking ==
  ASSUME Ticking, TimersExpired
  PROVE  Ticking'
<1>1. PICK at \in [DOMAIN timers -> now..Min({now + MaxPause, MaxTime})] :
        /\ timer_process_expired(at)
        /\ now' = Max({now} \cup {at[i] : i \in DOMAIN timers})
  BY DEF TimersExpired
<1>2. /\ timers \in Seq(Timer) /\ last \in Seq(Nat) /\ Len(last) = Len(timers)
      /\ now \in Nat /\ timeout' = timeout /\ phase' = "top"
      /\ timeout \in 0..DEFAULT_MS
  BY DEF Ticking, Queue, Clocked, TimersExpired
<1>3. now + MaxPause \in Nat /\ MaxTime \in Nat
  BY <1>2, TimersAssumption
<1>4. PICK b \in Nat : b = Min({now + MaxPause, MaxTime})
  BY <1>3, Readings
<1>5. \A i \in DOMAIN timers : at[i] \in Nat /\ at[i] <= b
  <2>1. \A i \in DOMAIN timers : at[i] \in now..b
    BY <1>1, <1>4
  <2> QED
    BY ONLY <1>2, <2>1, b \in Nat
<1>6. now' \in Nat
  <2>1. PICK S : S = {now} \cup {at[i] : i \in DOMAIN timers}
    OBVIOUS
  <2>2. S \in SUBSET Nat /\ S # {}
    BY <1>2, <1>5, <2>1
  <2>3. \A x \in S : x <= now + b
    BY <1>2, <1>5, <2>1
  <2>4. now + b \in Nat
    BY <1>2
  <2>5. Max(S) \in S
    BY <2>2, <2>3, <2>4, MaxFacts, Zenon
  <2> QED
    BY ONLY <1>1, <2>1, <2>2, <2>5
<1>7. /\ timers' = [i \in DOMAIN timers |->
                      IF Due(timers[i], now) THEN Reschedule(timers[i], at[i])
                      ELSE timers[i]]
      /\ last' = [i \in DOMAIN timers |->
                    IF Due(timers[i], now) THEN at[i] ELSE last[i]]
  BY <1>1 DEF timer_process_expired
<1>8. ASSUME NEW i \in DOMAIN timers
      PROVE  /\ timers[i] \in Timer /\ last[i] \in Nat
             /\ Reschedule(timers[i], at[i]) \in Timer
             /\ Ticks(Reschedule(timers[i], at[i]).next_fire)
                  = at[i] + Reschedule(timers[i], at[i]).interval_ms * NS_PER_MS
  <2>1. timers[i] \in Timer /\ last[i] \in Nat
    BY <1>2
  <2>2. timers[i].interval_ms \in Nat \ {0}
    BY <2>1 DEF Timer
  <2>3. PICK ts \in Timespec :
          /\ ts = timespec_add_ms(clock_gettime(at[i]), timers[i].interval_ms)
          /\ Ticks(ts) = at[i] + timers[i].interval_ms * NS_PER_MS
    BY <1>5, <2>2, SetTimer
  <2>4. Reschedule(timers[i], at[i]) = [timers[i] EXCEPT !.next_fire = ts]
    BY <2>3 DEF Reschedule
  <2> QED
    BY ONLY <2>1, <2>3, <2>4 DEF Timer
<1>9. PICK n \in Nat : n = Len(timers)
  BY <1>2
<1>10. DOMAIN timers = 1..n
  BY <1>2, <1>9
<1>11. /\ timers' \in Seq(Timer) /\ last' \in Seq(Nat)
       /\ Len(timers') = n /\ Len(last') = n /\ DOMAIN timers' = 1..n
  <2>1. timers' \in [1..n -> Timer] /\ last' \in [1..n -> Nat]
    BY ONLY <1>5, <1>7, <1>8, <1>10
  <2> QED
    BY ONLY <2>1, n \in Nat
<1>12. \A i \in DOMAIN timers :
         Ticks(timers[i].next_fire) = last[i] + timers[i].interval_ms * NS_PER_MS
  BY DEF Ticking, Queue
<1>13. \A i \in 1..n :
         Ticks(timers'[i].next_fire) = last'[i] + timers'[i].interval_ms * NS_PER_MS
  BY ONLY <1>7, <1>8, <1>10, <1>12
<1>14. Queue'
  BY ONLY <1>11, <1>13 DEF Queue, Ticks
<1>15. Clocked'
  BY <1>2, <1>6 DEF Clocked
<1> QED
  BY <1>14, <1>15 DEF Ticking

\* At the start there is no timer.
LEMMA InitTicking == Init => Ticking
<1>1. 0 \in 0..DEFAULT_MS
  BY Units
<1> QED
  BY <1>1 DEF Init, Ticking, Queue, Clocked

\* Every step of the loop keeps the invariant.
LEMMA NextTicking ==
  ASSUME Ticking, [Next]_vars
  PROVE  Ticking'
<1>0. /\ now \in Nat /\ timers \in Seq(Timer) /\ timeout \in Nat
      /\ MaxPause \in Nat /\ MaxTime \in Nat /\ NS_PER_MS \in Nat
  BY Units, TimersAssumption DEF Ticking, Queue, Clocked
<1>1. ASSUME timers' = timers, last' = last PROVE Queue'
  BY <1>1 DEF Ticking, Queue
<1>2. ASSUME NEW from, NEW to, Pass(from, to) PROVE now' \in Nat
  <2>1. now + MaxPause \in Nat
    BY <1>0
  <2>2. now' \in now..Min({now + MaxPause, MaxTime})
    BY <1>2 DEF Pass
  <2> QED
    BY <1>0, <2>1, <2>2, Readings, Zenon
<1>3. CASE event_loop_run
  BY <1>1, <1>2, <1>3 DEF event_loop_run, Pass, Ticking, Clocked
<1>4. CASE Dispatch
  BY <1>1, <1>2, <1>4 DEF Dispatch, Pass, Ticking, Clocked
<1>5. CASE epoll_wait
  <2>1. timeout * NS_PER_MS \in Nat
    BY ONLY <1>0
  <2>2. now + timeout * NS_PER_MS + MaxPause \in Nat
    BY ONLY <1>0, <2>1
  <2>3. now' \in now..Min({now + timeout * NS_PER_MS + MaxPause, MaxTime})
    BY <1>5 DEF epoll_wait
  <2>4. now' \in Nat
    BY <1>0, <2>2, <2>3, Readings, Zenon
  <2> QED
    BY <1>1, <1>5, <2>4 DEF epoll_wait, Ticking, Clocked
<1>6. CASE LoopTest
  <2>1. timer_next_timeout_ms(timers, now) \in 0..DEFAULT_MS
    BY <1>0, NextTimeout
  <2>2. /\ now' = now /\ timers' = timers /\ last' = last
        /\ \/ timeout' = timer_next_timeout_ms(timers, now)
           \/ timeout' = timeout /\ phase' = "stopped"
    BY <1>6 DEF LoopTest
  <2>3. Clocked'
    BY ONLY <1>0, <2>1, <2>2, Ticking DEF Ticking, Clocked
  <2> QED
    BY <1>1, <2>2, <2>3 DEF Ticking
<1>7. CASE on_signal
  <2>1. /\ now' = now /\ timers' = timers /\ last' = last /\ timeout' = timeout
        /\ phase' = "top" \/ phase' = phase
    BY <1>7 DEF on_signal
  <2> QED
    BY <1>1, <2>1 DEF Ticking, Clocked
<1>8. CASE UNCHANGED vars
  BY <1>1, <1>8 DEF vars, Ticking, Clocked
<1> QED
  BY <1>3, <1>4, <1>5, <1>6, <1>7, <1>8, SetupTicking, ExpiredTicking DEF Next

\* What remains of a timer, in ticks, is known up to a millisecond.
LEMMA RemainingClose ==
  ASSUME Ticking, NEW i \in DOMAIN timers
  PROVE  /\ Remaining(timers[i], now) \in Int /\ Ticks(timers[i].next_fire) \in Int
         /\ Ticks(timers[i].next_fire) - now - NS_PER_MS
              < Remaining(timers[i], now) * NS_PER_MS
         /\ Remaining(timers[i], now) * NS_PER_MS
              < Ticks(timers[i].next_fire) - now + NS_PER_MS
<1>1. timers[i] \in Timer /\ now \in Nat
  BY DEF Ticking, Queue, Clocked
<1>2. PICK ts \in Timespec : ts = timers[i].next_fire
  BY <1>1 DEF Timer
<1>3. PICK c \in Timespec : c = clock_gettime(now) /\ Ticks(c) = now
  BY <1>1, ClockTicks
<1>4. /\ timespec_diff_ms(ts, c) \in Int
      /\ Ticks(ts) - now - NS_PER_MS < timespec_diff_ms(ts, c) * NS_PER_MS
      /\ timespec_diff_ms(ts, c) * NS_PER_MS < Ticks(ts) - now + NS_PER_MS
  BY <1>3, DiffClose
<1>5. Ticks(ts) \in Int
  <2>1. ts.tv_sec \in Nat /\ ts.tv_nsec \in Nat
    BY DEF Timespec
  <2>2. ts.tv_sec * NS_PER_S \in Int
    BY <2>1, Units
  <2> QED
    BY <2>1, <2>2 DEF Ticks
<1> QED
  BY <1>2, <1>3, <1>4, <1>5 DEF Remaining

\* timer_next_timeout_ms never lets the loop sleep a millisecond past a timer.
LEMMA TickingNoOversleep ==
  ASSUME Ticking
  PROVE  NoOversleep
<1> SUFFICES ASSUME phase = "wait", timeout # 0, NEW i \in DOMAIN timers
             PROVE  now + timeout * NS_PER_MS < Ticks(timers[i].next_fire) + NS_PER_MS
  BY Units DEF NoOversleep, Ticking, Clocked, Millisecond
<1>1. /\ timers \in Seq(Timer) /\ now \in Nat /\ timeout \in Nat
      /\ timeout = timer_next_timeout_ms(timers, now)
  BY Units DEF Ticking, Queue, Clocked
<1>2. PICK r : r = Remaining(timers[i], now)
  OBVIOUS
<1>3. timeout <= r
  BY <1>1, <1>2, NextTimeout
<1>4. PICK f : f = Ticks(timers[i].next_fire)
  OBVIOUS
<1>5. r \in Int /\ f \in Int /\ r * NS_PER_MS < f - now + NS_PER_MS
  BY <1>2, <1>4, RemainingClose
<1>6. timeout * NS_PER_MS <= r * NS_PER_MS
  BY <1>1, <1>3, <1>5, Units
<1>7. timeout * NS_PER_MS \in Int /\ r * NS_PER_MS \in Int /\ NS_PER_MS \in Int
  BY <1>1, <1>5, Units
<1> QED
  BY ONLY <1>1, <1>4, <1>5, <1>6, <1>7

\* The loop never sleeps past a timer by a millisecond or more, whatever the
\* units, the timers and the delays (NoOversleep).
THEOREM Oversleeps == Spec => []NoOversleep
<1>1. Init => Ticking
  BY InitTicking
<1>2. Ticking /\ [Next]_vars => Ticking'
  BY NextTicking
<1>3. Ticking => NoOversleep
  BY TickingNoOversleep
<1> QED
  BY <1>1, <1>2, <1>3, PTL DEF Spec

\* A timer that is due was last set a period ago, up to a millisecond.
LEMMA DueLate ==
  ASSUME Ticking, NEW i \in DOMAIN timers, Due(timers[i], now)
  PROVE  now > last[i] + (timers[i].interval_ms - 1) * NS_PER_MS
<1>1. /\ now \in Nat /\ last[i] \in Nat /\ timers[i].interval_ms \in Nat
      /\ Ticks(timers[i].next_fire) = last[i] + timers[i].interval_ms * NS_PER_MS
  <2>1. timers[i] \in Timer /\ last[i] \in Nat
    BY DEF Ticking, Queue
  <2> QED
    BY <2>1 DEF Ticking, Queue, Clocked, Timer
<1>2. PICK r, p, l : r = Remaining(timers[i], now) /\ p = timers[i].interval_ms /\ l = last[i]
  OBVIOUS
<1>3. r \in Int /\ (l + p * NS_PER_MS) - now - NS_PER_MS < r * NS_PER_MS
  BY <1>1, <1>2, RemainingClose
<1>4. r * NS_PER_MS <= 0
  <2>1. \A x \in Int, n \in Nat : x <= 0 => x * n <= 0
    OBVIOUS
  <2> QED
    BY <1>2, <1>3, <2>1, Units DEF Due
<1>5. (p - 1) * NS_PER_MS = p * NS_PER_MS - NS_PER_MS
  BY <1>1, <1>2, Units
<1>6. /\ p * NS_PER_MS \in Int /\ r * NS_PER_MS \in Int /\ NS_PER_MS \in Int
      /\ l \in Int /\ now \in Int
  BY <1>1, <1>2, <1>3, Units
<1> QED
  BY ONLY <1>2, <1>3, <1>4, <1>5, <1>6

\* A timer fires at most once per period, less a millisecond, and never in a
\* burst (NoBurst), whatever the units, the timers and the delays.
THEOREM Bursts == Spec => NoBurst
<1>1. Init => Ticking
  BY InitTicking
<1>2. Ticking /\ [Next]_vars => Ticking'
  BY NextTicking
<1>3. ASSUME Ticking, [Next]_vars
      PROVE  [\A i \in DOMAIN timers :
                last'[i] # last[i] =>
                  now > last[i] + (timers[i].interval_ms - 1) * NS_PER_MS]_vars
  <2> SUFFICES ASSUME NEW i \in DOMAIN timers, last'[i] # last[i], Next
               PROVE  now > last[i] + (timers[i].interval_ms - 1) * NS_PER_MS
    BY <1>3
  <2>1. CASE TimersExpired
    <3>1. PICK at : timer_process_expired(at)
      BY <2>1 DEF TimersExpired
    <3>2. Due(timers[i], now)
      BY <3>1 DEF timer_process_expired
    <3> QED
      BY <1>3, <3>2, DueLate
  <2>2. CASE Setup
    <3>1. last' = Append(last, now) /\ last \in Seq(Nat) /\ i \in 1..Len(last)
      BY <1>3, <2>2 DEF Setup, Ticking, Queue
    <3> QED
      BY ONLY <3>1, last'[i] # last[i]
  <2>3. CASE last' = last
    BY <2>3
  <2> QED
    BY <2>1, <2>2, <2>3 DEF Next, event_loop_run, LoopTest, epoll_wait, Dispatch, on_signal
<1> QED
  BY <1>1, <1>2, <1>3, PTL DEF Spec, NoBurst
=============================================================================
