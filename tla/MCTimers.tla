------------------------------ MODULE MCTimers ------------------------------
(* Two timers whose periods are not multiples of each other; sharegres has *)
(* one, of 30 s, and a queue for MAX_TIMERS.                               *)
EXTENDS Timers

IntervalPair == <<3, 5>>
=============================================================================
