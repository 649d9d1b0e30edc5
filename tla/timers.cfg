CONSTANTS
 NS_PER_MS = 3
 MS_PER_S = 4
 DEFAULT_MS = 4
 MAX_TIMERS = 2
 Intervals <- IntervalPair
 MaxPause = 4
 MaxTime = 26
SPECIFICATION FairSpec
INVARIANTS TypeOK NoOversleep
PROPERTIES NoBurst TimersServed SignalStops
CHECK_DEADLOCK FALSE
