CONSTANTS
  Threads = {t1, t2}
  Threshold = 3
  HalfOpenMax = 2
  CounterMod = 3
  Timeout = 1
  MayAbandon = TRUE
SPECIFICATION MSpec
INVARIANTS ProbeLimit TripsAtThreshold
PROPERTIES OpensOnStreak AtomicTransitions 
