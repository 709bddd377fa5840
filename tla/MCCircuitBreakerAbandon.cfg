CONSTANTS
  Threads = {t1, t2}
  Threshold = 2
  HalfOpenMax = 2
  CounterMod = 4
  Timeout = 1
  MayAbandon = TRUE
SPECIFICATION MSpec
PROPERTY HalfOpenResolves
