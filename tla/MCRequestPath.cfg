SPECIFICATION Spec
CONSTANTS
  Threshold = 1
  HalfOpenMax = 1
  CounterMod = 4
  Tasks = {t1, t2}
  Backends = {b1}
  Burst = 1
  MaxRetries = 1
  Options <- SomeOptions
INVARIANTS
  
  SendsBounded
  OpenShedsLoad
PROPERTY
  TimedRequestsEnd
