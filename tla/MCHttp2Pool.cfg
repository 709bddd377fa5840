CONSTANTS
  Tasks = {t1, t2}
  MaxConns = 3
  DegradeAt = 2
  OpenAt = 4
  RecoverAfter = 1
SPECIFICATION FairSpec
PROPERTIES  OpenCircuitRetries LockServed
