CONSTANTS
  Loops = {l1, l2, l3}
  UnhealthyThreshold = 3
  HealthyThreshold = 2
SPECIFICATION FairSpec
PROPERTIES ChangesOnStreak StatusConverges ShutdownStops
