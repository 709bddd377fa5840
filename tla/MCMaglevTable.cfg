SPECIFICATION MSpec
CONSTANTS
  Size = 11
  MaxSlots = 4
  Repetitions = 2
  SeedStride = 10
  Probes = 2
  MaskBits = 4
  FlowMod = 13
  NoBackend = NoBackend
  Pods = {1, 2, 3, 4, 5, 6}
  ServiceLists <- SmallServices
  Hashes <- LinearHashes
INVARIANTS
  WeightsHonoured
  EarliestClaims
  SelectsFirstHealthy
