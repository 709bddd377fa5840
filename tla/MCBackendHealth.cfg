CONSTANTS
  Backends = {b1, b2}
  Drainable = {b1}
  Tasks = {t1, t2}
  WindowSize = 2
  DrainTimeout = 1
  MaxTime = 1
SPECIFICATION Spec
SYMMETRY Symmetry
INVARIANTS ErrorsNotInvented SerialWritesKept ExcludedForGood
