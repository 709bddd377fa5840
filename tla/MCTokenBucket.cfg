CONSTANTS
  Callers = {t1, t2, t3}
  Capacity = 3
  Rate = 1
  Cost = 2
  ClockMod = 4
  MaxTime = 5
SPECIFICATION BucketSpec
SYMMETRY Symmetry
INVARIANTS FreshAdmissionBound NeverUnderfilled
