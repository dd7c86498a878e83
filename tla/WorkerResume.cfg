\* No fault: two interrupted attempts are enough.
SPECIFICATION Spec
CONSTANTS
  N = 2
  Tasks = {t1, t2}
  MaxAttempts = 3
  MaxFaults = 0
  MaxStops = 2
SYMMETRY TaskSymmetry
INVARIANTS
  ResumedScanContinues
CHECK_DEADLOCK FALSE
