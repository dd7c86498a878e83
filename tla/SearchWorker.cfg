\* Two sources, two tasks, three attempts, two crashes or stops, one database fault.
SPECIFICATION FairSpec
CONSTANTS
  N = 2
  Tasks = {t1, t2}
  MaxAttempts = 3
  MaxFaults = 1
  MaxStops = 2
INVARIANTS
  TypeOK
  OneLiveTask
  NoLostJob
  ScanIsComplete
  UninterruptedScanIsExact
PROPERTIES
  ImplementsLifecycle
  JobEnds
CHECK_DEADLOCK FALSE
