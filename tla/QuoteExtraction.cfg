\* Two attempts, a published article and a preprint, one slot; a fault, a
\* cancellation and a crash.
SPECIFICATION FairSpec
CONSTANTS
  Runs = {r1, r2}
  Articles = {a1, p1}
  Published = {a1}
  None = None
  Concurrency = 1
  MaxFaults = 1
  MaxCancels = 1
  MaxCrashes = 1
INVARIANTS
  FrozenIsBacked
  GoroutinesAreAwaited
  ClaimsExclude
PROPERTIES
  ClaimsResolve
  DoneStays
  EnrichEnds
CHECK_DEADLOCK FALSE
