\* Three clients, one of them impatient; one fault, one crash.
SPECIFICATION FairSpec
CONSTANTS
  c1 = c1
  c2 = c2
  c3 = c3
  None = None
  Clients <- ThreeClients
  Spelling <- TwoSpellings
  Impatient = {c1}
  MaxFaults = 1
  MaxCrashes = 1
INVARIANTS
  TypeOK
  LockExcludes
  ReplyIsBacked
  AttachesToEarlier
  KeysAreManned
PROPERTIES
  RequestEnds
CHECK_DEADLOCK FALSE
