\* No fault, no crash, patient clients: an interleaving is enough.
SPECIFICATION Spec
CONSTANTS
  c1 = c1
  c2 = c2
  c3 = c3
  None = None
  Clients <- TwoClients
  Spelling <- OneSpelling
  Impatient = {}
  MaxFaults = 0
  MaxCrashes = 0
INVARIANTS
  OneActiveJob
CHECK_DEADLOCK FALSE
