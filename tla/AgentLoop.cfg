\* Two goroutines, two turns with tools, a tick between starts of requests.
SPECIFICATION Spec
CONSTANTS
  g1 = g1
  g2 = g2
  None = None
  Workers = {g1, g2}
  MaxAttempts = 1
  MaxOverloadAttempts = 2
  MaxTurnRetries = 1
  MaxToolTurns = 1
  MaxImages = 1
  MaxPages = 1
  MaxQuotes = 1
  Addressed = {g1}
  Interval = 2
  Contents <- FewContents
  MaxCalls = 1
INVARIANTS
  TypeOK
  NoImageIsReplaced
PROPERTIES
  StartsAreSpaced
  ImplementsBoundedCall
  ExtractionEnds
