\* Two visits over and over, two sources, reports of one article by Europe PMC
\* and arXiv, and a file of it from the first.
SPECIFICATION Spec
CONSTANTS
  v1 = v1
  v2 = v2
  k1 = k1
  k2 = k2
  None = None
  Visits = {v1, v2}
  Keys = {k1, k2}
  Kind <- TwoKinds
  Reports <- FewReports
  Rewritten <- OneText
  Frozen = {k1}
  MaxJournals = 1
SYMMETRY VisitSymmetry
INVARIANTS
  CircuitFollowsRuns
  VerdictIsCurrent
PROPERTIES
  RetractionSticks
