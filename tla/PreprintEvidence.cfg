\* Two visits of Europe PMC, which reports a preprint.
SPECIFICATION Spec
CONSTANTS
  v1 = v1
  v2 = v2
  k1 = k1
  k2 = k2
  None = None
  Visits = {v1, v2}
  Keys = {k1}
  Kind <- IndexKind
  Reports <- OnlyPreprints
  Rewritten <- OneText
  Frozen = {}
  MaxJournals = 1
SYMMETRY VisitSymmetry
INVARIANTS
  PreprintsAreNotReviewed
