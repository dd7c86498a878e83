\* Three searches, two settings of the filters, two pages, a fault.
SPECIFICATION FairSpec
CONSTANTS
  f1 = f1
  f2 = f2
  Filters = {f1, f2}
  MaxPages = 2
  MaxSearches = 3
  MaxFaults = 1
INVARIANTS
  ShownIsLatest
  FiltersApply
  PageIsShown
PROPERTIES
  SearchSettles
CHECK_DEADLOCK FALSE
