\* Two fetches, two articles, two requests of a longer stage, requests of 0 or 30 seconds.
SPECIFICATION FairSpec
CONSTANTS
  f1 = f1
  f2 = f2
  Fetches = {f1, f2}
  Visits <- AnyAndDergiPark
  Limit = 2
  PageCap = 2
  SetCap = 2
  Latencies = {0, 30}
  Samples <- FewRecords
  Pages <- TwoPages
  Frozen = {"openalex", "pubmed"}
INVARIANTS
  TypeOK
  EmptyIsAnswered
  FoundIsReturned
  ThrottledFeedIsFinal
  VerdictsFollowRecords
PROPERTIES
  FetchEnds
