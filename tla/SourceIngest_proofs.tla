------------------------- MODULE SourceIngest_proofs -------------------------
(***************************************************************************)
(* Proofs about SourceIngest.  IngestInv is inductive; the invariants and  *)
(* the action properties about the article follow from it.  Nothing is     *)
(* assumed of how many visits, sources and kinds of report there are.      *)
(***************************************************************************)
EXTENDS SourceIngest, TLAPS

-----------------------------------------------------------------------------
(* The classifier.                                                         *)

\* What the classifier writes into the evidence does not change its verdict.
LEMMA StoredDecides ==
  ASSUME NEW e \in Evidence
  PROVE  /\ Stored(e) \in Evidence
         /\ Stored(e).retracted = e.retracted
         /\ Stored(e).note = (e.note \/ e.retracted)
         /\ Eligible(Stored(e)) = Eligible(e)
<1>1. /\ Stored(e) \in Evidence
      /\ Stored(e).retracted = e.retracted
      /\ Stored(e).note = (e.note \/ e.retracted)
  BY DEF Evidence, Tiers, Stored
<1>2. IsPreprint(Stored(e)) = IsPreprint(e)
  BY DEF Evidence, Tiers, Stored, IsPreprint
<1>3. PeerReviewed(Stored(e)) = PeerReviewed(e)
  BY <1>2 DEF Evidence, Tiers, Stored, PeerReviewed, PeerBasis
<1>4. Indexed(Stored(e)) = Indexed(e)
  BY DEF Evidence, Tiers, Stored, Indexed, IndexBasis
<1>5. Stored(e).doi = e.doi /\ Stored(e).card = e.card
  BY DEF Evidence, Stored
<1> QED
  BY <1>1, <1>2, <1>3, <1>4, <1>5 DEF Eligible, Decision

\* The row before the first save.
LEMMA NoArticleFields ==
  /\ ~NoArticle.stored
  /\ NoArticle.authors = "none"
  /\ ~NoArticle.evidence.retracted
<1>1. ~NoEvidence.retracted
  BY DEF NoEvidence
<1>2. ~NoArticle.stored /\ NoArticle.authors = "none" /\ NoArticle.evidence = NoEvidence
  BY DEF NoArticle
<1> QED BY <1>1, <1>2

\* TierLabel: the label of a hit, computed from the stored confidence, names
\* where the verdict on peer review came from.
THEOREM LabelNamesBasis ==
  ASSUME NEW e \in Evidence
  PROVE  TierLabel(PeerReviewed(e), Confidence(PeerBasis(e))) =
           CASE PeerBasis(e) = "tierA"   -> "A"
             [] PeerBasis(e) = "tierB"   -> "B"
             [] PeerBasis(e) = "source"  -> "source-default"
             [] PeerBasis(e) = "keyword" -> "keyword"
             [] OTHER -> "none"
<1>1. PeerBasis(e) \in {"preprint", "tierA", "tierB", "source", "keyword", "none"}
  BY DEF PeerBasis
<1>2. CASE PeerBasis(e) \in {"preprint", "none"}
  BY <1>2 DEF PeerReviewed, TierLabel
<1>3. CASE PeerBasis(e) = "tierA"
  BY <1>3 DEF PeerReviewed, TierLabel, Confidence
<1>4. CASE PeerBasis(e) = "tierB"
  BY <1>4 DEF PeerReviewed, TierLabel, Confidence
<1>5. CASE PeerBasis(e) = "source"
  BY <1>5 DEF PeerReviewed, TierLabel, Confidence
<1>6. CASE PeerBasis(e) = "keyword"
  BY <1>6 DEF PeerReviewed, TierLabel, Confidence
<1> QED BY <1>1, <1>2, <1>3, <1>4, <1>5, <1>6

\* EvaluateEligibility: an article is eligible on a confidence of at least
\* 0.65, and only on something that speaks for a peer review.
THEOREM EligibleIsConfident ==
  ASSUME NEW e \in Evidence, Eligible(e)
  PROVE  /\ OverallConfidence(e) >= 650
         /\ PeerBasis(e) \in {"tierA", "tierB", "source", "keyword"}
<1>1. /\ PeerReviewed(e) /\ Indexed(e) /\ e.doi /\ e.card /\ ~IsPreprint(e)
  BY DEF Eligible, Decision
<1>2. PeerBasis(e) \in {"tierA", "tierB", "source", "keyword"}
  BY <1>1 DEF PeerReviewed, PeerBasis
<1>3. IndexBasis(e) \in {"tierA", "tierB", "keyword"}
  BY <1>1 DEF Indexed, IndexBasis
<1>4. /\ Confidence(PeerBasis(e)) \in {300, 600, 700, 1000}
      /\ Confidence(IndexBasis(e)) \in {300, 700, 1000}
  BY <1>2, <1>3 DEF Confidence
<1>5. /\ Decision(e).peerConf = Confidence(PeerBasis(e))
      /\ Decision(e).indexConf = Confidence(IndexBasis(e))
      /\ Decision(e).cardConf = 1000
      /\ Decision(e).preprintConf = 1000
  BY <1>1 DEF Decision, Half
<1>6. \A p, i \in Int : p >= 300 /\ i >= 300 => (p + i + 1000 + 1000) \div 4 >= 650
  OBVIOUS
<1> QED BY <1>2, <1>4, <1>5, <1>6 DEF OverallConfidence

LEMMA NoEvidenceType == NoEvidence \in Evidence
BY DEF NoEvidence, Evidence, Tiers, SourceKinds

LEMMA EmptyTypes ==
  NoSource \in SourceRows /\ NoArticle \in ArticleRows /\ NoDraft \in Drafts
BY NoEvidenceType
   DEF NoSource, SourceRows, Threshold, NoArticle, ArticleRows, NoDraft, Drafts, Authors

\* Setting the flag that is set already changes nothing.
LEMMA SameFlag ==
  ASSUME NEW e \in Evidence, NEW flag \in BOOLEAN, flag = e.retracted
  PROVE  [e EXCEPT !.retracted = flag] = e
BY DEF Evidence

-----------------------------------------------------------------------------

LEMMA IngestInit == Init => IngestInv
<1> SUFFICES ASSUME Init
             PROVE  IngestInv
  OBVIOUS
<1>1. TypeOK
  <2>1. /\ source \in [Keys -> SourceRows]
        /\ article \in ArticleRows
        /\ draft \in [Visits -> Drafts]
    BY EmptyTypes DEF Init
  <2>2. journals \in 0..MaxJournals
    BY IngestAssumption DEF Init
  <2>3. /\ pc \in [Visits -> Steps]
        /\ key \in [Visits -> Keys \cup {None}]
        /\ \A v \in Visits : pc[v] # "idle" => key[v] \in Keys
        /\ raced \in [Visits -> BOOLEAN]
        /\ stale \in BOOLEAN
    BY DEF Init, Steps
  <2> QED BY <2>1, <2>2, <2>3 DEF TypeOK
<1>2. CircuitInv
  BY DEF Init, CircuitInv, NoSource
<1>3. VerdictIsCurrent /\ AuthorsExist /\ DraftInv
  BY NoArticleFields
     DEF Init, VerdictIsCurrent, AuthorsExist, DraftInv, NoDraft, Reading
<1> QED BY <1>1, <1>2, <1>3 DEF IngestInv

\* Leaving keeps the types of what a visit has.
LEMMA LeaveTypes ==
  ASSUME TypeOK, NEW v \in Visits, Leave(v)
  PROVE  /\ pc' \in [Visits -> Steps]
         /\ key' \in [Visits -> Keys \cup {None}]
         /\ draft' \in [Visits -> Drafts]
         /\ raced' \in [Visits -> BOOLEAN]
BY EmptyTypes DEF TypeOK, Leave, Goto, Steps

LEMMA DraftTypes ==
  ASSUME NEW k \in Keys, NEW report \in [evidence : Evidence, authors : {"none", "named"}]
  PROVE  Drafted(k, report) \in Drafts
<1>1. report.evidence \in Evidence /\ report.authors \in {"none", "named"}
  OBVIOUS
<1>2. Kind[k] \in SourceKinds
  BY IngestAssumption
<1>3. [report.evidence EXCEPT !.source = Kind[k], !.card = TRUE] \in Evidence
  BY <1>1, <1>2 DEF Evidence
<1> QED
  BY <1>1, <1>3 DEF Drafted, Drafts, Authors

\* What a visit may draft of a report, with or without a frozen file.
LEMMA ReportTypes ==
  ASSUME TypeOK, NEW v \in Visits, pc[v] # "idle", NEW report \in Reports[key[v]],
         NEW d \in {Drafted(key[v], report)} \cup FromFile(key[v], report)
  PROVE  d \in Drafts /\ d.persisted = "none"
<1>1. key[v] \in Keys /\ Frozen \cup {key[v]} \subseteq Keys
  BY IngestAssumption DEF TypeOK
<1>2. /\ report \in [evidence : Evidence, authors : {"none", "named"}]
      /\ report.evidence \in Evidence /\ report.authors \in {"none", "named"}
  BY <1>1, IngestAssumption
<1>3. CASE d = Drafted(key[v], report)
  BY <1>1, <1>2, <1>3, DraftTypes DEF Drafted
<1>4. CASE d \in FromFile(key[v], report)
  <2>1. PICK k \in Frozen \cup {key[v]}, words \in {report.evidence.words} \cup Rewritten,
             authors \in {report.authors, "named"} :
          d = Drafted(k, [evidence |-> [report.evidence EXCEPT !.words = words],
                          authors |-> authors])
    BY <1>4 DEF FromFile
  <2>2. words \in SUBSET Lists
    BY <1>2, <2>1, IngestAssumption DEF Evidence
  <2>3. [report.evidence EXCEPT !.words = words] \in Evidence
    BY <1>2, <2>2 DEF Evidence
  <2>4. [evidence |-> [report.evidence EXCEPT !.words = words], authors |-> authors]
          \in [evidence : Evidence, authors : {"none", "named"}]
    BY <1>2, <2>1, <2>3
  <2>5. k \in Keys
    BY <1>1, <2>1
  <2> QED BY <2>1, <2>4, <2>5, DraftTypes DEF Drafted
<1> QED BY <1>3, <1>4

\* A run keeps the type of the row of its source.
LEMMA RunTypes ==
  ASSUME NEW s \in SourceRows
  PROVE  FailedRun(s) \in SourceRows /\ SucceededRun(s) \in SourceRows
<1> DEFINE failures == IF s.failures < Threshold THEN s.failures + 1 ELSE s.failures
           open == IF s.failures + 1 >= Threshold THEN TRUE ELSE s.open
<1>1. s.failures \in 0..Threshold /\ s.open \in BOOLEAN
  BY DEF SourceRows
<1>2. failures \in 0..Threshold
  BY <1>1 DEF Threshold
<1>3. open \in BOOLEAN
  BY <1>1
<1>4. FailedRun(s) = [s EXCEPT !.ran = TRUE, !.failures = failures, !.open = open]
  BY DEF FailedRun, SourceRows
<1> HIDE DEF failures, open
<1>5. FailedRun(s) \in SourceRows
  BY <1>2, <1>3, <1>4 DEF SourceRows
<1>6. SucceededRun(s) \in SourceRows
  <2>1. /\ TRUE \in BOOLEAN
        /\ FALSE \in BOOLEAN
        /\ 0 \in 0..Threshold
    BY DEF Threshold
  <2>2. \A ran, succeeded, now \in BOOLEAN, n \in 0..Threshold :
          [s EXCEPT !.ran = ran, !.succeeded = succeeded,
                    !.failures = n, !.open = now] \in SourceRows
    BY DEF SourceRows
  <2> QED BY <2>1, <2>2 DEF SucceededRun
<1> QED BY <1>5, <1>6

\* Every variable keeps its type.
LEMMA IngestTypes == TypeOK /\ [Next]_vars => TypeOK'
<1> SUFFICES ASSUME TypeOK, [Next]_vars
             PROVE  TypeOK'
  OBVIOUS
<1>1. ASSUME NEW v \in Visits, Start(v)
      PROVE  TypeOK'
  BY <1>1 DEF TypeOK, Start, Goto, Steps, KeepArticle
<1>2. ASSUME NEW v \in Visits, Judge(v)
      PROVE  TypeOK'
  BY <1>2, LeaveTypes DEF TypeOK, Judge, Goto, Steps, KeepArticle, Leave
<1>3. ASSUME NEW v \in Visits, EnsureSource(v)
      PROVE  TypeOK'
  <2>1. source' \in [Keys -> SourceRows]
    BY <1>3 DEF TypeOK, EnsureSource, SourceRows
  <2> QED BY <1>3, <2>1 DEF TypeOK, EnsureSource, Goto, Steps, KeepArticle
<1>4. ASSUME NEW v \in Visits, Fetch(v)
      PROVE  TypeOK'
  <2>1. draft' \in [Visits -> Drafts]
    <3>1. \/ draft' = draft
          \/ \E report \in Reports[key[v]] :
               \E d \in {Drafted(key[v], report)} \cup FromFile(key[v], report) :
                 draft' = [draft EXCEPT ![v] = d]
      BY <1>4 DEF Fetch
    <3>2. pc[v] # "idle"
      BY <1>4 DEF Fetch
    <3> QED BY <3>1, <3>2, ReportTypes DEF TypeOK
  <2> QED BY <1>4, <2>1 DEF TypeOK, Fetch, Goto, Steps, KeepArticle
<1>5. ASSUME NEW v \in Visits, MarkFailure(v)
      PROVE  TypeOK'
  <2>1. source' \in [Keys -> SourceRows]
    BY <1>5, RunTypes DEF TypeOK, MarkFailure
  <2> QED BY <1>5, <2>1, LeaveTypes DEF TypeOK, MarkFailure, KeepArticle, Leave, Goto
<1>6. ASSUME NEW v \in Visits, MarkSuccess(v)
      PROVE  TypeOK'
  <2>1. source' \in [Keys -> SourceRows]
    BY <1>6, RunTypes DEF TypeOK, MarkSuccess
  <2> QED
    BY <1>6, <2>1, LeaveTypes DEF TypeOK, MarkSuccess, KeepArticle, Leave, Goto, Steps
<1>7. ASSUME NEW v \in Visits, UpsertJournal(v)
      PROVE  TypeOK'
  <2>1. journals' \in 0..MaxJournals
    BY <1>7, IngestAssumption DEF TypeOK, UpsertJournal
  <2> QED BY <1>7, <2>1 DEF TypeOK, UpsertJournal, Goto, Steps
<1>8. ASSUME NEW v \in Visits, ReadExisting(v)
      PROVE  TypeOK'
  <2>1. draft[v] \in Drafts /\ article.evidence \in Evidence
    BY DEF TypeOK, ArticleRows
  <2>2. Aware(draft[v]) \in Drafts
    <3> DEFINE known(retracted, note) ==
                 [draft[v] EXCEPT !.evidence =
                    [draft[v].evidence EXCEPT !.retracted = retracted, !.note = note]]
    <3>1. draft[v].evidence \in Evidence
      BY <2>1 DEF Drafts
    <3>2. \A retracted, note \in BOOLEAN :
            [draft[v].evidence EXCEPT !.retracted = retracted, !.note = note] \in Evidence
      BY <3>1 DEF Evidence
    <3>3. \A retracted, note \in BOOLEAN : known(retracted, note) \in Drafts
      BY <2>1, <3>2 DEF Drafts
    <3>4. \/ Aware(draft[v]) = draft[v]
          \/ Aware(draft[v]) =
               known(draft[v].evidence.retracted \/ article.evidence.retracted,
                     draft[v].evidence.note \/ article.evidence.note)
      BY <2>1, <3>1 DEF Aware, Drafts, Evidence
    <3>5. /\ (draft[v].evidence.retracted \/ article.evidence.retracted) \in BOOLEAN
          /\ (draft[v].evidence.note \/ article.evidence.note) \in BOOLEAN
      BY <2>1, <3>1 DEF Evidence
    <3> QED BY <2>1, <3>3, <3>4, <3>5
  <2>3. draft' \in [Visits -> Drafts]
    BY <1>8, <2>2 DEF TypeOK, ReadExisting
  <2> QED BY <1>8, <2>3 DEF TypeOK, ReadExisting, Goto, Steps
<1>9. ASSUME NEW v \in Visits, ReadAuthors(v)
      PROVE  TypeOK'
  <2>1. draft' \in [Visits -> Drafts]
    BY <1>9 DEF TypeOK, ReadAuthors, Drafts, ArticleRows
  <2> QED BY <1>9, <2>1 DEF TypeOK, ReadAuthors, Goto, Steps
<1>10. ASSUME NEW v \in Visits, Save(v)
       PROVE  TypeOK'
  <2>1. article' \in ArticleRows
    <3> DEFINE d == draft[v]
    <3>1. d \in Drafts /\ d.evidence \in Evidence /\ article \in ArticleRows
      BY DEF TypeOK, Drafts
    <3>2. Stored(d.evidence) \in Evidence
      BY <3>1, StoredDecides
    <3>3. RetractedMerged(d) \in BOOLEAN
      BY <3>1 DEF RetractedMerged, ArticleRows, Evidence
    <3>4. [Stored(d.evidence) EXCEPT !.retracted = RetractedMerged(d)] \in Evidence
      BY <3>2, <3>3 DEF Evidence
    <3>5. Eligible(d.evidence) \in BOOLEAN
      BY <3>1 DEF Eligible, Decision, Evidence
    <3>6. AuthorsSaved(d) \in Authors
      BY <3>1 DEF AuthorsSaved, Authors, ArticleRows
    <3> QED BY <1>10, <3>4, <3>5, <3>6 DEF Save, ArticleRows
  <2> QED BY <1>10, <2>1 DEF TypeOK, Save, Goto, Steps
<1>11. ASSUME NEW v \in Visits, Enrich(v)
       PROVE  TypeOK'
  <2>1. PICK words \in SUBSET Lists, authors \in Authors :
          /\ article' = [article EXCEPT !.evidence.words = words, !.authors = authors]
          /\ stale' = (stale \/ words # article.evidence.words)
    <3>1. /\ article.evidence.words \in SUBSET Lists
          /\ article.authors \in Authors
      BY DEF TypeOK, ArticleRows, Evidence
    <3>2. /\ {article.evidence.words} \cup Rewritten \subseteq SUBSET Lists
          /\ {article.authors} \cup
               (IF AuthorsMissing(draft[v]) THEN {"named"} ELSE {}) \subseteq Authors
      BY <3>1, IngestAssumption DEF Authors
    <3> QED BY <1>11, <3>2 DEF Enrich
  <2>2. [article.evidence EXCEPT !.words = words] \in Evidence
    BY DEF TypeOK, ArticleRows, Evidence
  <2>3. article' = [article EXCEPT
                     !.evidence = [article.evidence EXCEPT !.words = words],
                     !.authors = authors]
    BY <2>1 DEF TypeOK, ArticleRows
  <2>4. article' \in ArticleRows
    BY <2>2, <2>3 DEF TypeOK, ArticleRows
  <2>5. stale' \in BOOLEAN
    BY <2>1 DEF TypeOK
  <2> QED BY <1>11, <2>4, <2>5, LeaveTypes DEF TypeOK, Enrich, Leave, Goto
<1>12. ASSUME NEW v \in Visits, Abort(v)
       PROVE  TypeOK'
  BY <1>12, LeaveTypes DEF TypeOK, Abort, KeepArticle, Leave, Goto
<1>13. ASSUME NEW k \in Keys, CoolDown(k)
       PROVE  TypeOK'
  <2>1. source' \in [Keys -> SourceRows]
    BY <1>13 DEF TypeOK, CoolDown, SourceRows
  <2> QED BY <1>13, <2>1 DEF TypeOK, CoolDown, KeepArticle
<1>14. ASSUME NEW v \in Visits, EnsureOrigin(v)
       PROVE  TypeOK'
  <2>1. source' \in [Keys -> SourceRows]
    BY <1>14 DEF TypeOK, EnsureOrigin, SourceRows
  <2> QED BY <1>14, <2>1 DEF TypeOK, EnsureOrigin, Goto, Steps, KeepArticle
<1>15. ASSUME UNCHANGED vars
       PROVE  TypeOK'
  BY <1>15 DEF TypeOK, vars
<1> QED
  BY <1>1, <1>2, <1>3, <1>4, <1>5, <1>6, <1>7, <1>8, <1>9, <1>10, <1>11, <1>12, <1>13, <1>14,
     <1>15
     DEF Next, VisitSource, SaveArticle

-----------------------------------------------------------------------------
(* The circuit.                                                            *)

LEMMA CircuitProperty == TypeOK /\ CircuitInv => CircuitFollowsRuns
BY DEF TypeOK, CircuitInv, CircuitFollowsRuns, Health, Threshold, SourceRows

\* Leaving cannot disturb the circuit.
LEMMA CircuitRest ==
  ASSUME TypeOK, CircuitInv, NEW v \in Visits, UNCHANGED source,
         \A u \in Visits \ {v} : pc'[u] = pc[u] /\ key'[u] = key[u],
         \/ pc'[v] \notin {"fetch", "failure", "success"}
         \/ source[key'[v]].stored
  PROVE  CircuitInv'
BY DEF CircuitInv

LEMMA CircuitStep == TypeOK /\ CircuitInv /\ [Next]_vars => CircuitInv'
<1> SUFFICES ASSUME TypeOK, CircuitInv, [Next]_vars
             PROVE  CircuitInv'
  OBVIOUS
<1>1. ASSUME NEW v \in Visits, Start(v)
      PROVE  CircuitInv'
  BY <1>1, CircuitRest DEF TypeOK, Start, Goto
<1>2. ASSUME NEW v \in Visits, Judge(v)
      PROVE  CircuitInv'
  BY <1>2, CircuitRest DEF TypeOK, Judge, Leave, Goto
<1>3. ASSUME NEW v \in Visits, EnsureSource(v)
      PROVE  CircuitInv'
  BY <1>3 DEF TypeOK, CircuitInv, EnsureSource, Goto, SourceRows
<1>4. ASSUME NEW v \in Visits, Fetch(v)
      PROVE  CircuitInv'
  BY <1>4, CircuitRest DEF TypeOK, CircuitInv, Fetch, Goto
<1>5. ASSUME NEW v \in Visits, MarkFailure(v)
      PROVE  CircuitInv'
  BY <1>5 DEF TypeOK, CircuitInv, MarkFailure, Leave, Goto, FailedRun, SourceRows, Threshold
<1>6. ASSUME NEW v \in Visits, MarkSuccess(v)
      PROVE  CircuitInv'
  <2>1. /\ source' = [source EXCEPT ![key[v]] = SucceededRun(@)]
        /\ source[key[v]].stored
        /\ \A u \in Visits \ {v} : pc'[u] = pc[u] /\ key'[u] = key[u]
        /\ pc'[v] \notin {"fetch", "failure", "success"}
    BY <1>6 DEF TypeOK, CircuitInv, MarkSuccess, Leave, Goto
  <2> QED BY <2>1 DEF TypeOK, CircuitInv, SucceededRun, SourceRows
<1>7. ASSUME NEW v \in Visits, UpsertJournal(v) \/ ReadExisting(v) \/ ReadAuthors(v) \/ Save(v)
      PROVE  CircuitInv'
  BY <1>7, CircuitRest DEF TypeOK, UpsertJournal, ReadExisting, ReadAuthors, Save, Goto
<1>8. ASSUME NEW v \in Visits, Enrich(v) \/ Abort(v)
      PROVE  CircuitInv'
  BY <1>8, CircuitRest DEF TypeOK, Enrich, Abort, Leave, Goto
<1>9. ASSUME NEW k \in Keys, CoolDown(k)
      PROVE  CircuitInv'
  BY <1>9 DEF TypeOK, CircuitInv, CoolDown, SourceRows
<1>10. ASSUME NEW v \in Visits, EnsureOrigin(v)
       PROVE  CircuitInv'
  BY <1>10 DEF TypeOK, CircuitInv, EnsureOrigin, Goto, SourceRows
<1>11. ASSUME UNCHANGED vars
       PROVE  CircuitInv'
  BY <1>11 DEF CircuitInv, vars
<1> QED
  BY <1>1, <1>2, <1>3, <1>4, <1>5, <1>6, <1>7, <1>8, <1>9, <1>10, <1>11
     DEF Next, VisitSource, SaveArticle

-----------------------------------------------------------------------------
(* The article.                                                            *)

ArticleInv == VerdictIsCurrent /\ AuthorsExist /\ DraftInv

\* A step of a visit that leaves the article alone and reads nothing of it.
LEMMA ArticleRest ==
  ASSUME TypeOK, ArticleInv, NEW v \in Visits, KeepArticle,
         \A u \in Visits \ {v} :
           pc'[u] = pc[u] /\ draft'[u] = draft[u] /\ raced'[u] = raced[u],
         pc'[v] \notin Reading \cup {"enrich"},
         draft'[v].persisted = "none"
  PROVE  ArticleInv'
<1>1. VerdictIsCurrent' /\ AuthorsExist'
  BY DEF ArticleInv, VerdictIsCurrent, AuthorsExist, KeepArticle
<1>2. DraftInv'
  BY DEF ArticleInv, DraftInv, KeepArticle, Reading
<1> QED BY <1>1, <1>2 DEF ArticleInv

LEMMA LeaveKeeps ==
  ASSUME TypeOK, ArticleInv, NEW v \in Visits, Leave(v), KeepArticle
  PROVE  ArticleInv'
<1>1. \A u \in Visits \ {v} :
        pc'[u] = pc[u] /\ draft'[u] = draft[u] /\ raced'[u] = raced[u]
  BY DEF TypeOK, Leave, Goto
<1>2. pc'[v] \notin Reading \cup {"enrich"} /\ draft'[v].persisted = "none"
  BY DEF TypeOK, Leave, Goto, Reading, NoDraft
<1> QED BY <1>1, <1>2, ArticleRest

\* An enrichment changes the authors and the text, no flag and no verdict, and
\* marks the row if the text changes.
LEMMA EnrichKeeps ==
  ASSUME TypeOK, NEW v \in Visits, Enrich(v)
  PROVE  /\ article'.stored = article.stored
         /\ article'.eligible = article.eligible
         /\ article'.evidence.retracted = article.evidence.retracted
         /\ article'.authors \in {article.authors, "named"}
         /\ ~stale' => ~stale /\ article'.evidence = article.evidence
<1>1. article \in ArticleRows /\ article.evidence \in Evidence
  BY DEF TypeOK, ArticleRows
<1>2. PICK words \in {article.evidence.words} \cup Rewritten,
           authors \in {article.authors, "named"} :
        /\ article' = [article EXCEPT !.evidence.words = words, !.authors = authors]
        /\ stale' = (stale \/ words # article.evidence.words)
  BY DEF Enrich
<1>3. article'.evidence = [article.evidence EXCEPT !.words = words]
  BY <1>1, <1>2 DEF ArticleRows
<1>4. /\ article'.stored = article.stored
      /\ article'.eligible = article.eligible
      /\ article'.authors = authors
  BY <1>1, <1>2 DEF ArticleRows
<1>5. article'.evidence.retracted = article.evidence.retracted
  BY <1>1, <1>3 DEF Evidence
<1>6. words = article.evidence.words => article'.evidence = article.evidence
  BY <1>1, <1>3 DEF Evidence
<1> QED BY <1>2, <1>4, <1>5, <1>6

\* What the save of a visit that was not overtaken leaves.
LEMMA SaveIsExact ==
  ASSUME IngestInv, NEW v \in Visits, Save(v), ~raced[v]
  PROVE  article'.evidence = Stored(draft[v].evidence)
<1>1. draft[v].evidence \in Evidence /\ article.evidence \in Evidence
  BY DEF IngestInv, TypeOK, Drafts, ArticleRows
<1>2. /\ Stored(draft[v].evidence) \in Evidence
      /\ Stored(draft[v].evidence).retracted = draft[v].evidence.retracted
  BY <1>1, StoredDecides
<1>3. article.evidence.retracted => draft[v].evidence.retracted
  BY DEF IngestInv, DraftInv, Save, Reading
<1>4. /\ RetractedMerged(draft[v]) = draft[v].evidence.retracted
      /\ RetractedMerged(draft[v]) \in BOOLEAN
  BY <1>1, <1>3 DEF RetractedMerged, Evidence
<1>5. [Stored(draft[v].evidence) EXCEPT !.retracted = RetractedMerged(draft[v])]
        = Stored(draft[v].evidence)
  BY <1>2, <1>4, SameFlag
<1> QED BY <1>5 DEF Save

LEMMA ArticleStep == IngestInv /\ [Next]_vars => ArticleInv'
<1> SUFFICES ASSUME IngestInv, [Next]_vars
             PROVE  ArticleInv'
  OBVIOUS
<1> USE DEF IngestInv
<1>0. ArticleInv
  BY DEF ArticleInv
<1>1. ASSUME NEW v \in Visits, VisitSource(v)
      PROVE  ArticleInv'
  <2>1. CASE Leave(v) /\ KeepArticle
    BY <1>0, <2>1, LeaveKeeps
  <2>2. CASE ~Leave(v)
    <3>1. KeepArticle
      BY <1>1, <2>2
         DEF VisitSource, Start, Judge, EnsureSource, Fetch, MarkFailure, MarkSuccess
    <3>2. \A u \in Visits \ {v} :
            pc'[u] = pc[u] /\ draft'[u] = draft[u] /\ raced'[u] = raced[u]
      BY <1>1, <2>2
         DEF TypeOK, VisitSource, Start, Judge, EnsureSource, Fetch, MarkFailure,
             MarkSuccess, Goto
    <3>3. pc'[v] \notin Reading \cup {"enrich"}
      BY <1>1, <2>2
         DEF TypeOK, VisitSource, Start, Judge, EnsureSource, Fetch, MarkFailure,
             MarkSuccess, Goto, Reading
    <3>4. draft'[v].persisted = "none"
      <4>1. draft[v].persisted = "none"
        BY <1>1
           DEF DraftInv, VisitSource, Start, Judge, EnsureSource, Fetch, MarkFailure,
               MarkSuccess
      <4>2. \/ draft' = draft
            \/ /\ pc[v] # "idle"
               /\ \E report \in Reports[key[v]] :
                    \E d \in {Drafted(key[v], report)} \cup FromFile(key[v], report) :
                      draft'[v] = d
        BY <1>1, <2>2
           DEF TypeOK, VisitSource, Start, Judge, EnsureSource, Fetch, MarkFailure,
               MarkSuccess
      <4> QED BY <4>1, <4>2, ReportTypes
    <3> QED BY <1>0, <3>1, <3>2, <3>3, <3>4, ArticleRest
  <2>3. KeepArticle
    BY <1>1
       DEF VisitSource, Start, Judge, EnsureSource, Fetch, MarkFailure, MarkSuccess
  <2> QED BY <2>1, <2>2, <2>3
<1>2. ASSUME NEW v \in Visits, UpsertJournal(v)
      PROVE  ArticleInv'
  <2>1. VerdictIsCurrent' /\ AuthorsExist'
    BY <1>2 DEF VerdictIsCurrent, AuthorsExist, UpsertJournal
  <2>2. DraftInv'
    BY <1>2 DEF TypeOK, DraftInv, UpsertJournal, Goto, Reading
  <2> QED BY <2>1, <2>2 DEF ArticleInv
<1>3. ASSUME NEW v \in Visits, ReadExisting(v)
      PROVE  ArticleInv'
  <2>1. VerdictIsCurrent' /\ AuthorsExist'
    BY <1>3 DEF VerdictIsCurrent, AuthorsExist, ReadExisting
  <2>2. /\ draft[v] \in Drafts /\ draft[v].evidence \in Evidence
        /\ article.evidence \in Evidence
    BY DEF TypeOK, Drafts, ArticleRows
  <2>3. /\ Aware(draft[v]).parsed = draft[v].parsed
        /\ Aware(draft[v]).persisted = draft[v].persisted
        /\ article.stored /\ article.evidence.retracted =>
             Aware(draft[v]).evidence.retracted
    BY <2>2 DEF Aware, Drafts, Evidence
  <2>4. draft[v].persisted = "none"
    BY <1>3 DEF DraftInv, ReadExisting
  <2>5. article.evidence.retracted => article.stored
    BY NoArticleFields DEF DraftInv
  <2>6. /\ draft'[v] = Aware(draft[v])
        /\ pc'[v] = IF article.stored /\ draft[v].parsed = "none"
                    THEN "authors" ELSE "save"
        /\ \A u \in Visits \ {v} : pc'[u] = pc[u] /\ draft'[u] = draft[u]
        /\ article' = article /\ raced' = raced
    BY <1>3 DEF TypeOK, ReadExisting, Goto
  <2>7. DraftInv'
    BY <2>3, <2>4, <2>5, <2>6 DEF DraftInv, Reading
  <2> QED BY <2>1, <2>7 DEF ArticleInv
<1>4. ASSUME NEW v \in Visits, ReadAuthors(v)
      PROVE  ArticleInv'
  <2>1. VerdictIsCurrent' /\ AuthorsExist'
    BY <1>4 DEF VerdictIsCurrent, AuthorsExist, ReadAuthors
  <2>2. /\ draft'[v] = [draft[v] EXCEPT !.persisted = article.authors]
        /\ pc[v] = "authors" /\ pc'[v] = "save"
        /\ \A u \in Visits \ {v} : pc'[u] = pc[u] /\ draft'[u] = draft[u]
        /\ article' = article /\ raced' = raced
    BY <1>4 DEF TypeOK, ReadAuthors, Goto
  <2>3. /\ draft'[v].persisted = article.authors
        /\ draft'[v].evidence = draft[v].evidence
    BY <2>2 DEF TypeOK, Drafts
  <2>4. article.stored /\ article.authors # "none"
    BY <2>2 DEF DraftInv, AuthorsExist
  <2>5. ~raced[v] /\ article.evidence.retracted => draft[v].evidence.retracted
    BY <2>2 DEF DraftInv, Reading
  <2>6. \A u \in Visits \ {v} :
          /\ pc'[u] = pc[u] /\ draft'[u] = draft[u] /\ raced'[u] = raced[u]
    BY <2>2
  <2>7. DraftInv'
    <3>1. (~article.stored => article = NoArticle)'
      BY <2>2, <2>4
    <3>2. ASSUME NEW u \in Visits, u # v
          PROVE  /\ (pc[u] \in {"authors", "enrich"} => article.stored)'
                 /\ (pc[u] \notin {"save", "enrich"} => draft[u].persisted = "none")'
                 /\ (pc[u] \in Reading /\ ~raced[u] /\ article.evidence.retracted =>
                      draft[u].evidence.retracted)'
                 /\ (pc[u] = "save" /\ draft[u].persisted # "none" => article.stored)'
                 /\ (pc[u] = "save" /\ ~raced[u] /\ draft[u].parsed = "none"
                       /\ article.stored => draft[u].persisted # "none")'
      BY <2>2, <2>6, <3>2 DEF DraftInv
    <3>3. /\ (pc[v] \in {"authors", "enrich"} => article.stored)'
          /\ (pc[v] \notin {"save", "enrich"} => draft[v].persisted = "none")'
          /\ (pc[v] \in Reading /\ ~raced[v] /\ article.evidence.retracted =>
               draft[v].evidence.retracted)'
          /\ (pc[v] = "save" /\ draft[v].persisted # "none" => article.stored)'
          /\ (pc[v] = "save" /\ ~raced[v] /\ draft[v].parsed = "none"
                /\ article.stored => draft[v].persisted # "none")'
      BY <2>2, <2>3, <2>4, <2>5
    <3> QED BY <3>1, <3>2, <3>3 DEF DraftInv
  <2> QED BY <2>1, <2>7 DEF ArticleInv
<1>5. ASSUME NEW v \in Visits, Save(v)
      PROVE  ArticleInv'
  <2>1. article'.stored
    BY <1>5 DEF Save
  <2>2. article'.authors # "none"
    <3>1. article'.authors = AuthorsSaved(draft[v])
      BY <1>5 DEF Save
    <3>2. draft[v].persisted # "none" => article.authors # "none"
      BY <1>5 DEF Save, DraftInv, AuthorsExist
    <3> QED BY <3>1, <3>2 DEF AuthorsSaved
  <2>3. VerdictIsCurrent'
    <3> SUFFICES ASSUME ~raced[v]
                 PROVE  VerdictIsCurrent'
      BY <1>5 DEF Save, VerdictIsCurrent
    <3>1. article'.evidence = Stored(draft[v].evidence)
      BY <1>5, SaveIsExact
    <3>2. draft[v].evidence \in Evidence
      BY DEF TypeOK, Drafts
    <3>3. article'.eligible = Eligible(draft[v].evidence)
      BY <1>5 DEF Save
    <3>4. /\ Eligible(Stored(draft[v].evidence)) = Eligible(draft[v].evidence)
          /\ Stored(draft[v].evidence).retracted => Stored(draft[v].evidence).note
      BY <3>2, StoredDecides
    <3> QED BY <3>1, <3>3, <3>4 DEF VerdictIsCurrent
  <2>4. /\ pc'[v] = "enrich" /\ draft' = draft
        /\ \A u \in Visits \ {v} :
             pc'[u] = pc[u] /\ (pc[u] \in Reading => raced'[u])
    BY <1>5 DEF TypeOK, Save, Goto
  <2>5. DraftInv'
    BY <2>1, <2>4 DEF DraftInv, Reading
  <2> QED BY <2>1, <2>2, <2>3, <2>5 DEF ArticleInv, AuthorsExist
<1>6. ASSUME NEW v \in Visits, Enrich(v)
      PROVE  ArticleInv'
  <2>1. article.stored /\ article.authors # "none"
    BY <1>6 DEF Enrich, DraftInv, AuthorsExist
  <2>2. /\ article'.stored /\ article'.authors # "none"
        /\ article'.evidence.retracted = article.evidence.retracted
    BY <1>6, <2>1, EnrichKeeps
  <2>3. VerdictIsCurrent' /\ AuthorsExist'
    <3>1. ~stale' => ~stale /\ article'.evidence = article.evidence
                        /\ article'.eligible = article.eligible
      BY <1>6, EnrichKeeps
    <3> QED BY <2>1, <2>2, <3>1 DEF VerdictIsCurrent, AuthorsExist
  <2>4. /\ pc'[v] = "idle" /\ draft'[v] = NoDraft
        /\ \A u \in Visits \ {v} :
             pc'[u] = pc[u] /\ draft'[u] = draft[u] /\ raced'[u] = raced[u]
    BY <1>6 DEF TypeOK, Enrich, Leave, Goto
  <2>5. DraftInv'
    BY <2>1, <2>2, <2>4 DEF DraftInv, Reading, NoDraft
  <2> QED BY <2>3, <2>5 DEF ArticleInv
<1>7. ASSUME NEW v \in Visits, Abort(v)
      PROVE  ArticleInv'
  BY <1>0, <1>7, LeaveKeeps DEF Abort
<1>8. ASSUME NEW k \in Keys, CoolDown(k)
      PROVE  ArticleInv'
  BY <1>8 DEF ArticleInv, VerdictIsCurrent, AuthorsExist, DraftInv, CoolDown, KeepArticle
<1>9. ASSUME NEW v \in Visits, EnsureOrigin(v)
      PROVE  ArticleInv'
  <2>1. /\ KeepArticle /\ draft' = draft /\ raced' = raced
        /\ pc[v] = "row" /\ pc'[v] = "journal"
        /\ \A u \in Visits \ {v} : pc'[u] = pc[u]
    BY <1>9 DEF TypeOK, EnsureOrigin, Goto
  <2>2. draft'[v].persisted = "none"
    BY <2>1 DEF DraftInv
  <2> QED BY <1>0, <2>1, <2>2, ArticleRest DEF Reading
<1>10. ASSUME UNCHANGED vars
       PROVE  ArticleInv'
  BY <1>10 DEF ArticleInv, VerdictIsCurrent, AuthorsExist, DraftInv, vars
<1> QED
  BY <1>1, <1>2, <1>3, <1>4, <1>5, <1>6, <1>7, <1>8, <1>9, <1>10 DEF Next, SaveArticle

-----------------------------------------------------------------------------
(* The theorems.                                                           *)

\* The inductive invariant holds in every reachable state: of the circuit
\* breaker (RecordRun), of what a visit has read, and of the article row.
THEOREM IngestInvariant == Spec => []IngestInv
<1>1. Init => IngestInv
  BY IngestInit
<1>2. IngestInv /\ [Next]_vars => IngestInv'
  BY IngestTypes, CircuitStep, ArticleStep DEF IngestInv, ArticleInv
<1> QED BY <1>1, <1>2, PTL DEF Spec

\* RecordRun: the circuit is open only after three failures in a row, and a
\* source that has answered last is healthy.
THEOREM CircuitIsHonest == Spec => []CircuitFollowsRuns
<1>1. IngestInv => CircuitFollowsRuns
  BY CircuitProperty DEF IngestInv
<1> QED BY <1>1, IngestInvariant, PTL

\* SaveIngested: unless a save was overtaken, the verdict in the row is that
\* of the evidence in the row.
THEOREM VerdictStaysCurrent == Spec => []VerdictIsCurrent
<1>1. IngestInv => VerdictIsCurrent
  BY DEF IngestInv
<1> QED BY <1>1, IngestInvariant, PTL

\* replaceAuthors: a stored article has authors.
THEOREM AuthorsAlwaysExist == Spec => []AuthorsExist
<1>1. IngestInv => AuthorsExist
  BY DEF IngestInv
<1> QED BY <1>1, IngestInvariant, PTL

\* upsertArticle: a retraction is never taken back.
THEOREM RetractionsStick == Spec => RetractionSticks
<1>1. IngestInv /\ [Next]_vars =>
        [article.evidence.retracted => article'.evidence.retracted]_vars
  <2> SUFFICES ASSUME IngestInv, [Next]_vars, article.evidence.retracted
               PROVE  article'.evidence.retracted
    OBVIOUS
  <2>1. ASSUME NEW v \in Visits, Save(v)
        PROVE  article'.evidence.retracted
    <3>1. Stored(draft[v].evidence) \in Evidence
      BY StoredDecides DEF IngestInv, TypeOK, Drafts
    <3>2. RetractedMerged(draft[v])
      BY DEF RetractedMerged
    <3> QED BY <2>1, <3>1, <3>2 DEF Save, Evidence
  <2>2. ASSUME NEW v \in Visits, Enrich(v)
        PROVE  article'.evidence.retracted
    BY <2>2, EnrichKeeps DEF IngestInv
  <2>3. ASSUME UNCHANGED article
        PROVE  article'.evidence.retracted
    BY <2>3
  <2> QED
    BY <2>1, <2>2, <2>3
       DEF Next, VisitSource, SaveArticle, Start, Judge, EnsureSource, Fetch,
           MarkFailure, MarkSuccess, EnsureOrigin, UpsertJournal, ReadExisting, ReadAuthors,
           Abort, CoolDown, KeepArticle, vars
<1> QED BY <1>1, IngestInvariant, PTL DEF Spec, RetractionSticks

\* SaveIngested and GetAuthors: known authors are replaced by the stand-in
\* only in a save that another one overtook.
THEOREM NamedAuthorsStay == Spec => AuthorsAreKept
<1>1. IngestInv /\ [Next]_vars =>
        [article.authors = "named" /\ article'.authors # "named" => stale']_vars
  <2> SUFFICES ASSUME IngestInv, [Next]_vars, article.authors = "named",
                      article'.authors # "named"
               PROVE  stale'
    OBVIOUS
  <2>1. ASSUME NEW v \in Visits, Save(v)
        PROVE  stale'
    <3>1. article.stored
      BY DEF IngestInv, AuthorsExist
    <3>2. /\ article'.authors = AuthorsSaved(draft[v])
          /\ pc[v] = "save"
          /\ stale' = raced[v]
      BY <2>1 DEF Save
    <3>3. draft[v].parsed \in {"none", "named"} /\ raced[v] \in BOOLEAN
      BY DEF IngestInv, TypeOK, Drafts
    <3>4. draft[v].parsed = "none" /\ draft[v].persisted = "none"
      BY <3>2, <3>3 DEF AuthorsSaved
    <3> QED BY <3>1, <3>2, <3>3, <3>4 DEF IngestInv, DraftInv
  <2>2. ASSUME NEW v \in Visits, Enrich(v)
        PROVE  FALSE
    BY <2>2, EnrichKeeps DEF IngestInv
  <2>3. ASSUME UNCHANGED article
        PROVE  FALSE
    BY <2>3
  <2> QED
    BY <2>1, <2>2, <2>3
       DEF Next, VisitSource, SaveArticle, Start, Judge, EnsureSource, Fetch,
           MarkFailure, MarkSuccess, EnsureOrigin, UpsertJournal, ReadExisting, ReadAuthors,
           Abort, CoolDown, KeepArticle, vars
<1> QED BY <1>1, IngestInvariant, PTL DEF Spec, AuthorsAreKept
=============================================================================
