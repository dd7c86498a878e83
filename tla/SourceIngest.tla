---------------------------- MODULE SourceIngest ----------------------------
(***************************************************************************)
(* Visits of sources by live scans that run at the same time: the circuit  *)
(* breaker in articles_source, and the row of one article that several     *)
(* sources report under the same DOI (LiveIngestor.processSource and       *)
(* saveArticle, DoiEnrichmentService.Enrich, repository Sources and        *)
(* Articles).                                                              *)
(*                                                                         *)
(* A visit is one iteration of the loop in IngestQuery; the loop itself is *)
(* in SearchWorker.  A step is one database call or one call of a          *)
(* connector.  River runs up to eight jobs, so visits interleave, also     *)
(* visits of the same source.  A visit may end at any step: a fault, the   *)
(* source's 45 seconds, a stop or a crash.                                 *)
(*                                                                         *)
(* Abstracted: bibliographic fields, and all articles and journals but     *)
(* one, because no statement relates two of them.  Failures above the      *)
(* threshold of the circuit are all alike and are capped there.            *)
(***************************************************************************)
EXTENDS Eligibility

CONSTANTS
  Visits,       \* the goroutines of live scans
  Keys,         \* source keys
  Kind,         \* [Keys -> SourceKinds]
  Reports,      \* [Keys -> what its connector reports: [evidence, authors]]
  Rewritten,    \* keyword lists that the text may hit with another abstract
  Frozen,       \* sources that the frozen Markdown of the article may name
  None,         \* no source
  MaxJournals   \* bound: rows of one journal name that are told apart

Authors == {"none", "unknown", "named"}

ASSUME IngestAssumption ==
  /\ Kind \in [Keys -> SourceKinds]
  /\ None \notin Keys
  /\ Reports \in
       [Keys -> SUBSET [evidence : Evidence, authors : {"none", "named"}]]
  /\ Rewritten \subseteq SUBSET Lists
  /\ Frozen \subseteq Keys
  /\ MaxJournals \in Nat

VARIABLES
  source,       \* [Keys -> articles_source row]
  article,      \* articles_article row with its author list
  journals,     \* articles_journal rows of the reported name
  pc,           \* [Visits -> where processSource is]
  key,          \* [Visits -> the source visited, or None]
  draft,        \* [Visits -> the article to be saved]
  raced,        \* [Visits -> the row was written since the visit read it]
  stale         \* the row is not what its verdict was computed from: the
                \* last save was raced, or the text was changed after it

vars == <<source, article, journals, pc, key, draft, raced, stale>>

-----------------------------------------------------------------------------

\* Failures in a row that open the circuit.
Threshold == 3

SourceRows == [stored : BOOLEAN, ran : BOOLEAN, succeeded : BOOLEAN,
               failures : 0..Threshold, open : BOOLEAN]
NoSource == [stored |-> FALSE, ran |-> FALSE, succeeded |-> FALSE,
             failures |-> 0, open |-> FALSE]

NoEvidence == [peer |-> "", index |-> "", preprint |-> "", words |-> {},
               source |-> "mixed", doi |-> FALSE, card |-> FALSE,
               retracted |-> FALSE, note |-> FALSE]

\* The row has the classifier's verdict beside the evidence.
ArticleRows == [stored : BOOLEAN, evidence : Evidence, eligible : BOOLEAN,
                authors : Authors]
NoArticle == [stored |-> FALSE, evidence |-> NoEvidence, eligible |-> FALSE,
              authors |-> "none"]

\* from is the source to save under, parsed are the authors of the report,
\* persisted those found in the row.
Drafts == [kept : BOOLEAN, from : Keys \cup {None}, evidence : Evidence,
           parsed : {"none", "named"}, persisted : Authors]
NoDraft == [kept |-> FALSE, from |-> None, evidence |-> NoEvidence,
            parsed |-> "none", persisted |-> "none"]

Steps == {"idle", "judge", "ensure", "fetch", "failure", "success", "row",
          "journal", "existing", "authors", "save", "enrich"}
\* Between the read of the row and the write of it.
Reading == {"authors", "save"}

Goto(v, step) == pc' = [pc EXCEPT ![v] = step]
KeepArticle == UNCHANGED <<article, journals, stale>>

\* The visit is over; what it knew is gone.
Leave(v) ==
  /\ Goto(v, "idle")
  /\ key' = [key EXCEPT ![v] = None]
  /\ draft' = [draft EXCEPT ![v] = NoDraft]
  /\ raced' = [raced EXCEPT ![v] = FALSE]

-----------------------------------------------------------------------------
(* The source.                                                             *)

\* The next iteration of the loop.
Start(v) ==
  /\ pc[v] = "idle"
  /\ \E k \in Keys : key' = [key EXCEPT ![v] = k]
  /\ Goto(v, "judge")
  /\ UNCHANGED <<source, draft, raced>>
  /\ KeepArticle

\* GetByKey and isCircuitOpen: a source whose circuit is open is skipped.
Judge(v) ==
  /\ pc[v] = "judge"
  /\ LET s == source[key[v]]
     IN  \/ s.stored /\ s.open /\ Leave(v)
         \/ /\ ~(s.stored /\ s.open)
            /\ Goto(v, IF s.stored THEN "fetch" ELSE "ensure")
            /\ UNCHANGED <<key, draft, raced>>
  /\ UNCHANGED source
  /\ KeepArticle

\* EnsureExists: INSERT ... ON CONFLICT; the row is not judged.
EnsureSource(v) ==
  /\ pc[v] = "ensure"
  /\ source' = [source EXCEPT ![key[v]].stored = TRUE]
  /\ Goto(v, "fetch")
  /\ UNCHANGED <<key, draft, raced>>
  /\ KeepArticle

\* A report under a key, which stands in for a journal.
Drafted(k, report) ==
  [kept |-> TRUE,
   from |-> k,
   evidence |-> [report.evidence EXCEPT !.source = Kind[k], !.card = TRUE],
   parsed |-> report.authors,
   persisted |-> "none"]

\* LocalStore.ToRaw: the frozen Markdown of the article may have another text,
\* authors and the key of another source.
FromFile(k, report) ==
  {Drafted(f, [evidence |-> [report.evidence EXCEPT !.words = words],
               authors |-> authors]) :
     f \in Frozen \cup {k},
     words \in {report.evidence.words} \cup Rewritten,
     authors \in {report.authors, "named"}}

\* Connector.Fetch and enrichOne: an error, no record with a DOI that is
\* kept, or the article.
Fetch(v) ==
  /\ pc[v] = "fetch"
  /\ \/ Goto(v, "failure") /\ UNCHANGED draft
     \/ Goto(v, "success") /\ UNCHANGED draft
     \/ /\ Goto(v, "success")
        /\ \E report \in Reports[key[v]] :
             \E d \in {Drafted(key[v], report)} \cup FromFile(key[v], report) :
               draft' = [draft EXCEPT ![v] = d]
  /\ UNCHANGED <<source, key, raced>>
  /\ KeepArticle

\* RecordRun: one UPDATE.
FailedRun(s) ==
  [s EXCEPT !.ran = TRUE,
            !.failures = IF @ < Threshold THEN @ + 1 ELSE @,
            !.open = IF s.failures + 1 >= Threshold THEN TRUE ELSE @]
SucceededOpen(s) == [s EXCEPT !.ran = TRUE, !.succeeded = TRUE, !.failures = 0]
SucceededRun(s) ==
  [s EXCEPT !.ran = TRUE, !.succeeded = TRUE, !.failures = 0, !.open = FALSE]

\* markFailure ends the visit.
MarkFailure(v) ==
  /\ pc[v] = "failure"
  /\ source' = [source EXCEPT ![key[v]] = FailedRun(@)]
  /\ Leave(v)
  /\ KeepArticle

\* markSuccess comes before anything is saved.
MarkSuccess(v) ==
  /\ pc[v] = "success"
  /\ source' = [source EXCEPT ![key[v]] = SucceededRun(@)]
  /\ \/ ~draft[v].kept /\ Leave(v)
     \/ draft[v].kept /\ Goto(v, "row") /\ UNCHANGED <<key, draft, raced>>
  /\ KeepArticle

\* 15 minutes pass.
CoolDown(k) ==
  /\ source[k].open
  /\ source' = [source EXCEPT ![k].open = FALSE]
  /\ UNCHANGED <<pc, key, draft, raced>>
  /\ KeepArticle

\* SourceHealth.
Health(k) ==
  CASE ~source[k].stored -> "never_queried"
    [] source[k].stored /\ source[k].open -> "circuit_open"
    [] OTHER -> IF source[k].ran /\ ~source[k].succeeded
                THEN "never_succeeded" ELSE "healthy"

-----------------------------------------------------------------------------
(* The article: saveArticle.                                               *)

\* The row of the source to save under; a frozen file may name one that no
\* visit has stored.
EnsureOrigin(v) ==
  /\ pc[v] = "row"
  /\ source' = [source EXCEPT ![draft[v].from].stored = TRUE]
  /\ Goto(v, "journal")
  /\ UNCHANGED <<key, draft, raced>>
  /\ KeepArticle

\* UpsertJournal: nothing in the schema makes the name unique, so that
\* ON CONFLICT DO NOTHING never applies.
UpsertJournal(v) ==
  /\ pc[v] = "journal"
  /\ journals' = IF journals < MaxJournals THEN journals + 1 ELSE journals
  /\ Goto(v, "existing")
  /\ UNCHANGED <<source, article, key, draft, raced, stale>>

\* The retraction and its note that are stored already.
Unaware(d) == d
Aware(d) ==
  IF ~article.stored THEN d
  ELSE [d EXCEPT !.evidence.retracted = @ \/ article.evidence.retracted,
                 !.evidence.note = @ \/ article.evidence.note]

\* GetByDOI, outside the transaction that saves.
ReadExisting(v) ==
  /\ pc[v] = "existing"
  /\ draft' = [draft EXCEPT ![v] = Aware(@)]
  /\ Goto(v, IF article.stored /\ draft[v].parsed = "none" THEN "authors" ELSE "save")
  /\ UNCHANGED <<source, article, journals, key, raced, stale>>

\* GetAuthors.
ReadAuthors(v) ==
  /\ pc[v] = "authors"
  /\ draft' = [draft EXCEPT ![v].persisted = article.authors]
  /\ Goto(v, "save")
  /\ UNCHANGED <<source, article, journals, key, raced, stale>>

\* The author list after the save: that of the report, what is stored, or a
\* stand-in.
AuthorsSaved(d) ==
  IF d.parsed = "named" THEN "named"
  ELSE IF d.persisted # "none" THEN article.authors ELSE "unknown"

\* The flag that the upsert leaves.
RetractedExcluded(d) == d.evidence.retracted
RetractedMerged(d) == article.evidence.retracted \/ d.evidence.retracted

\* SaveIngested: upsert, identifier, authors and verdict in one transaction.
Save(v) ==
  /\ pc[v] = "save"
  /\ LET d == draft[v]
     IN  article' = [stored |-> TRUE,
                     evidence |-> [Stored(d.evidence) EXCEPT
                                     !.retracted = RetractedMerged(d)],
                     eligible |-> Eligible(d.evidence),
                     authors |-> AuthorsSaved(d)]
  /\ stale' = raced[v]
  /\ raced' = [u \in Visits |-> u # v /\ pc[u] \in Reading]
  /\ Goto(v, "enrich")
  /\ UNCHANGED <<source, journals, key, draft>>

\* Whether the candidate's authors count as missing.
AuthorsMissing(d) == d.parsed = "none" /\ d.persisted # "named"

\* DoiEnrichmentService.Enrich at the end of the scan.  UpdateEnriched writes
\* the abstract, found or read before, and the authors if they were missing
\* and a registry knows them; the verdict is left as it is.
Enrich(v) ==
  /\ pc[v] = "enrich"
  /\ \E words \in {article.evidence.words} \cup Rewritten,
        authors \in {article.authors} \cup
                   (IF AuthorsMissing(draft[v]) THEN {"named"} ELSE {}) :
       /\ article' = [article EXCEPT !.evidence.words = words, !.authors = authors]
       /\ stale' = (stale \/ words # article.evidence.words)
  /\ Leave(v)
  /\ UNCHANGED <<source, journals>>

\* The end of a visit at any step.
Abort(v) ==
  /\ pc[v] # "idle"
  /\ Leave(v)
  /\ UNCHANGED source
  /\ KeepArticle

-----------------------------------------------------------------------------

Init ==
  /\ source = [k \in Keys |-> NoSource]
  /\ article = NoArticle
  /\ journals = 0
  /\ pc = [v \in Visits |-> "idle"]
  /\ key = [v \in Visits |-> None]
  /\ draft = [v \in Visits |-> NoDraft]
  /\ raced = [v \in Visits |-> FALSE]
  /\ stale = FALSE

VisitSource(v) ==
  \/ Start(v) \/ Judge(v) \/ EnsureSource(v) \/ Fetch(v)
  \/ MarkFailure(v) \/ MarkSuccess(v)

SaveArticle(v) ==
  \/ EnsureOrigin(v) \/ UpsertJournal(v) \/ ReadExisting(v) \/ ReadAuthors(v)
  \/ Save(v) \/ Enrich(v)

Next ==
  \/ \E v \in Visits : VisitSource(v) \/ SaveArticle(v) \/ Abort(v)
  \/ \E k \in Keys : CoolDown(k)

Spec == Init /\ [][Next]_vars

-----------------------------------------------------------------------------
(* Properties.                                                             *)

\* Every variable has the type of what it stands for.
TypeOK ==
  /\ source \in [Keys -> SourceRows]
  /\ article \in ArticleRows
  /\ journals \in 0..MaxJournals
  /\ pc \in [Visits -> Steps]
  /\ key \in [Visits -> Keys \cup {None}]
  /\ \A v \in Visits : pc[v] # "idle" => key[v] \in Keys
  /\ draft \in [Visits -> Drafts]
  /\ raced \in [Visits -> BOOLEAN]
  /\ stale \in BOOLEAN

\* The circuit is open only after three failures in a row, and a source that
\* has answered last is healthy, whatever visits were under way meanwhile.
CircuitFollowsRuns ==
  \A k \in Keys :
    /\ source[k].open => source[k].failures = Threshold
    /\ source[k].succeeded /\ source[k].failures = 0 => Health(k) = "healthy"

\* A retraction is never taken back, whoever reports the article next and
\* whatever the visit had read before (is_retracted in upsertArticle).
RetractionSticks ==
  [][article.evidence.retracted => article'.evidence.retracted]_vars

\* Classifying the stored row gives the stored verdict, and a retraction has
\* a note: the reasons that the classifier writes into the evidence do not
\* feed back.  Only a save that another one overtook and an enriched abstract
\* may break this.
VerdictIsCurrent ==
  article.stored /\ ~stale =>
    /\ article.eligible = Eligible(article.evidence)
    /\ article.evidence.retracted => article.evidence.note

\* Known authors give way to the stand-in only in a save that was overtaken:
\* a report without authors keeps what is stored.
AuthorsAreKept ==
  [][article.authors = "named" /\ article'.authors # "named" => stale']_vars

\* A stored article has authors, if only the stand-in.
AuthorsExist == article.stored <=> article.authors # "none"

-----------------------------------------------------------------------------
(* The inductive invariant behind the theorems of SourceIngest_proofs.     *)

\* The circuit opens at the threshold and closes on success, and the row of a
\* source that is being run is stored.
CircuitInv ==
  /\ \A k \in Keys :
       /\ source[k].open => source[k].failures = Threshold
       /\ source[k].succeeded => source[k].stored
  /\ \A v \in Visits :
       pc[v] \in {"fetch", "failure", "success"} => source[key[v]].stored

\* Until it is overtaken, a visit knows the retraction it has read, and has
\* read authors where there are some.
DraftInv ==
  /\ ~article.stored => article = NoArticle
  /\ \A v \in Visits :
       /\ pc[v] \in {"authors", "enrich"} => article.stored
       /\ pc[v] \notin {"save", "enrich"} => draft[v].persisted = "none"
       /\ pc[v] \in Reading /\ ~raced[v] /\ article.evidence.retracted =>
            draft[v].evidence.retracted
       /\ pc[v] = "save" /\ draft[v].persisted # "none" => article.stored
       /\ pc[v] = "save" /\ ~raced[v] /\ draft[v].parsed = "none" /\ article.stored =>
            draft[v].persisted # "none"

\* Conjunction of what every step preserves together.
IngestInv ==
  TypeOK /\ CircuitInv /\ VerdictIsCurrent /\ AuthorsExist /\ DraftInv

-----------------------------------------------------------------------------
(* What the repository says of the ingest and the code does not do.        *)

\* eligibility.go:96 "a retracted article is never eligible".
RetractedIsIneligible == article.evidence.retracted => ~article.eligible

\* eligibility.go:115 "A preprint is never peer-reviewed": no article is
\* stored as reviewed beside the evidence that it is a preprint.
PreprintsAreNotReviewed ==
  article.stored /\ article.evidence.preprint # "" => ~PeerReviewed(article.evidence)
=============================================================================
