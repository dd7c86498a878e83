----------------------------- MODULE Eligibility -----------------------------
(***************************************************************************)
(* What the classifier decides about an article: peer review, indexing,    *)
(* preprint, and whether the article is eligible (domain/eligibility.go).  *)
(*                                                                         *)
(* A tier is the leading prefix of an evidence text, "reason" a text       *)
(* without a prefix, as the classifier itself writes one.  The keyword     *)
(* scan is the set of the keyword lists that the title, abstract and full  *)
(* text hit.  Confidences are in thousandths.                              *)
(***************************************************************************)
EXTENDS Integers

Tiers == {"", "tierA", "tierB", "reason"}
Lists == {"indexing", "preprint", "peer review"}

\* A source is peer reviewed by default, a preprint server, or neither.
SourceKinds == {"reviewed", "preprints", "mixed"}

\* What the classifier reads of an article.
Evidence ==
  [peer : Tiers, index : Tiers, preprint : Tiers, words : SUBSET Lists,
   source : SourceKinds, doi : BOOLEAN, card : BOOLEAN, retracted : BOOLEAN,
   note : BOOLEAN]

IsPreprint(e) ==
  \/ e.preprint = "tierA"
  \/ e.source = "preprints"
  \/ "preprint" \in e.words

\* Where the verdict on peer review comes from, by precedence.
PeerBasis(e) ==
  CASE IsPreprint(e)                -> "preprint"
    [] ~IsPreprint(e) /\ e.peer \in {"tierA", "tierB"} -> e.peer
    [] OTHER ->
         IF e.source = "reviewed" THEN "source"
         ELSE IF "peer review" \in e.words THEN "keyword" ELSE "none"

PeerReviewed(e) == PeerBasis(e) \notin {"preprint", "none"}

Confidence(basis) ==
  CASE basis \in {"preprint", "tierA"} -> 1000
    [] basis = "tierB" -> 700
    [] basis = "source" -> 600
    [] basis = "keyword" -> 300
    [] OTHER -> 0

IndexBasis(e) ==
  IF e.index \in {"tierA", "tierB"} THEN e.index
  ELSE IF "indexing" \in e.words THEN "keyword" ELSE "none"

Indexed(e) == IndexBasis(e) # "none"

Half(flag) == IF flag THEN 500 ELSE 0

\* EvaluateEligibility.
Decision(e) ==
  [peer |-> PeerReviewed(e), indexed |-> Indexed(e),
   doiAndCard |-> e.doi /\ e.card, notPreprint |-> ~IsPreprint(e),
   peerConf |-> Confidence(PeerBasis(e)), indexConf |-> Confidence(IndexBasis(e)),
   cardConf |-> Half(e.doi) + Half(e.card),
   preprintConf |-> IF IsPreprint(e) THEN 0 ELSE 1000]

\* Eligible of a decision about an article.
Eligible(e) ==
  LET d == Decision(e)
  IN  ~e.retracted /\ d.peer /\ d.indexed /\ d.doiAndCard /\ d.notPreprint

OverallConfidence(e) ==
  LET d == Decision(e)
  IN  (d.peerConf + d.indexConf + d.cardConf + d.preprintConf) \div 4

\* TierLabel of a search hit.
TierLabel(peer, conf) ==
  IF ~peer THEN "none"
  ELSE CASE conf >= 1000 -> "A"
         [] conf >= 700 /\ conf < 1000 -> "B"
         [] conf >= 600 /\ conf < 700 -> "source-default"
         [] conf >= 300 /\ conf < 600 -> "keyword"
         [] OTHER -> "none"

\* ApplyEligibility: the evidence as it is stored with the decision.
Stored(e) ==
  [e EXCEPT
     !.peer = IF @ = "" /\ PeerBasis(e) \in {"source", "keyword"}
              THEN "reason" ELSE @,
     !.preprint = IF @ = "" /\ IsPreprint(e) THEN "reason" ELSE @,
     !.note = @ \/ e.retracted]
=============================================================================
