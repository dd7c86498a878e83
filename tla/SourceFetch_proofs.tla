------------------------- MODULE SourceFetch_proofs -------------------------
(***************************************************************************)
(* Proofs about SourceFetch: types, the exclusion of those who list the    *)
(* sets of DergiPark, and what the records of every provider come to.      *)
(*                                                                         *)
(* What follows a request keeps the source and the article of the fetch    *)
(* and makes nobody a lister; so only Lock does, and only Enrich brings an *)
(* article.                                                                *)
(*                                                                         *)
(* What a fetch returns rests on Sound, which says of every fetch under    *)
(* way why it may still end well: no plan but two asks again after it has  *)
(* lost articles, a count of refusals that is short means an answer, and   *)
(* the pauses of SciELO are on the clock.  Of the plans the proofs only    *)
(* use FineStage, which every stage of every plan has.                     *)
(***************************************************************************)
EXTENDS SourceFetch, TLAPS

\* w became v by something else than Lock and Enrich.
Follows(w, v) ==
  /\ v \in Rows
  /\ v.source = w.source
  /\ v.article = w.article
  /\ v.pc = "list" => w.pc = "list"

-----------------------------------------------------------------------------
(* Stages.                                                                 *)

LEMMA PlanHasLength ==
  ASSUME NEW s
  PROVE  Len(Plan(s)) \in Nat \ {0}
<1>1. /\ Len(PubMedPlan) = 3 /\ Len(ExaPlan) = 1 /\ Len(WithPage) = 2
      /\ Len(SciEnginePlan) = 1 /\ Len(OpenEditionPlan) = 1
      /\ Len(DergiParkPlan) = 3 /\ Len(HrcakPlan) = 1 /\ Len(AjolPlan) = 2
      /\ Len(ScieloPlan) = 4 /\ Len(MathNetPlan) = 2 /\ Len(<<Single>>) = 1
  BY DEF PubMedPlan, ExaPlan, WithPage, SciEnginePlan, OpenEditionPlan,
         DergiParkPlan, HrcakPlan, AjolPlan, ScieloPlan, MathNetPlan
<1>2. Plan(s) \in {PubMedPlan, ExaPlan, WithPage, SciEnginePlan,
                   OpenEditionPlan, DergiParkPlan, HrcakPlan, AjolPlan,
                   ScieloPlan, MathNetPlan, <<Single>>}
  BY DEF Plan
<1> QED
  BY <1>1, <1>2

LEMMA AfterIsTime ==
  ASSUME NEW c \in 0..Timeout, NEW d \in Nat
  PROVE  After(c, d) \in 0..Timeout
BY DEF After, Timeout

LEMMA EnterFollows ==
  ASSUME NEW w \in Rows, NEW n \in Nat
  PROVE  Follows(w, Enter(w, n)) /\ Enter(w, n).pc # "list"
<1>1. 0 \in 0..Limit
  BY FetchAssumption
<1> QED
  BY <1>1 DEF Follows, Enter, Rows, Steps

LEMMA FollowFollows ==
  ASSUME NEW w \in Rows, NEW what
  PROVE  Follows(w, Follow(w, what)) /\ Follow(w, what).pc # "list"
<1>1. CASE what = "end"
  BY <1>1 DEF Follow, Follows, Rows, Steps
<1>2. CASE what = "fail"
  BY <1>2 DEF Follow, Follows, Rows, Steps
<1>3. CASE what = "next"
  <2>1. w.stage + 1 \in Nat
    BY DEF Rows
  <2> QED
    BY <1>3, <2>1, EnterFollows DEF Follow
<1>4. CASE what \notin {"end", "fail", "next"}
  <2>1. Follow(w, what) = Enter(w, Len(Plan(w.source)))
    BY <1>4 DEF Follow
  <2> QED
    BY <2>1, EnterFollows, PlanHasLength
<1> QED
  BY <1>1, <1>2, <1>3, <1>4

LEMMA CloseFollows ==
  ASSUME NEW w \in Rows
  PROVE  Follows(w, Close(w)) /\ Close(w).pc # "list"
BY FollowFollows DEF Close

LEMMA ContinueFollows ==
  ASSUME NEW w \in Rows, NEW wants
  PROVE  Follows(w, Continue(w, wants))
BY CloseFollows DEF Continue, Follows

LEMMA PausedFollows ==
  ASSUME NEW w \in Rows
  PROVE  Follows(w, Paused(w))
<1> DEFINE p == [w EXCEPT !.clock = After(@, Pause(w.asked))]
<1>1. Pause(w.asked) \in Nat
  BY DEF Pause, Rows
<1>2. After(w.clock, Pause(w.asked)) \in 0..Timeout
  BY <1>1, AfterIsTime DEF Rows
<1>3. p \in Rows /\ Follows(w, p)
  BY <1>2 DEF Rows, Follows
<1>4. \A what : Follows(p, Follow(p, what))
  BY <1>3, FollowFollows
<1>5. \A what : Follows(w, Follow(p, what))
  BY <1>3, <1>4 DEF Follows
<1>6. \/ Paused(w) = p
      \/ Paused(w) = Follow(p, Stage(w).cut)
      \/ Paused(w) = Follow(p, Stage(w).error)
  BY DEF Paused
<1> QED
  BY <1>3, <1>5, <1>6

LEMMA RefusedFollows ==
  ASSUME NEW w \in Rows
  PROVE  Follows(w, Refused(w))
<1>1. \/ Refused(w) = Follow(w, Stage(w).error)
      \/ Refused(w) = Close(w)
      \/ Refused(w) = Paused(w)
      \/ Refused(w) = Continue(w, TRUE)
  BY DEF Refused
<1> QED
  BY <1>1, FollowFollows, CloseFollows, PausedFollows, ContinueFollows

-----------------------------------------------------------------------------
(* Records.                                                                *)

\* What every connector builds: no mark of a review beside one of a preprint.
Marked == {b \in Reported : b.preprint = TierA => b.peer = ""}

LEMMA PlainIsMarked ==
  ASSUME NEW r, NEW dropped
  PROVE  /\ Plain(r, dropped) \in Marked
         /\ Plain(r, dropped).peer = "" /\ Plain(r, dropped).index = ""
         /\ Plain(r, dropped).preprint = ""
BY DEF Plain, Marked, Reported, Texts, TierA, TierB

LEMMA TokensAreTexts ==
  ASSUME NEW b \in Reported, NEW hits
  PROVE  /\ WithTokens(b, hits) \in Reported
         /\ WithTokens(b, hits).retracted = b.retracted
<1>1. ASSUME NEW text \in Texts, NEW hit
      PROVE  Merged(text, hit) \in Texts
  BY DEF Merged, Texts
<1>2. b.peer \in Texts /\ b.index \in Texts /\ b.preprint \in Texts
  BY DEF Reported
<1>3. /\ Merged(b.peer, "peer review" \in hits) \in Texts
      /\ Merged(b.index, "indexing" \in hits) \in Texts
      /\ Merged(b.preprint, "preprint" \in hits) \in Texts
  BY <1>1, <1>2
<1> QED
  BY <1>3 DEF WithTokens, Reported

LEMMA IndexesAreMarked ==
  ASSUME NEW r \in Records
  PROVE  /\ EuropePmc(r) \in Marked /\ EuropePmc(r).retracted = r.retracted
         /\ Pmc(r) \in Marked /\ Pmc(r).retracted = r.retracted
         /\ OpenAlex(r) \in Marked /\ OpenAlex(r).retracted = r.retracted
         /\ Medknow(r) \in Marked /\ Medknow(r).retracted = r.retracted
         /\ Crossref(r) \in Marked /\ Crossref(r).retracted = r.retracted
<1>1. r.retracted \in BOOLEAN
  BY DEF Records
<1>2. EuropePmc(r) \in Marked /\ EuropePmc(r).retracted = r.retracted
  BY <1>1 DEF EuropePmc, EpmcPeer, EpmcPreprint, Plain, Marked, Reported,
              Texts, TierA, TierB
<1>3. Pmc(r) \in Marked /\ Pmc(r).retracted = r.retracted
  <2>1. EuropePmc(r).preprint = EpmcPreprint(r) /\ EuropePmc(r).peer = EpmcPeer(r)
    BY DEF EuropePmc, Plain
  <2> QED
    BY <1>2, <2>1 DEF Pmc, EpmcPeer, EpmcPreprint, Marked, Reported, Texts,
                      TierA, TierB
<1>4. OpenAlex(r) \in Marked /\ OpenAlex(r).retracted = r.retracted
  BY <1>1 DEF OpenAlex, Says, Plain, Marked, Reported, Texts, TierA, TierB
<1>5. Medknow(r) \in Marked /\ Medknow(r).retracted = r.retracted
  BY <1>1 DEF Medknow, Plain, Marked, Reported, Texts, TierA, TierB
<1>6. Crossref(r) \in Marked /\ Crossref(r).retracted = r.retracted
  BY <1>1 DEF Crossref, Says, Plain, Marked, Reported, Texts, TierA, TierB
<1> QED
  BY <1>2, <1>3, <1>4, <1>5, <1>6

LEMMA OthersAreMarked ==
  ASSUME NEW r \in Records
  PROVE  /\ PubMed(r) \in Marked /\ Arxiv(r) \in Marked /\ Doaj(r) \in Marked
         /\ Hal(r) \in Marked /\ Iacr(r) \in Marked /\ Exa(r) \in Marked
<1>1. PubMed(r) \in Marked /\ Doaj(r) \in Marked
  BY DEF PubMed, Doaj, Plain, Marked, Reported, Texts, TierA, TierB
<1>2. Arxiv(r) \in Marked /\ Iacr(r) \in Marked
  BY DEF Arxiv, Iacr, Plain, Marked, Reported, Texts, TierA, TierB
<1>3. Hal(r) \in Marked
  BY DEF Hal, Plain, Marked, Reported, Texts, TierA, TierB
<1>4. Exa(r) \in Marked
  <2> DEFINE b == Plain(r, NotArticleLike \cup {"not scholarly"})
  <2>1. b \in Reported /\ b.preprint = ""
    BY PlainIsMarked DEF Marked
  <2>2. WithTokens(b, r.hits) \in Reported
    BY <2>1, TokensAreTexts
  <2>3. WithTokens(b, r.hits).preprint = Merged(b.preprint, "preprint" \in r.hits)
    BY <2>1 DEF WithTokens, Reported
  <2>4. WithTokens(b, r.hits).preprint # TierA
    BY <2>1, <2>3 DEF Merged, TierA
  <2> QED
    BY <2>2, <2>4 DEF Exa, Marked
<1> QED
  BY <1>1, <1>2, <1>3, <1>4

LEMMA BuiltIsMarked ==
  ASSUME NEW w, NEW r \in Records, w.source \in Sources
  PROVE  Built(w, r) \in Marked
<1> DEFINE s == w.source
<1>1. CASE s \in {"europe_pmc", "pmc", "openalex", "medknow", "crossref"}
  BY <1>1, IndexesAreMarked DEF Built, Build
<1>2. CASE s \in {"pubmed", "arxiv", "doaj", "hal", "iacr", "exa"}
  BY <1>2, OthersAreMarked DEF Built, Build
<1>3. CASE s \in {"core", "dblp", "zenodo", "cinii", "sciengine", "cyberleninka"}
  BY <1>3, PlainIsMarked
  DEF Built, Build, Core, Dblp, Zenodo, CiNii, SciEngine, CyberLeninka,
      CyberLeninkaPage, Generic
<1>4. CASE s \in {"persee", "openedition", "dergipark", "hrcak", "ajol",
                  "mathnet", "scielo"}
  BY <1>4, PlainIsMarked
  DEF Built, Build, Persee, OpenEdition, DergiPark, Hrcak, Ajol, MathNet,
      SciElo, SciEloHarvest, Generic
<1> QED
  BY <1>1, <1>2, <1>3, <1>4 DEF Sources

\* A retraction that a provider knows of is in what is built.
LEMMA RetractionIsBuilt ==
  ASSUME NEW w, NEW r \in Records, w.source \in Watching
  PROVE  Built(w, r).retracted = r.retracted
<1>1. w.source \in {"europe_pmc", "pmc", "openalex", "medknow", "crossref"}
  BY DEF Watching
<1>2. Built(w, r) = Build(w.source, r)
  BY <1>1 DEF Built
<1> QED
  BY <1>1, <1>2, IndexesAreMarked DEF Build

\* Of what stands in the evidence, a retraction decides, and so does a source
\* of preprints.
LEMMA RetractionDecides ==
  ASSUME NEW s, NEW b, NEW words, NEW doi, b.retracted = TRUE
  PROVE  ~Eligible(AsEvidence(s, b, words, doi))
<1>1. AsEvidence(s, b, words, doi).retracted = TRUE
  BY DEF AsEvidence
<1> QED
  BY <1>1 DEF Eligible

LEMMA ServerDecides ==
  ASSUME NEW s, NEW b, NEW words, NEW doi, KindOf(s) = "preprints"
  PROVE  ~Eligible(AsEvidence(s, b, words, doi))
<1>1. IsPreprint(AsEvidence(s, b, words, doi))
  BY DEF IsPreprint, AsEvidence
<1> QED
  BY <1>1 DEF Eligible, Decision

\* Neither a page nor a frozen file takes a retraction back.
LEMMA ReadingKeeps ==
  ASSUME NEW s \in Sources, NEW b \in Reported,
         NEW e \in FromPage(s, b) \cup FromFile(s, b)
  PROVE  e.key \in Sources /\ e.report \in Reported /\ e.report.retracted = b.retracted
<1>1. CASE e \in FromFile(s, b)
  BY <1>1, FetchAssumption DEF FromFile
<1>2. CASE e \in FromPage(s, b)
  <2>1. e.key = s /\ (e.report = b \/ \E page \in Pages : e.report = Enriched(s, b, page))
    BY <1>2 DEF FromPage
  <2> QED BY <2>1, TokensAreTexts DEF Enriched
<1> QED BY <1>1, <1>2

LEMMA ReportIsSound ==
  ASSUME NEW w, NEW r \in Records, w.source \in Sources,
         NEW e \in FromPage(w.source, Built(w, r)) \cup FromFile(w.source, Built(w, r))
  PROVE  LET b == Built(w, r)
         IN  /\ b \in Reported /\ e.report \in Reported /\ e.key \in Sources
             /\ VerdictFollows(w.source,
                  [known |-> TRUE, retracted |-> r.retracted, built |-> b,
                   report |-> e.report, key |-> e.key])
<1> DEFINE b == Built(w, r)
           report == e.report
           key == e.key
           a == [known |-> TRUE, retracted |-> r.retracted, built |-> b,
                 report |-> report, key |-> key]
<1>1. b \in Marked
  BY BuiltIsMarked
<1>2. b \in Reported /\ (b.preprint = TierA => b.peer = "")
  BY <1>1 DEF Marked
<1>3. report \in Reported /\ report.retracted = b.retracted /\ key \in Sources
  BY <1>2, ReadingKeeps
<1>4. ASSUME w.source \in Watching, r.retracted, NEW words
      PROVE  ~Eligible(AsEvidence(key, report, words, TRUE))
  <2>1. r.retracted = TRUE
    BY <1>4 DEF Records
  <2>2. report.retracted = TRUE
    BY <1>3, <1>4, <2>1, RetractionIsBuilt
  <2> QED
    BY <2>2, RetractionDecides
<1>5. ASSUME KindOf(key) = "preprints", NEW words
      PROVE  ~Eligible(AsEvidence(key, report, words, TRUE))
  BY <1>5, ServerDecides
<1>6. VerdictFollows(w.source, a)
  <2> HIDE DEF b, report, key
  <2> QED
    BY <1>2, <1>4, <1>5 DEF VerdictFollows, a
<1> QED
  BY <1>2, <1>3, <1>6

-----------------------------------------------------------------------------
(* The invariant.                                                          *)

\* A fetch that has begun has a source.
Sourced == \A f \in Fetches : fetch[f].pc # "idle" => fetch[f].source \in Sources

FetchInv == Typed /\ Sourced /\ ListingExcludes /\ VerdictsFollowRecords

\* A step of f that makes v of its state keeps the invariant, when it makes f
\* a lister only where there is none and changes the sets only as the lister.
LEMMA StepKeeps ==
  ASSUME FetchInv, NEW f \in Fetches, NEW v \in Rows, Update(f, v),
         v.pc # "idle" => v.source \in Sources,
         VerdictFollows(v.source, v.article),
         v.pc = "list" =>
           /\ sets' = sets
           /\ \/ fetch[f].pc = "list"
              \/ sets = 0 /\ \A g \in Fetches : fetch[g].pc # "list",
         sets' \in 0..SetCap,
         sets' = sets \/ fetch[f].pc = "list"
  PROVE  FetchInv'
<1>1. /\ fetch \in [Fetches -> Rows]
      /\ fetch' = [fetch EXCEPT ![f] = v]
  BY DEF FetchInv, Typed, Update
<1>2. fetch'[f] = v /\ \A g \in Fetches \ {f} : fetch'[g] = fetch[g]
  BY <1>1
<1>3. Typed'
  BY <1>1 DEF Typed
<1>4. Sourced'
  BY <1>2 DEF FetchInv, Sourced
<1>5. ListingExcludes'
  <2> SUFFICES ASSUME NEW g \in Fetches, NEW h \in Fetches, fetch'[g].pc = "list"
               PROVE  sets' = 0 /\ (fetch'[h].pc = "list" => g = h)
    BY DEF ListingExcludes
  <2>1. \A k, l \in Fetches :
          fetch[k].pc = "list" => sets = 0 /\ (fetch[l].pc = "list" => k = l)
    BY DEF FetchInv, ListingExcludes
  <2>2. CASE g = f
    <3>1. v.pc = "list"
      BY <1>2, <2>2
    <3>2. sets' = 0
      BY <3>1, <2>1
    <3>3. h = f \/ fetch[h].pc # "list"
      BY <3>1, <2>1
    <3> QED
      BY <1>2, <2>2, <3>2, <3>3
  <2>3. CASE g # f
    <3>1. fetch[g].pc = "list"
      BY <1>2, <2>3
    <3>2. fetch[f].pc # "list" /\ v.pc # "list"
      BY <2>1, <2>3, <3>1
    <3> QED
      BY <1>2, <2>1, <3>1, <3>2
  <2> QED
    BY <2>2, <2>3
<1>6. VerdictsFollowRecords'
  <2>1. \A g \in Fetches : VerdictFollows(fetch'[g].source, fetch'[g].article)
    BY <1>2 DEF FetchInv, VerdictsFollowRecords
  <2> QED
    BY <2>1 DEF VerdictsFollowRecords
<1> QED
  BY <1>3, <1>4, <1>5, <1>6 DEF FetchInv

\* A step that only follows keeps the invariant.
LEMMA FollowingKeeps ==
  ASSUME FetchInv, NEW f \in Fetches, NEW w \in Rows, NEW v, Update(f, v),
         w.source = fetch[f].source, w.article = fetch[f].article,
         w.pc = "list" => fetch[f].pc = "list", fetch[f].pc # "idle",
         Follows(w, v),
         \/ sets' = sets
         \/ fetch[f].pc = "list" /\ v.pc # "list" /\ sets' \in 0..SetCap
  PROVE  FetchInv'
<1>1. v \in Rows /\ v.source = fetch[f].source /\ v.article = fetch[f].article
  BY DEF Follows
<1>2. v.source \in Sources /\ VerdictFollows(v.source, v.article)
  BY <1>1 DEF FetchInv, Sourced, VerdictsFollowRecords
<1>3. sets \in 0..SetCap
  BY DEF FetchInv, Typed
<1>4. v.pc = "list" => fetch[f].pc = "list" /\ sets' = sets
  BY DEF Follows
<1> QED
  BY <1>1, <1>2, <1>3, <1>4, StepKeeps

\* A fetch that has nothing to report.
LEMMA NoArticleIsSound ==
  ASSUME NEW s
  PROVE  VerdictFollows(s, NoArticle)
<1>1. ~NoArticle.known
  BY DEF NoArticle
<1> QED
  BY <1>1, Zenon DEF VerdictFollows

LEMMA IdleIsRow ==
  Idle \in Rows /\ Idle.pc = "idle" /\ Idle.article = NoArticle
<1>1. 0 \in 0..Limit /\ 0 \in 0..Timeout /\ NoArticle \in Articles
  BY FetchAssumption DEF Timeout, Articles
<1> HIDE DEF NoArticle, Articles
<1> QED
  BY <1>1 DEF Idle, Rows, Steps

LEMMA DroppedIsRow ==
  LET u == [Idle EXCEPT !.pc = "reported", !.source = "openedition"]
  IN  /\ u \in Rows /\ u.pc = "reported" /\ u.source = "openedition"
      /\ u.article = NoArticle
<1>1. 0 \in 0..Limit /\ 0 \in 0..Timeout /\ NoArticle \in Articles
  BY FetchAssumption DEF Timeout, Articles
<1>2. "openedition" \in Sources /\ "reported" \in Steps
  BY DEF Sources, Steps
<1> HIDE DEF NoArticle, Articles, Sources, Steps
<1> QED
  BY <1>1, <1>2 DEF Idle, Rows

-----------------------------------------------------------------------------
(* The steps.                                                              *)

LEMMA BeginKeeps ==
  ASSUME FetchInv, NEW f \in Fetches, Begin(f)
  PROVE  FetchInv'
<1>1. PICK s \in Visits[f] : Update(f, Enter([Idle EXCEPT !.source = s], 1))
  BY DEF Begin
<1> DEFINE w == [Idle EXCEPT !.source = s]
           v == Enter(w, 1)
<1>2. s \in Sources
  BY <1>1, FetchAssumption
<1>3. w \in Rows /\ w.source = s /\ w.article = NoArticle
  <2>1. 0 \in 0..Limit /\ 0 \in 0..Timeout
    BY FetchAssumption DEF Timeout
  <2> QED
    BY <1>2, <2>1 DEF Idle, Rows, Steps, Articles
<1>4. v \in Rows /\ v.source = s /\ v.article = NoArticle /\ v.pc # "list"
  BY <1>3, EnterFollows DEF Follows
<1>5. VerdictFollows(v.source, v.article)
  BY <1>4, NoArticleIsSound
<1>6. sets' = sets /\ sets \in 0..SetCap
  BY DEF Begin, FetchInv, Typed
<1> HIDE DEF v
<1> QED
  BY <1>1, <1>2, <1>4, <1>5, <1>6, StepKeeps DEF v

LEMMA LockKeeps ==
  ASSUME FetchInv, NEW f \in Fetches, Lock(f)
  PROVE  FetchInv'
<1>1. PICK d \in Latencies :
        Update(f, Known([fetch[f] EXCEPT !.clock = After(@, d)]))
  BY DEF Lock
<1> DEFINE w == [fetch[f] EXCEPT !.clock = After(@, d)]
<1>2. /\ fetch[f].pc = "lock" /\ sets' = sets /\ sets \in 0..SetCap
      /\ \A g \in Fetches : fetch[g].pc # "list"
  BY DEF Lock, FetchInv, Typed
<1>3. fetch[f] \in Rows /\ d \in Nat
  BY FetchAssumption DEF FetchInv, Typed
<1>4. After(fetch[f].clock, d) \in 0..Timeout
  BY <1>3, AfterIsTime DEF Rows
<1>5. /\ w \in Rows /\ w.pc = "lock" /\ w.source = fetch[f].source
      /\ w.article = fetch[f].article
  BY <1>2, <1>3, <1>4 DEF Rows
<1>6. w.source \in Sources /\ VerdictFollows(w.source, w.article)
  BY <1>2, <1>5 DEF FetchInv, Sourced, VerdictsFollowRecords
<1> HIDE DEF w
<1>7. CASE sets > 0
  <2>1. Update(f, Enter(w, 2))
    BY <1>1, <1>7 DEF Known, w
  <2>2. Follows(w, Enter(w, 2)) /\ Enter(w, 2).pc # "list"
    BY <1>5, EnterFollows
  <2> QED
    BY <1>2, <1>5, <2>1, <2>2, FollowingKeeps
<1>8. CASE ~(sets > 0)
  <2> DEFINE v == [w EXCEPT !.pc = "list"]
  <2>1. Update(f, v) /\ sets = 0
    BY <1>1, <1>2, <1>8 DEF Known, w
  <2>2. v \in Rows /\ v.source = w.source /\ v.article = w.article
    BY <1>5 DEF Rows, Steps
  <2> HIDE DEF v
  <2> QED
    BY <1>2, <1>6, <2>1, <2>2, StepKeeps
<1> QED
  BY <1>7, <1>8

LEMMA ListKeeps ==
  ASSUME FetchInv, NEW f \in Fetches, List(f)
  PROVE  FetchInv'
<1>1. PICK d \in Latencies, n \in 0..SetCap :
        LET w == [fetch[f] EXCEPT !.clock = After(@, d), !.answered = TRUE]
        IN  /\ sets' = n
            /\ Update(f, Follow(w, IF n > 0 THEN Stage(w).some
                                   ELSE Stage(w).nothing))
  BY DEF List
<1> DEFINE w == [fetch[f] EXCEPT !.clock = After(@, d), !.answered = TRUE]
           what == IF n > 0 THEN Stage(w).some ELSE Stage(w).nothing
<1>2. fetch[f].pc = "list" /\ sets' \in 0..SetCap
  BY <1>1 DEF List
<1>3. fetch[f] \in Rows /\ d \in Nat
  BY FetchAssumption DEF FetchInv, Typed
<1>4. After(fetch[f].clock, d) \in 0..Timeout
  BY <1>3, AfterIsTime DEF Rows
<1>5. w \in Rows /\ w.source = fetch[f].source /\ w.article = fetch[f].article
  BY <1>3, <1>4 DEF Rows
<1>6. Update(f, Follow(w, what))
  BY <1>1
<1> HIDE DEF w, what
<1>7. Follows(w, Follow(w, what)) /\ Follow(w, what).pc # "list"
  BY <1>5, FollowFollows
<1> QED
  BY <1>2, <1>5, <1>6, <1>7, FollowingKeeps

LEMMA AnswerKeeps ==
  ASSUME FetchInv, NEW f \in Fetches, Answer(f)
  PROVE  FetchInv'
<1>1. PICK d \in Latencies, n \in 0..Limit, more \in BOOLEAN :
        LET w == [fetch[f] EXCEPT
                    !.clock = After(@, d), !.asked = @ + 1, !.answered = TRUE,
                    !.found = UpTo(@ + n),
                    !.got = @ \/ (n > 0 /\ Stage(fetch[f]).some = "end")]
        IN  Update(f, Continue(w, Wants(w, more)))
  BY DEF Answer
<1> DEFINE w == [fetch[f] EXCEPT
                    !.clock = After(@, d), !.asked = @ + 1, !.answered = TRUE,
                    !.found = UpTo(@ + n),
                    !.got = @ \/ (n > 0 /\ Stage(fetch[f]).some = "end")]
<1>2. fetch[f].pc = "ask" /\ sets' = sets
  BY DEF Answer
<1>3. fetch[f] \in Rows /\ d \in Nat
  BY FetchAssumption DEF FetchInv, Typed
<1>4. After(fetch[f].clock, d) \in 0..Timeout
  BY <1>3, AfterIsTime DEF Rows
<1>5. UpTo(fetch[f].found + n) \in 0..Limit
  <2>1. fetch[f].found \in 0..Limit /\ Limit \in Nat
    BY <1>3, FetchAssumption DEF Rows
  <2> QED
    BY <2>1 DEF UpTo
<1>6. (fetch[f].got \/ (n > 0 /\ Stage(fetch[f]).some = "end")) \in BOOLEAN
  BY Zenon
<1>7. /\ w \in Rows /\ w.source = fetch[f].source /\ w.pc = "ask"
      /\ w.article = fetch[f].article
  <2> DEFINE got == fetch[f].got \/ (n > 0 /\ Stage(fetch[f]).some = "end")
             v == [fetch[f] EXCEPT
                    !.clock = After(@, d), !.asked = @ + 1, !.answered = TRUE,
                    !.found = UpTo(@ + n), !.got = got]
  <2>1. got \in BOOLEAN
    BY <1>6
  <2>2. w = v
    OBVIOUS
  <2> HIDE DEF got
  <2>3. fetch[f].asked + 1 \in Nat
    BY <1>3 DEF Rows
  <2>4. v \in Rows /\ v.source = fetch[f].source /\ v.pc = "ask"
        /\ v.article = fetch[f].article
    BY <1>2, <1>3, <1>4, <1>5, <2>1, <2>3 DEF Rows
  <2> QED
    BY <2>2, <2>4
<1>8. Update(f, Continue(w, Wants(w, more)))
  BY <1>1
<1> HIDE DEF w
<1>9. Follows(w, Continue(w, Wants(w, more)))
  BY <1>7, ContinueFollows
<1> QED
  BY <1>2, <1>7, <1>8, <1>9, FollowingKeeps

LEMMA RefuseKeeps ==
  ASSUME FetchInv, NEW f \in Fetches, Refuse(f)
  PROVE  FetchInv'
<1>1. PICK d \in Latencies, counts \in BOOLEAN :
        Update(f, Refused([fetch[f] EXCEPT
                 !.clock = After(@, d), !.asked = @ + 1,
                 !.refusals = IF counts THEN @ + 1 ELSE @]))
  BY DEF Refuse
<1> DEFINE w == [fetch[f] EXCEPT
                   !.clock = After(@, d), !.asked = @ + 1,
                   !.refusals = IF counts THEN @ + 1 ELSE @]
<1>2. fetch[f].pc \in {"list", "ask"} /\ sets' = sets
  BY DEF Refuse
<1>3. fetch[f] \in Rows /\ d \in Nat
  BY FetchAssumption DEF FetchInv, Typed
<1>4. After(fetch[f].clock, d) \in 0..Timeout
  BY <1>3, AfterIsTime DEF Rows
<1>5. fetch[f].asked + 1 \in Nat /\ fetch[f].refusals + 1 \in Nat
  BY <1>3 DEF Rows
<1>6. /\ w \in Rows /\ w.source = fetch[f].source /\ w.pc = fetch[f].pc
      /\ w.article = fetch[f].article
  BY <1>3, <1>4, <1>5 DEF Rows
<1>7. Update(f, Refused(w))
  BY <1>1
<1> HIDE DEF w
<1>8. Follows(w, Refused(w))
  BY <1>6, RefusedFollows
<1> QED
  BY <1>2, <1>6, <1>7, <1>8, FollowingKeeps

LEMMA CutKeeps ==
  ASSUME FetchInv, NEW f \in Fetches, Cut(f)
  PROVE  FetchInv'
<1>1. PICK counts \in BOOLEAN :
        LET w == [fetch[f] EXCEPT !.clock = Timeout, !.asked = @ + 1,
                                  !.refusals = IF counts THEN @ + 1 ELSE @]
        IN  Update(f, IF Stage(w).cut = "end" THEN Close(w)
                      ELSE Follow(w, Stage(w).cut))
  BY DEF Cut
<1> DEFINE w == [fetch[f] EXCEPT !.clock = Timeout, !.asked = @ + 1,
                                 !.refusals = IF counts THEN @ + 1 ELSE @]
           v == IF Stage(w).cut = "end" THEN Close(w)
                ELSE Follow(w, Stage(w).cut)
<1>2. fetch[f].pc \in {"list", "ask"} /\ sets' = sets
  BY DEF Cut
<1>3. fetch[f] \in Rows
  BY DEF FetchInv, Typed
<1>4. Timeout \in 0..Timeout
  BY DEF Timeout
<1>5. fetch[f].asked + 1 \in Nat /\ fetch[f].refusals + 1 \in Nat
  BY <1>3 DEF Rows
<1>6. /\ w \in Rows /\ w.source = fetch[f].source /\ w.pc = fetch[f].pc
      /\ w.article = fetch[f].article
  BY <1>3, <1>4, <1>5 DEF Rows
<1>7. Update(f, v)
  BY <1>1
<1> HIDE DEF w
<1>8. Follows(w, v)
  BY <1>6, CloseFollows, FollowFollows
<1> HIDE DEF v
<1> QED
  BY <1>2, <1>6, <1>7, <1>8, FollowingKeeps

LEMMA OmitKeeps ==
  ASSUME FetchInv, NEW f \in Fetches, Omit(f)
  PROVE  FetchInv'
<1>1. PICK d \in Latencies \cup {Timeout}, n \in 0..Limit :
        Update(f, [fetch[f] EXCEPT !.pc = "done", !.clock = After(@, d),
                                   !.asked = @ + 1, !.found = n])
  BY DEF Omit
<1> DEFINE v == [fetch[f] EXCEPT !.pc = "done", !.clock = After(@, d),
                                 !.asked = @ + 1, !.found = n]
<1>2. fetch[f].pc = "ask" /\ sets' = sets
  BY DEF Omit
<1>3. fetch[f] \in Rows /\ d \in Nat
  BY FetchAssumption DEF FetchInv, Typed, Timeout
<1>4. After(fetch[f].clock, d) \in 0..Timeout
  BY <1>3, AfterIsTime DEF Rows
<1>5. fetch[f].asked + 1 \in Nat
  BY <1>3 DEF Rows
<1>6. Follows(fetch[f], v)
  BY <1>3, <1>4, <1>5 DEF Follows, Rows, Steps
<1> HIDE DEF v
<1> QED
  BY <1>1, <1>2, <1>3, <1>6, FollowingKeeps DEF v

LEMMA EnrichKeeps ==
  ASSUME FetchInv, NEW f \in Fetches, Enrich(f)
  PROVE  FetchInv'
<1> DEFINE w == fetch[f]
<1>1. PICK r \in Samples :
        \E e \in FromPage(w.source, Built(w, r)) \cup FromFile(w.source, Built(w, r)) :
          Update(f, [Idle EXCEPT
            !.pc = "reported", !.source = w.source,
            !.article = [known |-> TRUE, retracted |-> r.retracted,
                         built |-> Built(w, r), report |-> e.report, key |-> e.key]])
  BY DEF Enrich
<1>e. PICK e \in FromPage(w.source, Built(w, r)) \cup FromFile(w.source, Built(w, r)) :
        Update(f, [Idle EXCEPT
          !.pc = "reported", !.source = w.source,
          !.article = [known |-> TRUE, retracted |-> r.retracted,
                       built |-> Built(w, r), report |-> e.report, key |-> e.key]])
  BY <1>1
<1> DEFINE b == Built(w, r)
           a == [known |-> TRUE, retracted |-> r.retracted, built |-> b,
                 report |-> e.report, key |-> e.key]
           v == [Idle EXCEPT !.pc = "reported", !.source = w.source,
                             !.article = a]
<1>2. r \in Records /\ r.retracted \in BOOLEAN
  BY FetchAssumption DEF Records
<1>3. w.source \in Sources /\ sets' = sets /\ sets \in 0..SetCap
  BY DEF Enrich, FetchInv, Sourced, Typed
<1>4. /\ b \in Reported /\ e.report \in Reported /\ e.key \in Sources
      /\ VerdictFollows(w.source, a)
  BY <1>2, <1>3, ReportIsSound
<1>5. Update(f, v)
  BY <1>e
<1> HIDE DEF w, b
<1>6. a \in Articles
  BY <1>2, <1>4 DEF Articles
<1> HIDE DEF a
<1>7. v \in Rows /\ v.pc = "reported" /\ v.source = w.source /\ v.article = a
  <2>1. 0 \in 0..Limit /\ 0 \in 0..Timeout
    BY FetchAssumption DEF Timeout
  <2> QED
    BY <1>3, <1>6, <2>1 DEF Idle, Rows, Steps
<1> HIDE DEF v
<1> QED
  BY <1>3, <1>4, <1>5, <1>7, StepKeeps

\* A fetch that forgets all but its source keeps the invariant.
LEMMA ForgettingKeeps ==
  ASSUME FetchInv, NEW f \in Fetches, NEW v, Update(f, v), sets' = sets,
         \/ v = Idle
         \/ v = [Idle EXCEPT !.pc = "reported", !.source = "openedition"]
  PROVE  FetchInv'
<1>1. "openedition" \in Sources /\ "reported" \in Steps
  BY DEF Sources, Steps
<1> DEFINE u == [Idle EXCEPT !.pc = "reported", !.source = "openedition"]
<1>2. /\ u \in Rows /\ u.pc = "reported" /\ u.source = "openedition"
      /\ u.article = NoArticle
  BY DroppedIsRow
<1>3. v = Idle \/ v = u
  OBVIOUS
<1> HIDE DEF u
<1>4. v \in Rows /\ v.pc # "list" /\ v.article = NoArticle
  BY <1>2, <1>3, IdleIsRow
<1>5. v.pc # "idle" => v.source \in Sources
  BY <1>1, <1>2, <1>3, IdleIsRow
<1>6. VerdictFollows(v.source, v.article)
  BY <1>4, NoArticleIsSound
<1>7. sets \in 0..SetCap
  BY DEF FetchInv, Typed
<1> QED
  BY <1>4, <1>5, <1>6, <1>7, StepKeeps

-----------------------------------------------------------------------------
(* Theorems.                                                               *)

LEMMA InitHolds == Init => FetchInv
<1> SUFFICES ASSUME Init PROVE FetchInv
  OBVIOUS
<1>1. 0 \in 0..Limit /\ 0 \in 0..Timeout /\ 0 \in 0..SetCap
  BY FetchAssumption DEF Timeout
<1>2. Idle \in Rows /\ Idle.pc = "idle" /\ Idle.article = NoArticle
  BY IdleIsRow
<1>3. fetch = [f \in Fetches |-> Idle] /\ sets = 0
  BY DEF Init
<1>4. Typed
  BY <1>1, <1>2, <1>3 DEF Typed
<1>5. Sourced /\ ListingExcludes
  BY <1>2, <1>3 DEF Sourced, ListingExcludes
<1>6. VerdictsFollowRecords
  BY <1>2, <1>3, NoArticleIsSound DEF VerdictsFollowRecords
<1> QED
  BY <1>4, <1>5, <1>6 DEF FetchInv

LEMMA NextKeeps == FetchInv /\ [Next]_vars => FetchInv'
<1> SUFFICES ASSUME FetchInv, [Next]_vars PROVE FetchInv'
  OBVIOUS
<1>1. CASE UNCHANGED vars
  BY <1>1 DEF vars, FetchInv, Typed, Sourced, ListingExcludes,
              VerdictsFollowRecords
<1>2. ASSUME NEW f \in Fetches, Begin(f) \/ Lock(f)
      PROVE  FetchInv'
  BY <1>2, BeginKeeps, LockKeeps
<1>3. ASSUME NEW f \in Fetches, Ask(f)
      PROVE  FetchInv'
  BY <1>3, ListKeeps, AnswerKeeps, RefuseKeeps, CutKeeps, OmitKeeps DEF Ask
<1>4. ASSUME NEW f \in Fetches, Enrich(f)
      PROVE  FetchInv'
  BY <1>4, EnrichKeeps
<1>5. ASSUME NEW f \in Fetches, Drop(f) \/ Leave(f)
      PROVE  FetchInv'
  BY <1>5, ForgettingKeeps DEF Drop, Leave
<1> QED
  BY <1>1, <1>2, <1>3, <1>4, <1>5 DEF Next, Step

\* The invariant of the fetches: types, a source for each fetch that has
\* begun, one lister of the sets, sound articles.
THEOREM FetchInvariant == Spec => []FetchInv
<1> QED
  BY InitHolds, NextKeeps, PTL DEF Spec

\* However many fetches of DergiPark there are, the mutex lets one of them ask
\* for the sets, and none when they are known.
THEOREM ListingIsExclusive == Spec => []ListingExcludes
<1>1. FetchInv => ListingExcludes
  BY DEF FetchInv
<1> QED
  BY <1>1, FetchInvariant, PTL

\* Of every record that a provider may have, along every chain of pages and
\* fallbacks, a known retraction and a server of preprints decide the verdict.
THEOREM VerdictsAreSound == Spec => []VerdictsFollowRecords
<1>1. FetchInv => VerdictsFollowRecords
  BY DEF FetchInv
<1> QED
  BY <1>1, FetchInvariant, PTL

-----------------------------------------------------------------------------
(* The plans.                                                              *)

\* Sources whose later requests may lose what earlier ones have found.
Forgetful == {"sciengine", "ajol"}

\* What the plans have in common: where a stage leads to, and what a refusal
\* and the end of the visit may make of it.
FineStage(s, n, len, p) ==
  /\ p.asks \in Nat \ {0}
  /\ p.refused \in {"abort", "skip", "stop", "pause", "ignore"}
  /\ n = len => "next" \notin {p.error, p.cut, p.some, p.nothing}
  /\ n = len => /\ p.error \in {"end", "fail"} /\ p.cut \in {"end", "fail"}
                /\ p.some \in {"end", "fail"}
                /\ p.nothing \in {"end", "fail", "unless_failed"}
  /\ p.error # "end"
  /\ p.cut = "end" => s = "exa" \/ p.refused = "ignore"
  /\ p.again # "never" =>
       s \in Forgetful \/ (p.some = "end" /\ p.refused \in {"skip", "stop"})
  /\ p.refused = "stop" => s \in Silent \/ p.nothing = "next"
  /\ p.refused = "skip" => s \in Silent \/ p.nothing # "end"
  /\ p.refused = "ignore" => s = "pubmed" /\ n = 3
  /\ p.refused = "pause" => s = "scielo" /\ n = 1
  /\ s = "scielo" /\ n = 1 => p.refused = "pause" /\ p.asks = 3 /\ p.again = "never"
  /\ s = "pubmed" /\ n = 1 => p.refused = "abort" /\ p.error = "fail" /\ p.cut = "fail"
  /\ s = "dergipark" => len = 3 /\ (n = 1 => p.refused = "abort")

\* A stage spelled out.
Shape(asks, refused, again, error, cut, some, nothing) ==
  [asks |-> asks, refused |-> refused, again |-> again, error |-> error,
   cut |-> cut, some |-> some, nothing |-> nothing]

LEMMA SinglesAreFine ==
  ASSUME NEW s, s \notin {"scielo", "pubmed", "dergipark"}
  PROVE  FineStage(s, 1, 1, Single)
BY DEF FineStage, Single

LEMMA AtMostIsPositive ==
  ASSUME NEW n \in Nat \ {0}
  PROVE  AtMost(n) \in Nat \ {0}
BY FetchAssumption DEF AtMost

LEMMA IndexPlansAreFine ==
  /\ \A n \in 1..3 : FineStage("pubmed", n, 3, PubMedPlan[n])
  /\ FineStage("exa", 1, 1, ExaPlan[1])
  /\ \A s \in {"cinii", "cyberleninka"}, n \in 1..2 : FineStage(s, n, 2, WithPage[n])
  /\ FineStage("sciengine", 1, 1, SciEnginePlan[1])
  /\ FineStage("openedition", 1, 1, OpenEditionPlan[1])
<1>1. AtMost(8) \in Nat \ {0} /\ AtMost(20) \in Nat \ {0}
  BY AtMostIsPositive
<1> HIDE DEF AtMost
<1>2. FineStage("pubmed", 1, 3, PubMedPlan[1])
  BY DEF FineStage, PubMedPlan, Single
<1>3. FineStage("pubmed", 2, 3, PubMedPlan[2])
  <2>1. PubMedPlan[2] =
          Shape(1, "abort", "never", "fail", "fail", "next", "next")
    BY DEF PubMedPlan, Single, Shape
  <2> QED BY <2>1 DEF FineStage, Shape, Silent, Forgetful
<1>4. FineStage("pubmed", 3, 3, PubMedPlan[3])
  <2>1. PubMedPlan[3] =
          Shape(1, "ignore", "never", "fail", "end", "end", "end")
    BY DEF PubMedPlan, Single, Shape
  <2> QED BY <2>1 DEF FineStage, Shape, Silent, Forgetful
<1>5. FineStage("exa", 1, 1, ExaPlan[1])
  BY <1>1 DEF FineStage, ExaPlan, Single, Silent
<1>6. ASSUME NEW s \in {"cinii", "cyberleninka"}
      PROVE  FineStage(s, 1, 2, WithPage[1]) /\ FineStage(s, 2, 2, WithPage[2])
  BY DEF FineStage, WithPage, Single
<1>7. FineStage("sciengine", 1, 1, SciEnginePlan[1])
  BY <1>1 DEF FineStage, SciEnginePlan, Single, Forgetful
<1>8. FineStage("openedition", 1, 1, OpenEditionPlan[1])
  <2>1. OpenEditionPlan[1] =
          Shape(2, "skip", "always", "fail", "fail", "end", "unless_failed")
    BY DEF OpenEditionPlan, Single, Shape
  <2> QED BY <1>1, <2>1 DEF FineStage, Shape, Silent, Forgetful
<1>9. 1..3 = {1, 2, 3} /\ 1..2 = {1, 2}
  OBVIOUS
<1> HIDE DEF FineStage, PubMedPlan, WithPage
<1> QED
  BY <1>2, <1>3, <1>4, <1>5, <1>6, <1>7, <1>8, <1>9

LEMMA JournalPlansAreFine ==
  /\ \A n \in 1..3 : FineStage("dergipark", n, 3, DergiParkPlan[n])
  /\ FineStage("hrcak", 1, 1, HrcakPlan[1])
  /\ \A n \in 1..2 : FineStage("ajol", n, 2, AjolPlan[n])
  /\ \A n \in 1..4 : FineStage("scielo", n, 4, ScieloPlan[n])
  /\ \A n \in 1..2 : FineStage("mathnet", n, 2, MathNetPlan[n])
<1>1. AtMost(8) \in Nat \ {0} /\ AtMost(60) \in Nat \ {0} /\ AtMost(3) \in Nat \ {0}
      /\ PageCap \in Nat \ {0}
  BY AtMostIsPositive, FetchAssumption
<1>2. FineStage("dergipark", 1, 3, DergiParkPlan[1])
  <2>1. DergiParkPlan[1] =
          Shape(1, "abort", "never", "last", "fail", "next", "last")
    BY DEF DergiParkPlan, Single, Shape
  <2> QED BY <2>1 DEF FineStage, Shape, Silent, Forgetful
<1>3. FineStage("dergipark", 2, 3, DergiParkPlan[2])
  <2>1. DergiParkPlan[2] =
          Shape(AtMost(60), "skip", "always", "fail", "fail", "end", "unless_all_failed")
    BY DEF DergiParkPlan, Single, Shape
  <2> QED BY <1>1, <2>1 DEF FineStage, Shape, Silent, Forgetful
<1>4. FineStage("dergipark", 3, 3, DergiParkPlan[3])
  BY DEF FineStage, DergiParkPlan, Single
<1>5. FineStage("hrcak", 1, 1, HrcakPlan[1])
  BY <1>1 DEF FineStage, HrcakPlan, Single, Silent
<1>6. FineStage("ajol", 1, 2, AjolPlan[1])
  <2>1. AjolPlan[1] =
          Shape(AtMost(3), "abort", "more", "next", "fail", "end", "next")
    BY DEF AjolPlan, Single, Shape
  <2> QED BY <1>1, <2>1 DEF FineStage, Shape, Silent, Forgetful
<1>7. FineStage("ajol", 2, 2, AjolPlan[2])
  BY <1>1 DEF FineStage, AjolPlan, Single, Forgetful
<1>8. FineStage("scielo", 1, 4, ScieloPlan[1])
  <2>1. ScieloPlan[1] =
          Shape(3, "pause", "never", "next", "next", "end", "next")
    BY DEF ScieloPlan, Single, Shape
  <2> QED BY <2>1 DEF FineStage, Shape, Silent, Forgetful
<1>9. ASSUME NEW n \in {2, 3}
      PROVE  FineStage("scielo", n, 4, ScieloMirror)
  BY <1>1 DEF FineStage, ScieloMirror, Single
<1>10. ScieloPlan[2] = ScieloMirror /\ ScieloPlan[3] = ScieloMirror
  BY DEF ScieloPlan
<1>11. FineStage("scielo", 4, 4, ScieloPlan[4])
  <2>1. ScieloPlan[4] =
          Shape(2, "skip", "if_none", "fail", "fail", "end", "fail")
    BY DEF ScieloPlan, Single, Shape
  <2> QED BY <1>1, <2>1 DEF FineStage, Shape, Silent, Forgetful
<1>12. FineStage("mathnet", 1, 2, MathNetPlan[1])
  <2>1. MathNetPlan[1] =
          Shape(5, "skip", "if_none", "fail", "fail", "end", "next")
    BY DEF MathNetPlan, Single, Shape
  <2> QED BY <1>1, <2>1 DEF FineStage, Shape, Silent, Forgetful
<1>13. FineStage("mathnet", 2, 2, MathNetPlan[2])
  BY DEF FineStage, MathNetPlan, Single, Silent
<1>14. 1..4 = {1, 2, 3, 4} /\ 1..3 = {1, 2, 3} /\ 1..2 = {1, 2}
  OBVIOUS
<1> QED
  BY <1>2, <1>3, <1>4, <1>5, <1>6, <1>7, <1>8, <1>9, <1>10, <1>11, <1>12, <1>13,
     <1>14

LEMMA PlansAreFine ==
  ASSUME NEW s \in Sources, NEW n \in 1..Len(Plan(s))
  PROVE  FineStage(s, n, Len(Plan(s)), Plan(s)[n])
<1>1. /\ Len(PubMedPlan) = 3 /\ Len(ExaPlan) = 1 /\ Len(WithPage) = 2
      /\ Len(SciEnginePlan) = 1 /\ Len(OpenEditionPlan) = 1
      /\ Len(DergiParkPlan) = 3 /\ Len(HrcakPlan) = 1 /\ Len(AjolPlan) = 2
      /\ Len(ScieloPlan) = 4 /\ Len(MathNetPlan) = 2
      /\ Len(<<Single>>) = 1 /\ <<Single>>[1] = Single
  BY DEF PubMedPlan, ExaPlan, WithPage, SciEnginePlan, OpenEditionPlan,
         DergiParkPlan, HrcakPlan, AjolPlan, ScieloPlan, MathNetPlan
<1>2. 1..1 = {1}
  OBVIOUS
<1>3. CASE s \in {"pubmed", "exa", "cinii", "cyberleninka", "sciengine", "openedition"}
  BY <1>1, <1>2, <1>3, IndexPlansAreFine DEF Plan
<1>4. CASE s \in {"dergipark", "hrcak", "ajol", "scielo", "mathnet"}
  BY <1>1, <1>2, <1>4, JournalPlansAreFine DEF Plan
<1>5. CASE s \notin {"pubmed", "exa", "cinii", "cyberleninka", "sciengine",
                     "openedition", "dergipark", "hrcak", "ajol", "scielo", "mathnet"}
  <2>1. Plan(s) = <<Single>>
    BY <1>5 DEF Plan
  <2> QED BY <1>1, <1>2, <1>5, <2>1, SinglesAreFine
<1> QED BY <1>3, <1>4, <1>5

-----------------------------------------------------------------------------
(* What a fetch knows of its answers.                                      *)

\* What was found is not lost, unless time is over or the source forgets.
Unlost(w) == w.got => Late(w) \/ w.source \in Forgetful

\* Behind the first stage of these two there was an answer, or time is over.
Passed(w) ==
  /\ w.source = "pubmed" => w.answered
  /\ w.source = "scielo" => Late(w) \/ w.answered

\* A fetch between two steps: where it is in its plan, why a refusal count
\* that is short means an answer, and what is found means it will be returned.
Sound(w) ==
  /\ w.pc \in {"lock", "list", "ask"} =>
       /\ w.source \in Sources
       /\ w.stage \in 1..Len(Plan(w.source))
       /\ w.asked < Stage(w).asks
  /\ w.pc \in {"lock", "list"} => w.source = "dergipark" /\ w.stage = 1 /\ ~w.got
  /\ w.pc = "ask" /\ w.source # "exa" =>
       w.refusals <= w.asked /\ (w.refusals # w.asked => w.answered)
  /\ w.pc = "ask" =>
       \/ Unlost(w)
       \/ w.found > 0 /\ Stage(w).some = "end" /\ Stage(w).refused \in {"skip", "stop"}
  /\ w.pc = "done" => Unlost(w) \/ w.found > 0
  /\ w.pc = "failed" => Unlost(w)
  /\ w.pc = "done" /\ w.found = 0 => w.source \in Silent \/ w.answered
  /\ w.stage > 1 => Passed(w)
  /\ w.source = "scielo" /\ w.stage = 1 /\ w.pc = "ask" =>
       \/ w.answered \/ Late(w)
       \/ w.asked = 0
       \/ w.asked = 1 /\ w.clock >= 8
       \/ w.asked = 2 /\ w.clock >= 24

\* A fetch in the middle of a step: it is in a stage of its plan.
Staged(w) ==
  /\ w \in Rows
  /\ w.source \in Sources
  /\ w.stage \in 1..Len(Plan(w.source))
  /\ w.stage > 1 => Passed(w)

\* A stage under way is one of a plan.
LEMMA StageIsFine ==
  ASSUME NEW w, Staged(w)
  PROVE  FineStage(w.source, w.stage, Len(Plan(w.source)), Stage(w))
BY PlansAreFine DEF Staged, Stage

\* Time goes on, and what is late stays late.
LEMMA LateStays ==
  ASSUME NEW c \in 0..Timeout, NEW d \in Nat
  PROVE  /\ After(c, d) \in 0..Timeout
         /\ After(c, d) >= c
         /\ c = Timeout => After(c, d) = Timeout
         /\ After(c, d) # Timeout => After(c, d) = c + d
BY DEF After, Timeout

LEMMA EnterFields ==
  ASSUME NEW w \in Rows, NEW n
  PROVE  /\ Enter(w, n).pc =
              IF w.source = "dergipark" /\ n = 1 THEN "lock" ELSE "ask"
         /\ Enter(w, n).source = w.source /\ Enter(w, n).stage = n
         /\ Enter(w, n).asked = 0 /\ Enter(w, n).refusals = 0
         /\ Enter(w, n).found = 0 /\ Enter(w, n).got = w.got
         /\ Enter(w, n).answered = w.answered /\ Enter(w, n).clock = w.clock
BY DEF Enter, Rows

\* A fetch enters the next stage with what it knows.
LEMMA EnterSound ==
  ASSUME NEW w \in Rows, w.source \in Sources,
         NEW n \in 1..Len(Plan(w.source)),
         Unlost(w), n > 1 => Passed(w),
         n = 1 /\ w.source = "dergipark" => ~w.got
  PROVE  Sound(Enter(w, n))
<1> DEFINE v == Enter(w, n)
<1>1. /\ v.pc = IF w.source = "dergipark" /\ n = 1 THEN "lock" ELSE "ask"
      /\ v.source = w.source /\ v.stage = n /\ v.asked = 0 /\ v.refusals = 0
      /\ v.found = 0 /\ v.got = w.got /\ v.answered = w.answered
      /\ v.clock = w.clock
  BY EnterFields
<1> HIDE DEF v
<1>2. Stage(v) = Plan(w.source)[n]
  BY <1>1 DEF Stage
<1>3. Stage(v).asks \in Nat \ {0}
  BY <1>2, PlansAreFine DEF FineStage
<1>4. 0 < Stage(v).asks
  BY <1>3
<1>5. Unlost(v) /\ (n > 1 => Passed(v))
  BY <1>1 DEF Unlost, Passed, Late
<1> QED BY <1>1, <1>4, <1>5 DEF Sound, v

\* What follows a stage leaves the fetch sound, if nothing is lost, if an
\* empty end was answered, and if who goes on may do so.
LEMMA FollowSound ==
  ASSUME NEW w, Staged(w), NEW what,
         what = "end" => Unlost(w) \/ w.found > 0,
         what = "end" /\ w.found = 0 => w.source \in Silent \/ w.answered,
         what # "end" => Unlost(w),
         what = "next" => w.stage # Len(Plan(w.source)),
         what \notin {"end", "fail"} => Passed(w)
  PROVE  Sound(Follow(w, what))
<1> USE DEF Staged
<1>1. CASE what \in {"end", "fail"}
  <2> DEFINE v == Follow(w, what)
  <2>1. /\ v.pc = IF what = "end" THEN "done" ELSE "failed"
        /\ v.source = w.source /\ v.stage = w.stage /\ v.found = w.found
        /\ v.got = w.got /\ v.answered = w.answered /\ v.clock = w.clock
    BY <1>1 DEF Follow, Rows
  <2> HIDE DEF v
  <2>2. (Unlost(w) => Unlost(v)) /\ (v.stage > 1 => Passed(v))
    BY <2>1 DEF Unlost, Passed, Late
  <2> QED BY <1>1, <2>1, <2>2 DEF Sound, v
<1>2. CASE what = "next"
  <2>1. w.stage + 1 \in 1..Len(Plan(w.source)) /\ w.stage + 1 > 1
    BY <1>2, PlanHasLength
  <2> QED BY <1>2, <2>1, EnterSound DEF Follow
<1>3. CASE what \notin {"end", "fail", "next"}
  <2>1. Len(Plan(w.source)) \in 1..Len(Plan(w.source))
    BY PlanHasLength
  <2>2. w.source = "dergipark" => Len(Plan(w.source)) # 1
    BY StageIsFine DEF FineStage
  <2>3. Follow(w, what) = Enter(w, Len(Plan(w.source)))
    BY <1>3 DEF Follow
  <2> QED BY <1>3, <2>1, <2>2, <2>3, EnterSound
<1> QED BY <1>1, <1>2, <1>3

\* The end of a stage, whatever its articles.
LEMMA CloseSound ==
  ASSUME NEW w, Staged(w), Passed(w),
         Unlost(w) \/ (w.found > 0 /\ Stage(w).some = "end"),
         w.found = 0 /\ Nothing(w) = "end" => w.source \in Silent \/ w.answered
  PROVE  Sound(Close(w))
<1>1. w.stage = Len(Plan(w.source)) => "next" \notin {Stage(w).some, Stage(w).nothing}
  BY StageIsFine DEF FineStage
<1>2. w.found \in Nat
  BY FetchAssumption DEF Staged, Rows
<1>3. CASE w.found > 0
  <2>1. Close(w) = Follow(w, Stage(w).some)
    BY <1>3 DEF Close
  <2> QED BY <1>1, <1>2, <1>3, <2>1, FollowSound
<1>4. CASE w.found = 0
  <2>1. Close(w) = Follow(w, Nothing(w)) /\ Unlost(w)
    BY <1>4 DEF Close
  <2>2. Nothing(w) = "next" => Stage(w).nothing = "next"
    BY DEF Nothing
  <2> QED BY <1>1, <1>4, <2>1, <2>2, FollowSound
<1> QED BY <1>2, <1>3, <1>4

\* One more request of the stage, or its end.
LEMMA ContinueSound ==
  ASSUME Typed, NEW w, Staged(w), Passed(w), w.pc = "ask", NEW wants,
         Unlost(w) \/ (w.found > 0 /\ Stage(w).some = "end"),
         w.found = 0 /\ Nothing(w) = "end" => w.source \in Silent \/ w.answered,
         w.source # "exa" =>
           w.refusals <= w.asked /\ (w.refusals # w.asked => w.answered),
         wants => \/ Unlost(w)
                  \/ /\ w.found > 0 /\ Stage(w).some = "end"
                     /\ Stage(w).refused \in {"skip", "stop"}
  PROVE  Sound(Continue(w, wants))
<1>1. CASE wants /\ w.found < Limit /\ w.asked < Asks(w)
  <2>1. Continue(w, wants) = w
    BY <1>1 DEF Continue
  <2>2. w.asked < Stage(w).asks
    <3>1. w.asked \in Nat /\ Stage(w).asks \in Nat /\ sets \in Nat
      <4>1. Stage(w).asks \in Nat
        BY StageIsFine DEF FineStage
      <4> QED BY <4>1, FetchAssumption DEF Staged, Rows, Typed
    <3>2. Asks(w) = Stage(w).asks \/ (Asks(w) = sets /\ sets < Stage(w).asks)
      BY DEF Asks
    <3> QED BY <1>1, <3>1, <3>2
  <2>3. w.source = "scielo" => w.answered \/ Late(w)
    BY DEF Passed
  <2> QED BY <1>1, <2>1, <2>2, <2>3 DEF Sound, Staged
<1>2. CASE ~(wants /\ w.found < Limit /\ w.asked < Asks(w))
  <2>1. Continue(w, wants) = Close(w)
    BY <1>2 DEF Continue
  <2> QED BY <2>1, CloseSound
<1> QED BY <1>1, <1>2

\* The steps on a row that is sound: v is the row while the step is under way.

LEMMA SoundIsStaged ==
  ASSUME NEW w \in Rows, Sound(w), w.pc \in {"lock", "list", "ask"},
         NEW v \in Rows, v.source = w.source, v.stage = w.stage,
         w.answered => v.answered, Late(w) => Late(v)
  PROVE  Staged(v) /\ Stage(v) = Stage(w)
BY DEF Sound, Staged, Stage, Passed

\* Stages other than the first, of the two, have been passed to.
LEMMA StagedIsPassed ==
  ASSUME NEW w, Staged(w), Stage(w).refused \in {"stop", "skip"} \/ w.answered
  PROVE  Passed(w)
<1>1. CASE w.answered
  BY <1>1 DEF Passed
<1>2. CASE w.stage = 1 /\ Stage(w).refused \in {"stop", "skip"}
  <2>1. w.source \notin {"scielo", "pubmed"}
    BY <1>2, StageIsFine DEF FineStage
  <2> QED BY <2>1 DEF Passed
<1>3. CASE w.stage > 1
  BY <1>3 DEF Staged
<1> QED BY <1>1, <1>2, <1>3 DEF Staged

LEMMA ListSound ==
  ASSUME NEW w \in Rows, Sound(w), w.pc = "list", NEW d \in Nat, NEW what,
         what \in {Stage(w).some, Stage(w).nothing}
  PROVE  Sound(Follow([w EXCEPT !.clock = After(@, d), !.answered = TRUE], what))
<1> DEFINE v == [w EXCEPT !.clock = After(@, d), !.answered = TRUE]
<1>1. After(w.clock, d) \in 0..Timeout /\ (Late(w) => After(w.clock, d) = Timeout)
  BY LateStays DEF Rows, Late
<1>2. /\ v \in Rows /\ v.source = w.source /\ v.stage = w.stage /\ v.got = w.got
      /\ v.answered = TRUE /\ v.clock = After(w.clock, d)
  BY <1>1 DEF Rows
<1> HIDE DEF v
<1>3. Staged(v) /\ Stage(v) = Stage(w) /\ Passed(v)
  BY <1>1, <1>2, SoundIsStaged, StagedIsPassed DEF Late
<1>4. Unlost(v)
  BY <1>2 DEF Sound, Unlost
<1>5. what = "next" => v.stage # Len(Plan(v.source))
  BY <1>3, StageIsFine DEF FineStage
<1> QED BY <1>2, <1>3, <1>4, <1>5, FollowSound DEF v

LEMMA AnswerSound ==
  ASSUME Typed, NEW w \in Rows, Sound(w), w.pc = "ask",
         NEW v \in Rows, NEW n \in 0..Limit, NEW d \in Nat, NEW more,
         v.pc = "ask", v.source = w.source, v.stage = w.stage,
         v.asked = w.asked + 1, v.refusals = w.refusals, v.answered = TRUE,
         v.clock = After(w.clock, d), v.found = UpTo(w.found + n),
         v.got <=> w.got \/ (n > 0 /\ Stage(w).some = "end")
  PROVE  Sound(Continue(v, Wants(v, more)))
<1>1. /\ After(w.clock, d) \in 0..Timeout
      /\ Late(w) => After(w.clock, d) = Timeout
  BY LateStays DEF Rows, Late
<1>2. Staged(v) /\ Stage(v) = Stage(w) /\ Passed(v)
  BY <1>1, SoundIsStaged, StagedIsPassed DEF Late
<1>3. (w.found > 0 \/ n > 0) => v.found > 0
  <2>1. w.found \in Nat /\ n \in Nat /\ Limit \in Nat \ {0}
    BY FetchAssumption DEF Rows
  <2> QED BY <2>1 DEF UpTo
<1>4. Unlost(v) \/ (v.found > 0 /\ Stage(v).some = "end")
  <2>1. CASE v.got /\ ~w.got
    BY <1>2, <1>3, <2>1
  <2>2. CASE w.got
    <3>1. Unlost(w) \/ (w.found > 0 /\ Stage(w).some = "end")
      BY DEF Sound
    <3>2. Unlost(w) => Unlost(v)
      BY <1>1, <2>2 DEF Unlost, Late
    <3> QED BY <1>2, <1>3, <3>1, <3>2
  <2> QED BY <2>1, <2>2 DEF Unlost
<1>5. v.source # "exa" =>
        v.refusals <= v.asked /\ (v.refusals # v.asked => v.answered)
  <2>1. w.refusals \in Nat /\ w.asked \in Nat
    BY DEF Rows
  <2> QED BY <2>1 DEF Sound
<1>6. ASSUME Wants(v, more)
      PROVE  \/ Unlost(v)
             \/ /\ v.found > 0 /\ Stage(v).some = "end"
                /\ Stage(v).refused \in {"skip", "stop"}
  <2>1. Stage(v).again # "never"
    BY <1>6 DEF Wants
  <2>2. v.source \in Forgetful \/ Stage(v).refused \in {"skip", "stop"}
    BY <1>2, <2>1, StageIsFine DEF FineStage
  <2> QED BY <1>4, <2>2 DEF Unlost
<1> QED BY <1>2, <1>4, <1>5, <1>6, ContinueSound

\* The pauses add up: a third refusal of the feed comes after the visit.
LEMMA PausedSound ==
  ASSUME NEW w \in Rows, Sound(w), w.pc = "ask", Stage(w).refused = "pause",
         NEW v \in Rows, NEW d \in Nat,
         v.pc = "ask", v.source = w.source, v.stage = w.stage, v.got = w.got,
         v.asked = w.asked + 1, v.refusals = w.refusals + 1,
         v.answered = w.answered, v.clock = After(w.clock, d)
  PROVE  Sound(Paused(v))
<1> DEFINE p == [v EXCEPT !.clock = After(@, Pause(v.asked))]
<1>1. /\ After(w.clock, d) \in 0..Timeout /\ After(w.clock, d) >= w.clock
      /\ Late(w) => After(w.clock, d) = Timeout
  BY LateStays DEF Rows, Late
<1>2. Staged(v) /\ Stage(v) = Stage(w) /\ Staged(w)
  BY <1>1, SoundIsStaged DEF Late
<1>3. /\ w.source = "scielo" /\ w.stage = 1 /\ Stage(w).asks = 3
      /\ Stage(w).error # "end"
      /\ "next" \in {Stage(w).cut, Stage(w).error} => w.stage # Len(Plan(w.source))
      /\ Stage(w).cut # "end"
  BY <1>2, StageIsFine DEF FineStage
<1>4. w.asked \in {0, 1, 2} /\ w.asked \in Nat /\ w.refusals \in Nat
  BY <1>3 DEF Sound, Rows
<1>5. Pause(v.asked) = 8 * w.asked + 8 /\ Pause(v.asked) \in Nat
  BY <1>4 DEF Pause
<1>6. /\ After(v.clock, Pause(v.asked)) \in 0..Timeout
      /\ After(v.clock, Pause(v.asked)) >= v.clock
      /\ v.clock = Timeout => After(v.clock, Pause(v.asked)) = Timeout
      /\ After(v.clock, Pause(v.asked)) # Timeout =>
           After(v.clock, Pause(v.asked)) = v.clock + Pause(v.asked)
  BY <1>1, <1>5, LateStays
<1>7. /\ p \in Rows /\ p.pc = "ask" /\ p.source = v.source /\ p.stage = v.stage
      /\ p.got = v.got /\ p.asked = v.asked /\ p.refusals = v.refusals
      /\ p.answered = v.answered /\ p.clock = After(v.clock, Pause(v.asked))
  BY <1>6 DEF Rows
<1>8. \/ Late(p) /\ Paused(v) = Follow(p, Stage(v).cut)
      \/ ~Late(p) /\ v.asked < Stage(v).asks /\ Paused(v) = p
      \/ ~Late(p) /\ ~(v.asked < Stage(v).asks) /\ Paused(v) = Follow(p, Stage(v).error)
  BY DEF Paused
<1> HIDE DEF p
<1>9. Staged(p) /\ Stage(p) = Stage(w)
  BY <1>1, <1>6, <1>7, SoundIsStaged DEF Late
<1>10. Unlost(p)
  <2>1. Unlost(w)
    BY DEF Sound
  <2> QED BY <1>1, <1>6, <1>7, <2>1 DEF Unlost, Late
<1>11. CASE Late(p)
  <2>1. Passed(p)
    BY <1>3, <1>7, <1>11 DEF Passed
  <2> QED BY <1>2, <1>3, <1>7, <1>8, <1>9, <1>10, <1>11, <2>1, FollowSound
<1>12. CASE ~Late(p)
  <2>1. p.clock = v.clock + 8 * w.asked + 8 /\ w.clock \in Nat /\ v.clock \in Nat
    <3>1. w.clock \in Nat /\ v.clock \in Nat
      BY <1>1 DEF Rows, Timeout
    <3>2. p.clock = v.clock + Pause(v.asked)
      BY <1>6, <1>7, <1>12 DEF Late
    <3> QED BY <1>4, <1>5, <3>1, <3>2
  <2>2. ~Late(w)
    BY <1>1, <1>6, <1>7, <1>12 DEF Late
  <2>3. \/ w.answered \/ w.asked = 0
        \/ w.asked = 1 /\ w.clock >= 8
        \/ w.asked = 2 /\ w.clock >= 24
    BY <1>3, <2>2, Zenon DEF Sound
  <2>4. v.clock >= w.clock
    BY <1>1
  <2>5. p.clock < 45
    <3>1. p.clock \in 0..45 /\ p.clock # 45
      BY <1>6, <1>7, <1>12 DEF Late, Timeout
    <3> QED BY <3>1
  <2>6. \/ w.answered
        \/ w.asked = 0 /\ p.clock >= 8
        \/ w.asked = 1 /\ p.clock >= 24
    <3>1. w.asked = 0 => p.clock >= 8
      BY <2>1, <2>4
    <3>2. w.asked = 1 /\ w.clock >= 8 => p.clock >= 24
      BY <2>1, <2>4
    <3>3. ~(w.asked = 2 /\ w.clock >= 24)
      BY <2>1, <2>4, <2>5
    <3> QED BY <2>3, <3>1, <3>2, <3>3, Zenon
  <2>7. CASE v.asked < Stage(v).asks
    <3>1. Paused(v) = p
      BY <1>8, <1>12, <2>7
    <3>2. p.refusals <= p.asked /\ (p.refusals # p.asked => p.answered)
      <4>1. w.refusals <= w.asked /\ (w.refusals # w.asked => w.answered)
        BY <1>3 DEF Sound
      <4> QED BY <1>4, <1>7, <4>1
    <3>3. \/ p.answered
          \/ p.asked = 1 /\ p.clock >= 8
          \/ p.asked = 2 /\ p.clock >= 24
      BY <1>4, <1>7, <2>6
    <3> QED BY <1>2, <1>3, <1>7, <1>9, <1>10, <2>7, <3>1, <3>2, <3>3 DEF Sound, Staged
  <2>8. CASE ~(v.asked < Stage(v).asks)
    <3>1. w.asked = 2
      BY <1>2, <1>3, <1>4, <2>8
    <3>2. Passed(p)
      BY <1>3, <1>7, <2>6, <3>1 DEF Passed
    <3> QED BY <1>2, <1>3, <1>7, <1>8, <1>9, <1>10, <1>12, <2>8, <3>2, FollowSound
  <2> QED BY <2>7, <2>8
<1> QED BY <1>11, <1>12

\* A refusal that ends the stage.
LEMMA AbortSound ==
  ASSUME NEW w \in Rows, Sound(w), w.pc \in {"list", "ask"},
         Stage(w).refused = "abort",
         NEW v \in Rows, v.source = w.source, v.stage = w.stage, v.got = w.got,
         v.answered = w.answered, Late(w) => Late(v)
  PROVE  Sound(Follow(v, Stage(v).error))
<1>1. Staged(v) /\ Stage(v) = Stage(w)
  BY SoundIsStaged, Zenon
<1>2. Unlost(w)
  BY Zenon DEF Sound, Unlost
<1>3. Unlost(v)
  BY <1>2 DEF Unlost
<1>4. /\ Stage(v).error # "end"
      /\ Stage(v).error = "next" => v.stage # Len(Plan(v.source))
  BY <1>1, StageIsFine DEF FineStage
<1>5. Stage(v).error \notin {"end", "fail"} => Passed(v)
  <2>1. CASE v.stage = 1
    <3>1. v.source # "scielo" /\ (v.source = "pubmed" => Stage(v).error = "fail")
      BY <1>1, <2>1, StageIsFine DEF FineStage
    <3> QED BY <3>1 DEF Passed
  <2>2. CASE v.stage > 1
    BY <1>1, <2>2 DEF Staged
  <2> QED BY <1>1, <2>1, <2>2 DEF Staged
<1> QED BY <1>1, <1>3, <1>4, <1>5, FollowSound

\* A refusal, whatever the stage makes of it.
LEMMA RefusedSound ==
  ASSUME Typed, NEW w \in Rows, Sound(w), w.pc \in {"list", "ask"},
         Stage(w).refused # "ignore", NEW counts \in BOOLEAN,
         w.source # "exa" => counts,
         NEW v \in Rows, NEW d \in Nat,
         v.pc = w.pc, v.source = w.source, v.stage = w.stage, v.got = w.got,
         v.found = w.found, v.answered = w.answered,
         v.asked = w.asked + 1, v.clock = After(w.clock, d),
         v.refusals = IF counts THEN w.refusals + 1 ELSE w.refusals
  PROVE  Sound(Refused(v))
<1>1. Late(w) => Late(v)
  BY LateStays DEF Rows, Late
<1>2. Staged(v) /\ Stage(v) = Stage(w)
  BY <1>1, SoundIsStaged, Zenon
<1>3. FineStage(v.source, v.stage, Len(Plan(v.source)), Stage(v))
  BY <1>2, StageIsFine
<1>4. CASE Stage(v).refused = "abort"
  <2>1. Sound(Follow(v, Stage(v).error))
    BY <1>1, <1>2, <1>4, AbortSound
  <2> QED BY <1>4, <2>1 DEF Refused
<1>5. CASE Stage(v).refused \in {"skip", "stop"}
  <2>1. w.pc = "ask"
    <3>1. w.pc = "list" => Stage(v).refused = "abort"
      BY <1>3 DEF FineStage, Sound
    <3> QED BY <1>5, <3>1
  <2>2. Passed(v)
    BY <1>2, <1>5, StagedIsPassed
  <2>3. \/ Unlost(v)
        \/ /\ v.found > 0 /\ Stage(v).some = "end"
           /\ Stage(v).refused \in {"skip", "stop"}
    <3>1. Unlost(w) => Unlost(v)
      BY <1>1 DEF Unlost
    <3>2. \/ Unlost(w)
          \/ /\ w.found > 0 /\ Stage(w).some = "end"
             /\ Stage(w).refused \in {"skip", "stop"}
      BY <2>1 DEF Sound
    <3> QED BY <1>2, <3>1, <3>2
  <2>4. v.source # "exa" =>
          /\ v.refusals <= v.asked /\ (v.refusals # v.asked => v.answered)
          /\ v.refusals > 0
    <3>1. w.refusals \in Nat /\ w.asked \in Nat
      BY DEF Rows
    <3>2. w.source # "exa" =>
            w.refusals <= w.asked /\ (w.refusals # w.asked => w.answered)
      BY <2>1 DEF Sound
    <3>3. w.source # "exa" => v.refusals = w.refusals + 1
      OBVIOUS
    <3> QED BY <3>1, <3>2, <3>3
  <2>5. Nothing(v) = "end" => v.source \in Silent \/ v.answered
    <3>1. CASE v.source = "exa"
      BY <3>1 DEF Silent
    <3>2. CASE v.source # "exa"
      <4>1. CASE Stage(v).nothing = "unless_failed"
        BY <2>4, <3>2, <4>1 DEF Nothing
      <4>2. CASE Stage(v).nothing = "unless_all_failed"
        BY <2>4, <3>2, <4>2 DEF Nothing
      <4>3. CASE Stage(v).nothing \notin {"unless_failed", "unless_all_failed"}
        <5>1. Nothing(v) = Stage(v).nothing
          BY <4>3 DEF Nothing
        <5> QED BY <1>3, <1>5, <5>1 DEF FineStage
      <4> QED BY <4>1, <4>2, <4>3
    <3> QED BY <3>1, <3>2
  <2>6. CASE Stage(v).refused = "stop"
    <3>1. Refused(v) = Close(v)
      BY <2>6 DEF Refused
    <3> QED BY <1>2, <2>2, <2>3, <2>5, <3>1, CloseSound
  <2>7. CASE Stage(v).refused = "skip"
    <3>1. Refused(v) = Continue(v, TRUE)
      BY <2>7 DEF Refused
    <3> QED BY <1>2, <2>1, <2>2, <2>3, <2>4, <2>5, <3>1, ContinueSound
  <2> QED BY <1>5, <2>6, <2>7
<1>6. CASE Stage(v).refused = "pause"
  <2>1. w.source = "scielo"
    BY <1>3, <1>6 DEF FineStage
  <2>2. w.pc = "ask" /\ v.refusals = w.refusals + 1
    BY <2>1 DEF Sound
  <2>3. Refused(v) = Paused(v)
    BY <1>6 DEF Refused
  <2> QED BY <1>2, <1>6, <2>2, <2>3, PausedSound
<1>7. Stage(v).refused \in {"abort", "skip", "stop", "pause"}
  BY <1>2, <1>3 DEF FineStage
<1> QED BY <1>4, <1>5, <1>6, <1>7

\* The end of the visit in the middle of a request.
LEMMA CutSound ==
  ASSUME NEW w \in Rows, Sound(w), w.pc \in {"list", "ask"},
         Stage(w).refused # "ignore",
         NEW v \in Rows, v.source = w.source, v.stage = w.stage,
         v.answered = w.answered, v.clock = Timeout
  PROVE  Sound(IF Stage(v).cut = "end" THEN Close(v) ELSE Follow(v, Stage(v).cut))
<1>1. Late(v) /\ Unlost(v)
  BY DEF Late, Unlost
<1>2. Staged(v) /\ Stage(v) = Stage(w)
  BY <1>1, SoundIsStaged, Zenon
<1>3. FineStage(v.source, v.stage, Len(Plan(v.source)), Stage(v))
  BY <1>2, StageIsFine
<1>4. CASE Stage(v).cut = "end"
  <2>1. v.source = "exa"
    BY <1>2, <1>3, <1>4 DEF FineStage
  <2>2. Passed(v) /\ v.source \in Silent
    BY <2>1 DEF Passed, Silent
  <2> QED BY <1>1, <1>2, <1>4, <2>2, CloseSound
<1>5. CASE Stage(v).cut # "end"
  <2>1. Stage(v).cut = "next" => v.stage # Len(Plan(v.source))
    BY <1>3 DEF FineStage
  <2>2. Stage(v).cut # "fail" => Passed(v)
    <3>1. v.source = "pubmed" /\ v.stage = 1 => Stage(v).cut = "fail"
      BY <1>3 DEF FineStage
    <3>2. v.stage > 1 \/ v.stage = 1
      BY <1>2 DEF Staged
    <3>3. v.stage > 1 => Passed(v)
      BY <1>2 DEF Staged
    <3> QED BY <1>1, <3>1, <3>2, <3>3 DEF Passed
  <2> QED BY <1>1, <1>2, <1>5, <2>1, <2>2, FollowSound
<1> QED BY <1>4, <1>5

\* The abstracts of PubMed, which may be missing.
LEMMA OmitSound ==
  ASSUME NEW w \in Rows, Sound(w), w.pc = "ask", Stage(w).refused = "ignore",
         NEW v \in Rows, v.pc = "done", v.source = w.source, v.stage = w.stage,
         v.got = w.got, v.answered = w.answered, Late(w) => Late(v)
  PROVE  Sound(v)
<1>1. Staged(v) /\ Stage(v) = Stage(w)
  BY SoundIsStaged, Zenon
<1>2. v.source = "pubmed" /\ v.stage = 3
  BY <1>1, StageIsFine DEF FineStage
<1>3. Passed(v) /\ v.answered
  BY <1>1, <1>2 DEF Staged, Passed
<1>4. Unlost(v)
  BY DEF Sound, Unlost
<1> QED BY <1>2, <1>3, <1>4 DEF Sound

\* The list of sets, once the mutex is held.
LEMMA KnownSound ==
  ASSUME NEW w \in Rows, Sound(w), w.pc = "lock",
         NEW v \in Rows, v.source = w.source, v.stage = w.stage, v.got = w.got,
         v.asked = w.asked, v.answered = w.answered, Late(w) => Late(v)
  PROVE  Sound(Known(v))
<1>1. Staged(v) /\ Stage(v) = Stage(w)
  BY SoundIsStaged, Zenon
<1>2. v.source = "dergipark" /\ v.stage = 1 /\ ~v.got /\ w.asked < Stage(w).asks
  BY DEF Sound
<1>3. Passed(v) /\ Unlost(v)
  BY <1>2 DEF Passed, Unlost
<1>4. CASE sets > 0
  <2>1. Len(Plan(v.source)) = 3
    BY <1>1, <1>2, StageIsFine DEF FineStage
  <2>2. Sound(Enter(v, 2))
    BY <1>1, <1>2, <1>3, <2>1, EnterSound DEF Staged
  <2> QED BY <1>4, <2>2 DEF Known
<1>5. CASE ~(sets > 0)
  <2> DEFINE u == [v EXCEPT !.pc = "list"]
  <2>1. /\ u.pc = "list" /\ u.source = v.source /\ u.stage = v.stage
        /\ u.got = v.got /\ u.asked = v.asked
    BY DEF Rows
  <2>2. Known(v) = u
    BY <1>5 DEF Known
  <2> HIDE DEF u
  <2>3. Stage(u) = Stage(v)
    BY <2>1 DEF Stage
  <2> QED BY <1>1, <1>2, <2>1, <2>2, <2>3 DEF Sound, Staged
<1> QED BY <1>4, <1>5

\* A fetch that forgets all but its source has nothing to lose.
LEMMA RestingSound ==
  ASSUME NEW v, v.pc \in {"idle", "reported"}, v.stage = 0
  PROVE  Sound(v)
BY DEF Sound

LEMMA FirstStageSound ==
  ASSUME NEW s \in Sources
  PROVE  Sound(Enter([Idle EXCEPT !.source = s], 1))
<1> DEFINE u == [Idle EXCEPT !.source = s]
<1>1. Idle \in Rows /\ Idle.got = FALSE
  BY IdleIsRow DEF Idle
<1>2. u \in Rows /\ u.source = s /\ u.got = FALSE
  BY <1>1 DEF Rows
<1> HIDE DEF u
<1>3. Len(Plan(s)) \in Nat \ {0}
  BY PlanHasLength
<1>4. 1 \in 1..Len(Plan(u.source)) /\ Unlost(u)
  BY <1>2, <1>3 DEF Unlost
<1>5. Sound(Enter(u, 1))
  BY <1>2, <1>4, EnterSound
<1> QED BY <1>5 DEF u

-----------------------------------------------------------------------------
(* Each step leaves the fetches sound.                                     *)

\* Each fetch is sound, whatever the others do.
AllSound == \A f \in Fetches : Sound(fetch[f])

\* A step changes one fetch.
LEMMA OneSoundStep ==
  ASSUME Typed, AllSound, NEW f \in Fetches, NEW v, Update(f, v), Sound(v)
  PROVE  AllSound'
<1>1. /\ fetch \in [Fetches -> Rows]
      /\ fetch' = [fetch EXCEPT ![f] = v]
  BY DEF Typed, Update
<1>2. fetch'[f] = v /\ \A g \in Fetches \ {f} : fetch'[g] = fetch[g]
  BY <1>1
<1>3. \A g \in Fetches : Sound(fetch'[g])
  BY <1>2 DEF AllSound
<1> QED BY <1>3 DEF AllSound

LEMMA LockStaysSound ==
  ASSUME Typed, AllSound, NEW f \in Fetches, Lock(f)
  PROVE  AllSound'
<1>1. PICK d \in Latencies :
        Update(f, Known([fetch[f] EXCEPT !.clock = After(@, d)]))
  BY DEF Lock
<1> DEFINE w == fetch[f]
           v == [w EXCEPT !.clock = After(@, d)]
<1>2. w \in Rows /\ w.pc = "lock" /\ Sound(w) /\ d \in Nat
  BY FetchAssumption DEF Lock, Typed, AllSound
<1>3. Update(f, Known(v))
  BY <1>1
<1> HIDE DEF w
<1>4. After(w.clock, d) \in 0..Timeout /\ (Late(w) => After(w.clock, d) = Timeout)
  BY <1>2, LateStays DEF Rows, Late
<1>5. /\ v \in Rows /\ v.source = w.source /\ v.stage = w.stage /\ v.got = w.got
      /\ v.asked = w.asked /\ v.answered = w.answered
      /\ v.clock = After(w.clock, d)
  BY <1>2, <1>4 DEF Rows
<1> HIDE DEF v
<1>6. Sound(Known(v))
  BY <1>2, <1>4, <1>5, KnownSound DEF Late
<1> QED BY <1>3, <1>6, OneSoundStep

LEMMA ListStaysSound ==
  ASSUME Typed, AllSound, NEW f \in Fetches, List(f)
  PROVE  AllSound'
<1>1. PICK d \in Latencies, n \in 0..SetCap :
        LET w == [fetch[f] EXCEPT !.clock = After(@, d), !.answered = TRUE]
        IN  Update(f, Follow(w, IF n > 0 THEN Stage(w).some ELSE Stage(w).nothing))
  BY DEF List
<1> DEFINE w == fetch[f]
           v == [w EXCEPT !.clock = After(@, d), !.answered = TRUE]
           what == IF n > 0 THEN Stage(v).some ELSE Stage(v).nothing
<1>2. w \in Rows /\ w.pc = "list" /\ Sound(w) /\ d \in Nat
  BY FetchAssumption DEF List, Typed, AllSound
<1>3. Update(f, Follow(v, what))
  BY <1>1
<1> HIDE DEF w
<1>4. Stage(v) = Stage(w)
  BY <1>2 DEF Stage, Rows
<1>5. what \in {Stage(w).some, Stage(w).nothing}
  BY <1>4
<1> HIDE DEF what
<1>6. Sound(Follow(v, what))
  BY <1>2, <1>5, ListSound
<1> HIDE DEF v
<1> QED BY <1>3, <1>6, OneSoundStep

LEMMA AnswerStaysSound ==
  ASSUME Typed, AllSound, NEW f \in Fetches, Answer(f)
  PROVE  AllSound'
<1>1. PICK d \in Latencies, n \in 0..Limit, more \in BOOLEAN :
        LET w == [fetch[f] EXCEPT
                    !.clock = After(@, d), !.asked = @ + 1, !.answered = TRUE,
                    !.found = UpTo(@ + n),
                    !.got = @ \/ (n > 0 /\ Stage(fetch[f]).some = "end")]
        IN  Update(f, Continue(w, Wants(w, more)))
  BY DEF Answer
<1> DEFINE w == fetch[f]
           got == w.got \/ (n > 0 /\ Stage(w).some = "end")
           v == [w EXCEPT
                    !.clock = After(@, d), !.asked = @ + 1, !.answered = TRUE,
                    !.found = UpTo(@ + n), !.got = got]
<1>2. w \in Rows /\ w.pc = "ask" /\ Sound(w) /\ d \in Nat
  BY FetchAssumption DEF Answer, Typed, AllSound
<1>3. Update(f, Continue(v, Wants(v, more)))
  BY <1>1
<1>4. got \in BOOLEAN
  BY Zenon
<1> HIDE DEF w
<1>5. After(w.clock, d) \in 0..Timeout
  BY <1>2, AfterIsTime DEF Rows
<1>6. UpTo(w.found + n) \in 0..Limit /\ w.asked + 1 \in Nat
  <2>1. w.found \in 0..Limit /\ Limit \in Nat /\ w.asked \in Nat
    BY <1>2, FetchAssumption DEF Rows
  <2> QED BY <2>1 DEF UpTo
<1>7. /\ v \in Rows /\ v.pc = "ask" /\ v.source = w.source /\ v.stage = w.stage
      /\ v.asked = w.asked + 1 /\ v.refusals = w.refusals /\ v.answered = TRUE
      /\ v.clock = After(w.clock, d) /\ v.found = UpTo(w.found + n)
      /\ v.got = got
  <2> HIDE DEF got
  <2> QED BY <1>2, <1>4, <1>5, <1>6 DEF Rows
<1> HIDE DEF v
<1>8. v.got <=> w.got \/ (n > 0 /\ Stage(w).some = "end")
  BY <1>7, Zenon
<1> HIDE DEF got
<1>9. Sound(Continue(v, Wants(v, more)))
  BY <1>2, <1>7, <1>8, AnswerSound
<1> QED BY <1>3, <1>9, OneSoundStep

LEMMA RefuseStaysSound ==
  ASSUME Typed, AllSound, NEW f \in Fetches, Refuse(f)
  PROVE  AllSound'
<1>1. PICK d \in Latencies, counts \in BOOLEAN :
        /\ fetch[f].source # "exa" => counts
        /\ Update(f, Refused([fetch[f] EXCEPT
                      !.clock = After(@, d), !.asked = @ + 1,
                      !.refusals = IF counts THEN @ + 1 ELSE @]))
  BY DEF Refuse
<1> DEFINE w == fetch[f]
           v == [w EXCEPT !.clock = After(@, d), !.asked = @ + 1,
                          !.refusals = IF counts THEN @ + 1 ELSE @]
<1>2. /\ w \in Rows /\ w.pc \in {"list", "ask"} /\ Sound(w) /\ d \in Nat
      /\ Stage(w).refused # "ignore"
  BY FetchAssumption DEF Refuse, Typed, AllSound
<1>3. Update(f, Refused(v)) /\ (w.source # "exa" => counts)
  BY <1>1
<1> HIDE DEF w
<1>4. After(w.clock, d) \in 0..Timeout
  BY <1>2, AfterIsTime DEF Rows
<1>5. w.asked + 1 \in Nat /\ w.refusals + 1 \in Nat
  BY <1>2 DEF Rows
<1>6. /\ v \in Rows /\ v.pc = w.pc /\ v.source = w.source /\ v.stage = w.stage
      /\ v.got = w.got /\ v.found = w.found /\ v.answered = w.answered
      /\ v.asked = w.asked + 1 /\ v.clock = After(w.clock, d)
      /\ v.refusals = IF counts THEN w.refusals + 1 ELSE w.refusals
  BY <1>2, <1>4, <1>5 DEF Rows
<1> HIDE DEF v
<1>7. Sound(Refused(v))
  BY <1>2, <1>3, <1>6, RefusedSound
<1> QED BY <1>3, <1>7, OneSoundStep

LEMMA CutStaysSound ==
  ASSUME Typed, AllSound, NEW f \in Fetches, Cut(f)
  PROVE  AllSound'
<1>1. PICK counts \in BOOLEAN :
        LET w == [fetch[f] EXCEPT !.clock = Timeout, !.asked = @ + 1,
                                  !.refusals = IF counts THEN @ + 1 ELSE @]
        IN  Update(f, IF Stage(w).cut = "end" THEN Close(w)
                      ELSE Follow(w, Stage(w).cut))
  BY DEF Cut
<1> DEFINE w == fetch[f]
           v == [w EXCEPT !.clock = Timeout, !.asked = @ + 1,
                          !.refusals = IF counts THEN @ + 1 ELSE @]
           u == IF Stage(v).cut = "end" THEN Close(v) ELSE Follow(v, Stage(v).cut)
<1>2. /\ w \in Rows /\ w.pc \in {"list", "ask"} /\ Sound(w)
      /\ Stage(w).refused # "ignore"
  BY DEF Cut, Typed, AllSound
<1>3. Update(f, u)
  BY <1>1
<1> HIDE DEF w
<1>4. w.asked + 1 \in Nat /\ w.refusals + 1 \in Nat /\ Timeout \in 0..Timeout
  BY <1>2 DEF Rows, Timeout
<1>5. /\ v \in Rows /\ v.source = w.source /\ v.stage = w.stage
      /\ v.answered = w.answered /\ v.clock = Timeout
  BY <1>2, <1>4 DEF Rows
<1> HIDE DEF v
<1>6. Sound(u)
  BY <1>2, <1>5, CutSound
<1> HIDE DEF u
<1> QED BY <1>3, <1>6, OneSoundStep

LEMMA OmitStaysSound ==
  ASSUME Typed, AllSound, NEW f \in Fetches, Omit(f)
  PROVE  AllSound'
<1>1. PICK d \in Latencies \cup {Timeout}, n \in 0..Limit :
        Update(f, [fetch[f] EXCEPT !.pc = "done", !.clock = After(@, d),
                                   !.asked = @ + 1, !.found = n])
  BY DEF Omit
<1> DEFINE w == fetch[f]
           v == [w EXCEPT !.pc = "done", !.clock = After(@, d),
                          !.asked = @ + 1, !.found = n]
<1>2. /\ w \in Rows /\ w.pc = "ask" /\ Sound(w) /\ Stage(w).refused = "ignore"
      /\ d \in Nat
  BY FetchAssumption DEF Omit, Typed, AllSound, Timeout
<1>3. Update(f, v)
  BY <1>1
<1> HIDE DEF w
<1>4. After(w.clock, d) \in 0..Timeout /\ (Late(w) => After(w.clock, d) = Timeout)
  BY <1>2, LateStays DEF Rows, Late
<1>5. w.asked + 1 \in Nat
  BY <1>2 DEF Rows
<1>6. /\ v \in Rows /\ v.pc = "done" /\ v.source = w.source /\ v.stage = w.stage
      /\ v.got = w.got /\ v.answered = w.answered /\ v.clock = After(w.clock, d)
  BY <1>2, <1>4, <1>5 DEF Rows, Steps
<1> HIDE DEF v
<1>7. Sound(v)
  BY <1>2, <1>4, <1>6, OmitSound DEF Late
<1> QED BY <1>3, <1>7, OneSoundStep

LEMMA RestStaysSound ==
  ASSUME Typed, AllSound, NEW f \in Fetches, Enrich(f) \/ Drop(f) \/ Leave(f)
  PROVE  AllSound'
<1>1. Idle \in Rows /\ Idle.pc = "idle" /\ Idle.stage = 0
  BY IdleIsRow DEF Idle
<1>2. CASE Enrich(f)
  <2>1. PICK s, a : Update(f, [Idle EXCEPT !.pc = "reported", !.source = s,
                                           !.article = a])
    BY <1>2 DEF Enrich
  <2> DEFINE v == [Idle EXCEPT !.pc = "reported", !.source = s, !.article = a]
  <2>2. v.pc = "reported" /\ v.stage = 0
    BY <1>1 DEF Rows
  <2> HIDE DEF v
  <2>3. Sound(v)
    BY <2>2, RestingSound
  <2> QED BY <2>1, <2>3, OneSoundStep DEF v
<1>3. CASE Drop(f)
  <2> DEFINE v == [Idle EXCEPT !.pc = "reported", !.source = "openedition"]
  <2>1. v.pc = "reported" /\ v.stage = 0
    BY <1>1 DEF Rows
  <2>2. Update(f, v)
    BY <1>3 DEF Drop
  <2> HIDE DEF v
  <2>3. Sound(v)
    BY <2>1, RestingSound
  <2> QED BY <2>2, <2>3, OneSoundStep
<1>4. CASE Leave(f)
  <2>1. Update(f, Idle) /\ Sound(Idle)
    BY <1>1, <1>4, RestingSound DEF Leave
  <2> QED BY <2>1, OneSoundStep
<1> QED BY <1>2, <1>3, <1>4

\* Every step leaves every fetch sound.
LEMMA SoundStep == FetchInv /\ AllSound /\ [Next]_vars => AllSound'
<1> SUFFICES ASSUME FetchInv, AllSound, [Next]_vars PROVE AllSound'
  OBVIOUS
<1>1. Typed
  BY DEF FetchInv
<1>2. CASE UNCHANGED vars
  BY <1>2 DEF vars, AllSound
<1>3. ASSUME NEW f \in Fetches, Begin(f)
      PROVE  AllSound'
  <2>1. PICK s \in Visits[f] : Update(f, Enter([Idle EXCEPT !.source = s], 1))
    BY <1>3 DEF Begin
  <2>2. s \in Sources
    BY FetchAssumption
  <2> QED BY <1>1, <2>1, <2>2, FirstStageSound, OneSoundStep
<1>4. ASSUME NEW f \in Fetches, Ask(f)
      PROVE  AllSound'
  BY <1>1, <1>4, ListStaysSound, AnswerStaysSound, RefuseStaysSound,
     CutStaysSound, OmitStaysSound DEF Ask
<1>5. ASSUME NEW f \in Fetches, Lock(f)
      PROVE  AllSound'
  BY <1>1, <1>5, LockStaysSound
<1>6. ASSUME NEW f \in Fetches, Enrich(f) \/ Drop(f) \/ Leave(f)
      PROVE  AllSound'
  BY <1>1, <1>6, RestStaysSound
<1> QED BY <1>2, <1>3, <1>4, <1>5, <1>6 DEF Next, Step

LEMMA SoundStart == Init => AllSound
<1>1. Idle.pc = "idle" /\ Idle.stage = 0
  BY DEF Idle
<1>2. Sound(Idle)
  BY <1>1, RestingSound
<1> QED BY <1>2 DEF Init, AllSound

-----------------------------------------------------------------------------
(* Theorems about what fetches return.                                     *)

\* Every fetch knows what its plan has shown so far.
THEOREM FetchesAreSound == Spec => [](FetchInv /\ AllSound)
BY InitHolds, NextKeeps, SoundStart, SoundStep, PTL DEF Spec

\* Every variable of the connectors has its type, and no stage of a Fetch
\* function asks more often than its loop allows.
THEOREM FetchTypes == Spec => []TypeOK
<1>1. FetchInv /\ AllSound => TypeOK
  <2> SUFFICES ASSUME FetchInv, AllSound, NEW f \in Fetches,
                      fetch[f].pc \in {"list", "ask"}
               PROVE  /\ fetch[f].stage \in 1..Len(Plan(fetch[f].source))
                      /\ fetch[f].asked < Stage(fetch[f]).asks
    BY DEF TypeOK, FetchInv
  <2>1. Sound(fetch[f])
    BY DEF AllSound
  <2> QED BY <2>1 DEF Sound
<1> QED BY <1>1, FetchesAreSound, PTL

\* An outage is never recorded as a success of the source: a Fetch function
\* that returns no article and no error has had an answer, Silent ones apart.
THEOREM OutagesAreNoSuccess == Spec => []EmptyIsAnswered
<1>1. FetchInv /\ AllSound => EmptyIsAnswered
  <2> SUFFICES ASSUME AllSound, NEW f \in Fetches, fetch[f].pc = "done",
                      fetch[f].found = 0, fetch[f].source \notin Silent
               PROVE  fetch[f].answered
    BY DEF EmptyIsAnswered
  <2>1. Sound(fetch[f])
    BY DEF AllSound
  <2> QED BY <2>1, Zenon DEF Sound
<1> QED BY <1>1, FetchesAreSound, PTL

\* What a Fetch function has found in time is returned, whatever its later
\* requests come to, SciEngine and AJOL apart.
THEOREM FindsAreKept == Spec => []FoundIsReturned
<1>1. FetchInv /\ AllSound => FoundIsReturned
  <2> SUFFICES ASSUME FetchInv, AllSound, NEW f \in Fetches,
                      fetch[f].pc \in {"done", "failed"}, fetch[f].got,
                      ~Late(fetch[f]), fetch[f].source \notin {"sciengine", "ajol"}
               PROVE  fetch[f].pc = "done" /\ fetch[f].found > 0
    BY DEF FoundIsReturned
  <2>1. Sound(fetch[f])
    BY DEF AllSound
  <2>2. ~Unlost(fetch[f])
    BY DEF Unlost, Forgetful
  <2> QED BY <2>1, <2>2 DEF Sound
<1> QED BY <1>1, FetchesAreSound, PTL

\* The harvest and the search pages of SciELO are no way out of a throttled
\* feed: whoever gets to them in time had an answer of the feed.
THEOREM ThrottledFeedEnds == Spec => []ThrottledFeedIsFinal
<1>1. FetchInv /\ AllSound => ThrottledFeedIsFinal
  <2> SUFFICES ASSUME AllSound, NEW f \in Fetches, fetch[f].source = "scielo",
                      fetch[f].stage > 1, ~Late(fetch[f])
               PROVE  fetch[f].answered
    BY DEF ThrottledFeedIsFinal
  <2>1. Sound(fetch[f])
    BY DEF AllSound
  <2>2. Passed(fetch[f])
    BY <2>1 DEF Sound
  <2> QED BY <2>2, Zenon DEF Passed
<1> QED BY <1>1, FetchesAreSound, PTL

-----------------------------------------------------------------------------
(* A fetch comes nearer to its end with each of its requests.              *)

Asking == {"lock", "list", "ask"}

\* w became v by leaving its stage: for a later one, or for good.
Forward(w, v) ==
  /\ v.source = w.source
  /\ \/ v.pc \in {"done", "failed"}
     \/ v.pc \in Asking /\ v.stage > w.stage

\* w became v by leaving its stage, by one request of it, or by the mutex.
Nearer(w, v) ==
  \/ Forward(w, v)
  \/ /\ v.source = w.source /\ v.stage = w.stage
     /\ \/ v.pc = w.pc /\ v.asked > w.asked
        \/ w.pc = "lock" /\ v.pc = "list" /\ v.asked = w.asked

\* No step of a connector goes back in its plan or asks for nothing: with the
\* bounds of TypeOK, a fetch has a last request.
FetchesAdvance ==
  [][\A f \in Fetches :
       fetch[f].pc \in Asking =>
         fetch'[f] = fetch[f] \/ Nearer(fetch[f], fetch'[f])]_vars

LEMMA FollowAdvances ==
  ASSUME NEW w, Staged(w), NEW what,
         w.stage = Len(Plan(w.source)) => what \in {"end", "fail"}
  PROVE  Forward(w, Follow(w, what))
<1>1. w \in Rows /\ w.stage \in 1..Len(Plan(w.source))
  BY DEF Staged
<1>2. Len(Plan(w.source)) \in Nat
  BY PlanHasLength
<1>3. ASSUME NEW n, n > w.stage
      PROVE  Forward(w, Enter(w, n))
  BY <1>1, <1>3, EnterFields DEF Forward, Asking
<1>4. CASE what \in {"end", "fail"}
  BY <1>1, <1>4 DEF Follow, Forward, Rows
<1>5. CASE what = "next"
  <2>1. w.stage + 1 > w.stage
    BY <1>1, <1>2
  <2> QED BY <1>3, <1>5, <2>1 DEF Follow
<1>6. CASE what \notin {"end", "fail", "next"}
  <2>1. Len(Plan(w.source)) > w.stage
    BY <1>1, <1>2, <1>6
  <2>2. Follow(w, what) = Enter(w, Len(Plan(w.source)))
    BY <1>6 DEF Follow
  <2> QED BY <1>3, <2>1, <2>2
<1> QED BY <1>4, <1>5, <1>6

LEMMA CloseAdvances ==
  ASSUME NEW w, Staged(w)
  PROVE  Forward(w, Close(w))
<1>1. w.stage = Len(Plan(w.source)) =>
        /\ Stage(w).some \in {"end", "fail"}
        /\ Stage(w).nothing \in {"end", "fail", "unless_failed"}
  BY StageIsFine DEF FineStage
<1>2. w.stage = Len(Plan(w.source)) => Nothing(w) \in {"end", "fail"}
  BY <1>1 DEF Nothing
<1> QED BY <1>1, <1>2, FollowAdvances DEF Close

\* What a stage makes of a request, v: it asks again, or is left.
LEMMA ContinueAdvances ==
  ASSUME NEW v, Staged(v), NEW wants
  PROVE  Continue(v, wants) = v \/ Forward(v, Continue(v, wants))
BY CloseAdvances DEF Continue

LEMMA PausedAdvances ==
  ASSUME NEW v, Staged(v), Stage(v).refused = "pause"
  PROVE  \/ Forward(v, Paused(v))
         \/ /\ Paused(v).source = v.source /\ Paused(v).stage = v.stage
            /\ Paused(v).pc = v.pc /\ Paused(v).asked = v.asked
<1> DEFINE p == [v EXCEPT !.clock = After(@, Pause(v.asked))]
<1>1. v \in Rows /\ Pause(v.asked) \in Nat
  BY DEF Staged, Rows, Pause
<1>2. /\ After(v.clock, Pause(v.asked)) \in 0..Timeout
      /\ Late(v) => After(v.clock, Pause(v.asked)) = Timeout
  BY <1>1, LateStays DEF Rows, Late
<1>3. /\ p \in Rows /\ p.pc = v.pc /\ p.source = v.source /\ p.stage = v.stage
      /\ p.asked = v.asked /\ p.answered = v.answered
      /\ p.clock = After(v.clock, Pause(v.asked))
  BY <1>1, <1>2 DEF Rows
<1>4. \/ Paused(v) = p
      \/ Paused(v) = Follow(p, Stage(v).cut)
      \/ Paused(v) = Follow(p, Stage(v).error)
  BY DEF Paused
<1> HIDE DEF p
<1>5. Staged(p)
  BY <1>2, <1>3 DEF Staged, Passed, Late
<1>6. p.stage = Len(Plan(p.source)) =>
        Stage(v).cut \in {"end", "fail"} /\ Stage(v).error \in {"end", "fail"}
  BY <1>3, StageIsFine DEF FineStage
<1>7. Forward(p, Paused(v)) \/ Paused(v) = p
  BY <1>4, <1>5, <1>6, FollowAdvances
<1> QED BY <1>3, <1>7 DEF Forward

LEMMA RefusedAdvances ==
  ASSUME NEW v, Staged(v), Stage(v).refused # "ignore"
  PROVE  \/ Forward(v, Refused(v))
         \/ /\ Refused(v).source = v.source /\ Refused(v).stage = v.stage
            /\ Refused(v).pc = v.pc /\ Refused(v).asked = v.asked
<1>1. Stage(v).refused \in {"abort", "skip", "stop", "pause"}
  BY StageIsFine DEF FineStage
<1>2. CASE Stage(v).refused = "abort"
  <2>1. v.stage = Len(Plan(v.source)) => Stage(v).error \in {"end", "fail"}
    BY StageIsFine DEF FineStage
  <2>2. Refused(v) = Follow(v, Stage(v).error)
    BY <1>2 DEF Refused
  <2> QED BY <2>1, <2>2, FollowAdvances
<1>3. CASE Stage(v).refused = "stop"
  BY <1>3, CloseAdvances DEF Refused
<1>4. CASE Stage(v).refused = "pause"
  BY <1>4, PausedAdvances DEF Refused
<1>5. CASE Stage(v).refused = "skip"
  BY <1>5, ContinueAdvances DEF Refused
<1> QED BY <1>1, <1>2, <1>3, <1>4, <1>5

\* w made the request, v is w with the request counted.
LEMMA CountedIsNearer ==
  ASSUME NEW w \in Rows, NEW v, NEW u,
         v.source = w.source, v.stage = w.stage, v.pc = w.pc,
         v.asked = w.asked + 1,
         \/ Forward(v, u)
         \/ /\ u.source = v.source /\ u.stage = v.stage
            /\ u.pc = v.pc /\ u.asked = v.asked
  PROVE  Nearer(w, u)
<1>1. w.asked + 1 > w.asked
  BY DEF Rows
<1> QED BY <1>1 DEF Nearer, Forward

LEMMA OneFetchAdvances ==
  ASSUME Typed, NEW f \in Fetches, NEW u, Update(f, u),
         fetch[f].pc \in Asking => Nearer(fetch[f], u)
  PROVE  \A g \in Fetches :
           fetch[g].pc \in Asking =>
             fetch'[g] = fetch[g] \/ Nearer(fetch[g], fetch'[g])
<1>1. fetch'[f] = u /\ \A g \in Fetches \ {f} : fetch'[g] = fetch[g]
  BY DEF Typed, Update
<1> QED BY <1>1

LEMMA AnswerAdvances ==
  ASSUME Typed, AllSound, NEW f \in Fetches, Answer(f)
  PROVE  \E u : Update(f, u) /\ Nearer(fetch[f], u)
<1>1. PICK d \in Latencies, n \in 0..Limit, more \in BOOLEAN :
        LET w == [fetch[f] EXCEPT
                    !.clock = After(@, d), !.asked = @ + 1, !.answered = TRUE,
                    !.found = UpTo(@ + n),
                    !.got = @ \/ (n > 0 /\ Stage(fetch[f]).some = "end")]
        IN  Update(f, Continue(w, Wants(w, more)))
  BY DEF Answer
<1> DEFINE w == fetch[f]
           got == w.got \/ (n > 0 /\ Stage(w).some = "end")
           v == [w EXCEPT
                    !.clock = After(@, d), !.asked = @ + 1, !.answered = TRUE,
                    !.found = UpTo(@ + n), !.got = got]
<1>2. w \in Rows /\ w.pc = "ask" /\ Sound(w) /\ d \in Nat
  BY FetchAssumption DEF Answer, Typed, AllSound
<1>3. Update(f, Continue(v, Wants(v, more)))
  BY <1>1
<1>4. got \in BOOLEAN
  BY Zenon
<1> HIDE DEF w, got
<1>5. After(w.clock, d) \in 0..Timeout /\ (Late(w) => After(w.clock, d) = Timeout)
  BY <1>2, LateStays DEF Rows, Late
<1>6. UpTo(w.found + n) \in 0..Limit /\ w.asked + 1 \in Nat
  <2>1. w.found \in 0..Limit /\ Limit \in Nat /\ w.asked \in Nat
    BY <1>2, FetchAssumption DEF Rows
  <2> QED BY <2>1 DEF UpTo
<1>7. /\ v \in Rows /\ v.pc = "ask" /\ v.source = w.source /\ v.stage = w.stage
      /\ v.asked = w.asked + 1 /\ v.answered = TRUE /\ v.clock = After(w.clock, d)
  BY <1>2, <1>4, <1>5, <1>6 DEF Rows
<1> HIDE DEF v
<1>8. Staged(v)
  BY <1>2, <1>5, <1>7, SoundIsStaged DEF Late
<1>9. Nearer(w, Continue(v, Wants(v, more)))
  BY <1>2, <1>7, <1>8, ContinueAdvances, CountedIsNearer
<1> QED BY <1>3, <1>9 DEF w

LEMMA RefuseAdvances ==
  ASSUME Typed, AllSound, NEW f \in Fetches, Refuse(f)
  PROVE  \E u : Update(f, u) /\ Nearer(fetch[f], u)
<1>1. PICK d \in Latencies, counts \in BOOLEAN :
        Update(f, Refused([fetch[f] EXCEPT
                      !.clock = After(@, d), !.asked = @ + 1,
                      !.refusals = IF counts THEN @ + 1 ELSE @]))
  BY DEF Refuse
<1> DEFINE w == fetch[f]
           v == [w EXCEPT !.clock = After(@, d), !.asked = @ + 1,
                          !.refusals = IF counts THEN @ + 1 ELSE @]
<1>2. /\ w \in Rows /\ w.pc \in {"list", "ask"} /\ Sound(w) /\ d \in Nat
      /\ Stage(w).refused # "ignore"
  BY FetchAssumption DEF Refuse, Typed, AllSound
<1>3. Update(f, Refused(v))
  BY <1>1
<1> HIDE DEF w
<1>4. After(w.clock, d) \in 0..Timeout /\ (Late(w) => After(w.clock, d) = Timeout)
  BY <1>2, LateStays DEF Rows, Late
<1>5. w.asked + 1 \in Nat /\ w.refusals + 1 \in Nat
  BY <1>2 DEF Rows
<1>6. /\ v \in Rows /\ v.pc = w.pc /\ v.source = w.source /\ v.stage = w.stage
      /\ v.answered = w.answered /\ v.asked = w.asked + 1
      /\ v.clock = After(w.clock, d)
  BY <1>2, <1>4, <1>5 DEF Rows
<1> HIDE DEF v
<1>7. Staged(v) /\ Stage(v) = Stage(w)
  BY <1>2, <1>4, <1>6, SoundIsStaged DEF Late
<1>8. Nearer(w, Refused(v))
  BY <1>2, <1>6, <1>7, RefusedAdvances, CountedIsNearer
<1> QED BY <1>3, <1>8 DEF w

LEMMA CutAdvances ==
  ASSUME Typed, AllSound, NEW f \in Fetches, Cut(f)
  PROVE  \E u : Update(f, u) /\ Nearer(fetch[f], u)
<1>1. PICK counts \in BOOLEAN :
        LET w == [fetch[f] EXCEPT !.clock = Timeout, !.asked = @ + 1,
                                  !.refusals = IF counts THEN @ + 1 ELSE @]
        IN  Update(f, IF Stage(w).cut = "end" THEN Close(w)
                      ELSE Follow(w, Stage(w).cut))
  BY DEF Cut
<1> DEFINE w == fetch[f]
           v == [w EXCEPT !.clock = Timeout, !.asked = @ + 1,
                          !.refusals = IF counts THEN @ + 1 ELSE @]
           u == IF Stage(v).cut = "end" THEN Close(v) ELSE Follow(v, Stage(v).cut)
<1>2. w \in Rows /\ w.pc \in {"list", "ask"} /\ Sound(w)
  BY DEF Cut, Typed, AllSound
<1>3. Update(f, u)
  BY <1>1
<1> HIDE DEF w
<1>4. w.asked + 1 \in Nat /\ w.refusals + 1 \in Nat /\ Timeout \in 0..Timeout
  BY <1>2 DEF Rows, Timeout
<1>5. /\ v \in Rows /\ v.pc = w.pc /\ v.source = w.source /\ v.stage = w.stage
      /\ v.answered = w.answered /\ v.asked = w.asked + 1 /\ v.clock = Timeout
  BY <1>2, <1>4 DEF Rows
<1> HIDE DEF v
<1>6. Staged(v)
  BY <1>2, <1>5, SoundIsStaged DEF Late
<1>7. v.stage = Len(Plan(v.source)) => Stage(v).cut \in {"end", "fail"}
  BY <1>6, StageIsFine DEF FineStage
<1>8. Forward(v, u)
  BY <1>6, <1>7, CloseAdvances, FollowAdvances
<1> HIDE DEF u
<1>9. Nearer(w, u)
  BY <1>2, <1>5, <1>8, CountedIsNearer
<1> QED BY <1>3, <1>9 DEF w

LEMMA ListAdvances ==
  ASSUME Typed, AllSound, NEW f \in Fetches, List(f)
  PROVE  \E u : Update(f, u) /\ Nearer(fetch[f], u)
<1>1. PICK d \in Latencies, n \in 0..SetCap :
        LET w == [fetch[f] EXCEPT !.clock = After(@, d), !.answered = TRUE]
        IN  Update(f, Follow(w, IF n > 0 THEN Stage(w).some ELSE Stage(w).nothing))
  BY DEF List
<1> DEFINE w == fetch[f]
           v == [w EXCEPT !.clock = After(@, d), !.answered = TRUE]
           what == IF n > 0 THEN Stage(v).some ELSE Stage(v).nothing
<1>2. w \in Rows /\ w.pc = "list" /\ Sound(w) /\ d \in Nat
  BY FetchAssumption DEF List, Typed, AllSound
<1>3. Update(f, Follow(v, what))
  BY <1>1
<1> HIDE DEF w
<1>4. After(w.clock, d) \in 0..Timeout /\ (Late(w) => After(w.clock, d) = Timeout)
  BY <1>2, LateStays DEF Rows, Late
<1>5. /\ v \in Rows /\ v.source = w.source /\ v.stage = w.stage
      /\ v.answered = TRUE /\ v.clock = After(w.clock, d)
  BY <1>2, <1>4 DEF Rows
<1> HIDE DEF v, what
<1>6. Staged(v)
  BY <1>2, <1>4, <1>5, SoundIsStaged DEF Late
<1>7. v.stage # Len(Plan(v.source))
  <2>1. v.source = "dergipark" /\ v.stage = 1
    BY <1>2, <1>5 DEF Sound
  <2>2. Len(Plan(v.source)) = 3
    BY <1>6, <2>1, StageIsFine DEF FineStage
  <2> QED BY <2>1, <2>2
<1>8. Forward(v, Follow(v, what))
  BY <1>6, <1>7, FollowAdvances
<1>9. Nearer(w, Follow(v, what))
  BY <1>5, <1>8 DEF Nearer, Forward
<1> QED BY <1>3, <1>9 DEF w

LEMMA LockAdvances ==
  ASSUME Typed, AllSound, NEW f \in Fetches, Lock(f)
  PROVE  \E u : Update(f, u) /\ Nearer(fetch[f], u)
<1>1. PICK d \in Latencies :
        Update(f, Known([fetch[f] EXCEPT !.clock = After(@, d)]))
  BY DEF Lock
<1> DEFINE w == fetch[f]
           v == [w EXCEPT !.clock = After(@, d)]
<1>2. w \in Rows /\ w.pc = "lock" /\ Sound(w) /\ d \in Nat
  BY FetchAssumption DEF Lock, Typed, AllSound
<1>3. Update(f, Known(v))
  BY <1>1
<1> HIDE DEF w
<1>4. After(w.clock, d) \in 0..Timeout
  BY <1>2, AfterIsTime DEF Rows
<1>5. /\ v \in Rows /\ v.source = w.source /\ v.stage = w.stage /\ v.asked = w.asked
  BY <1>2, <1>4 DEF Rows
<1>6. w.stage = 1
  BY <1>2 DEF Sound
<1> HIDE DEF v
<1>7. ASSUME Known(v) = Enter(v, 2)
      PROVE  Nearer(w, Known(v))
  <2>1. Enter(v, 2).pc = "ask" /\ Enter(v, 2).source = w.source /\ Enter(v, 2).stage = 2
    BY <1>5, EnterFields
  <2> QED BY <1>6, <1>7, <2>1 DEF Nearer, Forward, Asking
<1>8. ASSUME Known(v) = [v EXCEPT !.pc = "list"]
      PROVE  Nearer(w, Known(v))
  <2>1. /\ Known(v).pc = "list" /\ Known(v).source = w.source
        /\ Known(v).stage = w.stage /\ Known(v).asked = w.asked
    BY <1>5, <1>8 DEF Rows
  <2> QED BY <1>2, <2>1 DEF Nearer
<1>9. Nearer(w, Known(v))
  BY <1>7, <1>8 DEF Known
<1> QED BY <1>3, <1>9 DEF w

LEMMA OmitAdvances ==
  ASSUME Typed, NEW f \in Fetches, Omit(f)
  PROVE  \E u : Update(f, u) /\ Nearer(fetch[f], u)
<1>1. PICK d \in Latencies \cup {Timeout}, n \in 0..Limit :
        Update(f, [fetch[f] EXCEPT !.pc = "done", !.clock = After(@, d),
                                   !.asked = @ + 1, !.found = n])
  BY DEF Omit
<1> DEFINE w == fetch[f]
           v == [w EXCEPT !.pc = "done", !.clock = After(@, d),
                          !.asked = @ + 1, !.found = n]
<1>2. w \in Rows
  BY DEF Typed
<1>3. Update(f, v)
  BY <1>1
<1> HIDE DEF w
<1>4. v.pc = "done" /\ v.source = w.source
  BY <1>2 DEF Rows
<1> HIDE DEF v
<1>5. Nearer(w, v)
  BY <1>4 DEF Nearer, Forward
<1> QED BY <1>3, <1>5 DEF w

LEMMA AdvanceStep ==
  FetchInv /\ AllSound /\ [Next]_vars =>
    \A f \in Fetches :
      fetch[f].pc \in Asking =>
        fetch'[f] = fetch[f] \/ Nearer(fetch[f], fetch'[f])
<1> SUFFICES ASSUME FetchInv, AllSound, [Next]_vars
             PROVE  \A f \in Fetches :
                      fetch[f].pc \in Asking =>
                        fetch'[f] = fetch[f] \/ Nearer(fetch[f], fetch'[f])
  OBVIOUS
<1> DEFINE Goal == \A f \in Fetches :
                     fetch[f].pc \in Asking =>
                       fetch'[f] = fetch[f] \/ Nearer(fetch[f], fetch'[f])
<1>1. Typed
  BY DEF FetchInv
<1>2. CASE UNCHANGED vars
  BY <1>2 DEF vars
<1>3. ASSUME NEW f \in Fetches, Ask(f) \/ Lock(f)
      PROVE  Goal
  <2>1. PICK u : Update(f, u) /\ Nearer(fetch[f], u)
    BY <1>1, <1>3, ListAdvances, AnswerAdvances, RefuseAdvances, CutAdvances,
       OmitAdvances, LockAdvances DEF Ask
  <2> QED BY <1>1, <2>1, OneFetchAdvances
<1>4. ASSUME NEW f \in Fetches, Begin(f) \/ Enrich(f) \/ Drop(f) \/ Leave(f)
      PROVE  Goal
  <2>1. fetch[f].pc \notin Asking
    BY <1>4 DEF Begin, Enrich, Drop, Leave, Asking
  <2>2. PICK u : Update(f, u)
    BY <1>4 DEF Begin, Enrich, Drop, Leave
  <2> QED BY <1>1, <2>1, <2>2, OneFetchAdvances
<1> QED BY <1>2, <1>3, <1>4 DEF Next, Step

\* Each request brings a Fetch function nearer to its end, and no mirror,
\* page or fallback leads back to an earlier one.
THEOREM RequestsAdvance == Spec => FetchesAdvance
<1>1. FetchInv /\ AllSound /\ [Next]_vars =>
        [\A f \in Fetches :
           fetch[f].pc \in Asking =>
             fetch'[f] = fetch[f] \/ Nearer(fetch[f], fetch'[f])]_vars
  BY AdvanceStep
<1> QED BY <1>1, FetchesAreSound, PTL DEF Spec, FetchesAdvance
=============================================================================
