---------------------------- MODULE SourceFetch ----------------------------
(***************************************************************************)
(* One source asked for articles, from the first request to the report of  *)
(* an article: the Fetch functions of the package connector with their     *)
(* pages, attempts and fallbacks, the time limit of a visit, the list of   *)
(* sets that all fetches of DergiPark share, and enrichOne.                *)
(*                                                                         *)
(* What a connector does is a plan: a sequence of stages, each with the    *)
(* requests it may make and what follows when they are refused.  Requests  *)
(* are those of the transport, its own attempts included.  A refusal is    *)
(* one of the connector's errors; a request is cut off when the time of    *)
(* the visit is over.  Of the articles only their number counts until one  *)
(* of them is reported.  Seconds are whole.                                *)
(***************************************************************************)
EXTENDS SourceReports, FiniteSets, Sequences

CONSTANTS
  Fetches,     \* concurrent fetches, of any jobs
  Visits,      \* the sources that each of them visits
  Limit,       \* articles wanted of a source
  PageCap,     \* bound: requests of a stage that has more
  SetCap,      \* bound: sets of DergiPark
  Latencies,   \* seconds that a request may take
  Samples,     \* records that a source may have
  Pages,       \* lists that the page of an article may hit
  Frozen       \* sources of the articles with a frozen Markdown file

ASSUME FetchAssumption ==
  /\ Visits \in [Fetches -> SUBSET Sources]
  /\ Limit \in Nat \ {0} /\ PageCap \in Nat \ {0} /\ SetCap \in Nat \ {0}
  /\ Latencies \subseteq Nat
  /\ Samples \subseteq Records /\ Pages \subseteq SUBSET Lists
  /\ Frozen \subseteq Sources

\* liveSourceTimeout.
Timeout == 45

-----------------------------------------------------------------------------
(* Plans.                                                                  *)

AtMost(n) == IF n < PageCap THEN n ELSE PageCap

\* One request for all articles.  "refused" is what a refused request does to
\* the stage, "again" what makes it ask once more, and "error", "cut", "some"
\* and "nothing" are what follows a stage that failed, was cut off, brought
\* articles or brought none: the fetch ends well or fails, the plan goes on
\* with the next stage or with its last.
Single ==
  [asks |-> 1, refused |-> "abort", again |-> "never", error |-> "fail",
   cut |-> "fail", some |-> "end", nothing |-> "end"]

\* The ids, the summaries, and the abstracts that may be missing.
PubMedPlan ==
  <<[Single EXCEPT !.some = "next"],
    [Single EXCEPT !.some = "next", !.nothing = "next"],
    [Single EXCEPT !.refused = "ignore", !.cut = "end"]>>

\* One request a language; only errors of the network are remembered, and the
\* end of the visit ends the round.
ExaPlan ==
  <<[Single EXCEPT !.asks = AtMost(8), !.refused = "skip", !.again = "always",
                   !.cut = "end", !.nothing = "unless_failed"]>>

\* A search page where the API fails.
WithPage == <<[Single EXCEPT !.error = "next"], Single>>

SciEnginePlan == <<[Single EXCEPT !.asks = AtMost(20), !.again = "more"]>>

OpenEditionPlan ==
  <<[Single EXCEPT !.asks = 2, !.refused = "skip", !.again = "always",
                   !.nothing = "unless_failed"]>>

\* The list of sets, a harvest of the sets, the search page.
DergiParkPlan ==
  <<[Single EXCEPT !.error = "last", !.some = "next", !.nothing = "last"],
    [Single EXCEPT !.asks = AtMost(60), !.refused = "skip",
                   !.again = "always", !.nothing = "unless_all_failed"],
    Single>>

HrcakPlan ==
  <<[Single EXCEPT !.asks = AtMost(8), !.refused = "stop", !.again = "more"]>>

\* The second stage asks for the articles' own pages too.
AjolPlan ==
  <<[Single EXCEPT !.asks = AtMost(3), !.again = "more", !.error = "next",
                   !.nothing = "next"],
    [Single EXCEPT !.asks = PageCap, !.again = "more"]>>

\* The feed, with pauses, two mirrors of the harvest, two search pages.  Any
\* error of the feed leads to the harvest.
ScieloMirror ==
  [Single EXCEPT !.asks = AtMost(8), !.refused = "stop", !.again = "more",
                 !.cut = "last", !.nothing = "next"]
ScieloPlan ==
  <<[Single EXCEPT !.asks = 3, !.refused = "pause", !.error = "next",
                   !.cut = "next", !.nothing = "next"],
    ScieloMirror, ScieloMirror,
    [Single EXCEPT !.asks = 2, !.refused = "skip", !.again = "if_none",
                   !.nothing = "fail"]>>

\* Five searches, and the search page of the site, whose failure is none.
MathNetPlan ==
  <<[Single EXCEPT !.asks = 5, !.refused = "skip", !.again = "if_none",
                   !.nothing = "next"],
    [Single EXCEPT !.refused = "stop"]>>

Plan(s) ==
  CASE s = "pubmed" -> PubMedPlan            [] s = "exa" -> ExaPlan
    [] s \in {"cinii", "cyberleninka"} -> WithPage
    [] s = "sciengine" -> SciEnginePlan      [] s = "openedition" -> OpenEditionPlan
    [] s = "dergipark" -> DergiParkPlan      [] s = "hrcak" -> HrcakPlan
    [] s = "ajol" -> AjolPlan                [] s = "scielo" -> ScieloPlan
    [] s = "mathnet" -> MathNetPlan
    [] OTHER -> <<Single>>

\* The pause after a refused attempt at the feed, the last one included.
Pause(asked) == 8 * asked

-----------------------------------------------------------------------------

VARIABLES
  fetch,   \* the state of each fetch
  sets     \* dergiparkSets: how many are known, 0 for nil

vars == <<fetch, sets>>

Steps == {"idle", "lock", "list", "ask", "done", "failed", "reported"}
NoArticle == [known |-> FALSE]

\* "key" is the source that the article is saved under.
Articles ==
  {NoArticle} \cup
  [known : {TRUE}, retracted : BOOLEAN, built : Reported, report : Reported,
   key : Sources]

\* "asked" and "refusals" count in the stage, "found" are the articles of the
\* stage, "got" and "answered" what the fetch has seen of articles and answers.
Rows ==
  [pc : Steps, source : Sources \cup {"none"}, stage : Nat, asked : Nat,
   refusals : Nat, found : 0..Limit, got : BOOLEAN, answered : BOOLEAN,
   clock : 0..Timeout, article : Articles]

Idle ==
  [pc |-> "idle", source |-> "none", stage |-> 0, asked |-> 0, refusals |-> 0,
   found |-> 0, got |-> FALSE, answered |-> FALSE, clock |-> 0,
   article |-> NoArticle]

Init == fetch = [f \in Fetches |-> Idle] /\ sets = 0

\* A fetch with n more articles, or d seconds later.
UpTo(n) == IF n < Limit THEN n ELSE Limit
After(c, d) == IF c + d < Timeout THEN c + d ELSE Timeout
Late(w) == w.clock = Timeout

\* The list of sets is asked for under a mutex.
Enter(w, n) ==
  [w EXCEPT !.pc = IF w.source = "dergipark" /\ n = 1 THEN "lock" ELSE "ask",
            !.stage = n, !.asked = 0, !.refusals = 0, !.found = 0]

Stage(w) == Plan(w.source)[w.stage]

\* What follows a stage.
FollowAgain(w, what) ==
  CASE what = "end"  -> [w EXCEPT !.pc = "done"]
    [] what = "fail" -> [w EXCEPT !.pc = "failed"]
    [] what = "next" -> Enter(w, w.stage + 1)
    [] OTHER         -> Enter(w, 1)
Follow(w, what) ==
  CASE what = "end"  -> [w EXCEPT !.pc = "done"]
    [] what = "fail" -> [w EXCEPT !.pc = "failed"]
    [] what = "next" -> Enter(w, w.stage + 1)
    [] OTHER         -> Enter(w, Len(Plan(w.source)))

\* The end of a stage that was not aborted.
NothingIsFine(w) ==
  IF Stage(w).nothing \in {"unless_failed", "unless_all_failed"} THEN "end"
  ELSE Stage(w).nothing
Nothing(w) ==
  CASE Stage(w).nothing = "unless_failed" ->
         IF w.refusals > 0 THEN "fail" ELSE "end"
    [] Stage(w).nothing = "unless_all_failed" ->
         IF w.refusals = w.asked THEN "last" ELSE "end"
    [] OTHER -> Stage(w).nothing
Close(w) == Follow(w, IF w.found > 0 THEN Stage(w).some ELSE Nothing(w))

\* The stage asks once more, if it may and wants to.
Wants(w, more) ==
  CASE Stage(w).again = "more"    -> more
    [] Stage(w).again = "always"  -> TRUE
    [] Stage(w).again = "if_none" -> w.found = 0
    [] OTHER                      -> FALSE
\* DergiPark has a request for each set.
Asks(w) ==
  IF w.source = "dergipark" /\ w.stage = 2 /\ sets < Stage(w).asks
  THEN sets ELSE Stage(w).asks
ContinueOver(w, wants) ==
  IF wants /\ w.found < Limit /\ w.asked <= Asks(w) THEN w ELSE Close(w)
Continue(w, wants) ==
  IF wants /\ w.found < Limit /\ w.asked < Asks(w) THEN w ELSE Close(w)

Update(f, w) == fetch' = [fetch EXCEPT ![f] = w]

-----------------------------------------------------------------------------
(* A fetch.                                                                *)

Begin(f) ==
  /\ fetch[f].pc = "idle"
  /\ \E s \in Visits[f] : Update(f, Enter([Idle EXCEPT !.source = s], 1))
  /\ UNCHANGED sets

\* The mutex does not know of the time limit of those who wait for it.
Known(w) == IF sets > 0 THEN Enter(w, 2) ELSE [w EXCEPT !.pc = "list"]
Lock(f) ==
  /\ fetch[f].pc = "lock"
  /\ \A g \in Fetches : fetch[g].pc # "list"
  /\ \E d \in Latencies :
       Update(f, Known([fetch[f] EXCEPT !.clock = After(@, d)]))
  /\ UNCHANGED sets

\* ListSets is answered; an empty list is not kept and leads to the page.
List(f) ==
  /\ fetch[f].pc = "list"
  /\ \E d \in Latencies, n \in 0..SetCap :
       LET w == [fetch[f] EXCEPT !.clock = After(@, d), !.answered = TRUE]
       IN  /\ ~Late(w)
           /\ sets' = n
           /\ Update(f, Follow(w, IF n > 0 THEN Stage(w).some ELSE Stage(w).nothing))

\* A request is answered with n articles, and with the mark of more.
Answer(f) ==
  /\ fetch[f].pc = "ask"
  /\ \E d \in Latencies, n \in 0..Limit, more \in BOOLEAN :
       LET w == [fetch[f] EXCEPT
                   !.clock = After(@, d), !.asked = @ + 1, !.answered = TRUE,
                   !.found = UpTo(@ + n),
                   !.got = @ \/ (n > 0 /\ Stage(fetch[f]).some = "end")]
       IN  ~Late(w) /\ Update(f, Continue(w, Wants(w, more)))
  /\ UNCHANGED sets

\* What a stage makes of a refused request.  An error that Exa answered with
\* is not remembered.
PausedBetween(w) ==
  LET p == [w EXCEPT !.clock = After(@, IF w.asked = 3 THEN 0 ELSE Pause(w.asked))]
  IN  CASE Late(p) -> Follow(p, Stage(w).cut)
        [] ~Late(p) /\ w.asked < Stage(w).asks -> p
        [] OTHER -> Follow(p, Stage(w).error)
Paused(w) ==
  LET p == [w EXCEPT !.clock = After(@, Pause(w.asked))]
  IN  CASE Late(p) -> Follow(p, Stage(w).cut)
        [] ~Late(p) /\ w.asked < Stage(w).asks -> p
        [] OTHER -> Follow(p, Stage(w).error)
RefusedAborts(w) ==
  IF Stage(w).refused = "pause" THEN Paused(w) ELSE Follow(w, Stage(w).error)
Refused(w) ==
  CASE Stage(w).refused = "abort" -> Follow(w, Stage(w).error)
    [] Stage(w).refused = "stop"  -> Close(w)
    [] Stage(w).refused = "pause" -> Paused(w)
    [] OTHER -> Continue(w, TRUE)

\* A request is refused, in time or by the last attempt of the transport when
\* time is over.
Refuse(f) ==
  /\ fetch[f].pc \in {"list", "ask"}
  /\ ~Late(fetch[f])
  /\ Stage(fetch[f]).refused # "ignore"
  /\ \E d \in Latencies, counts \in BOOLEAN :
       /\ fetch[f].source # "exa" => counts
       /\ Update(f, Refused([fetch[f] EXCEPT
                      !.clock = After(@, d), !.asked = @ + 1,
                      !.refusals = IF counts THEN @ + 1 ELSE @]))
  /\ UNCHANGED sets

\* A request is cut off.  Exa sees the end of the visit as an error, or before
\* it makes the request.
Cut(f) ==
  /\ fetch[f].pc \in {"list", "ask"}
  /\ Stage(fetch[f]).refused # "ignore"
  /\ \E counts \in BOOLEAN :
       LET w == [fetch[f] EXCEPT !.clock = Timeout, !.asked = @ + 1,
                                 !.refusals = IF counts THEN @ + 1 ELSE @]
       IN  /\ w.source # "exa" => counts
           /\ Update(f, IF Stage(w).cut = "end" THEN Close(w)
                        ELSE Follow(w, Stage(w).cut))
  /\ UNCHANGED sets

\* The abstracts of PubMed fail or are cut off, and the articles go without.
Omit(f) ==
  /\ fetch[f].pc = "ask"
  /\ Stage(fetch[f]).refused = "ignore"
  /\ \E d \in Latencies \cup {Timeout}, n \in 0..Limit :
       Update(f, [fetch[f] EXCEPT !.pc = "done", !.clock = After(@, d),
                                  !.asked = @ + 1, !.found = n])
  /\ UNCHANGED sets

-----------------------------------------------------------------------------
(* What comes of it.                                                       *)

\* The records are built by the stage that brought them.
Built(w, r) ==
  CASE \/ w.source = "cinii" /\ w.stage = 2
       \/ w.source = "dergipark" /\ w.stage = 3        -> Generic(r)
    [] w.source = "cyberleninka" /\ w.stage = 2       -> CyberLeninkaPage(r)
    [] w.source = "scielo" /\ w.stage \in {2, 3}      -> SciEloHarvest(r)
    [] OTHER                                          -> Build(w.source, r)

\* EnrichRaw: an article keeps what was built of it when its page or its own
\* connector fails.
FromPage(s, b) ==
  [key : {s}, report : {b} \cup {Enriched(s, b, page) : page \in Pages}]

\* A file in place of the record instead of merged with it.
FromFileAlone(s, b) ==
  [key : Frozen \cup {s}, report : {[b EXCEPT !.retracted = FALSE]}]

\* LocalStore.ToRaw: the frozen Markdown of the DOI, when it is readable,
\* replaces text and source of what was built, and none of its evidence; a
\* file may name no source.
FromFile(s, b) == [key : Frozen \cup {s}, report : {b}]

\* enrichOne: the file of the DOI, else the page.  The counters of the fetch
\* are of no more use.
Enrich(f) ==
  /\ fetch[f].pc = "done"
  /\ fetch[f].found > 0
  /\ \E r \in Samples :
       LET s == fetch[f].source
           b == Built(fetch[f], r)
       IN  /\ b.kept
           /\ \E e \in FromPage(s, b) \cup
                       (IF r.flaw = "no doi" THEN {} ELSE FromFile(s, b)) :
                Update(f, [Idle EXCEPT
                  !.pc = "reported", !.source = s,
                  !.article = [known |-> TRUE, retracted |-> r.retracted,
                               built |-> b, report |-> e.report, key |-> e.key]])
  /\ UNCHANGED sets

\* A page of OpenEdition that is no article's drops the record.
Drop(f) ==
  /\ fetch[f].pc = "done"
  /\ fetch[f].found > 0
  /\ fetch[f].source = "openedition"
  /\ Update(f, [Idle EXCEPT !.pc = "reported", !.source = "openedition"])
  /\ UNCHANGED sets

\* The scan goes on; a fetch without articles has nothing to report.
Leave(f) ==
  /\ \/ fetch[f].pc \in {"failed", "reported"}
     \/ fetch[f].pc = "done" /\ fetch[f].found = 0
  /\ Update(f, Idle)
  /\ UNCHANGED sets

Ask(f) == List(f) \/ Answer(f) \/ Refuse(f) \/ Cut(f) \/ Omit(f)

Step(f) == Ask(f) \/ Enrich(f) \/ Drop(f) \/ Leave(f)

Next == \E f \in Fetches : Begin(f) \/ Lock(f) \/ Step(f)

Spec == Init /\ [][Next]_vars

\* Requests end within the limits of their clients, and a Go mutex is handed
\* to those who have waited long.
FairSpec ==
  /\ Spec
  /\ \A f \in Fetches : WF_vars(Ask(f)) /\ WF_vars(Leave(f)) /\ SF_vars(Lock(f))

-----------------------------------------------------------------------------
(* Properties.                                                             *)

Typed == fetch \in [Fetches -> Rows] /\ sets \in 0..SetCap

\* Every variable has the type of what it stands for, and a stage asks no
\* more than it may.
TypeOK ==
  /\ Typed
  /\ \A f \in Fetches :
       fetch[f].pc \in {"list", "ask"} =>
         /\ fetch[f].stage \in 1..Len(Plan(fetch[f].source))
         /\ fetch[f].asked < Stage(fetch[f]).asks

\* Sources for which an outage is an empty result.
Silent == {"hrcak", "mathnet", "exa"}

\* A fetch that ends well without an article has had an answer: an outage of
\* any other source is never recorded as a success, which would close its
\* circuit.
EmptyIsAnswered ==
  \A f \in Fetches :
    LET w == fetch[f]
    IN  w.pc = "done" /\ w.found = 0 /\ w.source \notin Silent => w.answered

\* What a fetch has found in time is not lost to a later request, except by
\* SciEngine, whose error of a later page discards the earlier ones, and by
\* AJOL, which starts over with its search page.
FoundIsReturned ==
  \A f \in Fetches :
    LET w == fetch[f]
    IN  /\ w.pc \in {"done", "failed"} /\ w.got /\ ~Late(w)
        /\ w.source \notin {"sciengine", "ajol"}
        => w.pc = "done" /\ w.found > 0

\* The harvest and the search pages of SciELO serve a feed that answers with
\* nothing.  They never serve a feed that is throttled: the three pauses take
\* 48 seconds, the visit 45.
ThrottledFeedIsFinal ==
  \A f \in Fetches :
    LET w == fetch[f]
    IN  w.source = "scielo" /\ w.stage > 1 /\ ~Late(w) => w.answered

\* The sets of DergiPark are asked for by one fetch at a time, and by none
\* once they are known.
ListingExcludes ==
  \A f, g \in Fetches :
    fetch[f].pc = "list" => sets = 0 /\ (fetch[g].pc = "list" => f = g)

\* No connector marks as reviewed what it marks as a preprint, a retraction
\* that the provider knows of keeps the article out of the eligible ones, and
\* so does a source that only has preprints when the article is saved under
\* it, whatever the stage that built the report, the page or the frozen file
\* that was read and the words of the article.
VerdictFollows(s, a) ==
  a.known =>
    /\ a.built.preprint = TierA => a.built.peer = ""
    /\ \A words \in SUBSET Lists :
         LET e == AsEvidence(a.key, a.report, words, TRUE)
         IN  /\ s \in Watching /\ a.retracted => ~Eligible(e)
             /\ KindOf(a.key) = "preprints" => ~Eligible(e)
VerdictsFollowRecords ==
  \A f \in Fetches : VerdictFollows(fetch[f].source, fetch[f].article)

\* Every fetch ends, whoever else waits for the sets.
FetchEnds ==
  \A f \in Fetches :
    []<>(fetch[f].pc \in {"done", "failed", "idle"})
=============================================================================
