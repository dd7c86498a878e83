----------------------------- MODULE SearchPage -----------------------------
(***************************************************************************)
(* The page of the web client (App.tsx): searches that poll the job they   *)
(* created, the debounced search after a change of filters, page requests, *)
(* and the link that names a query and a page.  Of the server it sees how  *)
(* a request to create is answered and what GetSearchJob says of the job.  *)
(*                                                                         *)
(* An action is one task of the event loop with the promises it settles:   *)
(* an answer, a timer or a click.  React draws what was set in a task of   *)
(* its own, and a click finds the screen drawn.  An aborted request fails  *)
(* within the task that aborts it.                                         *)
(*                                                                         *)
(* Abstracted: the query as typed, which searches keep; the sources that   *)
(* failed, so that results are never told apart from partial ones; time.   *)
(***************************************************************************)
EXTENDS Integers

CONSTANTS
  Filters,       \* what filters may be set to
  MaxPages,      \* bound: pages of results
  MaxSearches,   \* bound: searches
  MaxFaults      \* bound: requests that fail

ASSUME PageAssumption ==
  MaxPages \in Nat \ {0} /\ MaxSearches \in Nat \ {0} /\ MaxFaults \in Nat

Searches == 1..MaxSearches
NoJob == 0

VARIABLES
  filters,   \* the filters as set
  timer,     \* the debounced search is due
  link,      \* the page in the address, 0 if it names no query
  seq,       \* searchSeqRef
  search,    \* [Searches -> the handlers of searches]
  current,   \* currentJobIdRef
  state,     \* searchState
  shown,     \* the job and page of rawResults
  total,     \* totalPages
  page,      \* currentPage
  drawn,     \* totalPagesRef: the total as last drawn
  asking,    \* page requests under way
  jobs,      \* [Searches -> the job made for a search]
  faults,    \* requests that have failed
  wanted,    \* history: the page last turned to in this search, 0 for none
  missed,    \* history: the last page request has failed
  strayed    \* history: a search that was superseded asked for the linked page

screen == <<state, shown, total, page>>
history == <<wanted, missed, strayed>>
vars == <<filters, timer, link, seq, search, current, screen, drawn, asking,
          jobs, faults, history>>

\* A job is of the search it was made for: its number, and its filters.
Started(f) == [pc |-> "create", wish |-> f, reply |-> NoJob, job |-> NoJob]
Nothing == [job |-> NoJob, page |-> 1]

\* The page is mounted, and with a query in the address a search has begun.
Init ==
  /\ filters \in Filters
  /\ link \in 0..MaxPages
  /\ seq = IF link > 0 THEN 1 ELSE 0
  /\ search = [n \in Searches |->
       IF n <= seq THEN Started(filters) ELSE [Started(filters) EXCEPT !.pc = "idle"]]
  /\ state = IF link > 0 THEN "loading" ELSE "idle"
  /\ shown = Nothing /\ total = 0 /\ page = 1 /\ drawn = 0
  /\ timer = FALSE /\ current = NoJob /\ asking = {}
  /\ jobs = [n \in Searches |-> [status |-> "none", pages |-> 0]]
  /\ faults = 0
  /\ wanted = 0 /\ missed = FALSE /\ strayed = FALSE

-----------------------------------------------------------------------------
(* Searches.                                                               *)

SupersededPolls(h) == [h EXCEPT !.pc = IF @ = "create" THEN "ended" ELSE @]

\* A handler that is superseded has no more use for its job.  Its request is
\* aborted and it returns; if it sleeps it does so when it wakes up.
Superseded(h) ==
  [h EXCEPT !.pc = IF @ = "sleep" THEN "sleep" ELSE "ended",
            !.reply = NoJob, !.job = NoJob]

\* handleSearch up to its first request.
Begin ==
  /\ seq < MaxSearches
  /\ seq' = seq + 1
  /\ search' = [n \in Searches |->
       CASE n = seq + 1 -> Started(filters)
         [] n <= seq    -> Superseded(search[n])
         [] OTHER       -> search[n]]
  /\ asking' = {}
  /\ state' = "loading"
  /\ page' = 1
  /\ wanted' = 0 /\ missed' = FALSE
  /\ UNCHANGED <<filters, link, current, shown, total, drawn, jobs, faults, strayed>>

\* The button, Enter, an example or a retry; none of them while loading.
Submit == state # "loading" /\ Begin /\ UNCHANGED timer

ChangeSettled(f) ==
  /\ f # filters
  /\ filters' = f
  /\ timer' = (seq > 0 /\ state # "loading")
  /\ UNCHANGED <<link, seq, search, current, screen, drawn, asking, jobs,
                 faults, history>>

\* The effect of a change replaces the timer of an earlier one.
ChangeFilters(f) ==
  /\ f # filters
  /\ filters' = f
  /\ timer' = (seq > 0)
  /\ UNCHANGED <<link, seq, search, current, screen, drawn, asking, jobs,
                 faults, history>>

Debounced == timer /\ Begin /\ timer' = FALSE

Goto(n, p) == search' = [search EXCEPT ![n].pc = p]

\* The effect of the link goes on in the task in which its search returns,
\* with the total that was drawn before.
Jumps(n) == n = 1 /\ link > 1 /\ link <= drawn

\* A search returns, with page p as the current one.
Return(n, p) ==
  /\ Goto(n, "ended")
  /\ page' = IF Jumps(n) THEN link ELSE p
  /\ asking' = IF Jumps(n) THEN {[job |-> current, page |-> link]} ELSE asking
  /\ strayed' = (strayed \/ (Jumps(n) /\ n # seq))
  /\ UNCHANGED <<wanted, missed>>

Error(n) ==
  /\ Return(n, page)
  /\ state' = "error"
  /\ shown' = Nothing
  /\ total' = 0

\* GetSearchJob: a job that is stored, and one that has ended.
Known(j) == jobs[j].status # "none"
Over(j) == jobs[j].status \in {"done", "failed"}

\* The answer to a request to create names the job.
Created(n) ==
  /\ search[n].pc = "create" /\ search[n].reply # NoJob
  /\ search' = [search EXCEPT ![n].pc = "poll", ![n].job = search[n].reply,
                              ![n].reply = NoJob]
  /\ current' = search[n].reply
  /\ UNCHANGED <<filters, timer, link, seq, screen, drawn, asking, jobs, faults,
                 history>>

Faulty == faults < MaxFaults /\ faults' = faults + 1

CreateFails(n) ==
  /\ search[n].pc = "create"
  /\ Faulty
  /\ Error(n)
  /\ UNCHANGED <<filters, timer, link, seq, current, drawn, jobs>>

\* The page shows page p of job j.
Apply(j, p) ==
  /\ shown' = [job |-> j, page |-> p]
  /\ total' = jobs[j].pages

PollEnds(n) ==
  LET j == search[n].job
  IN  /\ search[n].pc = "poll" /\ Over(j)
      /\ IF jobs[j].status = "failed" THEN Error(n)
         ELSE /\ Apply(j, 1)
              /\ state' = IF jobs[j].pages > 0 THEN "results" ELSE "empty"
              /\ Return(n, 1)
      /\ UNCHANGED <<filters, timer, link, seq, current, drawn, jobs, faults>>

PollGivesUp(n) ==
  /\ search[n].pc = "poll"
  /\ \/ ~Over(search[n].job) /\ Goto(n, "sleep") /\ UNCHANGED faults
     \/ Faulty /\ Goto(n, "ended")
  /\ UNCHANGED <<filters, timer, link, seq, current, screen, drawn, asking, jobs,
                 history>>

\* The job goes on, the server knows of no such job, or the request fails:
\* the search waits and asks again, for ever.
PollGoesOn(n) ==
  /\ search[n].pc = "poll"
  /\ \/ ~Over(search[n].job) /\ UNCHANGED faults
     \/ Faulty
  /\ Goto(n, "sleep")
  /\ UNCHANGED <<filters, timer, link, seq, current, screen, drawn, asking, jobs,
                 history>>

Wake(n) ==
  /\ search[n].pc = "sleep"
  /\ \/ n = seq /\ Goto(n, "poll") /\ UNCHANGED <<page, asking, history>>
     \/ n # seq /\ Return(n, page)
  /\ UNCHANGED <<filters, timer, link, seq, current, state, shown, total, drawn,
                 jobs, faults>>

-----------------------------------------------------------------------------
(* Pages.                                                                  *)

Draw ==
  /\ drawn # total
  /\ drawn' = total
  /\ UNCHANGED <<filters, timer, link, seq, search, current, screen, asking, jobs,
                 faults, history>>

Clamped(p) == IF p < 1 THEN 1 ELSE IF p > total THEN total ELSE p

TurnBesides(p) ==
  /\ state = "results" /\ total > 1 /\ drawn = total
  /\ Clamped(p) # page
  /\ page' = Clamped(p)
  /\ asking' = asking \cup {[job |-> current, page |-> Clamped(p)]}
  /\ wanted' = Clamped(p) /\ missed' = FALSE
  /\ UNCHANGED <<filters, timer, link, seq, search, current, state, shown, total,
                 drawn, jobs, faults, strayed>>

\* handlePageChange and fetchPage: an earlier page request is aborted.
TurnTo(p) ==
  /\ state = "results" /\ total > 1 /\ drawn = total
  /\ Clamped(p) # page
  /\ page' = Clamped(p)
  /\ asking' = {[job |-> current, page |-> Clamped(p)]}
  /\ wanted' = Clamped(p) /\ missed' = FALSE
  /\ UNCHANGED <<filters, timer, link, seq, search, current, state, shown, total,
                 drawn, jobs, faults, strayed>>

\* A page of a job that has not ended is empty.
PageArrives(r) ==
  /\ r \in asking
  /\ Known(r.job)
  /\ Apply(r.job, r.page)
  /\ page' = r.page
  /\ asking' = asking \ {r}
  /\ UNCHANGED <<filters, timer, link, seq, search, current, state, drawn, jobs,
                 faults, history>>

PageFails(r) ==
  /\ r \in asking
  /\ \/ Faulty
     \/ ~Known(r.job) /\ UNCHANGED faults
  /\ asking' = asking \ {r}
  /\ missed' = TRUE
  /\ UNCHANGED <<filters, timer, link, seq, search, current, screen, drawn, jobs,
                 wanted, strayed>>

-----------------------------------------------------------------------------
(* The server.                                                             *)

\* A new job, an active one for the same request, or the uuid of a creator
\* that never stores it (JobCreation!ReplyIsBacked says when).
Handle(n) ==
  /\ search[n].pc = "create" /\ search[n].reply = NoJob
  /\ \/ /\ search' = [search EXCEPT ![n].reply = n]
        /\ jobs' = [jobs EXCEPT ![n].status = "active"] \/ UNCHANGED jobs
     \/ /\ \E m \in Searches :
             /\ jobs[m].status = "active" /\ search[m].wish = search[n].wish
             /\ search' = [search EXCEPT ![n].reply = m]
        /\ UNCHANGED jobs
  /\ UNCHANGED <<filters, timer, link, seq, current, screen, drawn, asking, faults,
                 history>>

JobEnds(n) ==
  /\ jobs[n].status = "active"
  /\ \/ \E k \in 0..MaxPages :
          jobs' = [jobs EXCEPT ![n] = [status |-> "done", pages |-> k]]
     \/ jobs' = [jobs EXCEPT ![n].status = "failed"]
  /\ UNCHANGED <<filters, timer, link, seq, search, current, screen, drawn, asking,
                 faults, history>>

-----------------------------------------------------------------------------

Step(n) == Handle(n) \/ Created(n) \/ PollEnds(n) \/ PollGoesOn(n) \/ Wake(n)

PageRequests == [job : Searches, page : 1..MaxPages]

Next ==
  \/ Submit \/ Debounced \/ Draw
  \/ \E f \in Filters : ChangeFilters(f)
  \/ \E n \in Searches : Step(n) \/ CreateFails(n) \/ JobEnds(n)
  \/ \E p \in 0..(MaxPages + 1) : TurnTo(p)
  \/ \E r \in PageRequests : PageArrives(r) \/ PageFails(r)

Spec == Init /\ [][Next]_vars

\* Requests are answered and timers go off; nothing makes a job end.
FairSpec == Spec /\ \A n \in Searches : WF_vars(Step(n))

-----------------------------------------------------------------------------
(* Properties.                                                             *)

\* Every variable has the type of what it stands for.
TypeOK ==
  /\ filters \in Filters
  /\ timer \in BOOLEAN
  /\ link \in 0..MaxPages
  /\ seq \in 0..MaxSearches
  /\ search \in [Searches -> [pc : {"idle", "create", "poll", "sleep", "ended"},
                              wish : Filters, reply : 0..MaxSearches,
                              job : 0..MaxSearches]]
  /\ current \in 0..MaxSearches
  /\ state \in {"idle", "loading", "results", "empty", "error"}
  /\ shown \in [job : 0..MaxSearches, page : 1..MaxPages]
  /\ total \in 0..MaxPages /\ page \in 1..MaxPages /\ drawn \in 0..MaxPages
  /\ asking \subseteq PageRequests
  /\ jobs \in [Searches -> [status : {"none", "active", "done", "failed"},
                            pages : 0..MaxPages]]
  /\ faults \in 0..MaxFaults
  /\ wanted \in 0..MaxPages /\ missed \in BOOLEAN /\ strayed \in BOOLEAN

\* The results on the screen are of the latest search, whatever answers to
\* earlier searches and to page requests arrive late; unless a superseded
\* search woke up and asked for the page of the link.
ShownIsLatest ==
  state = "results" /\ ~strayed => shown.job = search[seq].job

\* The job on the screen was made for the filters that are set, unless the
\* search that their change causes is still due; with the same exception.
FiltersApply ==
  state \in {"results", "empty"} /\ ~timer /\ ~strayed =>
    search[shown.job].wish = filters

\* However fast pages are turned, it is the last one asked for that is shown
\* and marked once no request is under way, unless its own has failed; with
\* the same exception.
Asked == IF wanted = 0 THEN 1 ELSE wanted
PageIsShown ==
  state = "results" /\ asking = {} /\ ~missed /\ ~strayed =>
    shown.page = Asked /\ page = Asked

\* No page is shown or marked but one that the results have, whatever the link
\* names and however pages are turned; with the same exception.
PagesExist ==
  state = "results" /\ ~strayed => {shown.page, page} \subseteq 1..total

\* A search ends once its job has, however often a request fails meanwhile.
\* For a job that does not exist or never ends the page polls for ever.
SearchSettles ==
  LET job == search[seq].job
  IN  []<>(state # "loading" \/ (job # NoJob /\ ~Over(job)))

-----------------------------------------------------------------------------
(* The inductive invariant behind the theorems of SearchPage_proofs.       *)

\* Only the latest search has a request under way, and its job is the one
\* that pages are asked of.
HandlersInv ==
  /\ state = "idle" <=> seq = 0
  /\ seq > 0 =>
       (state = "loading" <=> search[seq].pc \in {"create", "poll", "sleep"})
  /\ \A n \in Searches :
       /\ search[n].pc = "idle" <=> n > seq
       /\ n < seq => search[n].pc \in {"sleep", "ended"}
  /\ \/ state \in {"results", "empty"}
     \/ seq > 0 /\ search[seq].pc \in {"poll", "sleep"}
     => search[seq].job = current /\ current # NoJob

\* Jobs have the wishes of the searches that are told of them.
WishInv ==
  /\ \A m \in Searches : Known(m) => m <= seq
  /\ \A n \in Searches : n <= seq =>
       \A j \in {search[n].reply, search[n].job} \ {NoJob} :
         j <= seq /\ search[j].wish = search[n].wish
  /\ seq > 0 /\ ~timer => search[seq].wish = filters

\* Before the first results there is no page to jump to; and as long as no
\* superseded search has strayed, requests are for the last page asked for of
\* the job on the screen, which has ended and has that page.
PageInv ==
  /\ total > 0 \/ drawn > 0 \/ asking # {} => current # NoJob
  /\ seq <= 1 /\ state \in {"idle", "loading"} => total = 0 /\ drawn = 0
  /\ strayed => seq > 1
  /\ state # "results" => wanted = 0
  /\ ~strayed =>
       /\ state # "results" => asking = {}
       /\ state \in {"results", "empty"} => shown.job = current
       /\ state = "results" =>
            /\ jobs[current].status = "done" /\ jobs[current].pages = total
            /\ Asked <= total /\ total > 0
       /\ \A r \in asking : r = [job |-> current, page |-> Asked] /\ page = Asked
       /\ PageIsShown /\ PagesExist

SearchInv == TypeOK /\ HandlersInv /\ WishInv /\ PageInv
=============================================================================
