# cindex in TLA+

cindex searches scholarly sources (journals and preprint servers), keeps what it
finds in Postgres, ranks it and extracts quotations from it with a language
model. A Go API takes search jobs, a Go worker executes them through the River
queue, a Python sidecar drives a browser for sources that refuse plain HTTP, and
a React client polls.

This directory holds TLA+ models of the parts where steps of several actors
interleave, fail and restart; TLC configurations that check them on small
instances; and TLAPS proofs of what matters most for every size. Paths below are
relative to `src/`, and `backend/...` stands for `backend/internal/...`.

- [Inventory](#inventory): the parts of the system, their state, what is hard
- [Modules](#modules): which module models what, and how
- [Runs](#runs): what TLC checks, within which bounds
- [Proofs](#proofs): what TLAPS proves, from what, and how
- [Where code and documentation disagree](#where-code-and-documentation-disagree)
- [Plan](#plan): what comes next, and what stays out

## Inventory

| part | state | operations | correct when |
|---|---|---|---|
| **job creation** `backend/httpapi/search_handlers.go` `backend/repository/searchjobs.go` | Redis lock and pending key (TTL 30 s), job rows, River tasks | find an active job; take the lock; name the job; insert job and task in one transaction; delete the keys | identical requests share a job; a client gets the id of a job that exists; keys never block for good |
| **search job worker** `backend/jobs/searchjob.go` | the job row; the worker's copy of it | load, check, decide, scan, rank, query, finish, record the wait | no job is lost, done twice or reported wrong; what has ended stays |
| **live scan** `backend/service/ingest_live.go` | locals of the loop over the connectors; the timings persisted in the row | resume, visit a source, fetch, save, report | a source failure is isolated; a resumed scan neither repeats nor forgets a source |
| **worker process and queue** `cmd/worker/main.go`, River | `river_job` rows; up, stopping, down | start with a sweep for orphaned jobs, fetch, retry, rescue, time out, stop | each unfinished job has exactly one task |
| **quote extraction** `backend/service/extract.go` `backend/repository/quotes.go` `backend/service/localstore.go` | cache rows (pending, done, failed, no_text), frozen Markdown files and their paths, goroutines, a semaphore | visit, claim, admit, extract, freeze, stamp, mark | one extractor at a time; a path names a file; an outcome is recorded; preprints leave nothing |
| **LLM client, agent loop** `backend/service/llm.go` `perelman*.go` | pacing gate, attempts, turns | paced post, retry with back-off, tool turns, final turn | bounded number of calls; honours Retry-After; always ends |
| **source health** `backend/repository/sources.go` `backend/service/ingest.go` | consecutive failures, open-circuit time, statistics per source | record a run, judge the circuit | the circuit is open only after three failures in a row and closes on a success |
| **article store** `backend/repository/articles.go` `backend/domain/eligibility.go` | articles, journals, retraction and eligibility flags | read the stored row, classify, save in one transaction | the stored verdict is that of the stored evidence; a retraction is never taken back; known authors are not lost |
| **DOI enrichment** `backend/service/doi_enrichment.go` | limiter, cached answers | look up, merge | a limit per second; known data are not overwritten by gaps |
| **search, ranking, translation** `backend/service/search.go` `translate.go` `text.go` | translation cache | rank, translate, highlight | stable order; a cache within its size |
| **rate limiter** `backend/httpapi/ratelimit.go` | a Redis counter per address | admit or refuse | at most the limit per window; never blocks for good |
| **connectors** `backend/connector/*` | pages, fallbacks, the shared list of DergiPark's sets | fetch, page, retry, fall back, read the article's page, build a report | an outage is not an empty result; what was found is returned; a report says no more than the record |
| **connector transport** `backend/connector/transport.go` | attempts | ask a provider, ask the sidecar, retry with back-off | bounded requests, none after a refusal |
| **browser sidecar** `browser_service/` | one shared browser context, a semaphore, PDF threads | start, fetch, screenshot, extract text, render pages, close | slots come back; a handler works for a client that waits |
| **frontend** `frontend/src/App.tsx` | state hooks and refs of the page: sequence number of the search, job, total, page, abort controllers, timers | create, poll, turn a page, change filters, open a link | what is shown is of the latest search, the filters that are set and the page that is marked; a search settles once its job has ended |
| **configuration, migrations, nginx** | none of their own | start-up | |

**How they interact.** The API inserts a job row and a River task in one
transaction, and from then on only the worker writes the row; the client reads it
through the API. The worker calls the live scan, which calls the connectors
(over HTTP or through the sidecar), the article store and the health records,
and calls the worker back with timings and progress, which the worker persists.
It then ranks from Postgres and calls the quote extractor, whose goroutines share
one semaphore per call, the LLM client and the cache rows. Redis holds only
keys that may disappear at any time.

**What is hard here.**

- Every write of the worker is one call among many, any of them may fail, time
  out with its effect applied, or be the last one before a crash. The worker
  resumes from what it managed to persist, in particular from source timings and
  counters that are written separately.
- The context of an attempt ends for three reasons (River's 15 minutes, a stop, a
  source's own 45 seconds), and code that runs on the context fails then,
  cleaning up included.
- Postgres, Redis and the file system are updated one after the other.
- Locks and claims have a life time and are not fenced: Redis lock, pending key
  and quote claims can be lost while their holder still works.
- Goroutines outlive an early return of the function that started them, and a
  handler of the sidecar outlives the client that asked it.
- Limits are nested in each other and were set one by one: attempts of a request
  in turns of a loop in the 15 minutes of a job; retries and pauses of a connector
  in the 45 seconds of a visit; a handler's time in its client's.
- In the client an answer, a timer and a click each find the state that earlier ones
  left: hooks as last drawn, refs as last set, searches that were superseded
  while they slept.
- The verdict on an article is computed from texts that connectors write in one
  form and the classifier reads in another.

`PROJECT.json` lists the hazards one by one, each at its line with the properties
that would catch it.

## Modules

| module | models | depends on |
|---|---|---|
| `JobLifecycle` | what a job promises to the client, abstractly | |
| `SearchWorker` | job row, River tasks, worker process, `Work` and the scan loop | INSTANCEs `JobLifecycle` |
| `JobCreation` | `CreateSearchJob` by concurrent clients | |
| `QuoteExtraction` | `Enrich`, claims, frozen files | |
| `BoundedCall` | what a client that retries promises to its caller, abstractly | |
| `AgentLoop` | `Perelman.Extract`, its turns and tools, and `LLMClient` with its gate | INSTANCEs `BoundedCall` |
| `BrowserFetch` | `Transport`, `BrowserTransport` and the sidecar with its pools | INSTANCEs `BoundedCall` |
| `Eligibility` | the classifier: peer review, indexing, preprint, verdict, confidence, tier | |
| `SourceReports` | what each of the 24 connectors keeps of a record and reports of it | EXTENDS `Eligibility` |
| `SourceFetch` | `Fetch` of the connectors, the 45 seconds of a visit, `enrichOne` | EXTENDS `SourceReports` |
| `SourceIngest` | visits of sources by concurrent scans: circuit breaker, `saveArticle`, enrichment | EXTENDS `Eligibility` |
| `SearchPage` | the page of the client: searches, filters, pages, the link; `GetSearchJob` as it sees it | |
| `MC...` | symmetry sets and constant values for TLC | EXTENDS its module; `MCSourceIngest` also `SourceReports` |
| `..._proofs` | theorems of a module | EXTENDS its module and TLAPS; that of `JobCreation` INSTANCEs `JobLifecycle` |

The models meet at their edges. A goroutine of `QuoteExtraction` that is
`extracting` is one extraction of `AgentLoop`, whose browser calls are calls of
`BrowserFetch`. The answer that `SearchPage!Handle` gives is one that
`JobCreation!ReplyIsBacked` allows, the uuid of a job that is never stored included. A fetch that succeeds or fails in `SearchWorker` and
`SourceIngest` is one of `SourceFetch`. `MCSourceIngest` composes the two halves of
the path of an article: it feeds what `SourceReports` builds of a record to
`SourceIngest`, so that a row is judged from reports which connectors really make.

In all modules of the server an action is *one* call to Postgres, Redis, the file system or a
connector, together with the computation that follows it up to the next call.
Anything may come between two actions. A call that is not cut off has its effect
or fails without one; a call that fails because of a fault, or because its
context ends while it is under way, may have been applied nevertheless.

### SearchWorker

One job, `N` connectors, River tasks of that job, one worker process (deployment
runs one).

| variable | in the code |
|---|---|
| `row` | the columns of `search_searchjob` that the worker branches on: status, stage, counters, failed names, timings, rescan reason, finished_at |
| `mem[t]` | `dbJob`, the copy the goroutine of task `t` computes on |
| `task[t]` | the `river_job` row: state and attempt |
| `pc[t]`, `scan[t]` | the position in `Work` / `IngestQuery` / `processSource`, and the locals of the latter two |
| `cancelled[t]` | the attempt's context is done |
| `proc` | the process: down, starting, between query and insert of `resumeSearchJobs`, up, stopping |
| `samples` | rows added to `search_searchwaitstat` |
| `faults`, `stops` | used up bounds |

`Load` to `Recording` follow `Work` from top to bottom; `ScanStart` to `Progress`
follow `IngestQuery` and `processSource`, whose callbacks are those of
`buildProgressCallback` and `buildProfileCallback`. `Persist` is
`applyJobUpdate`, and `Snapshot` is what `UpdateProgress` writes: every column
but `status` and `finished_at`. River is external and modelled from how `main.go`
configures it: `StartAttempt`, `Settle` (done, retryable, discarded after
`MaxAttempts`), `Rescue`, `TimeOut`. `Crash` loses everything but `row`, `task`
and `samples`. Data that no step of `Work` branches on are left out: articles,
ranking, quotes, messages.

The module implements `JobLifecycle` under the mapping `status` <- active for
queued and running, `scanned` <- the sources whose timing is in the row: a job is
created once, what it has reported on only grows, it ends at most once, and
nothing changes afterwards. That the worker starts over after a crash, overwrites
its row with an older copy of the counters, or gets its task delivered twice must
all be invisible at this level.

### JobCreation

Requests with the same key material, each about to give the job its own uuid (a
client *is* its uuid here).
`rows` are job rows with their River tasks, `lock` and `pending` the Redis keys
(`lock` remembers who set it, which Redis does not: the handler's `DEL` ignores
it, as `KeysDeleted` does), `pc` the position in `CreateSearchJob`, `stored` what
`createJobWithTask` returned, `gone` that the request's context is done,
`reply` the answer. `earlier` and `expiries` are history variables for the
properties. The key folds letter case and `FindActive` compares the query as
typed, hence `Spelling`. `Lock` and `Find` follow the code: the search for an
active job comes *before* the lock and is not repeated under it.
`LockExpires` and `PendingExpires` may happen at any time, since nothing in the
handler bounds its duration by the TTL.

Each job, told apart by its uuid, implements `JobLifecycle` (`JobsLiveOnce`), with all its
ends as one and no sources: it is stored once and never again after it has ended.
`SearchWorker` implements the same specification from the other side.

### QuoteExtraction

Attempts (`Runs`) that call `Enrich` with overlapping sets of hits, in one or
several processes of their life. `quotes` and `stale` are the cache rows and
whether a pending one is older than 15 minutes, `path` is `local_md_path`, `file`
the frozen file, `work[r][a]` the goroutine that attempt `r` started for article
`a`. `Claim` is the `SELECT ... FOR UPDATE` path, `InsertClaim` the
`INSERT ... ON CONFLICT DO NOTHING` path without a row to lock. `Freeze` is
`LocalStore.Save` (a temporary file and a rename, hence atomic), `Stamp` the
transaction of `SetDoneFrozen`, `MarkNoText` and `MarkFailed` the other outcomes:
the first on the attempt's context, the second on a context of its own, as in
`fail`. `ReturnEarly` is the error return of the loop that skips `wg.Wait`.
`Age` lets a claim go stale only when its holders' contexts are done: the
15 minutes of a claim start after those of the attempt. `evictions` counts claims
taken from a goroutine that still runs.

Preprints are extracted without claim, row or file. Concurrency is counted per
attempt, as each call of `Enrich` makes its own semaphore. Which articles are
preprints is fixed: the flag comes with the hits of the search, and a scan that
changes the stored one meanwhile does not reach them.

### AgentLoop

Goroutines (`Workers`), each with one article, share one `LLMClient`.

| variable | in the code |
|---|---|
| `pc[g]` | the position in `Extract`, `agentLoop`, `finalize`, `chat` and `waitTurn` |
| `ids[g]`, `added[g]` | the names in `imageRegistry`; a history count of the images put into it |
| `turn[g]`, `retries[g]`, `final[g]` | turn and `turnRetries` of the loop; in `finalize` |
| `calls[g]` | tool calls of the last message still to run |
| `attempt[g]`, `reply[g]` | the attempt of the client's current call, and what the last request came to |
| `result[g]` | how the extraction ended, and how many quotes it keeps |
| `holder`, `wait`, `since` | the mutex of the pacing gate, the rest of its holder's sleep, ticks since a request started |
| `cancelled` | the job's context |

`Begin` to `EndOfFigures` gather the content as `Extract` does: the page, a linked
PDF, the pages rendered, or a screenshot and figures. `StartNow` to `GiveUp` are one
call of the client, `RestTurn` to `Parse` the loop around it. The gate's holder sleeps
with the mutex held (`EnterGate`), so the others queue behind it. What the model says
is abstracted to its kind: content, tool calls, nothing; and of content to the
JSON candidates in it. The module implements `BoundedCall` with
`(MaxToolTurns + 2) * MaxOverloadAttempts` requests as the limit; `Left` is
what may still be asked and `Outcome` is "refused" once the quota is exhausted.

### BrowserFetch

Callers make one call each, of any operation of the two transports. `pc`, `op`,
`attempt`, `waited` and `result` are the client's side of it, `cancelled` the
contexts that are done. A request is a pair of caller and attempt; `work` is where
its handler is in the sidecar (off, queued for its pool, working, or an abandoned
thread) and `age` its timer. `sidecar` and `browser` are the processes.
`Begin` to `GiveUp` follow `doJSON`, `doForm`, `getText` and the sidecar operations, whose
retry conditions differ: `Refusals` lists what each takes as final. `TakeSlot`
to `EndThread` are the handlers: the time of a page operation includes the wait for
its slot, that of PDF text does not, PDF pages have none. A handler never learns that
its client has gone. After `BrowserDies` the context stays set, so every page
operation fails until the sidecar is restarted.

### BoundedCall

A question may be asked at most `Limit` times, is not asked again after it was refused
for good, and ends once, as failed if it was refused. Requests that were
allowed can be given up (a turn that ends early) but never come back.

### SourceReports

For each connector an operator from a record to the report it makes: kept or not,
and the marks of a review, an index, a preprint, a retraction. They translate
the `build...` functions and their guards, with the branch that drops a
record. `AsEvidence` is what `saveArticle` makes of a report. Texts stay apart
as they are written, since `TIER_A`, as connectors write it, and `tierA:`, as
the classifier reads it, differ: `AsRead` is `hasTier`.

### SourceFetch

What a connector does is a *plan*, a sequence of stages (`PubMedPlan`, `ScieloPlan`, ...).
A stage names how often it may ask, what makes it ask again, what a refusal does
to it, and what follows when it failed, was cut off, brought articles or
brought none. The actions run any plan, and so each line of a plan has to be right for its
connector and no more is repeated.

| variable | in the code |
|---|---|
| `fetch[f].pc`, `.stage` | the position in `Fetch`: waiting for the sets' mutex, listing, asking, done, failed, reported |
| `.asked`, `.refusals`, `.found` | the counters of the loop in that stage |
| `.clock` | seconds of the visit, up to 45 |
| `.got`, `.answered` | history: articles were found, an answer was seen |
| `.article` | one article of the result, as built and after `enrichOne` |
| `sets` | `dergiparkSets`, kept for all fetches of the process |

`Lock` waits on the mutex of DergiPark's sets, which knows no context: a fetch may
reach the end of its visit there and not notice. `Cut` ends any request
at 45 seconds. `Enrich` picks a record, builds it with the operator of the stage that
brought it, and reads the article's page where the source does (`FromPage`, `PageRead`) or, when
the record has a DOI, the frozen Markdown of that DOI instead (`FromFile`). The file replaces
the text and, if it names one, the source: the article is then judged and saved under `key`, a
source in `Frozen`, which need not be the one fetched, while evidence and retraction stay those
that were built (`localstore.go:139-141`). Hence a record of a preprint server whose DOI was frozen
from another source is not judged as one of a preprint server, and `VerdictsFollowRecords` goes by
`key`.

### Eligibility

`EvaluateEligibility` and `ApplyEligibility` as operators on the evidence of an
article. An evidence text is its tier prefix (`"reason"` for the sentence that
the classifier writes into an empty one), the keyword scan of title, abstract
and full text is the set of keyword lists that hit, a source is known by the
list it is on. Confidences are thousandths; every sum that the code rounds to
four places is exact here.

### SourceIngest

Visits (`Visits`, one per running scan) of sources, and the row of one article
that all sources report under the same DOI.

| variable | in the code |
|---|---|
| `source[k]` | the row of `articles_source`: stored, has run, has succeeded, failures in a row (to the threshold), circuit open |
| `article` | the row of `articles_article` with its author list: evidence, verdict, and authors that are none, the stand-in "Unknown author", or known |
| `journals` | rows of `articles_journal` of one name |
| `pc[v]`, `key[v]` | the position in `processSource` / `saveArticle`, and the source |
| `draft[v]` | the locals of `saveArticle`: the article, the source to save it under, the authors of the report and those found in the row |
| `raced[v]`, `stale` | history variables: the row was saved since `v` read it; the row is not what its verdict was computed from |

`Judge` to `MarkSuccess` are the loop body of `IngestQuery` and `processSource`,
`EnsureOrigin` to `Save` are `saveArticle`, one action per call, `Save` being
the whole transaction of `SaveIngested`. A frozen file of the DOI may change text, authors and
source of what is saved (`FromFile`), and then its source is stored without having been run. A run is recorded *before* the articles
are saved, as in the code. `Enrich` is the write at the end of a scan: the
authors, if they were missing when the article was saved, and the abstract,
which is written also when only another field was missing and which the code
does not classify again. `Abort` ends a visit anywhere: a failed call, the
source's 45 seconds, a stop, a crash. The loop over sources, its counters and
its resumption are in `SearchWorker`, which sees of all this only whether a
fetch and a save succeed.

### SearchPage

One page, from its mounting on. In a browser nothing interrupts a task: an action is an
answer, a timer or a click, with the promises it settles.

| variable | in the code |
|---|---|
| `search[n]` | the `n`-th call of `handleSearch`: position, filters it was made with, the answer on its way, `created.jobId` |
| `seq`, `current` | `searchSeqRef`, `currentJobIdRef` |
| `state`, `shown`, `total`, `page` | `searchState` (results or partial as one), the job and page of `rawResults`, `totalPages`, `currentPage` |
| `drawn` | `totalPagesRef`, which is assigned only when React draws |
| `asking` | requests of `fetchPage` under way |
| `filters`, `timer` | `filtersRef`, and whether the debounced search is due |
| `link` | the page in the address when the page was mounted |
| `jobs` | the job rows, as far as `GetSearchJob` reveals them |
| `wanted`, `missed`, `strayed` | history: the page last turned to, whether its request failed, whether a superseded search has asked for a page |

`Begin` is `handleSearch` up to its first `await`; it aborts the requests of the search
before it, which returns in the same task unless it sleeps (`Superseded`). `Created` to
`Wake` are its later parts. A search polls for ever, as the code does with its limit
of zero. The effect of the link awaits the first search, so it goes on where that
returns (`Return`, `Jumps`), be it superseded. `Draw` is React drawing the state in a task
of its own; a click acts on the screen drawn (`TurnTo` asks for `drawn = total`). A page
request sees the job as it is then. Left out: the query (searches keep it), which
sources failed, the address written back.

## Runs

All passing runs explore their whole state space. Deadlock is checked except where
the work comes to rest when it is done and the model has no step for it
(`SearchWorker`, `JobCreation`, `QuoteExtraction`, `SearchPage`); `AgentLoop` and `BrowserFetch` have a step
`Ended` for that, and only for that: the checker would report anybody stuck
short of it. The visits and fetches of `SourceIngest` and `SourceFetch` never end.

| run | instance | checks |
|---|---|---|
| `SearchWorker` | 2 sources, 2 tasks, 3 attempts, 1 fault, 2 crashes or stops | `TypeOK`, `OneLiveTask`, `NoLostJob`, `ScanIsComplete`, `UninterruptedScanIsExact`, `ImplementsLifecycle`, `JobEnds` |
| `JobCreation` | 3 clients (1 impatient, 1 spelling differently), 1 fault, 1 crash | `TypeOK`, `LockExcludes`, `ReplyIsBacked`, `AttachesToEarlier`, `KeysAreManned`, `RequestEnds` |
| `QuoteExtraction` | 2 attempts, a published article and a preprint, 1 slot, 1 fault, 1 cancellation, 1 crash | `FrozenIsBacked`, `GoroutinesAreAwaited`, `ClaimsExclude`, `DoneStays`, `EnrichEnds`, `ClaimsResolve` |
| `SourceIngest` | 2 visits over and over, Europe PMC and arXiv, 4 reports, a frozen file from Europe PMC | `CircuitFollowsRuns`, `VerdictIsCurrent`, `RetractionSticks` |
| `AgentLoop` | 2 goroutines (1 without an address), 2 turns with tools, 2 attempts when overloaded, an interval of 2 ticks | `TypeOK`, `NoImageIsReplaced`, `StartsAreSpaced`, `ImplementsBoundedCall`, `ExtractionEnds` |
| `BrowserFetch` | 2 calls of 5 operations, 2 attempts, 1 slot in each pool, 1 crash of sidecar or browser | `HandlersAreAwaited`, `ImplementsBoundedCall`, `SlotsComeBack` |
| `SourceFetch` | 2 fetches over and over, one of any source and one of DergiPark; 2 articles, 2 pages, requests of 0 or 30 s | `TypeOK`, `EmptyIsAnswered`, `FoundIsReturned`, `ThrottledFeedIsFinal`, `VerdictsFollowRecords`, `FetchEnds` |
| `SearchPage` | 3 searches, 2 settings of the filters, 2 pages, any link or none, 1 failing request | `ShownIsLatest`, `FiltersApply`, `PageIsShown`, `SearchSettles` |
| `WorkerResume` `CreationDedupe` `IngestRetraction` `PreprintEvidence` | as small as the disagreement allows | one property each, violated; see [below](#where-code-and-documentation-disagree) |

What the properties say:

- *SearchWorker.* A job has at most one live task and, until it ends, always one
  (or River gave up on it). A job that ends well after a live scan has a timing for
  every source, over any number of attempts. If nothing interrupted the scan, the
  report is exact: counters, failed names and the outcome `partial` agree with
  what happened, although progress writes may have been lost. Every created job
  ends unless River discards its task.
- *JobCreation.* At most one creator more than there were locks that expired is
  in the locked section. An answered id is stored, about to be, or was given up by
  the request that made it up. A request does not create a second job beside an active
  one that was there when it began. Unless a call fails, a Redis key that is there
  belongs to a request that is still in the locked section or was cut off there, although
  any request may delete both: only a client that leaves or a crash leaves keys to
  their TTL. Every request is answered or left, whatever becomes of the lock's owner.
- *QuoteExtraction.* At most one goroutine more than there were evictions
  extracts a published article. A path names a file and a completed row has a
  path. Goroutines outlive `Enrich` only after a failed database call or
  cancellation. A completed row stays completed, unless a holder was evicted or its
  write cut off. Every call of `Enrich` ends. When an attempt
  comes to a claim that went stale behind a holder that is lost, the article gets an
  outcome, unless something more goes wrong (`ClaimsResolve`: the takeover itself has to
  happen, not only to be possible; the parity of the disturbances shows a further one).
- *SourceIngest.* The circuit is open only after three failures in a row, and a
  source whose last run succeeded is healthy, in whatever order the visits of
  several scans record their runs. A retraction is never taken back. Classifying
  the stored row again gives the stored verdict, and a retraction has a note:
  the reasons the classifier writes into the evidence do not feed back into it;
  exempt are rows whose last save another one overtook and rows whose text was
  enriched since.
- *AgentLoop.* Requests start at least the interval apart, from whichever
  goroutine and whatever retry. No image is given the id of another one. An
  extraction makes at most turns times attempts requests, and none after the quota
  is exhausted. Every extraction ends, whatever the provider answers.
- *BrowserFetch.* A call makes at most `MaxAttempts` requests and none after a
  refusal. A handler that works in the browser works for a client that waits, unless that
  client's context ended: no attempt is sent beside the last one's handler.
  Slots come back although sites never answer; PDF pages are exempt, for
  rendering has no limit in the code.
- *SourceFetch.* A fetch that ends well with nothing has had an answer, so that an
  outage does not close a circuit; `hrcak`, `mathnet` and `exa` are exempt, where it does.
  What was found in time is returned; `sciengine` and `ajol` are exempt, which lose it. The
  fallbacks of SciELO serve an empty feed and never a throttled one. A preprint is not marked as reviewed, and a retracted
  work is not eligible, nor one that is saved under a preprint server, whichever stage built the
  record and whatever its page, the frozen file of its DOI and its text say. Every fetch ends.
- *SearchPage.* Results on the screen are of the latest search, and the job they are of was
  made for the filters that are set (or the search that their change causes is due), even
  when the server attached the search to an earlier job. However fast pages are turned, the last one asked
  for is shown and marked in the end. Exempt are a page whose request failed, and, from all
  three, what a superseded search of a link asks for when it wakes up (`strayed`). A search
  settles once its job has ended, however often polls fail; one for a job that is not
  stored polls for ever, and that does happen: see `ReplyIsBacked`.

**Why these bounds.** Two sources give a first and a last one, so a scan can be
cut between them; three attempts with two stops let a job be resumed, resumed again
(where `WorkerResume` needs exactly two cuts) and finished, and a second task is
all that `resumeSearchJobs` can add beside a live one. Three
clients are one more than a lock has sides: an owner whose lock expired, the next
owner whose lock the first deletes, and the one who gets in because of that. Two
attempts and one slot make goroutines wait, claims be contended and a late
writer overwrite; one of each disturbance is enough for every single failure at
every place, and the theorems cover the combinations. Two visits are enough for
a save between another visit's read and its write, and for a failure recorded
after somebody else's success; the reports differ in what can conflict
(retraction, authors, tier or keyword), the preprint server turns each into
a preprint, and the file one of the preprint server into one of the index. In `AgentLoop` two goroutines contend for the gate, every kind of reply
comes at each of first and last attempt, and one tool call a message with a figure and a
page is enough for an id to be reused. In `BrowserFetch` the two callers meet in
each pool as holder and waiter, and the second attempt can meet the handler of the
first; only the order of the limits matters, so that a tick stands for the gap between
two of them (35 s of a handler for connectors, 60 of the client, 120 of PDF text). In
`SourceFetch` requests of 30 seconds make the second one run into the limit of 45;
two requests a stage give a first and a last page (except where the code has a smaller fixed
number, which is kept: three attempts at SciELO's feed, five searches of
MathNet); the caps only shorten loops, as `Limit` does in the code. In `SearchPage` a search is superseded twice: while it
sleeps, and while the one that superseded it does; two pages are one to be
turned to and one to come back to, and the failure hits each request. The samples
hit all keyword lists, the worst case for a verdict. TLC's symmetry is used for River
tasks and visits, in runs without liveness.

**Fairness.** `SearchWorker!Fairness`: goroutines, River's producer and
maintenance, and the start of the process go on (weak fairness per action kind),
because the process is restarted by its supervisor, the producer polls and every
database call has a deadline. No fault, crash, stop or timeout is fair.
`JobCreation!Fairness`: handlers run, the worker ends jobs, and keys expire,
which Redis does unconditionally. `QuoteExtraction!Fairness`: each attempt and
each goroutine proceeds (an extraction has a deadline on each of its requests and
a bounded number of turns), and claims age.
`AgentLoop!Fairness`: goroutines run, sleeps end, and each request has a
deadline. `BrowserFetch!Fairness`: time passes, clients run and have a timeout, a free
slot is taken and a due timer goes off; no fairness for a site, the work of a
handler, or the restart of the sidecar. `SourceFetch!FairSpec`: requests end, the scan goes on, and
strong fairness for the mutex, because Go hands a mutex to a goroutine that has
waited for more than a millisecond. `SearchPage!FairSpec`: the server answers, and the
timers of a search go off; nobody clicks, no job ends and React need not draw.

## Proofs

Each proof module proves `Spec => []Inv` for its inductive invariant by one step
per action, and derives the properties from it. Constants are arbitrary up to the
named assumptions: any number of sources, tasks, clients, attempts, articles and
slots, and any bound on faults, crashes, stops and cancellations.

| module | theorem | what it proves |
|---|---|---|
| `SearchWorker_proofs` | `WorkerInvariant` | `WorkerInv` always holds |
| | `TypeCorrect`, `AtMostOneLiveTask`, `NoJobIsLost`, `CompleteScans` | `TypeOK`, `OneLiveTask`, `NoLostJob`, `ScanIsComplete`, conjuncts of it |
| | `ResumesWithoutRefetch` | `NoRefetch`, from `CopyInv` and `ScanInv` |
| | `SampledAtMostOnce` | `SampledOnce`, with an invariant of its own on top |
| | `EndedJobsStay`, `PublishedTimingsStay` | `TerminalIsFinal`, `TimingsAreKept`, action properties |
| | `WorkerImplementsLifecycle` | `Spec => Lifecycle!Spec` |
| | `UninterruptedScansAreExact` | `UninterruptedScanIsExact`, from `ExactInv` |
| `JobCreation_proofs` | `CreationTypes`, `LockHolds`, `RepliesAreBacked`, `EarlierJobsAreFound` | `TypeOK`, `LockExcludes`, `ReplyIsBacked`, `AttachesToEarlier` |
| | `NoKeyIsForgotten` | `KeysAreManned`, inductive given `TypeOK` |
| | `JobsLiveOnce` | `Spec => Job(c)!Spec` for every uuid `c`: each job of `JobCreation` implements `JobLifecycle` too |
| `QuoteExtraction_proofs` | `ExtractionInvariant`, `FrozenFilesExist`, `PreprintsStayUnkept`, `ClaimsAreSingle` | `ExtractionInv`, `FrozenIsBacked`, `PreprintsAreNotKept`, `ClaimsExclude` |
| | `GoroutinesEndFirst` | `GoroutinesAreAwaited`, from `AwaitedInv` |
| | `CompleteQuotesStay` | `DoneStays`, an action property, from `DoneInv` |
| `SourceIngest_proofs` | `IngestInvariant`, `CircuitIsHonest`, `VerdictStaysCurrent`, `AuthorsAlwaysExist` | `IngestInv`, `CircuitFollowsRuns`, `VerdictIsCurrent`, `AuthorsExist` |
| | `RetractionsStick`, `NamedAuthorsStay` | `RetractionSticks`, `AuthorsAreKept`, action properties |
| | `LabelNamesBasis`, `EligibleIsConfident` | of the classifier alone: the tier of a hit names where its verdict comes from; an eligible article has an overall confidence of at least 0.65 |
| `AgentLoop_proofs` | `Types`, `ImagesAreKept` | `TypeOK`, `NoImageIsReplaced`, from `AgentInv` |
| | `StartsSpaced` | `StartsAreSpaced`, an action property |
| | `CallsAreBounded` | `Spec => Question!Spec`: `ImplementsBoundedCall` for any numbers of turns and attempts |
| `BrowserFetch_proofs` | `FetchTypes` | `TypeOK` |
| | `NestedLimits` | if the handlers' limits are below the client's (`Budget`), `HandlersAreAwaited` |
| | `CallsAreBounded` | `Spec => Call!Spec`: `ImplementsBoundedCall` |
| `SourceFetch_proofs` | `FetchInvariant`, `ListingIsExclusive`, `VerdictsAreSound` | `FetchInv`, `ListingExcludes`, `VerdictsFollowRecords` |
| | `FetchesAreSound` | `FetchInv /\ AllSound`: `Sound` of every fetch |
| | `FetchTypes`, `OutagesAreNoSuccess`, `FindsAreKept`, `ThrottledFeedEnds` | `TypeOK`, `EmptyIsAnswered`, `FoundIsReturned`, `ThrottledFeedIsFinal`, from `Sound` |
| | `RequestsAdvance` | `FetchesAdvance`, an action property: no chain of pages, retries and fallbacks leads back in a plan |
| | `BuiltIsMarked`, `ReportIsSound` | of the connectors alone, for every record: what a stage builds is marked as a retraction or preprint where it has to be; its verdict follows, whatever the page, the frozen file and the text |
| `SearchPage_proofs` | `SearchInvHolds` | `SearchInv` always holds |
| | `TypesHold`, `LatestIsShown`, `FiltersAreApplied`, `LastPageIsShown` | `TypeOK`, `ShownIsLatest`, `FiltersApply`, `PageIsShown` |
| | `NoPageIsInvented` | `PagesExist`: no page is shown or marked but one that the results have, strays excepted |

**Why the invariants have to be stronger.** `NoRefetch` speaks of the row, but
the scan decides on the worker's copy. `CopyInv` says that the copy is never
behind the row in the timings, `ScanInv` what the loop has visited and that a
scan that is over has visited all; together they make `ScanIsComplete` and
`NoRefetch` inductive. `CopyInv` in turn needs that no two goroutines write the
row (`OneLiveTask`, `TasksInv`) and that nothing is written after the end
(`RowInv`). For `OneLiveTask` the delicate step is `resumeSearchJobs`, which
queries first and inserts later: `TasksInv` says that while the process is in
between, no task is live.

`LockExcludes` counts: a creator enters only when the key is absent, and the key
is absent while others are inside only after an expiry, or after the `DEL` of
somebody who did not own it. `LockInv` therefore counts the creators inside other
than the key's owner: there are no more of them than expiries. A `DEL` turns at
most the owner into one of them and removes its sender.
`ClaimsExclude` is the same idea for claims: `ClaimsInv` lets the row account for
one holder while it is pending or done and demands an eviction for every other;
a row that failed or is empty accounts for none, so a claim that takes it may
add one. Inside `ExtractionInv`, `WritersInv` says which goroutine may write
which row and that a path is stamped after its file is there.

`VerdictIsCurrent` rests on a lemma about the classifier, `StoredDecides`: the
evidence as `ApplyEligibility` rewrites it gets the same verdict. A save stores
the verdict of the draft beside a retraction flag merged with that of the row;
`DraftInv` says that, unless overtaken, the draft knows the row's retraction, so
the merge changes nothing. The same invariant carries what the visit has read of
the authors, on which `AuthorsAreKept` depends. `CircuitInv` adds to
`CircuitFollowsRuns` that a source is stored before it is run.

`StartsAreSpaced` holds because whoever sleeps in the gate holds it and `wait +
since` covers the interval (`GateInv`): ticks turn one into the other. For
`NoImageIsReplaced` the ids have to be numbered below their count (`ImageInv`).
In `CallsAreBounded` of both modules a step of the model is a request, an end, or a stutter
at the abstract level; `ReplyInv` and `ClientInv` say what the last request came to at
each place, so that a place where it may be asked again is never reached after a
refusal. `HandlersAreAwaited` is not inductive and follows from `BudgetInv`:
the client of a live handler waits for it, and both timers show the same time. Hence the
handler is due before the client is, and `Tick` cannot pass it. `VerdictsFollowRecords`
rests on `Sourced`: which source and stage a fetch is in, hence which
operator builds its records.

`UninterruptedScanIsExact` speaks of the row at the end, whose counters were counted
on the copy of the attempt. `ExactInv` follows them: the row is pristine until
the only attempt starts; in the loop, `done` counts the sources passed and `failed` has
those of them that fail (`FromStart`), although a progress write that is lost leaves the
row behind; the last write stores the whole copy. A task that anybody runs
has an attempt (`AttemptsInv`), which is why nobody else writes. For
`AttachesToEarlier`, `EarlierInv` says that a request past its `FindActive` has, unless a
call failed, seen every earlier job end: had it found one it would have been attached. Its
other part, that a uuid is not stored before its request inserts it, is what
`JobsLiveOnce` needs, too.

`GoroutinesAreAwaited` is about calls that have returned, `AwaitedInv` about why: while
nothing failed and nobody cancelled, the only contexts that are done are those of calls
that River has closed, and they waited for their goroutines. `DoneInv` says that a row that
is done has no holder left, so that the only step that could write it is a claim, which does
not take such rows.

The properties of the fetches need `Sound`, which says of a fetch *between* requests why
it may still end well: a count of refusals below that of requests means an answer,
what is found is still to be returned, and each pause of SciELO is on the clock. It
does not look into the plans of the 24 connectors: `PlansAreFine` proves of every stage of
every plan what the argument uses (`FineStage`: the last stage leads nowhere, only
two sources start over after articles, which refusals stop, skip, pause or are ignored).
A connector whose plan has these facts has the properties. `RequestsAdvance` is the safety half of
`FetchEnds`: each request ends the fetch, moves it to a later stage, or counts
in `asked`, which `TypeOK` bounds by the limit of the stage.

In `SearchInv`, `HandlersInv` says that only the latest search has a request under way and
that the page's job is its job; so whoever sets results sets those of the latest.
`WishInv` says that a search and its job have the same filters, also when the job was made
for another search, and `PageInv` that the job on the screen has ended and has the page asked for last,
which is what page requests are for (so `PagesExist`), and that nothing is drawn before the first search returns: until then the link cannot be
followed, and whatever follows it later is a stray.

**What the proofs rest on.** The named assumptions of the modules
(`NAssumption`, `BoundsAssumption`, `ClientsAssumption`, `CreationBounds`,
`ExtractionAssumption`, `ExtractionBounds`, `IngestAssumption`, `AgentAssumption`,
`FetchAssumption`, `PageAssumption`), the library's facts about finite sets, and nothing else.
`NestedLimits` alone has a further hypothesis, `Budget`, which holds of the limits for
connectors and not of those for quote extraction.

`TypeOK` of `QuoteExtraction` and `SourceIngest` is proved as a conjunct of
`ExtractionInv` and `IngestInv`; like those of `BrowserFetch` and `SearchPage` it has no run.
Nor have `ListingExcludes`, `NoRefetch`, `SampledOnce`, `TerminalIsFinal`, `TimingsAreKept`,
`PreprintsAreNotKept`, `AuthorsExist`, `AuthorsAreKept`, `FetchesAdvance` and `PagesExist`, which
are proved too.

**Model-checked only.** Liveness, which the prover does not do: `JobEnds`, `RequestEnds`,
`EnrichEnds`, `ClaimsResolve`, `ExtractionEnds`, `SlotsComeBack`,
`FetchEnds`, `SearchSettles`. Every invariant and every action property of a passing run is
also the statement of a theorem, and so are the three refinements. The disagreements below
are counterexamples, which are TLC's.

## Where code and documentation disagree

| run | what is said | what happens |
|---|---|---|
| `WorkerResume` | `docs/archive/findings.md:187`: a resumed job continues with the remaining sources | a health snapshot leaves done = total in the row; after a scan cut at one source the next attempt takes the scan for finished |
| `CreationDedupe` | `docs/archive/progress.md:252`: identical requests attach to an active job | the search precedes the lock, so a request can look before and lock after another one's creation |
| `IngestRetraction` | `eligibility.go:96`: a retracted article is never eligible | the stored retraction is read before the saving transaction: a visit that read earlier overwrites `is_eligible` while the upsert keeps `is_retracted` |
| `PreprintEvidence` | `eligibility.go:115`: a preprint is never peer-reviewed | connectors write `TIER_A` and `TIER_B` (`api_connectors.go:16-20`), the classifier looks for `tierA:` and `tierB:` (`eligibility.go:17-18`): a preprint from Europe PMC is stored as reviewed |

Beside these, in the models but without a run of their own:

- `searchjob.go:85` announces "Status: running", but `UpdateProgress` does not
  write `status`: the row says `queued` until the job ends (`Snapshot`).
- `openapi.yaml:57` promises an attachment to an existing active job, but the
  pending key names a job whose insertion may still fail; `ReplyIsBacked` says
  when.
- `extract.go:59` says that a failure is recorded on the claim row, but
  `SetNoText` runs on the attempt's context: cancelled in between, the row stays
  pending for 15 minutes (`MarkNoText`).
- An error of one database call in the loop of `Enrich` returns at once without
  the other hits and without `wg.Wait` (`ReturnEarly`; `GoroutinesAreAwaited`
  says when goroutines can outlive the call).
- An enriched abstract is stored without a new verdict, although the classifier
  scans abstracts for words like "preprint" (`Enrich`; `VerdictIsCurrent` exempts
  such rows).
- `sources.go:172` says that `UpsertJournal` inserts or finds a journal by name; the schema
  (`001_init.sql:23-30`) has no unique name, so `ON CONFLICT DO NOTHING` never applies and
  every save inserts a row (`SourceIngest!UpsertJournal`).
- `articles_author` has no unique name either, so each save inserts its authors
  anew (`sources.go:178` and `articles.go:309` rely on the same `ON CONFLICT`).
- `App.tsx:396` says that a link runs its query, "then jump to the linked page if it still
  exists"; the total is read (`App.tsx:402`) in the task in which the search returns, before
  React has drawn it, so it is still 0 and the first page stays (`SearchPage!Jumps`).
- `App.tsx:250` keeps the current page after a page request that failed; the page was
  set before the request (`App.tsx:425`), so that the new number stays marked over the old
  results and cannot be asked for again (`SearchPage!PageFails`).
- `README.md:164` calls connector failures isolated; articles are saved on the source's
  context of 45 seconds, and an error of the save is returned (`ingest_live.go:253`) and
  fails the whole job (`SearchWorker!Saving`).
- `browser_pool.py:308-310` bounds the work on a page so as not to overrun the worker's
  HTTP timeout; with the 60 seconds of quote extraction a handler may take 70 while its
  client gives up after 60 (`transport.go:287`), and the retry runs beside it: `Budget` does
  not hold there.
- `hrcak`, `mathnet` and `exa` return an outage as an empty result, which is
  recorded as a success; `sciengine` throws away what it has when a later page fails.
- SciELO pauses 48 seconds between and after its attempts at a throttled feed, more than
  its visit lasts, so the fallbacks written for that case never run
  (`ThrottledFeedIsFinal`).
- A client that was attached to a uuid whose job was never stored
  (`JobCreation!ReplyIsBacked`) gets 404 for ever and, having no limit, polls for ever
  (`SearchSettles`).
- `localstore.go:139-141` puts the source of the frozen file in place of the one fetched: a record
  of a preprint server whose DOI was frozen from a reviewed source is judged, and stored, as one of
  that source, since only the marks and words of a preprint are left to tell (`FromFile` in
  `SourceFetch` and `SourceIngest`). Files are written of articles that were published when they
  were extracted.
- A search of a link that is superseded in its sleep turns the page of the search that
  superseded it (`strayed`).

## Plan

The order was by how much of the system's behaviour depends on a part.

1. *Done:* worker with scan, queue and process; job creation; quote extraction;
   circuit breaker, article store and classifier.
2. *Done:* the agent loop over the LLM client, transport and browser sidecar, both
   refining `BoundedCall`; the connectors' requests and reports; the client.
3. *Done:* theorems for every invariant, action property and refinement of the runs.
   To prove further: the safety halves of the other liveness properties, as `RequestsAdvance`
   is for the fetches.
4. Composition: `JobCreation` with `SearchWorker` through rows and tasks, so that
   the action that ends jobs becomes the worker in full. Both implement `JobLifecycle`
   (`WorkerImplementsLifecycle`, `JobsLiveOnce`) and check the edge from their side now:
   `Create` stores row and task at once, `WorkerEnds` is fair.
5. Pure operators over bounded inputs: progress percentage, pagination, the
   cascade of enriched metadata.

**What stays out.** Parsing of provider pages and feeds, SQL text search and
ranking weights, prompt texts, HTML and CSS: data without control. The rate limiter is one
atomic Redis script, and the translation cache a read-through map with a time to live: there
is nothing to interleave. DOI lookups and the resolver of full texts only supply
data that no decision of the models depends on. Handlers other than the two for search jobs
read and format. Configuration
loading, migrations and nginx are sequential start-up code. River, Postgres,
Redis and the HTTP servers are external: they appear as the actions that this
code relies on.
