---------------------------- MODULE SearchWorker ----------------------------
(***************************************************************************)
(* One search job from its creation to its terminal state: the row of      *)
(* search_searchjob, the River tasks that carry the job, the worker        *)
(* process that runs them, and every step of SearchJobWorker.Work with the *)
(* live scan it drives (LiveIngestor.IngestQuery / processSource).         *)
(*                                                                         *)
(* A step is one database call together with the computation up to the     *)
(* next one, so a crash, a cancellation or another task can come between   *)
(* any two writes of the code.  The worker computes on its own copy of the *)
(* row (mem, the code's dbJob) and the row sees it only through            *)
(* UpdateProgress, which leaves status and finished_at alone, and Update,  *)
(* which writes everything.                                                *)
(*                                                                         *)
(* Abstracted: article data, ranking and quotes (no step of Work branches  *)
(* on them), messages and labels, display names of sources (a source       *)
(* stands for its name; the list of failed names is a set).                *)
(***************************************************************************)
EXTENDS Integers, FiniteSets

CONSTANTS
  N,            \* number of connectors in the registry, visited in order
  Tasks,        \* identities of river_job rows
  MaxAttempts,  \* River's attempts per task (25 unless configured)
  MaxFaults,    \* bound: database calls that fail for no reason of ours
  MaxStops      \* bound: crashes and stops of the worker process

ASSUME NAssumption == N \in Nat \ {0}
ASSUME BoundsAssumption ==
  /\ MaxAttempts \in Nat \ {0}
  /\ MaxFaults \in Nat
  /\ MaxStops \in Nat

VARIABLES
  row,          \* the persisted search_searchjob row
  task,         \* [Tasks -> river_job row: state and attempt]
  pc,           \* [Tasks -> where the goroutine running the task is]
  mem,          \* [Tasks -> dbJob, the goroutine's copy of the row]
  scan,         \* [Tasks -> locals of IngestQuery / processSource]
  cancelled,    \* [Tasks -> the attempt's context is done]
  proc,         \* the worker process
  samples,      \* rows added to search_searchwaitstat for this job
  faults,       \* database faults so far
  stops         \* crashes and stops so far

vars == <<row, task, pc, mem, scan, cancelled, proc, samples, faults, stops>>

Sources == 1..N

-----------------------------------------------------------------------------
(* Values.                                                                 *)

Terminal == {"completed", "partial", "failed"}
Statuses == {"absent", "queued", "running"} \cup Terminal
Stages == {"queued", "checking_index", "live_scan", "searching_index",
           "completed", "failed"}
Failing == {"failed", "skipped"}
Timings == {"none", "completed"} \cup Failing
Reasons == {"", "resumed_after_restart", "forced_by_user",
            "empty_index_hits", "stale_query_scan"}

Jobs ==
  [status : Statuses, stage : Stages, force : BOOLEAN, total : Nat,
   done : Nat, failed : SUBSET Sources, timings : [Sources -> Timings],
   reason : Reasons, finished : BOOLEAN]

TaskStates == {"none", "available", "running", "retryable", "completed",
               "discarded"}
\* River rows with finalized_at NULL.
Unfinalized == {"available", "running", "retryable"}

Scans == [k : 1..(N + 1), done : Nat, failed : SUBSET Sources,
          resumed : SUBSET Sources, outcome : Timings]

Steps == {"idle", "load", "checking", "deciding", "scan_start", "scanning",
          "fetching", "saving", "profile", "progress", "health", "ranking",
          "querying", "finishing", "recording", "failing", "done", "error"}

NoTimings == [s \in Sources |-> "none"]

\* buildQueuedJob: the row CreateSearchJob inserts.
QueuedJob(force) ==
  [status |-> "queued", stage |-> "queued", force |-> force, total |-> 0,
   done |-> 0, failed |-> {}, timings |-> NoTimings, reason |-> "",
   finished |-> FALSE]

NoJob == [QueuedJob(FALSE) EXCEPT !.status = "absent"]
NoScan == [k |-> 1, done |-> 0, failed |-> {}, resumed |-> {},
           outcome |-> "none"]

-----------------------------------------------------------------------------
(* What the code computes on a job.                                        *)

MaxOf(a, b) == IF a >= b THEN a ELSE b

\* The sources the job carries a timing for: completedSourceKeys.
Scanned(j) == {s \in Sources : j.timings[s] # "none"}

\* Work, first lines: nothing is left to do for a job that has ended.
FinishedIfFailed(j) == j.status = "failed"
Finished(j) == j.status \in Terminal \/ j.finished

\* finishedLiveScan
FinishedLiveScan(j) ==
  /\ j.total > 0
  /\ j.done >= j.total
  /\ Scanned(j) # {}

\* determineRescan, "" for no scan; a freshness query that fails says stale.
RescanReason(j, hits, fresh) ==
  IF Scanned(j) # {} /\ ~FinishedLiveScan(j) THEN "resumed_after_restart"
  ELSE IF j.force THEN "forced_by_user"
  ELSE IF ~hits THEN "empty_index_hits"
  ELSE IF ~fresh THEN "stale_query_scan"
  ELSE ""

\* What a scan that starts from job j skips (ResumeCompletedKeys).
ResumeKeys(j) == Scanned(j)

\* The counters IngestQuery starts from.
ScanFrom(j) ==
  [k |-> 1, done |-> MaxOf(j.done, Cardinality(ResumeKeys(j))),
   failed |-> j.failed, resumed |-> ResumeKeys(j), outcome |-> "none"]

\* No source is left to visit.
AtLast(sc) == sc.k >= N
AtEnd(sc) == sc.k > N

\* A source ends with an outcome: done++, and its name joins the failed ones
\* unless it completed.
AfterUncounted(sc, outcome) == [sc EXCEPT !.done = @ + 1, !.outcome = outcome]
After(sc, outcome) ==
  [sc EXCEPT !.done = @ + 1, !.outcome = outcome,
             !.failed = IF outcome \in Failing THEN @ \cup {sc.k} ELSE @]

\* buildProfileCallback: the source gets its timing.
Timed(j, sc) == [j EXCEPT !.timings[sc.k] = sc.outcome]

\* buildProgressCallback: the counters of the scan become the job's.
SubstageAsStage(j, sc) ==
  [j EXCEPT !.stage = IF sc.outcome = "skipped" THEN "source_skipped" ELSE "live_scan",
            !.total = N, !.done = sc.done, !.failed = sc.failed]
InScan(j, sc) ==
  [j EXCEPT !.stage = "live_scan",
            !.total = N, !.done = sc.done, !.failed = sc.failed]

\* recordSourceHealth
WithHealth(j, unhealthy) ==
  [j EXCEPT !.total = N, !.done = N, !.failed = unhealthy]

\* The last lines of Work, and fail().
Ended(j) ==
  [j EXCEPT !.status = IF j.failed = {} THEN "completed" ELSE "partial",
            !.stage = "completed", !.finished = TRUE]
FailedJob(j) ==
  [j EXCEPT !.status = "failed", !.stage = "failed", !.finished = TRUE]

\* SearchJobs.UpdateProgress: every column but status, results, error and
\* finished_at.
Snapshot(r, j) == [j EXCEPT !.status = r.status, !.finished = r.finished]

-----------------------------------------------------------------------------
(* Database calls on the context of an attempt.                            *)

DbWorks(t) == ~cancelled[t] /\ UNCHANGED faults

DbFails(t) ==
  \/ cancelled[t] /\ UNCHANGED faults
  \/ ~cancelled[t] /\ faults < MaxFaults /\ faults' = faults + 1

Goto(t, step) == pc' = [pc EXCEPT ![t] = step]

\* update() and the callbacks: the copy changes, its write may fail, and a
\* failed write is only logged.
Persist(t, j) ==
  /\ mem' = [mem EXCEPT ![t] = j]
  /\ \/ DbWorks(t) /\ row' = Snapshot(row, j)
     \/ DbFails(t) /\ UNCHANGED row

\* A call whose error Work turns into fail(...).
Abort(t) ==
  /\ DbFails(t)
  /\ Goto(t, "failing")
  /\ UNCHANGED <<row, mem, scan>>

Outside == <<task, cancelled, proc, samples, stops>>

-----------------------------------------------------------------------------
(* SearchJobWorker.Work                                                    *)

\* GetByID; a missing or ended job ends the attempt without error.
Load(t) ==
  /\ pc[t] = "load"
  /\ \/ /\ DbWorks(t)
        /\ IF row.status = "absent" \/ Finished(row)
           THEN Goto(t, "done") /\ UNCHANGED mem
           ELSE /\ mem' = [mem EXCEPT ![t] =
                             [row EXCEPT !.status = "running",
                                         !.stage = "checking_index"]]
                /\ Goto(t, "checking")
     \/ /\ DbFails(t)
        /\ Goto(t, "error")
        /\ UNCHANGED mem
  /\ UNCHANGED <<row, scan, Outside>>

\* update: "running", "checking_index".
Checking(t) ==
  /\ pc[t] = "checking"
  /\ Persist(t, mem[t])
  /\ Goto(t, "deciding")
  /\ UNCHANGED <<scan, Outside>>

\* IndexHitCount, HasFreshRecentScan, update.
Deciding(t) ==
  /\ pc[t] = "deciding"
  /\ \/ Abort(t)
     \/ \E hits, fresh \in BOOLEAN :
          LET reason == RescanReason(mem[t], hits, fresh)
          IN  /\ ~cancelled[t]
              /\ Persist(t, [mem[t] EXCEPT !.reason = reason])
              /\ Goto(t, IF reason # "" THEN "scan_start"
                         ELSE IF FinishedLiveScan(mem[t]) THEN "ranking"
                         ELSE "health")
              /\ UNCHANGED scan
  /\ UNCHANGED Outside

\* recordSourceHealth: any source can be unhealthy; its errors are logged.
Health(t) ==
  /\ pc[t] = "health"
  /\ \/ DbFails(t) /\ UNCHANGED <<row, mem>>
     \/ /\ ~cancelled[t]
        /\ \E unhealthy \in SUBSET Sources :
             Persist(t, WithHealth(mem[t], unhealthy))
  /\ Goto(t, "ranking")
  /\ UNCHANGED <<scan, Outside>>

\* update: "searching_index".  Both ways into this step write it once.
Ranking(t) ==
  /\ pc[t] = "ranking"
  /\ Persist(t, [mem[t] EXCEPT !.stage = "searching_index"])
  /\ Goto(t, "querying")
  /\ UNCHANGED <<scan, Outside>>

\* Search.Run, AttachAuthors and IndexHitCount, then the quote substage,
\* whose own errors are logged.
Querying(t) ==
  /\ pc[t] = "querying"
  /\ \/ Abort(t)
     \/ /\ ~cancelled[t]
        /\ Persist(t, mem[t])
        /\ Goto(t, "finishing")
        /\ UNCHANGED scan
  /\ UNCHANGED Outside

\* Jobs.Update with the outcome; its error is the attempt's, even when the
\* row was written and only the answer was lost.
Finishing(t) ==
  /\ pc[t] = "finishing"
  /\ mem' = [mem EXCEPT ![t] = Ended(mem[t])]
  /\ \/ DbWorks(t) /\ row' = Ended(mem[t]) /\ Goto(t, "recording")
     \/ /\ DbFails(t)
        /\ UNCHANGED row \/ (~cancelled[t] /\ row' = Ended(mem[t]))
        /\ Goto(t, "error")
  /\ UNCHANGED <<scan, Outside>>

\* RecordWaitCompletion; its error is logged.
Recording(t) ==
  /\ pc[t] = "recording"
  /\ \/ DbWorks(t) /\ samples' = samples + 1
     \/ DbFails(t) /\ UNCHANGED samples
  /\ Goto(t, "done")
  /\ UNCHANGED <<row, task, mem, scan, cancelled, proc, stops>>

\* fail(): the error of its own write is logged, Work returns the first one.
Fail(t) ==
  /\ pc[t] = "failing"
  /\ mem' = [mem EXCEPT ![t] = FailedJob(mem[t])]
  /\ \/ DbWorks(t) /\ row' = FailedJob(mem[t])
     \/ DbFails(t) /\ UNCHANGED row
  /\ Goto(t, "error")
  /\ UNCHANGED <<scan, Outside>>

-----------------------------------------------------------------------------
(* LiveIngestor.IngestQuery and processSource                              *)

\* The counters, and the first progress event ("queued" or "resuming").
ScanStart(t) ==
  /\ pc[t] = "scan_start"
  /\ scan' = [scan EXCEPT ![t] = ScanFrom(mem[t])]
  /\ Persist(t, InScan(mem[t], ScanFrom(mem[t])))
  /\ Goto(t, "scanning")
  /\ UNCHANGED Outside

NextSource(sc) == [sc EXCEPT !.k = @ + 1]

SkipResumed(t) ==
  /\ pc[t] = "scanning"
  /\ ~AtEnd(scan[t])
  /\ scan[t].k \in scan[t].resumed
  /\ scan' = [scan EXCEPT ![t] = NextSource(scan[t])]
  /\ UNCHANGED <<row, pc, mem, faults, Outside>>

\* The loop is over: DOI enrichment touches no job state.
EndScan(t) ==
  /\ pc[t] = "scanning"
  /\ AtEnd(scan[t])
  /\ Goto(t, "ranking")
  /\ UNCHANGED <<row, mem, scan, faults, Outside>>

\* Sources.GetByKey / EnsureExists fails: the whole scan does.
\* The circuit is open: the source counts as failed and is not asked.
\* Otherwise processSource begins with a "fetching" progress event.
VisitSource(t) ==
  /\ pc[t] = "scanning"
  /\ ~AtEnd(scan[t])
  /\ scan[t].k \notin scan[t].resumed
  /\ \/ Abort(t)
     \/ /\ DbWorks(t)
        /\ scan' = [scan EXCEPT ![t] = After(scan[t], "skipped")]
        /\ Goto(t, "profile")
        /\ UNCHANGED <<row, mem>>
     \/ /\ ~cancelled[t]
        /\ Persist(t, InScan(mem[t], scan[t]))
        /\ Goto(t, "fetching")
        /\ UNCHANGED scan
  /\ UNCHANGED Outside

\* conn.Fetch.  On an error markFailure records the run, on success
\* markSuccess does, and a recording that fails ends the scan.  The
\* "enriching" and "indexing" events write the same snapshot.
Fetching(t) ==
  /\ pc[t] = "fetching"
  /\ \/ Abort(t)
     \/ /\ DbWorks(t)
        /\ scan' = [scan EXCEPT ![t] = After(scan[t], "failed")]
        /\ Goto(t, "profile")
        /\ UNCHANGED <<row, mem>>
     \/ /\ ~cancelled[t]
        /\ Persist(t, InScan(mem[t], scan[t]))
        /\ Goto(t, "saving")
        /\ UNCHANGED scan
  /\ UNCHANGED Outside

\* saveArticle runs on the source's own context: the 45 seconds may be over
\* (no fault of the database), and any error ends the scan.  A source that
\* brought no article with a DOI saves nothing and cannot fail here.
Saving(t) ==
  /\ pc[t] = "saving"
  /\ \/ Abort(t)
     \/ /\ Goto(t, "failing")
        /\ UNCHANGED <<row, mem, scan, faults>>
     \/ /\ scan' = [scan EXCEPT ![t] = After(scan[t], "completed")]
        /\ Goto(t, "profile")
        /\ UNCHANGED <<row, mem, faults>>
  /\ UNCHANGED Outside

\* opts.Profile: the timing is written before the counters are.
Profile(t) ==
  /\ pc[t] = "profile"
  /\ Persist(t, Timed(mem[t], scan[t]))
  /\ Goto(t, "progress")
  /\ UNCHANGED <<scan, Outside>>

\* opts.Progress: "source_skipped", "failed" or "completed".
Progress(t) ==
  /\ pc[t] = "progress"
  /\ Persist(t, InScan(mem[t], scan[t]))
  /\ scan' = [scan EXCEPT ![t] = NextSource(scan[t])]
  /\ Goto(t, "scanning")
  /\ UNCHANGED Outside

Work(t) ==
  \/ Load(t) \/ Checking(t) \/ Deciding(t) \/ Health(t) \/ Ranking(t)
  \/ Querying(t) \/ Finishing(t) \/ Recording(t) \/ Fail(t)
  \/ ScanStart(t) \/ SkipResumed(t) \/ EndScan(t) \/ VisitSource(t)
  \/ Fetching(t) \/ Saving(t) \/ Profile(t) \/ Progress(t)

-----------------------------------------------------------------------------
(* The API's insert, River, and the worker process.                        *)

\* createJobWithTask: row and River task in one transaction.
Create(t, force) ==
  /\ row.status = "absent"
  /\ task[t].state = "none"
  /\ row' = QueuedJob(force)
  /\ task' = [task EXCEPT ![t] = [state |-> "available", attempt |-> 0]]
  /\ UNCHANGED <<pc, mem, scan, cancelled, proc, samples, faults, stops>>

\* River's producer hands the task to a goroutine of the worker.
OnlyAvailable == {"available"}
Fetchable == {"available", "retryable"}

StartAttempt(t) ==
  /\ proc = "up"
  /\ task[t].state \in Fetchable
  /\ task' = [task EXCEPT ![t] = [state |-> "running", attempt |-> @.attempt + 1]]
  /\ Goto(t, "load")
  /\ UNCHANGED <<row, mem, scan, cancelled, proc, samples, faults, stops>>

\* River's verdict on an attempt that did not return nil.
Swallowed(tk) == [tk EXCEPT !.state = "completed"]
Retried(tk) ==
  [tk EXCEPT !.state = IF tk.attempt < MaxAttempts THEN "retryable"
                       ELSE "discarded"]

\* River's completer: Work returned nil, or an error.
Settle(t) ==
  /\ pc[t] \in {"done", "error"}
  /\ task' = [task EXCEPT ![t] = IF pc[t] = "done"
                                 THEN [@ EXCEPT !.state = "completed"]
                                 ELSE Retried(@)]
  /\ Goto(t, "idle")
  /\ mem' = [mem EXCEPT ![t] = NoJob]
  /\ scan' = [scan EXCEPT ![t] = NoScan]
  /\ cancelled' = [cancelled EXCEPT ![t] = FALSE]
  /\ UNCHANGED <<row, proc, samples, faults, stops>>

\* JobTimeout: the context of a running attempt is done.
TimeOut(t) ==
  /\ pc[t] \notin {"idle", "done", "error"}
  /\ ~cancelled[t]
  /\ cancelled' = [cancelled EXCEPT ![t] = TRUE]
  /\ UNCHANGED <<row, task, pc, mem, scan, proc, samples, faults, stops>>

\* River's rescuer: a running task no goroutine works on any more.
Rescue(t) ==
  /\ proc = "up"
  /\ task[t].state = "running"
  /\ pc[t] = "idle"
  /\ task' = [task EXCEPT ![t] = Retried(@)]
  /\ UNCHANGED <<row, pc, mem, scan, cancelled, proc, samples, faults, stops>>

\* SIGTERM cancels the context every attempt derives from; the client waits
\* for the attempts to return, then the process exits.
Stop ==
  /\ proc = "up"
  /\ stops < MaxStops
  /\ stops' = stops + 1
  /\ proc' = "stopping"
  /\ cancelled' = [t \in Tasks |-> cancelled[t] \/ pc[t] # "idle"]
  /\ UNCHANGED <<row, task, pc, mem, scan, samples, faults>>

Exit ==
  /\ proc = "stopping"
  /\ \A t \in Tasks : pc[t] = "idle"
  /\ proc' = "down"
  /\ UNCHANGED <<row, task, pc, mem, scan, cancelled, samples, faults, stops>>

\* The process dies with everything it had in memory.
Crash ==
  /\ proc # "down"
  /\ stops < MaxStops
  /\ stops' = stops + 1
  /\ proc' = "down"
  /\ pc' = [t \in Tasks |-> "idle"]
  /\ mem' = [t \in Tasks |-> NoJob]
  /\ scan' = [t \in Tasks |-> NoScan]
  /\ cancelled' = [t \in Tasks |-> FALSE]
  /\ UNCHANGED <<row, task, samples, faults>>

\* The restart policy brings the process back.
Start ==
  /\ proc = "down"
  /\ proc' = "starting"
  /\ UNCHANGED <<row, task, pc, mem, scan, cancelled, samples, faults, stops>>

\* The WHERE clause of resumeSearchJobs: an unfinished row without a task
\* that is still to run.
UnfinishedRow(tk) == row.status \in {"queued", "running"} /\ ~row.finished
Orphaned(tk) ==
  /\ row.status \in {"queued", "running"}
  /\ ~row.finished
  /\ \A t \in Tasks : tk[t].state \notin Unfinalized

\* The query; the tasks it asks for are inserted afterwards, one by one.
QueryUnfinished ==
  /\ proc = "starting"
  /\ \/ proc' = (IF Orphaned(task) THEN "resuming" ELSE "up") /\ UNCHANGED faults
     \/ faults < MaxFaults /\ faults' = faults + 1 /\ proc' = "down"
  /\ UNCHANGED <<row, task, pc, mem, scan, cancelled, samples, stops>>

\* client.Insert; an error makes the process exit, whether or not the task
\* is there.
ResumeJob(t) ==
  /\ proc = "resuming"
  /\ task[t].state = "none"
  /\ \/ /\ proc' = "up"
        /\ task' = [task EXCEPT ![t] = [state |-> "available", attempt |-> 0]]
        /\ UNCHANGED faults
     \/ /\ faults < MaxFaults
        /\ faults' = faults + 1
        /\ proc' = "down"
        /\ \/ UNCHANGED task
           \/ task' = [task EXCEPT ![t] = [state |-> "available", attempt |-> 0]]
  /\ UNCHANGED <<row, pc, mem, scan, cancelled, samples, stops>>

-----------------------------------------------------------------------------

Init ==
  /\ row = NoJob
  /\ task = [t \in Tasks |-> [state |-> "none", attempt |-> 0]]
  /\ pc = [t \in Tasks |-> "idle"]
  /\ mem = [t \in Tasks |-> NoJob]
  /\ scan = [t \in Tasks |-> NoScan]
  /\ cancelled = [t \in Tasks |-> FALSE]
  /\ proc = "down"
  /\ samples = 0
  /\ faults = 0
  /\ stops = 0

Process == Stop \/ Exit \/ Crash \/ Start \/ QueryUnfinished

River(t) == StartAttempt(t) \/ Settle(t) \/ TimeOut(t) \/ Rescue(t) \/ ResumeJob(t)

Next ==
  \/ \E t \in Tasks, force \in BOOLEAN : Create(t, force)
  \/ \E t \in Tasks : Work(t)
  \/ \E t \in Tasks : River(t)
  \/ Process

\* Whatever can run runs: goroutines, River's loops, and the container's
\* restart policy.  Nothing forces a request, a stop, a crash or a timeout.
Fairness ==
  /\ \A t \in Tasks : /\ WF_vars(Work(t))
                      /\ WF_vars(Settle(t))
                      /\ WF_vars(StartAttempt(t))
                      /\ WF_vars(Rescue(t))
                      /\ WF_vars(ResumeJob(t))
  /\ WF_vars(Exit)
  /\ WF_vars(Start)
  /\ WF_vars(QueryUnfinished)

Spec == Init /\ [][Next]_vars
FairSpec == Spec /\ Fairness

-----------------------------------------------------------------------------
(* Invariants.                                                             *)

\* Every variable has the type of what it stands for.
TypeOK ==
  /\ row \in Jobs
  /\ task \in [Tasks -> [state : TaskStates, attempt : Nat]]
  /\ pc \in [Tasks -> Steps]
  /\ mem \in [Tasks -> Jobs]
  /\ scan \in [Tasks -> Scans]
  /\ cancelled \in [Tasks -> BOOLEAN]
  /\ proc \in {"down", "starting", "resuming", "up", "stopping"}
  /\ samples \in Nat
  /\ faults \in Nat
  /\ stops \in Nat

\* At most one River task of a job is still to run, although
\* resumeSearchJobs queries first and inserts later.
OneLiveTask ==
  \A t, u \in Tasks :
    task[t].state \in Unfinalized /\ task[u].state \in Unfinalized => t = u

\* A job that has not ended has a task that will run, unless River gave up
\* on one: no error path of Work, no crash and no restart loses a job.
NoLostJob ==
  row.status \in {"queued", "running"} =>
    \E t \in Tasks : task[t].state \in Unfinalized \cup {"discarded"}

\* A restarted scan never asks again a source whose timing is in the row,
\* whatever was lost of the scan's own counters (ResumeCompletedKeys).
NoRefetch ==
  \A t \in Tasks :
    pc[t] \in {"fetching", "saving"} => scan[t].k \notin Scanned(row)

\* A job that ends well after a live scan has a timing for every source,
\* whatever number of attempts the scan took.
ScanIsComplete ==
  row.status \in {"completed", "partial"} /\ row.reason # "" =>
    Scanned(row) = Sources

\* The job has had one attempt and no more, over all its tasks.
Uninterrupted ==
  \E t \in Tasks :
    \A u \in Tasks : task[u].attempt <= IF u = t THEN 1 ELSE 0

Failed(j) == {s \in Sources : j.timings[s] \in Failing}

\* A live scan that no restart cut in two reports exactly what happened: all
\* sources done, exactly the failing ones listed as failed, and the outcome
\* "partial" exactly when there is one, even if progress writes were lost.
UninterruptedScanIsExact ==
  /\ Uninterrupted
  /\ row.status \in {"completed", "partial"}
  /\ row.reason # ""
  => /\ row.done = N
     /\ row.total = N
     /\ row.failed = Failed(row)
     /\ row.status = "partial" <=> row.failed # {}

\* The rolling wait average counts a job at most once, and only a job that
\* ended well.
SampledOnce ==
  /\ samples <= 1
  /\ samples = 1 => row.status \in {"completed", "partial"}

-----------------------------------------------------------------------------
(* The inductive invariant behind the theorems of SearchWorker_proofs.     *)

\* Steps that may still write the row, steps inside the loop over the
\* sources, steps about one source, and steps after the scan.
Writing == Steps \ {"idle", "load", "recording", "done", "error"}
InSource == {"fetching", "saving", "profile", "progress"}
InLoop == InSource \cup {"scanning"}
PastScan == {"ranking", "querying", "finishing"}

\* Goroutines run tasks that are running; a row comes with its task; between
\* the query and the insert of resumeSearchJobs nothing else makes a task.
TasksInv ==
  /\ \A t \in Tasks : pc[t] # "idle" => task[t].state = "running"
  /\ row.status = "absent" => \A t \in Tasks : task[t].state = "none"
  /\ proc = "resuming" => /\ row.status = "queued"
                          /\ \A t \in Tasks : task[t].state \notin Unfinalized

\* The row is empty, then queued until it ends; only a queued row is written.
RowInv ==
  /\ row.status # "running"
  /\ row.finished <=> row.status \in Terminal
  /\ row.status = "absent" => row = NoJob
  /\ \A t \in Tasks :
       /\ pc[t] \in Writing => row.status = "queued"
       /\ pc[t] \in {"recording", "done"} => row.status \in Terminal

\* The worker's copy is never behind the row.
CopyInv ==
  \A t \in Tasks : pc[t] \in Writing =>
    \A s \in Sources : row.timings[s] \in {"none", mem[t].timings[s]}

\* Sources of the scan that have a timing in the copy.
Visited(t) ==
  {s \in Sources : s < scan[t].k \/ (pc[t] = "progress" /\ s = scan[t].k)}

\* What the loop has done, and what a scan that is over has done.
ScanInv ==
  \A t \in Tasks :
    /\ pc[t] \in InLoop => Scanned(mem[t]) = scan[t].resumed \cup Visited(t)
    /\ pc[t] \in InSource => scan[t].k \in Sources \ scan[t].resumed
    /\ pc[t] \in {"profile", "progress"} => scan[t].outcome # "none"
    /\ pc[t] = "health" => mem[t].reason = ""
    /\ pc[t] \in PastScan /\ mem[t].reason # "" => Scanned(mem[t]) = Sources

\* Conjunction of what every step preserves together.
WorkerInv ==
  /\ TypeOK
  /\ OneLiveTask
  /\ NoLostJob
  /\ ScanIsComplete
  /\ TasksInv
  /\ RowInv
  /\ CopyInv
  /\ ScanInv

-----------------------------------------------------------------------------
(* Action properties, refinement and liveness.                             *)

\* No retry, rescue, resumed task or late write touches a job that has ended.
TerminalIsFinal == [][row.status \in Terminal => UNCHANGED row]_vars

\* A timing that a client has seen stays as it was, across restarts too.
TimingsAreKept ==
  [][\A s \in Scanned(row) : row'.timings[s] = row.timings[s]]_vars

\* The job as the client sees it.
Lifecycle ==
  INSTANCE JobLifecycle
    WITH status <- IF row.status \in {"queued", "running"} THEN "active"
                   ELSE row.status,
         scanned <- Scanned(row)

\* The worker implements the job's abstract life.
ImplementsLifecycle == Lifecycle!Spec

\* A created job ends, unless River has given up on it: crashes, lost
\* writes, timeouts and restarts only delay it.
JobEnds ==
  []<>(\/ row.status \in {"absent"} \cup Terminal
       \/ \E t \in Tasks : task[t].state = "discarded")

-----------------------------------------------------------------------------
(* What the repository says of the worker and the code does not do.        *)

\* findings.md:187 "the resumed job skips completed sources and continues
\* with the remaining live-scan sources": a job that has scanned some of the
\* sources does not end well without the others.
ResumedScanContinues ==
  row.status \in {"completed", "partial"} /\ Scanned(row) # {} =>
    Scanned(row) = Sources
=============================================================================
