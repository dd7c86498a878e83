------------------------- MODULE SearchWorker_proofs -------------------------
(***************************************************************************)
(* Theorems about SearchWorker, for every number of sources, every set of  *)
(* tasks and every bound.                                                  *)
(*                                                                         *)
(* WorkerInv is inductive (WorkerInvariant).  From it follow the safety    *)
(* invariants of the module, the action properties, and that the worker    *)
(* implements JobLifecycle.                                                *)
(* What is said of the number of samples and of an uninterrupted scan      *)
(* needs an invariant of its own beside it (SampledInv, ExactInv).         *)
(***************************************************************************)
EXTENDS SearchWorker, FiniteSetTheorems, TLAPS

-----------------------------------------------------------------------------
(* The operators on jobs and scans stay within their types.                *)

LEMMA ScannedType ==
  \A j : Scanned(j) \in SUBSET Sources
BY DEF Scanned

LEMMA CountType ==
  ASSUME NEW S \in SUBSET Sources
  PROVE  Cardinality(S) \in Nat
<1>1. IsFiniteSet(Sources)
  BY FS_Interval, NAssumption DEF Sources
<1>2. IsFiniteSet(S)
  BY <1>1, FS_Subset
<1> QED BY <1>2, FS_CardinalityType

LEMMA InitialTypes ==
  /\ NoJob \in Jobs
  /\ NoScan \in Scans
  /\ \A force \in BOOLEAN : QueuedJob(force) \in Jobs
<1>1. NoTimings \in [Sources -> Timings]
  BY DEF NoTimings, Timings
<1>2. ASSUME NEW force \in BOOLEAN
      PROVE  QueuedJob(force) \in Jobs
  BY <1>1 DEF QueuedJob, Jobs, Statuses, Stages, Terminal, Reasons
<1>3. NoJob \in Jobs
  BY <1>2 DEF NoJob, Jobs, Statuses
<1>4. NoScan \in Scans
  BY NAssumption DEF NoScan, Scans, Timings, Sources
<1> QED BY <1>2, <1>3, <1>4

LEMMA JobTypes ==
  ASSUME NEW j \in Jobs, NEW r \in Jobs, NEW sc \in Scans
  PROVE  /\ InScan(j, sc) \in Jobs
         /\ Timed(j, sc) \in Jobs
         /\ Ended(j) \in Jobs
         /\ FailedJob(j) \in Jobs
         /\ Snapshot(r, j) \in Jobs
         /\ [j EXCEPT !.status = "running", !.stage = "checking_index"] \in Jobs
         /\ [j EXCEPT !.stage = "searching_index"] \in Jobs
         /\ \A reason \in Reasons : [j EXCEPT !.reason = reason] \in Jobs
         /\ \A S \in SUBSET Sources : WithHealth(j, S) \in Jobs
<1>1. InScan(j, sc) \in Jobs
  BY NAssumption DEF InScan, Jobs, Scans, Stages
<1>2. Timed(j, sc) \in Jobs
  BY DEF Timed, Jobs, Scans
<1>3. Ended(j) \in Jobs /\ FailedJob(j) \in Jobs
  BY DEF Ended, FailedJob, Jobs, Statuses, Stages, Terminal
<1>4. Snapshot(r, j) \in Jobs
  BY DEF Snapshot, Jobs
<1>5. /\ [j EXCEPT !.status = "running", !.stage = "checking_index"] \in Jobs
      /\ [j EXCEPT !.stage = "searching_index"] \in Jobs
      /\ \A reason \in Reasons : [j EXCEPT !.reason = reason] \in Jobs
  BY DEF Jobs, Statuses, Stages
<1>6. \A S \in SUBSET Sources : WithHealth(j, S) \in Jobs
  BY NAssumption DEF WithHealth, Jobs
<1> QED BY <1>1, <1>2, <1>3, <1>4, <1>5, <1>6

LEMMA ScanTypes ==
  ASSUME NEW j \in Jobs, NEW sc \in Scans
  PROVE  /\ ScanFrom(j) \in Scans
         /\ sc.k \in Sources => NextSource(sc) \in Scans
         /\ \A outcome \in Timings :
              sc.k \in Sources => After(sc, outcome) \in Scans
<1>1. ScanFrom(j) \in Scans
  <2>1. ResumeKeys(j) \in SUBSET Sources
    BY ScannedType DEF ResumeKeys
  <2>2. MaxOf(j.done, Cardinality(ResumeKeys(j))) \in Nat
    BY <2>1, CountType DEF MaxOf, Jobs
  <2> QED BY <2>1, <2>2, NAssumption DEF ScanFrom, Scans, Jobs, Timings
<1>2. sc.k \in Sources => NextSource(sc) \in Scans
  BY NAssumption DEF NextSource, Scans, Sources
<1>3. ASSUME NEW outcome \in Timings, sc.k \in Sources
      PROVE  After(sc, outcome) \in Scans
  <2> DEFINE names == IF outcome \in Failing THEN sc.failed \cup {sc.k}
                      ELSE sc.failed
  <2>1. names \in SUBSET Sources /\ sc.done + 1 \in Nat
    BY <1>3 DEF Scans
  <2>2. After(sc, outcome) =
          [sc EXCEPT !.done = sc.done + 1, !.outcome = outcome, !.failed = names]
    BY DEF After
  <2> HIDE DEF names
  <2> QED BY <2>1, <2>2 DEF Scans
<1> QED BY <1>1, <1>2, <1>3

LEMMA ReasonType ==
  ASSUME NEW j \in Jobs, NEW hits \in BOOLEAN, NEW fresh \in BOOLEAN
  PROVE  RescanReason(j, hits, fresh) \in Reasons
BY DEF RescanReason, Reasons

-----------------------------------------------------------------------------
(* What the shared parts of the actions do to the types.                   *)

LEMMA DbTypes ==
  ASSUME TypeOK, NEW t \in Tasks, DbWorks(t) \/ DbFails(t)
  PROVE  faults' \in Nat
BY DEF TypeOK, DbWorks, DbFails

LEMMA PersistTypes ==
  ASSUME TypeOK, NEW t \in Tasks, NEW j \in Jobs, Persist(t, j)
  PROVE  /\ mem' \in [Tasks -> Jobs]
         /\ row' \in Jobs
         /\ faults' \in Nat
<1>1. Snapshot(row, j) \in Jobs
  BY JobTypes, InitialTypes DEF TypeOK
<1> QED BY <1>1, DbTypes DEF Persist, TypeOK

LEMMA GotoTypes ==
  ASSUME TypeOK, NEW t \in Tasks, NEW step \in Steps, Goto(t, step)
  PROVE  pc' \in [Tasks -> Steps]
BY DEF TypeOK, Goto

LEMMA AbortTypes ==
  ASSUME TypeOK, NEW t \in Tasks, Abort(t)
  PROVE  /\ pc' \in [Tasks -> Steps]
         /\ faults' \in Nat
         /\ UNCHANGED <<row, mem, scan>>
<1>1. Goto(t, "failing") /\ DbFails(t) /\ UNCHANGED <<row, mem, scan>>
  BY DEF Abort
<1>2. "failing" \in Steps
  BY DEF Steps
<1> QED BY <1>1, <1>2, GotoTypes, DbTypes

LEMMA ScanUpdateTypes ==
  ASSUME TypeOK, NEW t \in Tasks, NEW sc \in Scans,
         scan' = [scan EXCEPT ![t] = sc]
  PROVE  scan' \in [Tasks -> Scans]
BY DEF TypeOK

LEMMA AppliedTypes ==
  ASSUME TypeOK, NEW t \in Tasks
  PROVE  mem[t] \in Jobs /\ scan[t] \in Scans /\ pc[t] \in Steps
BY DEF TypeOK

-----------------------------------------------------------------------------
(* The types are preserved, given that a source at hand is a source.       *)

LEMMA WorkTypes ==
  ASSUME TypeOK, ScanInv, NEW t \in Tasks, Work(t)
  PROVE  TypeOK'
<1> DEFINE j == mem[t]
           sc == scan[t]
<1>1. j \in Jobs /\ sc \in Scans /\ row \in Jobs
  BY AppliedTypes DEF TypeOK
<1>2. pc[t] \in InSource => sc.k \in Sources
  BY DEF ScanInv
<1>3. pc[t] = "scanning" /\ ~AtEnd(sc) => sc.k \in Sources
  BY <1>1, NAssumption DEF AtEnd, Scans, Sources
<1> USE <1>1 DEF Outside
<1>a. CASE Load(t)
  <2>1. [row EXCEPT !.status = "running", !.stage = "checking_index"] \in Jobs
    BY JobTypes
  <2>2. mem' \in [Tasks -> Jobs] /\ faults' \in Nat
    BY <1>a, <2>1, DbTypes DEF Load, TypeOK
  <2>3. pc' \in [Tasks -> Steps]
    BY <1>a DEF Load, Goto, TypeOK, Steps
  <2> QED BY <1>a, <2>2, <2>3 DEF Load, TypeOK
<1>b. CASE Checking(t)
  <2>1. pc' \in [Tasks -> Steps]
    BY <1>b, GotoTypes DEF Checking, Steps
  <2> QED BY <1>b, <2>1, PersistTypes DEF Checking, TypeOK
<1>c. CASE Deciding(t)
  <2>1. CASE Abort(t)
    BY <1>c, <2>1, AbortTypes DEF Deciding, TypeOK
  <2>2. CASE ~Abort(t)
    <3>1. PICK hits \in BOOLEAN, fresh \in BOOLEAN :
            /\ Persist(t, [j EXCEPT !.reason = RescanReason(j, hits, fresh)])
            /\ \E step \in Steps : Goto(t, step)
            /\ UNCHANGED scan
      BY <1>c, <2>2 DEF Deciding, Steps
    <3>2. [j EXCEPT !.reason = RescanReason(j, hits, fresh)] \in Jobs
      BY ReasonType, JobTypes
    <3>3. pc' \in [Tasks -> Steps]
      BY <3>1, GotoTypes
    <3> QED BY <1>c, <3>1, <3>2, <3>3, PersistTypes DEF Deciding, TypeOK
  <2> QED BY <2>1, <2>2
<1>d. CASE Health(t)
  <2>1. pc' \in [Tasks -> Steps]
    BY <1>d, GotoTypes DEF Health, Steps
  <2>2. CASE DbFails(t) /\ UNCHANGED <<row, mem>>
    BY <1>d, <2>1, <2>2, DbTypes DEF Health, TypeOK
  <2>3. CASE \E S \in SUBSET Sources : Persist(t, WithHealth(j, S))
    <3>1. PICK S \in SUBSET Sources : Persist(t, WithHealth(j, S))
      BY <2>3
    <3>2. WithHealth(j, S) \in Jobs
      BY JobTypes
    <3> QED BY <1>d, <2>1, <3>1, <3>2, PersistTypes DEF Health, TypeOK
  <2> QED BY <1>d, <2>2, <2>3 DEF Health
<1>e. CASE Ranking(t)
  <2>1. pc' \in [Tasks -> Steps]
    BY <1>e, GotoTypes DEF Ranking, Steps
  <2>2. [j EXCEPT !.stage = "searching_index"] \in Jobs
    BY JobTypes
  <2> QED BY <1>e, <2>1, <2>2, PersistTypes DEF Ranking, TypeOK
<1>f. CASE Querying(t)
  <2>1. CASE Abort(t)
    BY <1>f, <2>1, AbortTypes DEF Querying, TypeOK
  <2>2. CASE Persist(t, j) /\ Goto(t, "finishing") /\ UNCHANGED scan
    <3>1. pc' \in [Tasks -> Steps]
      BY <2>2, GotoTypes DEF Steps
    <3> QED BY <1>f, <2>2, <3>1, PersistTypes DEF Querying, TypeOK
  <2> QED BY <1>f, <2>1, <2>2 DEF Querying
<1>g. CASE Finishing(t)
  <2>1. Ended(j) \in Jobs
    BY JobTypes
  <2>2. pc' \in [Tasks -> Steps]
    BY <1>g, GotoTypes DEF Finishing, Steps
  <2> QED BY <1>g, <2>1, <2>2, DbTypes DEF Finishing, TypeOK
<1>h. CASE Recording(t)
  <2>1. pc' \in [Tasks -> Steps]
    BY <1>h, GotoTypes DEF Recording, Steps
  <2>2. faults' \in Nat
    BY <1>h, DbTypes DEF Recording
  <2> QED BY <1>h, <2>1, <2>2 DEF Recording, TypeOK
<1>i. CASE Fail(t)
  <2>1. FailedJob(j) \in Jobs
    BY JobTypes
  <2>2. pc' \in [Tasks -> Steps]
    BY <1>i, GotoTypes DEF Fail, Steps
  <2> QED BY <1>i, <2>1, <2>2, DbTypes DEF Fail, TypeOK
<1>j. CASE ScanStart(t)
  <2>1. ScanFrom(j) \in Scans
    BY ScanTypes
  <2>2. InScan(j, ScanFrom(j)) \in Jobs
    BY <2>1, JobTypes
  <2>3. pc' \in [Tasks -> Steps]
    BY <1>j, GotoTypes DEF ScanStart, Steps
  <2>4. scan' \in [Tasks -> Scans]
    BY <1>j, <2>1, ScanUpdateTypes DEF ScanStart
  <2> QED BY <1>j, <2>2, <2>3, <2>4, PersistTypes DEF ScanStart, TypeOK
<1>k. CASE SkipResumed(t)
  <2>1. NextSource(sc) \in Scans
    BY <1>k, <1>3, ScanTypes DEF SkipResumed
  <2> QED BY <1>k, <2>1 DEF SkipResumed, TypeOK
<1>l. CASE EndScan(t)
  <2>1. pc' \in [Tasks -> Steps]
    BY <1>l, GotoTypes DEF EndScan, Steps
  <2> QED BY <1>l, <2>1 DEF EndScan, TypeOK
<1>m. CASE VisitSource(t)
  <2>1. After(sc, "skipped") \in Scans
    BY <1>m, <1>3, ScanTypes DEF VisitSource, Timings, Failing
  <2>2. InScan(j, sc) \in Jobs
    BY JobTypes
  <2>3. CASE Abort(t)
    BY <1>m, <2>3, AbortTypes DEF VisitSource, TypeOK
  <2>4. CASE /\ DbWorks(t)
             /\ scan' = [scan EXCEPT ![t] = After(sc, "skipped")]
             /\ Goto(t, "profile")
             /\ UNCHANGED <<row, mem>>
    <3>1. pc' \in [Tasks -> Steps]
      BY <2>4, GotoTypes DEF Steps
    <3>2. scan' \in [Tasks -> Scans]
      BY <2>1, <2>4, ScanUpdateTypes
    <3> QED BY <1>m, <2>4, <3>1, <3>2, DbTypes DEF VisitSource, TypeOK
  <2>5. CASE Persist(t, InScan(j, sc)) /\ Goto(t, "fetching") /\ UNCHANGED scan
    <3>1. pc' \in [Tasks -> Steps]
      BY <2>5, GotoTypes DEF Steps
    <3> QED BY <1>m, <2>2, <2>5, <3>1, PersistTypes DEF VisitSource, TypeOK
  <2> QED BY <1>m, <2>3, <2>4, <2>5 DEF VisitSource
<1>n. CASE Fetching(t)
  <2>1. After(sc, "failed") \in Scans
    BY <1>n, <1>2, ScanTypes DEF Fetching, Timings, Failing, InSource
  <2>2. InScan(j, sc) \in Jobs
    BY JobTypes
  <2>3. CASE Abort(t)
    BY <1>n, <2>3, AbortTypes DEF Fetching, TypeOK
  <2>4. CASE /\ DbWorks(t)
             /\ scan' = [scan EXCEPT ![t] = After(sc, "failed")]
             /\ Goto(t, "profile")
             /\ UNCHANGED <<row, mem>>
    <3>1. pc' \in [Tasks -> Steps]
      BY <2>4, GotoTypes DEF Steps
    <3>2. scan' \in [Tasks -> Scans]
      BY <2>1, <2>4, ScanUpdateTypes
    <3> QED BY <1>n, <2>4, <3>1, <3>2, DbTypes DEF Fetching, TypeOK
  <2>5. CASE Persist(t, InScan(j, sc)) /\ Goto(t, "saving") /\ UNCHANGED scan
    <3>1. pc' \in [Tasks -> Steps]
      BY <2>5, GotoTypes DEF Steps
    <3> QED BY <1>n, <2>2, <2>5, <3>1, PersistTypes DEF Fetching, TypeOK
  <2> QED BY <1>n, <2>3, <2>4, <2>5 DEF Fetching
<1>o. CASE Saving(t)
  <2>1. After(sc, "completed") \in Scans
    BY <1>o, <1>2, ScanTypes DEF Saving, Timings, InSource
  <2>2. CASE Abort(t)
    BY <1>o, <2>2, AbortTypes DEF Saving, TypeOK
  <2>3. CASE Goto(t, "failing") /\ UNCHANGED <<row, mem, scan, faults>>
    <3>1. pc' \in [Tasks -> Steps]
      BY <2>3, GotoTypes DEF Steps
    <3> QED BY <1>o, <2>3, <3>1 DEF Saving, TypeOK
  <2>4. CASE /\ scan' = [scan EXCEPT ![t] = After(sc, "completed")]
             /\ Goto(t, "profile")
             /\ UNCHANGED <<row, mem, faults>>
    <3>1. pc' \in [Tasks -> Steps]
      BY <2>4, GotoTypes DEF Steps
    <3>2. scan' \in [Tasks -> Scans]
      BY <2>1, <2>4, ScanUpdateTypes
    <3> QED BY <1>o, <2>4, <3>1, <3>2 DEF Saving, TypeOK
  <2> QED BY <1>o, <2>2, <2>3, <2>4 DEF Saving
<1>p. CASE Profile(t)
  <2>1. Timed(j, sc) \in Jobs
    BY JobTypes
  <2>2. pc' \in [Tasks -> Steps]
    BY <1>p, GotoTypes DEF Profile, Steps
  <2> QED BY <1>p, <2>1, <2>2, PersistTypes DEF Profile, TypeOK
<1>q. CASE Progress(t)
  <2>1. InScan(j, sc) \in Jobs
    BY JobTypes
  <2>2. NextSource(sc) \in Scans
    BY <1>q, <1>2, ScanTypes DEF Progress, InSource
  <2>3. pc' \in [Tasks -> Steps]
    BY <1>q, GotoTypes DEF Progress, Steps
  <2>4. scan' \in [Tasks -> Scans]
    BY <1>q, <2>2, ScanUpdateTypes DEF Progress
  <2> QED BY <1>q, <2>1, <2>3, <2>4, PersistTypes DEF Progress, TypeOK
<1> QED
  BY <1>a, <1>b, <1>c, <1>d, <1>e, <1>f, <1>g, <1>h, <1>i, <1>j, <1>k, <1>l,
     <1>m, <1>n, <1>o, <1>p, <1>q DEF Work

LEMMA RetriedType ==
  ASSUME NEW tk \in [state : TaskStates, attempt : Nat]
  PROVE  Retried(tk) \in [state : TaskStates, attempt : Nat]
BY DEF Retried, TaskStates

LEMMA EnvironmentTypes ==
  ASSUME TypeOK,
         \/ \E t \in Tasks, force \in BOOLEAN : Create(t, force)
         \/ \E t \in Tasks : River(t)
         \/ Process
  PROVE  TypeOK'
<1> USE DEF TypeOK
<1>1. ASSUME NEW t \in Tasks, NEW force \in BOOLEAN, Create(t, force)
      PROVE  TypeOK'
  BY <1>1, InitialTypes DEF Create, TaskStates
<1>2. ASSUME NEW t \in Tasks, StartAttempt(t)  PROVE TypeOK'
  <2>1. pc' \in [Tasks -> Steps]
    BY <1>2, GotoTypes DEF StartAttempt, Steps
  <2>2. task' \in [Tasks -> [state : TaskStates, attempt : Nat]]
    BY <1>2 DEF StartAttempt, TaskStates
  <2> QED BY <1>2, <2>1, <2>2 DEF StartAttempt
<1>3. ASSUME NEW t \in Tasks, Settle(t)  PROVE TypeOK'
  <2>1. pc' \in [Tasks -> Steps]
    BY <1>3, GotoTypes DEF Settle, Steps
  <2>2. task' \in [Tasks -> [state : TaskStates, attempt : Nat]]
    BY <1>3, RetriedType DEF Settle, TaskStates
  <2> QED BY <1>3, <2>1, <2>2, InitialTypes DEF Settle
<1>4. ASSUME NEW t \in Tasks, TimeOut(t)  PROVE TypeOK'
  BY <1>4 DEF TimeOut
<1>5. ASSUME NEW t \in Tasks, Rescue(t)  PROVE TypeOK'
  BY <1>5, RetriedType DEF Rescue
<1>6. ASSUME NEW t \in Tasks, ResumeJob(t)  PROVE TypeOK'
  BY <1>6 DEF ResumeJob, TaskStates
<1>7. CASE Stop
  <2>1. cancelled' \in [Tasks -> BOOLEAN]
    BY <1>7 DEF Stop
  <2> QED BY <1>7, <2>1 DEF Stop
<1>8. CASE Exit
  BY <1>8 DEF Exit
<1>9. CASE Crash
  <2>1. pc' \in [Tasks -> Steps] /\ cancelled' \in [Tasks -> BOOLEAN]
    BY <1>9 DEF Crash, Steps
  <2>2. mem' \in [Tasks -> Jobs] /\ scan' \in [Tasks -> Scans]
    BY <1>9, InitialTypes DEF Crash
  <2> QED BY <1>9, <2>1, <2>2 DEF Crash
<1>10. CASE Start
  BY <1>10 DEF Start
<1>11. CASE QueryUnfinished
  BY <1>11 DEF QueryUnfinished
<1> QED
  BY <1>1, <1>2, <1>3, <1>4, <1>5, <1>6, <1>7, <1>8, <1>9, <1>10, <1>11
     DEF River, Process

LEMMA TypesPreserved ==
  TypeOK /\ ScanInv /\ [Next]_vars => TypeOK'
<1> SUFFICES ASSUME TypeOK, ScanInv, [Next]_vars  PROVE TypeOK'
  OBVIOUS
<1>1. CASE UNCHANGED vars
  BY <1>1 DEF vars, TypeOK
<1>2. ASSUME NEW t \in Tasks, Work(t)  PROVE TypeOK'
  BY <1>2, WorkTypes
<1> QED BY <1>1, <1>2, EnvironmentTypes DEF Next

-----------------------------------------------------------------------------
(* What a step of Work can do, whichever step it is.                       *)

\* An attempt touches its own locals only, and no task and no process.
LEMMA WorkFrame ==
  ASSUME TypeOK, NEW t \in Tasks, Work(t)
  PROVE  /\ UNCHANGED <<task, proc, stops, cancelled>>
         /\ pc[t] \notin {"idle", "done", "error"}
         /\ pc'[t] \notin {"idle", "load"}
         /\ \A u \in Tasks \ {t} :
              /\ pc'[u] = pc[u]
              /\ mem'[u] = mem[u]
              /\ scan'[u] = scan[u]
<1> USE DEF TypeOK, Outside, Goto, Persist, Abort
<1>1. UNCHANGED <<task, proc, stops, cancelled>>
  BY DEF Work, Load, Checking, Deciding, Health, Ranking, Querying, Finishing,
         Recording, Fail, ScanStart, SkipResumed, EndScan, VisitSource,
         Fetching, Saving, Profile, Progress
<1>2. /\ pc[t] \notin {"idle", "done", "error"}
      /\ pc'[t] \notin {"idle", "load"}
      /\ \A u \in Tasks \ {t} : pc'[u] = pc[u]
  BY DEF Work, Load, Checking, Deciding, Health, Ranking, Querying, Finishing,
         Recording, Fail, ScanStart, SkipResumed, EndScan, VisitSource,
         Fetching, Saving, Profile, Progress
<1>3. \A u \in Tasks \ {t} : mem'[u] = mem[u]
  BY DEF Work, Load, Checking, Deciding, Health, Ranking, Querying, Finishing,
         Recording, Fail, ScanStart, SkipResumed, EndScan, VisitSource,
         Fetching, Saving, Profile, Progress
<1>4. \A u \in Tasks \ {t} : scan'[u] = scan[u]
  BY DEF Work, Load, Checking, Deciding, Health, Ranking, Querying, Finishing,
         Recording, Fail, ScanStart, SkipResumed, EndScan, VisitSource,
         Fetching, Saving, Profile, Progress
<1> QED BY <1>1, <1>2, <1>3, <1>4

\* The row is left alone, or gets a snapshot of the copy, or is ended.
LEMMA WorkRow ==
  ASSUME TypeOK, NEW t \in Tasks, Work(t)
  PROVE  \/ UNCHANGED row
         \/ pc[t] \in Writing /\ pc'[t] # "recording"
            /\ row' = Snapshot(row, mem'[t])
         \/ pc[t] = "finishing" /\ pc'[t] \in {"recording", "error"}
            /\ row' = Ended(mem[t])
         \/ pc[t] = "failing" /\ pc'[t] = "error" /\ row' = FailedJob(mem[t])
<1> USE DEF TypeOK, Outside, Goto, Writing, Steps
<1>1. ASSUME NEW j, Persist(t, j)
      PROVE  UNCHANGED row \/ row' = Snapshot(row, mem'[t])
  BY <1>1 DEF Persist
<1>a. CASE Load(t) \/ Recording(t) \/ SkipResumed(t) \/ EndScan(t) \/ Saving(t)
  BY <1>a DEF Load, Recording, SkipResumed, EndScan, Saving, Abort
<1>b. CASE Checking(t) \/ Ranking(t) \/ ScanStart(t) \/ Profile(t) \/ Progress(t)
  BY <1>b, <1>1 DEF Checking, Ranking, ScanStart, Profile, Progress
<1>c. CASE Deciding(t)
  BY <1>c, <1>1 DEF Deciding, Abort
<1>d. CASE Health(t)
  BY <1>d, <1>1 DEF Health
<1>e. CASE Querying(t) \/ VisitSource(t) \/ Fetching(t)
  BY <1>e, <1>1 DEF Querying, VisitSource, Fetching, Abort
<1>f. CASE Finishing(t) \/ Fail(t)
  BY <1>f DEF Finishing, Fail
<1> QED BY <1>a, <1>b, <1>c, <1>d, <1>e, <1>f DEF Work


\* What the row's status can become, and that an attempt works alone.
LEMMA WorkAlone ==
  ASSUME TypeOK, OneLiveTask, TasksInv, NEW t \in Tasks, Work(t)
  PROVE  /\ task[t].state = "running"
         /\ row.status # "absent"
         /\ proc # "resuming"
         /\ \A u \in Tasks \ {t} : pc[u] = "idle" /\ pc'[u] = "idle"
<1>1. pc[t] # "idle" /\ \A u \in Tasks \ {t} : pc'[u] = pc[u]
  BY WorkFrame
<1>2. task[t].state = "running"
  BY <1>1 DEF TasksInv
<1>3. \A u \in Tasks \ {t} : pc[u] = "idle"
  BY <1>2 DEF TasksInv, OneLiveTask, Unfinalized
<1>4. row.status # "absent" /\ proc # "resuming"
  BY <1>2 DEF TasksInv, Unfinalized
<1> QED BY <1>1, <1>2, <1>3, <1>4

LEMMA WorkStatus ==
  ASSUME TypeOK, NEW t \in Tasks, Work(t)
  PROVE  /\ row'.status = row.status \/ row'.status \in Terminal
         /\ pc'[t] \in Writing \ {"checking"} =>
              row'.status = row.status /\ pc[t] \in Writing
         /\ \/ row'.finished = row.finished /\ row'.status = row.status
            \/ row'.finished = TRUE /\ row'.status \in Terminal
<1>1. \A j \in Jobs : /\ Snapshot(row, j).status = row.status
                      /\ Snapshot(row, j).finished = row.finished
  BY DEF Snapshot, Jobs
<1>2. \A j \in Jobs : /\ Ended(j).status \in Terminal
                      /\ Ended(j).finished = TRUE
                      /\ FailedJob(j).status \in Terminal
                      /\ FailedJob(j).finished = TRUE
  BY DEF Ended, FailedJob, Terminal, Jobs
<1>3. mem'[t] \in Jobs /\ mem[t] \in Jobs
  <2>1. mem[t] \in Jobs
    BY AppliedTypes
  <2>2. CASE \E j \in Jobs : mem' = [mem EXCEPT ![t] = j]
    BY <2>2 DEF TypeOK
  <2>3. CASE UNCHANGED mem
    BY <2>1, <2>3
  <2>4. (\E j \in Jobs : mem' = [mem EXCEPT ![t] = j]) \/ UNCHANGED mem
    <3> USE JobTypes, ScanTypes, ReasonType, AppliedTypes
        DEF Persist, Outside
    <3>1. row \in Jobs /\ scan[t] \in Scans
      BY DEF TypeOK
    <3>a. CASE Load(t)
      BY <3>a, <3>1 DEF Load
    <3>b. CASE Checking(t)
      BY <3>b DEF Checking
    <3>c. CASE Deciding(t)
      BY <3>c, <3>1 DEF Deciding, Abort
    <3>d. CASE Health(t)
      BY <3>d, <3>1 DEF Health
    <3>e. CASE Ranking(t)
      BY <3>e, <3>1 DEF Ranking
    <3>f. CASE Querying(t)
      BY <3>f DEF Querying, Abort
    <3>g. CASE Finishing(t) \/ Fail(t)
      BY <3>g, <3>1 DEF Finishing, Fail
    <3>h. CASE Recording(t) \/ SkipResumed(t) \/ EndScan(t) \/ Saving(t)
      BY <3>h DEF Recording, SkipResumed, EndScan, Saving, Abort
    <3>i. CASE ScanStart(t)
      BY <3>i, <3>1 DEF ScanStart
    <3>j. CASE VisitSource(t) \/ Fetching(t)
      BY <3>j, <3>1 DEF VisitSource, Fetching, Abort
    <3>k. CASE Profile(t) \/ Progress(t)
      BY <3>k, <3>1 DEF Profile, Progress
    <3> QED BY <3>a, <3>b, <3>c, <3>d, <3>e, <3>f, <3>g, <3>h, <3>i, <3>j,
               <3>k DEF Work
  <2> QED BY <2>2, <2>3, <2>4
<1>4. pc'[t] \in Writing \ {"checking"} => pc[t] \in Writing
  BY DEF TypeOK, Goto, Writing, Steps, Abort, Work, Load, Checking, Deciding,
         Health, Ranking, Querying, Finishing, Recording, Fail, ScanStart,
         SkipResumed, EndScan, VisitSource, Fetching, Saving, Profile, Progress
<1>5. "recording" \notin Writing /\ "error" \notin Writing
  BY DEF Writing
<1> QED BY <1>1, <1>2, <1>3, <1>4, <1>5, WorkRow

-----------------------------------------------------------------------------
(* The loop over the sources.                                              *)

\* What an update of the copy does to its timings and its reason.
LEMMA CopyUpdates ==
  ASSUME NEW j \in Jobs
  PROVE  /\ \A sc : InScan(j, sc).timings = j.timings
                    /\ InScan(j, sc).reason = j.reason
         /\ \A S \in SUBSET Sources :
              WithHealth(j, S).timings = j.timings
              /\ WithHealth(j, S).reason = j.reason
         /\ \A reason \in Reasons :
              /\ [j EXCEPT !.reason = reason].timings = j.timings
              /\ [j EXCEPT !.reason = reason].reason = reason
         /\ [j EXCEPT !.stage = "searching_index"].timings = j.timings
         /\ [j EXCEPT !.stage = "searching_index"].reason = j.reason
         /\ \A r \in Jobs : Snapshot(r, j).timings = j.timings
         /\ \A r \in Jobs : Snapshot(r, j).reason = j.reason
         /\ Ended(j).timings = j.timings
         /\ Ended(j).reason = j.reason
         /\ FailedJob(j).timings = j.timings
         /\ \A sc : Timed(j, sc).reason = j.reason
BY DEF InScan, WithHealth, Snapshot, Ended, FailedJob, Timed, Jobs

LEMMA TimedSource ==
  ASSUME NEW j \in Jobs, NEW sc \in Scans, NEW s \in Sources, sc.k \in Sources
  PROVE  Timed(j, sc).timings[s] = IF s = sc.k THEN sc.outcome
                                   ELSE j.timings[s]
BY DEF Timed, Jobs

LEMMA ScanUpdates ==
  ASSUME NEW sc \in Scans, NEW j \in Jobs
  PROVE  /\ ScanFrom(j).k = 1
         /\ ScanFrom(j).resumed = Scanned(j)
         /\ NextSource(sc).k = sc.k + 1
         /\ NextSource(sc).resumed = sc.resumed
         /\ \A outcome \in Timings :
              /\ After(sc, outcome).k = sc.k
              /\ After(sc, outcome).resumed = sc.resumed
              /\ After(sc, outcome).outcome = outcome
BY DEF ScanFrom, ResumeKeys, NextSource, After, Scans

\* The part of ScanInv about one task.
ScanOf(t) ==
  /\ pc[t] \in InLoop => Scanned(mem[t]) = scan[t].resumed \cup Visited(t)
  /\ pc[t] \in InSource => scan[t].k \in Sources \ scan[t].resumed
  /\ pc[t] \in {"profile", "progress"} => scan[t].outcome # "none"
  /\ pc[t] = "health" => mem[t].reason = ""
  /\ pc[t] \in PastScan /\ mem[t].reason # "" => Scanned(mem[t]) = Sources

LEMMA ScanInvParts == ScanInv <=> \A t \in Tasks : ScanOf(t)
BY DEF ScanInv, ScanOf

\* A source is in the copy exactly when the scan is past it or skips it.
LEMMA StepOfLoop ==
  ASSUME TypeOK, NEW t \in Tasks, ScanOf(t), Work(t),
         pc[t] \in InLoop \cup {"scan_start"}
  PROVE  ScanOf(t)'
<1> DEFINE j == mem[t]
           sc == scan[t]
<1>1. j \in Jobs /\ sc \in Scans /\ row \in Jobs
  BY AppliedTypes DEF TypeOK
<1>2. sc.k \in 1..(N + 1)
  BY <1>1 DEF Scans
<1> USE <1>1 DEF TypeOK, Goto, Outside
<1>a. CASE ScanStart(t)
  <2>1. InScan(j, ScanFrom(j)).timings = j.timings
    BY ScanTypes, CopyUpdates
  <2>2. Scanned(mem'[t]) = Scanned(j)
    BY <1>a, <2>1 DEF ScanStart, Persist, Scanned
  <2>3. scan'[t].k = 1 /\ scan'[t].resumed = Scanned(j) /\ pc'[t] = "scanning"
    BY <1>a, ScanUpdates DEF ScanStart
  <2>4. Visited(t)' = {}
    BY <2>3, NAssumption DEF Visited, Sources
  <2> QED BY <2>2, <2>3, <2>4 DEF ScanOf, InLoop, InSource, PastScan
<1>b. CASE SkipResumed(t)
  <2>1. sc.k \in sc.resumed /\ mem' = mem /\ pc' = pc /\ pc[t] = "scanning"
        /\ scan'[t] = NextSource(sc)
    BY <1>b DEF SkipResumed
  <2>2. Visited(t)' = {s \in Sources : s < sc.k + 1}
    BY <2>1, ScanUpdates DEF Visited
  <2>3. Visited(t) = {s \in Sources : s < sc.k}
    BY <2>1 DEF Visited
  <2>4. Scanned(j) = sc.resumed \cup Visited(t)
    BY <2>1 DEF ScanOf, InLoop
  <2>5. sc.resumed \cup {s \in Sources : s < sc.k + 1} =
          sc.resumed \cup {s \in Sources : s < sc.k}
    BY <1>2, <2>1, NAssumption DEF Sources
  <2>6. Scanned(mem'[t]) = scan'[t].resumed \cup Visited(t)'
    BY <2>1, <2>2, <2>3, <2>4, <2>5, ScanUpdates
  <2> QED BY <2>1, <2>6 DEF ScanOf, InLoop, InSource, PastScan
<1>c. CASE EndScan(t)
  <2>1. mem' = mem /\ pc[t] = "scanning" /\ pc'[t] = "ranking" /\ sc.k > N
    BY <1>c DEF EndScan, AtEnd
  <2>2. Sources \subseteq Visited(t)
    BY <1>2, <2>1, NAssumption DEF Visited, Sources
  <2>3. Scanned(j) = Sources
    BY <2>1, <2>2, ScannedType DEF ScanOf, InLoop
  <2> QED BY <2>1, <2>3 DEF ScanOf, InLoop, InSource, PastScan
<1>x. CASE pc'[t] = "failing"
  BY <1>x DEF ScanOf, InLoop, InSource, PastScan
<1>d. CASE /\ pc[t] \in {"scanning", "fetching", "saving"}
           /\ sc.k \in Sources \ sc.resumed
           /\ mem'[t].timings = j.timings
           /\ scan'[t].k = sc.k /\ scan'[t].resumed = sc.resumed
           /\ \/ pc'[t] \in {"fetching", "saving"}
              \/ pc'[t] = "profile" /\ scan'[t].outcome # "none"
  <2>1. Visited(t)' = Visited(t)
    BY <1>d DEF Visited
  <2>2. Scanned(mem'[t]) = Scanned(j)
    BY <1>d DEF Scanned
  <2> QED BY <1>d, <2>1, <2>2 DEF ScanOf, InLoop, InSource, PastScan
<1>e. CASE Profile(t)
  <2>1. /\ pc[t] = "profile" /\ pc'[t] = "progress" /\ scan'[t] = sc
        /\ mem'[t] = Timed(j, sc)
    BY <1>e DEF Profile, Persist
  <2>2. sc.k \in Sources \ sc.resumed /\ sc.outcome # "none"
    BY <2>1 DEF ScanOf, InSource
  <2>3. Scanned(Timed(j, sc)) = Scanned(j) \cup {sc.k}
    BY <2>2, TimedSource DEF Scanned
  <2>4. Visited(t)' = Visited(t) \cup {sc.k}
    BY <2>1, <2>2 DEF Visited
  <2>5. Scanned(mem'[t]) = sc.resumed \cup Visited(t)'
    BY <2>1, <2>3, <2>4 DEF ScanOf, InLoop, InSource
  <2> QED BY <2>1, <2>2, <2>5 DEF ScanOf, InLoop, InSource, PastScan
<1>f. CASE Progress(t)
  <2>1. /\ pc[t] = "progress" /\ pc'[t] = "scanning"
        /\ scan'[t] = NextSource(sc) /\ mem'[t] = InScan(j, sc)
    BY <1>f DEF Progress, Persist
  <2>2. Scanned(mem'[t]) = Scanned(j)
    BY <2>1, CopyUpdates DEF Scanned
  <2>3. Visited(t)' = {s \in Sources : s < sc.k + 1}
    BY <2>1, ScanUpdates DEF Visited
  <2>4. Visited(t) = {s \in Sources : s < sc.k \/ s = sc.k}
    BY <2>1 DEF Visited
  <2>5. Visited(t)' = Visited(t)
    BY <1>2, <2>3, <2>4, NAssumption DEF Sources
  <2>6. Scanned(mem'[t]) = scan'[t].resumed \cup Visited(t)'
    BY <2>1, <2>2, <2>5, ScanUpdates DEF ScanOf, InLoop, InSource
  <2> QED BY <2>1, <2>6 DEF ScanOf, InLoop, InSource, PastScan
<1>g. CASE VisitSource(t) /\ pc'[t] # "failing"
  <2>1. pc[t] = "scanning" /\ sc.k \in Sources \ sc.resumed
    BY <1>2, <1>g, NAssumption DEF VisitSource, AtEnd, Sources
  <2>2. CASE pc'[t] = "profile"
    <3>1. scan'[t] = After(sc, "skipped") /\ mem' = mem
      BY <1>g, <2>2 DEF VisitSource, Abort
    <3>2. "skipped" \in Timings /\ "skipped" # "none"
      BY DEF Timings, Failing
    <3> QED BY <1>d, <2>1, <2>2, <3>1, <3>2, ScanUpdates
  <2>3. CASE pc'[t] = "fetching"
    <3>1. scan' = scan /\ mem'[t] = InScan(j, sc)
      BY <1>g, <2>3 DEF VisitSource, Abort, Persist
    <3> QED BY <1>d, <2>1, <2>3, <3>1, CopyUpdates
  <2> QED BY <1>g, <2>2, <2>3 DEF VisitSource, Abort
<1>h. CASE Fetching(t) /\ pc'[t] # "failing"
  <2>1. pc[t] = "fetching" /\ sc.k \in Sources \ sc.resumed
    BY <1>h DEF Fetching, ScanOf, InSource
  <2>2. CASE pc'[t] = "profile"
    <3>1. scan'[t] = After(sc, "failed") /\ mem' = mem
      BY <1>h, <2>2 DEF Fetching, Abort
    <3>2. "failed" \in Timings /\ "failed" # "none"
      BY DEF Timings, Failing
    <3> QED BY <1>d, <2>1, <2>2, <3>1, <3>2, ScanUpdates
  <2>3. CASE pc'[t] = "saving"
    <3>1. scan' = scan /\ mem'[t] = InScan(j, sc)
      BY <1>h, <2>3 DEF Fetching, Abort, Persist
    <3> QED BY <1>d, <2>1, <2>3, <3>1, CopyUpdates
  <2> QED BY <1>h, <2>2, <2>3 DEF Fetching, Abort
<1>i. CASE Saving(t) /\ pc'[t] # "failing"
  <2>1. pc[t] = "saving" /\ sc.k \in Sources \ sc.resumed
    BY <1>i DEF Saving, ScanOf, InSource
  <2>2. scan'[t] = After(sc, "completed") /\ mem' = mem /\ pc'[t] = "profile"
    BY <1>i DEF Saving, Abort
  <2>3. "completed" \in Timings /\ "completed" # "none"
    BY DEF Timings
  <2> QED BY <1>d, <2>1, <2>2, <2>3, ScanUpdates
<1> QED
  BY <1>a, <1>b, <1>c, <1>x, <1>e, <1>f, <1>g, <1>h, <1>i
     DEF Work, InLoop, InSource, Load, Checking, Deciding, Health, Ranking,
         Querying, Finishing, Recording, Fail

\* Outside the loop an attempt keeps the timings and, once it has decided,
\* the reason.
LEMMA StepOutsideLoop ==
  ASSUME TypeOK, NEW t \in Tasks, ScanOf(t), Work(t),
         pc[t] \notin InLoop \cup {"scan_start"}
  PROVE  ScanOf(t)'
<1> DEFINE j == mem[t]
<1>1. j \in Jobs /\ scan[t] \in Scans /\ row \in Jobs
  BY AppliedTypes DEF TypeOK
<1> USE <1>1 DEF TypeOK, Goto, Outside
<1>a. CASE pc'[t] \notin InLoop \cup PastScan \cup {"health"}
  BY <1>a DEF ScanOf, InLoop, InSource, PastScan
<1>b. CASE Deciding(t) /\ pc'[t] \in PastScan \cup {"health"}
  <2>1. PICK reason \in Reasons :
          /\ mem'[t] = [j EXCEPT !.reason = reason]
          /\ pc'[t] = IF reason # "" THEN "scan_start"
                      ELSE IF FinishedLiveScan(j) THEN "ranking"
                      ELSE "health"
    BY <1>b, ReasonType DEF Deciding, Abort, Persist, PastScan
  <2>2. reason = ""
    BY <1>b, <2>1 DEF PastScan
  <2>3. [j EXCEPT !.reason = reason].reason = reason
    BY CopyUpdates
  <2>4. mem'[t].reason = ""
    BY <2>1, <2>2, <2>3
  <2> QED BY <2>1, <2>2, <2>4 DEF ScanOf, InLoop, InSource, PastScan
<1>c. CASE Health(t)
  <2>1. pc[t] = "health" /\ pc'[t] = "ranking"
    BY <1>c DEF Health
  <2>2. mem'[t].reason = j.reason
    BY <1>c, CopyUpdates DEF Health, Persist
  <2> QED BY <2>1, <2>2 DEF ScanOf, InLoop, InSource, PastScan
<1>d. CASE (Ranking(t) \/ Querying(t)) /\ pc'[t] # "failing"
  <2>1. pc[t] \in PastScan /\ pc'[t] \in PastScan
    BY <1>d DEF Ranking, Querying, PastScan, Abort
  <2>2. mem'[t] = j \/ mem'[t] = [j EXCEPT !.stage = "searching_index"]
    BY <1>d DEF Ranking, Querying, Persist, Abort
  <2>4. mem'[t].reason = j.reason /\ mem'[t].timings = j.timings
    BY <2>2, CopyUpdates
  <2>3. Scanned(mem'[t]) = Scanned(j)
    BY <2>4 DEF Scanned
  <2> QED BY <2>1, <2>3, <2>4 DEF ScanOf, InLoop, InSource, PastScan
<1>e. CASE Load(t) \/ Checking(t) \/ Finishing(t) \/ Recording(t) \/ Fail(t)
  <2>1. pc'[t] \in {"checking", "deciding", "recording", "done", "error"}
    BY <1>e DEF Load, Checking, Finishing, Recording, Fail
  <2> QED BY <1>a, <2>1 DEF InLoop, InSource, PastScan
<1>f. CASE (Deciding(t) /\ pc'[t] \notin PastScan \cup {"health"})
           \/ ((Ranking(t) \/ Querying(t)) /\ pc'[t] = "failing")
  <2>1. pc'[t] \in {"scan_start", "failing"}
    BY <1>f DEF Deciding, Abort, PastScan
  <2> QED BY <1>a, <2>1 DEF InLoop, InSource, PastScan
<1> QED
  BY <1>b, <1>c, <1>d, <1>e, <1>f
     DEF Work, InLoop, InSource, ScanStart, SkipResumed, EndScan, VisitSource,
         Fetching, Saving, Profile, Progress

LEMMA ScanPreserved ==
  TypeOK /\ ScanInv /\ [Next]_vars => ScanInv'
<1> SUFFICES ASSUME TypeOK, ScanInv, [Next]_vars, NEW u \in Tasks
             PROVE  ScanOf(u)'
  BY DEF ScanInv, ScanOf
<1>1. ScanOf(u)
  BY ScanInvParts
<1>2. CASE pc'[u] = pc[u] /\ mem'[u] = mem[u] /\ scan'[u] = scan[u]
  BY <1>1, <1>2 DEF ScanOf, Visited
<1>3. CASE pc'[u] \in {"idle", "load"}
  BY <1>3 DEF ScanOf, InLoop, InSource, PastScan
<1>4. ASSUME NEW t \in Tasks, Work(t)  PROVE ScanOf(u)'
  <2>1. CASE u = t
    BY <1>1, <1>4, <2>1, StepOfLoop, StepOutsideLoop
  <2>2. CASE u # t
    BY <1>2, <1>4, <2>2, WorkFrame
  <2> QED BY <2>1, <2>2
<1>5. ASSUME NEW t \in Tasks, River(t)  PROVE ScanOf(u)'
  BY <1>2, <1>3, <1>5
     DEF TypeOK, Goto, River, StartAttempt, Settle, TimeOut, Rescue, ResumeJob
<1>6. ASSUME NEW t \in Tasks, NEW force \in BOOLEAN, Create(t, force)
      PROVE  ScanOf(u)'
  BY <1>2, <1>6 DEF Create
<1>7. CASE Process
  BY <1>2, <1>3, <1>7 DEF Process, Stop, Exit, Crash, Start, QueryUnfinished
<1>8. CASE UNCHANGED vars
  BY <1>2, <1>8 DEF vars
<1> QED BY <1>4, <1>5, <1>6, <1>7, <1>8 DEF Next

-----------------------------------------------------------------------------
(* The copy and the row.                                                   *)

\* A step of Work that may write keeps every timing the copy has.
LEMMA CopyKeepsTimings ==
  ASSUME TypeOK, NEW t \in Tasks, ScanOf(t), Work(t), pc[t] \in Writing,
         NEW s \in Sources
  PROVE  mem[t].timings[s] \in {"none", mem'[t].timings[s]}
<1> DEFINE j == mem[t]
<1>1. j \in Jobs /\ scan[t] \in Scans /\ row \in Jobs
  BY AppliedTypes DEF TypeOK
<1> USE <1>1 DEF TypeOK, Outside
<1>a. CASE Profile(t)
  <2>1. mem'[t] = Timed(j, scan[t]) /\ pc[t] = "profile"
    BY <1>a DEF Profile, Persist
  <2>2. scan[t].k \in Sources \ scan[t].resumed
        /\ Scanned(j) = scan[t].resumed \cup {x \in Sources : x < scan[t].k}
    BY <2>1 DEF ScanOf, InLoop, InSource, Visited
  <2>3. scan[t].k \notin Scanned(j)
    BY <2>2, NAssumption DEF Sources
  <2>4. j.timings[scan[t].k] = "none"
    BY <2>2, <2>3 DEF Scanned
  <2> QED BY <2>1, <2>2, <2>4, TimedSource
<1>b. CASE mem'[t].timings = j.timings
  BY <1>b
<1>c. CASE Checking(t) \/ Ranking(t) \/ Querying(t)
  <2>1. mem'[t] = j \/ mem'[t] = [j EXCEPT !.stage = "searching_index"]
    BY <1>c DEF Checking, Ranking, Querying, Persist, Abort
  <2> QED BY <1>b, <2>1, CopyUpdates
<1>i. CASE Deciding(t)
  <2>1. mem' = mem \/ \E r \in Reasons : mem'[t] = [j EXCEPT !.reason = r]
    BY <1>i, ReasonType DEF Deciding, Persist, Abort
  <2>2. \A r \in Reasons : [j EXCEPT !.reason = r].timings = j.timings
    BY CopyUpdates
  <2> QED BY <1>b, <2>1, <2>2
<1>j. CASE Health(t)
  BY <1>b, <1>j, CopyUpdates DEF Health, Persist
<1>d. CASE Finishing(t) \/ Fail(t)
  BY <1>b, <1>d, CopyUpdates DEF Finishing, Fail
<1>e. CASE ScanStart(t) \/ Progress(t)
  <2>1. PICK sc \in Scans : mem'[t] = InScan(j, sc)
    BY <1>e, ScanTypes DEF ScanStart, Progress, Persist
  <2> QED BY <1>b, <2>1, CopyUpdates
<1>f. CASE SkipResumed(t) \/ EndScan(t) \/ Saving(t)
  BY <1>b, <1>f DEF SkipResumed, EndScan, Saving, Abort
<1>g. CASE VisitSource(t) \/ Fetching(t)
  BY <1>b, <1>g, CopyUpdates DEF VisitSource, Fetching, Persist, Abort
<1>h. ~Load(t) /\ ~Recording(t)
  BY DEF Load, Recording, Writing
<1> QED BY <1>a, <1>c, <1>d, <1>e, <1>f, <1>g, <1>h, <1>i, <1>j
       DEF Work

\* What the row holds after a step of Work, against the copy and the row
\* before it: the three shapes a write can have.
LEMMA RowTimings ==
  ASSUME TypeOK, TypeOK', NEW t \in Tasks, Work(t)
  PROVE  \/ UNCHANGED row
         \/ pc[t] \in Writing /\ row'.timings = mem'[t].timings
            /\ row'.status = row.status
         \/ pc[t] = "finishing" /\ pc'[t] \in {"recording", "error"}
            /\ row'.timings = mem[t].timings /\ row'.reason = mem[t].reason
         \/ pc[t] = "failing" /\ pc'[t] = "error"
            /\ row'.timings = mem[t].timings /\ row'.status = "failed"
<1>1. row \in Jobs /\ mem[t] \in Jobs /\ mem'[t] \in Jobs
  BY DEF TypeOK
<1>2. /\ Snapshot(row, mem'[t]).timings = mem'[t].timings
      /\ Ended(mem[t]).timings = mem[t].timings
      /\ Ended(mem[t]).reason = mem[t].reason
      /\ FailedJob(mem[t]).timings = mem[t].timings
  BY <1>1, CopyUpdates
<1>3. /\ Snapshot(row, mem'[t]).status = row.status
      /\ FailedJob(mem[t]).status = "failed"
  BY <1>1 DEF Snapshot, FailedJob, Jobs
<1> QED BY <1>2, <1>3, WorkRow

-----------------------------------------------------------------------------
(* The steps of an attempt preserve the invariant.                         *)

LEMMA WorkPreserves ==
  ASSUME WorkerInv, TypeOK', ScanInv', NEW t \in Tasks, Work(t)
  PROVE  WorkerInv'
<1>0. TypeOK /\ OneLiveTask /\ NoLostJob /\ ScanIsComplete /\ TasksInv
      /\ RowInv /\ CopyInv /\ ScanInv
  BY DEF WorkerInv
<1>1. /\ task' = task /\ proc' = proc
      /\ pc[t] \notin {"idle", "done", "error"} /\ pc'[t] \notin {"idle", "load"}
  BY <1>0, WorkFrame
<1>2. /\ task[t].state = "running" /\ row.status # "absent" /\ proc # "resuming"
      /\ \A u \in Tasks \ {t} : pc[u] = "idle" /\ pc'[u] = "idle"
  BY <1>0, WorkAlone
<1>3. row'.status = row.status \/ row'.status \in Terminal
  BY <1>0, WorkStatus
<1>4. row \in Jobs /\ mem[t] \in Jobs /\ pc[t] \in Steps /\ pc'[t] \in Steps
  BY <1>0 DEF TypeOK
<1>5. "idle" \notin Writing /\ "load" \notin Writing /\ "done" \notin Writing
      /\ "recording" \notin Writing /\ "error" \notin Writing
  BY DEF Writing
<1>6. pc[t] \in Writing \/ pc[t] \in {"load", "recording"}
  BY <1>1, <1>4 DEF Writing
<1>a. OneLiveTask'
  BY <1>0, <1>1 DEF OneLiveTask
<1>b. NoLostJob'
  BY <1>0, <1>1, <1>3 DEF NoLostJob, Terminal
<1>c. TasksInv'
  BY <1>0, <1>1, <1>2, <1>3 DEF TasksInv, Terminal
<1>d. RowInv'
  <2>1. /\ row'.status \notin {"running", "absent"}
        /\ row'.finished <=> row'.status \in Terminal
    BY <1>0, <1>2, <1>3, WorkStatus DEF RowInv, Terminal
  <2>2. ASSUME pc'[t] \in Writing  PROVE row'.status = "queued"
    <3>1. CASE pc[t] \in Writing
      <4>1. pc'[t] # "checking"
        BY <1>0, <3>1 DEF Work, Load, Checking, Deciding, Health, Ranking,
           Querying, Finishing, Recording, Fail, ScanStart, SkipResumed,
           EndScan, VisitSource, Fetching, Saving, Profile, Progress, Goto,
           Abort, Writing, TypeOK
      <4>2. row'.status = row.status
        BY <1>0, <2>2, <4>1, WorkStatus
      <4> QED BY <1>0, <3>1, <4>2 DEF RowInv
    <3>2. CASE pc[t] \notin Writing
      <4>1. Load(t)
        BY <1>0, <2>2, <3>2 DEF Work, Load, Checking, Deciding, Health,
           Ranking, Querying, Finishing, Recording, Fail, ScanStart,
           SkipResumed, EndScan, VisitSource, Fetching, Saving, Profile,
           Progress, Goto, Writing, Steps, TypeOK
      <4>2. row' = row /\ ~Finished(row)
        BY <1>0, <1>5, <2>2, <4>1 DEF Load, Goto, TypeOK
      <4> QED BY <1>0, <1>2, <1>4, <4>2
              DEF Finished, RowInv, Jobs, Statuses
    <3> QED BY <3>1, <3>2
  <2>3. ASSUME pc'[t] \in {"recording", "done"}  PROVE row'.status \in Terminal
    <3>1. CASE Load(t)
      BY <1>0, <1>2, <2>3, <3>1 DEF Load, Goto, TypeOK, Finished, RowInv
    <3>2. CASE Finishing(t)
      <4>1. row' = Ended(mem[t])
        BY <1>0, <2>3, <3>2 DEF Finishing, Goto, TypeOK
      <4> QED BY <1>4, <4>1 DEF Ended, Jobs, Terminal
    <3>3. CASE Recording(t)
      BY <1>0, <3>3 DEF Recording, RowInv
    <3>4. ~Load(t) /\ ~Finishing(t) /\ ~Recording(t) => FALSE
      BY <1>0, <2>3 DEF Work, Checking, Deciding, Health, Ranking, Querying,
         Fail, ScanStart, SkipResumed, EndScan, VisitSource, Fetching, Saving,
         Profile, Progress, Goto, Abort, TypeOK
    <3> QED BY <3>1, <3>2, <3>3, <3>4
  <2> QED BY <1>2, <1>5, <2>1, <2>2, <2>3 DEF RowInv
<1>e. CopyInv'
  <2> SUFFICES ASSUME pc'[t] \in Writing, NEW s \in Sources
               PROVE  row'.timings[s] \in {"none", mem'[t].timings[s]}
    BY <1>2, <1>5 DEF CopyInv
  <2>1. CASE pc[t] \in Writing
    <3>1. mem[t].timings[s] \in {"none", mem'[t].timings[s]}
      BY <1>0, <2>1, CopyKeepsTimings, ScanInvParts
    <3>2. row.timings[s] \in {"none", mem[t].timings[s]}
      BY <1>0, <2>1 DEF CopyInv
    <3>3. row' = row \/ row'.timings = mem'[t].timings
      BY <1>0, <1>5, RowTimings
    <3> QED BY <3>1, <3>2, <3>3
  <2>2. CASE pc[t] \notin Writing
    <3>1. Load(t)
      BY <1>0, <2>2 DEF Work, Load, Checking, Deciding, Health, Ranking,
         Querying, Finishing, Recording, Fail, ScanStart, SkipResumed,
         EndScan, VisitSource, Fetching, Saving, Profile, Progress, Goto,
         Writing, Steps, TypeOK
    <3>2. /\ row' = row
          /\ mem'[t] = [row EXCEPT !.status = "running", !.stage = "checking_index"]
      BY <1>0, <1>5, <3>1 DEF Load, Goto, TypeOK
    <3> QED BY <1>4, <3>2 DEF Jobs
  <2> QED BY <2>1, <2>2
<1>f. ScanIsComplete'
  <2>1. CASE UNCHANGED row
    BY <1>0, <2>1 DEF ScanIsComplete, Scanned
  <2>2. CASE pc[t] \in Writing /\ row'.status = row.status
    BY <1>0, <2>2 DEF ScanIsComplete, RowInv
  <2>3. CASE pc[t] = "finishing"
             /\ row'.timings = mem[t].timings /\ row'.reason = mem[t].reason
    <3>1. mem[t].reason # "" => Scanned(mem[t]) = Sources
      BY <1>0, <2>3 DEF ScanInv, PastScan
    <3> QED BY <2>3, <3>1 DEF ScanIsComplete, Scanned
  <2>4. CASE row'.status = "failed"
    BY <2>4 DEF ScanIsComplete
  <2> QED BY <1>0, <2>1, <2>2, <2>3, <2>4, RowTimings
<1> QED BY <1>a, <1>b, <1>c, <1>d, <1>e, <1>f DEF WorkerInv

-----------------------------------------------------------------------------
(* So do the API, River and the life of the process.                       *)

LEMMA RetriedState ==
  ASSUME NEW tk \in [state : TaskStates, attempt : Nat]
  PROVE  Retried(tk).state \in {"retryable", "discarded"}
BY DEF Retried

LEMMA CreatePreserves ==
  ASSUME WorkerInv, TypeOK', ScanInv',
         NEW t \in Tasks, NEW force \in BOOLEAN, Create(t, force)
  PROVE  WorkerInv'
<1> USE DEF WorkerInv
<1>1. /\ \A u \in Tasks : task[u].state = "none" /\ pc[u] = "idle"
      /\ pc' = pc
  BY DEF Create, TasksInv
<1>2. row'.status = "queued" /\ row'.finished = FALSE
  BY DEF Create, QueuedJob
<1>3. /\ task'[t].state = "available" /\ proc' = proc
      /\ \A u \in Tasks \ {t} : task'[u] = task[u]
  BY DEF Create, TypeOK
<1>4. proc # "resuming"
  BY DEF TasksInv, Create
<1>a. OneLiveTask'
  BY <1>1, <1>3 DEF OneLiveTask, Unfinalized
<1>b. NoLostJob'
  BY <1>3 DEF NoLostJob, Unfinalized
<1>c. TasksInv'
  BY <1>1, <1>2, <1>3, <1>4 DEF TasksInv
<1>d. RowInv' /\ CopyInv' /\ ScanIsComplete'
  BY <1>1, <1>2 DEF RowInv, CopyInv, ScanIsComplete, Writing, Terminal
<1> QED BY <1>a, <1>b, <1>c, <1>d

LEMMA RiverPreserves ==
  ASSUME WorkerInv, TypeOK', ScanInv', NEW t \in Tasks, River(t)
  PROVE  WorkerInv'
<1> USE DEF WorkerInv
<1>0. row' = row
  BY DEF River, StartAttempt, Settle, TimeOut, Rescue, ResumeJob
<1>1. \A u \in Tasks : task[u] \in [state : TaskStates, attempt : Nat]
  BY DEF TypeOK
<1>2. ScanIsComplete'
  BY <1>0 DEF ScanIsComplete, Scanned
<1>a. CASE StartAttempt(t)
  <2>1. /\ task[t].state \in Fetchable /\ task'[t].state = "running"
        /\ \A u \in Tasks \ {t} : task'[u] = task[u] /\ pc'[u] = pc[u]
        /\ pc'[t] = "load" /\ mem' = mem /\ proc' = proc /\ proc = "up"
    BY <1>1, <1>a DEF StartAttempt, Goto, TypeOK
  <2>2. OneLiveTask' /\ NoLostJob'
    BY <1>0, <2>1 DEF OneLiveTask, NoLostJob, Unfinalized, Fetchable
  <2>3. TasksInv'
    BY <1>0, <2>1 DEF TasksInv, Fetchable
  <2>4. RowInv' /\ CopyInv'
    BY <1>0, <2>1 DEF RowInv, CopyInv, Writing
  <2> QED BY <1>2, <2>2, <2>3, <2>4
<1>b. CASE Settle(t)
  <2>1. /\ pc[t] \in {"done", "error"} /\ pc'[t] = "idle" /\ proc' = proc
        /\ task'[t].state \in {"completed", "retryable", "discarded"}
        /\ pc[t] = "error" => task'[t].state \in {"retryable", "discarded"}
        /\ \A u \in Tasks \ {t} :
             task'[u] = task[u] /\ pc'[u] = pc[u] /\ mem'[u] = mem[u]
    BY <1>1, <1>b, RetriedState DEF Settle, Goto, TypeOK
  <2>2. task[t].state = "running"
    BY <2>1 DEF TasksInv
  <2>3. OneLiveTask'
    BY <2>1, <2>2 DEF OneLiveTask, Unfinalized
  <2>4. NoLostJob'
    <3>1. CASE pc[t] = "done"
      BY <1>0, <3>1 DEF NoLostJob, RowInv, Terminal
    <3>2. CASE pc[t] = "error"
      BY <2>1, <3>2 DEF NoLostJob, Unfinalized
    <3> QED BY <2>1, <3>1, <3>2
  <2>5. TasksInv'
    BY <1>0, <2>1, <2>2 DEF TasksInv, Unfinalized
  <2>6. RowInv' /\ CopyInv'
    BY <1>0, <2>1 DEF RowInv, CopyInv, Writing
  <2> QED BY <1>2, <2>3, <2>4, <2>5, <2>6
<1>c. CASE TimeOut(t)
  BY <1>0, <1>2, <1>c
     DEF TimeOut, OneLiveTask, NoLostJob, TasksInv, RowInv, CopyInv
<1>d. CASE Rescue(t)
  <2>1. /\ task[t].state = "running" /\ pc[t] = "idle" /\ proc = "up"
        /\ task'[t].state \in {"retryable", "discarded"}
        /\ \A u \in Tasks \ {t} : task'[u] = task[u]
        /\ pc' = pc /\ mem' = mem /\ proc' = proc
    BY <1>1, <1>d, RetriedState DEF Rescue, TypeOK
  <2>2. OneLiveTask' /\ NoLostJob'
    BY <1>0, <2>1 DEF OneLiveTask, NoLostJob, Unfinalized
  <2>3. TasksInv'
    BY <1>0, <2>1 DEF TasksInv
  <2>4. RowInv' /\ CopyInv'
    BY <1>0, <2>1 DEF RowInv, CopyInv
  <2> QED BY <1>2, <2>2, <2>3, <2>4
<1>e. CASE ResumeJob(t)
  <2>1. /\ proc = "resuming" /\ proc' # "resuming" /\ task[t].state = "none"
        /\ \/ task'[t].state = "available"
           \/ task' = task
        /\ \A u \in Tasks \ {t} : task'[u] = task[u]
        /\ pc' = pc /\ mem' = mem
    BY <1>e DEF ResumeJob, TypeOK
  <2>2. /\ row.status = "queued"
        /\ \A u \in Tasks : task[u].state \notin Unfinalized
    BY <2>1 DEF TasksInv
  <2>3. OneLiveTask'
    BY <2>1, <2>2 DEF OneLiveTask
  <2>4. NoLostJob'
    BY <1>0, <2>1, <2>2 DEF NoLostJob, Unfinalized
  <2>5. TasksInv'
    BY <1>0, <2>1, <2>2 DEF TasksInv
  <2>6. RowInv' /\ CopyInv'
    BY <1>0, <2>1 DEF RowInv, CopyInv
  <2> QED BY <1>2, <2>3, <2>4, <2>5, <2>6
<1> QED BY <1>a, <1>b, <1>c, <1>d, <1>e DEF River

LEMMA ProcessPreserves ==
  ASSUME WorkerInv, TypeOK', ScanInv', Process
  PROVE  WorkerInv'
<1> USE DEF WorkerInv
<1>0. row' = row /\ task' = task
  BY DEF Process, Stop, Exit, Crash, Start, QueryUnfinished
<1>1. OneLiveTask' /\ NoLostJob' /\ ScanIsComplete'
  BY <1>0 DEF OneLiveTask, NoLostJob, ScanIsComplete, Scanned
<1>2. \/ pc' = pc /\ mem' = mem
      \/ \A t \in Tasks : pc'[t] = "idle"
  BY DEF Process, Stop, Exit, Crash, Start, QueryUnfinished
<1>3. RowInv' /\ CopyInv'
  BY <1>0, <1>2 DEF RowInv, CopyInv, Writing
<1>4. proc' = "resuming" => Orphaned(task)
  BY DEF Process, Stop, Exit, Crash, Start, QueryUnfinished
<1>5. TasksInv'
  BY <1>0, <1>2, <1>4 DEF TasksInv, Orphaned, RowInv
<1> QED BY <1>1, <1>3, <1>5

-----------------------------------------------------------------------------
(* The theorems.                                                           *)

LEMMA InitInv == Init => WorkerInv
<1> SUFFICES ASSUME Init  PROVE WorkerInv
  OBVIOUS
<1>1. TypeOK
  BY InitialTypes DEF Init, TypeOK, TaskStates, Steps
<1>2. row = NoJob /\ row.status = "absent" /\ row.finished = FALSE
  BY DEF Init, NoJob, QueuedJob
<1>3. \A t \in Tasks : pc[t] = "idle" /\ task[t].state = "none"
  BY DEF Init
<1>4. proc # "resuming"
  BY DEF Init
<1> QED BY <1>1, <1>2, <1>3, <1>4
        DEF WorkerInv, OneLiveTask, NoLostJob, ScanIsComplete, TasksInv,
            RowInv, CopyInv, ScanInv, Writing, InLoop, InSource, PastScan,
            Terminal, Unfinalized

LEMMA NextInv == WorkerInv /\ [Next]_vars => WorkerInv'
<1> SUFFICES ASSUME WorkerInv, [Next]_vars  PROVE WorkerInv'
  OBVIOUS
<1>1. TypeOK' /\ ScanInv'
  BY TypesPreserved, ScanPreserved DEF WorkerInv
<1>2. CASE UNCHANGED vars
  BY <1>1, <1>2 DEF vars, WorkerInv, OneLiveTask, NoLostJob, ScanIsComplete,
     TasksInv, RowInv, CopyInv, Scanned
<1>3. CASE Next
  BY <1>1, <1>3, WorkPreserves, CreatePreserves, RiverPreserves,
     ProcessPreserves DEF Next
<1> QED BY <1>2, <1>3

\* The inductive invariant: the row stays queued until it ends, one task at
\* most is live, and the worker's copy is never behind the row.
THEOREM WorkerInvariant == Spec => []WorkerInv
<1> QED BY InitInv, NextInv, PTL DEF Spec

\* Every variable keeps its type.
THEOREM TypeCorrect == Spec => []TypeOK
<1> QED BY WorkerInvariant, PTL DEF WorkerInv

\* Restarts never leave a job with two tasks to run.
THEOREM AtMostOneLiveTask == Spec => []OneLiveTask
<1> QED BY WorkerInvariant, PTL DEF WorkerInv

\* A job that has not ended has a task that is to run, or was given up.
THEOREM NoJobIsLost == Spec => []NoLostJob
<1> QED BY WorkerInvariant, PTL DEF WorkerInv

\* A scan that counts as one ends with a timing for every source.
THEOREM CompleteScans == Spec => []ScanIsComplete
<1> QED BY WorkerInvariant, PTL DEF WorkerInv

\* A resumed scan does not ask again a source the row has a timing for.
THEOREM ResumesWithoutRefetch == Spec => []NoRefetch
<1>1. WorkerInv => NoRefetch
  <2> SUFFICES ASSUME WorkerInv, NEW t \in Tasks, pc[t] \in {"fetching", "saving"}
               PROVE  scan[t].k \notin Scanned(row)
    BY DEF NoRefetch
  <2>1. /\ scan[t].k \in Sources \ scan[t].resumed
        /\ Scanned(mem[t]) = scan[t].resumed \cup {s \in Sources : s < scan[t].k}
    BY DEF WorkerInv, ScanInv, InLoop, InSource, Visited
  <2>2. scan[t].k \notin Scanned(mem[t])
    BY <2>1, NAssumption DEF Sources
  <2>3. pc[t] \in Writing
    BY DEF Writing, Steps
  <2>4. row.timings[scan[t].k] \in {"none", mem[t].timings[scan[t].k]}
    BY <2>1, <2>3 DEF WorkerInv, CopyInv
  <2> QED BY <2>1, <2>2, <2>4 DEF Scanned
<1> QED BY <1>1, WorkerInvariant, PTL

\* What a step can do to the row, seen from the client.
LEMMA RowSteps ==
  ASSUME WorkerInv, [Next]_vars
  PROVE  \/ UNCHANGED row
         \/ row = NoJob /\ \E force \in BOOLEAN : row' = QueuedJob(force)
         \/ /\ row.status = "queued"
            /\ row'.status \in {"queued"} \cup Terminal
            /\ \A s \in Scanned(row) : row'.timings[s] = row.timings[s]
<1> USE DEF WorkerInv
<1>1. ASSUME NEW t \in Tasks, Work(t), row' # row
      PROVE  /\ row.status = "queued"
             /\ row'.status \in {"queued"} \cup Terminal
             /\ \A s \in Scanned(row) : row'.timings[s] = row.timings[s]
  <2>1. TypeOK'
    BY TypesPreserved
  <2>2. pc[t] \in Writing
    BY <1>1, <2>1, RowTimings DEF Writing, Steps
  <2>3. row.status = "queued"
    BY <2>2 DEF RowInv
  <2>4. row'.status \in {"queued"} \cup Terminal
    BY <1>1, <2>3, WorkStatus
  <2>5. ASSUME NEW s \in Scanned(row)
        PROVE  row'.timings[s] = row.timings[s]
    <3>1. s \in Sources /\ row.timings[s] # "none"
      BY DEF Scanned
    <3>2. row.timings[s] = mem[t].timings[s]
      BY <2>2, <3>1 DEF CopyInv
    <3>3. mem[t].timings[s] = mem'[t].timings[s]
      BY <1>1, <2>2, <3>1, <3>2, CopyKeepsTimings, ScanInvParts
    <3> QED BY <1>1, <2>1, <3>2, <3>3, RowTimings
  <2> QED BY <2>3, <2>4, <2>5
<1>2. ASSUME NEW t \in Tasks, NEW force \in BOOLEAN, Create(t, force)
      PROVE  row = NoJob /\ row' = QueuedJob(force)
  BY <1>2 DEF Create, RowInv
<1>3. ASSUME NEW t \in Tasks, River(t)  PROVE UNCHANGED row
  BY <1>3 DEF River, StartAttempt, Settle, TimeOut, Rescue, ResumeJob
<1>4. CASE Process
  BY <1>4 DEF Process, Stop, Exit, Crash, Start, QueryUnfinished
<1>5. CASE UNCHANGED vars
  BY <1>5 DEF vars
<1> QED BY <1>1, <1>2, <1>3, <1>4, <1>5 DEF Next

LEMMA EmptyJob ==
  /\ NoJob.status = "absent" /\ Scanned(NoJob) = {}
  /\ \A force \in BOOLEAN :
       /\ QueuedJob(force).status = "queued"
       /\ Scanned(QueuedJob(force)) = {}
BY DEF NoJob, QueuedJob, Scanned, NoTimings

\* Nothing changes a job that has ended.
THEOREM EndedJobsStay == Spec => TerminalIsFinal
<1>1. WorkerInv /\ [Next]_vars => [row.status \in Terminal => UNCHANGED row]_vars
  BY RowSteps, EmptyJob DEF Terminal
<1> QED BY <1>1, WorkerInvariant, PTL DEF Spec, TerminalIsFinal

\* No step of any attempt takes back or alters a timing the row has.
THEOREM PublishedTimingsStay == Spec => TimingsAreKept
<1>1. WorkerInv /\ [Next]_vars =>
        [\A s \in Scanned(row) : row'.timings[s] = row.timings[s]]_vars
  BY RowSteps, EmptyJob
<1> QED BY <1>1, WorkerInvariant, PTL DEF Spec, TimingsAreKept

\* Whatever attempts, crashes and restarts do, the client sees a job that is
\* created once, reports on more and more sources, and ends once.
THEOREM WorkerImplementsLifecycle == Spec => ImplementsLifecycle
<1> USE DEF Lifecycle!Init, Lifecycle!Next, Lifecycle!vars, Lifecycle!Create,
            Lifecycle!Report, Lifecycle!Finish, Lifecycle!Grown,
            Lifecycle!Outcomes
<1>1. Init => Lifecycle!Init
  BY EmptyJob DEF Init
<1>2. WorkerInv /\ [Next]_vars => [Lifecycle!Next]_(Lifecycle!vars)
  <2> SUFFICES ASSUME WorkerInv, [Next]_vars
               PROVE  [Lifecycle!Next]_(Lifecycle!vars)
    OBVIOUS
  <2>1. CASE UNCHANGED row
    BY <2>1 DEF Scanned
  <2>2. CASE row = NoJob /\ \E force \in BOOLEAN : row' = QueuedJob(force)
    <3>1. row.status = "absent" /\ row'.status = "queued"
          /\ Scanned(row)' = {}
      BY <2>2, EmptyJob
    <3> QED BY <3>1
  <2>3. CASE /\ row.status = "queued"
             /\ row'.status \in {"queued"} \cup Terminal
             /\ \A s \in Scanned(row) : row'.timings[s] = row.timings[s]
    <3>1. Scanned(row)' \in {S \in SUBSET Sources : Scanned(row) \subseteq S}
      BY <2>3 DEF Scanned
    <3>2. CASE row'.status = "queued"
      BY <2>3, <3>1, <3>2
    <3>3. CASE row'.status \in Terminal
      BY <2>3, <3>1, <3>3 DEF Terminal
    <3> QED BY <2>3, <3>2, <3>3
  <2> QED BY <2>1, <2>2, <2>3, RowSteps
<1> QED BY <1>1, <1>2, WorkerInvariant, PTL
        DEF Spec, ImplementsLifecycle, Lifecycle!Spec

-----------------------------------------------------------------------------
(* The wait statistics.                                                    *)

EndedWell == row.status \in {"completed", "partial"}

\* SampledOnce is inductive once the attempt about to add a sample is known
\* to be the one that has just ended the job.
SampledInv ==
  /\ samples \in {0, 1}
  /\ samples = 1 => EndedWell
  /\ \A t \in Tasks : pc[t] = "recording" => samples = 0 /\ EndedWell

LEMMA SampledStep ==
  WorkerInv /\ SampledInv /\ [Next]_vars => SampledInv'
<1> SUFFICES ASSUME WorkerInv, SampledInv, [Next]_vars  PROVE SampledInv'
  OBVIOUS
<1>1. EndedWell => row' = row
  BY RowSteps, EmptyJob DEF EndedWell, Terminal
<1>2. ASSUME UNCHANGED samples,
             \A u \in Tasks : pc'[u] = "recording" => pc[u] = "recording"
      PROVE  SampledInv'
  BY <1>1, <1>2 DEF SampledInv, EndedWell
<1>3. ASSUME NEW t \in Tasks, Work(t)  PROVE SampledInv'
  <2>1. TypeOK /\ pc[t] \in Steps
    BY DEF WorkerInv, TypeOK
  <2>2. \A u \in Tasks \ {t} : pc[u] = "idle" /\ pc'[u] = "idle"
    BY <1>3, WorkAlone DEF WorkerInv
  <2>3. CASE Recording(t)
    <3>1. samples = 0 /\ EndedWell
      BY <2>3 DEF SampledInv, Recording
    <3>2. samples' \in {0, 1} /\ pc'[t] = "done"
      BY <2>1, <2>3, <3>1 DEF Recording, Goto, TypeOK
    <3> QED BY <1>1, <2>2, <3>1, <3>2 DEF SampledInv, EndedWell
  <2>4. CASE Finishing(t) /\ pc'[t] = "recording"
    <3>1. row.status = "queued"
      BY <2>4 DEF WorkerInv, RowInv, Finishing, Writing, Steps
    <3>2. samples = 0
      BY <3>1 DEF SampledInv, EndedWell
    <3>3. row' = Ended(mem[t]) /\ samples' = samples
      BY <2>1, <2>4 DEF Finishing, Goto, TypeOK, Outside
    <3>4. EndedWell'
      BY <2>1, <3>3 DEF Ended, EndedWell, TypeOK, Jobs
    <3> QED BY <2>2, <3>2, <3>3, <3>4 DEF SampledInv
  <2>5. CASE ~Recording(t) /\ pc'[t] # "recording"
    <3>1. UNCHANGED samples
      BY <1>3, <2>5 DEF Work, Outside, Load, Checking, Deciding, Health,
         Ranking, Querying, Finishing, Fail, ScanStart, SkipResumed, EndScan,
         VisitSource, Fetching, Saving, Profile, Progress
    <3> QED BY <1>2, <2>2, <2>5, <3>1
  <2>6. pc'[t] = "recording" => Finishing(t)
    BY <1>3, <2>1 DEF Work, Outside, Load, Checking, Deciding, Health,
       Ranking, Querying, Recording, Fail, ScanStart, SkipResumed, EndScan,
       VisitSource, Fetching, Saving, Profile, Progress, Goto, Abort, TypeOK
  <2> QED BY <2>3, <2>4, <2>5, <2>6
<1>4. ASSUME NEW t \in Tasks, River(t)  PROVE SampledInv'
  BY <1>2, <1>4 DEF WorkerInv, TypeOK, Goto, River, StartAttempt, Settle,
     TimeOut, Rescue, ResumeJob
<1>5. ASSUME NEW t \in Tasks, NEW force \in BOOLEAN, Create(t, force)
      PROVE  SampledInv'
  BY <1>2, <1>5 DEF Create
<1>6. CASE Process
  BY <1>2, <1>6 DEF Process, Stop, Exit, Crash, Start, QueryUnfinished
<1>7. CASE UNCHANGED vars
  BY <1>2, <1>7 DEF vars
<1> QED BY <1>3, <1>4, <1>5, <1>6, <1>7 DEF Next

\* A job adds at most one sample to the wait statistics, when it ends well.
THEOREM SampledAtMostOnce == Spec => []SampledOnce
<1>1. Init => SampledInv
  BY DEF Init, SampledInv
<1>2. SampledInv => SampledOnce
  BY DEF SampledInv, SampledOnce, EndedWell
<1> QED BY <1>1, <1>2, SampledStep, WorkerInvariant, PTL DEF Spec

-----------------------------------------------------------------------------
(* A scan that nothing has cut in two.                                     *)

\* A job of which no source has been visited.
Pristine(j) == j.done = 0 /\ j.failed = {} /\ j.timings = NoTimings

\* The counters of the scan and of the copy, at each step of an attempt that
\* started from a pristine job.
FromStart(step, j, sc) ==
  /\ step \in {"checking", "deciding", "scan_start"} => Pristine(j)
  /\ step \in InLoop => j.total = N /\ sc.resumed = {}
  /\ step \in {"scanning", "fetching", "saving"} =>
       /\ sc.done = sc.k - 1 /\ sc.failed = Failed(j)
       /\ j.done = sc.done /\ j.failed = sc.failed
  /\ step = "profile" =>
       /\ sc.done = sc.k
       /\ sc.failed = Failed(j) \cup (IF sc.outcome \in Failing THEN {sc.k} ELSE {})
  /\ step = "progress" => sc.done = sc.k /\ sc.failed = Failed(j)
  /\ step \in PastScan /\ j.reason # "" =>
       j.done = N /\ j.total = N /\ j.failed = Failed(j)

\* What a job that ended after a live scan reports.
Exact(j) ==
  j.reason # "" =>
    /\ j.done = N
    /\ j.total = N
    /\ j.failed = Failed(j)
    /\ j.status = "partial" <=> j.failed # {}

\* A task that a goroutine runs has been started, one that is none has not.
AttemptsInv ==
  \A t \in Tasks :
    /\ pc[t] # "idle" => task[t].attempt > 0
    /\ task[t].state = "none" => task[t].attempt = 0

\* While the job has had one attempt and no more, its row is pristine until
\* the attempt, and the attempt counts every source that it visits.
ExactInv ==
  Uninterrupted =>
    /\ (\A t \in Tasks : task[t].attempt = 0) => Pristine(row)
    /\ \A t \in Tasks : pc[t] = "load" => Pristine(row)
    /\ \A t \in Tasks : FromStart(pc[t], mem[t], scan[t])
    /\ row.status \in {"completed", "partial"} => Exact(row)

\* What the updates of jobs and scans do to the counters.
LEMMA PristineHasNoTiming ==
  ASSUME NEW j \in Jobs, Pristine(j)
  PROVE  Scanned(j) = {} /\ Failed(j) = {}
BY DEF Pristine, NoTimings, Scanned, Failed, Failing

LEMMA CountersOfJobs ==
  ASSUME NEW j \in Jobs, NEW sc \in Scans
  PROVE  /\ InScan(j, sc).total = N /\ InScan(j, sc).done = sc.done
         /\ InScan(j, sc).failed = sc.failed
         /\ InScan(j, sc).timings = j.timings /\ InScan(j, sc).reason = j.reason
         /\ Timed(j, sc).total = j.total
         /\ Ended(j).total = j.total /\ Ended(j).done = j.done
         /\ Ended(j).failed = j.failed /\ Ended(j).timings = j.timings
         /\ Ended(j).reason = j.reason
         /\ Ended(j).status = IF j.failed = {} THEN "completed" ELSE "partial"
BY DEF InScan, Timed, Ended, Jobs

LEMMA CountersOfScans ==
  ASSUME NEW sc \in Scans, NEW outcome
  PROVE  /\ NextSource(sc).done = sc.done /\ NextSource(sc).failed = sc.failed
         /\ After(sc, outcome).done = sc.done + 1
         /\ After(sc, outcome).outcome = outcome
         /\ After(sc, outcome).k = sc.k /\ After(sc, outcome).resumed = sc.resumed
         /\ After(sc, outcome).failed =
              sc.failed \cup (IF outcome \in Failing THEN {sc.k} ELSE {})
BY DEF NextSource, After, Scans

LEMMA PristineScan ==
  ASSUME NEW j \in Jobs, Pristine(j)
  PROVE  /\ ScanFrom(j).k = 1 /\ ScanFrom(j).done = 0
         /\ ScanFrom(j).failed = {} /\ ScanFrom(j).resumed = {}
<1>1. ResumeKeys(j) = {}
  BY PristineHasNoTiming DEF ResumeKeys
<1>2. Cardinality({}) = 0
  BY FS_EmptySet
<1> QED BY <1>1, <1>2 DEF ScanFrom, MaxOf, Pristine

LEMMA FailedIsOfTimings ==
  ASSUME NEW i, NEW j, i.timings = j.timings
  PROVE  Failed(i) = Failed(j)
BY DEF Failed

\* The timing of a source that has none makes it fail, or does not.
LEMMA TimedFails ==
  ASSUME NEW j \in Jobs, NEW sc \in Scans, sc.k \in Sources, sc.k \notin Scanned(j)
  PROVE  Failed(Timed(j, sc)) =
           Failed(j) \cup (IF sc.outcome \in Failing THEN {sc.k} ELSE {})
<1>1. sc.k \notin Failed(j)
  BY DEF Failed, Scanned, Failing
<1>2. \A s \in Sources : s \in Failed(Timed(j, sc)) <=>
        IF s = sc.k THEN sc.outcome \in Failing ELSE s \in Failed(j)
  BY TimedSource DEF Failed
<1> QED BY <1>1, <1>2 DEF Failed

\* The loop counts every source once, whatever became of the writes.
LEMMA CountingLoop ==
  ASSUME TypeOK, NEW t \in Tasks, ScanOf(t), Work(t),
         FromStart(pc[t], mem[t], scan[t]),
         pc[t] \in InLoop \cup {"scan_start"}
  PROVE  FromStart(pc'[t], mem'[t], scan'[t])
<1> DEFINE j == mem[t]
           sc == scan[t]
<1>1. j \in Jobs /\ sc \in Scans /\ row \in Jobs
  BY AppliedTypes DEF TypeOK
<1>2. sc.k \in 1..(N + 1) /\ sc.done \in Nat /\ N \in Nat
  BY <1>1, NAssumption DEF Scans
<1> USE <1>1 DEF TypeOK, Goto, Outside
<1>x. CASE pc'[t] = "failing"
  BY <1>x DEF FromStart, InLoop, InSource, PastScan
<1>a. CASE ScanStart(t)
  <2>1. pc[t] = "scan_start" /\ pc'[t] = "scanning" /\ Pristine(j)
    BY <1>a DEF ScanStart, FromStart
  <2>2. scan'[t] = ScanFrom(j) /\ mem'[t] = InScan(j, ScanFrom(j))
    BY <1>a DEF ScanStart, Persist
  <2>3. ScanFrom(j) \in Scans
    BY ScanTypes
  <2>4. Failed(mem'[t]) = {}
    <3>1. mem'[t].timings = j.timings
      BY <2>2, <2>3, CountersOfJobs
    <3>2. Failed(j) = {}
      BY <2>1, PristineHasNoTiming
    <3> QED BY <3>1, <3>2 DEF Failed
  <2>5. /\ mem'[t].total = N /\ mem'[t].done = 0 /\ mem'[t].failed = {}
        /\ scan'[t].k = 1 /\ scan'[t].done = 0 /\ scan'[t].failed = {}
        /\ scan'[t].resumed = {}
    BY <2>1, <2>2, <2>3, CountersOfJobs, PristineScan
  <2> QED BY <2>1, <2>4, <2>5 DEF FromStart, InLoop, InSource, PastScan
<1>b. CASE SkipResumed(t)
  <2>1. sc.k \in sc.resumed /\ pc[t] = "scanning"
    BY <1>b DEF SkipResumed
  <2>2. sc.resumed = {}
    BY <2>1 DEF FromStart, InLoop
  <2> QED BY <2>1, <2>2
<1>c. CASE EndScan(t)
  <2>1. mem'[t] = j /\ pc[t] = "scanning" /\ pc'[t] = "ranking" /\ sc.k > N
    BY <1>c DEF EndScan, AtEnd
  <2>2. j.total = N /\ j.done = sc.k - 1 /\ j.failed = Failed(j)
    BY <2>1 DEF FromStart, InLoop
  <2>3. j.done = N
    BY <1>2, <2>1, <2>2
  <2> QED BY <2>1, <2>2, <2>3 DEF FromStart, InLoop, InSource, PastScan
<1>d. ASSUME pc[t] \in {"scanning", "fetching"}, scan'[t] = sc,
             mem'[t] = InScan(j, sc), pc'[t] \in {"fetching", "saving"}
      PROVE  FromStart(pc'[t], mem'[t], scan'[t])
  <2>1. /\ sc.done = sc.k - 1 /\ sc.failed = Failed(j) /\ sc.resumed = {}
    BY <1>d DEF FromStart, InLoop, InSource
  <2>2. Failed(mem'[t]) = Failed(j) /\ mem'[t].total = N
        /\ mem'[t].done = sc.done /\ mem'[t].failed = sc.failed
    BY <1>d, CountersOfJobs, FailedIsOfTimings
  <2> QED BY <1>d, <2>1, <2>2 DEF FromStart, InLoop, InSource, PastScan
<1>e. ASSUME pc[t] \in {"scanning", "fetching", "saving"}, NEW outcome,
             scan'[t] = After(sc, outcome), mem'[t] = j, pc'[t] = "profile"
      PROVE  FromStart(pc'[t], mem'[t], scan'[t])
  <2>1. /\ sc.done = sc.k - 1 /\ sc.failed = Failed(j) /\ sc.resumed = {}
        /\ j.total = N
    BY <1>e DEF FromStart, InLoop, InSource
  <2>2. scan'[t].done = sc.k /\ scan'[t].k = sc.k
    BY <1>2, <1>e, <2>1, CountersOfScans
  <2>3. /\ scan'[t].resumed = {} /\ scan'[t].outcome = outcome
        /\ scan'[t].failed =
             Failed(j) \cup (IF outcome \in Failing THEN {sc.k} ELSE {})
    BY <1>e, <2>1, CountersOfScans
  <2> QED BY <1>e, <2>1, <2>2, <2>3 DEF FromStart, InLoop, InSource, PastScan
<1>f. CASE VisitSource(t) /\ pc'[t] # "failing"
  <2>1. CASE pc'[t] = "profile"
    BY <1>e, <1>f, <2>1 DEF VisitSource, Abort
  <2>2. CASE pc'[t] = "fetching"
    BY <1>d, <1>f, <2>2 DEF VisitSource, Abort, Persist
  <2> QED BY <1>f, <2>1, <2>2 DEF VisitSource, Abort
<1>g. CASE Fetching(t) /\ pc'[t] # "failing"
  <2>1. CASE pc'[t] = "profile"
    BY <1>e, <1>g, <2>1 DEF Fetching, Abort
  <2>2. CASE pc'[t] = "saving"
    BY <1>d, <1>g, <2>2 DEF Fetching, Abort, Persist
  <2> QED BY <1>g, <2>1, <2>2 DEF Fetching, Abort
<1>h. CASE Saving(t) /\ pc'[t] # "failing"
  BY <1>e, <1>h DEF Saving, Abort
<1>i. CASE Profile(t)
  <2>1. /\ pc[t] = "profile" /\ pc'[t] = "progress" /\ scan'[t] = sc
        /\ mem'[t] = Timed(j, sc)
    BY <1>i DEF Profile, Persist
  <2>2. sc.k \in Sources /\ sc.k \notin sc.resumed
    BY <2>1 DEF ScanOf, InSource
  <2>3. Scanned(j) = sc.resumed \cup {s \in Sources : s < sc.k}
    BY <2>1 DEF ScanOf, InLoop, InSource, Visited
  <2>4. sc.k \notin Scanned(j)
    BY <1>2, <2>2, <2>3
  <2>5. /\ sc.done = sc.k /\ sc.resumed = {} /\ j.total = N
        /\ sc.failed = Failed(j) \cup (IF sc.outcome \in Failing THEN {sc.k} ELSE {})
    BY <2>1 DEF FromStart, InLoop, InSource
  <2>6. sc.failed = Failed(mem'[t]) /\ mem'[t].total = N
    BY <2>1, <2>2, <2>4, <2>5, TimedFails, CountersOfJobs
  <2> QED BY <2>1, <2>5, <2>6 DEF FromStart, InLoop, InSource, PastScan
<1>j. CASE Progress(t)
  <2>1. /\ pc[t] = "progress" /\ pc'[t] = "scanning"
        /\ scan'[t] = NextSource(sc) /\ mem'[t] = InScan(j, sc)
    BY <1>j DEF Progress, Persist
  <2>2. sc.done = sc.k /\ sc.failed = Failed(j) /\ sc.resumed = {}
    BY <2>1 DEF FromStart, InLoop, InSource
  <2>3. scan'[t].k = sc.k + 1 /\ scan'[t].done = sc.k
        /\ scan'[t].failed = sc.failed /\ scan'[t].resumed = {}
    BY <2>1, <2>2, CountersOfScans, ScanUpdates
  <2>4. Failed(mem'[t]) = Failed(j) /\ mem'[t].total = N
        /\ mem'[t].done = sc.done /\ mem'[t].failed = sc.failed
    BY <2>1, CountersOfJobs, FailedIsOfTimings
  <2>5. scan'[t].done = scan'[t].k - 1
    BY <1>2, <2>3
  <2> QED BY <2>1, <2>2, <2>3, <2>4, <2>5 DEF FromStart, InLoop, InSource, PastScan
<1> QED
  BY <1>x, <1>a, <1>b, <1>c, <1>f, <1>g, <1>h, <1>i, <1>j
     DEF Work, InLoop, InSource, Load, Checking, Deciding, Health, Ranking,
         Querying, Finishing, Recording, Fail

\* Before the loop the copy is pristine, after it the counters stay.
LEMMA CountingOutside ==
  ASSUME TypeOK, NEW t \in Tasks, ScanOf(t), Work(t),
         FromStart(pc[t], mem[t], scan[t]),
         pc[t] = "load" => Pristine(row),
         pc[t] \notin InLoop \cup {"scan_start"}
  PROVE  FromStart(pc'[t], mem'[t], scan'[t])
<1> DEFINE j == mem[t]
<1>1. j \in Jobs /\ row \in Jobs
  BY AppliedTypes DEF TypeOK
<1> USE <1>1 DEF TypeOK, Goto, Outside
<1>x. CASE pc'[t] \in {"failing", "recording", "done", "error", "health"}
  BY <1>x DEF FromStart, InLoop, InSource, PastScan
<1>y. ASSUME pc'[t] \in {"deciding", "scan_start", "checking"}, Pristine(mem'[t])
      PROVE  FromStart(pc'[t], mem'[t], scan'[t])
  BY <1>y DEF FromStart, InLoop, InSource, PastScan
<1>a. CASE Load(t) /\ pc'[t] = "checking"
  <2>1. Pristine(row)
    BY <1>a DEF Load
  <2>2. mem'[t] = [row EXCEPT !.status = "running", !.stage = "checking_index"]
    BY <1>a DEF Load
  <2>3. Pristine(mem'[t])
    BY <2>1, <2>2 DEF Pristine, Jobs
  <2> QED BY <1>a, <1>y, <2>3
<1>b. CASE Checking(t)
  <2>1. pc[t] = "checking" /\ mem'[t] = j /\ pc'[t] = "deciding"
    BY <1>b DEF Checking, Persist
  <2> QED BY <1>y, <2>1 DEF FromStart
<1>c. CASE Deciding(t) /\ pc'[t] \in {"scan_start", "ranking"}
  <2>1. PICK reason \in Reasons :
          /\ mem'[t] = [j EXCEPT !.reason = reason]
          /\ pc'[t] = IF reason # "" THEN "scan_start"
                      ELSE IF FinishedLiveScan(j) THEN "ranking"
                      ELSE "health"
    BY <1>c, ReasonType DEF Deciding, Abort, Persist
  <2>2. CASE pc'[t] = "scan_start"
    <3>1. Pristine(j)
      BY <1>c DEF Deciding, FromStart
    <3>2. Pristine(mem'[t])
      BY <2>1, <3>1 DEF Pristine, Jobs
    <3> QED BY <1>y, <2>2, <3>2
  <2>3. CASE pc'[t] = "ranking"
    <3>1. reason = ""
      BY <2>1, <2>3
    <3>2. mem'[t].reason = ""
      BY <2>1, <3>1 DEF Jobs
    <3> QED BY <2>3, <3>2 DEF FromStart, InLoop, InSource, PastScan
  <2> QED BY <1>c, <2>2, <2>3
<1>d. CASE Health(t)
  <2>1. pc[t] = "health" /\ pc'[t] = "ranking" /\ j.reason = ""
    BY <1>d DEF Health, ScanOf
  <2>2. mem'[t].reason = j.reason
    BY <1>d, CopyUpdates DEF Health, Persist
  <2> QED BY <2>1, <2>2 DEF FromStart, InLoop, InSource, PastScan
<1>e. CASE (Ranking(t) \/ Querying(t)) /\ pc'[t] # "failing"
  <2>1. pc[t] \in PastScan /\ pc'[t] \in {"querying", "finishing"}
    BY <1>e DEF Ranking, Querying, PastScan, Abort
  <2>2. mem'[t] = j \/ mem'[t] = [j EXCEPT !.stage = "searching_index"]
    BY <1>e DEF Ranking, Querying, Persist, Abort
  <2>3. /\ mem'[t].reason = j.reason /\ mem'[t].timings = j.timings
        /\ mem'[t].done = j.done /\ mem'[t].total = j.total
        /\ mem'[t].failed = j.failed
    BY <2>2 DEF Jobs
  <2>4. Failed(mem'[t]) = Failed(j)
    BY <2>3 DEF Failed
  <2> QED BY <2>1, <2>3, <2>4 DEF FromStart, InLoop, InSource, PastScan
<1>f. CASE Finishing(t) \/ Recording(t) \/ Fail(t)
  <2>1. pc'[t] \in {"recording", "done", "error"}
    BY <1>f DEF Finishing, Recording, Fail
  <2> QED BY <1>x, <2>1
<1>g. Load(t) => pc'[t] \in {"checking", "done", "error"}
  BY DEF Load
<1>h. Deciding(t) => pc'[t] \in {"failing", "scan_start", "ranking", "health"}
  BY DEF Deciding, Abort
<1> QED
  BY <1>x, <1>a, <1>b, <1>c, <1>d, <1>e, <1>f, <1>g, <1>h
     DEF Work, InLoop, InSource, ScanStart, SkipResumed, EndScan, VisitSource,
         Fetching, Saving, Profile, Progress

\* The row of a job that ends after one attempt.
LEMMA EndedExactly ==
  ASSUME TypeOK, ScanInv, NEW t \in Tasks, Work(t), RowInv,
         FromStart(pc[t], mem[t], scan[t]),
         row'.status \in {"completed", "partial"},
         row.status \in {"completed", "partial"} => Exact(row)
  PROVE  Exact(row')
<1>1. mem[t] \in Jobs
  BY AppliedTypes
<1>2. CASE UNCHANGED row
  BY <1>2
<1>3. CASE pc[t] \in Writing /\ row' = Snapshot(row, mem'[t])
  <2>1. row.status = "queued"
    BY <1>3 DEF RowInv
  <2>2. row'.status = row.status
    <3>1. mem'[t] \in Jobs
      BY WorkTypes DEF TypeOK
    <3> QED BY <1>3, <3>1 DEF Snapshot, Jobs
  <2> QED BY <2>1, <2>2
<1>4. CASE pc[t] = "finishing" /\ row' = Ended(mem[t])
  <2>1. mem[t].reason # "" =>
          /\ mem[t].done = N /\ mem[t].total = N
          /\ mem[t].failed = Failed(mem[t])
    BY <1>4 DEF FromStart, PastScan
  <2>2. /\ row'.total = mem[t].total /\ row'.done = mem[t].done
        /\ row'.failed = mem[t].failed /\ row'.timings = mem[t].timings
        /\ row'.reason = mem[t].reason
        /\ row'.status = IF mem[t].failed = {} THEN "completed" ELSE "partial"
    BY <1>1, <1>4 DEF Ended, Jobs
  <2>3. Failed(row') = Failed(mem[t])
    BY <2>2 DEF Failed
  <2> QED BY <2>1, <2>2, <2>3 DEF Exact
<1>5. CASE row' = FailedJob(mem[t])
  <2>1. row'.status = "failed"
    BY <1>1, <1>5 DEF FailedJob, Jobs
  <2> QED BY <2>1
<1> QED BY <1>2, <1>3, <1>4, <1>5, WorkRow

LEMMA AttemptsStart == Init => AttemptsInv /\ ExactInv
<1> SUFFICES ASSUME Init PROVE AttemptsInv /\ ExactInv
  OBVIOUS
<1>1. \A t \in Tasks : pc[t] = "idle" /\ task[t].attempt = 0
  BY DEF Init
<1>2. Pristine(row) /\ row.status = "absent"
  BY DEF Init, NoJob, QueuedJob, Pristine
<1>3. \A t \in Tasks : FromStart(pc[t], mem[t], scan[t])
  BY <1>1 DEF FromStart, InLoop, InSource, PastScan
<1> QED BY <1>1, <1>2, <1>3 DEF AttemptsInv, ExactInv

\* Attempts are never taken back, except from a task that had none.
LEMMA AttemptsGrow ==
  TypeOK /\ TasksInv /\ AttemptsInv /\ [Next]_vars =>
    /\ AttemptsInv'
    /\ \A t \in Tasks : task'[t].attempt >= task[t].attempt
<1> SUFFICES ASSUME TypeOK, TasksInv, AttemptsInv, [Next]_vars
             PROVE  /\ AttemptsInv'
                    /\ \A t \in Tasks : task'[t].attempt >= task[t].attempt
  OBVIOUS
<1>0. \A t \in Tasks : task[t].attempt \in Nat
  BY DEF TypeOK
<1>1. ASSUME UNCHANGED task,
             \A u \in Tasks : pc'[u] # "idle" => pc[u] # "idle"
      PROVE  /\ AttemptsInv'
             /\ \A t \in Tasks : task'[t].attempt >= task[t].attempt
  BY <1>0, <1>1 DEF AttemptsInv
<1>2. ASSUME NEW t \in Tasks, Work(t)
      PROVE  UNCHANGED task /\ \A u \in Tasks : pc'[u] # "idle" => pc[u] # "idle"
  BY <1>2, WorkFrame
<1>3. ASSUME NEW t \in Tasks,
             \A u \in Tasks \ {t} : task'[u] = task[u] /\ pc'[u] = pc[u],
             task'[t].attempt >= task[t].attempt, task'[t].state # "none",
             pc'[t] # "idle" => task'[t].attempt > 0
      PROVE  /\ AttemptsInv'
             /\ \A u \in Tasks : task'[u].attempt >= task[u].attempt
  <2>1. \A u \in Tasks : task'[u].attempt >= task[u].attempt
    BY <1>0, <1>3
  <2>2. ASSUME NEW u \in Tasks
        PROVE  /\ pc'[u] # "idle" => task'[u].attempt > 0
               /\ task'[u].state = "none" => task'[u].attempt = 0
    BY <1>3 DEF AttemptsInv
  <2> QED BY <2>1, <2>2 DEF AttemptsInv
<1>4. ASSUME NEW t \in Tasks, UNCHANGED pc, pc[t] = "idle", task[t].attempt = 0,
             task' = [task EXCEPT ![t] = [state |-> "available", attempt |-> 0]]
      PROVE  /\ AttemptsInv'
             /\ \A u \in Tasks : task'[u].attempt >= task[u].attempt
  <2>1. task'[t].attempt = 0 /\ task'[t].state = "available"
        /\ \A u \in Tasks \ {t} : task'[u] = task[u]
    BY <1>4 DEF TypeOK
  <2> QED BY <1>3, <1>4, <2>1
<1>5. ASSUME NEW t \in Tasks, StartAttempt(t)
      PROVE  /\ AttemptsInv'
             /\ \A u \in Tasks : task'[u].attempt >= task[u].attempt
  <2>1. task'[t].attempt = task[t].attempt + 1 /\ task'[t].state = "running"
        /\ \A u \in Tasks \ {t} : task'[u] = task[u] /\ pc'[u] = pc[u]
    BY <1>5 DEF StartAttempt, Goto, TypeOK
  <2>2. task'[t].attempt >= task[t].attempt /\ task'[t].attempt > 0
    BY <1>0, <2>1
  <2> QED BY <1>3, <2>1, <2>2
<1>6. ASSUME NEW t \in Tasks, Settle(t) \/ Rescue(t)
      PROVE  /\ AttemptsInv'
             /\ \A u \in Tasks : task'[u].attempt >= task[u].attempt
  <2>1. /\ pc'[t] = "idle"
        /\ \A u \in Tasks \ {t} : task'[u] = task[u] /\ pc'[u] = pc[u]
    BY <1>6 DEF Settle, Rescue, Goto, TypeOK
  <2>2. \/ task'[t] = Retried(task[t])
        \/ task'[t] = [task[t] EXCEPT !.state = "completed"]
    BY <1>6 DEF Settle, Rescue, TypeOK
  <2>3. task'[t].attempt = task[t].attempt /\ task'[t].state # "none"
    BY <2>2 DEF Retried, TypeOK
  <2> QED BY <1>0, <1>3, <2>1, <2>3
<1>7. ASSUME NEW t \in Tasks,
             ResumeJob(t) \/ \E force \in BOOLEAN : Create(t, force)
      PROVE  /\ AttemptsInv'
             /\ \A u \in Tasks : task'[u].attempt >= task[u].attempt
  <2>1. task[t].attempt = 0 /\ pc[t] = "idle" /\ pc' = pc
    BY <1>7 DEF ResumeJob, Create, AttemptsInv, TasksInv
  <2>2. \/ UNCHANGED task
        \/ task' = [task EXCEPT ![t] = [state |-> "available", attempt |-> 0]]
    BY <1>7 DEF ResumeJob, Create
  <2>3. CASE UNCHANGED task
    BY <1>1, <2>1, <2>3
  <2>4. CASE task' = [task EXCEPT ![t] = [state |-> "available", attempt |-> 0]]
    BY <1>4, <2>1, <2>4
  <2> QED BY <2>2, <2>3, <2>4
<1>8. ASSUME NEW t \in Tasks, TimeOut(t)
      PROVE  UNCHANGED <<task, pc>>
  BY <1>8 DEF TimeOut
<1>9. CASE Process
  BY <1>1, <1>9 DEF Process, Stop, Exit, Crash, Start, QueryUnfinished
<1>10. CASE UNCHANGED vars
  BY <1>1, <1>10 DEF vars
<1> QED
  BY <1>1, <1>2, <1>5, <1>6, <1>7, <1>8, <1>9, <1>10 DEF Next, River

\* So a job that is still uninterrupted has always been.
LEMMA UninterruptedBefore ==
  TypeOK /\ TypeOK' /\ TasksInv /\ AttemptsInv /\ [Next]_vars /\ Uninterrupted' =>
    Uninterrupted
<1> SUFFICES ASSUME TypeOK, TypeOK', TasksInv, AttemptsInv, [Next]_vars, Uninterrupted'
             PROVE  Uninterrupted
  OBVIOUS
<1>1. PICK t \in Tasks :
        \A u \in Tasks : task'[u].attempt <= IF u = t THEN 1 ELSE 0
  BY DEF Uninterrupted
<1>2. \A u \in Tasks : task'[u].attempt >= task[u].attempt
  BY AttemptsGrow
<1>3. \A u \in Tasks : task[u].attempt \in Nat /\ task'[u].attempt \in Nat
  BY DEF TypeOK
<1>4. \A u \in Tasks : task[u].attempt <= IF u = t THEN 1 ELSE 0
  BY <1>1, <1>2, <1>3
<1> QED BY <1>4 DEF Uninterrupted

\* One goroutine at a time runs, and the tasks of the others are untouched.
LEMMA OnlyOneRuns ==
  ASSUME TypeOK, AttemptsInv, Uninterrupted, NEW t \in Tasks, pc[t] # "idle"
  PROVE  \A u \in Tasks \ {t} : pc[u] = "idle"
<1>1. PICK v \in Tasks :
        \A u \in Tasks : task[u].attempt <= IF u = v THEN 1 ELSE 0
  BY DEF Uninterrupted
<1>2. \A u \in Tasks : task[u].attempt \in Nat
  BY DEF TypeOK
<1>3. \A u \in Tasks : pc[u] # "idle" => u = v
  BY <1>1, <1>2 DEF AttemptsInv
<1> QED BY <1>3

LEMMA IdleFromStart ==
  ASSUME NEW j, NEW sc, NEW step, step \in {"idle", "load"}
  PROVE  FromStart(step, j, sc)
BY DEF FromStart, InLoop, InSource, PastScan

\* Every step keeps the counters of an uninterrupted job exact.
LEMMA ExactStep ==
  WorkerInv /\ WorkerInv' /\ AttemptsInv /\ ExactInv /\ [Next]_vars => ExactInv'
<1> SUFFICES ASSUME WorkerInv, WorkerInv', AttemptsInv, ExactInv, [Next]_vars,
                    Uninterrupted'
             PROVE  ExactInv'
  BY DEF ExactInv
<1>0. TypeOK /\ TypeOK' /\ TasksInv /\ RowInv /\ ScanInv
  BY DEF WorkerInv
<1>1. Uninterrupted
  BY <1>0, UninterruptedBefore
<1>2. /\ (\A t \in Tasks : task[t].attempt = 0) => Pristine(row)
      /\ \A t \in Tasks : pc[t] = "load" => Pristine(row)
      /\ \A t \in Tasks : FromStart(pc[t], mem[t], scan[t])
      /\ row.status \in {"completed", "partial"} => Exact(row)
  BY <1>1 DEF ExactInv
<1>3. /\ AttemptsInv'
      /\ \A t \in Tasks : task'[t].attempt >= task[t].attempt
  BY <1>0, AttemptsGrow
<1>4. (\A t \in Tasks : task'[t].attempt = 0) => \A t \in Tasks : task[t].attempt = 0
  <2>1. \A t \in Tasks : task[t].attempt \in Nat
    BY <1>0 DEF TypeOK
  <2> QED BY <1>3, <2>1
<1>5. ASSUME UNCHANGED row,
             \A t \in Tasks : \/ pc'[t] = "idle"
                              \/ pc'[t] = pc[t] /\ mem'[t] = mem[t] /\ scan'[t] = scan[t]
      PROVE  ExactInv'
  <2>1. \A t \in Tasks : FromStart(pc'[t], mem'[t], scan'[t])
    BY <1>2, <1>5, IdleFromStart
  <2> QED BY <1>2, <1>4, <1>5, <2>1 DEF ExactInv
<1>6. ASSUME NEW t \in Tasks, Work(t)
      PROVE  ExactInv'
  <2>1. /\ pc[t] # "idle" /\ pc'[t] # "load" /\ UNCHANGED task
        /\ \A u \in Tasks \ {t} : pc'[u] = pc[u]
    BY <1>0, <1>6, WorkFrame
  <2>2. \A u \in Tasks \ {t} : pc'[u] = "idle"
    BY <1>0, <1>1, <2>1, OnlyOneRuns
  <2>3. task'[t].attempt > 0 /\ task'[t].attempt \in Nat
    BY <1>0, <2>1 DEF AttemptsInv, TypeOK
  <2>4. FromStart(pc'[t], mem'[t], scan'[t])
    BY <1>0, <1>2, <1>6, ScanInvParts, CountingLoop, CountingOutside
  <2>5. \A u \in Tasks : FromStart(pc'[u], mem'[u], scan'[u])
    BY <2>2, <2>4, IdleFromStart
  <2>6. row'.status \in {"completed", "partial"} => Exact(row')
    BY <1>0, <1>2, <1>6, EndedExactly
  <2>7. ~(\A u \in Tasks : task'[u].attempt = 0)
    BY <2>3
  <2>8. \A u \in Tasks : pc'[u] # "load"
    BY <2>1, <2>2
  <2> QED BY <2>5, <2>6, <2>7, <2>8 DEF ExactInv
<1>7. ASSUME NEW t \in Tasks, StartAttempt(t)
      PROVE  ExactInv'
  <2>1. /\ task'[t].attempt = task[t].attempt + 1
        /\ pc'[t] = "load" /\ UNCHANGED <<row, mem, scan>>
        /\ \A u \in Tasks \ {t} : pc'[u] = pc[u] /\ task'[u] = task[u]
    BY <1>0, <1>7 DEF StartAttempt, Goto, TypeOK
  <2>2. PICK v \in Tasks :
          \A u \in Tasks : task'[u].attempt <= IF u = v THEN 1 ELSE 0
    BY DEF Uninterrupted
  <2>3. \A u \in Tasks : task[u].attempt \in Nat /\ task'[u].attempt \in Nat
    BY <1>0 DEF TypeOK
  <2>4. \A u \in Tasks : task[u].attempt = 0
    <3>1. task'[t].attempt > 0
      BY <2>1, <2>3
    <3>2. t = v /\ task'[t].attempt <= 1
      BY <2>2, <2>3, <3>1
    <3>3. \A u \in Tasks \ {t} : task'[u].attempt <= 0
      BY <2>2, <3>2
    <3> QED BY <2>1, <2>3, <3>2, <3>3
  <2>5. Pristine(row')
    BY <1>2, <2>1, <2>4
  <2>6. \A u \in Tasks : FromStart(pc'[u], mem'[u], scan'[u])
    BY <1>2, <2>1, IdleFromStart
  <2> QED BY <1>2, <2>1, <2>5, <2>6 DEF ExactInv
<1>8. ASSUME NEW t \in Tasks, Settle(t) \/ Rescue(t) \/ ResumeJob(t) \/ TimeOut(t)
      PROVE  ExactInv'
  <2>1. UNCHANGED row /\
        \A u \in Tasks : \/ pc'[u] = "idle"
                         \/ pc'[u] = pc[u] /\ mem'[u] = mem[u] /\ scan'[u] = scan[u]
    BY <1>0, <1>8 DEF Settle, Rescue, ResumeJob, TimeOut, Goto, TypeOK
  <2> QED BY <1>5, <2>1
<1>9. ASSUME NEW t \in Tasks, NEW force \in BOOLEAN, Create(t, force)
      PROVE  ExactInv'
  <2>1. row' = QueuedJob(force) /\ UNCHANGED <<pc, mem, scan>>
    BY <1>9 DEF Create
  <2>2. Pristine(row') /\ row'.status = "queued"
    BY <2>1 DEF Pristine, QueuedJob
  <2> QED BY <1>2, <2>1, <2>2 DEF ExactInv
<1>10. CASE Process
  BY <1>5, <1>10 DEF Process, Stop, Exit, Crash, Start, QueryUnfinished
<1>11. CASE UNCHANGED vars
  BY <1>5, <1>11 DEF vars
<1> QED BY <1>6, <1>7, <1>8, <1>9, <1>10, <1>11 DEF Next, River

\* A job that ends well after one attempt with a live scan has visited every
\* source, and names exactly those that failed it or were skipped, whichever
\* progress writes of IngestQuery were lost.
THEOREM UninterruptedScansAreExact == Spec => []UninterruptedScanIsExact
<1>1. AttemptsInv /\ WorkerInv /\ [Next]_vars => AttemptsInv'
  BY AttemptsGrow DEF WorkerInv
<1>2. ExactInv => UninterruptedScanIsExact
  BY DEF ExactInv, Exact, UninterruptedScanIsExact
<1> QED BY <1>1, <1>2, AttemptsStart, ExactStep, WorkerInvariant, PTL DEF Spec
=============================================================================
