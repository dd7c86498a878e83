--------------------------- MODULE QuoteExtraction ---------------------------
(***************************************************************************)
(* PerelmanQuoteExtractor.Enrich, run at the same time by several attempts *)
(* of SearchJobWorker.Work in one worker process, over the shared rows of  *)
(* extraction_articlequotes, the local_md_path of the articles and the     *)
(* directory of frozen markdown files.                                     *)
(*                                                                         *)
(* A step is one database call, one file operation or one extraction.      *)
(* Enrich walks over the hits one after the other and starts a goroutine   *)
(* for each article that it has to extract; a semaphore admits Concurrency *)
(* of them.  The order of the hits is left open.                           *)
(*                                                                         *)
(* Time is one bit per row: a claim is stale when it is older than 15      *)
(* minutes.  JobTimeout is 15 minutes too and an attempt claims after it   *)
(* has started, so a claim is not stale before its attempt is cancelled.   *)
(*                                                                         *)
(* Abstracted: the quotes themselves, and how Perelman finds them (error,  *)
(* nothing, or something).                                                 *)
(***************************************************************************)
EXTENDS Integers, FiniteSets

CONSTANTS
  Runs,          \* attempts of Work that reach the quote substage
  Articles,      \* articles that are hits
  Published,     \* those with is_not_preprint_or_manuscript
  None,          \* no article
  Concurrency,   \* goroutines of one call of Enrich that extract at once
  MaxFaults,     \* bound: database and file operations that fail
  MaxCancels,    \* bound: attempts cancelled by JobTimeout or a stop
  MaxCrashes     \* bound: crashes of the worker process

ASSUME ExtractionAssumption ==
  /\ IsFiniteSet(Runs)
  /\ Published \subseteq Articles
  /\ None \notin Articles
  /\ Concurrency \in Nat \ {0}
ASSUME ExtractionBounds ==
  /\ MaxFaults \in Nat
  /\ MaxCancels \in Nat
  /\ MaxCrashes \in Nat

VARIABLES
  quotes,     \* [Articles -> status of the cache row, "none" without one]
  stale,      \* [Articles -> the row is pending for more than 15 minutes]
  path,       \* [Articles -> local_md_path is stamped]
  file,       \* [Articles -> the frozen markdown file exists]
  pc,         \* [Runs -> where Enrich and then Work are]
  at,         \* [Runs -> the hit of the current iteration]
  todo,       \* [Runs -> the hits not visited yet]
  work,       \* [Runs -> [Articles -> where the goroutine is, or "none"]]
  shown,      \* [Runs -> the hits that were given quotes]
  cancelled,  \* [Runs -> the attempt's context is done]
  evictions,  \* claims won although an earlier holder still runs
  faults,
  cancels,
  crashes

rows == <<quotes, stale, path>>
loop == <<pc, at, todo>>
bounds == <<cancels, crashes>>
vars == <<rows, file, loop, work, shown, cancelled, evictions, faults, bounds>>

-----------------------------------------------------------------------------

Claimable == {"failed", "no_text"}
QuotesStatuses == {"none", "pending", "done"} \cup Claimable
Steps == {"idle", "next", "load", "claim", "insert", "returned", "closed"}

\* Where a goroutine is; all but the first two hold a slot of the semaphore,
\* except that a goroutine that never got one also fails.
GoSteps == {"none", "queued", "extracting", "saving", "stamping", "no_text",
            "failing", "unadmitted"}
Slots == {"extracting", "saving", "stamping", "no_text", "failing"}

Goto(r, step) == pc' = [pc EXCEPT ![r] = step]
Go(r, a, step) == work' = [work EXCEPT ![r][a] = step]
Running(r) == {a \in Articles : work[r][a] # "none"}
Holders(a) == {r \in Runs : work[r][a] # "none"}

\* Calls on the attempt's context.  A write that fails, because of a fault
\* or because the context ends while it is under way, may have been applied.
CallWorks(r) == ~cancelled[r] /\ UNCHANGED faults
FaultHappens == faults < MaxFaults /\ faults' = faults + 1
CallFails(r) ==
  \/ cancelled[r] /\ UNCHANGED faults
  \/ ~cancelled[r] /\ FaultHappens

\* A write of the cache row: its updated_at is now.
Put(a, status) ==
  /\ quotes' = [quotes EXCEPT ![a] = status]
  /\ stale' = [stale EXCEPT ![a] = FALSE]

\* Enrich returns without waiting for its goroutines.
ReturnEarly(r) == Goto(r, "returned") /\ UNCHANGED <<at, todo>>

\* On to the next hit.
Advance(r) == Goto(r, "next") /\ UNCHANGED <<at, todo>>

-----------------------------------------------------------------------------
(* Enrich: the loop over the hits.                                         *)

Begin(r) ==
  /\ pc[r] = "idle"
  /\ Goto(r, "next")
  /\ \E hits \in SUBSET Articles : todo' = [todo EXCEPT ![r] = hits]
  /\ UNCHANGED <<rows, file, at, work, shown, cancelled, evictions, faults, bounds>>

\* Quotes.GetByArticle: a completed row is served.
Visit(r) ==
  /\ pc[r] = "next"
  /\ \E a \in todo[r] :
       \/ /\ CallWorks(r)
          /\ todo' = [todo EXCEPT ![r] = @ \ {a}]
          /\ at' = [at EXCEPT ![r] = a]
          /\ IF quotes[a] = "done"
             THEN /\ shown' = [shown EXCEPT ![r] = @ \cup {a}]
                  /\ UNCHANGED pc
             ELSE Goto(r, "load") /\ UNCHANGED shown
       \/ CallFails(r) /\ ReturnEarly(r) /\ UNCHANGED shown
  /\ UNCHANGED <<rows, file, work, cancelled, evictions, bounds>>

\* The goroutine for the current hit.
Spawn(r) == Go(r, at[r], "queued") /\ Advance(r)

\* Articles.GetByID and Sources.GetByID: an article that is gone is skipped,
\* a published one has to be claimed.
LoadArticle(r) ==
  /\ pc[r] = "load"
  /\ \/ CallWorks(r) /\ Advance(r) /\ UNCHANGED work
     \/ /\ CallWorks(r)
        /\ IF at[r] \in Published
           THEN Goto(r, "claim") /\ UNCHANGED <<at, todo, work>>
           ELSE Spawn(r)
     \/ CallFails(r) /\ ReturnEarly(r) /\ UNCHANGED work
  /\ UNCHANGED <<rows, file, shown, cancelled, evictions, bounds>>

\* The claim is this run's.
Won(r) ==
  /\ Put(at[r], "pending")
  /\ evictions' = IF Holders(at[r]) # {} /\ stale[at[r]]
                  THEN evictions + 1 ELSE evictions
  /\ UNCHANGED path

\* Somebody else has it: what is done by now is served.
Lost(r) ==
  /\ shown' = IF quotes[at[r]] = "done"
              THEN [shown EXCEPT ![r] = @ \cup {at[r]}] ELSE shown
  /\ UNCHANGED <<rows, evictions>>

\* The rows that a claim may take: failed and empty ones, and stale claims.
MayTakeFresh(a) == quotes[a] \in Claimable \cup {"pending"}
MayTakeDone(a) == quotes[a] \in Claimable \cup {"done"}
MayTakeSettled(a) == quotes[a] \in Claimable
MayTake(a) ==
  \/ quotes[a] \in Claimable
  \/ quotes[a] = "pending" /\ stale[a]

\* The error of the claim is that of Enrich.
ClaimFails(r) ==
  /\ CallFails(r)
  /\ ReturnEarly(r)
  /\ UNCHANGED <<work, shown>>

\* Quotes.Claim: SELECT ... FOR UPDATE finds a row, and the transaction is
\* one step because it holds the lock; without a row there is none to lock.
Claim(r) ==
  /\ pc[r] = "claim"
  /\ LET a == at[r]
     IN  \/ /\ quotes[a] = "none"
            /\ CallWorks(r)
            /\ Goto(r, "insert")
            /\ UNCHANGED <<rows, at, todo, work, shown, evictions>>
         \/ /\ MayTake(a)
            /\ \/ CallWorks(r) /\ Won(r) /\ Spawn(r) /\ UNCHANGED shown
               \/ ClaimFails(r) /\ Won(r)
         \/ /\ quotes[a] # "none"
            /\ ~MayTake(a)
            /\ CallWorks(r)
            /\ Lost(r)
            /\ Advance(r)
            /\ UNCHANGED work
         \/ ClaimFails(r) /\ UNCHANGED <<rows, evictions>>
  /\ UNCHANGED <<file, cancelled, bounds>>

\* INSERT ... ON CONFLICT DO NOTHING: whoever inserts first has the claim,
\* whatever has become of it since.
InsertClaim(r) ==
  /\ pc[r] = "insert"
  /\ LET a == at[r]
     IN  \/ /\ quotes[a] = "none"
            /\ \/ CallWorks(r) /\ Won(r) /\ Spawn(r) /\ UNCHANGED shown
               \/ ClaimFails(r) /\ Won(r)
         \/ /\ quotes[a] # "none"
            /\ CallWorks(r)
            /\ Lost(r)
            /\ Advance(r)
            /\ UNCHANGED work
         \/ ClaimFails(r) /\ UNCHANGED <<rows, evictions>>
  /\ UNCHANGED <<file, cancelled, bounds>>

\* The end of the loop without wg.Wait.
WaitForNone(r) ==
  /\ pc[r] = "next"
  /\ todo[r] = {}
  /\ Goto(r, "returned")
  /\ UNCHANGED <<rows, file, at, todo, work, shown, cancelled, evictions, faults, bounds>>

\* wg.Wait; the error is ctx.Err().
Wait(r) ==
  /\ pc[r] = "next"
  /\ todo[r] = {}
  /\ Running(r) = {}
  /\ Goto(r, "returned")
  /\ UNCHANGED <<rows, file, at, todo, work, shown, cancelled, evictions, faults, bounds>>

\* Work logs the error, stores the hits and returns; River then cancels the
\* context of the attempt.
Close(r) ==
  /\ pc[r] = "returned"
  /\ Goto(r, "closed")
  /\ cancelled' = [cancelled EXCEPT ![r] = TRUE]
  /\ UNCHANGED <<rows, file, at, todo, work, shown, evictions, faults, bounds>>

-----------------------------------------------------------------------------
(* The goroutine of an article.                                            *)

\* One slot too few.
AdmitBelow(r, a) ==
  /\ work[r][a] = "queued"
  /\ Cardinality({b \in Articles : work[r][b] \in Slots}) < Concurrency - 1
  /\ Go(r, a, "extracting")
  /\ UNCHANGED <<rows, file, loop, shown, cancelled, evictions, faults, bounds>>

\* A slot of the semaphore, or the end of the context.
Admit(r, a) ==
  /\ work[r][a] = "queued"
  /\ \/ /\ Cardinality({b \in Articles : work[r][b] \in Slots}) < Concurrency
        /\ Go(r, a, "extracting")
     \/ /\ cancelled[r]
        /\ Go(r, a, IF a \in Published THEN "unadmitted" ELSE "none")
  /\ UNCHANGED <<rows, file, loop, shown, cancelled, evictions, faults, bounds>>

\* What an extraction that returned something, or nothing, goes on with; a
\* preprint is done when its quotes are in the hit.
Keeps(a) == IF a \in Published THEN "saving" ELSE "none"
Empty(a) == IF a \in Published THEN "no_text" ELSE "none"

\* Perelman.Extract: an error, nothing, or something; a result is written
\* into the hit at once.
Extract(r, a) ==
  /\ work[r][a] = "extracting"
  /\ \/ /\ Go(r, a, IF a \in Published THEN "failing" ELSE "none")
        /\ UNCHANGED shown
     \/ /\ Go(r, a, Empty(a))
        /\ UNCHANGED shown
     \/ /\ Go(r, a, Keeps(a))
        /\ shown' = [shown EXCEPT ![r] = @ \cup {a}]
  /\ UNCHANGED <<rows, file, loop, cancelled, evictions, faults, bounds>>

\* Quotes.SetNoText on the attempt's context; its error is only logged.
MarkNoText(r, a) ==
  /\ work[r][a] = "no_text"
  /\ Go(r, a, "none")
  /\ \/ CallWorks(r) /\ Put(a, "no_text")
     \/ CallFails(r) /\ (UNCHANGED <<quotes, stale>> \/ Put(a, "no_text"))
  /\ UNCHANGED <<path, file, loop, shown, cancelled, evictions, bounds>>

\* LocalStore.Save: a temporary file, then a rename.
Freeze(r, a) ==
  /\ work[r][a] = "saving"
  /\ \/ /\ Go(r, a, "stamping")
        /\ file' = [file EXCEPT ![a] = TRUE]
        /\ UNCHANGED faults
     \/ /\ FaultHappens
        /\ Go(r, a, "failing")
        /\ UNCHANGED file
  /\ UNCHANGED <<rows, loop, shown, cancelled, evictions, bounds>>

\* What the transaction of SetDoneFrozen writes.
DoneOnly(a) == Put(a, "done") /\ UNCHANGED path
Frozen(a) == Put(a, "done") /\ path' = [path EXCEPT ![a] = TRUE]

\* Quotes.SetDoneFrozen on the attempt's context.
Stamp(r, a) ==
  /\ work[r][a] = "stamping"
  /\ \/ CallWorks(r) /\ Frozen(a) /\ Go(r, a, "none")
     \/ /\ CallFails(r)
        /\ UNCHANGED rows \/ Frozen(a)
        /\ Go(r, a, "failing")
  /\ UNCHANGED <<file, loop, shown, cancelled, evictions, bounds>>

\* fail: Quotes.SetFailed on a context of its own; its error is logged.
MarkFailed(r, a) ==
  /\ work[r][a] \in {"failing", "unadmitted"}
  /\ Go(r, a, "none")
  /\ \/ UNCHANGED faults /\ Put(a, "failed")
     \/ FaultHappens /\ (UNCHANGED <<quotes, stale>> \/ Put(a, "failed"))
  /\ UNCHANGED <<path, file, loop, shown, cancelled, evictions, bounds>>

-----------------------------------------------------------------------------
(* Around Enrich.                                                          *)

\* JobTimeout or the stop of the worker.
Cancel(r) ==
  /\ cancels < MaxCancels
  /\ pc[r] \notin {"idle", "closed"}
  /\ ~cancelled[r]
  /\ cancels' = cancels + 1
  /\ cancelled' = [cancelled EXCEPT ![r] = TRUE]
  /\ UNCHANGED <<rows, file, loop, work, shown, evictions, faults, crashes>>

\* 15 minutes pass over a claim, hence at least that over its attempt.
Age(a) ==
  /\ quotes[a] = "pending"
  /\ ~stale[a]
  /\ \A r \in Holders(a) : cancelled[r]
  /\ stale' = [stale EXCEPT ![a] = TRUE]
  /\ UNCHANGED <<quotes, path, file, loop, work, shown, cancelled, evictions, faults, bounds>>

\* The process dies: rows and files stay as they are.
Crash ==
  /\ crashes < MaxCrashes
  /\ crashes' = crashes + 1
  /\ pc' = [r \in Runs |-> IF pc[r] = "idle" THEN "idle" ELSE "closed"]
  /\ cancelled' = [r \in Runs |-> pc[r] # "idle"]
  /\ work' = [r \in Runs |-> [a \in Articles |-> "none"]]
  /\ UNCHANGED <<rows, file, at, todo, shown, evictions, faults, cancels>>

Init ==
  /\ quotes = [a \in Articles |-> "none"]
  /\ stale = [a \in Articles |-> FALSE]
  /\ path = [a \in Articles |-> FALSE]
  /\ file = [a \in Articles |-> FALSE]
  /\ pc = [r \in Runs |-> "idle"]
  /\ at = [r \in Runs |-> None]
  /\ todo = [r \in Runs |-> {}]
  /\ work = [r \in Runs |-> [a \in Articles |-> "none"]]
  /\ shown = [r \in Runs |-> {}]
  /\ cancelled = [r \in Runs |-> FALSE]
  /\ evictions = 0
  /\ faults = 0
  /\ cancels = 0
  /\ crashes = 0

Enrich(r) ==
  \/ Visit(r) \/ LoadArticle(r) \/ Claim(r) \/ InsertClaim(r) \/ Wait(r) \/ Close(r)

Goroutine(r, a) ==
  \/ Admit(r, a) \/ Extract(r, a) \/ MarkNoText(r, a)
  \/ Freeze(r, a) \/ Stamp(r, a) \/ MarkFailed(r, a)

Next ==
  \/ \E r \in Runs : Begin(r) \/ Enrich(r) \/ Cancel(r)
  \/ \E r \in Runs, a \in Articles : Goroutine(r, a)
  \/ \E a \in Articles : Age(a)
  \/ Crash

\* The scheduler runs every goroutine, every call and extraction ends (each
\* has a timeout), and time passes.
Fairness ==
  /\ \A r \in Runs : WF_vars(Enrich(r))
  /\ \A r \in Runs, a \in Articles : WF_vars(Goroutine(r, a))
  /\ \A a \in Articles : WF_vars(Age(a))

Spec == Init /\ [][Next]_vars
FairSpec == Spec /\ Fairness

-----------------------------------------------------------------------------
(* Properties.                                                             *)

\* Every variable has the type of what it stands for.
TypeOK ==
  /\ quotes \in [Articles -> QuotesStatuses]
  /\ stale \in [Articles -> BOOLEAN]
  /\ path \in [Articles -> BOOLEAN]
  /\ file \in [Articles -> BOOLEAN]
  /\ pc \in [Runs -> Steps]
  /\ at \in [Runs -> Articles \cup {None}]
  /\ todo \in [Runs -> SUBSET Articles]
  /\ work \in [Runs -> [Articles -> GoSteps]]
  /\ shown \in [Runs -> SUBSET Articles]
  /\ cancelled \in [Runs -> BOOLEAN]
  /\ evictions \in Nat
  /\ faults \in Nat
  /\ cancels \in Nat
  /\ crashes \in Nat

\* A published article is extracted by one goroutine at a time, over all
\* attempts, except for the claims that went stale under a holder that still
\* had not noticed its cancellation (Claim).
ClaimsExclude ==
  \A a \in Published : Cardinality(Holders(a)) <= 1 + evictions

\* A stamped path names a file that exists, and a completed row comes with
\* the path: a crash between the file, the path and the row loses work and
\* never invents it (extractOne, SetDoneFrozen).
FrozenIsBacked ==
  \A a \in Articles :
    /\ path[a] => file[a]
    /\ quotes[a] = "done" => path[a]

\* A preprint leaves neither a row nor a file behind.
PreprintsAreNotKept ==
  \A a \in Articles \ Published : quotes[a] = "none" /\ ~file[a] /\ ~path[a]

\* Enrich returns before its goroutines only when a database call failed it;
\* else the hits that Work stores are not written any more.
GoroutinesAreAwaited ==
  \A r \in Runs :
    pc[r] \in {"returned", "closed"} /\ Running(r) # {} => faults + cancels > 0

\* Quotes that are complete are not taken back: no claim, failure or rerun
\* replaces them, unless a holder was evicted or its own write was cut off.
DoneStays ==
  [][\A a \in Articles :
       quotes[a] = "done" /\ evictions + faults + cancels = 0 => quotes'[a] = "done"]_vars

\* Every call of Enrich comes to its end, and Work goes on.
EnrichEnds == \A r \in Runs : []<>(pc[r] \in {"idle", "closed"})

\* How much went wrong so far, on its own or from outside: one step adds one
\* at most, so that its parity shows that something more did.
Trouble == (faults + cancels + crashes) % 2

\* An attempt is about to claim an article whose claim went stale under a
\* holder that crashed, was cut off or lost its write; no attempt that is cut
\* off already is about to claim it too.
OrphanReached(a) ==
  LET claiming == {r \in Runs : pc[r] \in {"claim", "insert"} /\ at[r] = a}
  IN  /\ quotes[a] = "pending" /\ stale[a]
      /\ \E r \in claiming : pc[r] = "claim"
      /\ \A r \in claiming : ~cancelled[r]

\* No article stays pending for good behind a holder that is gone: the first
\* attempt that reaches it takes the claim over and brings it to an outcome,
\* unless something more fails (Claim, extractOne).
ClaimsResolve ==
  \A a \in Published, t \in {0, 1} :
    OrphanReached(a) /\ Trouble = t
      ~> (quotes[a] \in Claimable \cup {"done"} \/ Trouble # t)

-----------------------------------------------------------------------------
(* The inductive invariant behind the theorems of QuoteExtraction_proofs.  *)

\* Who may write what: only a published article is claimed, marked or saved,
\* and its path is stamped after its file is there.
WritersInv ==
  \A r \in Runs :
    /\ pc[r] = "load" => at[r] \in Articles
    /\ pc[r] \in {"claim", "insert"} => at[r] \in Published
    /\ \A a \in Articles :
         /\ work[r][a] \notin {"none", "queued", "extracting"} => a \in Published
         /\ work[r][a] = "stamping" => file[a]

\* Conjunction of what every step preserves together.
ExtractionInv ==
  TypeOK /\ FrozenIsBacked /\ PreprintsAreNotKept /\ WritersInv
=============================================================================
