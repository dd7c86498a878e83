---------------------------- MODULE BrowserFetch ----------------------------
(***************************************************************************)
(* Calls of the connectors' transports: Transport asks a provider itself,  *)
(* BrowserTransport asks the browser sidecar, whose handlers share a       *)
(* browser and two pools of PDF work (transport.go; browser_pool.py and    *)
(* main.py of the sidecar).                                                *)
(*                                                                         *)
(* A handler does not notice that its client has given up: it goes on      *)
(* until it ends or its own deadline passes.  Time passes in ticks, and no *)
(* timer that is due is passed over; a back-off takes any time.            *)
(*                                                                         *)
(* Abstracted: the contents of requests and answers.  Of an answer the     *)
(* model keeps what the transports tell apart.                             *)
(***************************************************************************)
EXTENDS Integers, FiniteSets

CONSTANTS
  Callers,      \* goroutines, each with one call
  Wanted,       \* [Callers -> the operations that it may call]
  MaxAttempts,  \* requests of a call
  Patience,     \* ticks until the client of the sidecar times out
  Deadline,     \* [SidecarOps -> ticks until a handler times out]
  Capacity,     \* [Pools -> handlers that a pool lets work]
  MaxFaults     \* bound: crashes of the sidecar and of its browser

DirectOps == {"json", "form", "text"}
PageOps == {"fetch", "screenshot"}
SidecarOps == PageOps \cup {"pdftext", "pdfpages"}
Ops == DirectOps \cup SidecarOps
Pools == {"browser", "pdftext", "pdfpages"}
Attempts == 1..MaxAttempts
Requests == Callers \X Attempts

ASSUME FetchAssumption ==
  /\ Wanted \in [Callers -> SUBSET Ops]
  /\ MaxAttempts \in Nat \ {0}
  /\ Patience \in Nat \ {0}
  /\ Deadline \in [SidecarOps -> Nat \ {0}]
  /\ Capacity \in [Pools -> Nat \ {0}]
  /\ MaxFaults \in Nat

VARIABLES
  op,           \* [Callers -> the operation called]
  pc,           \* [Callers -> where the call is]
  attempt,      \* [Callers -> attempt]
  waited,       \* [Callers -> ticks since the request was sent]
  result,       \* [Callers -> how the call has ended]
  cancelled,    \* callers whose context is done
  work,         \* [Requests -> the handler of a request]
  age,          \* [Requests -> ticks on the timer of the handler]
  sidecar,      \* its process: up or down
  browser,      \* its browser: up or dead
  faults        \* faults so far

client == <<op, pc, attempt, waited, result, cancelled>>
handlers == <<work, age>>
process == <<sidecar, browser, faults>>
vars == <<client, handlers, process>>

Init ==
  /\ op = [c \in Callers |-> "none"]
  /\ pc = [c \in Callers |-> "begin"]
  /\ attempt = [c \in Callers |-> 1]
  /\ waited = [c \in Callers |-> 0]
  /\ result = [c \in Callers |-> "open"]
  /\ cancelled = {}
  /\ work = [k \in Requests |-> "off"]
  /\ age = [k \in Requests |-> 0]
  /\ sidecar = "up"
  /\ browser = "up"
  /\ faults = 0

-----------------------------------------------------------------------------
(* The client: attempts until one succeeds, is refused, or was the last.   *)

\* What a request comes to: a good answer, an error status of the server
\* asked or of the site behind the sidecar, a gateway status, a body that
\* does not decode, a failure of the connection.
Answers == {"ok", "status", "upstream", "gateway", "garbled", "lost"}

\* Failures that end a call at once; the others are retried.
Refusals == [
  json |-> {"status", "gateway", "garbled"},
  form |-> {"status", "gateway", "garbled"},
  text |-> {"status", "gateway"},
  fetch |-> {"status", "upstream"},
  screenshot |-> {"status", "upstream", "garbled"},
  pdftext |-> {"status", "garbled"},
  pdfpages |-> {"status"}]

Goto(c, p) == pc' = [pc EXCEPT ![c] = p]

Begin(c) ==
  /\ pc[c] = "begin"
  /\ \E o \in Wanted[c] : op' = [op EXCEPT ![c] = o]
  /\ Goto(c, "send")
  /\ UNCHANGED <<attempt, waited, result, cancelled, handlers, process>>

End(c, how) ==
  /\ Goto(c, "done")
  /\ result' = [result EXCEPT ![c] = how]

RetriesLeft(c) == attempt[c] < MaxAttempts

SettleRetried(c, answer) ==
  /\ \/ answer = "ok" /\ End(c, "answered")
     \/ /\ answer # "ok"
        /\ \/ RetriesLeft(c) /\ Goto(c, "backoff")
           \/ ~RetriesLeft(c) /\ Goto(c, "done")
        /\ result' = [result EXCEPT ![c] =
             IF answer \in Refusals[op[c]] THEN "refused"
             ELSE IF RetriesLeft(c) THEN "open" ELSE "failed"]
  /\ waited' = [waited EXCEPT ![c] = 0]
  /\ UNCHANGED <<op, attempt, cancelled>>

\* The request has come to an end.
Settle(c, answer) ==
  /\ \/ answer = "ok" /\ End(c, "answered")
     \/ answer \in Refusals[op[c]] /\ End(c, "refused")
     \/ /\ answer \notin Refusals[op[c]] \cup {"ok"}
        /\ \/ RetriesLeft(c) /\ Goto(c, "backoff") /\ UNCHANGED result
           \/ ~RetriesLeft(c) /\ End(c, "failed")
  /\ waited' = [waited EXCEPT ![c] = 0]
  /\ UNCHANGED <<op, attempt, cancelled>>

Current(c) == <<c, attempt[c]>>

\* Nothing is sent on a context that is done or to a sidecar that is down.
Reachable(c) == c \notin cancelled /\ (op[c] \in DirectOps \/ sidecar = "up")

SendUnreachable(c) ==
  /\ pc[c] = "send" /\ ~Reachable(c)
  /\ Settle(c, "lost")
  /\ UNCHANGED <<handlers, process>>

\* Requests that do not validate are answered at once.
Send(c) ==
  /\ pc[c] = "send" /\ Reachable(c)
  /\ \/ /\ Goto(c, "wait")
        /\ IF op[c] \in DirectOps THEN UNCHANGED handlers
           ELSE /\ work' = [work EXCEPT ![Current(c)] = "queued"]
                /\ age' = [age EXCEPT ![Current(c)] = 0]
        /\ UNCHANGED <<op, attempt, waited, result, cancelled>>
     \/ op[c] \in SidecarOps /\ Settle(c, "status") /\ UNCHANGED handlers
  /\ UNCHANGED process

\* The provider answers, or the connection to it fails or times out.
AnswerDirect(c) ==
  /\ pc[c] = "wait" /\ op[c] \in DirectOps
  /\ \E a \in {"ok", "status", "gateway", "lost"}
              \cup (IF op[c] = "text" THEN {} ELSE {"garbled"}) :
       Settle(c, a)
  /\ UNCHANGED <<handlers, process>>

\* The client times out, its context ends, or the sidecar is gone.
Lose(c) ==
  /\ pc[c] = "wait"
  /\ \/ c \in cancelled
     \/ op[c] \in SidecarOps /\ waited[c] = Patience
     \/ op[c] \in SidecarOps /\ work[Current(c)] = "off"
  /\ Settle(c, "lost")
  /\ UNCHANGED <<handlers, process>>

Retry(c) ==
  /\ pc[c] = "backoff"
  /\ attempt' = [attempt EXCEPT ![c] = @ + 1]
  /\ Goto(c, "send")
  /\ UNCHANGED <<op, waited, result, cancelled, handlers, process>>

GiveUp(c) ==
  /\ pc[c] = "backoff" /\ c \in cancelled
  /\ End(c, "failed")
  /\ UNCHANGED <<op, attempt, waited, cancelled, handlers, process>>

Cancel(c) ==
  /\ c \notin cancelled /\ pc[c] # "done"
  /\ cancelled' = cancelled \cup {c}
  /\ UNCHANGED <<op, pc, attempt, waited, result, handlers, process>>

-----------------------------------------------------------------------------
(* The sidecar.  k is a request: <<caller, attempt>>.                      *)

OpOf(k) == op[k[1]]
PoolOf(o) == IF o \in PageOps THEN "browser" ELSE o
Alive(k) == work[k] \in {"queued", "working"}
Working(p) == {k \in Requests : work[k] = "working" /\ PoolOf(OpOf(k)) = p}

\* The answer is read by a client that still waits for this request.
Awaited(k) == pc[k[1]] = "wait" /\ k = Current(k[1])

Reply(k, answer) ==
  IF Awaited(k) THEN Settle(k[1], answer) ELSE UNCHANGED client

\* A handler that ends gives its slot back.
Leave(k, state) ==
  /\ work' = [work EXCEPT ![k] = state]
  /\ age' = [age EXCEPT ![k] = 0]

\* The context of a browser that died stays set: opening a page on it fails
\* with an error that is no gateway status.
TakeSlot(k) ==
  /\ work[k] = "queued"
  /\ Cardinality(Working(PoolOf(OpOf(k)))) < Capacity[PoolOf(OpOf(k))]
  /\ IF OpOf(k) \in PageOps /\ browser = "dead"
     THEN Reply(k, "status") /\ Leave(k, "off")
     ELSE work' = [work EXCEPT ![k] = "working"] /\ UNCHANGED <<client, age>>
  /\ UNCHANGED process

\* Navigation is best effort; the fetch in the page decides.
FinishPage(k) ==
  /\ work[k] = "working" /\ OpOf(k) \in PageOps
  /\ \E a \in IF browser = "dead" THEN {"gateway", "status"}
              ELSE {"ok", "gateway", "garbled"}
                   \cup (IF OpOf(k) = "fetch" THEN {"upstream"} ELSE {}) :
       Reply(k, a)
  /\ Leave(k, "off")
  /\ UNCHANGED process

FinishPdf(k) ==
  /\ work[k] = "working" /\ OpOf(k) \in {"pdftext", "pdfpages"}
  /\ \E a \in {"ok"} \cup (IF OpOf(k) = "pdfpages" THEN {"garbled"} ELSE {}) :
       Reply(k, a)
  /\ Leave(k, "off")
  /\ UNCHANGED process

TimedWork(k) == OpOf(k) # "pdfpages" /\ work[k] = "working"

TimedPages(k) == OpOf(k) \in PageOps /\ Alive(k)

\* Handlers on the browser are timed while they wait for their slot too;
\* those of PDF text from their slot on, those of PDF pages not at all.
Timed(k) ==
  \/ OpOf(k) \in PageOps /\ Alive(k)
  \/ OpOf(k) = "pdftext" /\ work[k] = "working"

Due(k) == Timed(k) /\ age[k] = Deadline[OpOf(k)]

\* The thread that extracts text cannot be stopped: it goes on without a slot.
Expire(k) ==
  /\ Due(k)
  /\ Reply(k, "gateway")
  /\ Leave(k, IF OpOf(k) = "pdftext" THEN "detached" ELSE "off")
  /\ UNCHANGED process

EndThread(k) ==
  /\ work[k] = "detached"
  /\ Leave(k, "off")
  /\ UNCHANGED <<client, process>>

BrowserDies ==
  /\ sidecar = "up" /\ browser = "up" /\ faults < MaxFaults
  /\ browser' = "dead"
  /\ faults' = faults + 1
  /\ UNCHANGED <<client, handlers, sidecar>>

Crash ==
  /\ sidecar = "up" /\ faults < MaxFaults
  /\ sidecar' = "down"
  /\ work' = [k \in Requests |-> "off"]
  /\ age' = [k \in Requests |-> 0]
  /\ faults' = faults + 1
  /\ UNCHANGED <<client, browser>>

\* Starting up opens the browser.
Restart ==
  /\ sidecar = "down"
  /\ sidecar' = "up"
  /\ browser' = "up"
  /\ UNCHANGED <<client, handlers, faults>>

-----------------------------------------------------------------------------

Waiting(c) == pc[c] = "wait" /\ op[c] \in SidecarOps

\* Every timer that is due goes off before time passes.
Tick ==
  /\ \A k \in Requests : ~Due(k)
  /\ \A c \in Callers : Waiting(c) => waited[c] < Patience
  /\ (\E c \in Callers : Waiting(c)) \/ (\E k \in Requests : Timed(k))
  /\ waited' = [c \in Callers |-> IF Waiting(c) THEN waited[c] + 1 ELSE waited[c]]
  /\ age' = [k \in Requests |-> IF Timed(k) THEN age[k] + 1 ELSE age[k]]
  /\ UNCHANGED <<op, pc, attempt, result, cancelled, work, process>>

ClientStep(c) ==
  \/ Begin(c) \/ SendUnreachable(c) \/ Send(c) \/ Lose(c) \/ Retry(c) \/ GiveUp(c)

HandlerStep(k) ==
  TakeSlot(k) \/ FinishPage(k) \/ FinishPdf(k) \/ Expire(k) \/ EndThread(k)

\* Every call has ended and nothing is left to do.
Ended ==
  /\ \A c \in Callers : pc[c] = "done"
  /\ UNCHANGED vars

Next ==
  \/ \E c \in Callers : ClientStep(c) \/ AnswerDirect(c) \/ Cancel(c)
  \/ \E k \in Requests : HandlerStep(k)
  \/ BrowserDies \/ Crash \/ Restart \/ Tick \/ Ended

\* Clients run, timers go off and free slots are taken.  Nothing makes a site
\* answer, an extraction end or the sidecar restart; a provider asked without
\* the sidecar is given up after the 25 seconds of its client.
Fairness ==
  /\ WF_vars(Tick)
  /\ \A c \in Callers : WF_vars(ClientStep(c) \/ AnswerDirect(c))
  /\ \A k \in Requests : WF_vars(TakeSlot(k) \/ Expire(k))

Spec == Init /\ [][Next]_vars /\ Fairness

-----------------------------------------------------------------------------
(* Properties.                                                             *)

\* Types of the variables; no timer runs past its end.
TypeOK ==
  /\ op \in [Callers -> Ops \cup {"none"}]
  /\ pc \in [Callers -> {"begin", "send", "wait", "backoff", "done"}]
  /\ attempt \in [Callers -> Attempts]
  /\ waited \in [Callers -> 0..Patience]
  /\ result \in [Callers -> {"open", "answered", "refused", "failed"}]
  /\ cancelled \subseteq Callers
  /\ work \in [Requests -> {"off", "queued", "working", "detached"}]
  /\ age \in [Requests -> Nat]
  /\ \A k \in Requests : Timed(k) => age[k] <= Deadline[OpOf(k)]
  /\ sidecar \in {"up", "down"}
  /\ browser \in {"up", "dead"}
  /\ faults \in 0..MaxFaults

\* The sidecar works in its browser for a client that waits: no client times
\* out first and sends its next attempt next to the handler of the last one.
\* Only clients that left because their context ended leave handlers behind.
HandlersAreAwaited ==
  \A k \in Requests :
    Alive(k) /\ OpOf(k) \in PageOps /\ k[1] \notin cancelled => Awaited(k)

\* Requests that a call has made.
Asked(c) == IF pc[c] \in {"begin", "send", "wait"} THEN attempt[c] - 1 ELSE attempt[c]

Call == INSTANCE BoundedCall WITH
  Callers <- Callers,
  Limit <- MaxAttempts,
  left <- [c \in Callers |-> MaxAttempts - Asked(c)],
  outcome <- result

\* Of all operations: a call makes at most MaxAttempts requests, whatever
\* fails, and none after a failure that no retry can change.
ImplementsBoundedCall == Call!Spec

\* A slot comes back although the site never answers, the client is gone or
\* the work in a thread cannot be stopped.
SlotsComeBack ==
  \A k \in Requests :
    Alive(k) /\ OpOf(k) # "pdfpages" ~> ~Alive(k)

-----------------------------------------------------------------------------
(* The inductive invariants behind the theorems of BrowserFetch_proofs.    *)

ClientInv ==
  \A c \in Callers :
    /\ pc[c] = "begin" <=> op[c] = "none"
    /\ pc[c] = "done" <=> result[c] # "open"
    /\ pc[c] = "backoff" => RetriesLeft(c)
    /\ pc[c] # "wait" => waited[c] = 0

WorkInv ==
  \A k \in Requests :
    /\ work[k] # "off" => OpOf(k) \in SidecarOps
    /\ work[k] = "detached" => OpOf(k) = "pdftext"
    /\ ~Timed(k) => age[k] = 0

FetchInv == TypeOK /\ ClientInv /\ WorkInv

\* The limits are nested: handlers on the browser end before their clients do.
Budget == \A o \in PageOps : Deadline[o] < Patience

\* What makes it so: both timers have run for the same time.
BudgetInv ==
  \A k \in Requests :
    Alive(k) /\ OpOf(k) \in PageOps /\ k[1] \notin cancelled =>
      Awaited(k) /\ age[k] = waited[k[1]]
=============================================================================
