------------------------ MODULE BrowserFetch_proofs ------------------------
(***************************************************************************)
(* Theorems about BrowserFetch, for any number of callers, attempts and    *)
(* slots and any limits.  The types and what is known of clients and       *)
(* handlers (FetchInv) come first; that no handler on the browser is       *)
(* abandoned (BudgetInv) needs the limits to be nested.                    *)
(***************************************************************************)
EXTENDS BrowserFetch, TLAPS

-----------------------------------------------------------------------------
(* The ways in which a step may change a client.                           *)

LEMMA Bounds ==
  /\ MaxAttempts \in Nat /\ MaxAttempts >= 1
  /\ Patience \in Nat /\ Patience >= 1
  /\ MaxFaults \in Nat
  /\ \A o \in SidecarOps : Deadline[o] \in Nat /\ Deadline[o] >= 1
BY FetchAssumption

LEMMA RequestParts ==
  \A k \in Requests : k[1] \in Callers /\ k[2] \in Attempts /\ k = <<k[1], k[2]>>
BY DEF Requests

\* The other callers keep what they have.
Kept(c) ==
  \A d \in Callers \ {c} :
    /\ op'[d] = op[d] /\ pc'[d] = pc[d] /\ attempt'[d] = attempt[d]
    /\ waited'[d] = waited[d] /\ result'[d] = result[d]

ClientTypes ==
  /\ op \in [Callers -> Ops \cup {"none"}]
  /\ pc \in [Callers -> {"begin", "send", "wait", "backoff", "done"}]
  /\ attempt \in [Callers -> Attempts]
  /\ waited \in [Callers -> 0..Patience]
  /\ result \in [Callers -> {"open", "answered", "refused", "failed"}]
  /\ cancelled \subseteq Callers

WorkTypes ==
  /\ work \in [Requests -> {"off", "queued", "working", "detached"}]
  /\ age \in [Requests -> Nat]

ProcessTypes ==
  /\ sidecar \in {"up", "down"}
  /\ browser \in {"up", "dead"}
  /\ faults \in 0..MaxFaults

AgeInv == \A k \in Requests : Timed(k) => age[k] <= Deadline[OpOf(k)]

LEMMA Parts == TypeOK <=> ClientTypes /\ WorkTypes /\ ProcessTypes /\ AgeInv
BY DEF TypeOK, ClientTypes, WorkTypes, ProcessTypes, AgeInv

LEMMA Assembled ==
  ASSUME FetchInv, UNCHANGED process,
         ClientTypes', ClientInv', WorkTypes', AgeInv', WorkInv'
  PROVE  FetchInv'
<1>1. (TypeOK <=> ClientTypes /\ WorkTypes /\ ProcessTypes /\ AgeInv)'
  BY Parts, PTL
<1>2. ProcessTypes'
  BY Parts DEF FetchInv, process, ProcessTypes
<1> QED BY <1>1, <1>2 DEF FetchInv

LEMMA Settled ==
  ASSUME FetchInv, NEW c \in Callers, NEW a, pc[c] \in {"send", "wait"}, Settle(c, a)
  PROVE  /\ ClientTypes' /\ ClientInv' /\ Kept(c)
         /\ op' = op /\ attempt' = attempt /\ cancelled' = cancelled
         /\ pc'[c] \in {"backoff", "done"}
<1> USE DEF FetchInv, TypeOK, ClientTypes
<1>1. /\ op' = op /\ attempt' = attempt /\ cancelled' = cancelled
      /\ waited' = [waited EXCEPT ![c] = 0]
  BY DEF Settle
<1>2. \/ /\ pc' = [pc EXCEPT ![c] = "backoff"] /\ result' = result /\ RetriesLeft(c)
      \/ \E how \in {"answered", "refused", "failed"} :
           /\ pc' = [pc EXCEPT ![c] = "done"]
           /\ result' = [result EXCEPT ![c] = how]
  BY DEF Settle, End, Goto
<1>3. 0 \in 0..Patience
  BY Bounds
<1>4. ClientTypes'
  BY <1>1, <1>2, <1>3
<1>5. Kept(c) /\ pc'[c] \in {"backoff", "done"} /\ waited'[c] = 0
  BY <1>1, <1>2, <1>3 DEF Kept
<1>6. result[c] = "open" /\ op[c] # "none"
  BY DEF ClientInv
<1>7. /\ pc'[c] = "done" <=> result'[c] # "open"
      /\ pc'[c] = "backoff" => RetriesLeft(c)
  BY <1>2, <1>6
<1>8. ClientInv'
  <2> SUFFICES ASSUME NEW d \in Callers
               PROVE  /\ pc'[d] = "begin" <=> op'[d] = "none"
                      /\ pc'[d] = "done" <=> result'[d] # "open"
                      /\ pc'[d] = "backoff" => attempt'[d] < MaxAttempts
                      /\ pc'[d] # "wait" => waited'[d] = 0
    BY DEF ClientInv, RetriesLeft
  <2>1. CASE d = c
    BY <1>1, <1>5, <1>6, <1>7, <2>1 DEF RetriesLeft
  <2>2. CASE d # c
    BY <1>5, <2>2 DEF Kept, ClientInv, RetriesLeft
  <2> QED BY <2>1, <2>2
<1> QED BY <1>1, <1>4, <1>5, <1>8

\* Steps that change one client and no handler.
LEMMA ClientOnly ==
  ASSUME FetchInv, NEW c \in Callers,
         \/ Begin(c) \/ SendUnreachable(c) \/ AnswerDirect(c) \/ Lose(c)
         \/ Retry(c) \/ GiveUp(c) \/ Cancel(c)
         \/ (pc[c] = "send" /\ Settle(c, "status") /\ UNCHANGED <<handlers, process>>)
  PROVE  ClientTypes' /\ ClientInv' /\ UNCHANGED <<handlers, process>>
<1> USE DEF FetchInv, TypeOK, ClientTypes
<1>1. CASE Begin(c)
  <2>1. PICK o \in Wanted[c] : op' = [op EXCEPT ![c] = o]
    BY <1>1 DEF Begin
  <2>2. o \in Ops
    BY FetchAssumption
  <2>3. /\ pc' = [pc EXCEPT ![c] = "send"] /\ pc[c] = "begin"
        /\ UNCHANGED <<attempt, waited, result, cancelled, handlers, process>>
    BY <1>1 DEF Begin, Goto
  <2>4. ClientTypes'
    BY <2>1, <2>2, <2>3
  <2>5. o # "none"
    BY <2>2 DEF Ops, DirectOps, SidecarOps, PageOps
  <2>6. ClientInv'
    BY <2>1, <2>3, <2>5 DEF ClientInv, RetriesLeft
  <2> QED BY <2>3, <2>4, <2>6
<1>2. CASE \/ SendUnreachable(c) \/ AnswerDirect(c) \/ Lose(c)
           \/ (pc[c] = "send" /\ Settle(c, "status") /\ UNCHANGED <<handlers, process>>)
  <2>1. /\ pc[c] \in {"send", "wait"} /\ UNCHANGED <<handlers, process>>
        /\ \E a : Settle(c, a)
    BY <1>2 DEF SendUnreachable, AnswerDirect, Lose
  <2> QED BY <2>1, Settled
<1>3. CASE Retry(c)
  <2>1. /\ attempt' = [attempt EXCEPT ![c] = @ + 1] /\ pc' = [pc EXCEPT ![c] = "send"]
        /\ pc[c] = "backoff" /\ UNCHANGED <<op, waited, result, cancelled, handlers, process>>
    BY <1>3 DEF Retry, Goto
  <2>2. attempt[c] + 1 \in Attempts
    BY <2>1, Bounds DEF ClientInv, RetriesLeft, Attempts
  <2>3. ClientTypes'
    BY <2>1, <2>2
  <2>4. ClientInv'
    BY <2>1 DEF ClientInv, RetriesLeft
  <2> QED BY <2>1, <2>3, <2>4
<1>4. CASE GiveUp(c)
  <2>1. /\ result' = [result EXCEPT ![c] = "failed"] /\ pc' = [pc EXCEPT ![c] = "done"]
        /\ pc[c] = "backoff" /\ UNCHANGED <<op, attempt, waited, cancelled, handlers, process>>
    BY <1>4 DEF GiveUp, End, Goto
  <2>2. ClientTypes'
    BY <2>1
  <2>3. ClientInv'
    BY <2>1 DEF ClientInv, RetriesLeft
  <2> QED BY <2>1, <2>2, <2>3
<1>5. CASE Cancel(c)
  BY <1>5 DEF Cancel, ClientInv, RetriesLeft
<1> QED BY <1>1, <1>2, <1>3, <1>4, <1>5

\* An answer is read, or there is nobody to read it.
LEMMA Replied ==
  ASSUME FetchInv, NEW k \in Requests, NEW a, Reply(k, a)
  PROVE  /\ ClientTypes' /\ ClientInv' /\ Kept(k[1])
         /\ op' = op /\ attempt' = attempt /\ cancelled' = cancelled
         /\ Awaited(k) => pc'[k[1]] \in {"backoff", "done"}
         /\ ~Awaited(k) => UNCHANGED client
<1>1. k[1] \in Callers
  BY RequestParts
<1>2. CASE Awaited(k)
  BY <1>1, <1>2, Settled DEF Reply, Awaited
<1>3. CASE ~Awaited(k)
  BY <1>3 DEF Reply, client, FetchInv, TypeOK, ClientTypes, ClientInv, RetriesLeft, Kept
<1> QED BY <1>2, <1>3

-----------------------------------------------------------------------------
(* Handlers.                                                               *)

\* A step that changes one handler and leaves its timer within its limit.
LEMMA OneHandler ==
  ASSUME FetchInv, NEW k \in Requests, op' = op,
         NEW w \in {"off", "queued", "working", "detached"}, NEW n \in Nat,
         work' = [work EXCEPT ![k] = w], age' = [age EXCEPT ![k] = n],
         w # "off" => OpOf(k) \in SidecarOps,
         w = "detached" => OpOf(k) = "pdftext",
         n = 0
  PROVE  WorkTypes' /\ AgeInv' /\ WorkInv'
<1> USE DEF FetchInv, TypeOK, WorkTypes
<1>1. WorkTypes'
  OBVIOUS
<1>2. ASSUME NEW j \in Requests, j # k
      PROVE  /\ work'[j] = work[j] /\ age'[j] = age[j]
             /\ OpOf(j)' = OpOf(j) /\ Timed(j)' = Timed(j)
  BY <1>2 DEF OpOf, Timed, Alive
<1>3. work'[k] = w /\ age'[k] = 0 /\ OpOf(k)' = OpOf(k)
  BY DEF OpOf
<1>4. WorkInv'
  <2> SUFFICES ASSUME NEW j \in Requests
               PROVE  /\ work'[j] # "off" => OpOf(j)' \in SidecarOps
                      /\ work'[j] = "detached" => OpOf(j)' = "pdftext"
                      /\ ~Timed(j)' => age'[j] = 0
    BY DEF WorkInv
  <2> QED BY <1>2, <1>3 DEF WorkInv
<1>5. AgeInv'
  <2> SUFFICES ASSUME NEW j \in Requests, Timed(j)'
               PROVE  age'[j] <= Deadline[OpOf(j)']
    BY DEF AgeInv
  <2>1. CASE j = k
    <3>1. OpOf(k) \in SidecarOps
      BY <1>3, <2>1 DEF Timed, SidecarOps
    <3> QED BY <1>3, <2>1, <3>1, Bounds
  <2>2. CASE j # k
    BY <1>2, <2>2
  <2> QED BY <2>1, <2>2
<1> QED BY <1>1, <1>4, <1>5

\* A slot is taken: the timer goes on if it ran, and starts if it did not.
LEMMA SlotTaken ==
  ASSUME FetchInv, NEW k \in Requests, work[k] = "queued",
         work' = [work EXCEPT ![k] = "working"], UNCHANGED <<op, age>>
  PROVE  WorkTypes' /\ AgeInv' /\ WorkInv'
<1> USE DEF FetchInv, TypeOK, WorkTypes
<1>1. WorkTypes'
  OBVIOUS
<1>2. ASSUME NEW j \in Requests, j # k
      PROVE  work'[j] = work[j] /\ OpOf(j)' = OpOf(j) /\ Timed(j)' = Timed(j)
  BY <1>2 DEF OpOf, Timed, Alive
<1>3. work'[k] = "working" /\ OpOf(k)' = OpOf(k) /\ OpOf(k) \in SidecarOps
  BY DEF OpOf, WorkInv
<1>4. age[k] <= Deadline[OpOf(k)]
  <2>1. CASE Timed(k)
    BY <2>1
  <2>2. CASE ~Timed(k)
    BY <2>2, <1>3, Bounds DEF WorkInv
  <2> QED BY <2>1, <2>2
<1>5. ~Timed(k)' => age[k] = 0
  BY <1>3 DEF WorkInv, Timed, Alive
<1>6. WorkInv'
  <2> SUFFICES ASSUME NEW j \in Requests
               PROVE  /\ work'[j] # "off" => OpOf(j)' \in SidecarOps
                      /\ work'[j] = "detached" => OpOf(j)' = "pdftext"
                      /\ ~Timed(j)' => age'[j] = 0
    BY DEF WorkInv
  <2>1. CASE j = k
    BY <1>3, <1>5, <2>1
  <2>2. CASE j # k
    BY <1>2, <2>2 DEF WorkInv
  <2> QED BY <2>1, <2>2
<1>7. AgeInv'
  <2> SUFFICES ASSUME NEW j \in Requests, Timed(j)'
               PROVE  age[j] <= Deadline[OpOf(j)']
    BY DEF AgeInv
  <2>1. CASE j = k
    BY <1>3, <1>4, <2>1
  <2>2. CASE j # k
    BY <1>2, <2>2
  <2> QED BY <2>1, <2>2
<1> QED BY <1>1, <1>6, <1>7

LEMMA HandlerInv ==
  ASSUME FetchInv, NEW k \in Requests, HandlerStep(k)
  PROVE  FetchInv'
<1> SUFFICES ClientTypes' /\ ClientInv' /\ WorkTypes' /\ AgeInv' /\ WorkInv'
             /\ UNCHANGED process
  BY Assembled
<1>1. ASSUME NEW a, NEW w \in {"off", "detached"}, Reply(k, a), Leave(k, w),
             w = "detached" => OpOf(k) = "pdftext"
      PROVE  ClientTypes' /\ ClientInv' /\ WorkTypes' /\ AgeInv' /\ WorkInv'
  <2>1. ClientTypes' /\ ClientInv' /\ op' = op
    BY <1>1, Replied
  <2>2. w # "off" => OpOf(k) \in SidecarOps
    BY <1>1 DEF SidecarOps
  <2> QED BY <1>1, <2>1, <2>2, OneHandler DEF Leave
<1>2. CASE TakeSlot(k)
  <2>1. CASE Reply(k, "status") /\ Leave(k, "off")
    BY <1>1, <1>2, <2>1 DEF TakeSlot
  <2>2. CASE work' = [work EXCEPT ![k] = "working"] /\ UNCHANGED <<client, age>>
    <3>1. work[k] = "queued" /\ UNCHANGED process
      BY <1>2 DEF TakeSlot
    <3>2. WorkTypes' /\ AgeInv' /\ WorkInv'
      BY <2>2, <3>1, SlotTaken DEF client
    <3>3. ClientTypes' /\ ClientInv'
      BY <2>2 DEF client, FetchInv, TypeOK, ClientTypes, ClientInv, RetriesLeft
    <3> QED BY <3>1, <3>2, <3>3
  <2> QED BY <1>2, <2>1, <2>2 DEF TakeSlot
<1>3. CASE FinishPage(k) \/ FinishPdf(k)
  <2>1. (\E a : Reply(k, a)) /\ Leave(k, "off") /\ UNCHANGED process
    BY <1>3 DEF FinishPage, FinishPdf
  <2> QED BY <1>1, <2>1
<1>4. CASE Expire(k)
  <2>1. /\ Reply(k, "gateway") /\ UNCHANGED process
        /\ Leave(k, IF OpOf(k) = "pdftext" THEN "detached" ELSE "off")
    BY <1>4 DEF Expire
  <2> QED BY <1>1, <2>1
<1>5. CASE EndThread(k)
  <2>1. UNCHANGED <<client, process>> /\ Leave(k, "off")
    BY <1>5 DEF EndThread
  <2>2. WorkTypes' /\ AgeInv' /\ WorkInv'
    BY <2>1, OneHandler DEF Leave, client
  <2>3. ClientTypes' /\ ClientInv'
    BY <2>1 DEF client, FetchInv, TypeOK, ClientTypes, ClientInv, RetriesLeft
  <2> QED BY <2>1, <2>2, <2>3
<1> QED BY <1>2, <1>3, <1>4, <1>5 DEF HandlerStep

\* A handler's timer and place read its operation: without a change of either
\* they stay as they are.
LEMMA HandlersKept ==
  ASSUME FetchInv, UNCHANGED handlers,
         \A k \in Requests : work[k] # "off" => OpOf(k)' = OpOf(k)
  PROVE  WorkTypes' /\ AgeInv' /\ WorkInv'
<1> USE DEF FetchInv, TypeOK, WorkTypes, handlers
<1>1. WorkTypes'
  OBVIOUS
<1>2. ASSUME NEW k \in Requests
      PROVE  /\ work[k] # "off" => OpOf(k)' = OpOf(k) /\ Timed(k)' = Timed(k)
             /\ work[k] = "off" => ~Timed(k) /\ ~Timed(k)'
  BY DEF Timed, Alive
<1>3. WorkInv'
  BY <1>2 DEF WorkInv
<1>4. AgeInv'
  BY <1>2 DEF AgeInv
<1> QED BY <1>1, <1>3, <1>4

LEMMA ClientStepInv ==
  ASSUME FetchInv, NEW c \in Callers, ClientStep(c) \/ AnswerDirect(c) \/ Cancel(c)
  PROVE  FetchInv'
<1> USE DEF FetchInv, TypeOK
<1>1. CASE \/ Begin(c) \/ SendUnreachable(c) \/ AnswerDirect(c) \/ Lose(c)
           \/ Retry(c) \/ GiveUp(c) \/ Cancel(c)
           \/ (pc[c] = "send" /\ Settle(c, "status") /\ UNCHANGED <<handlers, process>>)
  <2>1. ClientTypes' /\ ClientInv' /\ UNCHANGED <<handlers, process>>
    BY <1>1, ClientOnly
  <2>2. \A k \in Requests : work[k] # "off" => OpOf(k)' = OpOf(k)
    <3>1. CASE Begin(c)
      <4>1. op[c] = "none" /\ \A d \in Callers \ {c} : op'[d] = op[d]
        BY <3>1 DEF Begin, ClientInv
      <4>2. "none" \notin SidecarOps
        BY DEF SidecarOps, PageOps
      <4> QED BY <4>1, <4>2, RequestParts DEF WorkInv, OpOf
    <3>2. CASE ~Begin(c)
      <4>1. op' = op
        BY <1>1, <3>2 DEF SendUnreachable, AnswerDirect, Lose, Retry, GiveUp, Cancel, Settle
      <4> QED BY <4>1 DEF OpOf
    <3> QED BY <3>1, <3>2
  <2>3. WorkTypes' /\ AgeInv' /\ WorkInv'
    BY <2>1, <2>2, HandlersKept
  <2> QED BY <2>1, <2>3, Assembled
<1>2. CASE Send(c) /\ ~(Settle(c, "status") /\ UNCHANGED <<handlers, process>>)
  <2>1. /\ pc[c] = "send" /\ pc' = [pc EXCEPT ![c] = "wait"]
        /\ UNCHANGED <<op, attempt, waited, result, cancelled, process>>
        /\ IF op[c] \in DirectOps THEN UNCHANGED handlers
           ELSE /\ work' = [work EXCEPT ![Current(c)] = "queued"]
                /\ age' = [age EXCEPT ![Current(c)] = 0]
    BY <1>2 DEF Send, Goto
  <2>2. ClientTypes' /\ ClientInv'
    BY <2>1 DEF ClientTypes, ClientInv, RetriesLeft
  <2>3. CASE op[c] \in DirectOps
    <3>1. UNCHANGED handlers /\ \A k \in Requests : OpOf(k)' = OpOf(k)
      BY <2>1, <2>3 DEF OpOf
    <3>2. WorkTypes' /\ AgeInv' /\ WorkInv'
      BY <3>1, HandlersKept
    <3> QED BY <2>1, <2>2, <3>2, Assembled
  <2>4. CASE op[c] \notin DirectOps
    <3>1. op[c] \in SidecarOps /\ Current(c) \in Requests
      BY <2>1, <2>4 DEF ClientInv, Ops, Current, Requests
    <3>2. OpOf(Current(c)) = op[c]
      BY DEF OpOf, Current
    <3>3. WorkTypes' /\ AgeInv' /\ WorkInv'
      BY <2>1, <2>4, <3>1, <3>2, OneHandler
    <3> QED BY <2>1, <2>2, <3>3, Assembled
  <2> QED BY <2>3, <2>4
<1> QED BY <1>1, <1>2 DEF ClientStep, Send

LEMMA ProcessInv ==
  ASSUME FetchInv, BrowserDies \/ Crash \/ Restart \/ UNCHANGED vars
  PROVE  FetchInv'
<1> USE DEF FetchInv, TypeOK
<1>1. ClientTypes' /\ ClientInv' /\ op' = op
  BY DEF BrowserDies, Crash, Restart, vars, client, ClientTypes, ClientInv, RetriesLeft
<1>2. ProcessTypes'
  BY Bounds DEF BrowserDies, Crash, Restart, vars, process, ProcessTypes
<1>3. WorkTypes' /\ AgeInv' /\ WorkInv'
  <2>1. CASE Crash
    BY <2>1 DEF Crash, WorkTypes, AgeInv, WorkInv, Timed, Alive
  <2>2. CASE ~Crash
    <3>1. UNCHANGED handlers
      BY <2>2 DEF BrowserDies, Restart, vars
    <3> QED BY <1>1, <3>1, HandlersKept DEF OpOf
  <2> QED BY <2>1, <2>2
<1>4. (TypeOK <=> ClientTypes /\ WorkTypes /\ ProcessTypes /\ AgeInv)'
  BY Parts, PTL
<1> QED BY <1>1, <1>2, <1>3, <1>4

LEMMA TickInv ==
  ASSUME FetchInv, Tick
  PROVE  FetchInv'
<1> USE DEF FetchInv, TypeOK
<1>1. UNCHANGED <<op, pc, attempt, result, cancelled, work, process>>
  BY DEF Tick
<1>2. \A k \in Requests : OpOf(k)' = OpOf(k) /\ Timed(k)' = Timed(k)
  BY <1>1 DEF OpOf, Timed, Alive
<1>3. ASSUME NEW c \in Callers
      PROVE  waited'[c] \in 0..Patience /\ (pc[c] # "wait" => waited'[c] = 0)
  BY <1>3, Bounds DEF Tick, Waiting, ClientInv
<1>4. waited' \in [Callers -> 0..Patience]
  <2>1. waited' = [c \in Callers |-> IF Waiting(c) THEN waited[c] + 1 ELSE waited[c]]
    BY DEF Tick
  <2> QED BY <1>3, <2>1
<1>5. ClientTypes' /\ ClientInv'
  BY <1>1, <1>3, <1>4 DEF ClientTypes, ClientInv, RetriesLeft
<1>6. ASSUME NEW k \in Requests
      PROVE  /\ age'[k] \in Nat
             /\ Timed(k) => age'[k] <= Deadline[OpOf(k)]
             /\ ~Timed(k) => age'[k] = 0
  <2>1. age'[k] = IF Timed(k) THEN age[k] + 1 ELSE age[k]
    BY DEF Tick
  <2>2. CASE Timed(k)
    <3>1. OpOf(k) \in SidecarOps
      BY <2>2 DEF Timed, SidecarOps
    <3>2. age[k] # Deadline[OpOf(k)] /\ age[k] <= Deadline[OpOf(k)] /\ age[k] \in Nat
      BY <2>2 DEF Tick, Due
    <3> QED BY <2>1, <2>2, <3>1, <3>2, Bounds
  <2>3. CASE ~Timed(k)
    BY <2>1, <2>3 DEF WorkInv
  <2> QED BY <2>2, <2>3
<1>7. WorkTypes'
  <2>1. age' = [k \in Requests |-> IF Timed(k) THEN age[k] + 1 ELSE age[k]]
    BY DEF Tick
  <2> QED BY <1>1, <1>6, <2>1 DEF WorkTypes
<1>8. AgeInv' /\ WorkInv'
  BY <1>1, <1>2, <1>6 DEF AgeInv, WorkInv
<1> QED BY <1>1, <1>5, <1>7, <1>8, Assembled

LEMMA InitInv == Init => FetchInv
<1> SUFFICES ASSUME Init  PROVE FetchInv
  OBVIOUS
<1>1. ClientTypes
  BY Bounds DEF Init, ClientTypes, Attempts
<1>2. WorkTypes /\ AgeInv
  BY DEF Init, WorkTypes, AgeInv, Timed, Alive
<1>3. ProcessTypes
  BY Bounds DEF Init, ProcessTypes
<1>4. ClientInv
  BY DEF Init, ClientInv
<1>5. WorkInv
  BY DEF Init, WorkInv
<1> QED BY <1>1, <1>2, <1>3, <1>4, <1>5, Parts DEF FetchInv

\* The inductive invariant of clients and handlers.
THEOREM FetchInvariant == Spec => []FetchInv
<1>1. FetchInv /\ [Next]_vars => FetchInv'
  BY ClientStepInv, HandlerInv, ProcessInv, TickInv DEF Next, Ended
<1> QED BY <1>1, InitInv, PTL DEF Spec

\* No attempt and no timer runs past its limit, for all limits.
THEOREM FetchTypes == Spec => []TypeOK
<1>1. FetchInv => TypeOK
  BY DEF FetchInv
<1> QED BY <1>1, FetchInvariant, PTL

-----------------------------------------------------------------------------
(* Nested limits: nothing works for a client that has timed out.           *)

LEMMA BudgetClient ==
  ASSUME FetchInv, Budget, BudgetInv, NEW c \in Callers,
         ClientStep(c) \/ AnswerDirect(c) \/ Cancel(c)
  PROVE  BudgetInv'
<1> USE DEF FetchInv, TypeOK
\* A client that changes without its context ending has no handler at work.
<1>1. ASSUME UNCHANGED <<handlers, cancelled>>,
             \A d \in Callers \ {c} :
               op'[d] = op[d] /\ pc'[d] = pc[d] /\ attempt'[d] = attempt[d]
               /\ waited'[d] = waited[d],
             c \in cancelled
             \/ \A k \in Requests : k[1] = c /\ Alive(k) => OpOf(k) \notin PageOps,
             op'[c] = op[c] \/ op[c] = "none"
      PROVE  BudgetInv'
  <2> SUFFICES ASSUME NEW k \in Requests, Alive(k)', OpOf(k)' \in PageOps,
                      k[1] \notin cancelled'
               PROVE  Awaited(k)' /\ age'[k] = waited'[k[1]]
    BY DEF BudgetInv
  <2>1. Alive(k) /\ k[1] \notin cancelled /\ k[1] \in Callers
    BY <1>1, RequestParts DEF Alive, handlers
  <2>2. CASE k[1] = c
    <3>1. op[c] # "none"
      BY <2>1, <2>2 DEF WorkInv, Alive, OpOf, SidecarOps, PageOps
    <3>2. OpOf(k) \in PageOps
      BY <1>1, <2>2, <3>1 DEF OpOf
    <3> QED BY <1>1, <2>1, <2>2, <3>2
  <2>3. CASE k[1] # c
    <3>1. OpOf(k) \in PageOps
      BY <1>1, <2>1, <2>3 DEF OpOf
    <3>2. Awaited(k) /\ age[k] = waited[k[1]]
      BY <2>1, <3>1 DEF BudgetInv
    <3>3. Awaited(k)'
      BY <1>1, <2>1, <2>3, <3>2 DEF Awaited, Current
    <3>4. age'[k] = age[k] /\ waited'[k[1]] = waited[k[1]]
      BY <1>1, <2>1, <2>3 DEF handlers
    <3> QED BY <3>2, <3>3, <3>4
  <2> QED BY <2>2, <2>3
\* A client that does not wait has none, unless its context has ended.
<1>2. ASSUME pc[c] # "wait"
      PROVE  c \in cancelled
             \/ \A k \in Requests : k[1] = c /\ Alive(k) => OpOf(k) \notin PageOps
  BY <1>2 DEF BudgetInv, Awaited
<1>3. CASE Begin(c) \/ Retry(c) \/ GiveUp(c)
  <2>1. /\ pc[c] # "wait" /\ UNCHANGED <<handlers, cancelled>>
        /\ \A d \in Callers \ {c} :
             op'[d] = op[d] /\ pc'[d] = pc[d] /\ attempt'[d] = attempt[d]
             /\ waited'[d] = waited[d]
        /\ op'[c] = op[c] \/ op[c] = "none"
    BY <1>3 DEF Begin, Retry, GiveUp, Goto, End, ClientInv
  <2> QED BY <1>1, <1>2, <2>1
<1>4. ASSUME NEW a, Settle(c, a), pc[c] \in {"send", "wait"}, UNCHANGED handlers,
             c \in cancelled
             \/ \A k \in Requests : k[1] = c /\ Alive(k) => OpOf(k) \notin PageOps
      PROVE  BudgetInv'
  <2>1. Kept(c) /\ op' = op /\ cancelled' = cancelled
    BY <1>4, Settled
  <2> QED BY <1>1, <1>4, <2>1 DEF Kept
<1>5. CASE SendUnreachable(c)
  BY <1>2, <1>4, <1>5 DEF SendUnreachable
<1>6. CASE AnswerDirect(c)
  <2>1. op[c] \in DirectOps /\ pc[c] = "wait" /\ UNCHANGED handlers /\ \E a : Settle(c, a)
    BY <1>6 DEF AnswerDirect
  <2>2. \A k \in Requests : k[1] = c /\ Alive(k) => OpOf(k) \notin PageOps
    BY <2>1 DEF OpOf, DirectOps, PageOps
  <2> QED BY <1>4, <2>1, <2>2
<1>7. CASE Lose(c)
  <2>1. /\ pc[c] = "wait" /\ Settle(c, "lost") /\ UNCHANGED handlers
        /\ \/ c \in cancelled
           \/ waited[c] = Patience
           \/ work[Current(c)] = "off"
    BY <1>7 DEF Lose
  <2>2. ASSUME NEW k \in Requests, k[1] = c, Alive(k), OpOf(k) \in PageOps,
               c \notin cancelled
        PROVE  FALSE
    <3>1. k = Current(c) /\ age[k] = waited[c]
      BY <2>2 DEF BudgetInv, Awaited
    <3>2. age[k] <= Deadline[OpOf(k)] /\ age[k] \in Nat
      BY <2>2 DEF Timed
    <3>3. Deadline[OpOf(k)] < Patience /\ Deadline[OpOf(k)] \in Nat /\ Patience \in Nat
      BY <2>2, Bounds DEF Budget, SidecarOps
    <3>4. work[k] # "off"
      BY <2>2 DEF Alive
    <3> QED BY <2>1, <2>2, <3>1, <3>2, <3>3, <3>4
  <2> QED BY <1>4, <2>1, <2>2
<1>8. CASE Cancel(c)
  <2>1. /\ cancelled \subseteq cancelled'
        /\ UNCHANGED <<op, pc, attempt, waited, handlers>>
    BY <1>8 DEF Cancel
  <2> QED BY <2>1 DEF BudgetInv, Alive, Awaited, Current, OpOf, handlers
<1>9. CASE Send(c)
  <2>1. CASE Settle(c, "status") /\ UNCHANGED <<handlers, process>>
    BY <1>2, <1>4, <1>9, <2>1 DEF Send
  <2>2. CASE ~(Settle(c, "status") /\ UNCHANGED <<handlers, process>>)
    <3>1. /\ pc[c] = "send" /\ pc' = [pc EXCEPT ![c] = "wait"] /\ c \notin cancelled
          /\ UNCHANGED <<op, attempt, waited, result, cancelled, process>>
          /\ IF op[c] \in DirectOps THEN UNCHANGED handlers
             ELSE /\ work' = [work EXCEPT ![Current(c)] = "queued"]
                  /\ age' = [age EXCEPT ![Current(c)] = 0]
      BY <1>9, <2>2 DEF Send, Goto, Reachable
    <3>2. \A k \in Requests : k[1] = c /\ Alive(k) => OpOf(k) \notin PageOps
      BY <1>2, <3>1
    <3>3. CASE op[c] \in DirectOps
      BY <1>1, <3>1, <3>2, <3>3
    <3>4. CASE op[c] \notin DirectOps
      <4> SUFFICES ASSUME NEW k \in Requests, Alive(k)', OpOf(k)' \in PageOps,
                          k[1] \notin cancelled'
                   PROVE  Awaited(k)' /\ age'[k] = waited'[k[1]]
        BY DEF BudgetInv
      <4>1. k[1] \in Callers /\ OpOf(k) \in PageOps /\ k[1] \notin cancelled
        BY <3>1, RequestParts DEF OpOf
      <4>2. CASE k = Current(c)
        <5>1. k[1] = c /\ waited[c] = 0
          BY <3>1, <4>2 DEF Current, ClientInv
        <5>2. age'[k] = 0 /\ waited'[c] = 0 /\ pc'[c] = "wait" /\ Current(c)' = Current(c)
          BY <3>1, <3>4, <4>2, <5>1 DEF Current
        <5> QED BY <4>2, <5>1, <5>2 DEF Awaited
      <4>3. CASE k # Current(c)
        <5>1. work'[k] = work[k] /\ age'[k] = age[k]
          BY <3>1, <3>4, <4>3
        <5>2. Alive(k)
          BY <5>1 DEF Alive
        <5>3. k[1] # c
          BY <3>2, <4>1, <5>2
        <5>4. Awaited(k) /\ age[k] = waited[k[1]]
          BY <4>1, <5>2 DEF BudgetInv
        <5>5. pc'[k[1]] = pc[k[1]] /\ Current(k[1])' = Current(k[1])
          BY <3>1, <4>1, <5>3 DEF Current
        <5> QED BY <3>1, <5>1, <5>4, <5>5 DEF Awaited
      <4> QED BY <4>2, <4>3
    <3> QED BY <3>3, <3>4
  <2> QED BY <2>1, <2>2
<1> QED BY <1>3, <1>5, <1>6, <1>7, <1>8, <1>9 DEF ClientStep

LEMMA BudgetHandler ==
  ASSUME FetchInv, BudgetInv, NEW k \in Requests, HandlerStep(k)
  PROVE  BudgetInv'
<1> USE DEF FetchInv, TypeOK
<1>1. ASSUME NEW a, NEW w \in {"off", "detached"}, Reply(k, a), Leave(k, w)
      PROVE  BudgetInv'
  <2> SUFFICES ASSUME NEW j \in Requests, Alive(j)', OpOf(j)' \in PageOps,
                      j[1] \notin cancelled'
               PROVE  Awaited(j)' /\ age'[j] = waited'[j[1]]
    BY DEF BudgetInv
  <2>1. /\ Kept(k[1]) /\ op' = op /\ attempt' = attempt /\ cancelled' = cancelled
        /\ ~Awaited(k) => UNCHANGED client
    BY <1>1, Replied
  <2>2. j # k
    BY <1>1 DEF Leave, Alive
  <2>3. work'[j] = work[j] /\ age'[j] = age[j]
    BY <1>1, <2>2 DEF Leave
  <2>4. Awaited(j) /\ age[j] = waited[j[1]] /\ j[1] \in Callers
    BY <2>1, <2>3, RequestParts DEF Alive, OpOf, BudgetInv
  <2>5. pc'[j[1]] = pc[j[1]] /\ waited'[j[1]] = waited[j[1]]
    <3>1. CASE Awaited(k)
      <4>1. k = Current(k[1]) /\ j = Current(j[1])
        BY <2>4, <3>1 DEF Awaited
      <4>2. k[1] # j[1]
        BY <2>2, <4>1
      <4> QED BY <2>1, <2>4, <4>2 DEF Kept
    <3>2. CASE ~Awaited(k)
      BY <2>1, <3>2 DEF client
    <3> QED BY <3>1, <3>2
  <2> QED BY <2>1, <2>3, <2>4, <2>5 DEF Awaited, Current
<1>2. CASE TakeSlot(k)
  <2>1. CASE Reply(k, "status") /\ Leave(k, "off")
    BY <1>1, <2>1
  <2>2. CASE work' = [work EXCEPT ![k] = "working"] /\ UNCHANGED <<client, age>>
    <3>1. Alive(k) /\ \A j \in Requests : Alive(j)' = Alive(j)
      BY <1>2, <2>2 DEF TakeSlot, Alive
    <3> QED BY <2>2, <3>1 DEF BudgetInv, Awaited, Current, OpOf, client
  <2> QED BY <1>2, <2>1, <2>2 DEF TakeSlot
<1>3. CASE FinishPage(k) \/ FinishPdf(k)
  <2>1. (\E a : Reply(k, a)) /\ Leave(k, "off")
    BY <1>3 DEF FinishPage, FinishPdf
  <2> QED BY <1>1, <2>1
<1>4. CASE Expire(k)
  <2>1. /\ Reply(k, "gateway")
        /\ Leave(k, IF OpOf(k) = "pdftext" THEN "detached" ELSE "off")
    BY <1>4 DEF Expire
  <2> QED BY <1>1, <2>1
<1>5. CASE EndThread(k)
  <2>1. /\ UNCHANGED client /\ work[k] = "detached"
        /\ work' = [work EXCEPT ![k] = "off"] /\ age' = [age EXCEPT ![k] = 0]
    BY <1>5 DEF EndThread, Leave
  <2>2. ASSUME NEW j \in Requests, Alive(j)'
        PROVE  Alive(j) /\ age'[j] = age[j]
    BY <2>1, <2>2 DEF Alive
  <2> QED BY <2>1, <2>2 DEF BudgetInv, Awaited, Current, OpOf, client
<1> QED BY <1>2, <1>3, <1>4, <1>5 DEF HandlerStep

LEMMA BudgetProcess ==
  ASSUME FetchInv, BudgetInv,
         BrowserDies \/ Crash \/ Restart \/ Tick \/ UNCHANGED vars
  PROVE  BudgetInv'
<1> USE DEF FetchInv, TypeOK
<1>1. CASE Crash
  BY <1>1 DEF Crash, BudgetInv, Alive
<1>2. CASE Tick
  <2> SUFFICES ASSUME NEW k \in Requests, Alive(k)', OpOf(k)' \in PageOps,
                      k[1] \notin cancelled'
               PROVE  Awaited(k)' /\ age'[k] = waited'[k[1]]
    BY DEF BudgetInv
  <2>1. UNCHANGED <<op, pc, attempt, cancelled, work>>
    BY <1>2 DEF Tick
  <2>2. Alive(k) /\ OpOf(k) \in PageOps /\ k[1] \in Callers
    BY <2>1, RequestParts DEF Alive, OpOf
  <2>3. Awaited(k) /\ age[k] = waited[k[1]]
    BY <2>1, <2>2 DEF BudgetInv
  <2>4. Timed(k) /\ Waiting(k[1])
    BY <2>2, <2>3 DEF Timed, Waiting, Awaited, OpOf, SidecarOps
  <2>5. age'[k] = age[k] + 1 /\ waited'[k[1]] = waited[k[1]] + 1
    BY <1>2, <2>2, <2>4 DEF Tick
  <2>6. Awaited(k)'
    BY <2>1, <2>3 DEF Awaited, Current
  <2> QED BY <2>3, <2>5, <2>6
<1>3. CASE BrowserDies \/ Restart \/ UNCHANGED vars
  <2>1. UNCHANGED <<client, handlers>>
    BY <1>3 DEF BrowserDies, Restart, vars
  <2> QED BY <2>1 DEF BudgetInv, Alive, Awaited, Current, OpOf, client, handlers
<1> QED BY <1>1, <1>2, <1>3

\* When the limits are nested, no handler on the browser works for a client
\* that has timed out; BrowserBudget.cfg shows that it does when they are not.
THEOREM NestedLimits ==
  ASSUME Budget
  PROVE  Spec => []HandlersAreAwaited
<1>1. Init => BudgetInv
  BY DEF Init, BudgetInv, Alive
<1>2. FetchInv /\ BudgetInv /\ [Next]_vars => BudgetInv'
  BY BudgetClient, BudgetHandler, BudgetProcess DEF Next, Ended
<1>3. BudgetInv => HandlersAreAwaited
  BY DEF BudgetInv, HandlersAreAwaited
<1> QED BY <1>1, <1>2, <1>3, FetchInvariant, PTL DEF Spec

-----------------------------------------------------------------------------
(* The refinement: each request uses up one of the attempts.               *)

\* The values that a caller's share of the mapping reads.
Frame(c) == pc'[c] = pc[c] /\ attempt'[c] = attempt[c] /\ result'[c] = result[c]

LEMMA Mapped ==
  ASSUME FetchInv, FetchInv', NEW c \in Callers,
         \A d \in Callers \ {c} : Frame(d),
         \/ Asked(c)' = Asked(c) /\ result'[c] = result[c]
         \/ /\ Asked(c)' = Asked(c) + 1 /\ result[c] = "open"
            /\ result'[c] \in {"open", "refused", "answered", "failed"}
         \/ /\ Asked(c)' = Asked(c) /\ result[c] = "open"
            /\ result'[c] \in {"answered", "failed"}
  PROVE  [Call!Next]_(Call!vars)
<1> DEFINE l == [d \in Callers |-> MaxAttempts - Asked(d)]
<1>1. \A d \in Callers : Asked(d) \in 0..MaxAttempts
  BY Bounds DEF Asked, FetchInv, TypeOK, Attempts
<1>2. Asked(c)' \in 0..MaxAttempts
  BY Bounds DEF Asked, FetchInv, TypeOK, Attempts
<1>3. \A d \in Callers \ {c} : Asked(d)' = Asked(d)
  BY DEF Frame, Asked
<1>4. l' = [d \in Callers |-> MaxAttempts - Asked(d)']
  OBVIOUS
<1>5. /\ \A d \in Callers \ {c} : result'[d] = result[d]
      /\ result \in [Callers -> {"open", "answered", "refused", "failed"}]
      /\ result' \in [Callers -> {"open", "answered", "refused", "failed"}]
  BY DEF Frame, FetchInv, TypeOK
<1>6. result' = [result EXCEPT ![c] = result'[c]]
  BY <1>5
<1> HIDE DEF Asked
<1>7. CASE Asked(c)' = Asked(c)
  <2>1. l' = l
    BY <1>3, <1>4, <1>7
  <2>2. CASE result'[c] = result[c]
    BY <1>5, <1>6, <2>1, <2>2 DEF Call!vars
  <2>3. CASE result[c] = "open" /\ result'[c] \in {"answered", "failed"}
    <3>1. l' = [l EXCEPT ![c] = @ - 0] /\ l[c] >= 0 /\ 0 \in 0..MaxAttempts
      BY <1>1, <2>1, Bounds
    <3>2. Call!Finish(c)
      BY <1>6, <2>3, <3>1 DEF Call!Finish, Call!Spend, Call!Ended
    <3> QED BY <3>2 DEF Call!Next
  <2> QED BY <1>7, <1>1, <2>2, <2>3
<1>8. CASE /\ Asked(c)' = Asked(c) + 1 /\ result[c] = "open"
           /\ result'[c] \in {"open", "refused", "answered", "failed"}
  <2>1. l[c] >= 1 /\ 1 \in 1..MaxAttempts /\ 1 \in 0..MaxAttempts
    BY <1>1, <1>2, <1>8, Bounds
  <2>2. l' = [l EXCEPT ![c] = @ - 1]
    <3>1. MaxAttempts - Asked(c)' = (MaxAttempts - Asked(c)) - 1
      BY <1>1, <1>8, Bounds
    <3>2. \A d \in Callers \ {c} : MaxAttempts - Asked(d)' = MaxAttempts - Asked(d)
      BY <1>3
    <3>3. l[c] = MaxAttempts - Asked(c)
      OBVIOUS
    <3> QED BY <1>4, <3>1, <3>2, <3>3
  <2>3. CASE result'[c] \in {"open", "refused"}
    BY <1>6, <1>8, <2>1, <2>2, <2>3 DEF Call!Next, Call!Ask, Call!Spend
  <2>4. CASE result'[c] \in {"answered", "failed"}
    BY <1>6, <1>8, <2>1, <2>2, <2>4 DEF Call!Next, Call!Finish, Call!Spend, Call!Ended
  <2> QED BY <1>8, <2>3, <2>4
<1> QED BY <1>7, <1>8

\* A request comes to an end.
LEMMA SettleMapped ==
  ASSUME FetchInv, FetchInv', NEW c \in Callers, NEW a,
         pc[c] \in {"send", "wait"}, Settle(c, a)
  PROVE  [Call!Next]_(Call!vars)
<1>1. Kept(c) /\ attempt' = attempt /\ pc'[c] \in {"backoff", "done"}
  BY Settled
<1>2. Asked(c)' = Asked(c) + 1
  <2>1. attempt[c] \in Nat
    BY Bounds DEF FetchInv, TypeOK, Attempts
  <2>2. Asked(c) = attempt[c] - 1 /\ Asked(c)' = attempt[c]
    BY <1>1 DEF Asked
  <2> QED BY <2>1, <2>2
<1>3. result[c] = "open"
  BY DEF FetchInv, ClientInv
<1>4. result'[c] \in {"open", "refused", "answered", "failed"}
  BY DEF FetchInv, TypeOK
<1>5. \A d \in Callers \ {c} : Frame(d)
  BY <1>1 DEF Kept, Frame
<1> QED BY <1>2, <1>3, <1>4, <1>5, Mapped

\* A step that neither spends an attempt nor ends a call.
LEMMA Unspent ==
  ASSUME \A d \in Callers : Asked(d)' = Asked(d) /\ result'[d] = result[d],
         TypeOK, TypeOK'
  PROVE  UNCHANGED Call!vars
<1>1. result' = result
  BY DEF TypeOK
<1> QED BY <1>1 DEF Call!vars

LEMMA ClientMapped ==
  ASSUME FetchInv, FetchInv', NEW c \in Callers,
         ClientStep(c) \/ AnswerDirect(c) \/ Cancel(c)
  PROVE  [Call!Next]_(Call!vars)
<1> USE DEF FetchInv
<1>1. /\ pc \in [Callers -> {"begin", "send", "wait", "backoff", "done"}]
      /\ attempt \in [Callers -> Attempts]
      /\ result \in [Callers -> {"open", "answered", "refused", "failed"}]
      /\ attempt[c] \in Nat
  BY Bounds DEF TypeOK, Attempts
<1>2. CASE /\ pc[c] \in {"send", "wait"}
           /\ \E a : Settle(c, a)
  BY <1>2, SettleMapped
<1>3. CASE SendUnreachable(c) \/ AnswerDirect(c) \/ Lose(c)
  BY <1>2, <1>3 DEF SendUnreachable, AnswerDirect, Lose
<1>4. CASE /\ pc[c] \in {"begin", "send"} /\ pc' \in {[pc EXCEPT ![c] = p] : p \in {"send", "wait"}}
           /\ UNCHANGED <<attempt, result>>
  <2>1. \A d \in Callers : Asked(d)' = Asked(d)
    BY <1>1, <1>4 DEF Asked
  <2> QED BY <1>4, <2>1, Unspent
<1>5. CASE Begin(c)
  BY <1>4, <1>5 DEF Begin, Goto
<1>6. CASE Send(c)
  BY <1>2, <1>4, <1>6 DEF Send, Goto
<1>7. CASE Retry(c)
  <2>1. /\ pc' = [pc EXCEPT ![c] = "send"] /\ pc[c] = "backoff"
        /\ attempt' = [attempt EXCEPT ![c] = @ + 1] /\ result' = result
    BY <1>7 DEF Retry, Goto
  <2>2. (attempt[c] + 1) - 1 = attempt[c]
    BY <1>1
  <2>3. \A d \in Callers : Asked(d)' = Asked(d)
    BY <1>1, <2>1, <2>2 DEF Asked
  <2> QED BY <2>1, <2>3, Unspent
<1>8. CASE GiveUp(c)
  <2>1. /\ pc' = [pc EXCEPT ![c] = "done"] /\ pc[c] = "backoff"
        /\ result' = [result EXCEPT ![c] = "failed"] /\ attempt' = attempt
    BY <1>8 DEF GiveUp, End, Goto
  <2>2. Asked(c)' = Asked(c) /\ \A d \in Callers \ {c} : Frame(d)
    BY <1>1, <2>1 DEF Asked, Frame
  <2>3. result[c] = "open" /\ result'[c] = "failed"
    BY <1>1, <2>1 DEF ClientInv
  <2> QED BY <2>2, <2>3, Mapped
<1>9. CASE Cancel(c)
  <2>1. \A d \in Callers : Asked(d)' = Asked(d) /\ result'[d] = result[d]
    BY <1>9 DEF Cancel, Asked
  <2> QED BY <2>1, Unspent
<1> QED BY <1>3, <1>5, <1>6, <1>7, <1>8, <1>9 DEF ClientStep

LEMMA HandlerMapped ==
  ASSUME FetchInv, FetchInv', NEW k \in Requests, HandlerStep(k)
  PROVE  [Call!Next]_(Call!vars)
<1>1. UNCHANGED client \/ \E a : Reply(k, a)
  BY DEF HandlerStep, TakeSlot, FinishPage, FinishPdf, Expire, EndThread, client
<1>2. CASE UNCHANGED client
  <2>1. \A d \in Callers : Asked(d)' = Asked(d) /\ result'[d] = result[d]
    BY <1>2 DEF client, Asked
  <2> QED BY <2>1, Unspent DEF FetchInv
<1>3. CASE ~UNCHANGED client /\ \E a : Reply(k, a)
  <2>1. Awaited(k) /\ \E a : Settle(k[1], a)
    BY <1>3 DEF Reply
  <2> QED BY <2>1, RequestParts, SettleMapped DEF Awaited
<1> QED BY <1>1, <1>2, <1>3

LEMMA MapInit == Init => Call!Init
<1> SUFFICES ASSUME Init  PROVE Call!Init
  OBVIOUS
<1>1. \A c \in Callers : MaxAttempts - Asked(c) = MaxAttempts
  BY Bounds DEF Init, Asked
<1> QED BY <1>1 DEF Init, Call!Init

\* However calls, handlers, deadlines and faults interleave, a call makes no
\* more requests than it may and none after a refusal: the transports
\* implement the abstract client.
THEOREM CallsAreBounded == Spec => ImplementsBoundedCall
<1>1. FetchInv /\ FetchInv' /\ [Next]_vars => [Call!Next]_(Call!vars)
  <2> SUFFICES ASSUME FetchInv, FetchInv', [Next]_vars
               PROVE  [Call!Next]_(Call!vars)
    OBVIOUS
  <2>1. CASE BrowserDies \/ Crash \/ Restart \/ Tick \/ UNCHANGED vars
    <3>1. UNCHANGED <<pc, attempt, result>>
      BY <2>1 DEF BrowserDies, Crash, Restart, Tick, vars, client
    <3>2. \A d \in Callers : Asked(d)' = Asked(d) /\ result'[d] = result[d]
      BY <3>1 DEF Asked
    <3> QED BY <3>2, Unspent DEF FetchInv
  <2> QED BY <2>1, ClientMapped, HandlerMapped DEF Next, Ended
<1> QED BY <1>1, FetchInvariant, MapInit, PTL DEF Spec, ImplementsBoundedCall, Call!Spec
=============================================================================
