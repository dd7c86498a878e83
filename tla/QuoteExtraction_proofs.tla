------------------------ MODULE QuoteExtraction_proofs ------------------------
(***************************************************************************)
(* Theorems about QuoteExtraction, for every finite set of attempts, every *)
(* set of articles and every width of the semaphore.                       *)
(*                                                                         *)
(* ExtractionInv is inductive.  Each step is shown to keep the types, then *)
(* the relation of rows, paths and files, then who may write them.         *)
(***************************************************************************)
EXTENDS QuoteExtraction, FiniteSetTheorems, TLAPS

-----------------------------------------------------------------------------
(* The shared parts of the actions.                                        *)

LEMMA CallTypes ==
  ASSUME TypeOK, NEW r \in Runs, CallWorks(r) \/ CallFails(r) \/ FaultHappens
  PROVE  faults' \in Nat
BY DEF TypeOK, CallWorks, CallFails, FaultHappens

LEMMA GotoTypes ==
  ASSUME TypeOK, NEW r \in Runs, NEW step \in Steps, Goto(r, step)
  PROVE  /\ pc' \in [Runs -> Steps]
         /\ pc'[r] = step
         /\ \A q \in Runs \ {r} : pc'[q] = pc[q]
BY DEF TypeOK, Goto

LEMMA GoTypes ==
  ASSUME TypeOK, NEW r \in Runs, NEW a \in Articles, NEW step \in GoSteps,
         Go(r, a, step)
  PROVE  /\ work' \in [Runs -> [Articles -> GoSteps]]
         /\ work'[r][a] = step
         /\ \A q \in Runs, b \in Articles :
              q # r \/ b # a => work'[q][b] = work[q][b]
BY DEF TypeOK, Go

LEMMA PutTypes ==
  ASSUME TypeOK, NEW a \in Articles, NEW status \in QuotesStatuses,
         Put(a, status)
  PROVE  /\ quotes' \in [Articles -> QuotesStatuses]
         /\ stale' \in [Articles -> BOOLEAN]
         /\ quotes'[a] = status
         /\ \A b \in Articles \ {a} : quotes'[b] = quotes[b]
BY DEF TypeOK, Put

LEMMA SpawnTypes ==
  ASSUME TypeOK, NEW r \in Runs, at[r] \in Articles, Spawn(r)
  PROVE  /\ pc' \in [Runs -> Steps]
         /\ pc'[r] = "next"
         /\ \A q \in Runs \ {r} : pc'[q] = pc[q]
         /\ UNCHANGED <<at, todo>>
         /\ work' \in [Runs -> [Articles -> GoSteps]]
         /\ work'[r][at[r]] = "queued"
         /\ \A q \in Runs, b \in Articles :
              q # r \/ b # at[r] => work'[q][b] = work[q][b]
<1>1. "queued" \in GoSteps /\ "next" \in Steps
  BY DEF GoSteps, Steps
<1>2. Go(r, at[r], "queued") /\ Goto(r, "next") /\ UNCHANGED <<at, todo>>
  BY DEF Spawn, Advance
<1>3. /\ work' \in [Runs -> [Articles -> GoSteps]]
      /\ work'[r][at[r]] = "queued"
      /\ \A q \in Runs, b \in Articles :
           q # r \/ b # at[r] => work'[q][b] = work[q][b]
  BY <1>1, <1>2, GoTypes
<1> QED BY <1>1, <1>2, <1>3, GotoTypes

LEMMA LeaveTypes ==
  ASSUME TypeOK, NEW r \in Runs, Advance(r) \/ ReturnEarly(r)
  PROVE  /\ pc' \in [Runs -> Steps]
         /\ pc'[r] \in {"next", "returned"}
         /\ \A q \in Runs \ {r} : pc'[q] = pc[q]
         /\ UNCHANGED <<at, todo>>
BY DEF TypeOK, Advance, ReturnEarly, Goto, Steps

-----------------------------------------------------------------------------
(* Steps that leave rows, paths and files alone.                           *)

LEMMA KeptFrame ==
  ASSUME FrozenIsBacked, PreprintsAreNotKept, UNCHANGED <<rows, file>>
  PROVE  FrozenIsBacked' /\ PreprintsAreNotKept'
BY DEF FrozenIsBacked, PreprintsAreNotKept, rows

LEMMA LoopStep ==
  ASSUME ExtractionInv, NEW r \in Runs,
         Begin(r) \/ Visit(r) \/ LoadArticle(r) \/ Wait(r) \/ Close(r) \/ Cancel(r)
  PROVE  ExtractionInv'
<1> USE DEF ExtractionInv
<1>1. UNCHANGED <<rows, file, evictions, crashes>>
  BY DEF Begin, Visit, LoadArticle, Wait, Close, Cancel, bounds
<1>2. FrozenIsBacked' /\ PreprintsAreNotKept'
  BY <1>1, KeptFrame
<1>3. CASE Begin(r)
  BY <1>1, <1>2, <1>3 DEF Begin, TypeOK, WritersInv, Goto, Steps, rows, bounds
<1>4. CASE Visit(r)
  <2>1. PICK a \in todo[r] :
          \/ /\ CallWorks(r)
             /\ todo' = [todo EXCEPT ![r] = @ \ {a}]
             /\ at' = [at EXCEPT ![r] = a]
             /\ IF quotes[a] = "done"
                THEN /\ shown' = [shown EXCEPT ![r] = @ \cup {a}]
                     /\ UNCHANGED pc
                ELSE Goto(r, "load") /\ UNCHANGED shown
          \/ CallFails(r) /\ ReturnEarly(r) /\ UNCHANGED shown
    BY <1>4 DEF Visit
  <2>2. a \in Articles /\ pc[r] = "next"
    BY <1>4 DEF Visit, TypeOK
  <2>3. faults' \in Nat
    BY <2>1, CallTypes
  <2>4. CASE /\ todo' = [todo EXCEPT ![r] = @ \ {a}]
             /\ at' = [at EXCEPT ![r] = a]
             /\ shown' = [shown EXCEPT ![r] = @ \cup {a}] \/ UNCHANGED shown
             /\ UNCHANGED pc \/ Goto(r, "load")
    <3>1. /\ todo' \in [Runs -> SUBSET Articles]
          /\ shown' \in [Runs -> SUBSET Articles]
          /\ at' \in [Runs -> Articles \cup {None}]
          /\ at'[r] = a
          /\ \A q \in Runs \ {r} : at'[q] = at[q]
      BY <2>2, <2>4 DEF TypeOK
    <3>2. /\ pc' \in [Runs -> Steps]
          /\ pc'[r] \in {"next", "load"}
          /\ \A q \in Runs \ {r} : pc'[q] = pc[q]
      BY <2>2, <2>4 DEF TypeOK, Goto, Steps
    <3>3. UNCHANGED <<work, cancelled, cancels>>
      BY <1>4 DEF Visit, bounds
    <3> QED BY <1>1, <1>2, <2>2, <2>3, <3>1, <3>2, <3>3 DEF TypeOK, WritersInv, rows
  <2>5. CASE ReturnEarly(r) /\ UNCHANGED shown
    BY <1>1, <1>2, <1>4, <2>3, <2>5, LeaveTypes
       DEF Visit, TypeOK, WritersInv, rows, bounds
  <2> QED BY <2>1, <2>4, <2>5
<1>5. CASE LoadArticle(r)
  <2>1. faults' \in Nat /\ at[r] \in Articles
    BY <1>5, CallTypes DEF LoadArticle, WritersInv
  <2>2. CASE (Advance(r) \/ ReturnEarly(r)) /\ UNCHANGED work
    BY <1>1, <1>2, <1>5, <2>1, <2>2, LeaveTypes
       DEF LoadArticle, TypeOK, WritersInv, rows, bounds
  <2>3. CASE at[r] \in Published /\ Goto(r, "claim") /\ UNCHANGED <<at, todo, work>>
    BY <1>1, <1>2, <1>5, <2>1, <2>3
       DEF LoadArticle, TypeOK, WritersInv, Goto, Steps, rows, bounds
  <2>4. CASE Spawn(r)
    BY <1>1, <1>2, <1>5, <2>1, <2>4, SpawnTypes
       DEF LoadArticle, TypeOK, WritersInv, rows, bounds
  <2> QED BY <1>5, <2>2, <2>3, <2>4 DEF LoadArticle
<1>6. CASE Wait(r) \/ Close(r)
  <2>1. /\ pc' \in [Runs -> Steps]
        /\ pc'[r] \in {"returned", "closed"}
        /\ \A q \in Runs \ {r} : pc'[q] = pc[q]
    BY <1>6 DEF Wait, Close, TypeOK, Goto, Steps
  <2>2. /\ cancelled' \in [Runs -> BOOLEAN]
        /\ UNCHANGED <<rows, file, at, todo, work, shown, evictions, faults, bounds>>
    BY <1>6 DEF Wait, Close, TypeOK
  <2>3. TypeOK'
    BY <2>1, <2>2 DEF TypeOK, rows, bounds
  <2>4. WritersInv'
    BY <2>1, <2>2 DEF WritersInv
  <2> QED BY <1>2, <2>3, <2>4
<1>7. CASE Cancel(r)
  BY <1>1, <1>2, <1>7 DEF Cancel, TypeOK, WritersInv, loop, rows, bounds
<1> QED BY <1>3, <1>4, <1>5, <1>6, <1>7

\* A row that becomes pending or not done, of a published article.
LEMMA PutFrame ==
  ASSUME TypeOK, FrozenIsBacked, PreprintsAreNotKept,
         NEW a \in Published, NEW status \in QuotesStatuses \ {"done"},
         Put(a, status), UNCHANGED <<path, file>>
  PROVE  FrozenIsBacked' /\ PreprintsAreNotKept'
<1>1. a \in Articles
  BY ExtractionAssumption
<1>2. /\ quotes'[a] = status
      /\ \A b \in Articles \ {a} : quotes'[b] = quotes[b]
  BY <1>1, PutTypes
<1> QED BY <1>1, <1>2 DEF FrozenIsBacked, PreprintsAreNotKept

LEMMA ClaimStep ==
  ASSUME ExtractionInv, NEW r \in Runs, Claim(r) \/ InsertClaim(r)
  PROVE  ExtractionInv'
<1> USE DEF ExtractionInv
<1>1. at[r] \in Published /\ at[r] \in Articles
  BY ExtractionAssumption DEF Claim, InsertClaim, WritersInv
<1>2. faults' \in Nat
  BY CallTypes DEF Claim, InsertClaim, ClaimFails
<1>3. UNCHANGED <<file, cancelled, bounds>>
  BY DEF Claim, InsertClaim
<1>4. /\ Won(r) \/ UNCHANGED <<rows, evictions>>
      /\ \/ Goto(r, "insert") /\ UNCHANGED <<at, todo, work>>
         \/ (Advance(r) \/ ReturnEarly(r)) /\ UNCHANGED work
         \/ Spawn(r)
      /\ shown' \in [Runs -> SUBSET Articles]
  <2>1. Lost(r) => shown' \in [Runs -> SUBSET Articles] /\ UNCHANGED <<rows, evictions>>
    BY <1>1 DEF Lost, TypeOK
  <2>2. UNCHANGED shown => shown' \in [Runs -> SUBSET Articles]
    BY DEF TypeOK
  <2> QED BY <2>1, <2>2 DEF Claim, InsertClaim, ClaimFails
<1>5. /\ FrozenIsBacked' /\ PreprintsAreNotKept'
      /\ quotes' \in [Articles -> QuotesStatuses]
      /\ stale' \in [Articles -> BOOLEAN]
      /\ path' = path
      /\ evictions' \in Nat
  <2>1. CASE Won(r)
    <3>1. Put(at[r], "pending") /\ path' = path
      BY <2>1 DEF Won
    <3>2. evictions' \in Nat
      BY <2>1 DEF Won, TypeOK
    <3>3. "pending" \in QuotesStatuses \ {"done"}
      BY DEF QuotesStatuses
    <3>4. FrozenIsBacked' /\ PreprintsAreNotKept'
      BY <1>1, <1>3, <3>1, <3>3, PutFrame
    <3> QED BY <1>1, <3>1, <3>2, <3>3, <3>4, PutTypes
  <2>2. CASE UNCHANGED <<rows, evictions>>
    BY <1>3, <2>2, KeptFrame DEF rows, TypeOK
  <2> QED BY <1>4, <2>1, <2>2
<1>6. CASE Goto(r, "insert") /\ UNCHANGED <<at, todo, work>>
  BY <1>1, <1>2, <1>3, <1>4, <1>5, <1>6 DEF TypeOK, WritersInv, Goto, Steps, bounds
<1>7. CASE (Advance(r) \/ ReturnEarly(r)) /\ UNCHANGED work
  BY <1>1, <1>2, <1>3, <1>4, <1>5, <1>7, LeaveTypes DEF TypeOK, WritersInv, bounds
<1>8. CASE Spawn(r)
  BY <1>1, <1>2, <1>3, <1>4, <1>5, <1>8, SpawnTypes DEF TypeOK, WritersInv, bounds
<1> QED BY <1>4, <1>6, <1>7, <1>8

-----------------------------------------------------------------------------
(* The goroutines.                                                         *)

\* A goroutine only moves itself.
LEMMA WritersStep ==
  ASSUME ExtractionInv, NEW r \in Runs, NEW a \in Articles, NEW step \in GoSteps,
         Go(r, a, step), UNCHANGED loop,
         step \notin {"none", "queued", "extracting"} => a \in Published,
         step = "stamping" => file'[a],
         \A b \in Articles : file[b] => file'[b]
  PROVE  WritersInv'
<1>1. /\ work'[r][a] = step
      /\ \A q \in Runs, b \in Articles :
           q # r \/ b # a => work'[q][b] = work[q][b]
  BY GoTypes DEF ExtractionInv
<1> QED BY <1>1 DEF ExtractionInv, WritersInv, loop

LEMMA UnkeptGoroutineStep ==
  ASSUME ExtractionInv, NEW r \in Runs, NEW a \in Articles,
         Admit(r, a) \/ Extract(r, a)
  PROVE  ExtractionInv'
<1> USE DEF ExtractionInv
<1>1. UNCHANGED <<rows, file, loop, cancelled, evictions, faults, bounds>>
  BY DEF Admit, Extract
<1>2. shown' \in [Runs -> SUBSET Articles]
  BY DEF Admit, Extract, TypeOK
<1>3. PICK step \in GoSteps :
        /\ Go(r, a, step)
        /\ step # "stamping"
        /\ step \notin {"none", "queued", "extracting"} => a \in Published
  BY DEF Admit, Extract, Empty, Keeps, GoSteps
<1>4. WritersInv'
  BY <1>1, <1>3, WritersStep
<1>5. FrozenIsBacked' /\ PreprintsAreNotKept'
  BY <1>1, KeptFrame
<1>6. TypeOK'
  BY <1>1, <1>2, <1>3, GoTypes DEF TypeOK, rows, loop, bounds
<1> QED BY <1>4, <1>5, <1>6

LEMMA MarkStep ==
  ASSUME ExtractionInv, NEW r \in Runs, NEW a \in Articles,
         MarkNoText(r, a) \/ MarkFailed(r, a)
  PROVE  ExtractionInv'
<1> USE DEF ExtractionInv
<1>1. UNCHANGED <<path, file, loop, shown, cancelled, evictions, bounds>>
  BY DEF MarkNoText, MarkFailed
<1>2. a \in Published
  BY DEF MarkNoText, MarkFailed, WritersInv
<1>3. faults' \in Nat
  BY CallTypes DEF MarkNoText, MarkFailed, TypeOK
<1>4. "none" \in GoSteps /\ Go(r, a, "none")
  BY DEF MarkNoText, MarkFailed, GoSteps
<1>5. WritersInv'
  BY <1>1, <1>4, WritersStep
<1>6. PICK status \in QuotesStatuses \ {"done"} :
        Put(a, status) \/ UNCHANGED <<quotes, stale>>
  <2>1. {"no_text", "failed"} \subseteq QuotesStatuses \ {"done"}
    BY DEF QuotesStatuses, Claimable
  <2> QED BY <2>1 DEF MarkNoText, MarkFailed
<1>7. /\ FrozenIsBacked' /\ PreprintsAreNotKept'
      /\ quotes' \in [Articles -> QuotesStatuses]
      /\ stale' \in [Articles -> BOOLEAN]
  <2>1. CASE Put(a, status)
    BY <1>1, <1>2, <2>1, PutFrame, PutTypes
  <2>2. CASE UNCHANGED <<quotes, stale>>
    BY <1>1, <2>2, KeptFrame DEF TypeOK, rows
  <2> QED BY <1>6, <2>1, <2>2
<1>8. TypeOK'
  BY <1>1, <1>3, <1>4, <1>7, GoTypes DEF TypeOK, loop, bounds
<1> QED BY <1>5, <1>7, <1>8

LEMMA FreezeStep ==
  ASSUME ExtractionInv, NEW r \in Runs, NEW a \in Articles, Freeze(r, a)
  PROVE  ExtractionInv'
<1> USE DEF ExtractionInv
<1>1. UNCHANGED <<rows, loop, shown, cancelled, evictions, bounds>> /\ a \in Published
  BY DEF Freeze, WritersInv
<1>2. faults' \in Nat
  BY CallTypes DEF Freeze, TypeOK
<1>3. /\ file' \in [Articles -> BOOLEAN]
      /\ \A b \in Articles : file[b] => file'[b]
      /\ \A b \in Articles \ {a} : file'[b] = file[b]
  BY DEF Freeze, TypeOK
<1>4. PICK step \in GoSteps :
        Go(r, a, step) /\ (step = "stamping" => file'[a])
  <2>1. {"stamping", "failing"} \subseteq GoSteps
    BY DEF GoSteps
  <2> QED BY <2>1 DEF Freeze, TypeOK
<1>5. WritersInv'
  BY <1>1, <1>3, <1>4, WritersStep
<1>6. FrozenIsBacked' /\ PreprintsAreNotKept'
  BY <1>1, <1>3, ExtractionAssumption DEF FrozenIsBacked, PreprintsAreNotKept, rows
<1>7. TypeOK'
  BY <1>1, <1>2, <1>3, <1>4, GoTypes DEF TypeOK, rows, loop, bounds
<1> QED BY <1>5, <1>6, <1>7

LEMMA StampStep ==
  ASSUME ExtractionInv, NEW r \in Runs, NEW a \in Articles, Stamp(r, a)
  PROVE  ExtractionInv'
<1> USE DEF ExtractionInv
<1>1. UNCHANGED <<file, loop, shown, cancelled, evictions, bounds>>
  BY DEF Stamp
<1>2. a \in Published /\ file[a] /\ faults' \in Nat
  BY CallTypes DEF Stamp, WritersInv
<1>3. PICK step \in {"none", "failing"} : Go(r, a, step)
  BY DEF Stamp
<1>4. step \in GoSteps /\ step # "stamping"
  BY DEF GoSteps
<1>5. WritersInv'
  BY <1>1, <1>2, <1>3, <1>4, WritersStep
<1>6. /\ FrozenIsBacked' /\ PreprintsAreNotKept'
      /\ quotes' \in [Articles -> QuotesStatuses]
      /\ stale' \in [Articles -> BOOLEAN]
      /\ path' \in [Articles -> BOOLEAN]
  <2>1. CASE Frozen(a)
    <3>1. Put(a, "done") /\ path' = [path EXCEPT ![a] = TRUE]
      BY <2>1 DEF Frozen
    <3>2. "done" \in QuotesStatuses
      BY DEF QuotesStatuses
    <3>3. /\ quotes' \in [Articles -> QuotesStatuses]
          /\ stale' \in [Articles -> BOOLEAN]
          /\ \A b \in Articles \ {a} : quotes'[b] = quotes[b]
      BY <3>1, <3>2, PutTypes
    <3> QED BY <1>1, <1>2, <3>1, <3>3
            DEF FrozenIsBacked, PreprintsAreNotKept, TypeOK
  <2>2. CASE UNCHANGED rows
    BY <1>1, <2>2, KeptFrame DEF TypeOK, rows
  <2> QED BY <2>1, <2>2 DEF Stamp
<1>7. TypeOK'
  BY <1>1, <1>2, <1>3, <1>4, <1>6, GoTypes DEF TypeOK, loop, bounds
<1> QED BY <1>5, <1>6, <1>7

-----------------------------------------------------------------------------
(* Time and crashes.                                                       *)

LEMMA AroundStep ==
  ASSUME ExtractionInv, Crash \/ \E a \in Articles : Age(a)
  PROVE  ExtractionInv'
<1> USE DEF ExtractionInv
<1>1. CASE Crash
  <2>1. FrozenIsBacked' /\ PreprintsAreNotKept'
    BY <1>1, KeptFrame DEF Crash
  <2>2. /\ pc' \in [Runs -> Steps]
        /\ \A r \in Runs : pc'[r] \in {"idle", "closed"}
        /\ cancelled' \in [Runs -> BOOLEAN]
        /\ work' \in [Runs -> [Articles -> GoSteps]]
        /\ \A r \in Runs, a \in Articles : work'[r][a] = "none"
    BY <1>1 DEF Crash, Steps, GoSteps
  <2>3. UNCHANGED <<rows, file, at, todo, shown, evictions, faults, cancels>>
        /\ crashes' \in Nat
    BY <1>1 DEF Crash, TypeOK
  <2>4. TypeOK'
    BY <2>2, <2>3 DEF TypeOK, rows
  <2>5. WritersInv'
    BY <2>2, <2>3 DEF WritersInv
  <2> QED BY <2>1, <2>4, <2>5
<1>2. ASSUME NEW a \in Articles, Age(a)  PROVE ExtractionInv'
  BY <1>2 DEF Age, TypeOK, FrozenIsBacked, PreprintsAreNotKept, WritersInv, loop, bounds
<1> QED BY <1>1, <1>2

LEMMA ExtractionStep == ExtractionInv /\ [Next]_vars => ExtractionInv'
<1> SUFFICES ASSUME ExtractionInv, [Next]_vars  PROVE ExtractionInv'
  OBVIOUS
<1>1. ASSUME NEW r \in Runs, Begin(r) \/ Enrich(r) \/ Cancel(r)
      PROVE  ExtractionInv'
  BY <1>1, LoopStep, ClaimStep DEF Enrich
<1>2. ASSUME NEW r \in Runs, NEW a \in Articles, Goroutine(r, a)
      PROVE  ExtractionInv'
  BY <1>2, UnkeptGoroutineStep, MarkStep, FreezeStep, StampStep DEF Goroutine
<1>3. CASE Crash \/ \E a \in Articles : Age(a)
  BY <1>3, AroundStep
<1>4. CASE UNCHANGED vars
  BY <1>4 DEF vars, rows, loop, bounds, ExtractionInv, TypeOK, FrozenIsBacked,
              PreprintsAreNotKept, WritersInv
<1> QED BY <1>1, <1>2, <1>3, <1>4 DEF Next

LEMMA ExtractionStart == Init => ExtractionInv
BY ExtractionAssumption
   DEF Init, ExtractionInv, TypeOK, FrozenIsBacked, PreprintsAreNotKept, WritersInv,
       QuotesStatuses, Steps, GoSteps

-----------------------------------------------------------------------------
(* Theorems.                                                               *)

\* The inductive invariant of the extractor holds in every reachable state.
THEOREM ExtractionInvariant == Spec => []ExtractionInv
<1> QED BY ExtractionStart, ExtractionStep, PTL DEF Spec

\* A stamped path names a file, and a completed row has a path, whatever
\* crashes, races and lost writes came before (extractOne).
THEOREM FrozenFilesExist == Spec => []FrozenIsBacked
<1>1. ExtractionInv => FrozenIsBacked
  BY DEF ExtractionInv
<1> QED BY <1>1, ExtractionInvariant, PTL

\* No attempt leaves a row, a path or a file of a preprint behind.
THEOREM PreprintsStayUnkept == Spec => []PreprintsAreNotKept
<1>1. ExtractionInv => PreprintsAreNotKept
  BY DEF ExtractionInv
<1> QED BY <1>1, ExtractionInvariant, PTL

-----------------------------------------------------------------------------
(* How many goroutines hold the claim of an article.                       *)

\* The row accounts for one holder while it is pending or done; every other
\* holder has been evicted.
Accounted(a) == IF quotes[a] \in {"pending", "done"} THEN 1 ELSE 0

ClaimsInv ==
  \A a \in Published :
    /\ quotes[a] = "none" => Holders(a) = {}
    /\ Cardinality(Holders(a)) <= evictions + Accounted(a)

LEMMA HoldersFinite ==
  ASSUME NEW a
  PROVE  IsFiniteSet(Holders(a)) /\ Cardinality(Holders(a)) \in Nat
BY ExtractionAssumption, FS_Subset, FS_CardinalityType DEF Holders

\* Fewer holders, no fewer evictions, and a row that still accounts for one.
LEMMA FewerHolders ==
  ASSUME TypeOK, TypeOK', ClaimsInv, NEW a \in Published,
         Holders(a)' \subseteq Holders(a), evictions' >= evictions,
         quotes'[a] = "none" => quotes[a] = "none",
         Accounted(a)' >= Accounted(a)
  PROVE  /\ quotes'[a] = "none" => Holders(a)' = {}
         /\ Cardinality(Holders(a)') <= evictions' + Accounted(a)'
<1>1. /\ Cardinality(Holders(a)') <= Cardinality(Holders(a))
      /\ Cardinality(Holders(a)') \in Nat
      /\ Cardinality(Holders(a)) \in Nat
  BY HoldersFinite, FS_Subset, FS_CardinalityType
<1>2. Accounted(a) \in {0, 1} /\ Accounted(a)' \in {0, 1}
  BY DEF Accounted
<1>3. quotes'[a] = "none" => Holders(a)' = {}
  BY DEF ClaimsInv
<1>4. Cardinality(Holders(a)) <= evictions + Accounted(a)
  BY DEF ClaimsInv
<1>5. evictions \in Nat /\ evictions' \in Nat
  BY DEF TypeOK
<1> HIDE DEF Accounted
<1>6. Cardinality(Holders(a)') <= evictions' + Accounted(a)'
  BY <1>1, <1>2, <1>4, <1>5
<1> QED BY <1>3, <1>6

\* A holder leaves: the row need not account for one any more.
LEMMA HolderLeaves ==
  ASSUME TypeOK, TypeOK', ClaimsInv, NEW a \in Published, NEW r \in Holders(a),
         Holders(a)' = Holders(a) \ {r}, evictions' = evictions,
         quotes'[a] # "none"
  PROVE  Cardinality(Holders(a)') <= evictions' + Accounted(a)'
<1>1. /\ Cardinality(Holders(a)') = Cardinality(Holders(a)) - 1
      /\ Cardinality(Holders(a)) \in Nat
  BY HoldersFinite, FS_RemoveElement
<1>2. Accounted(a) \in {0, 1} /\ Accounted(a)' \in {0, 1}
  BY DEF Accounted
<1> QED BY <1>1, <1>2 DEF ClaimsInv, TypeOK

\* A claim is won: one holder more at most, and the row is pending.
LEMMA HolderComes ==
  ASSUME TypeOK, ClaimsInv, NEW r \in Runs, NEW a \in Published, at[r] = a,
         Won(r), quotes[a] = "none" \/ MayTake(a),
         Holders(a)' \subseteq Holders(a) \cup {r}
  PROVE  /\ quotes'[a] # "none"
         /\ Cardinality(Holders(a)') <= evictions' + Accounted(a)'
<1>0. a \in Articles
  BY ExtractionAssumption
<1>1. quotes'[a] = "pending"
  BY <1>0, PutTypes DEF Won, QuotesStatuses
<1>2. /\ Cardinality(Holders(a)') \in Nat
      /\ Cardinality(Holders(a)) \in Nat
      /\ Cardinality(Holders(a)') <= Cardinality(Holders(a)) + 1
  <2>1. /\ IsFiniteSet(Holders(a) \cup {r})
        /\ Cardinality(Holders(a) \cup {r}) =
             IF r \in Holders(a) THEN Cardinality(Holders(a))
             ELSE Cardinality(Holders(a)) + 1
    BY HoldersFinite, FS_AddElement
  <2>2. /\ IsFiniteSet(Holders(a)')
        /\ Cardinality(Holders(a)') <= Cardinality(Holders(a) \cup {r})
    BY <2>1, FS_Subset
  <2> QED BY <2>1, <2>2, HoldersFinite, FS_CardinalityType
<1>3. Accounted(a)' = 1
  BY <1>1 DEF Accounted
<1>4. CASE Holders(a) = {}
  <2>1. Cardinality(Holders(a)) = 0
    BY <1>4, FS_EmptySet
  <2>2. evictions' \in Nat
    BY DEF Won, TypeOK
  <2> QED BY <1>1, <1>2, <1>3, <2>1, <2>2
<1>5. CASE Holders(a) # {}
  <2>1. quotes[a] # "none"
    BY <1>5 DEF ClaimsInv
  <2>2. CASE stale[a]
    <3>1. evictions' = evictions + 1
      BY <1>5, <2>2 DEF Won
    <3>2. Accounted(a) \in {0, 1}
      BY DEF Accounted
    <3>3. Cardinality(Holders(a)) <= evictions + Accounted(a)
      BY DEF ClaimsInv
    <3> QED BY <1>1, <1>2, <1>3, <3>1, <3>2, <3>3 DEF TypeOK
  <2>3. CASE ~stale[a]
    <3>1. quotes[a] \in Claimable /\ evictions' = evictions
      BY <1>5, <2>1, <2>3 DEF MayTake, Won
    <3>2. Accounted(a) = 0
      BY <3>1 DEF Accounted, Claimable
    <3>3. Cardinality(Holders(a)) <= evictions + Accounted(a)
      BY DEF ClaimsInv
    <3> QED BY <1>1, <1>2, <1>3, <3>1, <3>2, <3>3 DEF TypeOK
  <2> QED BY <2>2, <2>3
<1> QED BY <1>4, <1>5

\* An article whose row and whose holders stay as they are.
LEMMA ClaimsFrame ==
  ASSUME TypeOK, TypeOK', ClaimsInv, NEW a \in Published,
         quotes'[a] = quotes[a], Holders(a)' \subseteq Holders(a),
         evictions' >= evictions
  PROVE  /\ quotes'[a] = "none" => Holders(a)' = {}
         /\ Cardinality(Holders(a)') <= evictions' + Accounted(a)'
<1>1. Accounted(a)' = Accounted(a)
  BY DEF Accounted
<1>2. Accounted(a)' >= Accounted(a)
  BY <1>1 DEF Accounted
<1> QED BY <1>2, FewerHolders

LEMMA ClaimsStep ==
  ExtractionInv /\ ExtractionInv' /\ ClaimsInv /\ [Next]_vars => ClaimsInv'
<1> SUFFICES ASSUME ExtractionInv, ExtractionInv', ClaimsInv, [Next]_vars,
                    NEW a \in Published
             PROVE  /\ quotes'[a] = "none" => Holders(a)' = {}
                    /\ Cardinality(Holders(a)') <= evictions' + Accounted(a)'
  BY DEF ClaimsInv
<1> USE DEF ExtractionInv
<1>0. a \in Articles /\ evictions \in Nat /\ TypeOK /\ TypeOK'
  BY ExtractionAssumption DEF TypeOK
<1>1. CASE /\ quotes'[a] = quotes[a]
           /\ Holders(a)' \subseteq Holders(a)
           /\ evictions' >= evictions
  BY <1>0, <1>1, ClaimsFrame
<1>2. ASSUME NEW r \in Runs,
             Begin(r) \/ Visit(r) \/ Wait(r) \/ Close(r) \/ Cancel(r)
      PROVE  quotes'[a] = quotes[a] /\ Holders(a)' = Holders(a) /\ evictions' = evictions
  BY <1>2 DEF Begin, Visit, Wait, Close, Cancel, Holders, rows
<1>3. ASSUME NEW r \in Runs, LoadArticle(r)
      PROVE  quotes'[a] = quotes[a] /\ Holders(a)' = Holders(a) /\ evictions' = evictions
  <2>1. UNCHANGED <<quotes, evictions>>
    BY <1>3 DEF LoadArticle, rows
  <2>2. at[r] \in Articles
    BY <1>3 DEF LoadArticle, WritersInv
  <2>3. CASE UNCHANGED work
    BY <2>1, <2>3 DEF Holders
  <2>4. CASE at[r] \notin Published /\ Spawn(r)
    <3>1. \A q \in Runs : work'[q][a] = work[q][a]
      BY <1>0, <2>2, <2>4, SpawnTypes
    <3> QED BY <2>1, <3>1 DEF Holders
  <2> QED BY <1>3, <2>3, <2>4 DEF LoadArticle
<1>4. ASSUME NEW r \in Runs, Claim(r) \/ InsertClaim(r)
      PROVE  /\ quotes'[a] = "none" => Holders(a)' = {}
             /\ Cardinality(Holders(a)') <= evictions' + Accounted(a)'
  <2>1. at[r] \in Published /\ at[r] \in Articles
    BY <1>4, ExtractionAssumption DEF Claim, InsertClaim, WritersInv
  <2>2. UNCHANGED work \/ (Won(r) /\ Spawn(r))
    BY <1>4 DEF Claim, InsertClaim, ClaimFails, Lost
  <2>3. \/ Won(r) /\ (quotes[at[r]] = "none" \/ MayTake(at[r]))
        \/ UNCHANGED <<rows, evictions>> /\ UNCHANGED work
    <3>1. CASE Claim(r)
      BY <3>1 DEF Claim, ClaimFails, Lost
    <3>2. CASE InsertClaim(r)
      BY <3>2 DEF InsertClaim, ClaimFails, Lost
    <3> QED BY <1>4, <3>1, <3>2
  <2>4. \A q \in Runs, b \in Articles :
          q # r \/ b # at[r] => work'[q][b] = work[q][b]
    BY <1>0, <2>1, <2>2, SpawnTypes
  <2>5. CASE UNCHANGED <<rows, evictions>> /\ UNCHANGED work
    BY <1>0, <1>1, <2>5 DEF rows, Holders
  <2>6. CASE Won(r) /\ at[r] = a /\ (quotes[a] = "none" \/ MayTake(a))
    <3>1. Holders(a)' \subseteq Holders(a) \cup {r}
      BY <1>0, <2>4 DEF Holders
    <3> QED BY <1>0, <2>6, <3>1, HolderComes
  <2>7. CASE Won(r) /\ at[r] # a
    <3>1. quotes'[a] = quotes[a]
      BY <1>0, <2>1, <2>7, PutTypes DEF Won, QuotesStatuses
    <3>2. Holders(a)' \subseteq Holders(a)
      BY <1>0, <2>4, <2>7 DEF Holders
    <3>3. evictions' >= evictions
      BY <1>0, <2>7 DEF Won
    <3> QED BY <1>1, <3>1, <3>2, <3>3
  <2> QED BY <2>3, <2>5, <2>6, <2>7
<1>5. ASSUME NEW r \in Runs, NEW b \in Articles,
             Admit(r, b) \/ Extract(r, b) \/ Freeze(r, b)
      PROVE  quotes'[a] = quotes[a] /\ Holders(a)' \subseteq Holders(a)
             /\ evictions' = evictions
  <2>1. UNCHANGED <<quotes, evictions>> /\ work[r][b] # "none"
    BY <1>5 DEF Admit, Extract, Freeze, rows
  <2>2. PICK step \in GoSteps : Go(r, b, step)
    BY <1>5 DEF Admit, Extract, Freeze, Empty, Keeps, GoSteps
  <2>3. \A q \in Runs, d \in Articles :
          q # r \/ d # b => work'[q][d] = work[q][d]
    BY <1>0, <2>2, GoTypes
  <2> QED BY <1>0, <2>1, <2>3 DEF Holders
<1>6. ASSUME NEW r \in Runs, NEW b \in Articles, MarkNoText(r, b) \/ MarkFailed(r, b)
      PROVE  /\ quotes'[a] = "none" => Holders(a)' = {}
             /\ Cardinality(Holders(a)') <= evictions' + Accounted(a)'
  <2>1. /\ "none" \in GoSteps /\ Go(r, b, "none")
        /\ r \in Holders(b) /\ evictions' = evictions
    BY <1>6 DEF MarkNoText, MarkFailed, GoSteps, Holders
  <2>2. /\ work'[r][b] = "none"
        /\ \A q \in Runs, d \in Articles :
             q # r \/ d # b => work'[q][d] = work[q][d]
    BY <1>0, <2>1, GoTypes
  <2>3. \/ UNCHANGED quotes
        \/ quotes'[b] \in Claimable /\ \A d \in Articles \ {b} : quotes'[d] = quotes[d]
    BY <1>0, <1>6, PutTypes DEF MarkNoText, MarkFailed, QuotesStatuses, Claimable
  <2>4. CASE b # a
    <3>1. quotes'[a] = quotes[a] /\ Holders(a)' = Holders(a)
      BY <1>0, <2>2, <2>3, <2>4 DEF Holders
    <3> QED BY <1>0, <1>1, <2>1, <3>1
  <2>5. CASE b = a
    <3>1. Holders(a)' = Holders(a) \ {r}
      BY <1>0, <2>2, <2>5 DEF Holders
    <3>2. quotes'[a] # "none"
      BY <1>0, <2>1, <2>3, <2>5 DEF ClaimsInv, Claimable
    <3>3. Cardinality(Holders(a)') <= evictions' + Accounted(a)'
      BY <1>0, <2>1, <2>5, <3>1, <3>2, HolderLeaves
    <3> QED BY <3>2, <3>3
  <2> QED BY <2>4, <2>5
<1>7. ASSUME NEW r \in Runs, NEW b \in Articles, Stamp(r, b)
      PROVE  /\ quotes'[a] = "none" => Holders(a)' = {}
             /\ Cardinality(Holders(a)') <= evictions' + Accounted(a)'
  <2>1. evictions' = evictions /\ work[r][b] # "none"
    BY <1>7 DEF Stamp
  <2>2. PICK step \in GoSteps : Go(r, b, step)
    BY <1>7 DEF Stamp, GoSteps
  <2>3. \A q \in Runs, d \in Articles :
          q # r \/ d # b => work'[q][d] = work[q][d]
    BY <1>0, <2>2, GoTypes
  <2>4. Holders(a)' \subseteq Holders(a)
    BY <1>0, <2>1, <2>3 DEF Holders
  <2>5. quotes'[a] = quotes[a] \/ quotes'[a] = "done"
    BY <1>0, <1>7, PutTypes DEF Stamp, Frozen, rows, QuotesStatuses
  <2>6. CASE quotes'[a] = "done"
    <3>1. Accounted(a)' >= Accounted(a)
      BY <2>6 DEF Accounted
    <3> QED BY <1>0, <2>1, <2>4, <2>6, <3>1, FewerHolders
  <2> QED BY <1>0, <1>1, <2>1, <2>4, <2>5, <2>6
<1>8. CASE Crash \/ (\E b \in Articles : Age(b)) \/ UNCHANGED vars
  <2>1. quotes' = quotes /\ evictions' = evictions
    BY <1>8 DEF Crash, Age, vars, rows
  <2>2. Holders(a)' \subseteq Holders(a)
    BY <1>0, <1>8 DEF Crash, Age, vars, Holders
  <2> QED BY <1>0, <1>1, <2>1, <2>2
<1> QED
  BY <1>0, <1>1, <1>2, <1>3, <1>4, <1>5, <1>6, <1>7, <1>8 DEF Next, Enrich, Goroutine

LEMMA ClaimsStart == Init => ClaimsInv
<1> SUFFICES ASSUME Init, NEW a \in Published
             PROVE  Holders(a) = {} /\ Cardinality(Holders(a)) <= evictions + Accounted(a)
  BY DEF ClaimsInv
<1>1. Holders(a) = {}
  BY ExtractionAssumption DEF Init, Holders
<1>2. Cardinality(Holders(a)) = 0
  BY <1>1, FS_EmptySet
<1> QED BY <1>1, <1>2 DEF Init, Accounted

LEMMA ClaimsBound == TypeOK /\ ClaimsInv => ClaimsExclude
<1> SUFFICES ASSUME TypeOK, ClaimsInv, NEW a \in Published
             PROVE  Cardinality(Holders(a)) <= 1 + evictions
  BY DEF ClaimsExclude
<1>1. Accounted(a) \in {0, 1} /\ Cardinality(Holders(a)) \in Nat
  BY HoldersFinite DEF Accounted
<1>2. Cardinality(Holders(a)) <= evictions + Accounted(a) /\ evictions \in Nat
  BY DEF ClaimsInv, TypeOK
<1> QED BY <1>1, <1>2

\* At most one goroutine extracts a published article, plus one for each
\* claim that was taken over from a holder that still ran (Quotes.Claim).
THEOREM ClaimsAreSingle == Spec => []ClaimsExclude
<1>1. ExtractionInv /\ ClaimsInv => ClaimsExclude
  BY ClaimsBound DEF ExtractionInv
<1> QED BY <1>1, ExtractionInvariant, ClaimsStart, ClaimsStep, PTL DEF Spec

-----------------------------------------------------------------------------
(* What holds as long as no call failed and no attempt was cancelled.      *)

\* Then only the attempts that have returned are cancelled, by River, and
\* they have waited for their goroutines.
AwaitedInv ==
  faults + cancels = 0 =>
    \A r \in Runs :
      /\ cancelled[r] => pc[r] = "closed"
      /\ pc[r] \in {"returned", "closed"} => Running(r) = {}

\* Faults and cancellations are only ever counted up.
LEMMA CountsGrow ==
  ASSUME TypeOK, [Next]_vars
  PROVE  /\ faults' \in Nat /\ cancels' \in Nat
         /\ faults' >= faults /\ cancels' >= cancels
<1>0. faults \in Nat /\ cancels \in Nat
  BY DEF TypeOK
<1>1. ASSUME NEW r \in Runs, Begin(r) \/ Wait(r) \/ Close(r) \/ Cancel(r)
      PROVE  faults' = faults /\ (cancels' = cancels \/ cancels' = cancels + 1)
  BY <1>1 DEF Begin, Wait, Close, Cancel, bounds
<1>2. ASSUME NEW r \in Runs, Visit(r) \/ LoadArticle(r) \/ Claim(r) \/ InsertClaim(r)
      PROVE  (faults' = faults \/ faults' = faults + 1) /\ cancels' = cancels
  BY <1>2 DEF Visit, LoadArticle, Claim, InsertClaim, ClaimFails, CallWorks,
              CallFails, FaultHappens, bounds
<1>3. ASSUME NEW r \in Runs, NEW a \in Articles, Goroutine(r, a)
      PROVE  (faults' = faults \/ faults' = faults + 1) /\ cancels' = cancels
  BY <1>3 DEF Goroutine, Admit, Extract, MarkNoText, Freeze, Stamp, MarkFailed,
              CallWorks, CallFails, FaultHappens, bounds
<1>4. CASE Crash \/ (\E a \in Articles : Age(a)) \/ UNCHANGED vars
  <2>1. UNCHANGED <<faults, cancels>>
    BY <1>4 DEF Crash, Age, vars, bounds
  <2> QED BY <1>0, <2>1
<1> QED BY <1>0, <1>1, <1>2, <1>3, <1>4 DEF Next, Enrich

LEMMA NoneCounted ==
  ASSUME NEW m \in Nat, NEW n \in Nat, m + n = 0
  PROVE  m = 0 /\ n = 0
OBVIOUS

\* A call that fails without a fault is one of a cancelled attempt.
LEMMA CalmCalls ==
  ASSUME TypeOK, NEW r \in Runs, CallFails(r), faults' + cancels' = 0,
         faults' \in Nat, cancels' \in Nat
  PROVE  cancelled[r]
<1>0. faults \in Nat
  BY DEF TypeOK
<1>1. faults' = 0
  BY NoneCounted
<1>2. faults' # faults + 1
  BY <1>0, <1>1
<1> QED BY <1>2, Zenon DEF CallFails, FaultHappens

LEMMA AwaitedStep ==
  ExtractionInv /\ AwaitedInv /\ [Next]_vars => AwaitedInv'
<1> SUFFICES ASSUME ExtractionInv, AwaitedInv, [Next]_vars,
                    faults' + cancels' = 0, NEW q \in Runs
             PROVE  /\ cancelled'[q] => pc'[q] = "closed"
                    /\ pc'[q] \in {"returned", "closed"} => Running(q)' = {}
  BY DEF AwaitedInv
<1>0. /\ TypeOK
      /\ faults \in Nat /\ cancels \in Nat /\ faults' \in Nat /\ cancels' \in Nat
      /\ faults + cancels = 0
  BY CountsGrow DEF ExtractionInv, TypeOK
<1>1. \A r \in Runs :
        /\ cancelled[r] => pc[r] = "closed"
        /\ pc[r] \in {"returned", "closed"} => Running(r) = {}
  BY <1>0 DEF AwaitedInv
<1>2. ASSUME NEW r \in Runs, Begin(r) \/ Wait(r) \/ Close(r) \/ Cancel(r)
      PROVE  /\ cancelled'[q] => pc'[q] = "closed"
             /\ pc'[q] \in {"returned", "closed"} => Running(q)' = {}
  <2>0. cancels' # cancels + 1
    <3>1. cancels' = 0 /\ cancels \in Nat
      BY <1>0, NoneCounted
    <3> QED BY <3>1
  <2>1. ~Cancel(r) /\ work' = work
    BY <1>2, <2>0, Zenon DEF Begin, Wait, Close, Cancel
  <2>2. Running(q)' = Running(q)
    BY <2>1 DEF Running
  <2>3. q # r => pc'[q] = pc[q] /\ cancelled'[q] = cancelled[q]
    BY <1>0, <1>2, <2>1 DEF Begin, Wait, Close, Goto, TypeOK
  <2>4. CASE Begin(r) /\ q = r
    BY <1>0, <1>1, <2>4 DEF Begin, Goto, TypeOK
  <2>5. CASE Wait(r) /\ q = r
    BY <1>0, <1>1, <2>2, <2>5 DEF Wait, Goto, TypeOK
  <2>6. CASE Close(r) /\ q = r
    BY <1>0, <1>1, <2>2, <2>6 DEF Close, Goto, TypeOK
  <2> QED BY <1>1, <1>2, <2>1, <2>2, <2>3, <2>4, <2>5, <2>6
<1>3. ASSUME NEW r \in Runs, Visit(r) \/ LoadArticle(r) \/ Claim(r) \/ InsertClaim(r)
      PROVE  /\ cancelled'[q] => pc'[q] = "closed"
             /\ pc'[q] \in {"returned", "closed"} => Running(q)' = {}
  <2>1. pc[r] \in {"next", "load", "claim", "insert"} /\ cancelled' = cancelled
    BY <1>3 DEF Visit, LoadArticle, Claim, InsertClaim
  <2>2. ~CallFails(r)
    BY <1>0, <1>1, <2>1, CalmCalls
  <2>3. \/ UNCHANGED <<pc, work>>
        \/ (Goto(r, "load") \/ Goto(r, "claim") \/ Goto(r, "insert")) /\ UNCHANGED work
        \/ Advance(r) /\ UNCHANGED work
        \/ Spawn(r) /\ ~Visit(r)
    BY <1>3, <2>2 DEF Visit, LoadArticle, Claim, InsertClaim, ClaimFails
  <2>4. Visit(r) \/ at[r] \in Articles
    BY <1>3, ExtractionAssumption
       DEF LoadArticle, Claim, InsertClaim, ExtractionInv, WritersInv
  <2>5. /\ pc'[r] \in {"next", "load", "claim", "insert"}
        /\ \A p \in Runs \ {r} : pc'[p] = pc[p] /\ Running(p)' = Running(p)
    <3>1. CASE UNCHANGED <<pc, work>>
      BY <2>1, <3>1 DEF Running
    <3>2. CASE /\ Goto(r, "load") \/ Goto(r, "claim") \/ Goto(r, "insert") \/ Advance(r)
               /\ UNCHANGED work
      BY <1>0, <3>2 DEF Running, Advance, Goto, TypeOK
    <3>3. CASE Spawn(r) /\ at[r] \in Articles
      <4>1. /\ pc'[r] = "next"
            /\ \A p \in Runs \ {r} : pc'[p] = pc[p]
            /\ \A p \in Runs, b \in Articles :
                 p # r \/ b # at[r] => work'[p][b] = work[p][b]
        BY <1>0, <3>3, SpawnTypes
      <4> QED BY <4>1 DEF Running
    <3> QED BY <2>3, <2>4, <3>1, <3>2, <3>3
  <2>6. CASE q = r
    BY <1>1, <2>1, <2>5, <2>6
  <2>7. CASE q # r
    BY <1>1, <2>1, <2>5, <2>7
  <2> QED BY <2>6, <2>7
<1>4. ASSUME pc' = pc, cancelled' = cancelled, Running(q)' \subseteq Running(q)
      PROVE  /\ cancelled'[q] => pc'[q] = "closed"
             /\ pc'[q] \in {"returned", "closed"} => Running(q)' = {}
  BY <1>1, <1>4
<1>5. ASSUME NEW r \in Runs, NEW a \in Articles, Goroutine(r, a)
      PROVE  /\ pc' = pc /\ cancelled' = cancelled
             /\ Running(q)' \subseteq Running(q)
  <2>1. pc' = pc /\ cancelled' = cancelled /\ work[r][a] # "none"
    BY <1>5 DEF Goroutine, Admit, Extract, MarkNoText, Freeze, Stamp, MarkFailed, loop
  <2>2. PICK step \in GoSteps : Go(r, a, step)
    BY <1>5 DEF Goroutine, Admit, Extract, MarkNoText, Freeze, Stamp, MarkFailed,
                Empty, Keeps, GoSteps
  <2>3. \A p \in Runs, b \in Articles : p # r \/ b # a => work'[p][b] = work[p][b]
    BY <1>0, <2>2, GoTypes
  <2> QED BY <2>1, <2>3 DEF Running
<1>6. CASE Crash
  BY <1>0, <1>6 DEF Crash, Running, TypeOK
<1>7. CASE (\E a \in Articles : Age(a)) \/ UNCHANGED vars
  BY <1>4, <1>7 DEF Age, vars, loop, Running
<1> QED BY <1>2, <1>3, <1>4, <1>5, <1>6, <1>7 DEF Next, Enrich

LEMMA AwaitedStart == Init => AwaitedInv
BY DEF Init, AwaitedInv, Running

\* Enrich waits for every goroutine it started, unless a database call of an
\* attempt failed or an attempt was cancelled (Enrich, wg.Wait).
THEOREM GoroutinesEndFirst == Spec => []GoroutinesAreAwaited
<1>1. ExtractionInv /\ AwaitedInv => GoroutinesAreAwaited
  <2> SUFFICES ASSUME ExtractionInv, AwaitedInv, NEW r \in Runs,
                      pc[r] \in {"returned", "closed"}, Running(r) # {}
               PROVE  faults + cancels > 0
    BY DEF GoroutinesAreAwaited
  <2> QED BY DEF AwaitedInv, ExtractionInv, TypeOK
<1>2. Init => AwaitedInv
  BY AwaitedStart
<1>3. ExtractionInv /\ AwaitedInv /\ [Next]_vars => AwaitedInv'
  BY AwaitedStep
<1> QED BY <1>1, <1>2, <1>3, ExtractionInvariant, PTL DEF Spec

-----------------------------------------------------------------------------
(* Complete quotes are never taken back.                                   *)

\* A row becomes done by the write of its only holder, which then ends, and
\* a row that is done cannot be claimed: as long as nothing failed, nobody
\* is left who could write it.
DoneInv ==
  evictions + faults + cancels = 0 =>
    \A a \in Articles : quotes[a] = "done" => Holders(a) = {}

LEMMA NothingCounted ==
  ASSUME NEW k \in Nat, NEW m \in Nat, NEW n \in Nat, k + m + n = 0
  PROVE  k = 0 /\ m = 0 /\ n = 0 /\ m + n = 0
OBVIOUS

\* What one step does to the row and the holders of an article: the holders
\* grow with a claim only, and only a holder or a claim writes the row.
LEMMA RowStep ==
  ASSUME ExtractionInv, NEW a \in Articles, [Next]_vars
  PROVE  \/ quotes'[a] = quotes[a] /\ Holders(a)' \subseteq Holders(a)
         \/ quotes[a] # "done" /\ quotes'[a] # "done"
         \/ Holders(a) # {} /\ Holders(a)' \subseteq Holders(a)
         \/ a \notin Published
<1> USE DEF ExtractionInv
<1>1. ASSUME NEW r \in Runs, Begin(r) \/ Visit(r) \/ Wait(r) \/ Close(r) \/ Cancel(r)
      PROVE  quotes'[a] = quotes[a] /\ Holders(a)' = Holders(a)
  BY <1>1 DEF Begin, Visit, Wait, Close, Cancel, Holders, rows
<1>2. ASSUME NEW r \in Runs, LoadArticle(r), a \in Published
      PROVE  quotes'[a] = quotes[a] /\ Holders(a)' = Holders(a)
  <2>1. quotes' = quotes /\ at[r] \in Articles
    BY <1>2 DEF LoadArticle, WritersInv, rows
  <2>2. CASE UNCHANGED work
    BY <2>1, <2>2 DEF Holders
  <2>3. CASE at[r] \notin Published /\ Spawn(r)
    <3>1. \A q \in Runs : work'[q][a] = work[q][a]
      BY <1>2, <2>1, <2>3, SpawnTypes
    <3> QED BY <2>1, <3>1 DEF Holders
  <2> QED BY <1>2, <2>2, <2>3 DEF LoadArticle
<1>3. ASSUME NEW r \in Runs, Claim(r) \/ InsertClaim(r)
      PROVE  \/ quotes'[a] = quotes[a] /\ Holders(a)' \subseteq Holders(a)
             \/ quotes[a] # "done" /\ quotes'[a] # "done"
  <2>1. at[r] \in Articles
    BY <1>3, ExtractionAssumption DEF Claim, InsertClaim, WritersInv
  <2>2. \/ Won(r) /\ (quotes[at[r]] = "none" \/ MayTake(at[r])) /\ (Spawn(r) \/ UNCHANGED work)
        \/ UNCHANGED <<quotes, work>>
    <3>1. CASE Claim(r)
      BY <3>1 DEF Claim, ClaimFails, Lost, rows
    <3>2. CASE InsertClaim(r)
      BY <3>2 DEF InsertClaim, ClaimFails, Lost, rows
    <3> QED BY <1>3, <3>1, <3>2
  <2>3. CASE UNCHANGED <<quotes, work>>
    BY <2>3 DEF Holders
  <2>4. CASE Won(r) /\ (quotes[at[r]] = "none" \/ MayTake(at[r])) /\ (Spawn(r) \/ UNCHANGED work)
    <3>1. "pending" \in QuotesStatuses
      BY DEF QuotesStatuses
    <3>2. /\ quotes'[at[r]] = "pending"
          /\ \A b \in Articles \ {at[r]} : quotes'[b] = quotes[b]
      BY <2>1, <2>4, <3>1, PutTypes DEF Won
    <3>3. quotes[at[r]] # "done"
      BY <2>4 DEF MayTake, Claimable
    <3>4. a # at[r] => \A q \in Runs : work'[q][a] = work[q][a]
      BY <2>1, <2>4, SpawnTypes
    <3>5. CASE a = at[r]
      BY <3>2, <3>3, <3>5
    <3>6. CASE a # at[r]
      BY <3>2, <3>4, <3>6 DEF Holders
    <3> QED BY <3>5, <3>6
  <2> QED BY <2>2, <2>3, <2>4
<1>4. ASSUME NEW r \in Runs, NEW b \in Articles, Goroutine(r, b)
      PROVE  /\ Holders(a)' \subseteq Holders(a)
             /\ quotes'[a] = quotes[a] \/ Holders(a) # {}
  <2>1. PICK step \in GoSteps : Go(r, b, step) /\ r \in Holders(b)
    BY <1>4 DEF Goroutine, Admit, Extract, MarkNoText, Freeze, Stamp, MarkFailed,
                Empty, Keeps, GoSteps, Holders
  <2>2. \A q \in Runs, d \in Articles :
          q # r \/ d # b => work'[q][d] = work[q][d]
    BY <2>1, GoTypes
  <2>3. Holders(a)' \subseteq Holders(a)
    BY <2>1, <2>2 DEF Holders
  <2>4. a # b => quotes'[a] = quotes[a]
    <3>1. UNCHANGED quotes \/ \E status \in QuotesStatuses : Put(b, status)
      BY <1>4 DEF Goroutine, Admit, Extract, MarkNoText, Freeze, Stamp, MarkFailed,
                  Frozen, QuotesStatuses, Claimable, rows
    <3> QED BY <3>1, PutTypes
  <2> QED BY <2>1, <2>3, <2>4
<1>5. CASE Crash \/ (\E b \in Articles : Age(b)) \/ UNCHANGED vars
  <2>1. quotes' = quotes
    BY <1>5 DEF Crash, Age, vars, rows
  <2>2. Holders(a)' \subseteq Holders(a)
    BY <1>5 DEF Crash, Age, vars, Holders
  <2> QED BY <2>1, <2>2
<1> QED BY <1>1, <1>2, <1>3, <1>4, <1>5 DEF Next, Enrich

\* Without evictions the holder that completes a row is its only one.
LEMMA LastHolder ==
  ASSUME TypeOK, ClaimsInv, NEW a \in Published, NEW r \in Holders(a),
         evictions = 0
  PROVE  Holders(a) = {r}
<1>1. /\ IsFiniteSet(Holders(a)) /\ Cardinality(Holders(a)) \in Nat
      /\ Cardinality(Holders(a) \ {r}) = Cardinality(Holders(a)) - 1
      /\ IsFiniteSet(Holders(a) \ {r})
  BY HoldersFinite, FS_RemoveElement
<1>2. Cardinality(Holders(a)) <= 1
  <2>1. Accounted(a) \in {0, 1}
    BY DEF Accounted
  <2>2. Cardinality(Holders(a)) <= 0 + Accounted(a)
    BY DEF ClaimsInv
  <2> QED BY <1>1, <2>1, <2>2
<1>3. Cardinality(Holders(a) \ {r}) \in Nat
  BY <1>1, FS_CardinalityType
<1>4. Cardinality(Holders(a) \ {r}) = 0
  BY <1>1, <1>2, <1>3
<1>5. Holders(a) \ {r} = {}
  BY <1>1, <1>4, FS_EmptySet
<1> QED BY <1>5

\* A row is completed by the write of a holder and by nothing else.
LEMMA Completion ==
  ASSUME ExtractionInv, NEW a \in Published, [Next]_vars,
         quotes[a] # "done", quotes'[a] = "done"
  PROVE  \E r \in Runs : Stamp(r, a)
<1> USE DEF ExtractionInv
<1>0. a \in Articles
  BY ExtractionAssumption
<1>1. ASSUME NEW r \in Runs,
             Begin(r) \/ Visit(r) \/ LoadArticle(r) \/ Wait(r) \/ Close(r) \/ Cancel(r)
      PROVE  FALSE
  BY <1>1 DEF Begin, Visit, LoadArticle, Wait, Close, Cancel, rows
<1>2. ASSUME NEW r \in Runs, Claim(r) \/ InsertClaim(r)
      PROVE  FALSE
  <2>1. at[r] \in Articles
    BY <1>2, ExtractionAssumption DEF Claim, InsertClaim, WritersInv
  <2>2. Put(at[r], "pending") /\ "pending" \in QuotesStatuses
    BY <1>2 DEF Claim, InsertClaim, ClaimFails, Lost, Won, QuotesStatuses, rows
  <2> QED BY <1>0, <2>1, <2>2, PutTypes
<1>3. ASSUME NEW r \in Runs, NEW b \in Articles,
             Admit(r, b) \/ Extract(r, b) \/ Freeze(r, b)
      PROVE  FALSE
  BY <1>3 DEF Admit, Extract, Freeze, rows
<1>4. ASSUME NEW r \in Runs, NEW b \in Articles, MarkNoText(r, b) \/ MarkFailed(r, b)
      PROVE  FALSE
  <2>1. UNCHANGED quotes \/ \E status \in Claimable : Put(b, status)
    BY <1>4 DEF MarkNoText, MarkFailed, Claimable
  <2> QED BY <1>0, <2>1, PutTypes DEF QuotesStatuses, Claimable
<1>5. ASSUME NEW r \in Runs, NEW b \in Articles, Stamp(r, b), b # a
      PROVE  FALSE
  <2>1. UNCHANGED quotes \/ Put(b, "done")
    BY <1>5 DEF Stamp, Frozen, rows
  <2> QED BY <1>0, <1>5, <2>1, PutTypes DEF QuotesStatuses
<1>6. CASE Crash \/ (\E b \in Articles : Age(b)) \/ UNCHANGED vars
  BY <1>6 DEF Crash, Age, vars, rows
<1> QED BY <1>0, <1>1, <1>2, <1>3, <1>4, <1>5, <1>6 DEF Next, Enrich, Goroutine

LEMMA EvictionsGrow ==
  ASSUME TypeOK, [Next]_vars
  PROVE  evictions' >= evictions
<1>0. evictions \in Nat
  BY DEF TypeOK
<1>1. ASSUME NEW r \in Runs, Begin(r) \/ Enrich(r) \/ Cancel(r)
      PROVE  evictions' = evictions \/ evictions' = evictions + 1
  BY <1>1 DEF Begin, Enrich, Visit, LoadArticle, Claim, InsertClaim, Wait, Close,
              Cancel, ClaimFails, Lost, Won
<1>2. ASSUME NEW r \in Runs, NEW a \in Articles, Goroutine(r, a)
      PROVE  evictions' = evictions
  BY <1>2 DEF Goroutine, Admit, Extract, MarkNoText, Freeze, Stamp, MarkFailed
<1>3. CASE Crash \/ (\E a \in Articles : Age(a)) \/ UNCHANGED vars
  <2>1. evictions' = evictions
    BY <1>3 DEF Crash, Age, vars
  <2> QED BY <1>0, <2>1
<1> QED BY <1>0, <1>1, <1>2, <1>3 DEF Next

LEMMA DoneStep ==
  /\ ExtractionInv /\ ExtractionInv' /\ ClaimsInv /\ AwaitedInv /\ DoneInv
  /\ [Next]_vars
  => DoneInv'
<1> SUFFICES ASSUME ExtractionInv, ExtractionInv', ClaimsInv, AwaitedInv, DoneInv,
                    [Next]_vars, evictions' + faults' + cancels' = 0,
                    NEW a \in Articles, quotes'[a] = "done"
             PROVE  Holders(a)' = {}
  BY DEF DoneInv
<1>0. TypeOK /\ TypeOK' /\ a \in Published
  BY DEF ExtractionInv, PreprintsAreNotKept
<1>1. /\ evictions' = 0 /\ faults' = 0 /\ cancels' = 0
      /\ evictions' \in Nat /\ faults' \in Nat /\ cancels' \in Nat
      /\ faults' + cancels' = 0
  BY <1>0, NothingCounted DEF TypeOK
<1>2. evictions = 0 /\ evictions + faults + cancels = 0 /\ faults + cancels = 0
  <2>1. evictions \in Nat /\ faults \in Nat /\ cancels \in Nat
    BY <1>0 DEF TypeOK
  <2>2. evictions' >= evictions /\ faults' >= faults /\ cancels' >= cancels
    BY <1>0, CountsGrow, EvictionsGrow
  <2>3. evictions = 0 /\ faults = 0 /\ cancels = 0
    BY <1>1, <2>1, <2>2
  <2> QED BY <2>3
<1>3. CASE quotes[a] = "done"
  <2>1. Holders(a) = {}
    BY <1>2, <1>3 DEF DoneInv
  <2> QED BY <1>0, <1>3, <2>1, RowStep
<1>4. CASE quotes[a] # "done"
  <2>1. PICK r \in Runs : Stamp(r, a)
    BY <1>0, <1>4, Completion
  <2>2. r \in Holders(a)
    BY <2>1 DEF Stamp, Holders
  <2>3. Holders(a) = {r}
    BY <1>0, <1>2, <2>2, LastHolder
  <2>4. ~CallFails(r)
    <3>1. ASSUME cancelled[r]  PROVE FALSE
      <4>1. Running(r) = {}
        BY <1>2, <3>1 DEF AwaitedInv
      <4> QED BY <2>2, <4>1 DEF Holders, Running
    <3> QED BY <1>0, <1>1, <3>1, CalmCalls
  <2>5. Go(r, a, "none") /\ "none" \in GoSteps
    BY <2>1, <2>4 DEF Stamp, GoSteps
  <2>6. work'[r][a] = "none" /\ \A q \in Runs \ {r} : work'[q][a] = work[q][a]
    BY <1>0, <2>5, GoTypes
  <2> QED BY <2>3, <2>6 DEF Holders
<1> QED BY <1>3, <1>4

LEMMA DoneStart == Init => DoneInv
BY DEF Init, DoneInv

LEMMA DoneInvariant == Spec => [](ExtractionInv /\ ClaimsInv /\ AwaitedInv /\ DoneInv)
<1>1. Init => ClaimsInv /\ AwaitedInv /\ DoneInv
  BY ClaimsStart, AwaitedStart, DoneStart
<1>2. /\ ExtractionInv /\ ExtractionInv' /\ ClaimsInv /\ AwaitedInv /\ DoneInv
      /\ [Next]_vars
      => ClaimsInv' /\ AwaitedInv' /\ DoneInv'
  BY ClaimsStep, AwaitedStep, DoneStep
<1> QED BY <1>1, <1>2, ExtractionInvariant, PTL DEF Spec

\* Complete quotes are not taken back by a claim, a failure or a rerun, unless
\* a holder was evicted, a call failed or an attempt was cancelled before.
THEOREM CompleteQuotesStay == Spec => DoneStays
<1>1. ExtractionInv /\ DoneInv /\ [Next]_vars =>
        [\A a \in Articles :
           quotes[a] = "done" /\ evictions + faults + cancels = 0
           => quotes'[a] = "done"]_vars
  <2> SUFFICES ASSUME ExtractionInv, DoneInv, [Next]_vars, NEW a \in Articles,
                      quotes[a] = "done", evictions + faults + cancels = 0
               PROVE  quotes'[a] = "done"
    OBVIOUS
  <2>1. Holders(a) = {} /\ a \in Published
    BY DEF DoneInv, ExtractionInv, PreprintsAreNotKept
  <2> QED BY <2>1, RowStep
<1> QED BY <1>1, DoneInvariant, PTL DEF Spec, DoneStays
=============================================================================
