-------------------------- MODULE JobCreation_proofs --------------------------
(***************************************************************************)
(* Theorems about JobCreation, for every finite set of clients.            *)
(*                                                                         *)
(* LockHolds bounds the creators the Redis lock lets in at a time;         *)
(* RepliesAreBacked says what an answer is worth; EarlierJobsAreFound when *)
(* two jobs of one spelling are excluded; NoKeyIsForgotten which requests  *)
(* leave their keys behind; JobsLiveOnce that every job lives the life of  *)
(* JobLifecycle.                                                           *)
(***************************************************************************)
EXTENDS JobCreation, FiniteSetTheorems, TLAPS

-----------------------------------------------------------------------------
(* Types.                                                                  *)

LEMMA AnswerTypes ==
  ASSUME TypeOK, NEW c \in Clients,
         NEW kind \in {"none", "created", "attached", "error"},
         NEW id \in Clients \cup {None}, Answer(c, kind, id)
  PROVE  /\ pc' = [pc EXCEPT ![c] = "closed"]
         /\ reply' \in [Clients -> [kind : {"none", "created", "attached", "error"},
                                    id : Clients \cup {None}]]
BY DEF TypeOK, Answer, Goto

LEMMA OutcomeTypes ==
  ASSUME TypeOK, NEW c \in Clients, NEW ok, Outcome(c, ok)
  PROVE  /\ pc' = [pc EXCEPT ![c] = "closed"]
         /\ reply' \in [Clients -> [kind : {"none", "created", "attached", "error"},
                                    id : Clients \cup {None}]]
BY AnswerTypes DEF Outcome

LEMMA TypesStep == TypeOK /\ [Next]_vars => TypeOK'
<1> SUFFICES ASSUME TypeOK, [Next]_vars  PROVE TypeOK'
  OBVIOUS
<1> USE DEF TypeOK, Goto, Steps, CallWorks, CallFails, Applied
<1>1. ASSUME NEW c \in Clients, Request(c)  PROVE TypeOK'
  BY <1>1 DEF Request, Matching
<1>2. ASSUME NEW c \in Clients, Find(c)  PROVE TypeOK'
  <2>1. CASE Goto(c, "lock") /\ UNCHANGED reply
    BY <1>2, <2>1 DEF Find
  <2>2. CASE \E d \in Matching(c) : Answer(c, "attached", d)
    BY <1>2, <2>2, AnswerTypes DEF Find, Matching
  <2> QED BY <1>2, <2>1, <2>2 DEF Find
<1>3. ASSUME NEW c \in Clients, Lock(c)  PROVE TypeOK'
  <2>1. lock' \in Clients \cup {None}
    BY <1>3 DEF Lock
  <2> QED BY <1>3, <2>1 DEF Lock
<1>4. ASSUME NEW c \in Clients, Pend(c)  PROVE TypeOK'
  BY <1>4 DEF Pend
<1>5. ASSUME NEW c \in Clients, InsertLocked(c)  PROVE TypeOK'
  BY <1>5 DEF InsertLocked, Inserted
<1>6. ASSUME NEW c \in Clients, Release(c)  PROVE TypeOK'
  BY <1>6, OutcomeTypes DEF Release, KeysDeleted
<1>7. ASSUME NEW c \in Clients, GetPending(c)  PROVE TypeOK'
  <2>1. CASE Goto(c, "insert") /\ UNCHANGED reply
    BY <1>7, <2>1 DEF GetPending
  <2>2. CASE pending # NoPending /\ Answer(c, "attached", pending.id)
    BY <1>7, <2>2, AnswerTypes DEF GetPending
  <2> QED BY <1>7, <2>1, <2>2 DEF GetPending
<1>8. ASSUME NEW c \in Clients, InsertUnlocked(c)  PROVE TypeOK'
  BY <1>8, OutcomeTypes DEF InsertUnlocked, Inserted
<1>9. ASSUME NEW c \in Clients, Disconnect(c) \/ WorkerEnds(c)  PROVE TypeOK'
  BY <1>9 DEF Disconnect, WorkerEnds
<1>10. CASE LockExpires \/ PendingExpires
  BY <1>10 DEF LockExpires, PendingExpires
<1>11. CASE Crash
  <2>1. gone' \in [Clients -> BOOLEAN] /\ pc' \in [Clients -> Steps]
    BY <1>11 DEF Crash
  <2> QED BY <1>11, <2>1, CreationBounds DEF Crash
<1>12. CASE UNCHANGED vars
  BY <1>12 DEF vars
<1> QED
  BY <1>1, <1>2, <1>3, <1>4, <1>5, <1>6, <1>7, <1>8, <1>9, <1>10, <1>11, <1>12
     DEF Next, Handler

LEMMA TypesInit == Init => TypeOK
BY DEF Init, TypeOK, NoReply, Steps

\* Every variable keeps its type.
THEOREM CreationTypes == Spec => []TypeOK
<1> QED BY TypesInit, TypesStep, PTL DEF Spec

-----------------------------------------------------------------------------
(* The lock.                                                               *)

\* Creators that do not own the lock got past it by its expiry.
Intruders == Section \ {lock}
LockInv == Cardinality(Intruders) <= expiries

LEMMA SectionSize ==
  ASSUME NEW x
  PROVE  /\ IsFiniteSet(Section \ {x})
         /\ Cardinality(Section) \in Nat
         /\ Cardinality(Section \ {x}) \in Nat
         /\ Cardinality(Section \ {x}) =
              IF x \in Section THEN Cardinality(Section) - 1
              ELSE Cardinality(Section)
<1>1. IsFiniteSet(Section)
  BY ClientsAssumption, FS_Subset DEF Section
<1>2. IsFiniteSet(Section \ {x})
  BY <1>1, FS_Subset
<1> QED BY <1>1, <1>2, FS_CardinalityType, FS_RemoveElement

LEMMA AtMostOneMore ==
  /\ Cardinality(Section) \in Nat
  /\ Cardinality(Section \ {lock}) \in Nat
  /\ Cardinality(Section \ {lock}) >= Cardinality(Section) - 1
<1>1. /\ Cardinality(Section) \in Nat
      /\ Cardinality(Section \ {lock}) \in Nat
      /\ Cardinality(Section \ {lock}) =
           IF lock \in Section THEN Cardinality(Section) - 1
           ELSE Cardinality(Section)
  BY SectionSize
<1> QED BY <1>1

\* Fewer intruders are no problem.
LEMMA FewerIntruders ==
  ASSUME TypeOK, LockInv, Intruders' \subseteq Intruders, expiries' = expiries
  PROVE  LockInv'
<1>1. IsFiniteSet(Intruders) /\ Cardinality(Intruders) \in Nat
  BY SectionSize DEF Intruders
<1>2. Cardinality(Intruders') <= Cardinality(Intruders)
      /\ Cardinality(Intruders') \in Nat
  BY <1>1, FS_Subset, FS_CardinalityType
<1>3. Cardinality(Intruders)' = Cardinality(Intruders')
  OBVIOUS
<1> QED BY <1>1, <1>2, <1>3 DEF LockInv, TypeOK

LEMMA LockStep == TypeOK /\ LockInv /\ [Next]_vars => LockInv'
<1> SUFFICES ASSUME TypeOK, LockInv, [Next]_vars  PROVE LockInv'
  OBVIOUS
<1>0. None \notin Section
  BY ClientsAssumption DEF Section
<1> USE DEF TypeOK, Goto, Steps
<1>1. CASE Section' \subseteq Section /\ lock' = lock /\ expiries' = expiries
  BY <1>1, FewerIntruders DEF Intruders
<1>2. ASSUME NEW c \in Clients, Lock(c)  PROVE LockInv'
  <2>1. Section' \subseteq Section \cup {c} /\ expiries' = expiries
    BY <1>2 DEF Lock, Section
  <2>2. CASE lock' = lock /\ pc'[c] = "get"
    <3>1. Section' \subseteq Section
      BY <1>2, <2>2 DEF Lock, Section
    <3> QED BY <1>1, <2>1, <2>2, <3>1
  <2>3. CASE lock = None /\ lock' = c
    <3>1. Intruders' \subseteq Intruders
      BY <1>0, <2>1, <2>3 DEF Intruders
    <3> QED BY <2>1, <3>1, FewerIntruders
  <2> QED BY <1>2, <2>2, <2>3 DEF Lock
<1>3. ASSUME NEW c \in Clients, Release(c)  PROVE LockInv'
  <2>1. c \in Section
    BY <1>3 DEF Release, Section
  <2>2. Section' = Section \ {c} /\ expiries' = expiries
    BY <1>3, OutcomeTypes DEF Release, Section
  <2>3. CASE lock' = lock
    BY <1>1, <2>2, <2>3
  <2>4. CASE lock' = None
    <3>1. Intruders' = Section \ {c}
      BY <1>0, <2>2, <2>4 DEF Intruders
    <3>2. /\ Cardinality(Section) \in Nat
          /\ Cardinality(Section \ {c}) = Cardinality(Section) - 1
      BY <2>1, SectionSize
    <3>3. /\ Cardinality(Section \ {lock}) \in Nat
          /\ Cardinality(Section \ {lock}) >= Cardinality(Section) - 1
      BY AtMostOneMore
    <3>4. Cardinality(Intruders)' = Cardinality(Section \ {c})
      BY <3>1
    <3> QED BY <2>2, <3>2, <3>3, <3>4 DEF LockInv, Intruders
  <2> QED BY <1>3, <2>3, <2>4 DEF Release, KeysDeleted
<1>4. CASE LockExpires
  <2>1. Section' = Section /\ lock' = None /\ expiries' = expiries + 1
    BY <1>4 DEF LockExpires, Section
  <2>2. Intruders' = Section
    BY <1>0, <2>1 DEF Intruders
  <2>3. Cardinality(Intruders)' = Cardinality(Section)
    BY <2>2
  <2>4. /\ Cardinality(Section) \in Nat
        /\ Cardinality(Section \ {lock}) \in Nat
        /\ Cardinality(Section \ {lock}) >= Cardinality(Section) - 1
    BY AtMostOneMore
  <2> QED BY <2>1, <2>3, <2>4 DEF LockInv, Intruders
<1>5. ASSUME NEW c \in Clients,
             Request(c) \/ Find(c) \/ GetPending(c) \/ InsertUnlocked(c)
      PROVE  LockInv'
  <2>1. pc[c] \in {"idle", "find", "get", "insert"}
        /\ pc'[c] \in {"find", "lock", "insert", "closed"}
        /\ \A d \in Clients \ {c} : pc'[d] = pc[d]
    BY <1>5, OutcomeTypes
       DEF Request, Find, GetPending, InsertUnlocked, Answer
  <2>2. Section' \subseteq Section
    BY <2>1 DEF Section
  <2> QED BY <1>1, <1>5, <2>2 DEF Request, Find, GetPending, InsertUnlocked
<1>6. ASSUME NEW c \in Clients, Pend(c) \/ InsertLocked(c)  PROVE LockInv'
  <2>1. Section' \subseteq Section
    BY <1>6 DEF Pend, InsertLocked, Section
  <2> QED BY <1>1, <1>6, <2>1 DEF Pend, InsertLocked
<1>7. ASSUME NEW c \in Clients, Disconnect(c) \/ WorkerEnds(c)  PROVE LockInv'
  BY <1>1, <1>7 DEF Disconnect, WorkerEnds, Section
<1>8. CASE PendingExpires \/ UNCHANGED vars
  BY <1>1, <1>8 DEF PendingExpires, vars, Section
<1>9. CASE Crash
  <2>1. Section' \subseteq Section
    BY <1>9 DEF Crash, Section
  <2> QED BY <1>1, <1>9, <2>1 DEF Crash
<1> QED
  BY <1>2, <1>3, <1>4, <1>5, <1>6, <1>7, <1>8, <1>9 DEF Next, Handler

\* The lock admits one creator, and one more for each time its TTL ran out.
THEOREM LockHolds == Spec => []LockExcludes
<1>1. Init => LockInv
  <2> SUFFICES ASSUME Init  PROVE LockInv
    OBVIOUS
  <2>1. Intruders = {}
    BY DEF Init, Intruders, Section
  <2> QED BY <2>1, FS_EmptySet DEF Init, LockInv
<1>2. TypeOK /\ LockInv => LockExcludes
  <2>1. /\ Cardinality(Section) \in Nat
        /\ Cardinality(Section \ {lock}) \in Nat
        /\ Cardinality(Section \ {lock}) >= Cardinality(Section) - 1
    BY AtMostOneMore
  <2> QED BY <2>1 DEF LockInv, Intruders, LockExcludes, TypeOK
<1> QED BY <1>1, <1>2, LockStep, CreationTypes, PTL DEF Spec

-----------------------------------------------------------------------------
(* The answers.                                                            *)

\* Why attaching to d is no lie: the last disjuncts of ReplyIsBacked.
Backed(d) ==
  \/ rows[d] # "none"
  \/ ToBeInserted(d)
  \/ gone[d]
  \/ ~stored[d] /\ (pc[d] = "release" \/ reply[d].kind = "error")

BackedInv ==
  /\ \A c \in Clients : stored[c] => rows[c] # "none"
  /\ \A c \in Clients : reply[c].kind # "none" => pc[c] = "closed"
  /\ pending # NoPending => Backed(pending.id)
  /\ \A c \in Clients :
       /\ reply[c].kind = "created" => rows[c] # "none"
       /\ reply[c].kind = "attached" =>
            reply[c].id \in Clients /\ Backed(reply[c].id)

\* What the end of a handler does to the answers.
LEMMA AnswerEffect ==
  ASSUME TypeOK, NEW c \in Clients,
         NEW kind \in {"none", "created", "attached", "error"},
         NEW id \in Clients \cup {None}, Answer(c, kind, id)
  PROVE  /\ pc'[c] = "closed"
         /\ \A d \in Clients \ {c} : pc'[d] = pc[d] /\ reply'[d] = reply[d]
         /\ reply'[c] = IF gone[c] THEN reply[c] ELSE [kind |-> kind, id |-> id]
BY DEF TypeOK, Answer, Goto, Steps

\* A handler step moves one client and stores at most its job.
LEMMA HandlerFrame ==
  ASSUME TypeOK, NEW c \in Clients, Handler(c)
  PROVE  /\ pc[c] \notin {"idle", "closed"}
         /\ \A d \in Clients \ {c} :
              /\ pc'[d] = pc[d] /\ reply'[d] = reply[d]
              /\ stored'[d] = stored[d]
         /\ \A d \in Clients : rows[d] # "none" => rows'[d] # "none"
         /\ gone' = gone
<1> USE DEF TypeOK, Goto
<1>1. CASE Find(c)
  BY <1>1, AnswerEffect DEF Find, Matching
<1>2. CASE Lock(c) \/ Pend(c)
  BY <1>2 DEF Lock, Pend
<1>3. CASE InsertLocked(c)
  BY <1>3 DEF InsertLocked, Inserted
<1>4. CASE Release(c)
  BY <1>4, AnswerEffect DEF Release, Outcome
<1>5. CASE GetPending(c)
  <2>1. CASE Goto(c, "insert") /\ UNCHANGED reply
    BY <1>5, <2>1 DEF GetPending
  <2>2. CASE pending # NoPending /\ Answer(c, "attached", pending.id)
    <3>1. pending.id \in Clients
      BY <2>2
    <3>2. \A d \in Clients \ {c} : pc'[d] = pc[d] /\ reply'[d] = reply[d]
      BY <2>2, <3>1, AnswerEffect
    <3> QED BY <1>5, <3>2 DEF GetPending
  <2> QED BY <1>5, <2>1, <2>2 DEF GetPending
<1>6. CASE InsertUnlocked(c)
  BY <1>6, AnswerEffect DEF InsertUnlocked, Inserted, Outcome
<1> QED BY <1>1, <1>2, <1>3, <1>4, <1>5, <1>6 DEF Handler

\* Once backed, always backed.
LEMMA StaysBacked ==
  ASSUME TypeOK, BackedInv, NEW d \in Clients, Backed(d), [Next]_vars
  PROVE  Backed(d)'
<1> USE DEF TypeOK, Goto
<1>1. CASE gone'[d]
  BY <1>1 DEF Backed
<1>2. CASE rows'[d] # "none"
  BY <1>2 DEF Backed
<1>3. ASSUME gone' = gone, rows' = rows, pc' = pc, stored' = stored, reply' = reply
      PROVE  Backed(d)'
  BY <1>3 DEF Backed, ToBeInserted
<1>4. ASSUME NEW c \in Clients, Handler(c)  PROVE Backed(d)'
  <2>1. CASE gone[d] \/ rows[d] # "none"
    BY <1>1, <1>2, <1>4, <2>1, HandlerFrame
  <2>2. CASE d # c
    <3>1. CASE ToBeInserted(d)
      BY <1>4, <2>2, <3>1, HandlerFrame DEF Backed, ToBeInserted
    <3>2. CASE ~ToBeInserted(d)
      BY <1>4, <2>1, <2>2, <3>2, HandlerFrame DEF Backed, ToBeInserted
    <3> QED BY <3>1, <3>2
  <2>3. CASE d = c /\ ~gone[d] /\ rows[d] = "none"
    <3>1. \/ ToBeInserted(c)
          \/ ~stored[c] /\ (pc[c] = "release" \/ reply[c].kind = "error")
      BY <2>3 DEF Backed
    <3>2. reply[c].kind # "error"
      BY <1>4, HandlerFrame DEF BackedInv
    <3>3. CASE pc[c] = "pend"
      <4>1. Pend(c)
        BY <1>4, <3>3 DEF Handler, Find, Lock, InsertLocked, Release,
           GetPending, InsertUnlocked
      <4>2. pc'[c] = "insert_locked"
        BY <4>1 DEF Pend
      <4> QED BY <2>3, <4>2 DEF Backed, ToBeInserted
    <3>4. CASE pc[c] = "insert_locked"
      <4>1. InsertLocked(c)
        BY <1>4, <3>4 DEF Handler, Find, Lock, Pend, Release, GetPending,
           InsertUnlocked
      <4>2. pc'[c] = "release" /\ (rows'[c] = "active" \/ stored'[c] = FALSE)
        BY <4>1 DEF InsertLocked, Inserted
      <4> QED BY <1>2, <2>3, <4>2 DEF Backed
    <3>5. CASE pc[c] = "release" /\ ~stored[c]
      <4>1. Release(c)
        BY <1>4, <3>5 DEF Handler, Find, Lock, Pend, InsertLocked, GetPending,
           InsertUnlocked
      <4>2. Answer(c, "error", None) /\ stored' = stored
        BY <3>5, <4>1 DEF Release, Outcome
      <4>3. reply'[c].kind = "error"
        BY <2>3, <4>2 DEF Answer
      <4> QED BY <2>3, <3>5, <4>2, <4>3 DEF Backed
    <3> QED BY <3>1, <3>2, <3>3, <3>4, <3>5 DEF ToBeInserted
  <2> QED BY <2>1, <2>2, <2>3
<1>5. ASSUME NEW c \in Clients, Request(c)  PROVE Backed(d)'
  <2>1. gone' = gone /\ rows' = rows /\ stored' = stored /\ reply' = reply
    BY <1>5 DEF Request
  <2>2. pc[c] = "idle" /\ \A x \in Clients \ {c} : pc'[x] = pc[x]
    BY <1>5 DEF Request
  <2> QED BY <2>1, <2>2 DEF Backed, ToBeInserted
<1>6. ASSUME NEW c \in Clients, Disconnect(c) \/ WorkerEnds(c)  PROVE Backed(d)'
  BY <1>6 DEF Disconnect, WorkerEnds, Backed, ToBeInserted
<1>7. CASE LockExpires \/ PendingExpires \/ UNCHANGED vars
  BY <1>3, <1>7 DEF LockExpires, PendingExpires, vars
<1>8. CASE Crash
  BY <1>8 DEF Crash, Backed, ToBeInserted, BackedInv
<1> QED
  BY <1>4, <1>5, <1>6, <1>7, <1>8 DEF Next

LEMMA BackedStep == TypeOK /\ BackedInv /\ [Next]_vars => BackedInv'
<1> SUFFICES ASSUME TypeOK, BackedInv, [Next]_vars  PROVE BackedInv'
  OBVIOUS
<1> USE DEF TypeOK, Goto
<1>0. \A d \in Clients : Backed(d) => Backed(d)'
  BY StaysBacked
<1>1. ASSUME UNCHANGED <<stored, reply>>, pending' \in {pending, NoPending},
             \A d \in Clients : rows[d] # "none" => rows'[d] # "none",
             \A d \in Clients : pc[d] = "closed" => pc'[d] = "closed"
      PROVE  BackedInv'
  BY <1>0, <1>1 DEF BackedInv
<1>2. ASSUME NEW c \in Clients, NEW kind \in {"created", "attached", "error"},
             NEW id \in Clients \cup {None}, Answer(c, kind, id),
             kind = "created" => rows'[c] # "none",
             kind = "attached" => id \in Clients /\ Backed(id),
             pending' \in {pending, NoPending}, UNCHANGED stored,
             pc[c] # "closed",
             \A d \in Clients : rows[d] # "none" => rows'[d] # "none"
      PROVE  BackedInv'
  <2>1. /\ pc'[c] = "closed"
        /\ \A d \in Clients \ {c} : pc'[d] = pc[d] /\ reply'[d] = reply[d]
        /\ reply'[c] \in {reply[c], [kind |-> kind, id |-> id]}
    BY <1>2 DEF Answer, Steps
  <2>2. \A d \in Clients : stored'[d] => rows'[d] # "none"
    BY <1>2 DEF BackedInv
  <2>3. \A d \in Clients : reply'[d].kind # "none" => pc'[d] = "closed"
    BY <2>1 DEF BackedInv
  <2>4. pending' # NoPending => Backed(pending.id)' /\ pending' = pending
    BY <1>0, <1>2 DEF BackedInv
  <2>5. reply[c].kind = "none"
    BY <1>2 DEF BackedInv
  <2>6. ASSUME NEW d \in Clients
        PROVE  /\ reply'[d].kind = "created" => rows'[d] # "none"
               /\ reply'[d].kind = "attached" =>
                    reply'[d].id \in Clients /\ Backed(reply[d].id)'
    <3>1. CASE d # c
      BY <1>0, <1>2, <2>1, <3>1 DEF BackedInv
    <3>2. CASE d = c /\ reply'[c] = reply[c]
      BY <2>5, <3>2
    <3>3. CASE d = c /\ reply'[c] = [kind |-> kind, id |-> id]
      BY <1>0, <1>2, <3>3
    <3> QED BY <2>1, <3>1, <3>2, <3>3
  <2> QED BY <2>2, <2>3, <2>4, <2>6 DEF BackedInv
<1>a. ASSUME NEW c \in Clients, Find(c)  PROVE BackedInv'
  <2>1. CASE Goto(c, "lock") /\ UNCHANGED reply
    BY <1>1, <1>a, <2>1 DEF Find
  <2>2. ASSUME NEW d \in Matching(c), Answer(c, "attached", d)
        PROVE  BackedInv'
    <3>1. d \in Clients /\ Backed(d)
      BY DEF Matching, Backed
    <3> QED BY <1>2, <1>a, <2>2, <3>1 DEF Find
  <2> QED BY <1>a, <2>1, <2>2 DEF Find
<1>b. ASSUME NEW c \in Clients, Lock(c)  PROVE BackedInv'
  BY <1>1, <1>b DEF Lock
<1>c. ASSUME NEW c \in Clients, Pend(c)  PROVE BackedInv'
  <2>1. CASE UNCHANGED pending
    BY <1>1, <1>c, <2>1 DEF Pend
  <2>2. CASE pending' = [id |-> c, under |-> lock]
    <3>1. pc'[c] = "insert_locked"
      BY <1>c DEF Pend
    <3>2. Backed(c)'
      BY <3>1 DEF Backed, ToBeInserted
    <3>3. UNCHANGED <<rows, stored, reply>> /\ pc[c] # "closed"
          /\ \A d \in Clients \ {c} : pc'[d] = pc[d]
      BY <1>c DEF Pend
    <3> QED BY <1>0, <2>2, <3>2, <3>3 DEF BackedInv
  <2> QED BY <1>c, <2>1, <2>2 DEF Pend
<1>d. ASSUME NEW c \in Clients, InsertLocked(c)  PROVE BackedInv'
  <2>1. /\ UNCHANGED <<reply, pending>> /\ pc[c] = "insert_locked"
        /\ \A d \in Clients \ {c} : pc'[d] = pc[d] /\ stored'[d] = stored[d]
        /\ \A d \in Clients : rows[d] # "none" => rows'[d] # "none"
        /\ stored'[c] => rows'[c] # "none"
    BY <1>d DEF InsertLocked, Inserted
  <2> QED BY <1>0, <2>1 DEF BackedInv
<1>e. ASSUME NEW c \in Clients, Release(c)  PROVE BackedInv'
  <2>1. /\ pending' \in {pending, NoPending} /\ UNCHANGED <<rows, stored>>
        /\ pc[c] = "release" /\ Outcome(c, stored[c])
    BY <1>e DEF Release, KeysDeleted
  <2>2. CASE stored[c]
    <3>1. rows'[c] # "none" /\ Answer(c, "created", c)
      BY <2>1, <2>2 DEF BackedInv, Outcome
    <3> QED BY <1>2, <2>1, <3>1
  <2>3. CASE ~stored[c]
    BY <1>2, <2>1, <2>3 DEF Outcome
  <2> QED BY <2>2, <2>3
<1>f. ASSUME NEW c \in Clients, GetPending(c)  PROVE BackedInv'
  <2>1. CASE Goto(c, "insert") /\ UNCHANGED reply
    BY <1>1, <1>f, <2>1 DEF GetPending
  <2>2. CASE pending # NoPending /\ Answer(c, "attached", pending.id)
    <3>1. pending.id \in Clients /\ Backed(pending.id)
      BY <2>2 DEF BackedInv
    <3>2. UNCHANGED <<rows, stored, pending>> /\ pc[c] # "closed"
      BY <1>f DEF GetPending
    <3> QED BY <1>2, <2>2, <3>1, <3>2
  <2> QED BY <1>f, <2>1, <2>2 DEF GetPending
<1>g. ASSUME NEW c \in Clients, InsertUnlocked(c)  PROVE BackedInv'
  <2>1. PICK ok \in BOOLEAN : Inserted(c, ok) /\ Outcome(c, ok)
    BY <1>g DEF InsertUnlocked
  <2>2. /\ UNCHANGED <<stored, pending>> /\ pc[c] # "closed"
        /\ \A d \in Clients : rows[d] # "none" => rows'[d] # "none"
        /\ ok => rows'[c] # "none"
    BY <1>g, <2>1 DEF InsertUnlocked, Inserted
  <2> QED BY <1>2, <2>1, <2>2 DEF Outcome
<1>h. ASSUME NEW c \in Clients, Request(c) \/ Disconnect(c) \/ WorkerEnds(c)
      PROVE  BackedInv'
  BY <1>1, <1>h DEF Request, Disconnect, WorkerEnds
<1>i. CASE LockExpires \/ PendingExpires \/ UNCHANGED vars
  BY <1>1, <1>i DEF LockExpires, PendingExpires, vars
<1>j. CASE Crash
  BY <1>1, <1>j DEF Crash
<1> QED
  BY <1>a, <1>b, <1>c, <1>d, <1>e, <1>f, <1>g, <1>h, <1>i, <1>j
     DEF Next, Handler

\* No client is sent to a job that no request was about to store.
THEOREM RepliesAreBacked == Spec => []ReplyIsBacked
<1>1. Init => BackedInv
  BY DEF Init, BackedInv, NoReply
<1>2. BackedInv => ReplyIsBacked
  BY DEF BackedInv, Backed, ReplyIsBacked
<1> QED BY <1>1, <1>2, BackedStep, CreationTypes, PTL DEF Spec

-----------------------------------------------------------------------------
(* The jobs that were there before a request.                              *)

\* Before the transaction of its request there is no job with its uuid.
Before == {"idle", "find", "lock", "pend", "insert_locked", "get", "insert"}

\* A request that was not served by FindActive, and whose client still waits,
\* saw the jobs of its beginning ended; jobs that have ended stay so.
EarlierInv ==
  /\ \A c \in Clients : pc[c] \in Before => rows[c] = "none"
  /\ \A c \in Clients : \A d \in earlier[c] :
       rows[d] # "none" /\ Spelling[d] = Spelling[c]
  /\ faults = 0 =>
       \A c \in Clients :
         rows[c] = "active" \/ (pc[c] \in Before \ {"idle", "find"} /\ ~gone[c])
         => \A d \in earlier[c] : rows[d] = "ended"

\* Without a fault a call of a client that waits works.
LEMMA FaultlessCalls ==
  ASSUME TypeOK, NEW c \in Clients, faults' = 0
  PROVE  /\ CallFails(c) => gone[c]
         /\ CallWorks(c) => ~gone[c]
<1>1. faults \in Nat
  BY DEF TypeOK
<1>2. faults' # faults + 1
  BY <1>1
<1> QED BY <1>2, Zenon DEF CallFails, CallWorks

LEMMA FaultsGrow ==
  ASSUME TypeOK, [Next]_vars
  PROVE  faults' = 0 => faults = 0
<1>0. faults \in Nat
  BY DEF TypeOK
<1>1. faults' = faults \/ faults' = faults + 1
  <2>1. ASSUME NEW c \in Clients, Request(c) \/ Disconnect(c) \/ WorkerEnds(c)
        PROVE  faults' = faults
    BY <2>1 DEF Request, Disconnect, WorkerEnds
  <2>2. ASSUME NEW c \in Clients, Handler(c)
        PROVE  faults' = faults \/ faults' = faults + 1
    BY <2>2 DEF Handler, Find, Lock, Pend, InsertLocked, Release, GetPending,
                InsertUnlocked, Inserted, Applied, CallWorks, CallFails
  <2>3. CASE LockExpires \/ PendingExpires \/ Crash \/ UNCHANGED vars
    BY <2>3 DEF LockExpires, PendingExpires, Crash, vars
  <2> QED BY <2>1, <2>2, <2>3 DEF Next
<1> QED BY <1>0, <1>1

\* One step of a handler, as far as the jobs are concerned.
LEMMA HandlerMoves ==
  ASSUME TypeOK, NEW c \in Clients, Handler(c)
  PROVE  /\ earlier' = earlier /\ gone' = gone
         /\ pc' \in [Clients -> Steps]
         /\ pc[c] \in Steps \ {"idle", "closed"}
         /\ pc'[c] # "find" /\ pc'[c] # "idle"
         /\ \A d \in Clients \ {c} : pc'[d] = pc[d] /\ rows'[d] = rows[d]
         /\ \/ rows' = rows /\ (pc'[c] \in Before => pc[c] \in Before)
            \/ /\ pc[c] \in Before \ {"idle", "find"} /\ pc'[c] \notin Before
               /\ ~gone[c] /\ rows'[c] = "active"
<1> USE DEF TypeOK, Goto, Steps, Before
<1>1. CASE Find(c)
  <2>1. /\ pc[c] = "find" /\ UNCHANGED <<rows, earlier, gone>>
        /\ Goto(c, "lock") \/ pc' = [pc EXCEPT ![c] = "closed"]
    BY <1>1 DEF Find, Answer
  <2> QED BY <2>1
<1>2. CASE Lock(c) \/ Pend(c)
  BY <1>2 DEF Lock, Pend
<1>3. CASE InsertLocked(c)
  BY <1>3 DEF InsertLocked, Inserted, CallWorks
<1>4. CASE Release(c)
  BY <1>4, OutcomeTypes DEF Release
<1>5. CASE GetPending(c)
  BY <1>5 DEF GetPending, Answer
<1>6. CASE InsertUnlocked(c)
  BY <1>6, OutcomeTypes DEF InsertUnlocked, Inserted, CallWorks
<1> QED BY <1>1, <1>2, <1>3, <1>4, <1>5, <1>6 DEF Handler

LEMMA EarlierStep == TypeOK /\ EarlierInv /\ [Next]_vars => EarlierInv'
<1> SUFFICES ASSUME TypeOK, EarlierInv, [Next]_vars  PROVE EarlierInv'
  OBVIOUS
<1>0. faults' = 0 => faults = 0
  BY FaultsGrow
<1>1. ASSUME UNCHANGED <<rows, earlier>>,
             \A c \in Clients : pc'[c] = pc[c] \/ pc'[c] \notin Before,
             \A c \in Clients : ~gone'[c] => ~gone[c]
      PROVE  EarlierInv'
  BY <1>0, <1>1 DEF EarlierInv
<1>2. ASSUME NEW c \in Clients, Request(c)  PROVE EarlierInv'
  <2>1. /\ pc[c] = "idle" /\ pc'[c] = "find"
        /\ \A d \in Clients \ {c} : pc'[d] = pc[d] /\ earlier'[d] = earlier[d]
        /\ earlier'[c] = Matching(c) /\ UNCHANGED <<rows, gone, faults>>
    BY <1>2 DEF Request, Goto, TypeOK
  <2>2. rows[c] = "none"
    BY <2>1 DEF EarlierInv, Before
  <2> QED BY <2>1, <2>2 DEF EarlierInv, Matching, Before
<1>3. ASSUME NEW c \in Clients, Handler(c)  PROVE EarlierInv'
  <2>1. /\ earlier' = earlier /\ gone' = gone
        /\ pc[c] \in Steps \ {"idle", "closed"}
        /\ pc'[c] # "find" /\ pc'[c] # "idle"
        /\ \A d \in Clients \ {c} : pc'[d] = pc[d] /\ rows'[d] = rows[d]
        /\ \/ rows' = rows /\ (pc'[c] \in Before => pc[c] \in Before)
           \/ /\ pc[c] \in Before \ {"idle", "find"} /\ pc'[c] \notin Before
              /\ ~gone[c] /\ rows'[c] = "active"
    BY <1>3, HandlerMoves
  <2>2. \A d \in Clients : pc'[d] \in Before => rows'[d] = "none"
    BY <2>1 DEF EarlierInv
  <2>3. \A d \in Clients : rows[d] # "none" => rows'[d] = rows[d]
    BY <2>1 DEF EarlierInv
  <2>4. \A e \in Clients : \A d \in earlier[e] : d \in Clients
    BY DEF TypeOK
  <2>5. \A e \in Clients : \A d \in earlier'[e] :
          rows'[d] # "none" /\ Spelling[d] = Spelling[e]
    BY <2>1, <2>3, <2>4 DEF EarlierInv
  <2>6. ASSUME faults' = 0, NEW e \in Clients,
               rows'[e] = "active" \/ (pc'[e] \in Before \ {"idle", "find"} /\ ~gone'[e]),
               NEW d \in earlier[e]
        PROVE  rows'[d] = "ended"
    <3>1. rows'[d] = rows[d] /\ d \in Clients
      BY <2>3, <2>4 DEF EarlierInv
    <3>2. CASE rows[e] = "active" \/ (pc[e] \in Before \ {"idle", "find"} /\ ~gone[e])
      BY <1>0, <2>6, <3>1, <3>2 DEF EarlierInv
    <3>3. CASE ~(rows[e] = "active" \/ (pc[e] \in Before \ {"idle", "find"} /\ ~gone[e]))
      <4>1. e = c /\ rows' = rows /\ pc[c] = "find" /\ pc'[c] \in Before /\ ~gone[c]
        BY <2>1, <2>6, <3>3 DEF Steps, Before
      <4>2. Find(c)
        BY <1>3, <4>1 DEF Handler, Lock, Pend, InsertLocked, Release, GetPending,
                          InsertUnlocked
      <4>3. Matching(c) = {}
        <5>1. ~CallFails(c)
          BY <2>6, <4>1, FaultlessCalls
        <5>2. \A x \in Matching(c) : ~Answer(c, "attached", x)
          BY <4>1 DEF Answer, Goto, Before, TypeOK
        <5> QED BY <4>2, <5>1, <5>2 DEF Find
      <4>4. rows[d] # "active" /\ rows[d] # "none"
        BY <3>1, <4>1, <4>3 DEF EarlierInv, Matching
      <4> QED BY <3>1, <4>4 DEF TypeOK
    <3> QED BY <3>2, <3>3
  <2> QED BY <2>1, <2>2, <2>5, <2>6 DEF EarlierInv
<1>4. ASSUME NEW c \in Clients, Disconnect(c)  PROVE EarlierInv'
  <2>1. \A d \in Clients : ~gone'[d] => ~gone[d]
    BY <1>4 DEF Disconnect, TypeOK
  <2> QED BY <1>1, <1>4, <2>1 DEF Disconnect
<1>5. ASSUME NEW c \in Clients, WorkerEnds(c)  PROVE EarlierInv'
  <2>1. /\ UNCHANGED <<pc, gone, earlier, faults>>
        /\ rows[c] = "active" /\ rows'[c] = "ended"
        /\ \A d \in Clients \ {c} : rows'[d] = rows[d]
    BY <1>5 DEF WorkerEnds, TypeOK
  <2>2. \A e \in Clients : \A d \in earlier[e] : d \in Clients
    BY DEF TypeOK
  <2> QED BY <2>1, <2>2 DEF EarlierInv
<1>6. CASE LockExpires \/ PendingExpires \/ UNCHANGED vars
  BY <1>1, <1>6 DEF LockExpires, PendingExpires, vars
<1>7. CASE Crash
  <2>1. \A c \in Clients : pc'[c] = pc[c] \/ pc'[c] \notin Before
    BY <1>7 DEF Crash, Before
  <2>2. \A c \in Clients : ~gone'[c] => ~gone[c]
    BY <1>7 DEF Crash
  <2> QED BY <1>1, <1>7, <2>1, <2>2 DEF Crash
<1> QED BY <1>2, <1>3, <1>4, <1>5, <1>6, <1>7 DEF Next

\* As long as Postgres and Redis answer, a request that begins while a job of
\* its spelling is active never puts a second one beside it (findActiveJob).
THEOREM EarlierJobsAreFound == Spec => []AttachesToEarlier
<1>1. Init => EarlierInv
  BY DEF Init, EarlierInv
<1>2. TypeOK /\ EarlierInv => AttachesToEarlier
  BY DEF EarlierInv, AttachesToEarlier
<1> QED BY <1>1, <1>2, EarlierStep, CreationTypes, PTL DEF Spec

-----------------------------------------------------------------------------
(* The keys that nobody deletes.                                           *)

\* The request of c is in the locked section, or was cut off there.
Manned(c) == c \in Section \/ gone[c]

LEMMA MannedStep ==
  ASSUME TypeOK, KeysAreManned, [Next]_vars
  PROVE  KeysAreManned'
<1> SUFFICES ASSUME faults' = 0
             PROVE  /\ lock' # None => Manned(lock)'
                    /\ pending' # NoPending => Manned(pending.id)'
  BY DEF KeysAreManned, Manned
<1>0. /\ lock # None => lock \in Clients /\ Manned(lock)
      /\ pending # NoPending => pending.id \in Clients /\ Manned(pending.id)
  BY FaultsGrow DEF KeysAreManned, Manned, TypeOK, NoPending
<1>1. ASSUME lock' \in {lock, None}, pending' \in {pending, NoPending},
             \A d \in Clients : Manned(d) => Manned(d)'
      PROVE  /\ lock' # None => Manned(lock)'
             /\ pending' # NoPending => Manned(pending.id)'
  BY <1>0, <1>1 DEF Manned
<1> USE DEF TypeOK, Goto, Steps
<1>2. ASSUME NEW c \in Clients, Request(c) \/ Disconnect(c) \/ WorkerEnds(c)
      PROVE  /\ lock' # None => Manned(lock)'
             /\ pending' # NoPending => Manned(pending.id)'
  BY <1>1, <1>2 DEF Request, Disconnect, WorkerEnds, Manned, Section
<1>3. ASSUME NEW c \in Clients, Find(c) \/ GetPending(c) \/ InsertUnlocked(c)
      PROVE  /\ lock' # None => Manned(lock)'
             /\ pending' # NoPending => Manned(pending.id)'
  <2>1. /\ pc[c] \in {"find", "get", "insert"}
        /\ \A d \in Clients \ {c} : pc'[d] = pc[d]
        /\ UNCHANGED <<lock, pending, gone>>
    BY <1>3, OutcomeTypes
       DEF Find, GetPending, InsertUnlocked, Answer
  <2> QED BY <1>1, <2>1 DEF Manned, Section
<1>4. ASSUME NEW c \in Clients, Lock(c)
      PROVE  /\ lock' # None => Manned(lock)'
             /\ pending' # NoPending => Manned(pending.id)'
  <2>1. \A d \in Clients : Manned(d) => Manned(d)'
    BY <1>4 DEF Lock, Manned, Section
  <2>2. CASE lock' = lock
    BY <1>1, <1>4, <2>1, <2>2 DEF Lock
  <2>3. CASE lock' = c /\ pc'[c] = "pend"
    BY <1>0, <1>4, <2>1, <2>3 DEF Lock, Manned, Section
  <2>4. lock' = lock \/ (lock' = c /\ pc'[c] = "pend")
    <3>1. CallFails(c) => gone[c]
      BY FaultlessCalls
    <3> QED BY <1>4, <3>1 DEF Lock
  <2> QED BY <2>2, <2>3, <2>4
<1>5. ASSUME NEW c \in Clients, Pend(c)
      PROVE  /\ lock' # None => Manned(lock)'
             /\ pending' # NoPending => Manned(pending.id)'
  <2>1. \A d \in Clients : Manned(d) => Manned(d)'
    BY <1>5 DEF Pend, Manned, Section
  <2>2. pending' = pending \/ pending'.id = c
    BY <1>5 DEF Pend
  <2>3. c \in Section'
    BY <1>5 DEF Pend, Section
  <2> QED BY <1>0, <1>5, <2>1, <2>2, <2>3 DEF Pend, Manned
<1>6. ASSUME NEW c \in Clients, InsertLocked(c)
      PROVE  /\ lock' # None => Manned(lock)'
             /\ pending' # NoPending => Manned(pending.id)'
  BY <1>1, <1>6 DEF InsertLocked, Manned, Section
<1>7. ASSUME NEW c \in Clients, Release(c)
      PROVE  /\ lock' # None => Manned(lock)'
             /\ pending' # NoPending => Manned(pending.id)'
  <2>1. gone' = gone /\ \A d \in Clients \ {c} : pc'[d] = pc[d]
    BY <1>7, OutcomeTypes DEF Release
  <2>2. CASE KeysDeleted
    BY <2>2 DEF KeysDeleted
  <2>3. CASE CallFails(c) /\ UNCHANGED <<lock, pending>>
    <3>1. gone[c]
      BY <2>3, FaultlessCalls
    <3> QED BY <1>1, <2>1, <2>3, <3>1 DEF Manned, Section
  <2> QED BY <1>7, <2>2, <2>3 DEF Release
<1>8. CASE LockExpires \/ PendingExpires \/ UNCHANGED vars
  BY <1>1, <1>8 DEF LockExpires, PendingExpires, Manned, Section, vars
<1>9. CASE Crash
  <2>1. \A d \in Clients : Manned(d) => gone'[d]
    BY <1>9 DEF Crash, Manned, Section
  <2> QED BY <1>1, <1>9, <2>1 DEF Crash, Manned
<1> QED
  BY <1>2, <1>3, <1>4, <1>5, <1>6, <1>7, <1>8, <1>9 DEF Next, Handler

\* Without a fault a Redis key is left behind only by a request that was cut off.
THEOREM NoKeyIsForgotten == Spec => []KeysAreManned
<1>1. Init => KeysAreManned
  BY DEF Init, KeysAreManned
<1> QED BY <1>1, MannedStep, CreationTypes, PTL DEF Spec

-----------------------------------------------------------------------------
(* The life of a job.                                                      *)

\* The job with uuid c as its client sees it.  How it ends and what it has
\* scanned is for SearchWorker to say.
Job(c) == INSTANCE JobLifecycle WITH
  Sources <- {},
  status <- CASE rows[c] = "none" -> "absent"
              [] rows[c] = "active" -> "active"
              [] rows[c] = "ended" -> "completed",
  scanned <- {}

\* Only the request that made up the uuid stores its row, once, before it can
\* have ended.
LEMMA RowSteps ==
  ASSUME TypeOK, EarlierInv, [Next]_vars, NEW c \in Clients
  PROVE  \/ rows'[c] = rows[c]
         \/ rows[c] = "none" /\ rows'[c] = "active"
         \/ rows[c] = "active" /\ rows'[c] = "ended"
<1>1. ASSUME NEW d \in Clients, InsertLocked(d) \/ InsertUnlocked(d)
      PROVE  \/ UNCHANGED rows
             \/ rows[d] = "none" /\ rows' = [rows EXCEPT ![d] = "active"]
  <2>1. rows[d] = "none"
    BY <1>1 DEF EarlierInv, Before, InsertLocked, InsertUnlocked
  <2> QED BY <1>1, <2>1 DEF InsertLocked, InsertUnlocked, Inserted
<1>2. ASSUME NEW d \in Clients, InsertLocked(d) \/ InsertUnlocked(d)
      PROVE  rows'[c] = rows[c] \/ (rows[c] = "none" /\ rows'[c] = "active")
  BY <1>1, <1>2 DEF TypeOK
<1>3. ASSUME NEW d \in Clients, WorkerEnds(d)
      PROVE  rows'[c] = rows[c] \/ (rows[c] = "active" /\ rows'[c] = "ended")
  BY <1>3 DEF WorkerEnds, TypeOK
<1>4. ASSUME NEW d \in Clients,
             \/ Request(d) \/ Find(d) \/ Lock(d) \/ Pend(d) \/ Release(d)
             \/ GetPending(d) \/ Disconnect(d)
      PROVE  rows' = rows
  BY <1>4 DEF Request, Find, Lock, Pend, Release, GetPending, Disconnect
<1>5. CASE LockExpires \/ PendingExpires \/ Crash \/ UNCHANGED vars
  BY <1>5 DEF LockExpires, PendingExpires, Crash, vars
<1> QED BY <1>2, <1>3, <1>4, <1>5 DEF Next, Handler

\* Whatever fails, is retried or crashes while it is created, a job lives the
\* abstract life that SearchWorker implements from its creation on: it is
\* stored at most once and never again after it has ended (CreateSearchJob).
THEOREM JobsLiveOnce ==
  ASSUME NEW c \in Clients
  PROVE  Spec => Job(c)!Spec
<1> USE DEF Job!Init, Job!Next, Job!vars, Job!Create, Job!Report, Job!Finish,
            Job!Grown, Job!Outcomes
<1>1. Init => Job(c)!Init /\ EarlierInv
  BY DEF Init, EarlierInv
<1>2. TypeOK /\ EarlierInv /\ [Next]_vars => [Job(c)!Next]_(Job(c)!vars)
  BY RowSteps
<1> QED BY <1>1, <1>2, EarlierStep, CreationTypes, PTL DEF Spec, Job!Spec

=============================================================================
