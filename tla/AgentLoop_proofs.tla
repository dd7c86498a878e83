-------------------------- MODULE AgentLoop_proofs --------------------------
(***************************************************************************)
(* Theorems about AgentLoop, for every number of goroutines, turns,        *)
(* attempts and images, and for every interval of the gate.                *)
(*                                                                         *)
(* AgentInv is shown part by part: the types first, then what is known of  *)
(* the replies, the gate and the images.  The spacing of requests and the  *)
(* refinement of BoundedCall follow from their conjunction.                *)
(***************************************************************************)
EXTENDS AgentLoop, FiniteSetTheorems, TLAPS

-----------------------------------------------------------------------------
(* Types.                                                                  *)

LEMMA Bounds ==
  /\ MaxTurnRetries \in Nat /\ MaxToolTurns \in Nat /\ MaxQuotes \in Nat
  /\ MaxCalls \in Nat /\ Interval \in Nat
  /\ MaxAttempts \in Nat /\ MaxAttempts >= 1
  /\ MaxOverloadAttempts \in Nat /\ MaxOverloadAttempts >= MaxAttempts
<1>1. \A n \in {MaxTurnRetries, MaxToolTurns, MaxQuotes, MaxCalls} : n \in Nat
  BY AgentAssumption
<1> QED BY <1>1, AgentAssumption

LEMMA NamedType ==
  ASSUME TypeOK, NEW g \in Workers, IsFiniteSet(ids[g]), NEW kind \in Kinds
  PROVE  Named(g, kind) \in [kind : Kinds, n : Nat]
BY FS_CardinalityType DEF Named

LEMMA RegisterTypes ==
  ASSUME TypeOK, NEW g \in Workers, IsFiniteSet(ids[g]),
         NEW kind \in Kinds, Register(g, kind)
  PROVE  /\ ids' \in [Workers -> SUBSET [kind : Kinds, n : Nat]]
         /\ added' \in [Workers -> Nat]
<1>1. Named(g, kind) \in [kind : Kinds, n : Nat]
  BY NamedType
<1>2. ids[g] \cup {Named(g, kind)} \in SUBSET [kind : Kinds, n : Nat]
  BY <1>1 DEF TypeOK
<1> QED BY <1>2 DEF Register, TypeOK

LEMMA ReturnTypes ==
  ASSUME TypeOK, NEW g \in Workers, NEW end \in {"answered", "failed"},
         NEW n \in 0..MaxQuotes, Return(g, end, n)
  PROVE  TypeOK'
<1>1. /\ "done" \in Places /\ "none" \in Replies
      /\ 0 \in 0..MaxToolTurns /\ 0 \in 0..MaxTurnRetries
      /\ 1 \in 1..MaxOverloadAttempts
  BY Bounds DEF Places, Replies
<1>2. [end |-> end, quotes |-> n] \in
        [end : {"open", "answered", "failed"}, quotes : 0..MaxQuotes]
  OBVIOUS
<1> QED BY <1>1, <1>2 DEF TypeOK, Return, Goto, gate

LEMMA GatherTypes ==
  ASSUME TypeOK, ImageInv, NEW g \in Workers, Gather(g)
  PROVE  TypeOK'
<1> IsFiniteSet(ids[g]) /\ "given" \in Kinds
  BY DEF ImageInv, Kinds
<1> USE DEF content, loop, chat, gate, Goto, Gathering, Places
<1>1. CASE Begin(g)
  <2> (IF g \in Addressed THEN "page" ELSE "gate") \in Places
    BY DEF Calling
  <2> QED BY <1>1 DEF Begin, TypeOK
<1>2. CASE FetchPage(g)
  BY <1>2 DEF FetchPage, TypeOK, Calling
<1>3. CASE FetchLinked(g)
  BY <1>3 DEF FetchLinked, TypeOK
<1>4. CASE RenderPage(g)
  BY <1>4, RegisterTypes DEF RenderPage, TypeOK
<1>5. CASE EndOfPdf(g)
  <2> (IF pc[g] = "linkedpdf" /\ ids[g] = {} THEN "shot" ELSE "gate") \in Places
    BY DEF Calling
  <2> QED BY <1>5 DEF EndOfPdf, TypeOK
<1>6. CASE Shot(g)
  <2>1. /\ ids' \in [Workers -> SUBSET [kind : Kinds, n : Nat]]
        /\ added' \in [Workers -> Nat]
    BY <1>6, RegisterTypes DEF Shot, TypeOK
  <2> QED BY <1>6, <2>1 DEF Shot, TypeOK
<1>7. CASE Figure(g)
  BY <1>7, RegisterTypes DEF Figure, TypeOK
<1>8. CASE EndOfFigures(g)
  BY <1>8 DEF EndOfFigures, TypeOK, Calling
<1> QED BY <1>1, <1>2, <1>3, <1>4, <1>5, <1>6, <1>7, <1>8 DEF Gather

LEMMA StartTypes ==
  ASSUME TypeOK, NEW g \in Workers, Start(g)
  PROVE  /\ pc' \in [Workers -> Places]
         /\ holder' \in Workers \cup {None}
         /\ wait' \in 0..Interval
         /\ since' \in 0..Interval
<1>1. "post" \in Places /\ 0 \in 0..Interval
  BY Bounds DEF Places, Calling
<1> QED BY <1>1 DEF Start, Goto, TypeOK

LEMMA ClientTypes ==
  ASSUME TypeOK, ReplyInv, NEW g \in Workers, ClientStep(g)
  PROVE  TypeOK'
<1> USE DEF content, loop, chat, gate, Goto
<1> {"gate", "pace", "post", "backoff", "reply"} \subseteq Places
  BY DEF Places, Calling
<1> {"none", "cancelled"} \subseteq Replies
  BY DEF Replies
<1>1. CASE StartNow(g)
  <2>1. Start(g) /\ UNCHANGED <<content, loop, chat, result, cancelled>>
    BY <1>1 DEF StartNow
  <2> QED BY <2>1, StartTypes DEF TypeOK
<1>2. CASE EnterGate(g)
  <2>1. Interval - since \in 0..Interval
    BY <1>2, Bounds DEF EnterGate, TypeOK
  <2> QED BY <1>2, <2>1 DEF EnterGate, TypeOK
<1>3. CASE LeaveGate(g)
  <2>1. Start(g) /\ UNCHANGED <<content, loop, chat, result, cancelled>>
    BY <1>3 DEF LeaveGate
  <2> QED BY <2>1, StartTypes DEF TypeOK
<1>4. CASE Post(g)
  <2>1. PICK r \in IF cancelled THEN Messages \cup {"cancelled"} ELSE Answers :
          /\ reply' = [reply EXCEPT ![g] = r]
          /\ Goto(g, IF Retried(g, r) THEN "backoff" ELSE "reply")
    BY <1>4 DEF Post
  <2>2. r \in Replies
    BY <2>1 DEF Replies, Answers
  <2> QED BY <1>4, <2>1, <2>2 DEF Post, TypeOK
<1>5. CASE Backoff(g)
  <2>1. attempt[g] + 1 \in 1..MaxOverloadAttempts
    BY <1>5, Bounds DEF Backoff, ReplyInv, Retried, AttemptsFor, TypeOK
  <2> QED BY <1>5, <2>1 DEF Backoff, TypeOK
<1>6. CASE GiveUp(g)
  <2>1. holder' \in Workers \cup {None} /\ wait' \in 0..Interval
    BY <1>6, Bounds DEF GiveUp, TypeOK
  <2>2. pc' \in [Workers -> Places] /\ reply' \in [Workers -> Replies]
    BY <1>6 DEF GiveUp, TypeOK
  <2> QED BY <1>6, <2>1, <2>2 DEF GiveUp, TypeOK
<1> QED BY <1>1, <1>2, <1>3, <1>4, <1>5, <1>6 DEF ClientStep

LEMMA CallTypes ==
  ASSUME TypeOK, NEW g \in Workers, Call(g)
  PROVE  /\ pc' \in [Workers -> Places]
         /\ attempt' \in [Workers -> 1..MaxOverloadAttempts]
         /\ reply' \in [Workers -> Replies]
<1>1. "gate" \in Places /\ 1 \in 1..MaxOverloadAttempts /\ "none" \in Replies
  BY Bounds DEF Places, Calling, Replies
<1> QED BY <1>1 DEF Call, Goto, TypeOK

LEMMA FinalizeTypes ==
  ASSUME TypeOK, NEW g \in Workers, Finalize(g)
  PROVE  /\ turn' \in [Workers -> 0..MaxToolTurns]
         /\ retries' \in [Workers -> 0..MaxTurnRetries]
         /\ final' \in [Workers -> BOOLEAN]
<1>1. 0 \in 0..MaxToolTurns /\ 0 \in 0..MaxTurnRetries
  BY Bounds
<1> QED BY <1>1 DEF Finalize, TypeOK

LEMMA NextTurnTypes ==
  ASSUME TypeOK, NEW g \in Workers, NextTurn(g)
  PROVE  /\ Call(g)
         /\ turn' \in [Workers -> 0..MaxToolTurns]
         /\ retries' \in [Workers -> 0..MaxTurnRetries]
         /\ final' \in [Workers -> BOOLEAN]
<1>1. CASE turn[g] < MaxToolTurns /\ turn' = [turn EXCEPT ![g] = @ + 1]
           /\ Call(g) /\ UNCHANGED <<retries, final>>
  <2>1. turn[g] + 1 \in 0..MaxToolTurns
    BY <1>1, Bounds DEF TypeOK
  <2> QED BY <1>1, <2>1 DEF TypeOK
<1>2. CASE Finalize(g)
  BY <1>2, FinalizeTypes DEF Finalize
<1> QED BY <1>1, <1>2 DEF NextTurn

LEMMA Elements ==
  ASSUME NEW S, NEW s \in Seq(S)
  PROVE  \A i \in DOMAIN s : s[i] \in S
OBVIOUS

LEMMA CappedType ==
  ASSUME NEW c \in Contents \cup {<<>>}, NEW n \in Found(c)
  PROVE  Capped(n) \in 0..MaxQuotes
<1>1. c \in Seq([usable : BOOLEAN, quotes : Nat])
  <2>1. <<>> \in Seq([usable : BOOLEAN, quotes : Nat])
    OBVIOUS
  <2> QED BY <2>1, AgentAssumption
<1>2. \A i \in Usable(c) : c[i].quotes \in Nat
  <2>1. \A i \in DOMAIN c : c[i] \in [usable : BOOLEAN, quotes : Nat]
    BY <1>1, Elements
  <2> QED BY <2>1 DEF Usable
<1>3. n \in Nat
  <2>1. CASE Usable(c) = {}
    BY <2>1 DEF Found
  <2>2. CASE Usable(c) # {}
    <3>1. n \in {c[i].quotes : i \in {k \in Usable(c) : \A j \in Usable(c) : k <= j}}
      BY <2>2 DEF Found
    <3>2. \E i \in Usable(c) : n = c[i].quotes
      BY <3>1
    <3> QED BY <1>2, <3>2
  <2> QED BY <2>1, <2>2
<1> QED BY <1>3, Bounds DEF Capped

LEMMA LoopTypes ==
  ASSUME TypeOK, NEW g \in Workers, IsFiniteSet(ids[g]), LoopStep(g)
  PROVE  TypeOK'
<1> USE DEF content, loop, chat, gate, Goto
<1> {"rest", "tools", "parse"} \subseteq Places
  BY DEF Places
<1>1. CASE RestTurn(g)
  <2>1. retries[g] + 1 \in 0..MaxTurnRetries
    BY <1>1, Bounds DEF RestTurn, TurnRetried, TypeOK
  <2> QED BY <1>1, <2>1 DEF RestTurn, TypeOK
<1>2. CASE AfterRest(g)
  BY <1>2, NextTurnTypes, CallTypes DEF AfterRest, TypeOK
<1>3. CASE FallBack(g)
  <2>1. Finalize(g) /\ Call(g)
    BY <1>3 DEF FallBack, Finalize
  <2> QED BY <1>3, <2>1, FinalizeTypes, CallTypes DEF FallBack, TypeOK
<1>4. CASE UseTools(g)
  <2>1. 0 \in 0..MaxTurnRetries /\ 1..MaxCalls \subseteq 0..MaxCalls
    BY Bounds
  <2> QED BY <1>4, <2>1 DEF UseTools, TypeOK
<1>5. CASE RunTool(g)
  <2>1. /\ ids' \in [Workers -> SUBSET [kind : Kinds, n : Nat]]
        /\ added' \in [Workers -> Nat]
    BY <1>5, RegisterTypes DEF RunTool, TypeOK, Kinds
  <2>2. calls[g] - 1 \in 0..MaxCalls
    BY <1>5, Bounds DEF RunTool, TypeOK
  <2> QED BY <1>5, <2>1, <2>2 DEF RunTool, TypeOK
<1>6. CASE AfterTools(g)
  BY <1>6, NextTurnTypes, CallTypes DEF AfterTools, TypeOK
<1>7. CASE Accept(g)
  BY <1>7 DEF Accept, TypeOK
<1>8. CASE Fail(g)
  <2>1. 0 \in 0..MaxQuotes
    BY Bounds
  <2> QED BY <1>8, <2>1, ReturnTypes DEF Fail
<1>9. CASE Parse(g)
  BY <1>9, CappedType, ReturnTypes DEF Parse
<1> QED BY <1>1, <1>2, <1>3, <1>4, <1>5, <1>6, <1>7, <1>8, <1>9 DEF LoopStep

LEMMA ClockTypes ==
  ASSUME TypeOK, Tick \/ Cancel \/ UNCHANGED vars
  PROVE  TypeOK'
<1>1. CASE Tick
  <2>1. wait' \in 0..Interval /\ since' \in 0..Interval
    BY <1>1, Bounds DEF Tick, TypeOK
  <2> QED BY <1>1, <2>1 DEF Tick, TypeOK, content, loop, chat
<1>2. CASE Cancel \/ UNCHANGED vars
  BY <1>2 DEF Cancel, TypeOK, vars, content, loop, chat, gate
<1> QED BY <1>1, <1>2

LEMMA TypesStep == AgentInv /\ [Next]_vars => TypeOK'
<1> SUFFICES ASSUME AgentInv, [Next]_vars  PROVE TypeOK'
  OBVIOUS
<1> \A g \in Workers : IsFiniteSet(ids[g])
  BY DEF AgentInv, ImageInv
<1> QED BY GatherTypes, ClientTypes, LoopTypes, ClockTypes
       DEF AgentInv, Next, Step, Ended

-----------------------------------------------------------------------------
(* Replies.                                                                *)

LEMMA ReplyStep == AgentInv /\ [Next]_vars => ReplyInv'
<1> SUFFICES ASSUME AgentInv, [Next]_vars  PROVE ReplyInv'
  OBVIOUS
<1> USE DEF AgentInv, TypeOK
<1>1. ASSUME NEW g \in Workers, Gather(g)  PROVE ReplyInv'
  <2>1. /\ pc[g] \in Gathering /\ pc'[g] \in Gathering \cup {"gate"}
        /\ \A h \in Workers \ {g} : pc'[h] = pc[h]
        /\ UNCHANGED <<loop, chat, result>>
    BY <1>1 DEF Gather, Begin, FetchPage, FetchLinked, RenderPage, EndOfPdf, Shot,
                Figure, EndOfFigures, Goto, Gathering
  <2> QED BY <2>1 DEF ReplyInv, Gathering, Retried, loop, chat
<1>2. ASSUME NEW g \in Workers, NEW p, NEW r,
             pc' = [pc EXCEPT ![g] = p], reply' = [reply EXCEPT ![g] = r],
             \A h \in Workers \ {g} :
               /\ attempt'[h] = attempt[h] /\ final'[h] = final[h]
               /\ result'[h] = result[h],
             p \in Gathering \cup {"gate", "pace", "post", "done"} <=> r = "none",
             p = "backoff" => r \in Transient /\ attempt'[g] < AttemptsFor(r),
             p = "rest" => r \in Transient,
             p = "tools" => r = "calls",
             p = "parse" => r \in Messages,
             p \in {"rest", "tools"} => ~final'[g],
             p = "done" <=> result'[g].end # "open"
      PROVE  ReplyInv'
  <2> SUFFICES ASSUME NEW h \in Workers
               PROVE  /\ pc'[h] \in Gathering \cup {"gate", "pace", "post", "done"}
                             <=> reply'[h] = "none"
                      /\ pc'[h] = "backoff" => Retried(h, reply[h])'
                      /\ pc'[h] = "rest" => reply'[h] \in Transient
                      /\ pc'[h] = "tools" => reply'[h] = "calls"
                      /\ pc'[h] = "parse" => reply'[h] \in Messages
                      /\ pc'[h] \in {"rest", "tools"} => ~final'[h]
                      /\ pc'[h] = "done" <=> result'[h].end # "open"
    BY DEF ReplyInv
  <2>1. CASE h = g
    BY <1>2, <2>1 DEF Retried
  <2>2. CASE h # g
    <3>1. /\ pc'[h] = pc[h] /\ reply'[h] = reply[h] /\ attempt'[h] = attempt[h]
          /\ final'[h] = final[h] /\ result'[h] = result[h]
      BY <1>2, <2>2
    <3>2. Retried(h, reply[h]) => Retried(h, reply[h])'
      BY <3>1 DEF Retried
    <3> QED BY <3>1, <3>2 DEF ReplyInv
  <2> QED BY <2>1, <2>2
<1>3. ASSUME NEW g \in Workers, ClientStep(g)  PROVE ReplyInv'
  <2> USE DEF ReplyInv, loop, chat, Goto, Gathering
  <2>1. CASE StartNow(g) \/ EnterGate(g) \/ LeaveGate(g)
    <3>1. PICK p \in {"pace", "post"} : pc' = [pc EXCEPT ![g] = p]
      BY <2>1 DEF StartNow, EnterGate, LeaveGate, Start
    <3>2. UNCHANGED <<loop, chat, result>> /\ reply[g] = "none" /\ result[g].end = "open"
      BY <2>1 DEF StartNow, EnterGate, LeaveGate
    <3>3. reply' = [reply EXCEPT ![g] = "none"]
      BY <3>2
    <3>4. \A h \in Workers \ {g} :
            /\ attempt'[h] = attempt[h] /\ final'[h] = final[h]
            /\ result'[h] = result[h]
      BY <3>2
    <3>5. result'[g].end = "open"
      BY <3>2
    <3> HIDE DEF ReplyInv
    <3> QED BY <1>2, <3>1, <3>3, <3>4, <3>5
  <2>2. CASE Post(g)
    <3>1. PICK r \in IF cancelled THEN Messages \cup {"cancelled"} ELSE Answers :
            /\ reply' = [reply EXCEPT ![g] = r]
            /\ Goto(g, IF Retried(g, r) THEN "backoff" ELSE "reply")
      BY <2>2 DEF Post
    <3>2. r # "none" /\ UNCHANGED <<loop, attempt, result>> /\ result[g].end = "open"
      BY <2>2, <3>1 DEF Post, Answers, Messages, Transient
    <3>3. Retried(g, r) => r \in Transient /\ attempt'[g] < AttemptsFor(r)
      BY <3>2 DEF Retried
    <3> QED BY <1>2, <3>1, <3>2, <3>3
  <2>3. CASE Backoff(g)
    <3>1. /\ UNCHANGED <<loop, result>> /\ result[g].end = "open"
          /\ \A h \in Workers \ {g} : attempt'[h] = attempt[h]
      BY <2>3 DEF Backoff
    <3>2. /\ pc' = [pc EXCEPT ![g] = "gate"]
          /\ reply' = [reply EXCEPT ![g] = "none"]
      BY <2>3 DEF Backoff
    <3>3. \A h \in Workers \ {g} :
            /\ attempt'[h] = attempt[h] /\ final'[h] = final[h]
            /\ result'[h] = result[h]
      BY <3>1
    <3>4. result'[g].end = "open"
      BY <3>1
    <3> HIDE DEF ReplyInv
    <3> QED BY <1>2, <3>2, <3>3, <3>4
  <2>4. CASE GiveUp(g)
    <3>1. UNCHANGED <<loop, attempt, result>> /\ result[g].end = "open"
      BY <2>4 DEF GiveUp
    <3>2. /\ pc' = [pc EXCEPT ![g] = "reply"]
          /\ reply' = [reply EXCEPT ![g] = "cancelled"]
      BY <2>4 DEF GiveUp
    <3> QED BY <1>2, <3>1, <3>2
  <2> QED BY <1>3, <2>1, <2>2, <2>3, <2>4 DEF ClientStep
<1>4. ASSUME NEW g \in Workers, LoopStep(g)  PROVE ReplyInv'
  <2> USE DEF ReplyInv, loop, chat, Goto, Gathering
  <2>1. CASE RestTurn(g) \/ UseTools(g) \/ Accept(g)
    <3>1. PICK p \in {"rest", "tools", "parse"} :
            /\ pc' = [pc EXCEPT ![g] = p]
            /\ p = "rest" => reply[g] \in Transient /\ ~final[g]
            /\ p = "tools" => reply[g] = "calls" /\ ~final[g]
            /\ p = "parse" => reply[g] \in Messages
      BY <2>1 DEF RestTurn, UseTools, Accept, TurnRetried, Accepted, Transient, Messages
    <3>2. UNCHANGED <<final, chat, result>> /\ pc[g] = "reply"
      BY <2>1 DEF RestTurn, UseTools, Accept
    <3>3. reply' = [reply EXCEPT ![g] = reply[g]] /\ reply[g] # "none"
      BY <3>2
    <3>4. /\ \A h \in Workers \ {g} :
               /\ attempt'[h] = attempt[h] /\ final'[h] = final[h]
               /\ result'[h] = result[h]
          /\ final'[g] = final[g] /\ result'[g].end = "open"
      BY <3>2
    <3>5. p # "backoff" /\ p # "done"
          /\ p \notin Gathering \cup {"gate", "pace", "post", "done"}
      BY <3>1
    <3> QED BY <1>2, <3>1, <3>3, <3>4, <3>5
  <2>2. CASE RunTool(g)
    <3>1. UNCHANGED <<pc, final, chat, result>>
      BY <2>2 DEF RunTool
    <3> QED BY <3>1 DEF Retried
  <2>3. CASE AfterRest(g) \/ AfterTools(g) \/ FallBack(g)
    <3>1. Call(g) /\ UNCHANGED result /\ result[g].end = "open"
      BY <2>3 DEF AfterRest, AfterTools, FallBack, NextTurn, Finalize
    <3>2. \A h \in Workers \ {g} : attempt'[h] = attempt[h] /\ final'[h] = final[h]
      BY <2>3 DEF AfterRest, AfterTools, FallBack, NextTurn, Finalize, Call
    <3> QED BY <1>2, <3>1, <3>2 DEF Call
  <2>4. CASE Fail(g) \/ Parse(g)
    <3>1. PICK end, n : end \in {"answered", "failed"} /\ Return(g, end, n)
      BY <2>4 DEF Fail, Parse
    <3>2. /\ \A h \in Workers \ {g} :
               /\ attempt'[h] = attempt[h] /\ final'[h] = final[h]
               /\ result'[h] = result[h]
          /\ result'[g].end # "open"
      BY <3>1 DEF Return
    <3>3. /\ pc' = [pc EXCEPT ![g] = "done"]
          /\ reply' = [reply EXCEPT ![g] = "none"]
      BY <3>1 DEF Return
    <3> QED BY <1>2, <3>2, <3>3
  <2> QED BY <1>4, <2>1, <2>2, <2>3, <2>4 DEF LoopStep
<1>5. CASE Tick \/ Cancel \/ UNCHANGED vars
  BY <1>5 DEF Tick, Cancel, vars, loop, chat, ReplyInv, Retried
<1> QED BY <1>1, <1>3, <1>4, <1>5 DEF Next, Step, Ended

-----------------------------------------------------------------------------
(* The gate.                                                               *)

LEMMA GateStep == AgentInv /\ [Next]_vars => GateInv'
<1> SUFFICES ASSUME AgentInv, [Next]_vars  PROVE GateInv'
  OBVIOUS
<1> USE DEF AgentInv, TypeOK, GateInv
<1>1. ASSUME NEW g \in Workers, pc[g] # "pace", pc'[g] # "pace",
             \A h \in Workers \ {g} : pc'[h] = pc[h], UNCHANGED gate
      PROVE  GateInv'
  BY <1>1 DEF gate
<1>2. ASSUME NEW g \in Workers, Gather(g)  PROVE GateInv'
  <2>1. /\ pc[g] # "pace" /\ pc'[g] # "pace"
        /\ \A h \in Workers \ {g} : pc'[h] = pc[h]
        /\ UNCHANGED gate
    BY <1>2 DEF Gather, Begin, FetchPage, FetchLinked, RenderPage, EndOfPdf, Shot,
                Figure, EndOfFigures, Goto
  <2> QED BY <1>1, <2>1
<1>3. ASSUME NEW g \in Workers, ClientStep(g)  PROVE GateInv'
  <2>1. CASE Post(g) \/ Backoff(g)
    <3>1. /\ pc[g] # "pace" /\ pc'[g] # "pace"
          /\ \A h \in Workers \ {g} : pc'[h] = pc[h]
          /\ UNCHANGED gate
      BY <2>1 DEF Post, Backoff, Goto
    <3> QED BY <1>1, <3>1
  <2>2. CASE StartNow(g) \/ LeaveGate(g)
    <3>1. /\ holder = None \/ holder = g
          /\ pc' = [pc EXCEPT ![g] = "post"] /\ holder' = None
      BY <2>2 DEF StartNow, LeaveGate, Start, Goto
    <3>2. None \notin Workers
      BY AgentAssumption
    <3> QED BY <3>1, <3>2
  <2>3. CASE EnterGate(g)
    <3>1. /\ holder = None /\ pc' = [pc EXCEPT ![g] = "pace"] /\ holder' = g
          /\ wait' + since' >= Interval
      BY <2>3, Bounds DEF EnterGate, Goto
    <3>2. None \notin Workers
      BY AgentAssumption
    <3> QED BY <3>1, <3>2
  <2>4. CASE GiveUp(g)
    <3>1. CASE pc[g] = "pace"
      <4>1. /\ holder = g /\ pc' = [pc EXCEPT ![g] = "reply"] /\ holder' = None
        BY <2>4, <3>1 DEF GiveUp, Goto
      <4>2. None \notin Workers
        BY AgentAssumption
      <4> QED BY <4>1, <4>2
    <3>2. CASE pc[g] # "pace"
      <4>1. /\ pc' = [pc EXCEPT ![g] = "reply"] /\ UNCHANGED <<holder, wait, since>>
        BY <2>4, <3>2 DEF GiveUp, Goto
      <4> QED BY <1>1, <3>2, <4>1 DEF gate
    <3> QED BY <3>1, <3>2
  <2> QED BY <1>3, <2>1, <2>2, <2>3, <2>4 DEF ClientStep
<1>4. ASSUME NEW g \in Workers, LoopStep(g)  PROVE GateInv'
  <2>1. CASE RestTurn(g) \/ AfterRest(g) \/ FallBack(g)
    BY <1>1, <2>1 DEF RestTurn, AfterRest, FallBack, NextTurn, Finalize, Call, Goto
  <2>2. CASE UseTools(g) \/ RunTool(g) \/ AfterTools(g) \/ Accept(g)
    BY <1>1, <2>2 DEF UseTools, RunTool, AfterTools, Accept, NextTurn, Finalize,
                      Call, Goto
  <2>3. CASE Fail(g) \/ Parse(g)
    <3>1. PICK end, n : Return(g, end, n)
      BY <2>3 DEF Fail, Parse
    <3>2. pc[g] # "pace"
      BY <2>3 DEF Fail, Parse
    <3>3. UNCHANGED gate /\ pc' = [pc EXCEPT ![g] = "done"]
      BY <3>1 DEF Return, Goto
    <3> QED BY <1>1, <3>2, <3>3
  <2> QED BY <1>4, <2>1, <2>2, <2>3 DEF LoopStep
<1>5. CASE Tick
  BY <1>5, Bounds DEF Tick
<1>6. CASE Cancel \/ UNCHANGED vars
  BY <1>6 DEF Cancel, vars, gate
<1> QED BY <1>2, <1>3, <1>4, <1>5, <1>6 DEF Next, Step, Ended

-----------------------------------------------------------------------------
(* Images.                                                                 *)

\* A new image is one image more.
LEMMA RegisterImages ==
  ASSUME AgentInv, NEW g \in Workers, NEW kind \in Kinds, Register(g, kind)
  PROVE  ImageInv'
<1> USE DEF AgentInv, TypeOK
<1> DEFINE new == Named(g, kind)
<1>1. new \notin ids[g] /\ new.n = added[g]
  BY DEF Named, ImageInv
<1>2. /\ IsFiniteSet(ids[g] \cup {new})
      /\ Cardinality(ids[g] \cup {new}) = Cardinality(ids[g]) + 1
  BY <1>1, FS_AddElement DEF ImageInv
<1>3. /\ ids'[g] = ids[g] \cup {new} /\ added'[g] = added[g] + 1
      /\ \A h \in Workers \ {g} : ids'[h] = ids[h] /\ added'[h] = added[h]
  BY DEF Register
<1>4. /\ IsFiniteSet(ids'[g]) /\ added'[g] = Cardinality(ids'[g])
  BY <1>2, <1>3 DEF ImageInv
<1>5. \A i \in ids'[g] : i.n < added'[g]
  <2> SUFFICES ASSUME NEW i \in ids'[g]  PROVE i.n < added'[g]
    OBVIOUS
  <2>1. CASE i = new
    BY <1>1, <1>3, <2>1
  <2>2. CASE i \in ids[g]
    <3>1. i.n < added[g] /\ i.n \in Nat /\ added[g] \in Nat
      BY <2>2 DEF ImageInv
    <3> QED BY <1>3, <3>1
  <2> QED BY <1>3, <2>1, <2>2
<1> QED BY <1>3, <1>4, <1>5 DEF ImageInv

LEMMA ImageStep == AgentInv /\ [Next]_vars => ImageInv'
<1> SUFFICES ASSUME AgentInv, [Next]_vars  PROVE ImageInv'
  OBVIOUS
<1>1. ASSUME UNCHANGED content  PROVE ImageInv'
  BY <1>1 DEF AgentInv, ImageInv, content
<1> "given" \in Kinds /\ "tool" \in Kinds
  BY DEF Kinds
<1>2. ASSUME NEW g \in Workers, Gather(g)  PROVE ImageInv'
  <2>1. UNCHANGED content \/ Register(g, "given")
    BY <1>2 DEF Gather, Begin, FetchPage, FetchLinked, RenderPage, EndOfPdf, Shot,
                Figure, EndOfFigures
  <2> QED BY <1>1, <2>1, RegisterImages
<1>3. ASSUME NEW g \in Workers, ClientStep(g)  PROVE ImageInv'
  <2>1. UNCHANGED content
    BY <1>3 DEF ClientStep, StartNow, EnterGate, LeaveGate, Post, Backoff,
                GiveUp
  <2> QED BY <1>1, <2>1
<1>4. ASSUME NEW g \in Workers, LoopStep(g)  PROVE ImageInv'
  <2>1. CASE Fail(g) \/ Parse(g)
    <3>1. ids' = [ids EXCEPT ![g] = {}] /\ added' = [added EXCEPT ![g] = 0]
      BY <2>1 DEF Fail, Parse, Return
    <3>2. IsFiniteSet({}) /\ Cardinality({}) = 0
      BY FS_EmptySet
    <3> QED BY <3>1, <3>2 DEF AgentInv, TypeOK, ImageInv
  <2>2. CASE ~(Fail(g) \/ Parse(g))
    <3>1. UNCHANGED content \/ Register(g, "tool")
      BY <1>4, <2>2 DEF LoopStep, RestTurn, AfterRest, FallBack, UseTools, RunTool,
                        AfterTools, Accept
    <3> QED BY <1>1, <3>1, RegisterImages
  <2> QED BY <2>1, <2>2
<1>5. CASE Tick \/ Cancel \/ UNCHANGED vars
  BY <1>1, <1>5 DEF Tick, Cancel, vars
<1> QED BY <1>2, <1>3, <1>4, <1>5 DEF Next, Step, Ended

-----------------------------------------------------------------------------

LEMMA InitInv == Init => AgentInv
<1> SUFFICES ASSUME Init  PROVE AgentInv
  OBVIOUS
<1>1. TypeOK
  <2>1. /\ "start" \in Places /\ "none" \in Replies
        /\ 0 \in 0..MaxToolTurns /\ 0 \in 0..MaxTurnRetries /\ 0 \in 0..MaxCalls
        /\ 1 \in 1..MaxOverloadAttempts /\ 0 \in 0..MaxQuotes
        /\ 0 \in 0..Interval /\ Interval \in 0..Interval
    BY Bounds DEF Places, Gathering, Replies
  <2>2. /\ pc \in [Workers -> Places]
        /\ ids \in [Workers -> SUBSET [kind : Kinds, n : Nat]]
        /\ added \in [Workers -> Nat]
        /\ final \in [Workers -> BOOLEAN] /\ cancelled \in BOOLEAN
        /\ reply \in [Workers -> Replies] /\ holder \in Workers \cup {None}
    BY <2>1 DEF Init
  <2>3. /\ turn \in [Workers -> 0..MaxToolTurns]
        /\ retries \in [Workers -> 0..MaxTurnRetries]
        /\ calls \in [Workers -> 0..MaxCalls]
        /\ attempt \in [Workers -> 1..MaxOverloadAttempts]
        /\ wait \in 0..Interval /\ since \in 0..Interval
    BY <2>1 DEF Init
  <2>4. result \in [Workers -> [end : {"open", "answered", "failed"}, quotes : 0..MaxQuotes]]
    BY <2>1 DEF Init
  <2> QED BY <2>2, <2>3, <2>4 DEF TypeOK
<1>2. ImageInv
  <2>1. IsFiniteSet({}) /\ Cardinality({}) = 0
    BY FS_EmptySet
  <2> QED BY <2>1 DEF Init, ImageInv
<1>3. GateInv
  <2>1. None \notin Workers
    BY AgentAssumption
  <2> QED BY <2>1 DEF Init, GateInv
<1>4. ReplyInv
  BY DEF Init, ReplyInv, Gathering
<1> QED BY <1>1, <1>2, <1>3, <1>4 DEF AgentInv

\* The inductive invariant of the extractions.
THEOREM AgentInvariant == Spec => []AgentInv
<1>1. AgentInv /\ [Next]_vars => AgentInv'
  BY TypesStep, ReplyStep, GateStep, ImageStep DEF AgentInv
<1> QED BY <1>1, InitInv, PTL DEF Spec

\* Every counter stays within its limit, for all limits.
THEOREM Types == Spec => []TypeOK
<1>1. AgentInv => TypeOK
  BY DEF AgentInv
<1> QED BY <1>1, AgentInvariant, PTL

\* No tool reuses the name of an image, however many tools the model calls.
THEOREM ImagesAreKept == Spec => []NoImageIsReplaced
<1>1. AgentInv => NoImageIsReplaced
  BY DEF AgentInv, ImageInv, NoImageIsReplaced
<1> QED BY <1>1, AgentInvariant, PTL

-----------------------------------------------------------------------------
(* The steps of the other parts do not start a request.                    *)

LEMMA GatherFrame ==
  ASSUME TypeOK, NEW g \in Workers, Gather(g)
  PROVE  /\ pc[g] \in Gathering /\ pc'[g] \in Gathering \cup {"gate"}
         /\ \A h \in Workers \ {g} : pc'[h] = pc[h]
         /\ UNCHANGED <<loop, chat, result, gate, cancelled>>
<1>1. pc \in [Workers -> Places]
  BY DEF TypeOK
<1>2. UNCHANGED <<loop, chat, result, gate, cancelled>>
  BY DEF Gather, Begin, FetchPage, FetchLinked, RenderPage, EndOfPdf, Shot, Figure,
         EndOfFigures
<1>3. CASE Begin(g) \/ FetchPage(g) \/ FetchLinked(g)
  BY <1>1, <1>2, <1>3 DEF Begin, FetchPage, FetchLinked, Goto, Gathering
<1>4. CASE RenderPage(g) \/ Figure(g)
  BY <1>1, <1>2, <1>4 DEF RenderPage, Figure, Gathering
<1>5. CASE EndOfPdf(g) \/ Shot(g) \/ EndOfFigures(g)
  BY <1>1, <1>2, <1>5 DEF EndOfPdf, Shot, EndOfFigures, Goto, Gathering
<1> QED BY <1>3, <1>4, <1>5 DEF Gather

LEMMA LoopFrame ==
  ASSUME TypeOK, NEW g \in Workers, LoopStep(g)
  PROVE  /\ pc[g] \in {"reply", "rest", "tools", "parse"}
         /\ \A h \in Workers \ {g} :
              /\ pc'[h] = pc[h] /\ turn'[h] = turn[h] /\ final'[h] = final[h]
              /\ attempt'[h] = attempt[h] /\ reply'[h] = reply[h]
              /\ result'[h] = result[h]
<1>1. /\ pc \in [Workers -> Places] /\ turn \in [Workers -> 0..MaxToolTurns]
      /\ final \in [Workers -> BOOLEAN] /\ reply \in [Workers -> Replies]
      /\ attempt \in [Workers -> 1..MaxOverloadAttempts]
  BY DEF TypeOK
<1>2. CASE RestTurn(g) \/ UseTools(g) \/ RunTool(g) \/ Accept(g)
  BY <1>1, <1>2 DEF RestTurn, UseTools, RunTool, Accept, Goto, chat, loop
<1>3. CASE AfterRest(g) \/ AfterTools(g) \/ FallBack(g)
  BY <1>1, <1>3 DEF AfterRest, AfterTools, FallBack, NextTurn, Finalize, Call, Goto
<1>4. CASE Fail(g) \/ Parse(g)
  <2>1. pc[g] \in {"reply", "parse"}
    BY <1>4 DEF Fail, Parse
  <2>2. PICK end, n : Return(g, end, n)
    BY <1>4 DEF Fail, Parse
  <2> QED BY <1>1, <2>1, <2>2 DEF Return, Goto, TypeOK
<1> QED BY <1>2, <1>3, <1>4 DEF LoopStep

\* Starts of requests are an interval apart, whoever makes them.
THEOREM StartsSpaced == Spec => StartsAreSpaced
<1>1. ASSUME AgentInv, [Next]_vars, NEW g \in Workers,
             pc[g] \in {"gate", "pace"}, pc'[g] = "post"
      PROVE  since >= Interval
  <2> TypeOK /\ GateInv /\ since \in 0..Interval /\ Interval \in Nat
    BY <1>1, Bounds DEF AgentInv, TypeOK
  <2>1. ASSUME NEW h \in Workers, Gather(h)  PROVE FALSE
    <3>1. /\ pc'[h] # "post"
          /\ \A k \in Workers \ {h} : pc'[k] = pc[k]
      BY <2>1, GatherFrame DEF Gathering
    <3> QED BY <1>1, <3>1
  <2>2. ASSUME NEW h \in Workers, LoopStep(h)  PROVE FALSE
    <3>1. /\ pc[h] \notin {"gate", "pace"}
          /\ \A k \in Workers \ {h} : pc'[k] = pc[k]
      BY <2>2, LoopFrame
    <3> QED BY <1>1, <3>1
  <2>3. ASSUME NEW h \in Workers, ClientStep(h)  PROVE since >= Interval
    <3>1. CASE StartNow(h)
      BY <3>1 DEF StartNow
    <3>2. CASE LeaveGate(h)
      <4>1. pc[h] = "pace" /\ wait = 0
        BY <3>2 DEF LeaveGate
      <4>2. holder = h /\ None \notin Workers
        BY <4>1, AgentAssumption DEF GateInv
      <4>3. wait + since >= Interval
        BY <4>2 DEF GateInv
      <4> QED BY <4>1, <4>3
    <3>3. CASE EnterGate(h) \/ Post(h) \/ Backoff(h) \/ GiveUp(h)
      <4>1. /\ pc'[h] = "post" => pc[h] \notin {"gate", "pace"}
            /\ \A k \in Workers \ {h} : pc'[k] = pc[k]
        BY <3>3 DEF EnterGate, Post, Backoff, GiveUp, Goto, TypeOK
      <4> QED BY <1>1, <4>1
    <3> QED BY <2>3, <3>1, <3>2, <3>3 DEF ClientStep
  <2>4. CASE Tick \/ Cancel \/ UNCHANGED vars
    <3>1. pc' = pc
      BY <2>4 DEF Tick, Cancel, vars
    <3> QED BY <1>1, <3>1
  <2> QED BY <1>1, <2>1, <2>2, <2>3, <2>4 DEF Next, Step, Ended
<1>2. AgentInv /\ [Next]_vars =>
        [\A g \in Workers :
           pc[g] \in {"gate", "pace"} /\ pc'[g] = "post" => since >= Interval]_vars
  BY <1>1
<1> QED BY <1>2, AgentInvariant, PTL DEF Spec, StartsAreSpaced

-----------------------------------------------------------------------------
(* The refinement: how much of the limit each step uses up.                *)

LEMMA Times ==
  ASSUME NEW m \in Nat, NEW t \in Nat, NEW u \in Nat, t <= u
  PROVE  /\ t * m \in Nat
         /\ t * m <= u * m
         /\ (t + 1) * m = t * m + m
<1>1. \A d \in Nat : d * m \in Nat /\ (t + d) * m = t * m + d * m
  OBVIOUS
<1>2. u - t \in Nat /\ t + (u - t) = u
  OBVIOUS
<1>3. t * m \in Nat /\ (t + 1) * m = t * m + m
  OBVIOUS
<1>4. u * m = t * m + (u - t) * m /\ (u - t) * m \in Nat
  BY <1>1, <1>2
<1> QED BY <1>3, <1>4

LEMMA LimitValue ==
  /\ (MaxToolTurns + 1) * MaxOverloadAttempts \in Nat
  /\ Limit = (MaxToolTurns + 1) * MaxOverloadAttempts + MaxOverloadAttempts
<1>1. MaxToolTurns + 1 \in Nat /\ MaxOverloadAttempts \in Nat
      /\ MaxToolTurns + 2 = (MaxToolTurns + 1) + 1
      /\ MaxToolTurns + 1 <= MaxToolTurns + 1
  BY Bounds
<1>2. /\ (MaxToolTurns + 1) * MaxOverloadAttempts \in Nat
      /\ ((MaxToolTurns + 1) + 1) * MaxOverloadAttempts
           = (MaxToolTurns + 1) * MaxOverloadAttempts + MaxOverloadAttempts
  BY <1>1, Times
<1> QED BY <1>1, <1>2 DEF Limit

\* What a call uses up before it begins, and the requests it has made.
LEMMA Used ==
  ASSUME TypeOK, NEW g \in Workers
  PROVE  /\ CallsBefore(g) \in 0..(MaxToolTurns + 1)
         /\ Asked(g) \in 0..MaxOverloadAttempts
         /\ CallsBefore(g) * MaxOverloadAttempts \in Nat
         /\ CallsBefore(g) * MaxOverloadAttempts
              <= (MaxToolTurns + 1) * MaxOverloadAttempts
<1>1. CallsBefore(g) \in 0..(MaxToolTurns + 1)
  BY Bounds DEF TypeOK, CallsBefore
<1>2. Asked(g) \in 0..MaxOverloadAttempts
  BY Bounds DEF TypeOK, Asked
<1>3. CallsBefore(g) \in Nat /\ MaxToolTurns + 1 \in Nat /\ MaxOverloadAttempts \in Nat
      /\ CallsBefore(g) <= MaxToolTurns + 1
  BY <1>1, Bounds
<1> HIDE DEF CallsBefore, Asked
<1>4. /\ CallsBefore(g) * MaxOverloadAttempts \in Nat
      /\ CallsBefore(g) * MaxOverloadAttempts
           <= (MaxToolTurns + 1) * MaxOverloadAttempts
  BY <1>3, Times
<1> QED BY <1>1, <1>2, <1>4

LEMMA LeftRange ==
  ASSUME TypeOK, NEW g \in Workers
  PROVE  Left(g) \in 0..Limit
<1>1. /\ CallsBefore(g) * MaxOverloadAttempts \in Nat /\ Asked(g) \in Nat
      /\ Asked(g) <= MaxOverloadAttempts
      /\ CallsBefore(g) * MaxOverloadAttempts
           <= (MaxToolTurns + 1) * MaxOverloadAttempts
      /\ MaxOverloadAttempts \in Nat
  BY Used, Bounds
<1> HIDE DEF CallsBefore, Asked
<1> QED BY <1>1, LimitValue DEF Left

\* The values that a goroutine's share of the mapping reads.
Frame(g) ==
  /\ pc'[g] = pc[g] /\ turn'[g] = turn[g] /\ final'[g] = final[g]
  /\ attempt'[g] = attempt[g] /\ reply'[g] = reply[g] /\ result'[g] = result[g]

LEMMA Framed ==
  ASSUME NEW g \in Workers, Frame(g)
  PROVE  Left(g)' = Left(g) /\ Outcome(g)' = Outcome(g)
<1>1. CallsBefore(g)' = CallsBefore(g)
  BY DEF Frame, CallsBefore
<1>2. Asked(g)' = Asked(g)
  BY DEF Frame, Asked
<1>3. (pc[g] = "done")' = (pc[g] = "done")
  BY DEF Frame
<1>4. Left(g)' = Left(g)
  BY <1>1, <1>2, <1>3 DEF Left, Limit
<1> QED BY <1>4 DEF Frame, Outcome

\* One goroutine's step, seen through the mapping.
LEMMA Mapped ==
  ASSUME TypeOK, TypeOK', NEW g \in Workers,
         \A h \in Workers \ {g} : Left(h)' = Left(h) /\ Outcome(h)' = Outcome(h),
         Left(g)' <= Left(g),
         \/ Outcome(g) = "open" /\ Outcome(g)' = "open"
         \/ /\ Outcome(g) = "open" /\ Outcome(g)' = "refused"
            /\ Left(g)' < Left(g)
         \/ /\ Outcome(g) \in {"open", "refused"}
            /\ Outcome(g)' \in {"answered", "failed"}
            /\ Outcome(g) = "refused" => Outcome(g)' = "failed"
         \/ Left(g)' = Left(g) /\ Outcome(g)' = Outcome(g)
  PROVE  [Question!Next]_(Question!vars)
<1> DEFINE l == [h \in Workers |-> Left(h)]
           o == [h \in Workers |-> Outcome(h)]
           k == Left(g) - Left(g)'
<1>1. /\ Left(g) \in 0..Limit /\ Left(g)' \in 0..Limit /\ Limit \in Nat
  <2>1. Left(g) \in 0..Limit
    BY LeftRange
  <2>2. (Left(g) \in 0..Limit)'
    BY LeftRange, PTL
  <2>3. Limit \in Nat
    BY LimitValue, Bounds
  <2> QED BY <2>1, <2>2, <2>3 DEF Limit
<1>2. /\ k \in 0..Limit /\ l[g] >= k /\ l' = [l EXCEPT ![g] = @ - k]
      /\ Left(g)' < Left(g) => k \in 1..Limit
  <2>1. k \in 0..Limit /\ Left(g) >= k /\ Left(g) - k = Left(g)'
        /\ (Left(g)' < Left(g) => k \in 1..Limit)
    BY <1>1
  <2>2. l' = [h \in Workers |-> Left(h)']
    OBVIOUS
  <2> HIDE DEF k
  <2> QED BY <2>1, <2>2
<1>3. o' = [o EXCEPT ![g] = Outcome(g)']
  <2>1. o' = [h \in Workers |-> Outcome(h)']
    OBVIOUS
  <2> QED BY <2>1
<1>4. o[g] = Outcome(g)
  OBVIOUS
<1> HIDE DEF k
<1>5. CASE Outcome(g) = "open" /\ Outcome(g)' = "open"
  <2>1. CASE Left(g)' < Left(g)
    BY <1>2, <1>3, <1>4, <1>5, <2>1 DEF Question!Next, Question!Ask, Question!Spend
  <2>2. CASE Left(g)' = Left(g)
    <3>1. l' = l /\ o' = o
      BY <1>5, <2>2
    <3> QED BY <3>1 DEF Question!vars
  <2> QED BY <1>1, <2>1, <2>2
<1>6. CASE Outcome(g) = "open" /\ Outcome(g)' = "refused" /\ Left(g)' < Left(g)
  BY <1>2, <1>3, <1>4, <1>6 DEF Question!Next, Question!Ask, Question!Spend
<1>7. CASE /\ Outcome(g) \in {"open", "refused"}
           /\ Outcome(g)' \in {"answered", "failed"}
           /\ Outcome(g) = "refused" => Outcome(g)' = "failed"
  BY <1>2, <1>3, <1>4, <1>7
     DEF Question!Next, Question!Finish, Question!Spend, Question!Ended
<1>8. CASE Left(g)' = Left(g) /\ Outcome(g)' = Outcome(g)
  <2>1. l' = l /\ o' = o
    BY <1>8
  <2> QED BY <2>1 DEF Question!vars
<1> QED BY <1>5, <1>6, <1>7, <1>8

\* A step that leaves the counts of a goroutine alone.
LEMMA Unspent ==
  ASSUME AgentInv, AgentInv', NEW g \in Workers,
         \A h \in Workers \ {g} : Frame(h),
         pc[g] # "done", pc'[g] # "done",
         turn'[g] = turn[g], final'[g] = final[g], Asked(g)' = Asked(g),
         Outcome(g)' = Outcome(g)
  PROVE  [Question!Next]_(Question!vars)
<1>1. CallsBefore(g)' = CallsBefore(g)
  BY DEF CallsBefore
<1>2. Left(g)' = Left(g)
  BY <1>1 DEF Left, Limit
<1>3. Left(g) \in Nat
  BY LeftRange, LimitValue, Bounds DEF AgentInv
<1> QED BY <1>2, <1>3, Framed, Mapped DEF AgentInv

\* A request has come back.
LEMMA OneAsked ==
  ASSUME AgentInv, AgentInv', NEW g \in Workers,
         \A h \in Workers \ {g} : Frame(h),
         pc[g] # "done", pc'[g] # "done",
         turn'[g] = turn[g], final'[g] = final[g], Asked(g)' = Asked(g) + 1,
         Outcome(g) = "open", Outcome(g)' \in {"open", "refused"}
  PROVE  [Question!Next]_(Question!vars)
<1>1. CallsBefore(g)' = CallsBefore(g)
  BY DEF CallsBefore
<1>2. CallsBefore(g) * MaxOverloadAttempts \in Nat /\ Asked(g) \in Nat /\ Limit \in Nat
  BY Used, LimitValue, Bounds DEF AgentInv
<1> HIDE DEF CallsBefore, Asked, Limit, Outcome
<1>3. Left(g)' < Left(g)
  <2>1. Limit' = Limit
    BY DEF Limit
  <2> QED BY <1>1, <1>2, <2>1 DEF Left
<1>4. Left(g) \in Int /\ Left(g)' \in Int
  <2>1. Left(g) \in 0..Limit
    BY LeftRange DEF AgentInv
  <2>2. (Left(g) \in 0..Limit)'
    BY LeftRange, PTL DEF AgentInv
  <2> QED BY <2>1, <2>2
<1> QED BY <1>3, <1>4, Framed, Mapped DEF AgentInv

\* The next call: what the last one left of its attempts is given up.
LEMMA NextCall ==
  ASSUME AgentInv, AgentInv', NEW g \in Workers,
         \A h \in Workers \ {g} : Frame(h),
         pc[g] # "done", pc'[g] # "done",
         CallsBefore(g)' >= CallsBefore(g) + 1, Asked(g)' = 0,
         Outcome(g) = "open", Outcome(g)' = "open"
  PROVE  [Question!Next]_(Question!vars)
<1> DEFINE m == MaxOverloadAttempts
           b == CallsBefore(g)
           c == CallsBefore(g)'
<1>1. b \in Nat /\ Asked(g) \in 0..m /\ m \in Nat /\ b * m \in Nat /\ Limit \in Nat
  BY Used, LimitValue, Bounds DEF AgentInv
<1>2. c \in Nat
  <2>1. (CallsBefore(g) \in 0..(MaxToolTurns + 1))'
    BY Used, PTL DEF AgentInv
  <2> QED BY <2>1, Bounds
<1>3. c * m \in Nat /\ (b + 1) * m <= c * m /\ (b + 1) * m = b * m + m
  <2> HIDE DEF b, c, m
  <2>1. b + 1 \in Nat /\ b + 1 <= c
    BY <1>1, <1>2 DEF b, c
  <2>2. (b + 1) * m <= c * m
    BY <1>1, <1>2, <2>1, Times
  <2>3. c * m \in Nat
    BY <1>1, <1>2, Times
  <2>4. (b + 1) * m = b * m + m
    BY <1>1, Times
  <2> QED BY <2>2, <2>3, <2>4
<1>4. Left(g) = Limit - b * m - Asked(g) /\ Left(g)' = Limit - c * m - 0
  BY DEF Left, Limit
<1> HIDE DEF CallsBefore, Asked, Limit, Outcome, b, c, m
<1>5. Left(g)' <= Left(g)
  BY <1>1, <1>3, <1>4
<1> QED BY <1>5, Framed, Mapped DEF AgentInv

\* The end of an extraction uses up the rest.
LEMMA LastStep ==
  ASSUME AgentInv, AgentInv', NEW g \in Workers,
         NEW end \in {"answered", "failed"}, NEW n, Return(g, end, n),
         \A h \in Workers \ {g} : Frame(h),
         pc[g] # "done", reply[g] = "quota" => end = "failed"
  PROVE  [Question!Next]_(Question!vars)
<1>1. Left(g)' = 0
  BY DEF Return, Goto, Left, AgentInv, TypeOK
<1>2. Outcome(g) \in {"open", "refused"}
  BY DEF Outcome, AgentInv, ReplyInv
<1>3. Outcome(g)' = end
  BY DEF Return, Outcome, AgentInv, TypeOK
<1>4. Outcome(g) = "refused" => end = "failed"
  BY DEF Outcome, AgentInv, ReplyInv
<1>5. Left(g) \in Nat
  BY LeftRange, LimitValue, Bounds DEF AgentInv
<1>6. Left(g)' <= Left(g)
  BY <1>1, <1>5
<1> QED BY <1>2, <1>3, <1>4, <1>6, Framed, Mapped DEF AgentInv

LEMMA GatherMapped ==
  ASSUME AgentInv, AgentInv', NEW g \in Workers, Gather(g)
  PROVE  [Question!Next]_(Question!vars)
<1>1. /\ pc[g] # "done" /\ pc'[g] # "done"
      /\ \A h \in Workers \ {g} : pc'[h] = pc[h]
      /\ UNCHANGED <<loop, chat, result>>
  BY GatherFrame DEF AgentInv, Gathering
<1>2. \A h \in Workers \ {g} : Frame(h)
  BY <1>1 DEF Frame, loop, chat
<1>3. turn' = turn /\ final' = final /\ Asked(g)' = Asked(g) /\ Outcome(g)' = Outcome(g)
  BY <1>1 DEF loop, chat, Asked, Outcome
<1> QED BY <1>1, <1>2, <1>3, Unspent

\* Nothing is refused while a reply is outstanding or may be retried.
LEMMA OpenOutcome ==
  ASSUME AgentInv, NEW g \in Workers,
         pc[g] \in {"gate", "pace", "post", "backoff", "rest", "tools"}
  PROVE  Outcome(g) = "open"
<1>1. reply[g] # "quota"
  BY DEF AgentInv, ReplyInv, Retried, Transient, Messages
<1>2. result[g].end = "open"
  BY DEF AgentInv, ReplyInv
<1> QED BY <1>1, <1>2 DEF Outcome

LEMMA ClientMapped ==
  ASSUME AgentInv, AgentInv', NEW g \in Workers, ClientStep(g)
  PROVE  [Question!Next]_(Question!vars)
<1>1. /\ pc \in [Workers -> Places] /\ reply \in [Workers -> Replies]
      /\ attempt \in [Workers -> 1..MaxOverloadAttempts]
      /\ MaxOverloadAttempts \in Nat
  BY Bounds DEF AgentInv, TypeOK
<1>2. Outcome(g) = "open" /\ result[g].end = "open"
  BY OpenOutcome DEF AgentInv, ReplyInv, ClientStep, StartNow, EnterGate,
                     LeaveGate, Post, Backoff, GiveUp
<1>3. CASE StartNow(g) \/ EnterGate(g) \/ LeaveGate(g)
  <2>1. /\ UNCHANGED <<loop, chat, result>> /\ pc[g] # "done" /\ pc'[g] # "done"
        /\ \A h \in Workers \ {g} : pc'[h] = pc[h]
    BY <1>1, <1>3 DEF StartNow, EnterGate, LeaveGate, Start, Goto
  <2>2. \A h \in Workers \ {g} : Frame(h)
    BY <2>1 DEF Frame, loop, chat
  <2>3. turn' = turn /\ final' = final /\ Asked(g)' = Asked(g) /\ Outcome(g)' = Outcome(g)
    BY <2>1 DEF loop, chat, Asked, Outcome
  <2> QED BY <2>1, <2>2, <2>3, Unspent
<1>4. CASE Post(g)
  <2>1. PICK r \in IF cancelled THEN Messages \cup {"cancelled"} ELSE Answers :
          /\ reply' = [reply EXCEPT ![g] = r]
          /\ Goto(g, IF Retried(g, r) THEN "backoff" ELSE "reply")
    BY <1>4 DEF Post
  <2>2. UNCHANGED <<loop, attempt, result>> /\ pc[g] = "post"
    BY <1>4 DEF Post
  <2>3. /\ reply'[g] # "none" /\ reply[g] = "none" /\ pc'[g] # "done"
        /\ \A h \in Workers \ {g} : pc'[h] = pc[h] /\ reply'[h] = reply[h]
    BY <1>1, <2>1, <2>2 DEF Goto, Answers, Messages, Transient, AgentInv, ReplyInv
  <2>4. \A h \in Workers \ {g} : Frame(h)
    BY <2>2, <2>3 DEF Frame, loop
  <2>5. turn' = turn /\ final' = final /\ Asked(g)' = Asked(g) + 1
    BY <1>1, <2>2, <2>3 DEF loop, Asked
  <2>6. Outcome(g)' \in {"open", "refused"}
    BY <1>2, <2>2 DEF Outcome
  <2> QED BY <1>2, <2>2, <2>3, <2>4, <2>5, <2>6, OneAsked
<1>5. CASE Backoff(g)
  <2>1. /\ UNCHANGED <<loop, result>> /\ pc[g] = "backoff" /\ reply[g] # "none"
        /\ pc'[g] = "gate" /\ reply'[g] = "none" /\ attempt'[g] = attempt[g] + 1
        /\ \A h \in Workers \ {g} :
             pc'[h] = pc[h] /\ reply'[h] = reply[h] /\ attempt'[h] = attempt[h]
    BY <1>1, <1>5 DEF Backoff, Goto, AgentInv, ReplyInv, Gathering
  <2>2. \A h \in Workers \ {g} : Frame(h)
    BY <2>1 DEF Frame, loop
  <2>3. turn' = turn /\ final' = final /\ Asked(g)' = Asked(g)
    BY <1>1, <2>1 DEF loop, Asked
  <2>4. Outcome(g)' = Outcome(g)
    BY <1>2, <2>1 DEF Outcome
  <2> QED BY <2>1, <2>2, <2>3, <2>4, Unspent
<1>6. CASE GiveUp(g)
  <2>1. /\ UNCHANGED <<loop, attempt, result>>
        /\ pc[g] \in {"gate", "pace", "backoff", "rest"}
        /\ pc'[g] = "reply" /\ reply'[g] = "cancelled"
        /\ \A h \in Workers \ {g} : pc'[h] = pc[h] /\ reply'[h] = reply[h]
    BY <1>1, <1>6 DEF GiveUp, Goto
  <2>2. \A h \in Workers \ {g} : Frame(h)
    BY <2>1 DEF Frame, loop
  <2>3. turn' = turn /\ final' = final /\ Outcome(g)' = "open"
    BY <1>2, <2>1 DEF loop, Outcome
  <2>4. CASE reply[g] = "none"
    <3>1. Asked(g)' = Asked(g) + 1
      BY <1>1, <2>1, <2>4 DEF Asked
    <3> QED BY <1>2, <2>1, <2>2, <2>3, <3>1, OneAsked
  <2>5. CASE reply[g] # "none"
    <3>1. Asked(g)' = Asked(g)
      BY <1>1, <2>1, <2>5 DEF Asked
    <3> QED BY <1>2, <2>1, <2>2, <2>3, <3>1, Unspent
  <2> QED BY <2>4, <2>5
<1> QED BY <1>3, <1>4, <1>5, <1>6 DEF ClientStep

LEMMA LoopMapped ==
  ASSUME AgentInv, AgentInv', NEW g \in Workers, LoopStep(g)
  PROVE  [Question!Next]_(Question!vars)
<1>1. /\ pc \in [Workers -> Places] /\ reply \in [Workers -> Replies]
      /\ attempt \in [Workers -> 1..MaxOverloadAttempts]
      /\ turn \in [Workers -> 0..MaxToolTurns] /\ final \in [Workers -> BOOLEAN]
      /\ MaxOverloadAttempts \in Nat /\ MaxToolTurns \in Nat
  BY Bounds DEF AgentInv, TypeOK
<1>2. \A h \in Workers \ {g} : Frame(h)
  BY LoopFrame DEF Frame, AgentInv
<1>3. pc[g] # "done"
  BY LoopFrame DEF AgentInv
<1>4. CASE RestTurn(g) \/ UseTools(g) \/ RunTool(g) \/ Accept(g)
  <2>1. UNCHANGED <<turn, final, chat, result>> /\ pc'[g] # "done"
    BY <1>1, <1>3, <1>4 DEF RestTurn, UseTools, RunTool, Accept, Goto, loop
  <2>2. Asked(g)' = Asked(g) /\ Outcome(g)' = Outcome(g)
    BY <2>1 DEF chat, Asked, Outcome
  <2> QED BY <1>2, <1>3, <2>1, <2>2, Unspent
<1>5. CASE AfterRest(g) \/ AfterTools(g) \/ FallBack(g)
  <2>1. Call(g) /\ UNCHANGED result
    BY <1>5 DEF AfterRest, AfterTools, FallBack, NextTurn, Finalize
  <2>2. pc'[g] = "gate" /\ attempt'[g] = 1 /\ reply'[g] = "none"
    BY <1>1, <2>1 DEF Call, Goto
  <2>3. Asked(g)' = 0
    BY <2>2 DEF Asked
  <2>4. ~final[g] /\ Outcome(g) = "open"
    <3>1. CASE AfterRest(g) \/ AfterTools(g)
      <4>1. pc[g] \in {"rest", "tools"}
        BY <3>1 DEF AfterRest, AfterTools
      <4> QED BY <4>1, OpenOutcome DEF AgentInv, ReplyInv
    <3>2. CASE FallBack(g)
      <4>1. pc[g] = "reply" /\ ~final[g] /\ reply[g] # "quota"
        BY <3>2 DEF FallBack
      <4> QED BY <4>1 DEF Outcome, AgentInv, ReplyInv
    <3> QED BY <1>5, <3>1, <3>2
  <2>5. Outcome(g)' = "open"
    <3>1. result[g].end = "open"
      BY <1>3 DEF AgentInv, ReplyInv
    <3> QED BY <2>1, <2>2, <3>1 DEF Outcome
  <2>6. CallsBefore(g)' >= CallsBefore(g) + 1
    <3>1. CASE Finalize(g)
      <4>1. final'[g]
        BY <1>1, <3>1 DEF Finalize
      <4> QED BY <1>1, <2>4, <4>1 DEF CallsBefore
    <3>2. CASE turn' = [turn EXCEPT ![g] = @ + 1] /\ final' = final
      BY <1>1, <2>4, <3>2 DEF CallsBefore
    <3> QED BY <1>5, <3>1, <3>2 DEF AfterRest, AfterTools, FallBack, NextTurn
  <2> QED BY <1>2, <1>3, <2>2, <2>3, <2>4, <2>5, <2>6, NextCall
<1>6. CASE Fail(g)
  BY <1>2, <1>3, <1>6, LastStep DEF Fail
<1>7. CASE Parse(g)
  <2>1. PICK n : Return(g, "answered", n)
    BY <1>7 DEF Parse
  <2>2. reply[g] # "quota"
    BY <1>7 DEF Parse, AgentInv, ReplyInv, Messages
  <2> QED BY <1>2, <1>3, <2>1, <2>2, LastStep
<1> QED BY <1>4, <1>5, <1>6, <1>7 DEF LoopStep

LEMMA MapInit == Init => Question!Init
<1> SUFFICES ASSUME Init  PROVE Question!Init
  OBVIOUS
<1>1. ASSUME NEW g \in Workers  PROVE Left(g) = Limit /\ Outcome(g) = "open"
  <2>1. CallsBefore(g) = 0 /\ Asked(g) = 0 /\ pc[g] # "done"
    BY DEF Init, CallsBefore, Asked
  <2>2. Left(g) = Limit - 0 * MaxOverloadAttempts - 0
    BY <2>1 DEF Left
  <2>3. MaxOverloadAttempts \in Nat /\ Limit \in Nat
    BY Bounds, LimitValue
  <2>4. Left(g) = Limit
    BY <2>2, <2>3
  <2>5. Outcome(g) = "open"
    BY DEF Init, Outcome
  <2> QED BY <2>4, <2>5
<1> QED BY <1>1 DEF Question!Init

\* The multiplied retries stay within their limit, and a refusal ends them:
\* the extractions implement the abstract client.
THEOREM CallsAreBounded == Spec => ImplementsBoundedCall
<1>1. AgentInv /\ AgentInv' /\ [Next]_vars => [Question!Next]_(Question!vars)
  <2> SUFFICES ASSUME AgentInv, AgentInv', [Next]_vars
               PROVE  [Question!Next]_(Question!vars)
    OBVIOUS
  <2>1. CASE Tick \/ Cancel \/ UNCHANGED vars
    <3>1. UNCHANGED <<pc, loop, chat, result>>
      BY <2>1 DEF Tick, Cancel, vars
    <3>2. \A h \in Workers : Frame(h)
      BY <3>1 DEF Frame, loop, chat
    <3>3. \A h \in Workers : Left(h)' = Left(h) /\ Outcome(h)' = Outcome(h)
      BY <3>2, Framed
    <3> QED BY <3>3 DEF Question!vars
  <2> QED BY <2>1, GatherMapped, ClientMapped, LoopMapped DEF Next, Step, Ended
<1> QED BY <1>1, AgentInvariant, MapInit, PTL
       DEF Spec, ImplementsBoundedCall, Question!Spec
=============================================================================
