----------------------------- MODULE AgentLoop -----------------------------
(***************************************************************************)
(* Extractions of quotes by a language model: the content of an article is *)
(* gathered through the browser sidecar, the model is asked in turns and   *)
(* may call tools on the images, and every turn is a call of a client that *)
(* retries (Perelman.Extract, agentLoop, imageRegistry, LLMClient).        *)
(*                                                                         *)
(* The goroutines of one enrichment share the client: its gate keeps the   *)
(* starts of their requests apart.  Time passes in ticks only as far as    *)
(* the gate reads it; other waits end whenever they end.                   *)
(*                                                                         *)
(* Abstracted: prompts, the wording of messages, pixels.  An image is its  *)
(* id; of an answer the model keeps how many quotes can be read from it.   *)
(***************************************************************************)
EXTENDS Integers, Sequences, FiniteSets

CONSTANTS
  Workers,              \* goroutines, each with one article
  Addressed,            \* those whose article has an address to fetch
  MaxAttempts,          \* requests of a call
  MaxOverloadAttempts,  \* requests of a call when the provider is overloaded
  MaxTurnRetries,       \* turns in a row that rate limits may use up
  MaxToolTurns,         \* turns with tools after the first
  MaxImages,            \* figures of a web page
  MaxPages,             \* pages of a PDF that are rendered
  MaxQuotes,            \* quotes kept of an answer
  Interval,             \* ticks between starts of requests, 0 for no pacing
  Contents,             \* what answers say: sequences of JSON candidates
  MaxCalls,             \* bound: tool calls in one message
  None                  \* nobody

ASSUME AgentAssumption ==
  /\ {MaxTurnRetries, MaxToolTurns, MaxImages, MaxPages, MaxQuotes, MaxCalls}
       \subseteq Nat \ {0}
  /\ MaxAttempts \in Nat \ {0}
  /\ MaxOverloadAttempts \in Nat
  /\ MaxOverloadAttempts >= MaxAttempts
  /\ Interval \in Nat
  /\ Contents \subseteq Seq([usable : BOOLEAN, quotes : Nat])
  /\ Addressed \subseteq Workers
  /\ None \notin Workers

VARIABLES
  pc,           \* [Workers -> where the extraction is]
  ids,          \* [Workers -> ids of the images in the registry]
  added,        \* [Workers -> images put into the registry so far]
  turn,         \* [Workers -> turn of the agent loop]
  retries,      \* [Workers -> turnRetries]
  final,        \* [Workers -> the call is the one of finalize]
  calls,        \* [Workers -> tool calls of the last message to be run]
  attempt,      \* [Workers -> attempt of the current call]
  reply,        \* [Workers -> what the last request came to]
  result,       \* [Workers -> how the extraction ended and its quotes]
  holder,       \* the goroutine inside the gate
  wait,         \* ticks that the holder has to sleep
  since,        \* ticks since a request last started, up to Interval
  cancelled     \* the job's context is done

content == <<ids, added>>
loop == <<turn, retries, final, calls>>
chat == <<attempt, reply>>
gate == <<holder, wait, since>>
vars == <<pc, content, loop, chat, result, gate, cancelled>>

-----------------------------------------------------------------------------

\* What a request comes to: a message of three kinds, or an error.
Messages == {"content", "calls", "blank"}
Transient == {"rate", "overload", "lost"}
Answers == Messages \cup Transient \cup {"quota", "bad", "error"}
Replies == Answers \cup {"none", "cancelled"}

Gathering == {"start", "page", "pdf", "linked", "linkedpdf", "shot", "figures"}
Calling == {"gate", "pace", "post", "backoff"}
Places == Gathering \cup Calling \cup {"reply", "rest", "tools", "parse", "done"}

\* Images of the article, and those that tools have made of them.
Kinds == {"given", "tool"}

Init ==
  /\ pc = [g \in Workers |-> "start"]
  /\ ids = [g \in Workers |-> {}]
  /\ added = [g \in Workers |-> 0]
  /\ turn = [g \in Workers |-> 0]
  /\ retries = [g \in Workers |-> 0]
  /\ final = [g \in Workers |-> FALSE]
  /\ calls = [g \in Workers |-> 0]
  /\ attempt = [g \in Workers |-> 1]
  /\ reply = [g \in Workers |-> "none"]
  /\ result = [g \in Workers |-> [end |-> "open", quotes |-> 0]]
  /\ holder = None
  /\ wait = 0
  /\ since = Interval
  /\ cancelled = FALSE

Goto(g, p) == pc' = [pc EXCEPT ![g] = p]

\* The locals of the extraction are gone when it returns.
Return(g, end, quotes) ==
  /\ Goto(g, "done")
  /\ result' = [result EXCEPT ![g] = [end |-> end, quotes |-> quotes]]
  /\ ids' = [ids EXCEPT ![g] = {}]
  /\ added' = [added EXCEPT ![g] = 0]
  /\ turn' = [turn EXCEPT ![g] = 0]
  /\ retries' = [retries EXCEPT ![g] = 0]
  /\ final' = [final EXCEPT ![g] = FALSE]
  /\ attempt' = [attempt EXCEPT ![g] = 1]
  /\ reply' = [reply EXCEPT ![g] = "none"]
  /\ UNCHANGED <<calls, gate, cancelled>>

-----------------------------------------------------------------------------
(* The content of the article.  Whatever fails here, the extraction goes   *)
(* on with what it has; without images it goes on with the stored text.    *)

NamedByTurn(g, kind) == [kind |-> kind, n |-> turn[g]]

\* An image is named by its kind and the number of images before it.
Named(g, kind) == [kind |-> kind, n |-> Cardinality(ids[g])]

Register(g, kind) ==
  /\ ids' = [ids EXCEPT ![g] = @ \cup {Named(g, kind)}]
  /\ added' = [added EXCEPT ![g] = @ + 1]

\* Without a browser or an address there is nothing to fetch.
Begin(g) ==
  /\ pc[g] = "start"
  /\ Goto(g, IF g \in Addressed THEN "page" ELSE "gate")
  /\ UNCHANGED <<content, loop, chat, result, gate, cancelled>>

\* The page is lost, is a PDF, links to one, or is taken as it is.
FetchPage(g) ==
  /\ pc[g] = "page"
  /\ \E p \in {"gate", "pdf", "linked", "shot"} : Goto(g, p)
  /\ UNCHANGED <<content, loop, chat, result, gate, cancelled>>

FetchLinked(g) ==
  /\ pc[g] = "linked"
  /\ \E p \in {"linkedpdf", "shot"} : Goto(g, p)
  /\ UNCHANGED <<content, loop, chat, result, gate, cancelled>>

\* Pages that cannot be decoded are left out.
RenderPage(g) ==
  /\ pc[g] \in {"pdf", "linkedpdf"}
  /\ Cardinality(ids[g]) < MaxPages
  /\ Register(g, "given")
  /\ UNCHANGED <<pc, loop, chat, result, gate, cancelled>>

\* A linked PDF without a usable page falls back to the web page.
EndOfPdf(g) ==
  /\ pc[g] \in {"pdf", "linkedpdf"}
  /\ Goto(g, IF pc[g] = "linkedpdf" /\ ids[g] = {} THEN "shot" ELSE "gate")
  /\ UNCHANGED <<content, loop, chat, result, gate, cancelled>>

Shot(g) ==
  /\ pc[g] = "shot"
  /\ Register(g, "given") \/ UNCHANGED content
  /\ Goto(g, "figures")
  /\ UNCHANGED <<loop, chat, result, gate, cancelled>>

Figure(g) ==
  /\ pc[g] = "figures"
  /\ Cardinality(ids[g]) < MaxImages + 1
  /\ Register(g, "given")
  /\ UNCHANGED <<pc, loop, chat, result, gate, cancelled>>

EndOfFigures(g) ==
  /\ pc[g] = "figures"
  /\ Goto(g, "gate")
  /\ UNCHANGED <<content, loop, chat, result, gate, cancelled>>

Gather(g) ==
  \/ Begin(g) \/ FetchPage(g) \/ FetchLinked(g) \/ RenderPage(g) \/ EndOfPdf(g)
  \/ Shot(g) \/ Figure(g) \/ EndOfFigures(g)

-----------------------------------------------------------------------------
(* A call of the client: wait for the start of a request, post, retry.     *)

StartHeld(g) ==
  /\ Goto(g, "post")
  /\ wait' = 0
  /\ since' = 0
  /\ UNCHANGED holder

\* A request that starts now.
Start(g) ==
  /\ Goto(g, "post")
  /\ holder' = None
  /\ wait' = 0
  /\ since' = 0

\* Without pacing the interval is 0 and nobody ever holds the gate.
StartNow(g) ==
  /\ pc[g] = "gate" /\ holder = None
  /\ since >= Interval
  /\ Start(g)
  /\ UNCHANGED <<content, loop, chat, result, cancelled>>

EnterGateOpen(g) ==
  /\ pc[g] = "gate" /\ holder = None
  /\ since < Interval
  /\ Goto(g, "pace")
  /\ wait' = Interval - since
  /\ UNCHANGED <<content, loop, chat, result, holder, since, cancelled>>

\* The gate stays closed while its holder sleeps.
EnterGate(g) ==
  /\ pc[g] = "gate" /\ holder = None
  /\ since < Interval
  /\ Goto(g, "pace")
  /\ holder' = g
  /\ wait' = Interval - since
  /\ UNCHANGED <<content, loop, chat, result, since, cancelled>>

LeaveGate(g) ==
  /\ pc[g] = "pace" /\ wait = 0
  /\ Start(g)
  /\ UNCHANGED <<content, loop, chat, result, cancelled>>

\* The attempts that an error of this kind allows.
AttemptsFor(r) == IF r = "overload" THEN MaxOverloadAttempts ELSE MaxAttempts

Retried(g, r) == r \in Transient /\ attempt[g] < AttemptsFor(r)

\* Once the context is done, every error is reported as the context's.
Post(g) ==
  /\ pc[g] = "post"
  /\ \E r \in IF cancelled THEN Messages \cup {"cancelled"} ELSE Answers :
       /\ reply' = [reply EXCEPT ![g] = r]
       /\ Goto(g, IF Retried(g, r) THEN "backoff" ELSE "reply")
  /\ UNCHANGED <<content, loop, attempt, result, gate, cancelled>>

Backoff(g) ==
  /\ pc[g] = "backoff"
  /\ attempt' = [attempt EXCEPT ![g] = @ + 1]
  /\ reply' = [reply EXCEPT ![g] = "none"]
  /\ Goto(g, "gate")
  /\ UNCHANGED <<content, loop, result, gate, cancelled>>

\* Any wait ends when the context is done.
GiveUp(g) ==
  /\ cancelled
  /\ pc[g] \in {"gate", "pace", "backoff", "rest"}
  /\ Interval = 0 => pc[g] # "gate"
  /\ Goto(g, "reply")
  /\ reply' = [reply EXCEPT ![g] = "cancelled"]
  /\ holder' = IF pc[g] = "pace" THEN None ELSE holder
  /\ wait' = IF pc[g] = "pace" THEN 0 ELSE wait
  /\ UNCHANGED <<content, loop, attempt, result, since, cancelled>>

-----------------------------------------------------------------------------
(* The agent loop.                                                         *)

Call(g) ==
  /\ attempt' = [attempt EXCEPT ![g] = 1]
  /\ reply' = [reply EXCEPT ![g] = "none"]
  /\ Goto(g, "gate")

\* One more call, without tools and outside the loop.
Finalize(g) ==
  /\ final' = [final EXCEPT ![g] = TRUE]
  /\ turn' = [turn EXCEPT ![g] = 0]
  /\ retries' = [retries EXCEPT ![g] = 0]
  /\ Call(g)

\* The next turn, or the last call when the turns are used up.
NextTurn(g) ==
  \/ /\ turn[g] < MaxToolTurns
     /\ turn' = [turn EXCEPT ![g] = @ + 1]
     /\ Call(g)
     /\ UNCHANGED <<retries, final>>
  \/ /\ turn[g] = MaxToolTurns
     /\ Finalize(g)

TurnAlwaysRetried(g) == ~final[g] /\ reply[g] \in {"rate", "overload"}

TurnRetriedTerminal(g) ==
  /\ ~final[g] /\ reply[g] \in {"rate", "overload", "quota"}
  /\ retries[g] < MaxTurnRetries

TurnRetried(g) ==
  ~final[g] /\ reply[g] \in {"rate", "overload"} /\ retries[g] < MaxTurnRetries

\* The client has given up on a rate limit: the loop rests and uses a turn.
RestTurn(g) ==
  /\ pc[g] = "reply" /\ TurnRetried(g)
  /\ retries' = [retries EXCEPT ![g] = @ + 1]
  /\ Goto(g, "rest")
  /\ UNCHANGED <<content, turn, final, calls, chat, result, gate, cancelled>>

AfterRest(g) ==
  /\ pc[g] = "rest"
  /\ NextTurn(g)
  /\ UNCHANGED <<content, calls, result, gate, cancelled>>

\* A request the provider cannot take, or a message without anything in it.
FallBack(g) ==
  /\ pc[g] = "reply" /\ ~final[g] /\ reply[g] \in {"bad", "blank"}
  /\ Finalize(g)
  /\ UNCHANGED <<content, calls, result, gate, cancelled>>

UseTools(g) ==
  /\ pc[g] = "reply" /\ ~final[g] /\ reply[g] = "calls"
  /\ \E n \in 1..MaxCalls : calls' = [calls EXCEPT ![g] = n]
  /\ retries' = [retries EXCEPT ![g] = 0]
  /\ Goto(g, "tools")
  /\ UNCHANGED <<content, turn, final, chat, result, gate, cancelled>>

\* A tool that fails answers with the error; one that works makes an image.
RunTool(g) ==
  /\ pc[g] = "tools" /\ calls[g] > 0
  /\ \/ ids[g] # {} /\ Register(g, "tool")
     \/ UNCHANGED content
  /\ calls' = [calls EXCEPT ![g] = @ - 1]
  /\ UNCHANGED <<pc, turn, retries, final, chat, result, gate, cancelled>>

AfterTools(g) ==
  /\ pc[g] = "tools" /\ calls[g] = 0
  /\ NextTurn(g)
  /\ UNCHANGED <<content, calls, result, gate, cancelled>>

Accepted(g) ==
  IF final[g] THEN reply[g] \in Messages ELSE reply[g] = "content"

Accept(g) ==
  /\ pc[g] = "reply" /\ Accepted(g)
  /\ Goto(g, "parse")
  /\ UNCHANGED <<content, loop, chat, result, gate, cancelled>>

Fail(g) ==
  /\ pc[g] = "reply"
  /\ reply[g] \notin Messages
  /\ ~TurnRetried(g)
  /\ ~final[g] => reply[g] # "bad"
  /\ Return(g, "failed", 0)

\* The quotes of the first JSON object of an answer that has one of the
\* expected keys, up to MaxQuotes of them; none without such an object.
Usable(c) == {i \in DOMAIN c : c[i].usable}
Found(c) ==
  IF Usable(c) = {} THEN {0}
  ELSE {c[i].quotes : i \in {k \in Usable(c) : \A j \in Usable(c) : k <= j}}
Capped(n) == IF n > MaxQuotes THEN MaxQuotes ELSE n

\* A message without text gives the empty result.
Parse(g) ==
  /\ pc[g] = "parse"
  /\ \E c \in IF reply[g] = "content" THEN Contents ELSE {<<>>} :
       \E n \in Found(c) : Return(g, "answered", Capped(n))

-----------------------------------------------------------------------------

Tick ==
  /\ wait > 0 \/ since < Interval
  /\ wait' = IF wait > 0 THEN wait - 1 ELSE 0
  /\ since' = IF since < Interval THEN since + 1 ELSE Interval
  /\ UNCHANGED <<pc, content, loop, chat, result, holder, cancelled>>

\* The job is stopped or the client has gone.
Cancel ==
  /\ ~cancelled
  /\ cancelled' = TRUE
  /\ UNCHANGED <<pc, content, loop, chat, result, gate>>

ClientStep(g) ==
  \/ StartNow(g) \/ EnterGate(g) \/ LeaveGate(g)
  \/ Post(g) \/ Backoff(g) \/ GiveUp(g)

LoopStep(g) ==
  \/ RestTurn(g) \/ AfterRest(g) \/ FallBack(g) \/ UseTools(g) \/ RunTool(g)
  \/ AfterTools(g) \/ Accept(g) \/ Fail(g) \/ Parse(g)

Step(g) == Gather(g) \/ ClientStep(g) \/ LoopStep(g)

\* Every extraction has ended.
Ended == (\A g \in Workers : pc[g] = "done") /\ UNCHANGED vars

Next == (\E g \in Workers : Step(g)) \/ Tick \/ Cancel \/ Ended

\* Goroutines run, sleeps end and requests time out; nothing makes a job be
\* cancelled.
Fairness == WF_vars(Tick) /\ \A g \in Workers : WF_vars(Step(g))

Spec == Init /\ [][Next]_vars /\ Fairness

-----------------------------------------------------------------------------
(* Properties.                                                             *)

\* Types of the variables, and the lists and counts within their limits.
TypeOK ==
  /\ pc \in [Workers -> Places]
  /\ ids \in [Workers -> SUBSET [kind : Kinds, n : Nat]]
  /\ added \in [Workers -> Nat]
  /\ turn \in [Workers -> 0..MaxToolTurns]
  /\ retries \in [Workers -> 0..MaxTurnRetries]
  /\ final \in [Workers -> BOOLEAN]
  /\ calls \in [Workers -> 0..MaxCalls]
  /\ attempt \in [Workers -> 1..MaxOverloadAttempts]
  /\ reply \in [Workers -> Replies]
  /\ result \in [Workers -> [end : {"open", "answered", "failed"}, quotes : 0..MaxQuotes]]
  /\ holder \in Workers \cup {None}
  /\ wait \in 0..Interval
  /\ since \in 0..Interval
  /\ cancelled \in BOOLEAN

\* An id that the model has been given keeps denoting the same image, however
\* many images the tools make and in whatever turns: no name is given twice.
NoImageIsReplaced == \A g \in Workers : added[g] = Cardinality(ids[g])

\* The provider sees requests start at least an interval apart, whichever
\* goroutines they come from and whatever retries they are.
StartsAreSpaced ==
  [][\A g \in Workers :
       pc[g] \in {"gate", "pace"} /\ pc'[g] = "post" => since >= Interval]_vars

\* Calls that the extraction has begun and left behind, and the requests that
\* it may still make when no call makes more than MaxOverloadAttempts.
CallsBefore(g) == IF final[g] THEN MaxToolTurns + 1 ELSE turn[g]
Asked(g) == IF reply[g] = "none" THEN attempt[g] - 1 ELSE attempt[g]
Limit == (MaxToolTurns + 2) * MaxOverloadAttempts
Left(g) ==
  IF pc[g] = "done" THEN 0
  ELSE Limit - CallsBefore(g) * MaxOverloadAttempts - Asked(g)

Outcome(g) == IF reply[g] = "quota" THEN "refused" ELSE result[g].end

Question == INSTANCE BoundedCall WITH
  Callers <- Workers,
  left <- [g \in Workers |-> Left(g)],
  outcome <- [g \in Workers |-> Outcome(g)]

\* Retries of requests and retries of turns multiply, but stay within the
\* turns times the attempts of a call, and an exhausted quota ends them all at
\* once: in the client, in the loop and in the call of finalize.
ImplementsBoundedCall == Question!Spec

\* Every extraction ends, whatever the provider answers and however often.
ExtractionEnds == \A g \in Workers : <>(pc[g] = "done")

-----------------------------------------------------------------------------
(* The inductive invariant behind the theorems of AgentLoop_proofs.        *)

\* Every image is numbered below the number of images.
ImageInv ==
  \A g \in Workers :
    /\ IsFiniteSet(ids[g])
    /\ added[g] = Cardinality(ids[g])
    /\ \A i \in ids[g] : i.n < added[g]

\* Whoever sleeps in the gate holds it, and will have slept long enough.
GateInv ==
  /\ \A g \in Workers : pc[g] = "pace" <=> holder = g
  /\ holder # None => wait + since >= Interval

\* What the last request came to, by where the extraction is.
ReplyInv ==
  \A g \in Workers :
    /\ pc[g] \in Gathering \cup {"gate", "pace", "post", "done"} <=> reply[g] = "none"
    /\ pc[g] = "backoff" => Retried(g, reply[g])
    /\ pc[g] = "rest" => reply[g] \in Transient
    /\ pc[g] = "tools" => reply[g] = "calls"
    /\ pc[g] = "parse" => reply[g] \in Messages
    /\ pc[g] \in {"rest", "tools"} => ~final[g]
    /\ pc[g] = "done" <=> result[g].end # "open"

AgentInv == TypeOK /\ ImageInv /\ GateInv /\ ReplyInv
=============================================================================
