---------------------------- MODULE BoundedCall ----------------------------
(***************************************************************************)
(* What a caller may rely on when it hands a question to a client that     *)
(* retries: the client asks at most Limit times, asks no more once it has  *)
(* been refused for good, and ends with an answer or a failure.            *)
(*                                                                         *)
(* AgentLoop (questions to the language model) and BrowserFetch (requests  *)
(* to the browser sidecar) implement it, each with a limit of its own.     *)
(***************************************************************************)
EXTENDS Naturals

CONSTANTS
  Callers,      \* the callers, each with one question
  Limit         \* most requests for one question

VARIABLES
  left,         \* [Callers -> requests that may still be made]
  outcome       \* [Callers -> Outcomes]

vars == <<left, outcome>>

Outcomes == {"open", "refused", "answered", "failed"}
Ended == {"answered", "failed"}

Init ==
  /\ left = [c \in Callers |-> Limit]
  /\ outcome = [c \in Callers |-> "open"]

\* The caller may give up requests that it could have made; it gets none back.
Spend(c, atLeast) == \E k \in atLeast..Limit :
  /\ left[c] >= k
  /\ left' = [left EXCEPT ![c] = @ - k]

\* A request; its answer may be a refusal that no retry will change.
Ask(c) ==
  /\ outcome[c] = "open"
  /\ Spend(c, 1)
  /\ \E o \in {"open", "refused"} : outcome' = [outcome EXCEPT ![c] = o]

Finish(c) ==
  /\ outcome[c] \notin Ended
  /\ Spend(c, 0)
  /\ \E o \in Ended :
       /\ outcome[c] = "refused" => o = "failed"
       /\ outcome' = [outcome EXCEPT ![c] = o]

Next == \E c \in Callers : Ask(c) \/ Finish(c)

Spec == Init /\ [][Next]_vars
=============================================================================
