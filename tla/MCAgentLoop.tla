---------------------------- MODULE MCAgentLoop ----------------------------
(* AgentLoop on small instances.                                           *)
EXTENDS AgentLoop, TLC

CONSTANTS g1, g2

\* An answer that is not JSON, one with an object of another kind before the
\* right one, and one with more quotes than are kept.
FewContents ==
  {<<>>,
   <<[usable |-> FALSE, quotes |-> 2], [usable |-> TRUE, quotes |-> 1]>>,
   <<[usable |-> TRUE, quotes |-> 3]>>}
=============================================================================
