---------------------------- MODULE MCJobCreation ----------------------------
(* JobCreation on small instances.                                         *)
EXTENDS JobCreation, TLC

CONSTANTS c1, c2, c3

\* Three clients; the third types the query in another letter case.
ThreeClients == {c1, c2, c3}
TwoSpellings == [c \in ThreeClients |-> IF c = c3 THEN "QUERY" ELSE "query"]

\* Two clients that type the same.
TwoClients == {c1, c2}
OneSpelling == [c \in TwoClients |-> "query"]
==============================================================================
