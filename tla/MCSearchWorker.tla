--------------------------- MODULE MCSearchWorker ---------------------------
(* SearchWorker on small instances.                                        *)
EXTENDS SearchWorker, TLC

\* River tasks are interchangeable.
TaskSymmetry == Permutations(Tasks)
=============================================================================
