---------------------------- MODULE MCSearchPage ----------------------------
(* SearchPage on small instances.                                          *)
EXTENDS SearchPage, TLC

CONSTANTS f1, f2
=============================================================================
