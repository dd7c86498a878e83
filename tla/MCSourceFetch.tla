--------------------------- MODULE MCSourceFetch ---------------------------
(* SourceFetch on small instances.                                         *)
EXTENDS SourceFetch, TLC

CONSTANTS f1, f2

\* One fetch of any source, and one that may meet it at DergiPark.
AnyAndDergiPark == f1 :> Sources @@ f2 :> {"dergipark"}

\* A work whose text hits all lists: retracted or not, of no type, an article
\* or a preprint; and a record too thin for most connectors.
Work ==
  [flaw |-> "none", types |-> {}, vetted |-> TRUE, retracted |-> FALSE,
   hits |-> Lists]
FewRecords ==
  {[Work EXCEPT !.types = t, !.retracted = b] :
     t \in {{}, {"article"}, {"preprint"}}, b \in BOOLEAN}
  \cup {[Work EXCEPT !.flaw = "thin"]}

\* The page of an article says nothing, or all there is.
TwoPages == {{}, Lists}
=============================================================================
