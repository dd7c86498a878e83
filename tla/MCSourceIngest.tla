--------------------------- MODULE MCSourceIngest ---------------------------
(* SourceIngest on small instances, with the reports of real connectors.   *)
EXTENDS SourceIngest, SourceReports, TLC

CONSTANTS v1, v2, k1, k2

VisitSymmetry == Permutations(Visits)

\* k1 is Europe PMC, a reviewed index, and k2 the preprint server arXiv.
IndexKind == k1 :> KindOf("europe_pmc")
TwoKinds == IndexKind @@ (k2 :> KindOf("arxiv"))

\* A record, and what is reported of it under a source with a text that hits
\* the lists.
Record(types, retracted) ==
  [flaw |-> "none", types |-> types, vetted |-> FALSE,
   retracted |-> retracted, hits |-> {}]
ReportOf(s, record, words, authors) ==
  [evidence |-> AsEvidence(s, Build(s, record), words, TRUE),
   authors |-> authors]

\* A published work, the same known by its text alone, and the same retracted
\* and without authors; and a preprint.
IndexReports ==
  {ReportOf("europe_pmc", Record({"article"}, FALSE), {"indexing"}, "named"),
   ReportOf("europe_pmc", Record({}, FALSE), {"indexing", "peer review"}, "named"),
   ReportOf("europe_pmc", Record({"article"}, TRUE), {"indexing"}, "none")}
ServerReports ==
  {ReportOf("arxiv", Record({}, FALSE), {"indexing"}, "named")}
PreprintReports ==
  {ReportOf("europe_pmc", Record({"preprint"}, FALSE), words, "named") :
     words \in {{}, {"indexing"}, {"preprint"}}}

FewReports == (k1 :> IndexReports) @@ (k2 :> ServerReports)
OnlyIndex == k1 :> IndexReports
OnlyPreprints == k1 :> PreprintReports

\* An abstract that says preprint.
OneText == {{"preprint"}}
=============================================================================
