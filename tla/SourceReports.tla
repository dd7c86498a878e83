--------------------------- MODULE SourceReports ---------------------------
(***************************************************************************)
(* What the connectors report of a record they are given: whether it is    *)
(* kept, and the evidence it carries to the classifier (the Fetch and      *)
(* build functions of the package connector, MergeEvidence, and the        *)
(* reading of an evidence text by domain/eligibility.go).                  *)
(*                                                                         *)
(* Abstracted: the formats of the providers and all bibliographic fields.  *)
(* A record has at most one flaw, the reason for which some connector may  *)
(* drop it.  An evidence text is its leading word.                         *)
(***************************************************************************)
EXTENDS Eligibility

\* What a record lacks, or is.  "thin" is a record that IsArticleLikeItem
\* rejects for its title or for want of a DOI and a year.
Flaws == {"none", "no title", "no link", "no doi", "no abstract", "thin",
          "off topic", "deleted", "closed", "not scholarly"}

\* What the provider says of the work.  "vetted" is the further statement
\* that confirms a review: an accepted date, a journal venue, a review flag.
\* "hits" are the keyword lists that the record's own text hits.
Records == [flaw : Flaws, types : SUBSET {"preprint", "article"},
            vetted : BOOLEAN, retracted : BOOLEAN, hits : SUBSET Lists]

\* The tiers as the connectors write them, and as the classifier reads them.
TierA == "TIER_A"
TierB == "TIER_B"
Texts == {"", TierA, TierB, "token"}

\* hasTier: only the classifier's own prefixes are tiers, any other text is
\* a reason.
AsRead(text) ==
  CASE text = ""       -> ""
    [] text = "tierA:" -> "tierA"
    [] text = "tierB:" -> "tierB"
    [] OTHER           -> "reason"

Reported == [kept : BOOLEAN, peer : Texts, index : Texts, preprint : Texts,
             retracted : BOOLEAN]

\* buildRaw: no evidence; records with one of the flaws are dropped.
Plain(r, dropped) ==
  [kept |-> r.flaw \notin dropped, peer |-> "", index |-> "",
   preprint |-> "", retracted |-> FALSE]

NotArticleLike == {"no title", "no link", "thin"}

\* mergeTokenSet: a token found in a text is appended to what is there.
Merged(text, hit) == IF text = "" /\ hit THEN "token" ELSE text

\* MergeEvidence over a text that hits the lists.
WithTokens(b, hits) ==
  [b EXCEPT !.peer = Merged(@, "peer review" \in hits),
            !.index = Merged(@, "indexing" \in hits),
            !.preprint = Merged(@, "preprint" \in hits)]

-----------------------------------------------------------------------------
(* Connectors of APIs.                                                     *)

Says(r, type) == type \in r.types

\* epmcTierEvidence: a preprint has no mark of a review.
EpmcPeer(r) == IF ~Says(r, "preprint") /\ Says(r, "article") THEN TierA ELSE ""
EpmcPreprint(r) == IF Says(r, "preprint") THEN TierA ELSE ""

EuropePmc(r) ==
  [Plain(r, {"no title", "no abstract", "no link"}) EXCEPT
     !.peer = EpmcPeer(r), !.index = TierB, !.preprint = EpmcPreprint(r),
     !.retracted = r.retracted]

\* With the open-access filter any other work is taken for a published one.
Pmc(r) ==
  [EuropePmc(r) EXCEPT
     !.peer = IF EpmcPeer(r) = "" /\ EpmcPreprint(r) = "" THEN TierB ELSE @]

OpenAlex(r) ==
  [Plain(r, {"no title", "no abstract"}) EXCEPT
     !.peer = IF r.types = {"article"} /\ r.vetted THEN TierB ELSE "",
     !.index = TierB,
     !.preprint = IF Says(r, "preprint") THEN TierA ELSE "",
     !.retracted = r.retracted]

Medknow(r) == [Plain(r, NotArticleLike) EXCEPT !.retracted = r.retracted]

Crossref(r) ==
  [Plain(r, {"no title", "no doi", "no abstract"}) EXCEPT
     !.peer = IF r.types # {"article"} THEN ""
              ELSE IF r.vetted THEN TierA ELSE TierB,
     !.index = TierB,
     !.preprint = IF Says(r, "preprint") THEN TierA ELSE "",
     !.retracted = r.retracted]

PubMed(r) == [Plain(r, {"no title"}) EXCEPT !.peer = TierB, !.index = TierB]
Arxiv(r) == [Plain(r, {"no title"}) EXCEPT !.preprint = TierA]
Doaj(r) == [Plain(r, {"no title"}) EXCEPT !.peer = TierB, !.index = TierB]
Core(r) == Plain(r, {"no title", "no link"})
Dblp(r) == Plain(r, {"no title", "no link"})

Hal(r) ==
  [Plain(r, {"no title"}) EXCEPT !.peer = IF r.vetted THEN TierA ELSE ""]

Zenodo(r) == Plain(r, {"no title"})

Iacr(r) ==
  [Plain(r, {"no title", "no link", "off topic"}) EXCEPT !.preprint = TierA]

\* The only connector that reads tokens off the record itself.
Exa(r) == WithTokens(Plain(r, NotArticleLike \cup {"not scholarly"}), r.hits)

-----------------------------------------------------------------------------
(* Connectors of pages and feeds.                                          *)

\* A missing title is formatted as "<nil>" and kept, and so are a missing
\* DOI by SciEngine and a missing link by CyberLeninka.
CiNii(r) == Plain(r, {"no link"})
SciEngine(r) == Plain(r, {"no title", "thin"})
CyberLeninka(r) == Plain(r, {"no title", "thin"})
Persee(r) == Plain(r, NotArticleLike)
OpenEdition(r) == Plain(r, NotArticleLike \cup {"not scholarly"})
DergiPark(r) == Plain(r, NotArticleLike \cup {"deleted", "off topic"})
Hrcak(r) == Plain(r, NotArticleLike \cup {"deleted", "off topic"})
Ajol(r) == Plain(r, {"no title", "no link", "deleted", "closed"})
MathNet(r) == Plain(r, {"no title", "no link"})

SciElo(r) == Plain(r, NotArticleLike)

\* What the fallback of a source keeps: rows of a page by the selectors of its
\* profile are not checked at all, and a harvested record of SciELO is matched
\* with the query.
Generic(r) == Plain(r, {})
CyberLeninkaPage(r) == Plain(r, NotArticleLike)
SciEloHarvest(r) == Plain(r, NotArticleLike \cup {"deleted", "off topic"})

-----------------------------------------------------------------------------

Sources == {"europe_pmc", "pmc", "openalex", "medknow", "crossref", "pubmed",
            "arxiv", "doaj", "core", "dblp", "hal", "zenodo", "iacr", "exa",
            "cinii", "sciengine", "cyberleninka", "persee", "openedition",
            "dergipark", "hrcak", "ajol", "mathnet", "scielo"}

\* NewConnector.
Build(s, r) ==
  CASE s = "europe_pmc" -> EuropePmc(r)    [] s = "pmc" -> Pmc(r)
    [] s = "openalex" -> OpenAlex(r)       [] s = "medknow" -> Medknow(r)
    [] s = "crossref" -> Crossref(r)       [] s = "pubmed" -> PubMed(r)
    [] s = "arxiv" -> Arxiv(r)             [] s = "doaj" -> Doaj(r)
    [] s = "core" -> Core(r)               [] s = "dblp" -> Dblp(r)
    [] s = "hal" -> Hal(r)                 [] s = "zenodo" -> Zenodo(r)
    [] s = "iacr" -> Iacr(r)               [] s = "exa" -> Exa(r)
    [] s = "cinii" -> CiNii(r)             [] s = "sciengine" -> SciEngine(r)
    [] s = "cyberleninka" -> CyberLeninka(r) [] s = "persee" -> Persee(r)
    [] s = "openedition" -> OpenEdition(r) [] s = "dergipark" -> DergiPark(r)
    [] s = "hrcak" -> Hrcak(r)             [] s = "ajol" -> Ajol(r)
    [] s = "mathnet" -> MathNet(r)         [] s = "scielo" -> SciElo(r)

\* The sources whose record says that the work is retracted.
Watching == {"europe_pmc", "pmc", "openalex", "medknow", "crossref"}

\* Sources that read the page of an article for evidence.
PageRead == {"cinii", "sciengine", "cyberleninka", "persee", "openedition",
             "ajol", "mathnet", "scielo"}

\* Enrich: what is reported after the article's page was read.
Enriched(s, b, hits) == IF s \in PageRead THEN WithTokens(b, hits) ELSE b

\* PeerReviewedByDefault, PreprintSources.
KindOf(s) ==
  CASE s \in {"pubmed", "pmc", "europe_pmc", "doaj", "scielo", "mathnet"} -> "reviewed"
    [] s \in {"arxiv", "iacr"} -> "preprints"
    [] OTHER -> "mixed"

\* saveArticle: the evidence of a report, with the lists that the text of
\* the article hits.
AsEvidence(s, b, words, doi) ==
  [peer |-> AsRead(b.peer), index |-> AsRead(b.index),
   preprint |-> AsRead(b.preprint), words |-> words, source |-> KindOf(s),
   doi |-> doi, card |-> TRUE, retracted |-> b.retracted, note |-> FALSE]

=============================================================================
