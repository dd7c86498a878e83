------------------------- MODULE MCQuoteExtraction -------------------------
(* QuoteExtraction on small instances.                                     *)
EXTENDS QuoteExtraction, TLC
=============================================================================
