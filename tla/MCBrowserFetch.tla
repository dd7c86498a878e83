--------------------------- MODULE MCBrowserFetch ---------------------------
(* BrowserFetch on small instances.  Of the limits only the order matters: *)
(* the 35 seconds of a handler for a connector, the 60 of the client, the  *)
(* 70 of a handler for the extraction of quotes, the 120 of PDF text.      *)
EXTENDS BrowserFetch, TLC

CONSTANTS c1, c2

OneSlot == [p \in Pools |-> 1]

\* Between them all pools are contended, and all operations are called.
Mixed == (c1 :> {"fetch", "pdftext"})
         @@ (c2 :> {"screenshot", "pdfpages", "form"})

ConnectorDeadlines == [o \in SidecarOps |-> IF o = "pdftext" THEN 3 ELSE 1]
=============================================================================
