------------------------- MODULE MCQuoteSourceClient -------------------------
(***************************************************************************)
(* QuoteSourceClient with a bounded number of ticks, lines and starts.     *)
(***************************************************************************)
EXTENDS QuoteSourceClient
=============================================================================
