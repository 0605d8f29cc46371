----------------------------- MODULE MCTradeSink -----------------------------
(***************************************************************************)
(* TradeSink with a bounded number of trades and broken connections.       *)
(***************************************************************************)
EXTENDS TradeSink
=============================================================================
