--------------------------- MODULE MCMarketSocket ---------------------------
(* MarketSocket for TLC. *)
EXTENDS MarketSocket
=============================================================================
