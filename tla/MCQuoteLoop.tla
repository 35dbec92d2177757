----------------------------- MODULE MCQuoteLoop -----------------------------
(* QuoteLoop for TLC.  The two tokens are alike in it.   *)
EXTENDS QuoteLoop, TLC

CONSTANTS l1

Alike == Permutations(Tokens)
=============================================================================
