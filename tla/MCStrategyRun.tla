---------------------------- MODULE MCStrategyRun ----------------------------
(* StrategyRun for TLC: which views the host can hold.                      *)
EXTENDS StrategyRun

StopViews == [market : {"open", "paused", "closed"}, leaf : {"yes", "no", "stale"},
              ref : Prices \cup {None}]

=============================================================================
