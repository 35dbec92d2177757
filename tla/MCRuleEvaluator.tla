--------------------------- MODULE MCRuleEvaluator ---------------------------
(* RuleEvaluator for TLC: what the host can see, and the strategy's action. *)
EXTENDS RuleEvaluator

YesNo == [market : {"open"}, leaf : {"yes", "no"}, ref : {None}]

Manual == [auto : {FALSE}, rolling : {FALSE}]
ManualRolling == [auto : {FALSE}, rolling : {TRUE}]
AutoOrRolling == [auto : {TRUE}, rolling : {FALSE}] \cup ManualRolling

=============================================================================
