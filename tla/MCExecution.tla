----------------------------- MODULE MCExecution -----------------------------
(* Execution for TLC: the API requests are interchangeable, and so are the  *)
(* write chains.                                                            *)
EXTENDS Execution, TLC

RequestSymmetry == Permutations(Requests)
ChainSymmetry == Permutations(Chains)

\* The state without what no step reads and no property is about: the trigger that an
\* attempt which is over worked on, and autoFailedAt.
Standing ==
  <<rule, stuck, fired, [t \in Triggers |-> [trig[t] EXCEPT !.failed = FALSE]],
    ledgerVars, clobVars, pc, [p \in Attempts |-> IF pc[p] = "idle" THEN 1 ELSE at[p]],
    sweep, rec, req, faults>>

=============================================================================
