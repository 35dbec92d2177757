----------------------------- MODULE MCOrderSync -----------------------------
(* OrderSync for TLC: two orders of two accounts, one of which can no longer be read. *)
EXTENDS OrderSync, TLC

CONSTANTS o1, o2, a1, a2, t1

TwoAccounts == (o1 :> a1) @@ (o2 :> a2)
SameToken == [o \in Orders |-> t1]
Sizes == (o1 :> 2) @@ (o2 :> 1)
=============================================================================
