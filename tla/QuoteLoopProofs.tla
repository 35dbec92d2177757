----------------------------- MODULE QuoteLoopProofs -----------------------------
(****************************************************************************)
(* Theorems about QuoteLoop, for every value of its constants: in confirm   *)
(* mode nothing is executed but under a current approval, and an approval   *)
(* is executed once, but for faults; a fill is booked once.                 *)
(****************************************************************************)
EXTENDS QuoteLoop, FiniteSetTheorems, SequenceTheorems, WellFoundedInduction, TLAPS

\* The records that approvals travel through are of their shape.
Shapes ==
  /\ session = [status |-> session.status, mode |-> session.mode, pending |-> session.pending,
                approved |-> session.approved, held |-> session.held]
  /\ cycle = [pc |-> cycle.pc, mode |-> cycle.mode, pending |-> cycle.pending,
              approved |-> cycle.approved, todo |-> cycle.todo, places |-> cycle.places,
              merge |-> cycle.merge]
  /\ session.mode \in Modes /\ cycle.mode \in Modes
  /\ At("cancel") => cycle.mode = "confirm"
  /\ proposal \in [granted : BOOLEAN, uses : Nat]
  /\ used \in [faults : Nat, controls : Nat]

\* Whoever holds an approval, the row, the cycle that has read it or the cycle that
\* executes it: the approval was given to the proposal that is still the last one.
Granted ==
  session.approved # NoBatch \/ cycle.approved # NoBatch \/ Executing => proposal.granted

\* An approval goes with a pending batch, which the end of its execution clears.
\* While it is pending and not being executed, every execution has ended in a fault.
Accounted ==
  /\ session.approved # NoBatch \/ cycle.approved # NoBatch => session.pending # NoBatch
  /\ session.pending # NoBatch /\ ~Executing => proposal.uses <= used.faults
  /\ proposal.uses <= 1 + used.faults

Approvals == Shapes /\ Granted /\ Accounted

-----------------------------------------------------------------------------
\* The first state holds no approval.
LEMMA InitApprovals == Init => Approvals
<1> SUFFICES ASSUME Init PROVE Approvals OBVIOUS
<1>1. Shapes BY DEF Init, Shapes, Rest, At, Modes
<1>2. ~Executing /\ session.approved = NoBatch /\ cycle.approved = NoBatch
  BY DEF Init, Rest, Executing
<1> QED BY <1>1, <1>2 DEF Approvals, Granted, Accounted, Init

\* What the user and the exchange do: the cycle goes on as it was.
LEMMA UserApprovals ==
  ASSUME Approvals,
         \/ \E o \in Orders : Fill(o) \/ CancelledElsewhere(o)
         \/ Detach \/ Halt \/ Resume \/ SetMode \/ Approve \/ KillSwitch \/ Attach
  PROVE  Approvals'
<1> USE DEF Approvals, Shapes, Granted, Accounted, Control
<1>1. cycle' = cycle /\ used'.faults = used.faults /\ used' \in [faults : Nat, controls : Nat]
  <2>1. cycle' = cycle
    BY DEF Fill, CancelledElsewhere, Detach, Halt, Resume, SetMode, Approve, KillSwitch, Attach
  <2>2. UNCHANGED used \/ Control
    BY DEF Fill, CancelledElsewhere, Detach, Halt, Resume, SetMode, Approve, KillSwitch, Attach
  <2> QED BY <2>1, <2>2
<1>2. Executing' = Executing /\ At("cancel")' = At("cancel") BY <1>1 DEF Executing, At
<1>3. CASE UNCHANGED <<session, proposal>> BY <1>1, <1>2, <1>3
<1>4. CASE Halt \/ Resume
  <2>1. /\ session' = [session EXCEPT !.status = session'.status]
        /\ proposal' = proposal
    BY <1>4 DEF Halt, Resume
  <2> QED BY <2>1, <1>1, <1>2
<1>5. CASE SetMode BY <1>5, <1>1, <1>2 DEF SetMode, Modes
<1>6. CASE Approve BY <1>6, <1>1, <1>2 DEF Approve
<1> QED BY <1>3, <1>4, <1>5, <1>6 DEF Fill, CancelledElsewhere, Detach, KillSwitch, Attach

\* A step of a cycle that neither begins, ends, nor touches a batch.
CycleGoesOn ==
  /\ cycle' = [cycle EXCEPT !.pc = cycle'.pc, !.todo = cycle'.todo, !.places = cycle'.places,
                            !.merge = cycle'.merge]
  /\ (Executing' <=> Executing) /\ (At("cancel")' => cycle.mode = "confirm")

\* A cycle that is over has nothing of the row left in it.
CycleIsOver == \E pc \in {"rest", "persist"} : cycle' = [Rest EXCEPT !.pc = pc]

FaultsGrow == used'.faults \in Nat /\ used' \in [faults : Nat, controls : Nat] /\ used'.faults >= used.faults

LEMMA GoesOn ==
  ASSUME Approvals, CycleGoesOn, FaultsGrow, UNCHANGED proposal,
         session'.pending = session.pending, session'.approved = session.approved,
         session'.mode = session.mode,
         session' = [session EXCEPT !.status = session'.status, !.held = session'.held]
  PROVE  Approvals'
<1> USE DEF Approvals, Shapes, Granted, Accounted, FaultsGrow
<1>1. /\ cycle'.mode = cycle.mode /\ cycle'.approved = cycle.approved
      /\ Executing' <=> Executing
      /\ At("cancel")' => cycle'.mode = "confirm"
  BY DEF CycleGoesOn, At
<1>2. Shapes'
  <2>1. cycle' = [pc |-> cycle'.pc, mode |-> cycle'.mode, pending |-> cycle'.pending,
              approved |-> cycle'.approved, todo |-> cycle'.todo, places |-> cycle'.places,
              merge |-> cycle'.merge]
    BY DEF CycleGoesOn
  <2> QED BY <1>1, <2>1
<1>3. Granted' /\ Accounted' BY <1>1
<1> QED BY <1>2, <1>3

LEMMA IsOver ==
  ASSUME Approvals, CycleIsOver, FaultsGrow, Executing => used'.faults = used.faults + 1,
         UNCHANGED proposal, session' \in [status : {session'.status}, mode : {session.mode},
            pending : {session.pending}, approved : {session.approved}, held : {session'.held}]
  PROVE  Approvals'
<1> USE DEF Approvals, Shapes, Granted, Accounted, FaultsGrow
<1>1. /\ cycle' \in [pc : {cycle'.pc}, mode : {"live"}, pending : {NoBatch}, approved : {NoBatch},
                    todo : {{}}, places : {NoQuotes}, merge : {0}]
      /\ cycle'.pc \in {"rest", "persist"}
  BY DEF CycleIsOver, Rest
<1>2. ~Executing' /\ ~At("cancel")' BY <1>1 DEF Executing, At
<1>3. Shapes' BY <1>1, <1>2 DEF Modes
<1>4. Granted' /\ Accounted' BY <1>1, <1>2
<1> QED BY <1>3, <1>4

\* The statements of a cycle that leave batches and approvals alone.
LEMMA CycleSteps ==
  ASSUME Approvals,
         \/ Poll \/ Sync \/ Decide \/ Withdrawn \/ Merge \/ Persist \/ Throw \/ Crash
         \/ \E o \in Orders : CancelOne(o)
         \/ \E t \in Tokens : PlaceOne(t)
  PROVE  Approvals'
<1> DEFINE Shaped == cycle = [pc |-> cycle.pc, mode |-> cycle.mode, pending |-> cycle.pending,
              approved |-> cycle.approved, todo |-> cycle.todo, places |-> cycle.places,
              merge |-> cycle.merge]
           Session == session = [status |-> session.status, mode |-> session.mode,
              pending |-> session.pending, approved |-> session.approved, held |-> session.held]
           UsedType == used \in [faults : Nat, controls : Nat]
<1>1. Shaped /\ Session /\ UsedType /\ (At("cancel") => cycle.mode = "confirm") /\ cycle.mode \in Modes
  BY DEF Approvals, Shapes
<1>2. ASSUME Fault PROVE FaultsGrow /\ used'.faults = used.faults + 1
  BY <1>1, <1>2 DEF Fault, FaultsGrow
<1>3. ASSUME UNCHANGED used PROVE FaultsGrow
  BY <1>1, <1>3 DEF FaultsGrow
<1>4. ASSUME UNCHANGED session
      PROVE  /\ session'.pending = session.pending /\ session'.approved = session.approved
             /\ session'.mode = session.mode
             /\ session' = [session EXCEPT !.status = session'.status, !.held = session'.held]
             /\ session' \in [status : {session'.status}, mode : {session.mode},
                  pending : {session.pending}, approved : {session.approved}, held : {session'.held}]
  BY <1>1, <1>4
<1> HIDE DEF Shaped, Session, UsedType
<1>5. CASE Poll
  <2>1. UNCHANGED <<session, proposal, used>> BY <1>5 DEF Poll
  <2>2. CycleGoesOn
    <3>1. At("poll") /\ (UNCHANGED cycle \/ cycle' = [cycle EXCEPT !.pc = "fail", !.todo = Resting])
      BY <1>5 DEF Poll
    <3>2. ~Executing /\ ~Executing' /\ ~At("cancel")'
      BY <3>1, <1>1 DEF At, Executing, Shaped
    <3>3. cycle' = [cycle EXCEPT !.pc = cycle'.pc, !.todo = cycle'.todo, !.places = cycle'.places,
                            !.merge = cycle'.merge]
      <4>1. CASE UNCHANGED cycle BY <4>1, <1>1 DEF Shaped
      <4>2. CASE cycle' = [cycle EXCEPT !.pc = "fail", !.todo = Resting]
        BY <4>2, <1>1 DEF Shaped
      <4> QED BY <3>1, <4>1, <4>2
    <3> QED BY <3>2, <3>3 DEF CycleGoesOn
  <2> QED BY <2>1, <2>2, <1>3, <1>4, GoesOn
<1>6. CASE Sync
  <2>1. UNCHANGED <<session, proposal>> /\ cycle.pc \in {"poll", "sync"} BY <1>6 DEF Sync
  <2>2. ~Executing BY <2>1 DEF Executing
  <2>3. CASE cycle' = Rest
    <3>1. CycleIsOver BY <2>3, <1>1 DEF CycleIsOver, Rest
    <3>2. FaultsGrow BY <1>6, <1>2, <1>3 DEF Sync
    <3> QED BY <3>1, <3>2, <2>1, <2>2, <1>4, IsOver
  <2>4. CASE Go("decide") /\ UNCHANGED used
    <3>1. ~Executing' /\ ~At("cancel")' BY <2>4, <1>1 DEF Go, At, Executing, Shaped
    <3>2. CycleGoesOn BY <2>2, <3>1, <2>4, <1>1 DEF CycleGoesOn, Go, Shaped
    <3> QED BY <3>2, <2>1, <2>4, <1>3, <1>4, GoesOn
  <2> QED BY <1>6, <2>3, <2>4 DEF Sync
<1>7. CASE Decide
  <2>1. At("decide") /\ UNCHANGED <<session, proposal, used>> BY <1>7 DEF Decide
  <2>2. ASSUME cycle' = [cycle EXCEPT !.pc = "breach", !.todo = Resting]
        PROVE  CycleGoesOn
    <3>1. /\ cycle'.pc = "breach"
          /\ cycle' = [cycle EXCEPT !.pc = cycle'.pc, !.todo = cycle'.todo,
                                    !.places = cycle'.places, !.merge = cycle'.merge]
      BY <2>2, <1>1 DEF Shaped
    <3>2. ~Executing /\ ~Executing' /\ ~At("cancel")' BY <2>1, <3>1 DEF Executing, At
    <3> QED BY <3>1, <3>2 DEF CycleGoesOn
  <2>3. ASSUME NEW want \in [Tokens -> Levels] \cup {NoQuotes}, NEW k \in Keepers(want),
               cycle' = [cycle EXCEPT
                 !.pc = IF cycle.mode = "live" THEN MergeOrPlace(MergePairs) ELSE "cancel",
                 !.todo = {o \in Resting : k[venue[o].token] # o},
                 !.places = [t \in Tokens |-> IF k[t] = 0 THEN want[t] ELSE None],
                 !.merge = MergePairs]
        PROVE  CycleGoesOn
    <3> DEFINE pc == IF cycle.mode = "live" THEN MergeOrPlace(MergePairs) ELSE "cancel"
               todo == {o \in Resting : k[venue[o].token] # o}
               places == [t \in Tokens |-> IF k[t] = 0 THEN want[t] ELSE None]
    <3>1. cycle' = [cycle EXCEPT !.pc = pc, !.todo = todo, !.places = places, !.merge = MergePairs]
      BY <2>3
    <3>2. /\ pc \in {"merge", "place", "cancel"}
          /\ pc = "cancel" => cycle.mode # "live"
          /\ pc # "cancel" => cycle.mode = "live"
      BY DEF MergeOrPlace
    <3> HIDE DEF pc, todo, places
    <3>3. /\ cycle'.pc = pc /\ cycle'.mode = cycle.mode
          /\ cycle' = [cycle EXCEPT !.pc = cycle'.pc, !.todo = cycle'.todo,
                                    !.places = cycle'.places, !.merge = cycle'.merge]
      BY <3>1, <1>1 DEF Shaped
    <3>4. ~Executing /\ ~Executing' /\ (At("cancel")' => cycle.mode = "confirm")
      BY <2>1, <3>2, <3>3, <1>1 DEF Executing, At, Modes
    <3> QED BY <3>3, <3>4 DEF CycleGoesOn
  <2>4. CycleGoesOn BY <1>7, <2>2, <2>3 DEF Decide
  <2> QED BY <2>1, <2>4, <1>3, <1>4, GoesOn
<1>8. CASE Withdrawn
  <2>1. /\ session' = [session EXCEPT !.status = IF At("withdraw") THEN "idle" ELSE "halted"]
        /\ UNCHANGED <<proposal, used>>
        /\ cycle.pc \in {"withdraw", "unavailable", "fail", "breach"}
        /\ cycle' = Rest \/ Go("sync") \/ Ending("persist")
    BY <1>8 DEF Withdrawn, At
  <2>2. ~Executing BY <2>1 DEF Executing
  <2>3. /\ session'.pending = session.pending /\ session'.approved = session.approved
        /\ session'.mode = session.mode
        /\ session' = [session EXCEPT !.status = session'.status, !.held = session'.held]
        /\ session' \in [status : {session'.status}, mode : {session.mode},
             pending : {session.pending}, approved : {session.approved}, held : {session'.held}]
    BY <2>1, <1>1 DEF Session
  <2>4. CASE Go("sync")
    <3>1. ~Executing' /\ ~At("cancel")' BY <2>4, <1>1 DEF Go, At, Executing, Shaped
    <3>2. CycleGoesOn BY <2>2, <3>1, <2>4, <1>1 DEF CycleGoesOn, Go, Shaped
    <3> QED BY <3>2, <2>1, <2>3, <1>3, GoesOn
  <2>5. CASE cycle' = Rest \/ Ending("persist")
    <3>1. CycleIsOver BY <2>5 DEF CycleIsOver, Ending, Rest
    <3> QED BY <3>1, <2>1, <2>2, <2>3, <1>3, IsOver
  <2> QED BY <2>1, <2>4, <2>5
<1>9. CASE Merge
  <2>1. /\ UNCHANGED <<session, proposal, used>> /\ At("merge")
        /\ cycle' = [cycle EXCEPT !.pc = "place", !.merge = 0]
    BY <1>9 DEF Merge
  <2>2. CycleGoesOn BY <2>1, <1>1 DEF CycleGoesOn, At, Executing, Shaped
  <2> QED BY <2>1, <2>2, <1>3, <1>4, GoesOn
<1>10. CASE Persist
  <2>1. /\ session' = [session EXCEPT !.status = IF Resting # {} THEN "quoting" ELSE "idle",
                                      !.held = loop.held]
        /\ cycle' = Rest /\ UNCHANGED <<proposal, used>>
    BY <1>10 DEF Persist
  <2>2. ~Executing BY <1>10 DEF Persist, Executing, At, AllPlaced
  <2>3. session' \in [status : {session'.status}, mode : {session.mode},
             pending : {session.pending}, approved : {session.approved}, held : {session'.held}]
    BY <2>1, <1>1 DEF Session
  <2>4. CycleIsOver BY <2>1 DEF CycleIsOver, Rest
  <2> QED BY <2>1, <2>2, <2>3, <2>4, <1>3, IsOver
<1>11. CASE Throw \/ Crash
  <2>1. Fault /\ cycle' = Rest /\ UNCHANGED <<session, proposal>> BY <1>11 DEF Throw, Crash
  <2>2. CycleIsOver BY <2>1 DEF CycleIsOver, Rest
  <2> QED BY <2>1, <2>2, <1>2, <1>4, IsOver
<1>12. ASSUME NEW o \in Orders, CancelOne(o) PROVE Approvals'
  <2>1. /\ UNCHANGED <<session, proposal>> /\ cycle' = [cycle EXCEPT !.todo = @ \ {o}]
        /\ UNCHANGED used \/ Fault
    BY <1>12 DEF CancelOne
  <2>2. CycleGoesOn BY <2>1, <1>1 DEF CycleGoesOn, At, Executing, Shaped
  <2> QED BY <2>1, <2>2, <1>2, <1>3, <1>4, GoesOn
<1>13. ASSUME NEW t \in Tokens, PlaceOne(t) PROVE Approvals'
  <2>1. /\ UNCHANGED <<session, proposal>> /\ cycle' = [cycle EXCEPT !.places[t] = None]
        /\ UNCHANGED used \/ Fault
    BY <1>13 DEF PlaceOne
  <2>2. CycleGoesOn BY <2>1, <1>1 DEF CycleGoesOn, At, Executing, Shaped
  <2> QED BY <2>1, <2>2, <1>2, <1>3, <1>4, GoesOn
<1> QED BY <1>5, <1>6, <1>7, <1>8, <1>9, <1>10, <1>11, <1>12, <1>13

\* The cycle reads the row as it is.
LEMMA BeginApprovals == ASSUME Approvals, Begin PROVE Approvals'
<1> USE DEF Approvals, Shapes, Granted, Accounted
<1>1. /\ cycle'.pc \in {"withdraw", "poll", "unavailable"}
      /\ cycle' = [pc |-> cycle'.pc, mode |-> session.mode, pending |-> session.pending,
                   approved |-> session.approved, todo |-> cycle'.todo, places |-> NoQuotes,
                   merge |-> 0]
      /\ UNCHANGED <<session, proposal, used>>
  <2> DEFINE todo == IF paused THEN Resting ELSE {}
  <2>1. PICK pc \in {"withdraw", "poll", "unavailable"} :
          cycle' = [Rest EXCEPT !.pc = pc, !.mode = session.mode, !.pending = session.pending,
                                !.approved = session.approved, !.todo = todo]
    BY Zenon DEF Begin
  <2> HIDE DEF todo
  <2>2. UNCHANGED <<session, proposal, used>> BY DEF Begin
  <2> QED BY <2>1, <2>2 DEF Rest
<1>2. ~Executing /\ ~Executing' /\ ~At("cancel")'
  BY <1>1 DEF Begin, At, Executing
<1>3. Shapes' BY <1>1, <1>2
<1>4. Granted' /\ Accounted' BY <1>1, <1>2
<1> QED BY <1>3, <1>4

\* An approved batch that is the cycle's own is executed; another is proposed.
LEMMA ConsiderApprovals == ASSUME Approvals, Consider PROVE Approvals'
<1> USE DEF Approvals, Shapes, Granted, Accounted
<1>1. At("cancel") /\ cycle.mode = "confirm" /\ ~Executing /\ UNCHANGED used
  BY DEF Consider, At, Executing
<1>2. ASSUME NEW pc \in {"rest", "persist"}, cycle' = [Rest EXCEPT !.pc = pc]
      PROVE  /\ ~Executing' /\ ~At("cancel")' /\ cycle'.approved = NoBatch /\ cycle'.mode = "live"
             /\ cycle' = [pc |-> cycle'.pc, mode |-> cycle'.mode, pending |-> cycle'.pending,
                approved |-> cycle'.approved, todo |-> cycle'.todo, places |-> cycle'.places,
                merge |-> cycle'.merge]
  BY <1>2 DEF Rest, Executing, At
<1>3. CASE /\ session' = IF cycle.pending # NoBatch THEN Cleared(session) ELSE session
           /\ Ending("persist") /\ UNCHANGED proposal
  <2>1. CASE UNCHANGED session BY <2>1, <1>3, <1>2, <1>1 DEF Ending, Modes
  <2>2. CASE session' = Cleared(session)
    BY <2>2, <1>3, <1>2, <1>1 DEF Ending, Modes, Cleared
  <2> QED BY <1>3, <2>1, <2>2
<1>4. CASE /\ TheBatch # NoBatch /\ cycle.approved = TheBatch
           /\ Go(MergeOrPlace(cycle.merge)) /\ proposal' = [proposal EXCEPT !.uses = @ + 1]
           /\ UNCHANGED session
  <2> DEFINE pc == MergeOrPlace(cycle.merge)
  <2>1. pc \in {"merge", "place"} BY DEF MergeOrPlace
  <2>2. cycle' = [cycle EXCEPT !.pc = pc] BY <1>4 DEF Go
  <2> HIDE DEF pc
  <2>3. Executing' /\ ~At("cancel")' BY <2>1, <2>2, <1>1 DEF Executing, At
  <2>4. Shapes' BY <2>2, <2>3, <1>1, <1>4
  <2>5. proposal.granted /\ session.pending # NoBatch BY <1>4
  <2>6. proposal'.granted = proposal.granted /\ proposal'.uses = proposal.uses + 1 BY <1>4
  <2>7. cycle'.approved = cycle.approved BY <2>2
  <2>8. Granted' /\ Accounted' BY <2>3, <2>5, <2>6, <2>7, <1>1, <1>4
  <2> QED BY <2>4, <2>8
<1>5. CASE /\ TheBatch # NoBatch /\ session' = Proposed(session, TheBatch)
           /\ proposal' = [granted |-> FALSE, uses |-> 0] /\ Ending("persist")
  <2>1. /\ session'.approved = NoBatch /\ session'.mode \in Modes
        /\ session' = [status |-> session'.status, mode |-> session'.mode,
             pending |-> session'.pending, approved |-> session'.approved, held |-> session'.held]
    BY <1>5 DEF Proposed
  <2>2. /\ ~Executing' /\ ~At("cancel")' /\ cycle'.approved = NoBatch /\ cycle'.mode = "live"
        /\ cycle' = [pc |-> cycle'.pc, mode |-> cycle'.mode, pending |-> cycle'.pending,
                approved |-> cycle'.approved, todo |-> cycle'.todo, places |-> cycle'.places,
                merge |-> cycle'.merge]
    BY <1>5, <1>2 DEF Ending
  <2>3. Shapes' BY <2>1, <2>2, <1>1, <1>5 DEF Modes
  <2>4. Granted' /\ Accounted' BY <2>1, <2>2, <1>1, <1>5
  <2> QED BY <2>3, <2>4
<1>6. CASE Ending("persist") /\ UNCHANGED <<session, proposal>>
  BY <1>6, <1>2, <1>1 DEF Ending, Modes
<1> QED BY <1>3, <1>4, <1>5, <1>6 DEF Consider

\* What was executed is pending no more.
LEMMA ClearApprovals == ASSUME Approvals, ClearBatch PROVE Approvals'
<1> USE DEF Approvals, Shapes, Granted, Accounted
<1>1. /\ session' = Cleared(session) /\ cycle' = [Rest EXCEPT !.pc = "persist"]
      /\ UNCHANGED <<proposal, used>>
  BY DEF ClearBatch, Ending
<1>2. ~Executing' /\ ~At("cancel")' /\ cycle'.approved = NoBatch /\ cycle'.mode = "live"
  BY <1>1 DEF Rest, Executing, At
<1>3. session'.approved = NoBatch /\ session'.pending = NoBatch BY <1>1 DEF Cleared
<1>4. Shapes' BY <1>1, <1>2 DEF Rest, Cleared, Modes
<1>5. Granted' /\ Accounted' BY <1>1, <1>2, <1>3
<1> QED BY <1>4, <1>5

-----------------------------------------------------------------------------
LEMMA NextApprovals == ASSUME Approvals, [Next]_vars PROVE Approvals'
<1>1. CASE UNCHANGED vars
  BY <1>1 DEF vars, Approvals, Shapes, Granted, Accounted, Executing, At
<1>2. CASE Next
  BY <1>2, UserApprovals, CycleSteps, BeginApprovals, ConsiderApprovals, ClearApprovals DEF Next
<1> QED BY <1>1, <1>2

\* approveBatch accepts what is pending at that instant, and the cycle executes what it
\* read some awaits earlier: in between no other proposal can have taken its place.
THEOREM CurrentApproval == Spec => []ApprovalIsCurrent
<1>1. Approvals => ApprovalIsCurrent BY DEF Approvals, Granted, ApprovalIsCurrent
<1> QED BY <1>1, InitApprovals, NextApprovals, PTL DEF Spec

\* The worker clears a batch after its execution and before the next cycle: only a
\* fault in between executes it again.
THEOREM OneUsePerApproval == Spec => []ApprovalUsedOnce
<1>1. Approvals => ApprovalUsedOnce BY DEF Approvals, Accounted, ApprovalUsedOnce
<1> QED BY <1>1, InitApprovals, NextApprovals, PTL DEF Spec

-----------------------------------------------------------------------------
(* Induction without an induction scheme, which would take the predicate as *)
(* a parameter: a set of counterexamples has one of least size.             *)

LEMMA LeastNat ==
  ASSUME NEW T, T \subseteq Nat, T # {}
  PROVE  \E n \in T : \A m \in T : n <= m
<1>1. PICK n \in T : \A m \in T : <<m, n>> \notin OpToRel(<, Nat)
  BY WFMin, NatLessThanWellFounded
<1>2. \A m \in T : ~(m < n) BY <1>1 DEF OpToRel
<1> QED BY <1>2

LEMMA LeastSet ==
  ASSUME NEW A, A # {}, \A s \in A : IsFiniteSet(s)
  PROVE  \E s \in A : \A r \in A : Cardinality(s) <= Cardinality(r)
<1> DEFINE T == {Cardinality(s) : s \in A}
<1>1. T \subseteq Nat /\ T # {} BY FS_CardinalityType
<1>2. PICK n \in T : \A m \in T : n <= m BY <1>1, LeastNat
<1> QED BY <1>2

-----------------------------------------------------------------------------
(* Sums over a finite set: the fold is the recursion it is written as.      *)

Pick(s) == CHOOSE x \in s : TRUE
Step(f, g, s) == IF s = {} THEN 0 ELSE f[Pick(s)] + g[s \ {Pick(s)}]
Solves(f, g, D) == g = [s \in D |-> Step(f, g, s)]
Solvable(f, D) == \E g : Solves(f, g, D)
Sums(f, D) == CHOOSE g : Solves(f, g, D)

LEMMA PickIn == ASSUME NEW s, s # {} PROVE Pick(s) \in s
BY DEF Pick

LEMMA SumIsRecursion ==
  ASSUME NEW f, NEW S
  PROVE  SumFunctionOnSet(f, S) = Sums(f, SUBSET S)[S]
BY Zenon DEF SumFunctionOnSet, FoldFunctionOnSet, MapThenFoldSet, Sums, Solves, Step, Pick

\* Small(S, n): the subsets of S of at most n elements.
Small(S, n) == {s \in SUBSET S : Cardinality(s) <= n}

LEMMA Smaller ==
  ASSUME NEW S, IsFiniteSet(S), NEW s \in SUBSET S, s # {}
  PROVE  /\ s \ {Pick(s)} \in SUBSET S
         /\ Cardinality(s) \in Nat /\ Cardinality(s \ {Pick(s)}) = Cardinality(s) - 1
BY PickIn, FS_Subset, FS_RemoveElement, FS_CardinalityType

LEMMA PartialSums ==
  ASSUME NEW f, NEW S, IsFiniteSet(S), NEW n \in Nat
  PROVE  Solvable(f, Small(S, n))
<1> DEFINE Solved(k) == Solvable(f, Small(S, k))
           T == {k \in Nat : ~Solved(k)}
<1> SUFFICES ASSUME T # {} PROVE FALSE OBVIOUS
<1>1. PICK k \in T : \A m \in T : k <= m
  <2>1. T \subseteq Nat OBVIOUS
  <2> QED BY <2>1, LeastNat
<1>2. CASE k = 0
  <2> DEFINE g == [s \in Small(S, 0) |-> 0]
  <2>1. \A s \in Small(S, 0) : s = {}
    BY FS_Subset, FS_CardinalityType, FS_EmptySet DEF Small
  <2>2. g = [s \in Small(S, 0) |-> Step(f, g, s)] BY <2>1 DEF Step
  <2> QED BY <1>1, <1>2, <2>2 DEF Solvable, Solves
<1>3. CASE k # 0
  <2>1. k \in Nat /\ k - 1 \in Nat /\ k - 1 \notin T BY <1>1, <1>3
  <2>2. PICK g : g = [s \in Small(S, k - 1) |-> Step(f, g, s)] BY <2>1 DEF Solvable, Solves
  <2> DEFINE h == [s \in Small(S, k) |-> Step(f, g, s)]
  <2>3. ASSUME NEW s \in Small(S, k), s # {}
        PROVE  h[s \ {Pick(s)}] = g[s \ {Pick(s)}]
    <3>1. s \ {Pick(s)} \in Small(S, k - 1) BY <2>1, <2>3, Smaller DEF Small
    <3>2. s \ {Pick(s)} \in Small(S, k) BY <3>1, <2>1, FS_Subset, FS_CardinalityType DEF Small
    <3>3. g[s \ {Pick(s)}] = Step(f, g, s \ {Pick(s)}) BY <3>1, <2>2, Zenon
    <3> QED BY <3>2, <3>3
  <2>4. \A s \in Small(S, k) : Step(f, g, s) = Step(f, h, s)
    <3> TAKE s \in Small(S, k)
    <3> HIDE DEF h
    <3> QED BY <2>3 DEF Step
  <2>5. h = [s \in Small(S, k) |-> Step(f, h, s)] BY <2>4, Zenon
  <2>6. Solved(k) 
    <3> HIDE DEF h
    <3> QED BY <2>5 DEF Solvable, Solves
  <2> QED BY <1>1, <2>6
<1> QED BY <1>2, <1>3

LEMMA SumsSolve ==
  ASSUME NEW f, NEW S, IsFiniteSet(S)
  PROVE  Solves(f, Sums(f, SUBSET S), SUBSET S)
<1>1. Small(S, Cardinality(S)) = SUBSET S /\ Cardinality(S) \in Nat
  BY FS_Subset, FS_CardinalityType DEF Small
<1>2. Solvable(f, SUBSET S)
  <2> DEFINE n == Cardinality(S)
  <2>1. n \in Nat BY <1>1
  <2> HIDE DEF n
  <2>2. Solvable(f, Small(S, n)) BY <2>1, PartialSums
  <2> QED BY <2>2, <1>1, Zenon DEF n
<1> QED BY <1>2, Zenon DEF Sums, Solvable

LEMMA SumsAgree ==
  ASSUME NEW f, NEW S, IsFiniteSet(S), NEW T \in SUBSET S
  PROVE  Sums(f, SUBSET S)[T] = Sums(f, SUBSET T)[T]
<1> DEFINE g == Sums(f, SUBSET S)
           h == Sums(f, SUBSET T)
           A == {s \in SUBSET T : g[s] # h[s]}
<1> SUFFICES ASSUME A # {} PROVE FALSE OBVIOUS
<1>1. IsFiniteSet(T) /\ \A s \in SUBSET T : IsFiniteSet(s) BY FS_Subset
<1>2. PICK s \in A : \A r \in A : Cardinality(s) <= Cardinality(r)
  <2>1. \A r \in A : IsFiniteSet(r) BY <1>1
  <2> HIDE DEF A
  <2> QED BY <2>1, LeastSet
<1>3. g[s] = Step(f, g, s) /\ h[s] = Step(f, h, s)
  <2>1. s \in SUBSET S /\ s \in SUBSET T BY <1>2
  <2>2. Solves(f, g, SUBSET S) BY SumsSolve
  <2>3. Solves(f, h, SUBSET T) BY <1>1, SumsSolve
  <2> HIDE DEF g, h
  <2> QED BY <2>1, <2>2, <2>3, Zenon DEF Solves
<1>4. CASE s = {}
  <2> HIDE DEF g, h
  <2> QED BY <1>2, <1>3, <1>4 DEF Step
<1>5. CASE s # {}
  <2>1. s \ {Pick(s)} \in SUBSET T /\ Cardinality(s) \in Nat
        /\ Cardinality(s \ {Pick(s)}) = Cardinality(s) - 1
    BY <1>1, <1>2, <1>5, Smaller
  <2>2. s \ {Pick(s)} \notin A
    <3>1. Cardinality(s \ {Pick(s)}) < Cardinality(s) BY <2>1
    <3>2. \A r \in A : Cardinality(s) <= Cardinality(r) BY <1>2
    <3> HIDE DEF A
    <3> QED BY <2>1, <3>1, <3>2
  <2>3. g[s \ {Pick(s)}] = h[s \ {Pick(s)}] BY <2>1, <2>2
  <2> HIDE DEF g, h
  <2> QED BY <1>2, <1>3, <1>5, <2>3 DEF Step
<1> QED BY <1>4, <1>5

LEMMA SumStep ==
  ASSUME NEW f, NEW S, IsFiniteSet(S)
  PROVE  SumFunctionOnSet(f, S) =
           IF S = {} THEN 0 ELSE f[Pick(S)] + SumFunctionOnSet(f, S \ {Pick(S)})
<1> DEFINE R == S \ {Pick(S)}
<1>1. Solves(f, Sums(f, SUBSET S), SUBSET S) BY SumsSolve
<1>2. Sums(f, SUBSET S)[S] = Step(f, Sums(f, SUBSET S), S)
  <2>1. S \in SUBSET S OBVIOUS
  <2> QED BY <1>1, <2>1, Zenon DEF Solves
<1>3. Sums(f, SUBSET S)[R] = Sums(f, SUBSET R)[R] BY SumsAgree
<1> QED BY <1>2, <1>3, SumIsRecursion DEF Step

\* Any element of the set may be taken out first.
LEMMA SumTakes ==
  ASSUME NEW S, IsFiniteSet(S), NEW f, \A s \in S : f[s] \in Int, NEW x \in S
  PROVE  /\ SumFunctionOnSet(f, S) \in Int
         /\ SumFunctionOnSet(f, S) = f[x] + SumFunctionOnSet(f, S \ {x})
<1> DEFINE T(s) == SumFunctionOnSet(f, s)
           Right(s) == T(s) \in Int /\ \A y \in s : T(s) = f[y] + T(s \ {y})
           A == {s \in SUBSET S : ~Right(s)}
<1> HIDE DEF T
<1> SUFFICES A = {}
  <2> SUFFICES ASSUME A = {} PROVE Right(S) BY DEF T
  <2> QED OBVIOUS
<1> SUFFICES ASSUME A # {} PROVE FALSE OBVIOUS
<1>1. PICK s \in A : \A r \in A : Cardinality(s) <= Cardinality(r)
  <2>1. \A r \in A : IsFiniteSet(r) BY FS_Subset
  <2> HIDE DEF A
  <2> QED BY <2>1, LeastSet
<1>2. IsFiniteSet(s) /\ s \in SUBSET S BY <1>1, FS_Subset
<1>3. CASE s = {}
  <2>1. T(s) = 0 BY <1>2, <1>3, SumStep DEF T
  <2> QED BY <2>1, <1>1, <1>3
<1>4. CASE s # {}
  <2> DEFINE p == Pick(s)
  <2>1. p \in s /\ T(s) = f[p] + T(s \ {p}) BY <1>2, <1>4, SumStep, PickIn DEF T
  <2> HIDE DEF p
  <2>2. ASSUME NEW y \in s PROVE Right(s \ {y})
    <3>1. /\ Cardinality(s \ {y}) = Cardinality(s) - 1 /\ Cardinality(s) \in Nat
          /\ s \ {y} \in SUBSET S
      BY <1>2, FS_RemoveElement, FS_CardinalityType
    <3>2. s \ {y} \notin A
      <4>1. \A r \in A : Cardinality(s) <= Cardinality(r) BY <1>1
      <4> HIDE DEF A
      <4> QED BY <3>1, <4>1
    <3> QED BY <3>1, <3>2
  <2>3. T(s) \in Int BY <2>1, <2>2, <1>2
  <2>4. ASSUME NEW y \in s PROVE T(s) = f[y] + T(s \ {y})
    <3>1. CASE y = p BY <2>1, <3>1
    <3>2. CASE y # p
      <4>1. T(s \ {p}) = f[y] + T((s \ {p}) \ {y}) BY <2>1, <2>2, <3>2
      <4>2. T(s \ {y}) = f[p] + T((s \ {y}) \ {p}) BY <2>1, <2>2, <3>2
      <4>3. (s \ {p}) \ {y} = (s \ {y}) \ {p} OBVIOUS
      <4>4. T((s \ {p}) \ {y}) \in Int
        <5>1. Right((s \ {p}))  BY <2>1, <2>2
        <5>2. Right(s \ {y}) BY <2>2
        <5>3. T(s \ {y}) \in Int /\ T(s \ {p}) \in Int BY <5>1, <5>2
        <5>4. T((s \ {p}) \ {y}) \in Int
          <6>1. /\ Cardinality((s \ {p}) \ {y}) < Cardinality(s)
                /\ (s \ {p}) \ {y} \in SUBSET S
            <7>1. IsFiniteSet(s \ {p}) /\ y \in s \ {p} BY <1>2, <3>2, FS_Subset
            <7>2. Cardinality((s \ {p}) \ {y}) = Cardinality(s \ {p}) - 1
                  /\ Cardinality(s \ {p}) = Cardinality(s) - 1 /\ Cardinality(s) \in Nat
              BY <7>1, <1>2, <2>1, FS_RemoveElement, FS_CardinalityType
            <7> QED BY <7>2, <1>2
          <6>2. (s \ {p}) \ {y} \notin A
            <7>1. \A r \in A : Cardinality(s) <= Cardinality(r) BY <1>1
            <7>2. Cardinality((s \ {p}) \ {y}) \in Nat BY <1>2, FS_Subset, FS_CardinalityType
            <7>3. Cardinality(s) \in Nat BY <1>2, FS_CardinalityType
            <7> HIDE DEF A
            <7> QED BY <6>1, <7>1, <7>2, <7>3
          <6> QED BY <6>1, <6>2
        <5> QED BY <5>4
      <4>5. f[p] \in Int /\ f[y] \in Int BY <1>2, <2>1
      <4>6. T(s) = f[p] + (f[y] + T((s \ {p}) \ {y})) BY <2>1, <4>1
      <4>7. T(s \ {y}) = f[p] + T((s \ {p}) \ {y}) BY <4>2, <4>3
      <4> QED BY <4>4, <4>5, <4>6, <4>7
    <3> QED BY <3>1, <3>2
  <2> QED BY <2>3, <2>4, <1>1
<1> QED BY <1>3, <1>4

\* Two sums over parts of a set, and one over the whole that is larger element by element.
LEMMA SumsBelow ==
  ASSUME NEW R, IsFiniteSet(R), NEW S \in SUBSET R, NEW T \in SUBSET R, NEW f, NEW d, NEW g,
         \A x \in S : f[x] \in Nat, \A x \in T : d[x] \in Nat, \A x \in R : g[x] \in Nat,
         \A x \in R : (IF x \in S THEN f[x] ELSE 0) + (IF x \in T THEN d[x] ELSE 0) <= g[x]
  PROVE  /\ SumFunctionOnSet(f, S) \in Nat /\ SumFunctionOnSet(d, T) \in Nat
         /\ SumFunctionOnSet(g, R) \in Nat
         /\ SumFunctionOnSet(f, S) + SumFunctionOnSet(d, T) <= SumFunctionOnSet(g, R)
<1> DEFINE F(r) == SumFunctionOnSet(f, r)
           D(r) == SumFunctionOnSet(d, r)
           G(r) == SumFunctionOnSet(g, r)
           Right(r) == /\ F(r \cap S) \in Nat /\ D(r \cap T) \in Nat /\ G(r) \in Nat
                       /\ F(r \cap S) + D(r \cap T) <= G(r)
           A == {r \in SUBSET R : ~Right(r)}
<1> HIDE DEF F, D, G
<1> SUFFICES A = {}
  <2> SUFFICES ASSUME A = {} PROVE Right(R)
    <3>1. R \cap S = S /\ R \cap T = T OBVIOUS
    <3> QED BY <3>1 DEF F, D, G
  <2> QED OBVIOUS
<1> SUFFICES ASSUME A # {} PROVE FALSE OBVIOUS
<1>1. PICK r \in A : \A q \in A : Cardinality(r) <= Cardinality(q)
  <2>1. \A q \in A : IsFiniteSet(q) BY FS_Subset
  <2> HIDE DEF A
  <2> QED BY <2>1, LeastSet
<1>2. IsFiniteSet(r) /\ r \in SUBSET R /\ IsFiniteSet(r \cap S) /\ IsFiniteSet(r \cap T)
  BY <1>1, FS_Subset
<1>3. CASE r = {}
  <2>1. r \cap S = {} /\ r \cap T = {} BY <1>3
  <2>2. F(r \cap S) = 0 BY <2>1, <1>2, SumStep DEF F
  <2>3. D(r \cap T) = 0 BY <2>1, <1>2, SumStep DEF D
  <2>4. G(r) = 0 BY <1>2, <1>3, SumStep DEF G
  <2> QED BY <2>2, <2>3, <2>4, <1>1
<1>4. CASE r # {}
  <2>1. PICK p \in r : TRUE BY <1>4
  <2> DEFINE q == r \ {p}
  <2>2. /\ Cardinality(q) = Cardinality(r) - 1 /\ Cardinality(r) \in Nat /\ q \in SUBSET R
    BY <1>2, FS_RemoveElement, FS_CardinalityType
  <2>3. q \notin A
    <3>1. \A z \in A : Cardinality(r) <= Cardinality(z) BY <1>1
    <3> HIDE DEF A, q
    <3> QED BY <2>2, <3>1
  <2>4. Right(q) BY <2>2, <2>3
  <2>5. G(r) = g[p] + G(q) BY <1>2, <2>1, SumTakes DEF G
  <2>6. F(r \cap S) = (IF p \in S THEN f[p] ELSE 0) + F(q \cap S)
    <3>1. CASE p \in S
      <4>1. (r \cap S) \ {p} = q \cap S /\ p \in r \cap S BY <3>1, <2>1
      <4>2. F(r \cap S) = f[p] + F((r \cap S) \ {p})
        BY <1>2, <4>1, SumTakes DEF F
      <4> QED BY <4>1, <4>2, <3>1
    <3>2. CASE p \notin S
      <4>1. r \cap S = q \cap S BY <3>2
      <4> QED BY <4>1, <3>2, <2>4
    <3> QED BY <3>1, <3>2
  <2>7. D(r \cap T) = (IF p \in T THEN d[p] ELSE 0) + D(q \cap T)
    <3>1. CASE p \in T
      <4>1. (r \cap T) \ {p} = q \cap T /\ p \in r \cap T BY <3>1, <2>1
      <4>2. D(r \cap T) = d[p] + D((r \cap T) \ {p})
        BY <1>2, <4>1, SumTakes DEF D
      <4> QED BY <4>1, <4>2, <3>1
    <3>2. CASE p \notin T
      <4>1. r \cap T = q \cap T BY <3>2
      <4>2. D(q \cap T) \in Nat BY <2>4
      <4>3. D(r \cap T) = D(q \cap T) BY <4>1
      <4> HIDE DEF q
      <4> QED BY <4>2, <4>3, <3>2
    <3> QED BY <3>1, <3>2
  <2>8. /\ g[p] \in Nat /\ (p \in S => f[p] \in Nat) /\ (p \in T => d[p] \in Nat)
        /\ (IF p \in S THEN f[p] ELSE 0) + (IF p \in T THEN d[p] ELSE 0) <= g[p]
    BY <1>2, <2>1
  <2> HIDE DEF q
  <2>9. Right(r) BY <2>4, <2>5, <2>6, <2>7, <2>8
  <2> QED BY <2>9, <1>1
<1> QED BY <1>3, <1>4

-----------------------------------------------------------------------------
(* Fills and inventory.                                                     *)

QuoteShape == [token : Tokens, level : Levels, open : BOOLEAN, matched : 0..Size]
RowShape == [status : {"idle", "quoting", "halted"}, mode : Modes, pending : Batch,
            approved : Batch, held : Holding]
LoopShape == [on : BOOLEAN, base : [Orders -> 0..Size \cup {Unknown}], held : Holding, merges : Nat]
Pcs == {"rest", "withdraw", "unavailable", "poll", "fail", "sync", "decide", "breach", "cancel",
        "merge", "place", "persist"}
CycleShape == [pc : Pcs, mode : Modes, pending : Batch, approved : Batch, todo : SUBSET Orders,
          places : [Tokens -> Levels \cup {None}], merge : Nat]

\* Only a loop that is attached has a cycle under way; a resting quote is on the
\* book's record, and its baseline not ahead of it.
Types ==
  /\ venue \in Seq(QuoteShape) /\ Len(venue) <= MaxOrders
  /\ \A o \in Placed : venue[o].open => venue[o].matched < Size
  /\ session \in RowShape /\ loop \in LoopShape /\ cycle \in CycleShape
  /\ loop.on \/ cycle = Rest
  /\ \A o \in Orders : loop.base[o] # Unknown => o \in Placed /\ loop.base[o] <= venue[o].matched

\* What of an order may be in the inventory: of a resting one no more than its baseline,
\* because the rest is still to be booked.
Credit(o) == IF loop.base[o] # Unknown THEN loop.base[o] ELSE Matched(o)
OrdersOf(t) == {o \in Placed : venue[o].token = t}
Worth(t) == SumFunctionOnSet([o \in Placed |-> Credit(o)], OrdersOf(t))

\* The loop holds no more than its baselines account for, the row no more than the orders
\* have filled, and pairs about to be merged are still in the inventory.
Earned ==
  /\ \A t \in Tokens : loop.held.inv[t] + loop.held.merged <= Worth(t)
  /\ \A t \in Tokens : session.held.inv[t] + session.held.merged <= Bookable(t)
  /\ cycle.pc \in {"cancel", "merge"} => \A t \in Tokens : cycle.merge <= loop.held.inv[t]

Books == Types /\ Earned

-----------------------------------------------------------------------------
\* What the types say of orders.
Known ==
  /\ Placed = 1..Len(venue) /\ Placed \subseteq Orders /\ IsFiniteSet(Placed)
  /\ \A o \in Placed : venue[o] \in QuoteShape
  /\ Resting \subseteq Placed /\ Open \subseteq Placed
  /\ \A o \in Placed : Matched(o) \in Nat /\ Matched(o) <= Size /\ venue[o].matched <= Matched(o)
  /\ \A o \in Placed : Credit(o) \in Nat /\ Credit(o) <= Matched(o)
  /\ \A o \in Resting : loop.base[o] \in Nat /\ loop.base[o] <= venue[o].matched

LEMMA TypesKnown == Types => Known
<1> SUFFICES ASSUME Types PROVE Known OBVIOUS
<1> USE QuoteAssumption
<1>1. Placed = 1..Len(venue) /\ Len(venue) \in Nat /\ Len(venue) <= MaxOrders
  BY LenProperties DEF Types, Placed
<1>2. Placed \subseteq Orders /\ IsFiniteSet(Placed)
  BY <1>1, FS_Interval DEF Orders
<1>3. \A o \in Placed : venue[o] \in QuoteShape BY <1>1, ElementOfSeq DEF Types
<1>4. \A o \in Orders : loop.base[o] \in 0..Size \cup {Unknown} BY DEF Types, LoopShape
<1>5. Resting \subseteq Placed /\ Open \subseteq Placed BY DEF Resting, Open
<1>6. \A o \in Placed : Matched(o) \in Nat /\ Matched(o) <= Size /\ venue[o].matched <= Matched(o)
  BY <1>3 DEF Matched, QuoteShape
<1>7. \A o \in Resting : loop.base[o] \in Nat /\ loop.base[o] <= venue[o].matched
  BY <1>2, <1>4, <1>5 DEF Types, Resting, Unknown
<1>8. \A o \in Placed : Credit(o) \in Nat /\ Credit(o) <= Matched(o)
  <2> TAKE o \in Placed
  <2>1. CASE o \in Resting BY <2>1, <1>6, <1>7, <1>3 DEF Credit, Resting, QuoteShape
  <2>2. CASE o \notin Resting BY <2>2, <1>6 DEF Credit, Resting
  <2> QED BY <2>1, <2>2
<1> QED BY <1>1, <1>2, <1>3, <1>5, <1>6, <1>7, <1>8 DEF Known

\* The sums are numbers, and the loop's is the smaller one.
Valued == \A t \in Tokens : Worth(t) \in Nat /\ Bookable(t) \in Nat /\ Worth(t) <= Bookable(t)

LEMMA Worths == Types => Valued
<1> SUFFICES ASSUME Types, NEW t \in Tokens
             PROVE  Worth(t) \in Nat /\ Bookable(t) \in Nat /\ Worth(t) <= Bookable(t)
  BY DEF Valued
<1> DEFINE f == [o \in Placed |-> Credit(o)]
           g == [o \in Placed |-> Matched(o)]
           R == OrdersOf(t)
<1>1. R \subseteq Placed /\ IsFiniteSet(R) BY TypesKnown, FS_Subset DEF OrdersOf, Known
<1>2. \A x \in R : f[x] \in Nat /\ g[x] \in Nat /\ f[x] <= g[x] BY <1>1, TypesKnown DEF Known
<1>3. SumFunctionOnSet(f, R) \in Nat /\ SumFunctionOnSet(g, R) \in Nat
      /\ SumFunctionOnSet(f, R) <= SumFunctionOnSet(g, R)
  <2> DEFINE T == {}
  <2> HIDE DEF f, g, R
  <2>1. /\ SumFunctionOnSet(f, R) \in Nat /\ SumFunctionOnSet(f, T) \in Nat
        /\ SumFunctionOnSet(g, R) \in Nat
        /\ SumFunctionOnSet(f, R) + SumFunctionOnSet(f, T) <= SumFunctionOnSet(g, R)
    BY <1>1, <1>2, SumsBelow
  <2> QED BY <2>1
<1>4. Worth(t) = SumFunctionOnSet(f, R) BY DEF Worth
<1>5. Bookable(t) = SumFunctionOnSet(g, R) BY DEF Bookable, OrdersOf
<1> QED BY <1>3, <1>4, <1>5

\* The orders stay, and what is known of them only grows.
Grows ==
  \A o \in Placed : /\ o \in Placed' /\ venue'[o].token = venue[o].token
                    /\ Credit(o) <= Credit(o)' /\ Matched(o) <= Matched(o)'

LEMMA WorthGrows ==
  ASSUME Types, Types', Grows, NEW t \in Tokens
  PROVE  Worth(t) <= Worth(t)' /\ Bookable(t) <= Bookable(t)'
<1> DEFINE S == OrdersOf(t)
           R == OrdersOf(t)'
<1>0. Known /\ Known'
  <2>1. Types' => Known' BY TypesKnown, PTL
  <2> QED BY <2>1, TypesKnown
<1>1. S \subseteq R /\ S \subseteq Placed /\ R \subseteq Placed' /\ IsFiniteSet(R)
  <2>1. R \subseteq Placed' /\ S \subseteq Placed /\ S \subseteq R BY DEF OrdersOf, Grows
  <2>2. IsFiniteSet(Placed') BY <1>0 DEF Known
  <2> QED BY <2>1, <2>2, FS_Subset
<1>2. /\ \A x \in Placed : Credit(x) \in Nat /\ Matched(x) \in Nat
      /\ \A x \in Placed' : Credit(x)' \in Nat /\ Matched(x)' \in Nat
  BY <1>0 DEF Known
<1>3. ASSUME NEW f, NEW g, \A x \in S : f[x] \in Nat /\ f[x] <= g[x], \A x \in R : g[x] \in Nat
      PROVE  SumFunctionOnSet(f, S) <= SumFunctionOnSet(g, R)
  <2> DEFINE T == {}
  <2> HIDE DEF S, R
  <2>1. /\ SumFunctionOnSet(f, S) \in Nat /\ SumFunctionOnSet(f, T) \in Nat
        /\ SumFunctionOnSet(g, R) \in Nat
        /\ SumFunctionOnSet(f, S) + SumFunctionOnSet(f, T) <= SumFunctionOnSet(g, R)
    BY <1>1, <1>3, SumsBelow
  <2> QED BY <2>1
<1>4. Worth(t) <= Worth(t)'
  <2> DEFINE f == [o \in Placed |-> Credit(o)]
             g == [o \in Placed' |-> Credit(o)']
  <2>1. /\ \A x \in S : f[x] \in Nat /\ f[x] <= g[x]
        /\ \A x \in R : g[x] \in Nat
    BY <1>1, <1>2 DEF Grows
  <2>2. Worth(t) = SumFunctionOnSet(f, S) /\ Worth(t)' = SumFunctionOnSet(g, R) BY DEF Worth
  <2> HIDE DEF f, g, S, R
  <2> QED BY <1>3, <2>1, <2>2
<1>5. Bookable(t) <= Bookable(t)'
  <2> DEFINE f == [o \in Placed |-> Matched(o)]
             g == [o \in Placed' |-> Matched(o)']
  <2>1. /\ \A x \in S : f[x] \in Nat /\ f[x] <= g[x]
        /\ \A x \in R : g[x] \in Nat
    BY <1>1, <1>2 DEF Grows
  <2>2. Bookable(t) = SumFunctionOnSet(f, S) /\ Bookable(t)' = SumFunctionOnSet(g, R)
    BY DEF Bookable, OrdersOf
  <2> HIDE DEF f, g, S, R
  <2> QED BY <1>3, <2>1, <2>2
<1> QED BY <1>4, <1>5

-----------------------------------------------------------------------------
LEMMA Blank ==
  /\ NoQuotes \in [Tokens -> Levels \cup {None}] /\ NoBatch \in Batch /\ Nothing \in Holding
  /\ Rest \in CycleShape /\ Off \in LoopShape
<1>1. NoQuotes \in [Tokens -> Levels \cup {None}] BY DEF NoQuotes
<1>2. NoBatch \in Batch BY <1>1 DEF NoBatch, Batch
<1>3. Nothing \in Holding BY DEF Nothing, Holding
<1>4. Rest \in CycleShape BY <1>1, <1>2 DEF Rest, CycleShape, Pcs, Modes
<1>5. Off \in LoopShape BY <1>3 DEF Off, LoopShape
<1> QED BY <1>1, <1>2, <1>3, <1>4, <1>5

LEMMA InitBooks == Init => Books
<1> SUFFICES ASSUME Init PROVE Books OBVIOUS
<1>1. venue = <<>> /\ loop = Off /\ cycle = Rest /\ session \in RowShape /\ session.held = Nothing
  <2>1. session \in [status : {"idle"}, mode : Modes, pending : {NoBatch}, approved : {NoBatch},
                     held : {Nothing}]
    BY DEF Init
  <2> QED BY <2>1, Blank DEF Init, RowShape
<1>2. venue \in Seq(QuoteShape) /\ Len(venue) = 0 /\ Placed = {} BY <1>1 DEF Placed
<1>3. \A o \in Orders : loop.base[o] = Unknown BY <1>1 DEF Off
<1>4. Types
  <2>1. 0 <= MaxOrders BY QuoteAssumption
  <2> QED BY <1>1, <1>2, <1>3, <2>1, Blank DEF Types
<1>5. \A t \in Tokens : loop.held.inv[t] + loop.held.merged = 0
      /\ session.held.inv[t] + session.held.merged = 0
  BY <1>1 DEF Off, Nothing
<1>6. cycle.pc = "rest" BY <1>1 DEF Rest
<1>7. Earned
  <2>1. \A t \in Tokens : Worth(t) \in Nat /\ Bookable(t) \in Nat BY <1>4, Worths DEF Valued
  <2> QED BY <1>5, <1>6, <2>1 DEF Earned
<1> QED BY <1>4, <1>7 DEF Books

-----------------------------------------------------------------------------
\* What keeps the books: orders that stay, and holdings that are copied, not made.
LEMMA KeepsEarned ==
  ASSUME Types, Types', Earned, Grows, loop'.held = loop.held,
         session'.held \in {session.held, loop.held},
         cycle'.pc \in {"cancel", "merge"} => \A t \in Tokens : cycle'.merge <= loop.held.inv[t]
  PROVE  Earned'
<1> SUFFICES ASSUME NEW t \in Tokens
             PROVE  /\ loop'.held.inv[t] + loop'.held.merged <= Worth(t)'
                    /\ session'.held.inv[t] + session'.held.merged <= Bookable(t)'
  BY DEF Earned
<1>1. Worth(t) <= Worth(t)' /\ Bookable(t) <= Bookable(t)' BY WorthGrows
<1>2. Worth(t) \in Nat /\ Bookable(t) \in Nat /\ Worth(t) <= Bookable(t) BY Worths DEF Valued
<1>3. Worth(t)' \in Nat /\ Bookable(t)' \in Nat
  <2>1. Types' => Valued' BY Worths, PTL
  <2> QED BY <2>1 DEF Valued
<1>4. /\ loop.held \in Holding /\ session.held \in Holding
      /\ loop.held.inv[t] + loop.held.merged <= Worth(t)
      /\ session.held.inv[t] + session.held.merged <= Bookable(t)
  BY DEF Earned, Types, LoopShape, RowShape
<1>5. /\ loop.held.inv[t] + loop.held.merged \in Nat
      /\ session.held.inv[t] + session.held.merged \in Nat
  BY <1>4 DEF Holding
<1>6. CASE session'.held = session.held BY <1>1, <1>2, <1>3, <1>4, <1>5, <1>6
<1>7. CASE session'.held = loop.held BY <1>1, <1>2, <1>3, <1>4, <1>5, <1>7
<1> QED BY <1>6, <1>7

-----------------------------------------------------------------------------
(* Steps that leave the exchange and the loop alone.                        *)

LEMMA DeskBooks ==
  ASSUME Books, UNCHANGED <<venue, loop>>, session' \in RowShape, cycle' \in CycleShape,
         session'.held \in {session.held, loop.held}, loop.on \/ cycle' = Rest,
         cycle'.pc \in {"cancel", "merge"} => \A t \in Tokens : cycle'.merge <= loop.held.inv[t]
  PROVE  Books'
<1>1. Types' BY DEF Books, Types, Placed
<1>2. Placed' = Placed /\ Known BY TypesKnown DEF Placed, Books
<1>3. \A o \in Placed : Credit(o)' = Credit(o) /\ Matched(o)' = Matched(o)
  BY DEF Credit, Matched, Open, Placed
<1>4. Grows BY <1>2, <1>3 DEF Grows, Known
<1> QED BY <1>1, <1>4, KeepsEarned DEF Books

\* A cycle that has begun has a loop.
LEMMA HasLoop ==
  ASSUME Books, NEW pc, At(pc), pc # "rest"
  PROVE  loop.on /\ cycle # Rest
BY DEF Books, Types, At, Rest

LEMMA MinTwo ==
  ASSUME NEW a \in Nat, NEW b \in Nat
  PROVE  Min({a, b}) \in Nat /\ Min({a, b}) <= a /\ Min({a, b}) <= b
<1>1. \E x \in {a, b} : \A y \in {a, b} : x <= y OBVIOUS
<1>2. Min({a, b}) \in {a, b} /\ \A y \in {a, b} : Min({a, b}) <= y BY <1>1 DEF Min
<1> QED BY <1>2

LEMMA PairsFit ==
  ASSUME Types
  PROVE  MergePairs \in Nat /\ \A t \in Tokens : MergePairs <= loop.held.inv[t]
<1>1. loop.held.inv \in [Tokens -> Nat] BY DEF Types, LoopShape, Holding
<1>2. Inv(Yes) \in Nat /\ Inv(No) \in Nat BY <1>1 DEF Inv, Tokens
<1>3. /\ Min({Inv(Yes), Inv(No)}) \in Nat /\ Min({Inv(Yes), Inv(No)}) <= Inv(Yes)
      /\ Min({Inv(Yes), Inv(No)}) <= Inv(No)
  BY <1>2, MinTwo
<1>4. MergePairs \in {0, Min({Inv(Yes), Inv(No)})} BY DEF MergePairs
<1> HIDE DEF MergePairs
<1>5. MergePairs \in Nat /\ MergePairs <= Inv(Yes) /\ MergePairs <= Inv(No) BY <1>2, <1>3, <1>4
<1> QED BY <1>5 DEF Inv, Tokens

LEMMA UserBooks ==
  ASSUME Books, Halt \/ Resume \/ SetMode \/ Approve \/ KillSwitch
  PROVE  Books'
<1>1. UNCHANGED <<venue, loop, cycle>> BY DEF Halt, Resume, SetMode, Approve, KillSwitch
<1>2. session \in RowShape /\ cycle \in CycleShape /\ (loop.on \/ cycle = Rest) BY DEF Books, Types
<1>3. session' \in RowShape /\ session'.held = session.held
  <2>1. CASE Halt \/ Resume BY <2>1, <1>2 DEF Halt, Resume, RowShape
  <2>2. CASE SetMode BY <2>2, <1>2 DEF SetMode, RowShape
  <2>3. CASE Approve BY <2>3, <1>2 DEF Approve, RowShape
  <2>4. CASE KillSwitch BY <2>4, <1>2 DEF KillSwitch
  <2> QED BY <2>1, <2>2, <2>3, <2>4
<1>4. cycle'.pc \in {"cancel", "merge"} => \A t \in Tokens : cycle'.merge <= loop.held.inv[t]
  BY <1>1 DEF Books, Earned
<1> QED BY <1>1, <1>2, <1>3, <1>4, DeskBooks

LEMMA BeginBooks == ASSUME Books, Begin PROVE Books'
<1> DEFINE todo == IF paused THEN Resting ELSE {}
<1>1. loop.on /\ UNCHANGED <<venue, session, loop>> BY DEF Begin
<1>2. PICK pc \in {"withdraw", "poll", "unavailable"} :
        cycle' = [Rest EXCEPT !.pc = pc, !.mode = session.mode, !.pending = session.pending,
                              !.approved = session.approved, !.todo = todo]
  BY Zenon DEF Begin
<1>3. todo \in SUBSET Orders BY TypesKnown DEF Books, Known
<1> HIDE DEF todo
<1>4. session \in RowShape /\ Rest \in CycleShape BY Blank DEF Books, Types
<1>5. cycle' \in CycleShape /\ cycle'.pc = pc
  BY <1>2, <1>3, <1>4 DEF CycleShape, RowShape, Pcs
<1> QED BY <1>1, <1>4, <1>5, DeskBooks

LEMMA DecideBooks == ASSUME Books, Decide PROVE Books'
<1>1. /\ loop.on /\ UNCHANGED <<venue, session, loop>> /\ cycle \in CycleShape
      /\ session \in RowShape /\ Resting \in SUBSET Orders
  BY HasLoop, TypesKnown DEF Decide, Books, Types, Known
<1>2. CASE cycle' = [cycle EXCEPT !.pc = "breach", !.todo = Resting]
  <2>1. cycle' \in CycleShape /\ cycle'.pc = "breach" BY <1>1, <1>2 DEF CycleShape, Pcs
  <2> QED BY <1>1, <2>1, DeskBooks
<1>3. ASSUME NEW want \in [Tokens -> Levels] \cup {NoQuotes}, NEW k \in Keepers(want),
             cycle' = [cycle EXCEPT
               !.pc = IF cycle.mode = "live" THEN MergeOrPlace(MergePairs) ELSE "cancel",
               !.todo = {o \in Resting : k[venue[o].token] # o},
               !.places = [t \in Tokens |-> IF k[t] = 0 THEN want[t] ELSE None],
               !.merge = MergePairs]
      PROVE  Books'
  <2> DEFINE pc == IF cycle.mode = "live" THEN MergeOrPlace(MergePairs) ELSE "cancel"
             todo == {o \in Resting : k[venue[o].token] # o}
             places == [t \in Tokens |-> IF k[t] = 0 THEN want[t] ELSE None]
  <2>1. pc \in {"merge", "place", "cancel"} BY DEF MergeOrPlace
  <2>2. todo \in SUBSET Orders BY <1>1
  <2>3. places \in [Tokens -> Levels \cup {None}] BY <1>3 DEF NoQuotes
  <2>4. MergePairs \in Nat /\ \A t \in Tokens : MergePairs <= loop.held.inv[t]
    BY PairsFit DEF Books
  <2>5. cycle' = [cycle EXCEPT !.pc = pc, !.todo = todo, !.places = places, !.merge = MergePairs]
    BY <1>3
  <2> HIDE DEF pc, todo, places
  <2>6. cycle' \in CycleShape /\ cycle'.merge = MergePairs
    BY <1>1, <2>1, <2>2, <2>3, <2>4, <2>5 DEF CycleShape, Pcs
  <2> QED BY <1>1, <2>4, <2>6, DeskBooks
<1> QED BY <1>2, <1>3 DEF Decide

LEMMA EndingShape ==
  ASSUME NEW pc \in Pcs, cycle' = [Rest EXCEPT !.pc = pc]
  PROVE  cycle' \in CycleShape /\ cycle'.pc = pc
BY Blank DEF CycleShape, Rest

LEMMA WithdrawnBooks == ASSUME Books, Withdrawn PROVE Books'
<1>1. /\ loop.on /\ UNCHANGED <<venue, loop>> /\ cycle \in CycleShape /\ session \in RowShape
  BY HasLoop DEF Withdrawn, Books, Types, At
<1>2. session' \in RowShape /\ session'.held = session.held
  BY <1>1 DEF Withdrawn, RowShape
<1>3. cycle' = Rest \/ cycle' = [cycle EXCEPT !.pc = "sync"] \/ cycle' = [Rest EXCEPT !.pc = "persist"]
  BY DEF Withdrawn, Go, Ending, At
<1>4. cycle' \in CycleShape /\ cycle'.pc \in {"rest", "sync", "persist"}
  <2>1. CASE cycle' = Rest BY <2>1, Blank DEF Rest
  <2>2. CASE cycle' = [cycle EXCEPT !.pc = "sync"] BY <2>2, <1>1 DEF CycleShape, Pcs
  <2>3. CASE cycle' = [Rest EXCEPT !.pc = "persist"] BY <2>3, EndingShape DEF Pcs
  <2> QED BY <1>3, <2>1, <2>2, <2>3
<1> QED BY <1>1, <1>2, <1>4, DeskBooks

LEMMA ConsiderBooks == ASSUME Books, Consider PROVE Books'
<1>1. /\ loop.on /\ UNCHANGED <<venue, loop>> /\ cycle \in CycleShape /\ session \in RowShape
      /\ cycle.pc = "cancel"
  BY HasLoop DEF Consider, Books, Types, At
<1>2. TheBatch \in Batch BY <1>1 DEF TheBatch, Batch, CycleShape
<1>3. session' \in RowShape /\ session'.held = session.held
  <2>1. CASE UNCHANGED session BY <1>1, <2>1
  <2>2. CASE session' = Cleared(session) BY <1>1, <2>2, Blank DEF Cleared, RowShape
  <2>3. CASE session' = Proposed(session, TheBatch)
    BY <1>1, <1>2, <2>3, Blank DEF Proposed, RowShape
  <2> QED BY <2>1, <2>2, <2>3 DEF Consider
<1>4. CASE cycle' = [Rest EXCEPT !.pc = "persist"]
  <2>1. cycle' \in CycleShape /\ cycle'.pc = "persist" BY <1>4, EndingShape DEF Pcs
  <2> QED BY <1>1, <1>3, <2>1, DeskBooks
<1>5. CASE cycle' = [cycle EXCEPT !.pc = MergeOrPlace(cycle.merge)]
  <2> DEFINE pc == MergeOrPlace(cycle.merge)
  <2>1. pc \in {"merge", "place"} BY DEF MergeOrPlace
  <2>2. cycle' = [cycle EXCEPT !.pc = pc] BY <1>5
  <2> HIDE DEF pc
  <2>3. cycle' \in CycleShape /\ cycle'.merge = cycle.merge BY <1>1, <2>1, <2>2 DEF CycleShape, Pcs
  <2>4. \A t \in Tokens : cycle'.merge <= loop.held.inv[t] BY <1>1, <2>3 DEF Books, Earned
  <2> QED BY <1>1, <1>3, <2>3, <2>4, DeskBooks
<1> QED BY <1>4, <1>5 DEF Consider, Ending, Go

LEMMA EndBooks == ASSUME Books, ClearBatch \/ Persist \/ Throw PROVE Books'
<1>1. /\ UNCHANGED <<venue, loop>> /\ cycle \in CycleShape /\ session \in RowShape /\ loop \in LoopShape
      /\ loop.on \/ cycle' = Rest
  BY HasLoop DEF ClearBatch, Persist, Throw, Books, Types, AllPlaced
<1>2. cycle' \in CycleShape /\ cycle'.pc \in {"rest", "persist"}
  <2>1. CASE cycle' = Rest BY <2>1, Blank DEF Rest
  <2>2. CASE cycle' = [Rest EXCEPT !.pc = "persist"] BY <2>2, EndingShape DEF Pcs
  <2> QED BY <2>1, <2>2 DEF ClearBatch, Persist, Throw, Ending
<1>3. session' \in RowShape /\ session'.held \in {session.held, loop.held}
  <2>1. CASE ClearBatch BY <1>1, <2>1, Blank DEF ClearBatch, Cleared, RowShape
  <2>2. CASE Persist BY <1>1, <2>2 DEF Persist, RowShape, LoopShape
  <2>3. CASE Throw BY <1>1, <2>3 DEF Throw
  <2> QED BY <2>1, <2>2, <2>3
<1> QED BY <1>1, <1>2, <1>3, DeskBooks

-----------------------------------------------------------------------------
(* Steps of the exchange, and orders placed and cancelled.                  *)

LEMMA OneOrderChanges ==
  ASSUME Types, NEW o \in Placed, NEW q \in QuoteShape, venue' = [venue EXCEPT ![o] = q],
         q.token = venue[o].token, venue[o].matched <= q.matched,
         q.open => venue[o].open /\ q.matched < Size
  PROVE  /\ venue' \in Seq(QuoteShape) /\ Len(venue') = Len(venue) /\ Placed' = Placed
         /\ \A p \in Placed : /\ venue'[p].token = venue[p].token /\ Matched(p) <= Matched(p)'
                              /\ venue[p].matched <= venue'[p].matched
                              /\ venue'[p].open => venue'[p].matched < Size
<1>1. Known BY TypesKnown
<1>2. Placed = 1..Len(venue) /\ venue \in Seq(QuoteShape) BY <1>1 DEF Known, Types
<1>3. venue' \in Seq(QuoteShape) /\ Len(venue') = Len(venue)
      /\ \A p \in 1..Len(venue) : venue'[p] = IF p = o THEN q ELSE venue[p]
  BY <1>2, ExceptSeq
<1>4. Placed' = Placed BY <1>2, <1>3, LenProperties DEF Placed
<1>5. ASSUME NEW p \in Placed
      PROVE  /\ venue'[p].token = venue[p].token /\ Matched(p) <= Matched(p)'
             /\ venue[p].matched <= venue'[p].matched
             /\ venue'[p].open => venue'[p].matched < Size
  <2>1. /\ venue'[p] = IF p = o THEN q ELSE venue[p]
        /\ venue[p] \in QuoteShape /\ (venue[p].open => venue[p].matched < Size)
    BY <1>1, <1>2, <1>3 DEF Known, Types
  <2>2. (p \in Open <=> venue[p].open) /\ (p \in Open' <=> venue'[p].open)
    BY <1>4 DEF Open
  <2>3. /\ Matched(p) = IF venue[p].open THEN venue[p].matched ELSE Size
        /\ Matched(p)' = IF venue'[p].open THEN venue'[p].matched ELSE Size
    BY <2>2 DEF Matched
  <2> QED BY <2>1, <2>3, QuoteAssumption DEF QuoteShape
<1> QED BY <1>3, <1>4, <1>5

\* One order moves on, and the baselines forget no open one.
LEMMA OrderBooks ==
  ASSUME Books, NEW o \in Placed, NEW q \in QuoteShape, venue' = [venue EXCEPT ![o] = q],
         q.token = venue[o].token, venue[o].matched <= q.matched,
         q.open => venue[o].open /\ q.matched < Size,
         \/ UNCHANGED loop
         \/ ~q.open /\ loop' = [loop EXCEPT !.base[o] = Unknown],
         UNCHANGED session, cycle' \in CycleShape, loop.on \/ cycle' = Rest,
         cycle'.pc = cycle.pc, cycle'.merge = cycle.merge
  PROVE  Books'
<1>1. /\ venue' \in Seq(QuoteShape) /\ Len(venue') = Len(venue) /\ Placed' = Placed
      /\ \A p \in Placed : /\ venue'[p].token = venue[p].token /\ Matched(p) <= Matched(p)'
                           /\ venue[p].matched <= venue'[p].matched
                           /\ venue'[p].open => venue'[p].matched < Size
  BY OneOrderChanges DEF Books
<1>2. Known BY TypesKnown DEF Books
<1>3. loop \in LoopShape /\ o \in Orders BY <1>2 DEF Books, Types, Known
<1>4. /\ loop' \in LoopShape /\ loop'.held = loop.held /\ loop'.on = loop.on
      /\ \A p \in Orders : loop'.base[p] = loop.base[p] \/ (loop'.base[p] = Unknown /\ p = o /\ ~q.open)
  BY <1>3 DEF LoopShape
<1>5. Types'
  <2>1. \A p \in Orders : loop'.base[p] # Unknown => p \in Placed' /\ loop'.base[p] <= venue'[p].matched
    <3> SUFFICES ASSUME NEW p \in Orders, loop'.base[p] # Unknown
                 PROVE  p \in Placed' /\ loop'.base[p] <= venue'[p].matched
      OBVIOUS
    <3>1. loop'.base[p] = loop.base[p] BY <1>4
    <3>2. p \in Resting BY <1>1, <3>1 DEF Resting, Books, Types
    <3>3. p \in Placed /\ loop.base[p] \in Nat /\ loop.base[p] <= venue[p].matched
      BY <1>2, <3>2 DEF Known
    <3>4. /\ venue[p].matched \in Nat /\ venue'[p].matched \in Nat
          /\ venue[p].matched <= venue'[p].matched
      <4>1. venue[p] \in QuoteShape /\ venue'[p] \in QuoteShape
        BY <1>1, <1>2, <3>3, ElementOfSeq DEF Known
      <4> QED BY <4>1, <3>3, <1>1, QuoteAssumption DEF QuoteShape
    <3> QED BY <1>1, <3>1, <3>3, <3>4
  <2> QED BY <1>1, <1>4, <2>1 DEF Books, Types
<1>6. Grows
  <2>1. Known' 
    <3>1. Types' => Known' BY TypesKnown, PTL
    <3> QED BY <3>1, <1>5
  <2> SUFFICES ASSUME NEW p \in Placed PROVE Credit(p) <= Credit(p)'
    BY <1>1 DEF Grows
  <2>2. /\ Credit(p) \in Nat /\ Credit(p) <= Matched(p) /\ Matched(p) \in Nat /\ Matched(p)' \in Nat
        /\ Matched(p) <= Matched(p)' /\ p \in Orders
    BY <1>1, <1>2, <2>1 DEF Known
  <2>3. CASE loop'.base[p] = Unknown BY <2>2, <2>3 DEF Credit
  <2>4. CASE loop'.base[p] # Unknown
    <3>1. loop'.base[p] = loop.base[p] BY <1>4, <2>2, <2>4
    <3> QED BY <2>2, <2>4, <3>1 DEF Credit
  <2> QED BY <2>3, <2>4
<1>7. cycle'.pc \in {"cancel", "merge"} => \A t \in Tokens : cycle'.merge <= loop.held.inv[t]
  BY DEF Books, Earned
<1> QED BY <1>4, <1>5, <1>6, <1>7, KeepsEarned DEF Books

\* A match more, and a cancel.
With(v, m, b) == [v EXCEPT !.matched = m, !.open = b]

LEMMA Updated ==
  ASSUME NEW v \in QuoteShape, NEW b \in BOOLEAN, NEW m \in 0..Size
  PROVE  /\ With(v, m, b) \in QuoteShape /\ With(v, m, b).token = v.token
         /\ With(v, m, b).matched = m /\ With(v, m, b).open = b
BY DEF QuoteShape, With

LEMMA Closed ==
  ASSUME NEW v \in QuoteShape
  PROVE  LET q == [v EXCEPT !.open = FALSE]
         IN q \in QuoteShape /\ q.token = v.token /\ v.matched <= q.matched /\ ~q.open
<1>1. /\ [v EXCEPT !.open = FALSE] \in QuoteShape /\ ~[v EXCEPT !.open = FALSE].open
      /\ [v EXCEPT !.open = FALSE].token = v.token
      /\ [v EXCEPT !.open = FALSE].matched = v.matched
  BY DEF QuoteShape
<1>2. v.matched <= v.matched BY QuoteAssumption DEF QuoteShape
<1> QED BY <1>1, <1>2

LEMMA FilledOnce ==
  ASSUME NEW v \in QuoteShape, v.matched < Size
  PROVE  LET q == [v EXCEPT !.matched = @ + 1, !.open = v.matched + 1 < Size]
         IN /\ q \in QuoteShape /\ q.token = v.token /\ v.matched <= q.matched
            /\ (q.open => q.matched < Size)
<1> DEFINE m == v.matched + 1
           b == v.matched + 1 < Size
<1>1. m \in 0..Size /\ b \in BOOLEAN /\ v.matched <= m /\ (b => m < Size)
  BY QuoteAssumption DEF QuoteShape
<1>2. [v EXCEPT !.matched = @ + 1, !.open = v.matched + 1 < Size] = With(v, m, b)
  BY DEF With
<1> HIDE DEF m, b
<1>3. /\ With(v, m, b) \in QuoteShape /\ With(v, m, b).token = v.token
      /\ With(v, m, b).matched = m /\ With(v, m, b).open = b
  BY <1>1, Updated
<1> QED BY <1>1, <1>2, <1>3

LEMMA ExchangeBooks ==
  ASSUME Books, NEW o \in Orders, Fill(o) \/ CancelledElsewhere(o)
  PROVE  Books'
<1>1. /\ o \in Placed /\ venue[o].open /\ UNCHANGED <<session, loop, cycle>>
      /\ cycle \in CycleShape /\ (loop.on \/ cycle = Rest)
  BY DEF Fill, CancelledElsewhere, Open, Books, Types
<1>2. venue[o] \in QuoteShape /\ venue[o].matched < Size
  BY <1>1, TypesKnown DEF Books, Types, Known
<1>3. CASE Fill(o)
  <2> DEFINE q == [venue[o] EXCEPT !.matched = @ + 1, !.open = venue[o].matched + 1 < Size]
  <2>1. venue' = [venue EXCEPT ![o] = q] BY <1>1, <1>3 DEF Fill
  <2>2. /\ q \in QuoteShape /\ q.token = venue[o].token /\ venue[o].matched <= q.matched
        /\ (q.open => q.matched < Size)
    BY <1>2, FilledOnce
  <2> HIDE DEF q
  <2> QED BY <1>1, <2>1, <2>2, OrderBooks
<1>4. CASE CancelledElsewhere(o)
  <2> DEFINE q == [venue[o] EXCEPT !.open = FALSE]
  <2>1. venue' = [venue EXCEPT ![o] = q] BY <1>1, <1>4 DEF CancelledElsewhere
  <2>2. /\ q \in QuoteShape /\ q.token = venue[o].token /\ venue[o].matched <= q.matched /\ ~q.open
    BY <1>2, Closed
  <2> HIDE DEF q
  <2> QED BY <1>1, <2>1, <2>2, OrderBooks
<1> QED BY <1>3, <1>4

LEMMA CancelBooks == ASSUME Books, NEW o \in Orders, CancelOne(o) PROVE Books'
<1>1. /\ loop.on /\ UNCHANGED session /\ cycle \in CycleShape /\ session \in RowShape
      /\ cycle' = [cycle EXCEPT !.todo = @ \ {o}] /\ loop \in LoopShape
  BY HasLoop DEF CancelOne, Books, Types, At
<1>2. cycle' \in CycleShape /\ cycle'.pc = cycle.pc /\ cycle'.merge = cycle.merge
  BY <1>1 DEF CycleShape
<1>3. cycle'.pc \in {"cancel", "merge"} => \A t \in Tokens : cycle'.merge <= loop.held.inv[t]
  BY <1>2 DEF Books, Earned
<1>4. CASE UNCHANGED <<venue, loop>> BY <1>1, <1>2, <1>3, <1>4, DeskBooks
<1>5. CASE /\ venue' = [venue EXCEPT ![o].open = FALSE]
           /\ loop' = [loop EXCEPT !.base[o] = Unknown] \/ UNCHANGED loop
  <2>1. CASE o \in Placed
    <3> DEFINE q == [venue[o] EXCEPT !.open = FALSE]
    <3>1. venue' = [venue EXCEPT ![o] = q] BY <1>5
    <3>2. venue[o] \in QuoteShape BY <2>1, TypesKnown DEF Books, Known
    <3>3. /\ q \in QuoteShape /\ q.token = venue[o].token /\ venue[o].matched <= q.matched /\ ~q.open
      BY <3>2, Closed
    <3> HIDE DEF q
    <3> QED BY <1>1, <1>2, <1>5, <2>1, <3>1, <3>3, OrderBooks
  <2>2. CASE o \notin Placed
    <3>1. venue \in Seq(QuoteShape) /\ loop.base[o] = Unknown BY <2>2 DEF Books, Types
    <3>2. venue' = venue BY <1>5, <2>2, <3>1 DEF Placed
    <3>3. loop' = loop BY <1>1, <1>5, <3>1 DEF LoopShape
    <3> QED BY <1>1, <1>2, <1>3, <3>2, <3>3, DeskBooks
  <2> QED BY <2>1, <2>2
<1> QED BY <1>4, <1>5 DEF CancelOne

LEMMA PlaceBooks == ASSUME Books, NEW t \in Tokens, PlaceOne(t) PROVE Books'
<1> DEFINE n == Len(venue) + 1
           q == [token |-> t, level |-> cycle.places[t], open |-> TRUE, matched |-> 0]
<1>1. /\ loop.on /\ UNCHANGED session /\ cycle \in CycleShape /\ session \in RowShape
      /\ cycle' = [cycle EXCEPT !.places[t] = None] /\ cycle.pc = "place"
      /\ cycle.places[t] # None /\ loop \in LoopShape
  BY HasLoop DEF PlaceOne, Books, Types, At
<1>2. cycle' \in CycleShape /\ cycle'.pc = "place"
  BY <1>1 DEF CycleShape
<1>3. CASE UNCHANGED <<venue, loop>> BY <1>1, <1>2, <1>3, DeskBooks
<1>4. CASE /\ Len(venue) < MaxOrders /\ venue' = Append(venue, q)
           /\ loop' = [loop EXCEPT !.base[n] = BaseOfNew] \/ UNCHANGED loop
  <2>1. q \in QuoteShape BY <1>1, QuoteAssumption DEF QuoteShape, CycleShape
  <2>2. Known /\ venue \in Seq(QuoteShape) BY TypesKnown DEF Books, Types
  <2>3. /\ venue' \in Seq(QuoteShape) /\ Len(venue') = n /\ venue'[n] = q /\ Len(venue) \in Nat
        /\ \A p \in 1..Len(venue) : venue'[p] = venue[p]
    <3> HIDE DEF q
    <3> QED BY <1>4, <2>1, <2>2, AppendProperties, LenProperties
  <2>4. Placed' = 1..n /\ Placed = 1..Len(venue) /\ n \in Orders /\ n \notin Placed
    <3>1. Placed' = 1..n BY <2>3, LenProperties DEF Placed
    <3> QED BY <1>4, <2>2, <2>3, <3>1, QuoteAssumption DEF Known, Orders
  <2>5. loop.base[n] = Unknown BY <2>4 DEF Books, Types
  <2>6. /\ loop' \in LoopShape /\ loop'.held = loop.held /\ loop'.on = loop.on
        /\ \A p \in Orders : loop'.base[p] = loop.base[p] \/ (p = n /\ loop'.base[p] = 0)
    <3> HIDE DEF n
    <3>1. CASE UNCHANGED loop BY <1>1, <3>1
    <3>2. CASE loop' = [loop EXCEPT !.base[n] = BaseOfNew]
      <4>1. /\ loop'.base = [loop.base EXCEPT ![n] = 0]
            /\ loop' = [loop EXCEPT !.base = loop'.base]
        BY <1>1, <3>2 DEF LoopShape, BaseOfNew
      <4>2. loop.base \in [Orders -> 0..Size \cup {Unknown}] /\ 0 \in 0..Size
        BY <1>1, QuoteAssumption DEF LoopShape
      <4>3. loop'.base \in [Orders -> 0..Size \cup {Unknown}]
        BY <4>1, <4>2
      <4>4. loop' \in LoopShape /\ loop'.held = loop.held /\ loop'.on = loop.on
        BY <1>1, <4>1, <4>3 DEF LoopShape
      <4>5. \A p \in Orders : loop'.base[p] = IF p = n THEN 0 ELSE loop.base[p]
        BY <4>1, <4>2
      <4> QED BY <4>4, <4>5
    <3> QED BY <1>4, <3>1, <3>2
  <2>7. Types'
    <3>1. \A p \in Orders : loop'.base[p] # Unknown => p \in Placed' /\ loop'.base[p] <= venue'[p].matched
      <4> SUFFICES ASSUME NEW p \in Orders, loop'.base[p] # Unknown
                   PROVE  p \in Placed' /\ loop'.base[p] <= venue'[p].matched
        OBVIOUS
      <4>1. CASE p = n BY <4>1, <2>3, <2>4, <2>5, <2>6
      <4>2. CASE p # n
        <5>1. loop'.base[p] = loop.base[p] BY <4>2, <2>6
        <5>2. p \in Placed /\ loop.base[p] <= venue[p].matched BY <5>1 DEF Books, Types
        <5> QED BY <5>1, <5>2, <2>3, <2>4
      <4> QED BY <4>1, <4>2
    <3>2. \A p \in Placed' : venue'[p].open => venue'[p].matched < Size
      <4> SUFFICES ASSUME NEW p \in 1..n, venue'[p].open PROVE venue'[p].matched < Size BY <2>4
      <4>1. CASE p = n BY <4>1, <2>3, QuoteAssumption
      <4>2. CASE p # n
        <5>1. p \in Placed /\ venue'[p] = venue[p] BY <4>2, <2>3, <2>4
        <5> QED BY <5>1 DEF Books, Types
      <4> QED BY <4>1, <4>2
    <3>3. Len(venue') <= MaxOrders BY <1>4, <2>3, QuoteAssumption
    <3>4. session' \in RowShape /\ (loop'.on \/ cycle' = Rest) BY <1>1, <2>6
    <3> HIDE DEF n, q
    <3> QED BY <1>2, <2>3, <2>6, <3>1, <3>2, <3>3, <3>4 DEF Types
  <2>8. Grows
    <3> SUFFICES ASSUME NEW p \in Placed
                 PROVE  /\ p \in Placed' /\ venue'[p].token = venue[p].token
                        /\ Credit(p) <= Credit(p)' /\ Matched(p) <= Matched(p)'
      BY DEF Grows
    <3>1. /\ p \in Placed' /\ venue'[p] = venue[p] /\ p \in Orders /\ p # n
          /\ loop'.base[p] = loop.base[p]
      BY <2>2, <2>3, <2>4, <2>6 DEF Known
    <3>2. Matched(p)' = Matched(p) BY <3>1 DEF Matched, Open
    <3>3. Credit(p)' = Credit(p) BY <3>1, <3>2 DEF Credit
    <3> QED BY <3>1, <3>2, <3>3, <2>2 DEF Known
  <2> QED BY <1>1, <1>2, <2>6, <2>7, <2>8, KeepsEarned DEF Books
<1> QED BY <1>3, <1>4 DEF PlaceOne

-----------------------------------------------------------------------------
(* Steps of the loop.  Orders and row stay as they are.                     *)

\* The loop is off, or has just looked: nothing it holds or will book is in doubt.
LEMMA LookedWorth ==
  ASSUME UNCHANGED venue, \A o \in Placed : Credit(o)' = Matched(o), NEW t \in Tokens
  PROVE  Worth(t)' = Bookable(t) /\ Bookable(t)' = Bookable(t)
<1>1. Placed' = Placed /\ OrdersOf(t)' = OrdersOf(t) BY DEF Placed, OrdersOf
<1>2. \A o \in Placed : Matched(o)' = Matched(o) BY DEF Matched, Open, Placed
<1>3. [o \in Placed' |-> Credit(o)'] = [o \in Placed |-> Matched(o)] BY <1>1
<1>4. [o \in Placed' |-> Matched(o)'] = [o \in Placed |-> Matched(o)] BY <1>1, <1>2
<1>5. Worth(t)' = SumFunctionOnSet([o \in Placed |-> Matched(o)], OrdersOf(t))
  BY <1>1, <1>3 DEF Worth
<1>6. Bookable(t) = SumFunctionOnSet([o \in Placed |-> Matched(o)], OrdersOf(t))
  BY DEF Bookable, OrdersOf
<1>7. Bookable(t)' = SumFunctionOnSet([o \in Placed |-> Matched(o)], OrdersOf(t))
  BY <1>1, <1>4 DEF Bookable, OrdersOf
<1> QED BY <1>5, <1>6, <1>7

\* A loop that knows of no order holds what the row says, or nothing.
LEMMA AttachBooks == ASSUME Books, Attach \/ Detach \/ Crash PROVE Books'
<1>1. /\ UNCHANGED <<venue, session>> /\ cycle \in CycleShape /\ session \in RowShape
      /\ cycle' = Rest
      /\ loop' = Off \/ loop' = [Off EXCEPT !.on = TRUE, !.held = session.held]
  BY DEF Attach, Detach, Crash, Books, Types
<1>2. /\ loop' \in LoopShape /\ loop'.held \in {Nothing, session.held}
      /\ \A o \in Orders : loop'.base[o] = Unknown
  <2>1. CASE loop' = Off BY <2>1, Blank DEF Off
  <2>2. CASE loop' = [Off EXCEPT !.on = TRUE, !.held = session.held]
    <3>1. session.held \in Holding BY <1>1 DEF RowShape
    <3>2. loop' = [on |-> TRUE, base |-> [o \in Orders |-> Unknown], held |-> session.held, merges |-> 0]
      BY <2>2 DEF Off
    <3> QED BY <3>1, <3>2 DEF LoopShape
  <2> QED BY <1>1, <2>1, <2>2
<1>3. Rest \in CycleShape /\ Rest.pc = "rest" BY Blank DEF Rest
<1>4. Types' BY <1>1, <1>2, <1>3 DEF Books, Types, Placed
<1>5. \A o \in Placed : Credit(o)' = Matched(o)
  <2>1. Placed \subseteq Orders BY TypesKnown DEF Books, Known
  <2> QED BY <1>1, <1>2, <2>1 DEF Credit, Matched, Open, Placed
<1>6. \A t \in Tokens : Worth(t)' = Bookable(t) /\ Bookable(t)' = Bookable(t)
  BY <1>1, <1>5, LookedWorth
<1>7. \A t \in Tokens : /\ Bookable(t) \in Nat
                        /\ session.held.inv[t] + session.held.merged <= Bookable(t)
  BY Worths DEF Books, Valued, Earned
<1>8. \A t \in Tokens : Nothing.inv[t] + Nothing.merged = 0 BY DEF Nothing
<1>9. Earned'
  <2>1. \A t \in Tokens : loop'.held.inv[t] + loop'.held.merged <= Worth(t)'
    BY <1>2, <1>6, <1>7, <1>8
  <2>2. \A t \in Tokens : session'.held.inv[t] + session'.held.merged <= Bookable(t)'
    BY <1>1, <1>6, <1>7
  <2> QED BY <1>1, <1>3, <2>1, <2>2 DEF Earned
<1> QED BY <1>4, <1>9 DEF Books

LEMMA PollBooks == ASSUME Books, Poll PROVE Books'
<1>1. /\ UNCHANGED <<venue, session>> /\ cycle \in CycleShape /\ loop \in LoopShape
      /\ loop.on /\ loop' = [loop EXCEPT !.merges = @ - 1] /\ loop.merges > 0
      /\ cycle.pc = "poll"
  BY HasLoop DEF Poll, Books, Types, At
<1>2. loop' \in LoopShape /\ loop'.held = loop.held /\ loop'.base = loop.base /\ loop'.on
  BY <1>1 DEF LoopShape
<1>3. Resting \in SUBSET Orders BY TypesKnown DEF Books, Known
<1>4. cycle' \in CycleShape /\ cycle'.pc \in {"poll", "fail"}
  <2>1. CASE UNCHANGED cycle BY <1>1, <2>1
  <2>2. CASE cycle' = [cycle EXCEPT !.pc = "fail", !.todo = Resting]
    BY <1>1, <1>3, <2>2 DEF CycleShape, Pcs
  <2> QED BY <2>1, <2>2 DEF Poll
<1>5. Types' BY <1>1, <1>2, <1>4 DEF Books, Types, Placed
<1>6. Grows
  <2>1. \A o \in Placed : Credit(o)' = Credit(o) /\ Matched(o)' = Matched(o)
    BY <1>1, <1>2 DEF Credit, Matched, Open, Placed
  <2>2. Known BY TypesKnown DEF Books
  <2> QED BY <1>1, <2>1, <2>2 DEF Grows, Known, Placed
<1> QED BY <1>1, <1>2, <1>4, <1>5, <1>6, KeepsEarned DEF Books

LEMMA MaxZero == ASSUME NEW a \in Nat PROVE Max({0, a}) = a
<1>1. \E x \in {0, a} : \A y \in {0, a} : x >= y OBVIOUS
<1>2. Max({0, a}) \in {0, a} /\ \A y \in {0, a} : Max({0, a}) >= y BY <1>1 DEF Max
<1> QED BY <1>2

\* Pairs that are merged leave the inventory and are counted as merged.
LEMMA MergeBooks == ASSUME Books, Merge PROVE Books'
<1>1. /\ UNCHANGED <<venue, session>> /\ cycle \in CycleShape /\ loop \in LoopShape
      /\ loop.on /\ cycle.pc = "merge" /\ cycle' = [cycle EXCEPT !.pc = "place", !.merge = 0]
      /\ session \in RowShape
  BY HasLoop DEF Merge, Books, Types, At
<1>2. cycle' \in CycleShape /\ cycle'.pc = "place" BY <1>1 DEF CycleShape, Pcs
<1>3. CASE UNCHANGED loop BY <1>1, <1>2, <1>3, DeskBooks
<1>4. CASE loop' = [loop EXCEPT !.held.inv = [t \in Tokens |-> Max({0, @[t] - cycle.merge})],
                                !.held.merged = @ + cycle.merge, !.merges = @ + 1]
  <2> DEFINE inv == [t \in Tokens |-> loop.held.inv[t] - cycle.merge]
             held == [loop.held EXCEPT !.inv = inv, !.merged = @ + cycle.merge]
  <2>1. \A t \in Tokens : loop.held.inv[t] \in Nat /\ cycle.merge <= loop.held.inv[t]
    BY <1>1 DEF Books, Earned, LoopShape, Holding
  <2>2. cycle.merge \in Nat /\ loop.held.merged \in Nat BY <1>1 DEF CycleShape, LoopShape, Holding
  <2>3. [t \in Tokens |-> Max({0, loop.held.inv[t] - cycle.merge})] = inv
    <3>1. \A t \in Tokens : Max({0, loop.held.inv[t] - cycle.merge}) = loop.held.inv[t] - cycle.merge
      <4> TAKE t \in Tokens
      <4>1. loop.held.inv[t] - cycle.merge \in Nat BY <2>1, <2>2
      <4> QED BY <4>1, MaxZero
    <3> QED BY <3>1
  <2>4. held \in Holding /\ held.inv = inv /\ held.merged = loop.held.merged + cycle.merge
    <3>1. inv \in [Tokens -> Nat] BY <2>1, <2>2
    <3>2. loop.held \in Holding /\ loop.held.merged + cycle.merge \in Nat
      BY <1>1, <2>2 DEF LoopShape
    <3> HIDE DEF inv
    <3> QED BY <3>1, <3>2 DEF Holding
  <2>6. loop' = [loop EXCEPT !.held = held, !.merges = @ + 1]
    <3>1. [loop EXCEPT !.held.inv = [t \in Tokens |-> Max({0, @[t] - cycle.merge})],
                       !.held.merged = @ + cycle.merge, !.merges = @ + 1]
          = [loop EXCEPT !.held = [loop.held EXCEPT
               !.inv = [t \in Tokens |-> Max({0, loop.held.inv[t] - cycle.merge})],
               !.merged = @ + cycle.merge], !.merges = @ + 1]
      BY <1>1 DEF LoopShape, Holding
    <3> HIDE DEF inv
    <3> QED BY <1>4, <2>3, <3>1
  <2>7. \A t \in Tokens : held.inv[t] + held.merged = loop.held.inv[t] + loop.held.merged
    BY <2>1, <2>2, <2>4
  <2> HIDE DEF held
  <2>8. loop' \in LoopShape /\ loop'.held = held /\ loop'.base = loop.base /\ loop'.on
    <3>1. loop.merges + 1 \in Nat BY <1>1 DEF LoopShape
    <3>2. loop' = [loop EXCEPT !.held = held, !.merges = loop.merges + 1] BY <2>6
    <3> QED BY <1>1, <2>4, <3>1, <3>2 DEF LoopShape
  <2>9. Types' BY <1>1, <1>2, <2>8 DEF Books, Types, Placed
  <2>10. Grows
    <3>1. \A o \in Placed : Credit(o)' = Credit(o) /\ Matched(o)' = Matched(o)
      BY <1>1, <2>8 DEF Credit, Matched, Open, Placed
    <3>2. Known BY TypesKnown DEF Books
    <3> QED BY <1>1, <3>1, <3>2 DEF Grows, Known, Placed
  <2>11. Earned'
    <3> SUFFICES ASSUME NEW t \in Tokens
                 PROVE  /\ loop'.held.inv[t] + loop'.held.merged <= Worth(t)'
                        /\ session'.held.inv[t] + session'.held.merged <= Bookable(t)'
      BY <1>2 DEF Earned
    <3>1. Worth(t) <= Worth(t)' /\ Bookable(t) <= Bookable(t)' BY <2>9, <2>10, WorthGrows DEF Books
    <3>2. Worth(t) \in Nat /\ Bookable(t) \in Nat BY Worths DEF Books, Valued
    <3>3. Worth(t)' \in Nat /\ Bookable(t)' \in Nat
      <4>1. Types' => Valued' BY Worths, PTL
      <4> QED BY <4>1, <2>9 DEF Valued
    <3>4. /\ loop.held.inv[t] + loop.held.merged <= Worth(t)
          /\ session.held.inv[t] + session.held.merged <= Bookable(t)
          /\ loop.held.inv[t] + loop.held.merged \in Nat
          /\ session.held.inv[t] + session.held.merged \in Nat
      BY <1>1 DEF Books, Earned, RowShape, LoopShape, Holding
    <3>5. loop'.held.inv[t] + loop'.held.merged = loop.held.inv[t] + loop.held.merged
      BY <2>7, <2>8
    <3> QED BY <1>1, <3>1, <3>2, <3>3, <3>4, <3>5
  <2> QED BY <2>9, <2>11 DEF Books
<1> QED BY <1>3, <1>4 DEF Merge

\* What is booked is what the baselines did not account for yet.
LEMMA GainFits ==
  ASSUME Types, NEW fills \in SUBSET Resting, NEW t \in Tokens
  PROVE  Gained(t, fills) \in Nat /\ Worth(t) + Gained(t, fills) <= Bookable(t)
<1> DEFINE f == [o \in Placed |-> Credit(o)]
           g == [o \in Placed |-> Matched(o)]
           d == [o \in fills |-> Matched(o) - loop.base[o]]
           R == OrdersOf(t)
           T == {o \in fills : venue[o].token = t}
<1>1. Known BY TypesKnown
<1>2. R \subseteq Placed /\ T \subseteq R /\ T \subseteq fills /\ IsFiniteSet(R) /\ T \subseteq Resting
  BY <1>1, FS_Subset DEF OrdersOf, Known
<1>3. \A x \in R : f[x] \in Nat /\ g[x] \in Nat /\ f[x] <= g[x] BY <1>1, <1>2 DEF Known
<1>4. \A x \in T : d[x] \in Nat /\ f[x] + d[x] <= g[x]
  <2> TAKE x \in T
  <2>1. /\ loop.base[x] \in Nat /\ loop.base[x] <= Matched(x) /\ Matched(x) \in Nat
        /\ Credit(x) = loop.base[x] /\ x \in Placed
    <3>1. x \in Resting /\ x \in Placed BY <1>1, <1>2 DEF Known
    <3>2. /\ loop.base[x] \in Nat /\ loop.base[x] <= venue[x].matched
          /\ venue[x].matched <= Matched(x) /\ Matched(x) \in Nat /\ venue[x] \in QuoteShape
      BY <1>1, <3>1 DEF Known
    <3>3. venue[x].matched \in Nat BY <3>2, QuoteAssumption DEF QuoteShape
    <3> QED BY <3>1, <3>2, <3>3 DEF Credit, Resting
  <2>2. d[x] = Matched(x) - loop.base[x] /\ f[x] = loop.base[x] /\ g[x] = Matched(x)
    BY <1>2, <2>1
  <2> HIDE DEF d, f, g
  <2> QED BY <2>1, <2>2
<1>5. Worth(t) = SumFunctionOnSet(f, R) /\ Bookable(t) = SumFunctionOnSet(g, R)
      /\ Gained(t, fills) = SumFunctionOnSet(d, T)
  BY DEF Worth, Bookable, Gained, OrdersOf
<1> HIDE DEF f, g, d, R, T
<1>6. \A x \in R : (IF x \in R THEN f[x] ELSE 0) + (IF x \in T THEN d[x] ELSE 0) <= g[x]
  BY <1>3, <1>4
<1>7. /\ SumFunctionOnSet(f, R) \in Nat /\ SumFunctionOnSet(d, T) \in Nat
      /\ SumFunctionOnSet(g, R) \in Nat
      /\ SumFunctionOnSet(f, R) + SumFunctionOnSet(d, T) <= SumFunctionOnSet(g, R)
  BY <1>2, <1>3, <1>4, <1>6, SumsBelow
<1> QED BY <1>5, <1>7

LEMMA BookedBooks ==
  ASSUME Books, loop.on, UNCHANGED <<venue, session>>, NEW fills \in SUBSET Resting,
         loop' = Booked(fills), cycle' \in CycleShape, cycle'.pc \in {"rest", "decide"}
  PROVE  Books'
<1> DEFINE inv == [t \in Tokens |-> loop.held.inv[t] + Gained(t, fills)]
           held == [loop.held EXCEPT !.inv = inv]
<1>1. /\ loop \in LoopShape /\ session \in RowShape /\ Known BY TypesKnown DEF Books, Types
<1>2. \A t \in Tokens : /\ Gained(t, fills) \in Nat /\ Worth(t) + Gained(t, fills) <= Bookable(t)
                        /\ loop.held.inv[t] \in Nat
  BY <1>1, GainFits DEF Books, LoopShape, Holding
<1>3. held \in Holding /\ held.inv = inv /\ held.merged = loop.held.merged
  <2>1. inv \in [Tokens -> Nat] BY <1>2
  <2> HIDE DEF inv
  <2> QED BY <1>1, <2>1 DEF LoopShape, Holding
<1>4. Reconciled = [o \in Orders |-> IF o \in Open THEN venue[o].matched ELSE Unknown]
  <2> DEFINE r(o) == CASE o \notin Open -> Unknown
                       [] o \in Open \cap Resting -> venue[o].matched
                       [] OTHER -> Adopted(o)
  <2>1. \A o \in Orders : r(o) = IF o \in Open THEN venue[o].matched ELSE Unknown
    <3> TAKE o \in Orders
    <3>1. CASE o \notin Open BY <3>1
    <3>2. CASE o \in Open /\ o \in Resting BY <3>2
    <3>3. CASE o \in Open /\ o \notin Resting BY <3>3 DEF Adopted
    <3> QED BY <3>1, <3>2, <3>3
  <2>2. Reconciled = [o \in Orders |-> r(o)] BY DEF Reconciled
  <2> HIDE DEF r
  <2> QED BY <2>1, <2>2
<1>5. Reconciled \in [Orders -> 0..Size \cup {Unknown}]
  <2>1. \A o \in Open : venue[o].matched \in 0..Size BY <1>1 DEF Known, QuoteShape
  <2> QED BY <1>4, <2>1
<1>6. loop' \in LoopShape /\ loop'.held = held /\ loop'.base = Reconciled /\ loop'.on
  <2>1. loop' = [loop EXCEPT !.base = Reconciled, !.held = held]
    <3>1. Booked(fills) = [loop EXCEPT !.base = Reconciled, !.held = [loop.held EXCEPT !.inv = inv]]
      BY <1>1 DEF Booked, LoopShape
    <3> QED BY <3>1
  <2> HIDE DEF held
  <2> QED BY <1>1, <1>3, <1>5, <2>1 DEF LoopShape
<1>7. Types'
  <2>1. \A o \in Orders : loop'.base[o] # Unknown => o \in Placed' /\ loop'.base[o] <= venue'[o].matched
    <3> SUFFICES ASSUME NEW o \in Orders, loop'.base[o] # Unknown
                 PROVE  o \in Placed /\ loop'.base[o] <= venue[o].matched
      BY DEF Placed
    <3>1. o \in Open /\ loop'.base[o] = venue[o].matched BY <1>4, <1>6
    <3>2. o \in Placed /\ venue[o].matched \in Nat
      BY <1>1, <3>1, QuoteAssumption DEF Known, QuoteShape
    <3> QED BY <3>1, <3>2
  <2> QED BY <1>1, <1>6, <2>1 DEF Books, Types, Placed
<1>8. \A o \in Placed : Credit(o)' = Matched(o)
  <2> TAKE o \in Placed
  <2>1. o \in Orders /\ Matched(o)' = Matched(o)
    BY <1>1 DEF Known, Matched, Open, Placed
  <2>2. CASE o \in Open
    <3>1. venue[o].matched # Unknown BY <1>1, QuoteAssumption DEF Known, QuoteShape, Unknown
    <3> QED BY <1>4, <1>6, <2>1, <2>2, <3>1 DEF Credit, Matched
  <2>3. CASE o \notin Open BY <1>4, <1>6, <2>1, <2>3 DEF Credit
  <2> QED BY <2>2, <2>3
<1>9. Earned'
  <2> SUFFICES ASSUME NEW t \in Tokens
               PROVE  /\ loop'.held.inv[t] + loop'.held.merged <= Worth(t)'
                      /\ session'.held.inv[t] + session'.held.merged <= Bookable(t)'
    BY DEF Earned
  <2>1. Worth(t)' = Bookable(t) /\ Bookable(t)' = Bookable(t) BY <1>8, LookedWorth
  <2>2. /\ loop.held.inv[t] + loop.held.merged <= Worth(t)
        /\ session.held.inv[t] + session.held.merged <= Bookable(t)
        /\ Worth(t) \in Nat /\ Bookable(t) \in Nat
        /\ loop.held.merged \in Nat
    BY <1>1, Worths DEF Books, Earned, Valued, LoopShape, Holding
  <2>3. loop'.held.inv[t] = loop.held.inv[t] + Gained(t, fills) /\ loop'.held.merged = loop.held.merged
    BY <1>3, <1>6
  <2> QED BY <1>2, <2>1, <2>2, <2>3
<1> QED BY <1>7, <1>9 DEF Books

LEMMA SyncBooks == ASSUME Books, Sync PROVE Books'
<1>1. /\ UNCHANGED <<venue, session>> /\ cycle \in CycleShape /\ loop.on /\ session \in RowShape
      /\ Rest \in CycleShape /\ Rest.pc = "rest"
  BY Blank DEF Sync, Books, Types, Rest
<1>2. CASE cycle' = Rest /\ UNCHANGED loop BY <1>1, <1>2, DeskBooks
<1>3. CASE loop' = Booked(Resting) /\ Go("decide")
  <2>1. cycle' \in CycleShape /\ cycle'.pc = "decide" BY <1>1, <1>3 DEF Go, CycleShape, Pcs
  <2> QED BY <1>1, <1>3, <2>1, BookedBooks
<1>4. CASE cycle' = Rest /\ \E fills \in SUBSET Resting : loop' = Booked(fills)
  BY <1>1, <1>4, BookedBooks
<1> QED BY <1>2, <1>3, <1>4 DEF Sync

-----------------------------------------------------------------------------
LEMMA NextBooks == ASSUME Books, [Next]_vars PROVE Books'
<1>1. CASE UNCHANGED vars
  <2>1. UNCHANGED <<venue, session, loop, cycle>> BY <1>1 DEF vars
  <2>2. session \in RowShape /\ cycle \in CycleShape /\ (loop.on \/ cycle = Rest)
        /\ (cycle.pc \in {"cancel", "merge"} => \A t \in Tokens : cycle.merge <= loop.held.inv[t])
    BY DEF Books, Types, Earned
  <2> QED BY <2>1, <2>2, DeskBooks
<1>2. CASE Next
  BY <1>2, UserBooks, BeginBooks, DecideBooks, WithdrawnBooks, ConsiderBooks, EndBooks,
     ExchangeBooks, CancelBooks, PlaceBooks, AttachBooks, PollBooks, MergeBooks, SyncBooks
  DEF Next
<1> QED BY <1>1, <1>2

\* Rows, batches and holdings keep their types, and a resting quote is on the book's
\* record with a baseline that is not ahead of it: the next difference is never negative.
THEOREM TypeCorrect == Spec => []TypeOK
<1>1. Books => TypeOK
  <2> SUFFICES ASSUME Books PROVE TypeOK OBVIOUS
  <2> QED BY DEF Books, Types, TypeOK, QuoteShape, RowShape, LoopShape
<1> QED BY <1>1, InitBooks, NextBooks, PTL DEF Spec

\* Cancels whose answer is lost, orders adopted after a crash, pairs merged and fills
\* booked in parts: loop and row never hold more than the orders can have filled.
THEOREM FillsOnce == Spec => []FillsBookedOnce
<1>1. Books => FillsBookedOnce
  <2> SUFFICES ASSUME Books, NEW t \in Tokens
               PROVE  /\ loop.held.inv[t] + loop.held.merged <= Bookable(t)
                      /\ session.held.inv[t] + session.held.merged <= Bookable(t)
    BY DEF FillsBookedOnce
  <2>1. Worth(t) \in Nat /\ Bookable(t) \in Nat /\ Worth(t) <= Bookable(t)
    BY Worths DEF Books, Valued
  <2>2. /\ loop.held.inv[t] + loop.held.merged <= Worth(t)
        /\ session.held.inv[t] + session.held.merged <= Bookable(t)
        /\ loop.held.inv[t] + loop.held.merged \in Nat
    BY DEF Books, Types, Earned, LoopShape, Holding
  <2> QED BY <2>1, <2>2
<1> QED BY <1>1, InitBooks, NextBooks, PTL DEF Spec
=============================================================================
