------------------------- MODULE RuleEvaluatorProofs -------------------------
(****************************************************************************)
(* A trigger is attempted automatically once, whatever the write chains of  *)
(* a strategy's in-memory rules, dropped ones included, go through.         *)
(* While one rule alone writes the row, its count and its windows are right *)
(* too; and every reachable state is well typed.  No registered rule stays  *)
(* without evaluation, and every chain comes to its end.                    *)
(****************************************************************************)
EXTENDS RuleEvaluator, TLAPS, FiniteSetTheorems

-----------------------------------------------------------------------------
(* The shape of the state: weaker than TypeOK, and enough to read it.       *)

RtShape == [status : Status, since : Int, stale : Int, last : Int, count : Int, cool : Int,
            wm : Int]
Result == [rt : RtShape, fired : BOOLEAN, noted : BOOLEAN]
JobPc == {"start", "claim", "skip", "write", "execute", "audit"}
JobShape == [out : Result, at : Int, pc : JobPc, win : Int, refund : BOOLEAN,
             retry : BOOLEAN]
SlotShape == [rt : RtShape, lastWin : Int, chain : Seq(JobShape)]
RowShape == [status : Status, since : Int, stale : Int, count : Int, cool : Int,
             evalAt : Int, lastWin : Int]
EntryShape == [win : Int, tries : Nat]

Shapes ==
  /\ now \in Int /\ live \in 0..Slots
  /\ row \in RowShape /\ reload \in [pc : {"idle", "listed", "gone"}, row : RowShape]
  /\ slot \in [1..Slots -> SlotShape]
  /\ ledger \in [DOMAIN ledger -> EntryShape]

\* Where the literals belong.
LEMMA Literals ==
  /\ None \in Int
  /\ {"ACTIVE_WAITING", "ACTIVE_ACCUMULATING", "TRIGGERED_AWAITING_USER", "COMPLETED",
      "CANCELLED", "EXPIRED", "INVALIDATED", "PAUSED"} \subseteq Status
  /\ TRUE \in BOOLEAN /\ FALSE \in BOOLEAN
BY DEF None, Status, Evaluable, Terminal

\* The types of the constants.
LEMMA ConstantTypes ==
  /\ Hold \in Nat /\ Grace \in Nat /\ Cooldown \in Nat /\ ExpiresAt \in Nat
  /\ MaxRepeats \in Nat \ {0} /\ Offset \in Nat \ {0}
  /\ WindowLen \in Nat \ {0} /\ MaxAge \in Nat /\ Slots \in Nat \ {0} /\ Horizon \in Nat
  /\ \A v \in Views \cup {NoView} : v.ref \in Int
<1>1. \A v \in View : v.ref \in Int
  <2>1. Prices \cup {None} \subseteq Int
    BY StrategyAssumption, Literals
  <2> QED BY <2>1 DEF View
<1>2. NoView.ref \in Int
  BY Literals DEF NoView
<1> QED BY <1>1, <1>2, StrategyAssumption, EvaluatorAssumption

\* The end of a window, for whatever reason.
LEMMA ResetShape ==
  ASSUME NEW r \in RtShape, NEW t \in Int, NEW wm \in Int, NEW s \in Status
  PROVE  /\ Reset(r, t, wm) \in Result
         /\ Ended(r, s, t) \in Result
         /\ ObserveStale(r, t, wm) \in Result
<1>1. Reset(r, t, wm) \in Result
  BY Literals DEF Reset, To, Result, RtShape
<1>2. Ended(r, s, t) \in Result
  BY Literals DEF Ended, To, Result, RtShape
<1>3. ObserveStale(r, t, wm) \in Result
  <2>1. Flag([r EXCEPT !.stale = t, !.last = t, !.wm = wm]) \in Result
    BY Literals DEF Flag, Result, RtShape
  <2>2. To(r, [r EXCEPT !.last = t, !.wm = wm], FALSE) \in Result
    BY Literals DEF To, Result, RtShape
  <2> QED BY <1>1, <2>1, <2>2 DEF ObserveStale
<1> QED BY <1>1, <1>2, <1>3

\* A satisfied observation.
LEMMA HitShape ==
  ASSUME NEW p \in RtShape, NEW r \in RtShape, NEW t \in Int, NEW wm \in Int
  PROVE  Hit(p, r, t, wm) \in Result
<1>1. Since(r, t) \in Int
  BY ConstantTypes DEF Since, RtShape
<1>2. Fire(r, t, Since(r, t), wm) \in Result
  BY <1>1, Literals, ConstantTypes DEF Fire, Rearm, Result, RtShape
<1>3. LET n == [r EXCEPT !.status = "ACTIVE_ACCUMULATING", !.since = Since(r, t), !.stale = None,
                         !.last = t, !.wm = wm]
      IN Flag(n) \in Result /\ To(p, n, TRUE) \in Result
  BY <1>1, Literals DEF Flag, To, Result, RtShape
<1> QED BY <1>2, <1>3 DEF Hit

\* An observation of the data.
LEMMA ObserveShape ==
  ASSUME NEW r \in RtShape, NEW t \in Int, NEW v \in Views
  PROVE  Observe(r, v, t) \in Result
<1>1. [r EXCEPT !.cool = None] \in RtShape /\ r.wm \in Int /\ r.cool \in Int
  BY Literals DEF RtShape
<1>2. Watermark(r.wm, v) \in Int
  BY <1>1, ConstantTypes DEF Watermark
<1>3. Ended(r, "EXPIRED", t) \in Result /\ Ended(r, "INVALIDATED", t) \in Result
  BY ResetShape, Literals
<1>4. Reset(r, t, r.wm) \in Result
  BY <1>1, Literals, ResetShape
<1>5. /\ To(r, [r EXCEPT !.last = t], FALSE) \in Result
      /\ To(r, [r EXCEPT !.since = None, !.stale = None, !.last = t], FALSE) \in Result
  BY Literals DEF To, Result, RtShape
<1>6. Hit(r, [r EXCEPT !.cool = None], t, Watermark(r.wm, v)) \in Result
  BY <1>1, <1>2, HitShape
<1>7. Miss(r, [r EXCEPT !.cool = None], v, t, Watermark(r.wm, v)) \in Result
  <2> DEFINE c == [r EXCEPT !.cool = None]
             w == Watermark(r.wm, v)
  <2>1. ObserveStale(c, t, w) \in Result /\ Reset(c, t, w) \in Result
    BY <1>1, <1>2, Literals, ResetShape
  <2>2. To(r, [c EXCEPT !.since = None, !.stale = None, !.last = t, !.wm = w], FALSE) \in Result
    <3> HIDE DEF w
    <3> QED BY <1>1, <1>2, Literals DEF To, Result, RtShape, w
  <2> QED BY <2>1, <2>2 DEF Miss
<1> QED BY <1>3, <1>4, <1>5, <1>6, <1>7 DEF Observe

\* What an event makes of a runtime has the shape of one.
LEMMA TransitionShape ==
  ASSUME NEW r \in RtShape, NEW e, e.now \in Int, e.view \in Views \cup {NoView}
  PROVE  Transition(r, e) \in Result
<1>1. r.wm \in Int
  BY DEF RtShape
<1>2. Keep(r) \in Result
  BY DEF Keep, Result
<1>3. \A s \in {"CANCELLED", "EXPIRED", "INVALIDATED"} : Ended(r, s, e.now) \in Result
  BY ResetShape, Literals
<1>4. Paused(r, e.now) \in Result /\ Resumed(r, e.now) \in Result
  <2>1. /\ To(r, [r EXCEPT !.status = "PAUSED", !.since = None, !.last = e.now], TRUE) \in Result
        /\ To(r, [r EXCEPT !.status = "ACTIVE_WAITING", !.since = None, !.last = e.now], TRUE)
             \in Result
    BY Literals DEF To, Result, RtShape
  <2> QED BY <1>2, <2>1 DEF Paused, Resumed
<1>5. Interrupted(r, e) \in Result
  BY <1>1, Literals, ResetShape DEF Interrupted
<1>6. Blind(r, e.now) \in Result
  BY <1>1, <1>2, <1>3, Literals, ResetShape DEF Blind
<1>7. e.view # NoView => Observe(r, e.view, e.now) \in Result
  BY ObserveShape
<1> QED BY <1>2, <1>3, <1>4, <1>5, <1>6, <1>7 DEF Transition

-----------------------------------------------------------------------------
(* What a step may do to a chain.                                           *)

\* Only the first job of a chain is under way.
Waiting(c) == \A k \in 2..Len(c) : c[k].pc = "start"

Executing(c) == c # <<>> /\ c[1].pc = "execute"
Number(c) == c[1].out.rt.count

\* From chain c to chain d without a new attempt.
Calm(c, d) ==
  /\ Waiting(d)
  /\ Executing(d) => Executing(c) /\ Number(d) = Number(c)

\* A chain that is emptied, left alone, extended, advanced or shortened.
LEMMA ChainSteps ==
  ASSUME NEW c \in Seq(JobShape), Waiting(c), NEW job \in JobShape
  PROVE  /\ Calm(c, c) /\ Calm(c, <<>>)
         /\ job.pc = "start" => Append(c, job) \in Seq(JobShape) /\ Calm(c, Append(c, job))
         /\ c # <<>> => /\ c[1] \in JobShape /\ Tail(c) \in Seq(JobShape) /\ Calm(c, Tail(c))
                        /\ ~Executing(Tail(c)) /\ ~Executing(<<>>)
                        /\ [c EXCEPT ![1] = job] \in Seq(JobShape)
                        /\ [c EXCEPT ![1] = job] # <<>>
                        /\ [c EXCEPT ![1] = job][1] = job
                        /\ Waiting([c EXCEPT ![1] = job])
<1>1. Calm(c, c) /\ Calm(c, <<>>)
  BY DEF Calm, Waiting, Executing
<1>2. ASSUME job.pc = "start"
      PROVE  Append(c, job) \in Seq(JobShape) /\ Calm(c, Append(c, job))
  BY <1>2 DEF Calm, Waiting, Executing, Number
<1>3. ASSUME c # <<>>
      PROVE  /\ c[1] \in JobShape /\ Tail(c) \in Seq(JobShape) /\ Calm(c, Tail(c))
             /\ ~Executing(Tail(c)) /\ ~Executing(<<>>)
             /\ [c EXCEPT ![1] = job] \in Seq(JobShape) /\ [c EXCEPT ![1] = job] # <<>>
             /\ [c EXCEPT ![1] = job][1] = job
             /\ Waiting([c EXCEPT ![1] = job])
  <2>1. c[1] \in JobShape /\ Tail(c) \in Seq(JobShape)
    BY <1>3
  <2>2. Calm(c, Tail(c)) /\ ~Executing(Tail(c)) /\ ~Executing(<<>>)
    <3>1. \A k \in 1..Len(Tail(c)) : Tail(c)[k] = c[k + 1] /\ k + 1 \in 2..Len(c)
      BY <1>3
    <3>2. \A k \in 1..Len(Tail(c)) : Tail(c)[k].pc = "start"
      BY <3>1 DEF Waiting
    <3>3. Tail(c) # <<>> => 1 \in 1..Len(Tail(c))
      BY <2>1
    <3> QED BY <3>2, <3>3 DEF Calm, Waiting, Executing
  <2> DEFINE d == [c EXCEPT ![1] = job]
  <2>3. Len(d) = Len(c) /\ d[1] = job /\ d \in Seq(JobShape) /\ d # <<>>
    BY <1>3
  <2>4. \A k \in 2..Len(c) : d[k] = c[k]
    BY <1>3
  <2>5. Waiting(d)
    BY <2>3, <2>4 DEF Waiting
  <2> QED BY <2>1, <2>2, <2>3, <2>5
<1> QED BY <1>1, <1>2, <1>3

-----------------------------------------------------------------------------
(* What the helpers of the write chain return.                              *)

SlotsTyped(s) == s \in [1..Slots -> SlotShape]
SlotsCalm(s) == \A j \in 1..Slots : Calm(slot[j].chain, s[j].chain)
Tidy == \A j \in 1..Slots : Waiting(slot[j].chain)

\* An in-memory rule that is not there has the shape of one.
LEMMA BlankShape == Blank \in SlotShape /\ Blank.chain = <<>>
BY Literals DEF Blank, InitialRuntime, SlotShape, RtShape

\* Leaving the slots alone is calm.
LEMMA SameCalm == ASSUME Shapes, Tidy PROVE SlotsTyped(slot) /\ SlotsCalm(slot)
<1>1. slot \in [1..Slots -> SlotShape]
  BY DEF Shapes
<1>2. ASSUME NEW j \in 1..Slots PROVE Calm(slot[j].chain, slot[j].chain)
  BY <1>1 DEF Tidy, Calm
<1> QED BY <1>1, <1>2 DEF SlotsTyped, SlotsCalm

\* Advance writes the first job of one chain.
LEMMA AdvanceShape ==
  ASSUME Shapes, Tidy, NEW i \in 1..Slots, slot[i].chain # <<>>, NEW job \in JobShape
  PROVE  /\ SlotsTyped(Advance(i, job))
         /\ Advance(i, job)[i].chain = [slot[i].chain EXCEPT ![1] = job]
         /\ \A j \in 1..Slots : j # i => Advance(i, job)[j] = slot[j]
         /\ job.pc # "execute" => /\ SlotsCalm(Advance(i, job))
                                   /\ ~Executing(Advance(i, job)[i].chain)
<1> DEFINE c == slot[i].chain
           d == [c EXCEPT ![1] = job]
           s == Advance(i, job)
<1>1. slot \in [1..Slots -> SlotShape] /\ slot[i] \in SlotShape /\ c \in Seq(JobShape)
  BY DEF Shapes, SlotShape
<1>2. Waiting(c)
  BY DEF Tidy
<1>3. d \in Seq(JobShape) /\ d # <<>> /\ d[1] = job /\ Waiting(d)
  BY <1>1, <1>2, ChainSteps
<1>4. s = [slot EXCEPT ![i] = [slot[i] EXCEPT !.chain = d]]
  BY <1>1 DEF Advance, SlotShape
<1>5. [slot[i] EXCEPT !.chain = d] \in SlotShape /\ [slot[i] EXCEPT !.chain = d].chain = d
  BY <1>1, <1>3 DEF SlotShape
<1>6. /\ SlotsTyped(s) /\ s[i].chain = d
      /\ \A j \in 1..Slots : j # i => s[j] = slot[j]
  <2> HIDE DEF d, c
  <2> QED BY <1>1, <1>4, <1>5 DEF SlotsTyped
<1>8. ASSUME job.pc # "execute" PROVE ~Executing(s[i].chain)
  <2>1. d[1].pc # "execute" BY <1>3, <1>8
  <2> QED BY <2>1, <1>6 DEF Executing
<1>7. ASSUME job.pc # "execute" PROVE SlotsCalm(s)
  <2> SUFFICES ASSUME NEW j \in 1..Slots PROVE Calm(slot[j].chain, s[j].chain)
    BY DEF SlotsCalm
  <2>1. CASE j = i
    <3>1. Calm(c, d)
      BY <1>3, <1>7 DEF Calm, Executing
    <3> HIDE DEF c, d, s
    <3> QED BY <2>1, <3>1, <1>6 DEF c
  <2>2. CASE j # i
    <3>1. s[j] = slot[j] BY <2>2, <1>6
    <3> HIDE DEF s
    <3> QED BY <3>1, SameCalm DEF SlotsCalm
  <2> QED BY <2>1, <2>2
<1> QED BY <1>6, <1>7, <1>8

\* Done takes the first job off a chain, and the slot of a dropped rule with it.
LEMMA DoneShape ==
  ASSUME Shapes, Tidy, NEW i \in 1..Slots, slot[i].chain # <<>>
  PROVE  SlotsTyped(Done(i)) /\ SlotsCalm(Done(i)) /\ ~Executing(Done(i)[i].chain)
<1> DEFINE c == slot[i].chain
<1>1. slot \in [1..Slots -> SlotShape] /\ slot[i] \in SlotShape /\ c \in Seq(JobShape)
  BY DEF Shapes, SlotShape
<1>2. Waiting(c)
  BY DEF Tidy
<1>3. PICK job \in JobShape : job = c[1]
  BY <1>1, ChainSteps
<1>4. Tail(c) \in Seq(JobShape) /\ Calm(c, Tail(c)) /\ Calm(c, <<>>)
      /\ ~Executing(Tail(c)) /\ ~Executing(<<>>)
  BY <1>1, <1>2, <1>3, ChainSteps
<1>5. PICK q \in SlotShape : Done(i) = [slot EXCEPT ![i] = q] /\ Calm(c, q.chain)
                                /\ ~Executing(q.chain)
  <2>1. CASE i # live /\ Tail(c) = <<>>
    BY <2>1, <1>4, BlankShape DEF Done
  <2>2. CASE ~(i # live /\ Tail(c) = <<>>)
    <3>1. Done(i) = [slot EXCEPT ![i] = [slot[i] EXCEPT !.chain = Tail(c)]]
      BY <1>1, <2>2 DEF Done, SlotShape
    <3>2. [slot[i] EXCEPT !.chain = Tail(c)] \in SlotShape
          /\ [slot[i] EXCEPT !.chain = Tail(c)].chain = Tail(c)
      <4> HIDE DEF c
      <4> QED BY <1>1, <1>4 DEF SlotShape
    <3> QED BY <3>1, <3>2, <1>4
  <2> QED BY <2>1, <2>2
<1>6. SlotsTyped(Done(i)) /\ ~Executing(Done(i)[i].chain)
  BY <1>1, <1>5 DEF SlotsTyped
<1>7. ASSUME NEW j \in 1..Slots PROVE Calm(slot[j].chain, Done(i)[j].chain)
  BY <1>1, <1>5, SameCalm DEF SlotsCalm
<1> QED BY <1>6, <1>7 DEF SlotsCalm

\* Remove leaves every chain alone.
LEMMA RemoveShape ==
  ASSUME NEW s, SlotsTyped(s), SlotsCalm(s)
  PROVE  /\ SlotsTyped(Remove(s)) /\ SlotsCalm(Remove(s))
         /\ \A j \in 1..Slots : Remove(s)[j].chain = s[j].chain
BY BlankShape DEF SlotsTyped, SlotsCalm, Remove

\* A dropped rule starts no attempt.
LEMMA DropShape ==
  ASSUME Shapes, Tidy, NEW i \in 1..Slots, slot[i].chain # <<>>, Drop(i)
  PROVE  /\ SlotsTyped(slot') /\ SlotsCalm(slot') /\ live' \in 0..Slots
         /\ ~Executing(slot'[i].chain)
BY DoneShape, RemoveShape, ConstantTypes DEF Drop

\* A statement that throws starts the job over, or drops the rule.
LEMMA ThrowShape ==
  ASSUME Shapes, Tidy, NEW i \in 1..Slots, slot[i].chain # <<>>, Throw(i)
  PROVE  /\ SlotsTyped(slot') /\ SlotsCalm(slot') /\ live' \in 0..Slots
         /\ ~Executing(slot'[i].chain)
<1>1. Head1(i) \in JobShape
  BY ChainSteps DEF Shapes, SlotShape, Head1, Tidy
<1>2. [Head1(i) EXCEPT !.pc = "start", !.win = None, !.refund = FALSE, !.retry = TRUE] \in JobShape
      /\ [Head1(i) EXCEPT !.pc = "start", !.win = None, !.refund = FALSE, !.retry = TRUE].pc = "start"
  BY <1>1, Literals DEF JobShape, JobPc
<1>3. CASE GiveUp(i)
  BY <1>3, DropShape DEF GiveUp
<1>4. CASE ~GiveUp(i)
  <2> DEFINE job == [Head1(i) EXCEPT !.pc = "start", !.win = None, !.refund = FALSE,
                                     !.retry = TRUE]
  <2>1. slot' = Advance(i, job) /\ live' = live
    BY <1>4 DEF Throw
  <2>2. job \in JobShape /\ job.pc = "start"
    BY <1>2
  <2> HIDE DEF job
  <2>3. /\ SlotsTyped(Advance(i, job)) /\ SlotsCalm(Advance(i, job))
        /\ ~Executing(Advance(i, job)[i].chain)
    BY <2>2, AdvanceShape
  <2> QED BY <2>1, <2>3 DEF Shapes
<1> QED BY <1>3, <1>4

-----------------------------------------------------------------------------
(* The invariant.                                                           *)

\* An attempt under way has its trigger, which was not attempted before, to itself.
Attempting ==
  /\ \A i \in 1..Slots : Executing(slot[i].chain) =>
       Number(slot[i].chain) \in DOMAIN ledger /\ ledger[Number(slot[i].chain)].tries = 0
  /\ \A i, k \in 1..Slots :
       i # k /\ Executing(slot[i].chain) /\ Executing(slot[k].chain)
         => Number(slot[i].chain) # Number(slot[k].chain)

AttemptInv == Shapes /\ Tidy /\ Attempting /\ AttemptedOnce

\* The ledger gains triggers that were not attempted, or nothing.
LedgerGrows ==
  /\ ledger' \in [DOMAIN ledger' -> EntryShape]
  /\ DOMAIN ledger \subseteq DOMAIN ledger'
  /\ \A n \in DOMAIN ledger : ledger'[n] = ledger[n]
  /\ \A n \in DOMAIN ledger' : n \notin DOMAIN ledger => ledger'[n].tries = 0

\* What a step writes beside the slots and the ledger.
Beside ==
  /\ now' \in Int /\ live' \in 0..Slots
  /\ row' \in RowShape /\ reload' \in [pc : {"idle", "listed", "gone"}, row : RowShape]

\* A step that starts no attempt keeps the invariant.
LEMMA CalmStep ==
  ASSUME AttemptInv, Beside, SlotsTyped(slot'), SlotsCalm(slot'), LedgerGrows
  PROVE  AttemptInv'
<1>1. Shapes'
  BY DEF Beside, SlotsTyped, LedgerGrows, Shapes
<1>2. Tidy'
  BY DEF SlotsCalm, Calm, Tidy
<1>3. \A i \in 1..Slots : Executing(slot'[i].chain) =>
        Executing(slot[i].chain) /\ Number(slot'[i].chain) = Number(slot[i].chain)
  BY DEF SlotsCalm, Calm
<1>4. Attempting'
  <2>1. \A i \in 1..Slots : Executing(slot'[i].chain) =>
          Number(slot'[i].chain) \in DOMAIN ledger' /\ ledger'[Number(slot'[i].chain)].tries = 0
    BY <1>3 DEF AttemptInv, Attempting, LedgerGrows
  <2>2. \A i, k \in 1..Slots :
          i # k /\ Executing(slot'[i].chain) /\ Executing(slot'[k].chain)
            => Number(slot'[i].chain) # Number(slot'[k].chain)
    BY <1>3 DEF AttemptInv, Attempting
  <2> QED BY <2>1, <2>2 DEF Attempting, Executing, Number
<1>5. AttemptedOnce'
  BY DEF AttemptInv, AttemptedOnce, LedgerGrows
<1> QED BY <1>1, <1>2, <1>4, <1>5 DEF AttemptInv

\* Writing nothing grows the ledger.
LEMMA SameLedger == ASSUME Shapes, ledger' = ledger PROVE LedgerGrows
BY DEF Shapes, LedgerGrows

-----------------------------------------------------------------------------
(* The reload, the events, the user and the process.                        *)

\* The rows a step may write.
LEMMA RowWrites ==
  ASSUME Shapes, NEW r \in RtShape, NEW t \in Int, NEW q \in RowShape
  PROVE  /\ Saved(r, t) \in RowShape /\ Claimed(t) \in RowShape
         /\ Restored(q) \in RtShape
         /\ NewRow \in RowShape
<1>1. row \in RowShape
  BY DEF Shapes
<1>2. Saved(r, t) \in RowShape /\ Claimed(t) \in RowShape
  BY <1>1 DEF Saved, Claimed, RowShape, RtShape
<1>3. Restored(q) \in RtShape
  BY Literals DEF Restored, RowShape, RtShape
<1>4. NewRow \in RowShape
  BY Literals DEF NewRow, RowShape
<1> QED BY <1>2, <1>3, <1>4

\* The reload's two halves.
LEMMA ReloadKeeps == ASSUME AttemptInv, ReloadRead \/ ReloadApply PROVE AttemptInv'
<1>1. Shapes /\ Tidy
  BY DEF AttemptInv
<1>2. LedgerGrows
  BY <1>1, SameLedger DEF ReloadRead, ReloadApply
<1>3. CASE ReloadRead
  <2>1. reload' \in [pc : {"idle", "listed", "gone"}, row : RowShape]
    <3>1. NewRow \in RowShape /\ row \in RowShape
      BY <1>1, Literals DEF NewRow, RowShape, Shapes
    <3> QED BY <1>3, <3>1 DEF ReloadRead
  <2>2. Beside
    BY <1>1, <1>3, <2>1 DEF ReloadRead, Beside, Shapes
  <2> QED BY <1>1, <1>2, <1>3, <2>2, SameCalm, CalmStep DEF ReloadRead
<1>4. CASE ReloadApply
  <2>1. Idle \in [pc : {"idle", "listed", "gone"}, row : RowShape]
    BY Literals DEF Idle, NewRow, RowShape
  <2>2. live' \in 0..Slots /\ SlotsTyped(slot') /\ SlotsCalm(slot')
    <3>1. CASE UNCHANGED <<live, slot>>
      BY <1>1, <3>1, SameCalm DEF Shapes
    <3>2. CASE live' = 0 /\ slot' = Remove(slot)
      BY <1>1, <3>2, SameCalm, RemoveShape, ConstantTypes
    <3>3. ASSUME NEW i \in 1..Slots, live' = i,
                 slot' = [slot EXCEPT ![i] = [rt |-> Restored(reload.row),
                                              lastWin |-> reload.row.lastWin, chain |-> <<>>]]
          PROVE  live' \in 0..Slots /\ SlotsTyped(slot') /\ SlotsCalm(slot')
      <4> DEFINE q == [rt |-> Restored(reload.row), lastWin |-> reload.row.lastWin,
                       chain |-> <<>>]
      <4>1. reload.row \in RowShape /\ slot \in [1..Slots -> SlotShape]
        BY <1>1 DEF Shapes
      <4>2. Restored(reload.row) \in RtShape /\ reload.row.lastWin \in Int
        BY <4>1, Literals DEF Restored, RowShape, RtShape
      <4>3. q \in SlotShape /\ q.chain = <<>>
        BY <4>2 DEF SlotShape
      <4> HIDE DEF q
      <4>4. SlotsTyped(slot')
        BY <3>3, <4>1, <4>3 DEF SlotsTyped, q
      <4>5. ASSUME NEW j \in 1..Slots PROVE Calm(slot[j].chain, slot'[j].chain)
        <5>1. CASE j # i
          BY <1>1, <3>3, <4>1, <5>1, SameCalm DEF SlotsCalm
        <5>2. CASE j = i
          <6>1. slot'[j].chain = <<>>
            BY <3>3, <4>1, <4>3, <5>2 DEF q
          <6> QED BY <6>1 DEF Calm, Waiting, Executing
        <5> QED BY <5>1, <5>2
      <4> QED BY <3>3, <4>4, <4>5, ConstantTypes DEF SlotsCalm
    <3> QED BY <1>4, <3>1, <3>2, <3>3 DEF ReloadApply
  <2>3. Beside
    BY <1>1, <1>4, <2>1, <2>2 DEF ReloadApply, Beside, Shapes
  <2> QED BY <1>2, <2>2, <2>3, CalmStep
<1> QED BY <1>3, <1>4

\* An event changes the rule in memory and may queue a write.
LEMMA ApplyCalm ==
  ASSUME Shapes, Tidy, live # 0, NEW e, e.now \in Int, e.view \in Views \cup {NoView}, Apply(e)
  PROVE  SlotsTyped(slot') /\ SlotsCalm(slot')
<1> DEFINE res == Transition(slot[live].rt, e)
           job == [out |-> res, at |-> e.now, pc |-> "start", win |-> None,
                   refund |-> FALSE, retry |-> FALSE]
           c == slot[live].chain
<1>1. live \in 1..Slots /\ slot \in [1..Slots -> SlotShape] /\ slot[live] \in SlotShape
  BY ConstantTypes DEF Shapes
<1>2. slot[live].rt \in RtShape /\ c \in Seq(JobShape) /\ Waiting(c)
  BY <1>1 DEF SlotShape, Tidy
<1>3. res \in Result /\ res.rt \in RtShape
  <2>1. res \in Result
    BY <1>2, TransitionShape
  <2> HIDE DEF res
  <2> QED BY <2>1 DEF Result
<1>4. job \in JobShape /\ job.pc = "start"
  <2> HIDE DEF res
  <2> QED BY <1>3, Literals DEF JobShape, JobPc
<1>5. PICK d \in Seq(JobShape) :
        /\ Calm(c, d)
        /\ slot' = [slot EXCEPT ![live].rt = res.rt, ![live].chain = d]
  <2>1. /\ Append(c, job) \in Seq(JobShape) /\ Calm(c, Append(c, job)) /\ Calm(c, c)
    <3> HIDE DEF job, c
    <3> QED BY <1>2, <1>4, ChainSteps
  <2>2. \/ slot' = [slot EXCEPT ![live].rt = res.rt, ![live].chain = Append(c, job)]
        \/ slot' = [slot EXCEPT ![live].rt = res.rt, ![live].chain = c]
    BY <1>1 DEF Apply, SlotShape
  <2> QED BY <1>2, <2>1, <2>2
<1>6. slot' = [slot EXCEPT ![live] = [slot[live] EXCEPT !.rt = res.rt, !.chain = d]]
  <2> HIDE DEF res
  <2> QED BY <1>1, <1>5 DEF SlotShape
<1>7. [slot[live] EXCEPT !.rt = res.rt, !.chain = d] \in SlotShape
      /\ [slot[live] EXCEPT !.rt = res.rt, !.chain = d].chain = d
  <2> HIDE DEF res
  <2> QED BY <1>1, <1>3, <1>5 DEF SlotShape
<1> HIDE DEF res
<1>8. SlotsTyped(slot')
  BY <1>1, <1>6, <1>7 DEF SlotsTyped
<1>9. ASSUME NEW j \in 1..Slots PROVE Calm(slot[j].chain, slot'[j].chain)
  BY <1>1, <1>5, <1>6, <1>7, SameCalm DEF SlotsCalm
<1> QED BY <1>8, <1>9 DEF SlotsCalm

\* Ticks and events.
LEMMA EventKeeps == ASSUME AttemptInv, Tick \/ Event PROVE AttemptInv'
<1>1. Shapes /\ Tidy /\ now \in Int
  BY DEF AttemptInv, Shapes
<1>2. SlotsTyped(slot') /\ SlotsCalm(slot')
  <2>1. CASE slot' = slot
    BY <1>1, <2>1, SameCalm
  <2>2. ASSUME live # 0, NEW v \in Views, now' \in Int,
               Apply([type |-> "tick", now |-> now', view |-> v])
        PROVE  SlotsTyped(slot') /\ SlotsCalm(slot')
    BY <1>1, <2>2, ApplyCalm
  <2>3. ASSUME live # 0, NEW e \in Events(now, Views), Apply(e)
        PROVE  SlotsTyped(slot') /\ SlotsCalm(slot')
    <3>1. e.now = now /\ e.view \in Views \cup {NoView}
      BY <2>3 DEF Events
    <3> QED BY <1>1, <2>3, <3>1, ApplyCalm
  <2>4. CASE Tick
    <3>1. now' \in Int
      BY <1>1, <2>4 DEF Tick
    <3>2. CASE up /\ live # 0
      <4>1. PICK v \in Views : Apply([type |-> "tick", now |-> now', view |-> v])
        BY <2>4, <3>2 DEF Tick
      <4> QED BY <2>2, <3>1, <3>2, <4>1
    <3>3. CASE ~(up /\ live # 0)
      BY <2>1, <2>4, <3>3 DEF Tick
    <3> QED BY <3>2, <3>3
  <2>5. CASE Event
    BY <2>3, <2>5 DEF Event
  <2> QED BY <2>4, <2>5
<1>3. LedgerGrows /\ Beside
  BY <1>1, SameLedger DEF Tick, Event, Beside, Shapes
<1> QED BY <1>2, <1>3, CalmStep

\* The user's statements, the crash and the restart.
LEMMA ControlKeeps ==
  ASSUME AttemptInv, Pause \/ Resume \/ Cancel \/ Crash \/ Start
  PROVE  AttemptInv'
<1>1. Shapes /\ Tidy
  BY DEF AttemptInv
<1>2. LedgerGrows
  BY <1>1, SameLedger DEF Pause, Resume, Cancel, Crash, Start
<1>3. SlotsTyped(slot') /\ SlotsCalm(slot')
  <2>1. CASE slot' = slot
    BY <1>1, <2>1, SameCalm
  <2>2. CASE Crash
    <3>1. slot' = [i \in 1..Slots |-> Blank]
      BY <2>2 DEF Crash
    <3>2. ASSUME NEW j \in 1..Slots PROVE Calm(slot[j].chain, slot'[j].chain)
      <4>1. slot'[j].chain = <<>> BY <3>1, BlankShape
      <4> QED BY <4>1 DEF Calm, Waiting, Executing
    <3> QED BY <3>1, <3>2, BlankShape DEF SlotsTyped, SlotsCalm
  <2> QED BY <2>1, <2>2 DEF Pause, Resume, Cancel, Start
<1>4. row' \in RowShape
  BY <1>1, Literals DEF Shapes, RowShape, Pause, Resume, Cancel, Crash, Start
<1>5. reload' \in [pc : {"idle", "listed", "gone"}, row : RowShape] /\ live' \in 0..Slots
  <2>1. Idle \in [pc : {"idle", "listed", "gone"}, row : RowShape]
    BY Literals DEF Idle, NewRow, RowShape
  <2> QED BY <1>1, <2>1, ConstantTypes DEF Shapes, Pause, Resume, Cancel, Crash, Start
<1>6. Beside
  BY <1>1, <1>4, <1>5 DEF Beside, Shapes, Pause, Resume, Cancel, Crash, Start
<1> QED BY <1>2, <1>3, <1>6, CalmStep

-----------------------------------------------------------------------------
(* The write chain.                                                         *)

\* The first job of a chain, and what the chain makes of a job.
LEMMA JobSteps ==
  ASSUME NEW job \in JobShape, NEW w \in Int
  PROVE  /\ job.out \in Result /\ job.out.rt \in RtShape /\ job.at \in Int /\ job.win \in Int
         /\ job.out.rt.count \in Int
         /\ \A p \in JobPc : /\ [job EXCEPT !.pc = p] \in JobShape
                             /\ [job EXCEPT !.pc = p].pc = p
                             /\ [job EXCEPT !.pc = p].out = job.out
         /\ [job EXCEPT !.pc = "claim", !.win = w] \in JobShape
         /\ [job EXCEPT !.pc = "claim", !.win = w].pc = "claim"
         /\ [job EXCEPT !.pc = "write", !.refund = TRUE] \in JobShape
         /\ [job EXCEPT !.pc = "write", !.refund = TRUE].pc = "write"
         /\ Refunded(job) \in RtShape
<1>1. job.out \in Result /\ job.out.rt \in RtShape /\ job.at \in Int /\ job.win \in Int
  BY DEF JobShape, Result
<1>2. job.out.rt.count \in Int
  BY <1>1 DEF RtShape
<1>3. \A p \in JobPc : /\ [job EXCEPT !.pc = p] \in JobShape
                       /\ [job EXCEPT !.pc = p].pc = p /\ [job EXCEPT !.pc = p].out = job.out
  BY DEF JobShape
<1>4. /\ [job EXCEPT !.pc = "claim", !.win = w] \in JobShape
      /\ [job EXCEPT !.pc = "claim", !.win = w].pc = "claim"
  BY DEF JobShape, JobPc
<1>5. /\ [job EXCEPT !.pc = "write", !.refund = TRUE] \in JobShape
      /\ [job EXCEPT !.pc = "write", !.refund = TRUE].pc = "write"
  BY DEF JobShape, JobPc
<1>6. Refunded(job) \in RtShape
  <2> DEFINE r == job.out.rt
             t == job.at + 1
  <2>1. r \in RtShape /\ t \in Int
    BY <1>1
  <2>2. Refunded(job) = [r EXCEPT !.status = "ACTIVE_WAITING", !.since = None,
                                  !.count = @ - 1, !.cool = t]
    BY Zenon DEF Refunded, SkipRearm
  <2> DEFINE n == r.count - 1
  <2>3. n \in Int /\ [r EXCEPT !.status = "ACTIVE_WAITING", !.since = None,
                              !.count = n, !.cool = t] = Refunded(job)
    <3> HIDE DEF r, t
    <3> QED BY <2>1, <2>2 DEF RtShape
  <2> HIDE DEF r, t, n
  <2>4. [r EXCEPT !.status = "ACTIVE_WAITING", !.since = None, !.count = n, !.cool = t] \in RtShape
    BY <2>1, <2>3, Literals DEF RtShape
  <2> QED BY <2>3, <2>4
<1> QED BY <1>1, <1>2, <1>3, <1>4, <1>5, <1>6

LEMMA HeadShape ==
  ASSUME Shapes, Tidy, NEW i \in 1..Slots, slot[i].chain # <<>>
  PROVE  Head1(i) \in JobShape
BY ChainSteps DEF Shapes, SlotShape, Head1, Tidy

\* The slots after a step of a chain that is no start of an attempt.
LEMMA StepShape ==
  ASSUME Shapes, Tidy, NEW i \in 1..Slots, slot[i].chain # <<>>,
         \/ Drop(i) \/ Throw(i)
         \/ slot' = Done(i) /\ live' = live
         \/ \E job \in JobShape : job.pc # "execute" /\ slot' = Advance(i, job) /\ live' = live
  PROVE  /\ SlotsTyped(slot') /\ SlotsCalm(slot') /\ live' \in 0..Slots
         /\ ~Executing(slot'[i].chain)
<1>1. CASE Drop(i)
  BY <1>1, DropShape
<1>2. CASE Throw(i)
  BY <1>2, ThrowShape
<1>3. CASE slot' = Done(i) /\ live' = live
  BY <1>3, DoneShape DEF Shapes
<1>4. ASSUME NEW job \in JobShape, job.pc # "execute", slot' = Advance(i, job), live' = live
      PROVE  /\ SlotsTyped(slot') /\ SlotsCalm(slot') /\ live' \in 0..Slots
             /\ ~Executing(slot'[i].chain)
  BY <1>4, AdvanceShape DEF Shapes
<1> QED BY <1>1, <1>2, <1>3, <1>4

\* Writing the rule or the window of a slot leaves the chains alone.
LEMMA PatchShape ==
  ASSUME NEW s, SlotsTyped(s), SlotsCalm(s), NEW i \in 1..Slots, NEW r \in RtShape, NEW w \in Int
  PROVE  /\ SlotsTyped([s EXCEPT ![i].rt = r]) /\ SlotsCalm([s EXCEPT ![i].rt = r])
         /\ SlotsTyped([s EXCEPT ![i].lastWin = w]) /\ SlotsCalm([s EXCEPT ![i].lastWin = w])
<1>1. s[i] \in SlotShape
  BY DEF SlotsTyped
<1>2. /\ [s[i] EXCEPT !.rt = r] \in SlotShape /\ [s[i] EXCEPT !.rt = r].chain = s[i].chain
      /\ [s[i] EXCEPT !.lastWin = w] \in SlotShape
      /\ [s[i] EXCEPT !.lastWin = w].chain = s[i].chain
  BY <1>1 DEF SlotShape
<1>3. ASSUME NEW q \in SlotShape, q.chain = s[i].chain
      PROVE  SlotsTyped([s EXCEPT ![i] = q]) /\ SlotsCalm([s EXCEPT ![i] = q])
  <2>1. SlotsTyped([s EXCEPT ![i] = q])
    BY <1>3 DEF SlotsTyped
  <2>2. ASSUME NEW j \in 1..Slots PROVE [s EXCEPT ![i] = q][j].chain = s[j].chain
    BY <1>3 DEF SlotsTyped
  <2> QED BY <2>1, <2>2 DEF SlotsCalm
<1>4. /\ [s EXCEPT ![i].rt = r] = [s EXCEPT ![i] = [s[i] EXCEPT !.rt = r]]
      /\ [s EXCEPT ![i].lastWin = w] = [s EXCEPT ![i] = [s[i] EXCEPT !.lastWin = w]]
  OBVIOUS
<1> QED BY <1>2, <1>3, <1>4

\* The window of the series: resolved, claimed, skipped.
LEMMA WindowKeeps ==
  ASSUME AttemptInv, NEW i \in 1..Slots, Resolve(i) \/ Claim(i) \/ Skip(i)
  PROVE  AttemptInv'
<1> DEFINE job == Head1(i)
           c == slot[i].chain
<1>1. Shapes /\ Tidy /\ c # <<>>
  BY DEF AttemptInv, Resolve, Claim, Skip, Ready
<1>2. job \in JobShape
  BY <1>1, HeadShape
<1>3. slot \in [1..Slots -> SlotShape] /\ slot[i] \in SlotShape /\ c \in Seq(JobShape)
  BY <1>1 DEF Shapes, SlotShape
<1>4. [job EXCEPT !.pc = "skip"] \in JobShape /\ [job EXCEPT !.pc = "skip"].pc = "skip"
  BY <1>2, Literals, JobSteps DEF JobPc
<1>5. LedgerGrows
  BY <1>1, SameLedger DEF Resolve, Claim, Skip
<1>6. row' \in RowShape
  <2>1. Claimed(job.win) \in RowShape /\ row \in RowShape
    <3>1. job.win \in Int BY <1>2, Literals, JobSteps
    <3> HIDE DEF job
    <3> QED BY <1>1, <3>1 DEF Shapes, Claimed, RowShape
  <2> QED BY <2>1 DEF Resolve, Claim, Skip
<1>7. SlotsTyped(slot') /\ SlotsCalm(slot') /\ live' \in 0..Slots
  <2>1. CASE Throw(i)
    BY <1>1, <2>1, StepShape
  <2>2. CASE slot' = Advance(i, [job EXCEPT !.pc = "skip"]) /\ live' = live
    BY <1>1, <1>4, <2>2, StepShape
  <2>3. CASE Resolve(i) /\ slot' # Advance(i, [job EXCEPT !.pc = "skip"])
    <3> DEFINE w == now \div WindowLen
    <3>1. w \in Int
      BY <1>1, ConstantTypes DEF Shapes
    <3>2. slot' = Advance(i, [job EXCEPT !.pc = "claim", !.win = w]) /\ live' = live
      BY <2>3 DEF Resolve, Quietly
    <3>3. /\ [job EXCEPT !.pc = "claim", !.win = w] \in JobShape
          /\ [job EXCEPT !.pc = "claim", !.win = w].pc # "execute"
      <4> HIDE DEF w, job
      <4>1. [job EXCEPT !.pc = "claim", !.win = w].pc = "claim"
        BY <1>2, <3>1, JobSteps
      <4> QED BY <1>2, <3>1, <4>1, JobSteps
    <3> QED BY <1>1, <3>2, <3>3, StepShape
  <2>4. CASE slot' = [Advance(i, [job EXCEPT !.pc = "write"]) EXCEPT ![i].lastWin = job.win]
             /\ live' = live
    <3> DEFINE j2 == [job EXCEPT !.pc = "write"]
               s == Advance(i, j2)
    <3>1. j2 \in JobShape /\ j2.pc # "execute" /\ job.win \in Int
      BY <1>2, Literals, JobSteps DEF JobPc
    <3>2. SlotsTyped(s) /\ SlotsCalm(s)
      <4> HIDE DEF j2
      <4> QED BY <1>1, <3>1, AdvanceShape
    <3>3. slot[i].rt \in RtShape
      BY <1>3 DEF SlotShape
    <3>4. slot' = [s EXCEPT ![i].lastWin = job.win]
      BY <2>4
    <3> HIDE DEF s, job
    <3>5. /\ SlotsTyped([s EXCEPT ![i].lastWin = job.win])
          /\ SlotsCalm([s EXCEPT ![i].lastWin = job.win])
      BY <3>1, <3>2, <3>3, PatchShape
    <3>6. live' \in 0..Slots
      BY <1>1, <2>4 DEF Shapes
    <3> QED BY <3>4, <3>5, <3>6
  <2>5. CASE slot' = [Advance(i, [job EXCEPT !.pc = "write", !.refund = TRUE])
                        EXCEPT ![i].rt = Refunded(job)]
             /\ live' = live
    <3> DEFINE j2 == [job EXCEPT !.pc = "write", !.refund = TRUE]
               s == Advance(i, j2)
               r == Refunded(job)
    <3>1. j2 \in JobShape /\ j2.pc # "execute" /\ r \in RtShape
      <4>1. j2.pc = "write" BY <1>2, Literals, JobSteps
      <4> HIDE DEF job
      <4> QED BY <1>2, <4>1, Literals, JobSteps
    <3>2. SlotsTyped(s) /\ SlotsCalm(s)
      <4> HIDE DEF j2
      <4> QED BY <1>1, <3>1, AdvanceShape
    <3>4. slot' = [s EXCEPT ![i].rt = r]
      BY <2>5
    <3> HIDE DEF s, r
    <3>5. SlotsTyped([s EXCEPT ![i].rt = r]) /\ SlotsCalm([s EXCEPT ![i].rt = r])
      BY <3>1, <3>2, Literals, PatchShape
    <3>6. live' \in 0..Slots
      BY <1>1, <2>5 DEF Shapes
    <3> QED BY <3>4, <3>5, <3>6
  <2> QED BY <2>1, <2>2, <2>3, <2>4, <2>5 DEF Resolve, Claim, Skip, Quietly
<1>8. Beside
  BY <1>1, <1>6, <1>7 DEF Beside, Shapes, Resolve, Claim, Skip
<1> QED BY <1>5, <1>7, <1>8, CalmStep

\* The state without a trigger, and the end of a job.
LEMMA SaveKeeps ==
  ASSUME AttemptInv, NEW i \in 1..Slots, SaveState(i) \/ Finish(i)
  PROVE  AttemptInv'
<1> DEFINE job == Head1(i)
<1>1. Shapes /\ Tidy /\ slot[i].chain # <<>>
  BY DEF AttemptInv, SaveState, Finish, Ready
<1>2. job \in JobShape
  BY <1>1, HeadShape
<1>3. LedgerGrows
  BY <1>1, SameLedger DEF SaveState, Finish
<1>4. row' \in RowShape
  <2> DEFINE rt == IF job.refund THEN Refunded(job) ELSE job.out.rt
  <2>1. rt \in RtShape /\ job.at \in Int
    <3> HIDE DEF job
    <3> QED BY <1>2, Literals, JobSteps
  <2>2. Saved(rt, job.at) \in RowShape /\ row \in RowShape
    <3> HIDE DEF rt, job
    <3> QED BY <1>1, <2>1, RowWrites DEF Shapes
  <2>3. \/ row' = row \/ row' = Saved(rt, job.at)
    BY DEF SaveState, Finish
  <2> QED BY <2>2, <2>3
<1>5. SlotsTyped(slot') /\ SlotsCalm(slot') /\ live' \in 0..Slots
  <2>1. [job EXCEPT !.pc = "audit"] \in JobShape /\ [job EXCEPT !.pc = "audit"].pc # "execute"
    BY <1>2, Literals, JobSteps DEF JobPc
  <2>2. \/ Drop(i) \/ Throw(i)
        \/ slot' = Done(i) /\ live' = live
        \/ slot' = Advance(i, [job EXCEPT !.pc = "audit"]) /\ live' = live
    BY DEF SaveState, Finish
  <2> QED BY <1>1, <2>1, <2>2, StepShape
<1>6. Beside
  BY <1>1, <1>4, <1>5 DEF Beside, Shapes, SaveState, Finish
<1> QED BY <1>3, <1>5, <1>6, CalmStep

\* The start of an attempt at a trigger that is new in the ledger.
LEMMA AttemptStarts ==
  ASSUME AttemptInv, Beside, LedgerGrows, NEW i \in 1..Slots, slot[i].chain # <<>>,
         NEW job \in JobShape, job.pc = "execute", slot' = Advance(i, job),
         job.out.rt.count \notin DOMAIN ledger, job.out.rt.count \in DOMAIN ledger'
  PROVE  AttemptInv'
<1> DEFINE n == job.out.rt.count
<1>1. Shapes /\ Tidy
  BY DEF AttemptInv
<1>2. /\ SlotsTyped(slot') /\ slot'[i].chain = [slot[i].chain EXCEPT ![1] = job]
      /\ \A j \in 1..Slots : j # i => slot'[j] = slot[j]
  BY <1>1, AdvanceShape
<1>3. slot'[i].chain # <<>> /\ slot'[i].chain[1] = job /\ Waiting(slot'[i].chain)
  BY <1>1, <1>2, ChainSteps DEF Shapes, SlotShape, Tidy
<1>4. Number(slot'[i].chain) = n /\ ledger'[n].tries = 0
  BY <1>3 DEF Number, LedgerGrows
<1>5. Shapes'
  BY <1>2 DEF Beside, SlotsTyped, LedgerGrows, Shapes
<1>6. \A j \in 1..Slots : Waiting(slot'[j].chain)
  BY <1>1, <1>2, <1>3 DEF Tidy
<1>7. \A j \in 1..Slots : j # i /\ Executing(slot'[j].chain) =>
        /\ Executing(slot[j].chain) /\ Number(slot'[j].chain) = Number(slot[j].chain)
        /\ Number(slot[j].chain) \in DOMAIN ledger /\ ledger[Number(slot[j].chain)].tries = 0
  BY <1>2 DEF AttemptInv, Attempting
<1>8. \A j \in 1..Slots : Executing(slot'[j].chain) =>
        Number(slot'[j].chain) \in DOMAIN ledger' /\ ledger'[Number(slot'[j].chain)].tries = 0
  <2> HIDE DEF n
  <2> QED BY <1>4, <1>7 DEF LedgerGrows, n
<1>9. \A j, k \in 1..Slots :
        j # k /\ Executing(slot'[j].chain) /\ Executing(slot'[k].chain)
          => Number(slot'[j].chain) # Number(slot'[k].chain)
  BY <1>4, <1>7 DEF AttemptInv, Attempting
<1>10. AttemptedOnce'
  BY DEF AttemptInv, AttemptedOnce, LedgerGrows
<1> QED BY <1>5, <1>6, <1>8, <1>9, <1>10
        DEF AttemptInv, Tidy, Attempting, Waiting, Executing, Number

\* The commit: a new trigger is attempted once it is there, an old one is not.
LEMMA CommitKeeps == ASSUME AttemptInv, NEW i \in 1..Slots, Commit(i) PROVE AttemptInv'
<1> DEFINE job == Head1(i)
           n == job.out.rt.count
           entered == [k \in DOMAIN ledger \cup {n} |->
                         IF k \in DOMAIN ledger THEN ledger[k] ELSE [win |-> job.win, tries |-> 0]]
           after(p) == [job EXCEPT !.pc = p]
<1>1. Shapes /\ Tidy /\ slot[i].chain # <<>>
  BY DEF AttemptInv, Commit, Ready
<1>2. job \in JobShape /\ job.out.rt \in RtShape /\ job.at \in Int /\ job.win \in Int
  <2>1. job \in JobShape
    BY <1>1, HeadShape
  <2> HIDE DEF job
  <2> QED BY <2>1, Literals, JobSteps
<1>3. after("audit") \in JobShape /\ after("audit").pc = "audit"
      /\ after("execute") \in JobShape /\ after("execute").pc = "execute"
      /\ after("execute").out = job.out
  <2> HIDE DEF job
  <2> QED BY <1>2, Literals, JobSteps DEF JobPc
<1>4. ASSUME ledger' = entered PROVE LedgerGrows
  <2> HIDE DEF job, n
  <2>1. [win |-> job.win, tries |-> 0] \in EntryShape /\ ledger \in [DOMAIN ledger -> EntryShape]
    BY <1>1, <1>2 DEF EntryShape, Shapes
  <2>2. DOMAIN ledger' = DOMAIN ledger \cup {n}
    BY <1>4
  <2>3. \A k \in DOMAIN ledger' : ledger'[k] = IF k \in DOMAIN ledger THEN ledger[k]
                                               ELSE [win |-> job.win, tries |-> 0]
    BY <1>4
  <2>4. ledger' \in [DOMAIN ledger' -> EntryShape]
    BY <1>4, <2>1, <2>2, <2>3
  <2> QED BY <2>2, <2>3, <2>4 DEF LedgerGrows
<1>5. ledger' = ledger \/ ledger' = entered
  BY DEF Commit
<1>6. LedgerGrows
  BY <1>1, <1>4, <1>5, SameLedger
<1>7. row' \in RowShape
  <2>1. row \in RowShape /\ Saved(job.out.rt, job.at) \in RowShape
    <3> HIDE DEF job
    <3> QED BY <1>1, <1>2, RowWrites DEF Shapes
  <2> QED BY <2>1 DEF Commit, Committed
<1>8. CASE Drop(i) \/ Throw(i) \/ (slot' = Advance(i, after("audit")) /\ live' = live)
  <2>1. SlotsTyped(slot') /\ SlotsCalm(slot') /\ live' \in 0..Slots
    BY <1>1, <1>3, <1>8, StepShape
  <2>2. Beside
    BY <1>1, <1>7, <2>1 DEF Beside, Shapes, Commit
  <2> QED BY <1>6, <2>1, <2>2, CalmStep
<1>9. CASE /\ slot' = Advance(i, after("execute")) /\ live' = live
           /\ Executes(n) /\ ledger' = entered
  <2>1. Beside
    BY <1>1, <1>7, <1>9 DEF Beside, Shapes, Commit
  <2>2. n \notin DOMAIN ledger /\ n \in DOMAIN ledger' /\ after("execute").out.rt.count = n
    BY <1>3, <1>9 DEF Executes
  <2> DEFINE j2 == after("execute")
  <2>3. j2 \in JobShape /\ j2.pc = "execute" /\ slot' = Advance(i, j2)
    BY <1>3, <1>9
  <2> HIDE DEF j2, n, entered
  <2> QED BY <1>1, <1>6, <2>1, <2>2, <2>3, AttemptStarts DEF j2
<1> QED BY <1>8, <1>9 DEF Commit, Quietly

\* The attempt itself.
LEMMA ExecuteKeeps == ASSUME AttemptInv, NEW i \in 1..Slots, Execute(i) PROVE AttemptInv'
<1> DEFINE job == Head1(i)
           n == Number(slot[i].chain)
<1>1. Shapes /\ Tidy /\ slot[i].chain # <<>> /\ Executing(slot[i].chain)
  BY DEF AttemptInv, Execute, Ready, Executing, Head1
<1>2. n \in DOMAIN ledger /\ ledger[n].tries = 0 /\ ledger[n] \in EntryShape
  BY <1>1 DEF AttemptInv, Attempting, Shapes
<1>3. ledger' = [ledger EXCEPT ![n] = [ledger[n] EXCEPT !.tries = 1]]
  <2>1. ledger' = [ledger EXCEPT ![n].tries = @ + 1]
    BY DEF Execute, Number, Head1
  <2> HIDE DEF n
  <2> QED BY <1>2, <2>1
<1>4. [ledger[n] EXCEPT !.tries = 1] \in EntryShape /\ [ledger[n] EXCEPT !.tries = 1].tries = 1
  <2> HIDE DEF n
  <2> QED BY <1>2 DEF EntryShape
<1>5. /\ DOMAIN ledger' = DOMAIN ledger /\ ledger' \in [DOMAIN ledger' -> EntryShape]
      /\ ledger'[n].tries = 1
      /\ \A k \in DOMAIN ledger : k # n => ledger'[k] = ledger[k]
  <2> HIDE DEF n
  <2> QED BY <1>1, <1>2, <1>3, <1>4 DEF Shapes
<1>6. SlotsTyped(slot') /\ SlotsCalm(slot') /\ live' \in 0..Slots /\ ~Executing(slot'[i].chain)
  <2>1. [job EXCEPT !.pc = "audit"] \in JobShape /\ [job EXCEPT !.pc = "audit"].pc # "execute"
    <3>1. job \in JobShape
      BY <1>1, HeadShape
    <3> QED BY <3>1, Literals, JobSteps DEF JobPc
  <2>2. Throw(i) \/ (slot' = Advance(i, [job EXCEPT !.pc = "audit"]) /\ live' = live)
    BY DEF Execute, Quietly
  <2> QED BY <1>1, <2>1, <2>2, StepShape
<1>7. Shapes'
  BY <1>1, <1>5, <1>6 DEF SlotsTyped, Shapes, Execute
<1>8. \A j \in 1..Slots : Waiting(slot'[j].chain)
  BY <1>6 DEF SlotsCalm, Calm
<1>9. \A j \in 1..Slots : Executing(slot'[j].chain) =>
        /\ j # i /\ Executing(slot[j].chain) /\ Number(slot'[j].chain) = Number(slot[j].chain)
        /\ Number(slot[j].chain) # n
        /\ Number(slot[j].chain) \in DOMAIN ledger /\ ledger[Number(slot[j].chain)].tries = 0
  BY <1>1, <1>6 DEF SlotsCalm, Calm, AttemptInv, Attempting
<1>10. \A j \in 1..Slots : Executing(slot'[j].chain) =>
         Number(slot'[j].chain) \in DOMAIN ledger' /\ ledger'[Number(slot'[j].chain)].tries = 0
  <2> HIDE DEF n
  <2> QED BY <1>5, <1>9
<1>11. \A j, k \in 1..Slots :
         j # k /\ Executing(slot'[j].chain) /\ Executing(slot'[k].chain)
           => Number(slot'[j].chain) # Number(slot'[k].chain)
  BY <1>9 DEF AttemptInv, Attempting
<1>12. AttemptedOnce'
  <2> HIDE DEF n
  <2> QED BY <1>5 DEF AttemptInv, AttemptedOnce
<1> QED BY <1>7, <1>8, <1>10, <1>11, <1>12
        DEF AttemptInv, Tidy, Attempting, Waiting, Executing, Number

-----------------------------------------------------------------------------
(* The specification.                                                       *)

LEMMA AttemptInit == Init => AttemptInv
<1> SUFFICES ASSUME Init PROVE AttemptInv
  OBVIOUS
<1>1. NewRow \in RowShape /\ Idle \in [pc : {"idle", "listed", "gone"}, row : RowShape]
  BY Literals DEF NewRow, Idle, RowShape
<1>2. slot \in [1..Slots -> SlotShape] /\ \A i \in 1..Slots : slot[i].chain = <<>>
  BY BlankShape DEF Init
<1>3. DOMAIN ledger = {} /\ ledger \in [DOMAIN ledger -> EntryShape]
  BY DEF Init
<1>4. now \in Int /\ live \in 0..Slots
  BY ConstantTypes DEF Init
<1>5. Shapes
  BY <1>1, <1>2, <1>3, <1>4 DEF Init, Shapes
<1>6. Tidy /\ Attempting
  BY <1>2 DEF Tidy, Attempting, Waiting, Executing
<1> QED BY <1>3, <1>5, <1>6 DEF AttemptInv, AttemptedOnce

LEMMA AttemptStep == AttemptInv /\ [Next]_vars => AttemptInv'
<1> SUFFICES ASSUME AttemptInv, [Next]_vars PROVE AttemptInv'
  OBVIOUS
<1>1. CASE ReloadRead \/ ReloadApply
  BY <1>1, ReloadKeeps
<1>2. CASE Tick \/ Event
  BY <1>2, EventKeeps
<1>3. CASE Pause \/ Resume \/ Cancel \/ Crash \/ Start
  BY <1>3, ControlKeeps
<1>4. ASSUME NEW i \in 1..Slots, Work(i) PROVE AttemptInv'
  BY <1>4, WindowKeeps, SaveKeeps, CommitKeeps, ExecuteKeeps DEF Work
<1>5. CASE UNCHANGED vars
  <2>1. Shapes /\ Tidy
    BY DEF AttemptInv
  <2>2. Beside /\ LedgerGrows
    BY <1>5, <2>1, SameLedger DEF vars, Beside, Shapes
  <2>3. SlotsTyped(slot') /\ SlotsCalm(slot')
    BY <1>5, <2>1, SameCalm DEF vars
  <2> QED BY <2>2, <2>3, CalmStep
<1> QED BY <1>1, <1>2, <1>3, <1>4, <1>5 DEF Next

\* The automatic attempt at a trigger starts at most once, whatever throws, crashes
\* or is dropped (commitTriggerAtomically's duplicate check before executeTrigger).
THEOREM AttemptsOnce == Spec => []AttemptedOnce
<1>1. AttemptInv => AttemptedOnce
  BY DEF AttemptInv
<1> QED BY <1>1, AttemptInit, AttemptStep, PTL DEF Spec

-----------------------------------------------------------------------------
(* The row and its triggers.                                                *)

\* A job of a strategy that is not rolling.
Sound(job) ==
  /\ job.pc \in {"start", "execute", "audit"} /\ ~job.refund /\ job.out.rt.count \in Nat
  /\ job.out.fired => job.out.rt.count >= 1

\* The first job of a chain, over a row that counts n: a trigger yet to be committed,
\* or committed already with its acknowledgement lost, or anything written.
Leads(job, n) ==
  IF job.pc = "start" /\ job.out.fired THEN job.out.rt.count \in {n, n + 1}
                                       ELSE job.out.rt.count = n

\* A later job, after one that counts n.
Follows(job, n) == job.out.rt.count = IF job.out.fired THEN n + 1 ELSE n

\* From the row, job by job, to the rule in memory.
Linked(s, n) ==
  /\ \A k \in 1..Len(s.chain) : Sound(s.chain[k])
  /\ s.chain # <<>> => Leads(s.chain[1], n)
  /\ \A k \in 2..Len(s.chain) : Follows(s.chain[k], s.chain[k - 1].out.rt.count)
  /\ s.rt.count = IF s.chain = <<>> THEN n ELSE s.chain[Len(s.chain)].out.rt.count

\* Nothing is written but by the registered rule.
OneWriter == \A i \in 1..Slots : i # live => slot[i].chain = <<>>

CountInv ==
  ~action.rolling /\ ~apart =>
    /\ row.count \in Nat /\ DOMAIN ledger = 1..row.count
    /\ OneWriter
    /\ live # 0 => Linked(slot[live], row.count)

\* An event counts a trigger exactly if it fires one.
LEMMA Counts ==
  ASSUME NEW r \in RtShape, NEW e
  PROVE  Transition(r, e).rt.count = IF Transition(r, e).fired THEN r.count + 1 ELSE r.count
<1> DEFINE Good(b, res) == res.rt.count = IF res.fired THEN b.count + 1 ELSE b.count
<1>1. ASSUME NEW q \in RtShape, NEW t, NEW wm, NEW st
      PROVE  /\ Good(q, Reset(q, t, wm)) /\ Good(q, Ended(q, st, t)) /\ Good(q, ObserveStale(q, t, wm))
             /\ Good(q, Keep(q))
             /\ Good(q, To(q, [q EXCEPT !.last = t], FALSE))
             /\ Good(q, To(q, [q EXCEPT !.since = None, !.stale = None, !.last = t], FALSE))
             /\ Good(q, To(q, [q EXCEPT !.since = None, !.stale = None, !.last = t, !.wm = wm], FALSE))
  BY DEF Reset, Ended, ObserveStale, Keep, To, Flag, RtShape
<1>2. ASSUME NEW q \in RtShape, NEW p \in RtShape, NEW t, NEW wm
      PROVE  Good(q, Hit(p, q, t, wm))
  BY DEF Hit, Fire, Rearm, To, Flag, RtShape
<1>3. ASSUME NEW v, NEW t PROVE Good(r, Observe(r, v, t))
  <2> DEFINE c == [r EXCEPT !.cool = None]
             w == Watermark(r.wm, v)
  <2>1. c \in RtShape /\ c.count = r.count
    BY Literals DEF RtShape
  <2>2. Good(r, Hit(r, c, t, w))
    <3> HIDE DEF c, w
    <3> QED BY <2>1, <1>2
  <2>3. Good(r, Miss(r, c, v, t, w))
    <3> HIDE DEF c, w
    <3>1. To(r, [c EXCEPT !.since = None, !.stale = None, !.last = t, !.wm = w], FALSE).rt.count = c.count
          /\ ~To(r, [c EXCEPT !.since = None, !.stale = None, !.last = t, !.wm = w], FALSE).fired
      BY <2>1 DEF To, RtShape
    <3>2. Good(c, ObserveStale(c, t, w)) /\ Good(c, Reset(c, t, w))
      <4> HIDE DEF Good
      <4> QED BY <2>1, <1>1
    <3> QED BY <2>1, <3>1, <3>2 DEF Miss
  <2>4. /\ Good(r, Ended(r, "EXPIRED", t)) /\ Good(r, Ended(r, "INVALIDATED", t))
        /\ Good(r, Reset(r, t, r.wm))
        /\ Good(r, To(r, [r EXCEPT !.last = t], FALSE))
        /\ Good(r, To(r, [r EXCEPT !.since = None, !.stale = None, !.last = t], FALSE))
    <3> HIDE DEF Good
    <3> QED BY <1>1
  <2> HIDE DEF Good
  <2> QED BY <2>2, <2>3, <2>4 DEF Observe
<1>4. ASSUME NEW t PROVE Good(r, Paused(r, t)) /\ Good(r, Resumed(r, t))
  BY <1>1 DEF Paused, Resumed, To, Keep, RtShape
<1>5. Good(r, Blind(r, e.now)) /\ Good(r, Interrupted(r, e))
  <2> HIDE DEF Good
  <2> QED BY <1>1 DEF Blind, Interrupted
<1>6. Good(r, Transition(r, e))
  <2>1. \A st : Good(r, Ended(r, st, e.now))
    BY <1>1
  <2>2. Good(r, Keep(r))
    BY <1>1
  <2> HIDE DEF Good
  <2> QED BY <2>1, <2>2, <1>3, <1>4, <1>5 DEF Transition
<1> QED BY <1>6

\* A rule that was just added agrees with its row.
LEMMA LinkedEmpty ==
  ASSUME NEW s \in SlotShape, s.chain = <<>>, NEW n, s.rt.count = n
  PROVE  Linked(s, n)
BY DEF Linked

LEMMA EmptyChain == ASSUME NEW c \in Seq(JobShape) PROVE c = <<>> <=> Len(c) = 0
OBVIOUS

\* A write queued behind the others.
LEMMA LinkedAppend ==
  ASSUME NEW s \in SlotShape, NEW z \in SlotShape, NEW n \in Nat, Linked(s, n),
         NEW job \in JobShape, z.chain = Append(s.chain, job), z.rt.count = job.out.rt.count,
         job.pc = "start", ~job.refund, Follows(job, s.rt.count)
  PROVE  Linked(z, n)
<1> DEFINE c == s.chain
           d == z.chain
           len == Len(c)
<1>1. c \in Seq(JobShape) /\ d \in Seq(JobShape) /\ len \in Nat
  BY DEF SlotShape
<1>2. Len(d) = len + 1 /\ d # <<>> /\ d[len + 1] = job /\ \A k \in 1..len : d[k] = c[k]
  <2>1. Len(d) = len + 1 /\ d[len + 1] = job /\ \A k \in 1..len : d[k] = c[k]
    BY <1>1
  <2>2. d = <<>> <=> Len(d) = 0
    BY <1>1, EmptyChain
  <2> QED BY <1>1, <2>1, <2>2
<1>3. c = <<>> <=> len = 0
  BY <1>1, EmptyChain
<1>4. s.rt.count \in Nat
  <2>1. CASE c = <<>>
    BY <2>1 DEF Linked
  <2>2. CASE c # <<>>
    <3>1. len \in 1..len
      BY <1>1, <1>3, <2>2
    <3> QED BY <2>2, <3>1 DEF Linked, Sound
  <2> QED BY <2>1, <2>2
<1>5. Sound(job)
  BY <1>4 DEF Sound, Follows
<1>6. \A k \in 1..Len(d) : Sound(d[k])
  <2> SUFFICES ASSUME NEW k \in 1..Len(d) PROVE Sound(d[k])
    OBVIOUS
  <2>1. CASE k = len + 1
    BY <2>1, <1>2, <1>5
  <2>2. CASE k # len + 1
    <3>1. k \in 1..len
      BY <1>1, <1>2, <2>2
    <3> QED BY <3>1, <1>2 DEF Linked
  <2> QED BY <2>1, <2>2
<1>7. Leads(d[1], n)
  <2>1. CASE len = 0
    <3>1. s.rt.count = n /\ d[1] = job
      BY <2>1, <1>2, <1>3 DEF Linked
    <3> QED BY <3>1 DEF Leads, Follows
  <2>2. CASE len # 0
    <3>1. 1 \in 1..len
      BY <1>1, <2>2
    <3>2. d[1] = c[1] /\ c # <<>>
      BY <1>2, <1>3, <2>2, <3>1
    <3> QED BY <3>2 DEF Linked
  <2> QED BY <2>1, <2>2
<1>8. ASSUME NEW k \in 2..Len(d) PROVE Follows(d[k], d[k - 1].out.rt.count)
  <2>1. CASE k = len + 1
    <3>1. len \in 1..len /\ k - 1 = len /\ c # <<>>
      BY <1>1, <1>2, <1>3, <2>1
    <3>2. d[k - 1] = c[len] /\ s.rt.count = c[len].out.rt.count /\ d[k] = job
      BY <1>2, <2>1, <3>1 DEF Linked
    <3> QED BY <3>2
  <2>2. CASE k # len + 1
    <3>1. k \in 2..len /\ k \in 1..len /\ k - 1 \in 1..len
      BY <1>1, <1>2, <2>2
    <3> QED BY <3>1, <1>2 DEF Linked
  <2> QED BY <2>1, <2>2
<1>9. z.rt.count = d[Len(d)].out.rt.count
  BY <1>2
<1> HIDE DEF d
<1> QED BY <1>2, <1>6, <1>7, <1>8, <1>9 DEF Linked, d

\* The first job goes on.
LEMMA LinkedAdvance ==
  ASSUME NEW s \in SlotShape, NEW z \in SlotShape, NEW n, NEW m, Linked(s, n), s.chain # <<>>,
         NEW job \in JobShape, z.chain = [s.chain EXCEPT ![1] = job], z.rt = s.rt,
         job.out = s.chain[1].out, ~job.refund, job.pc \in {"start", "execute", "audit"},
         Leads(job, m)
  PROVE  Linked(z, m)
<1> DEFINE c == s.chain
           d == z.chain
           len == Len(c)
<1>1. c \in Seq(JobShape) /\ len \in Nat /\ len # 0 /\ 1 \in 1..len
  BY DEF SlotShape
<1>2. Len(d) = len /\ d # <<>> /\ d[1] = job /\ \A k \in 2..len : d[k] = c[k]
  BY <1>1
<1>3. \A k \in 1..len : d[k].out = c[k].out
  <2> SUFFICES ASSUME NEW k \in 1..len PROVE d[k].out = c[k].out
    OBVIOUS
  <2>1. k = 1 \/ k \in 2..len
    BY <1>1
  <2> QED BY <2>1, <1>2
<1>4. ASSUME NEW k \in 1..Len(d) PROVE Sound(d[k])
  <2>1. Sound(c[k])
    BY <1>2 DEF Linked
  <2>2. CASE k = 1
    BY <1>2, <2>1, <2>2 DEF Sound
  <2>3. CASE k # 1
    <3>1. k \in 2..len
      BY <1>1, <1>2, <2>3
    <3> QED BY <3>1, <2>1, <1>2
  <2> QED BY <2>2, <2>3
<1>5. ASSUME NEW k \in 2..Len(d) PROVE Follows(d[k], d[k - 1].out.rt.count)
  <2>1. k \in 2..len /\ k \in 1..len /\ k - 1 \in 1..len
    BY <1>1, <1>2
  <2>2. Follows(c[k], c[k - 1].out.rt.count)
    BY <2>1 DEF Linked
  <2> QED BY <1>3, <2>1, <2>2 DEF Follows
<1>6. z.rt.count = d[Len(d)].out.rt.count
  <2>1. len \in 1..len
    BY <1>1
  <2>2. s.rt.count = c[len].out.rt.count
    BY DEF Linked
  <2> QED BY <1>2, <1>3, <2>1, <2>2
<1> HIDE DEF d
<1> QED BY <1>2, <1>4, <1>5, <1>6 DEF Linked, d

\* The first job, written, is taken off.
LEMMA LinkedTail ==
  ASSUME NEW s \in SlotShape, NEW z \in SlotShape, NEW n \in Nat, Linked(s, n), s.chain # <<>>,
         Waiting(s.chain), z.chain = Tail(s.chain), z.rt = s.rt, s.chain[1].out.rt.count = n
  PROVE  Linked(z, n)
<1> DEFINE c == s.chain
           d == z.chain
           len == Len(c)
<1>1. c \in Seq(JobShape) /\ len \in Nat /\ len # 0 /\ 1 \in 1..len
  BY DEF SlotShape
<1>2. d \in Seq(JobShape) /\ Len(d) = len - 1 /\ \A k \in 1..(len - 1) : d[k] = c[k + 1]
  BY <1>1
<1>3. d = <<>> <=> len = 1
  <2>1. d = <<>> <=> Len(d) = 0
    BY <1>2, EmptyChain
  <2> QED BY <1>1, <1>2, <2>1
<1>4. ASSUME NEW k \in 1..Len(d) PROVE Sound(d[k])
  <2>1. k + 1 \in 1..len /\ k \in 1..(len - 1)
    BY <1>1, <1>2
  <2> QED BY <2>1, <1>2 DEF Linked
<1>5. ASSUME d # <<>> PROVE Leads(d[1], n)
  <2>1. 1 \in 1..(len - 1) /\ 2 \in 2..len /\ 2 - 1 = 1
    BY <1>1, <1>3, <1>5
  <2>2. d[1] = c[2] /\ c[2].pc = "start"
    <3>1. d[1] = c[1 + 1]
      BY <1>2, <2>1
    <3> QED BY <2>1, <3>1 DEF Waiting
  <2>3. Follows(c[2], n)
    BY <2>1 DEF Linked
  <2> QED BY <2>2, <2>3 DEF Leads, Follows
<1>6. ASSUME NEW k \in 2..Len(d) PROVE Follows(d[k], d[k - 1].out.rt.count)
  <2>1. /\ k \in 1..(len - 1) /\ k - 1 \in 1..(len - 1) /\ k + 1 \in 2..len
        /\ (k + 1) - 1 = k /\ (k - 1) + 1 = k
    BY <1>1, <1>2
  <2>2. Follows(c[k + 1], c[k].out.rt.count)
    BY <2>1 DEF Linked
  <2> QED BY <1>2, <2>1, <2>2
<1>7. z.rt.count = IF d = <<>> THEN n ELSE d[Len(d)].out.rt.count
  <2>1. s.rt.count = c[len].out.rt.count
    BY DEF Linked
  <2>2. CASE d = <<>>
    BY <1>3, <2>1, <2>2
  <2>3. CASE d # <<>>
    <3>1. len - 1 \in 1..(len - 1) /\ (len - 1) + 1 = len
      BY <1>1, <1>2, <1>3, <2>3
    <3> QED BY <1>2, <2>1, <2>3, <3>1
  <2> QED BY <2>2, <2>3
<1> HIDE DEF d
<1> QED BY <1>4, <1>5, <1>6, <1>7 DEF Linked, d

\* Events queue what they count.
LEMMA CountApply ==
  ASSUME Shapes, Shapes', live # 0, live' = live, row' = row, NEW e, Apply(e),
         row.count \in Nat, Linked(slot[live], row.count)
  PROVE  /\ Linked(slot'[live], row.count)
         /\ \A j \in 1..Slots : j # live => slot'[j] = slot[j]
<1> DEFINE s == slot[live]
           z == slot'[live]
           res == Transition(s.rt, e)
           save == \/ res.fired \/ res.noted
                   \/ res.rt.count # s.rt.count \/ res.rt.cool # s.rt.cool
                   \/ res.rt.stale # s.rt.stale
           job == [out |-> res, at |-> e.now, pc |-> "start", win |-> None,
                   refund |-> FALSE, retry |-> FALSE]
<1>1. /\ live \in 1..Slots /\ slot \in [1..Slots -> SlotShape] /\ s \in SlotShape
      /\ z \in SlotShape
  BY ConstantTypes DEF Shapes
<1>2. res.rt.count = IF res.fired THEN s.rt.count + 1 ELSE s.rt.count
  BY <1>1, Counts DEF SlotShape
<1>3. slot' = [slot EXCEPT ![live].rt = res.rt,
                           ![live].chain = IF save THEN Append(@, job) ELSE @]
  BY DEF Apply
<1> HIDE DEF res, job
<1>4. /\ z.rt = res.rt /\ z.chain = IF save THEN Append(s.chain, job) ELSE s.chain
      /\ \A j \in 1..Slots : j # live => slot'[j] = slot[j]
  BY <1>1, <1>3 DEF SlotShape
<1>5. CASE save
  <2>1. job.pc = "start" /\ ~job.refund /\ job.out = res
    BY DEF job
  <2>2. job \in JobShape
    <3>1. z.chain \in Seq(JobShape) /\ z.chain = Append(s.chain, job) /\ s.chain \in Seq(JobShape)
      BY <1>1, <1>4, <1>5 DEF SlotShape
    <3>2. Len(s.chain) + 1 \in 1..Len(z.chain) /\ z.chain[Len(s.chain) + 1] = job
      BY <3>1
    <3> QED BY <3>1, <3>2
  <2>3. Follows(job, s.rt.count)
    BY <1>2, <2>1 DEF Follows
  <2>4. z.chain = Append(s.chain, job) /\ z.rt.count = job.out.rt.count
    BY <1>4, <1>5, <2>1
  <2> HIDE DEF s, z, save
  <2>5. Linked(z, row.count)
    BY <1>1, <2>1, <2>2, <2>3, <2>4, LinkedAppend DEF s
  <2> QED BY <1>4, <2>5 DEF z
<1>6. CASE ~save
  <2>1. z.chain = s.chain /\ z.rt.count = s.rt.count
    BY <1>4, <1>6
  <2>2. Linked(z, row.count)
    BY <2>1 DEF Linked
  <2> QED BY <1>4, <2>2
<1> QED BY <1>5, <1>6

\* Ticks and events.
LEMMA CountEvents ==
  ASSUME AttemptInv, AttemptInv', CountInv, Tick \/ Event
  PROVE  CountInv'
<1>1. /\ action' = action /\ row' = row /\ ledger' = ledger /\ live' = live /\ apart' = apart
  BY DEF Tick, Event
<1>2. SUFFICES ASSUME ~action.rolling, ~apart
               PROVE  /\ OneWriter' /\ (live # 0 => Linked(slot'[live], row.count))
  BY <1>1 DEF CountInv
<1>3. /\ row.count \in Nat /\ OneWriter /\ (live # 0 => Linked(slot[live], row.count))
      /\ Shapes /\ Shapes'
  BY <1>2 DEF CountInv, AttemptInv
<1>4. CASE slot' = slot
  BY <1>1, <1>3, <1>4 DEF OneWriter
<1>5. ASSUME live # 0, NEW e, Apply(e)
      PROVE  OneWriter' /\ (live # 0 => Linked(slot'[live], row.count))
  BY <1>1, <1>3, <1>5, CountApply DEF OneWriter
<1>6. slot' = slot \/ (live # 0 /\ \E e : Apply(e))
  <2>1. CASE Tick
    <3>1. CASE up /\ live # 0
      BY <2>1, <3>1 DEF Tick
    <3>2. CASE ~(up /\ live # 0)
      BY <2>1, <3>2 DEF Tick
    <3> QED BY <3>1, <3>2
  <2>2. CASE Event
    BY <2>2 DEF Event
  <2> QED BY <2>1, <2>2
<1> QED BY <1>4, <1>5, <1>6

\* The reload.
LEMMA CountReload ==
  ASSUME AttemptInv, AttemptInv', CountInv, ReloadRead \/ ReloadApply
  PROVE  CountInv'
<1>1. CASE ReloadRead
  BY <1>1 DEF ReloadRead, CountInv, OneWriter
<1>2. CASE ReloadApply
  <2>1. action' = action /\ row' = row /\ ledger' = ledger
    BY <1>2 DEF ReloadApply
  <2>2. SUFFICES ASSUME ~action.rolling, ~apart'
                 PROVE  OneWriter' /\ (live' # 0 => Linked(slot'[live'], row.count))
    <3>1. ~apart' => ~apart
      BY <1>2 DEF ReloadApply, NoteApart
    <3> QED BY <2>1, <3>1 DEF CountInv
  <2>3. ~apart /\ OneWriter' /\ (live = 0 /\ live' # 0 => reload.row.count = row.count)
    BY <1>2, <2>2 DEF ReloadApply, NoteApart, OneWriter
  <2>4. /\ row.count \in Nat /\ (live # 0 => Linked(slot[live], row.count))
        /\ slot \in [1..Slots -> SlotShape] /\ slot' \in [1..Slots -> SlotShape]
    BY <2>2, <2>3 DEF CountInv, AttemptInv, Shapes
  <2>5. CASE UNCHANGED <<live, slot>>
    BY <2>3, <2>4, <2>5
  <2>6. CASE live' = 0
    BY <2>3, <2>6
  <2>7. ASSUME live = 0, NEW i \in 1..Slots, live' = i,
               slot' = [slot EXCEPT ![i] = [rt |-> Restored(reload.row),
                                            lastWin |-> reload.row.lastWin, chain |-> <<>>]]
        PROVE  Linked(slot'[live'], row.count)
    <3>1. slot'[i] = [rt |-> Restored(reload.row), lastWin |-> reload.row.lastWin, chain |-> <<>>]
      BY <2>4, <2>7
    <3>2. live' # 0
      BY <2>7, ConstantTypes
    <3>3. slot'[i].chain = <<>> /\ slot'[i].rt.count = row.count
      BY <2>3, <2>7, <3>1, <3>2 DEF Restored
    <3>4. slot'[i] \in SlotShape
      BY <2>4
    <3> QED BY <2>7, <3>3, <3>4, LinkedEmpty
  <2> QED BY <1>2, <2>3, <2>5, <2>6, <2>7 DEF ReloadApply
<1> QED BY <1>1, <1>2

\* The user, the crash and the restart.
LEMMA CountControl ==
  ASSUME AttemptInv, AttemptInv', CountInv, Pause \/ Resume \/ Cancel \/ Crash \/ Start
  PROVE  CountInv'
<1>1. action' = action /\ ledger' = ledger /\ apart' = apart
  BY DEF Pause, Resume, Cancel, Crash, Start
<1>2. row'.count = row.count
  BY DEF AttemptInv, Shapes, RowShape, Pause, Resume, Cancel, Crash, Start
<1>3. CASE slot' = slot /\ live' = live
  BY <1>1, <1>2, <1>3 DEF CountInv, OneWriter
<1>4. CASE Crash
  <2>1. live' = 0 /\ \A i \in 1..Slots : slot'[i].chain = <<>>
    BY <1>4, BlankShape DEF Crash
  <2> QED BY <1>1, <1>2, <2>1 DEF CountInv, OneWriter
<1> QED BY <1>3, <1>4 DEF Pause, Resume, Cancel, Start

\* What the write chain makes of the registered rule, once the row counts m.
LEMMA CountOutcome ==
  ASSUME Shapes, Shapes', Tidy, live # 0, slot[live].chain # <<>>, NEW n \in Nat, NEW m \in Nat,
         Linked(slot[live], n),
         \/ Drop(live)
         \/ Throw(live) /\ IF Head1(live).out.fired THEN Head1(live).out.rt.count \in {m, m + 1}
                                                    ELSE Head1(live).out.rt.count = m
         \/ slot' = Done(live) /\ live' = live /\ Head1(live).out.rt.count = n /\ n = m
         \/ /\ \E p \in {"execute", "audit"} : slot' = Advance(live, [Head1(live) EXCEPT !.pc = p])
            /\ live' = live /\ Head1(live).out.rt.count = m
  PROVE  live' # 0 => Linked(slot'[live'], m)
<1> DEFINE h == Head1(live)
           s == slot[live]
<1>1. live \in 1..Slots /\ slot \in [1..Slots -> SlotShape] /\ slot' \in [1..Slots -> SlotShape]
  BY ConstantTypes, SMTT(30) DEF Shapes
<1>2. s \in SlotShape /\ s.chain \in Seq(JobShape) /\ Waiting(s.chain)
  BY <1>1 DEF SlotShape, Tidy
<1>3. h \in JobShape /\ h = s.chain[1]
  BY <1>1, HeadShape DEF Head1
<1>4. Sound(h)
  <2>1. 1 \in 1..Len(s.chain)
    <3>1. s.chain = <<>> <=> Len(s.chain) = 0
      BY <1>2, EmptyChain
    <3> QED BY <1>2, <3>1
  <2> QED BY <1>3, <2>1 DEF Linked
<1>5. ASSUME NEW job \in JobShape, slot' = Advance(live, job), live' = live, job.out = h.out,
             ~job.refund, job.pc \in {"start", "execute", "audit"}, Leads(job, m)
      PROVE  Linked(slot'[live'], m)
  <2>1. /\ slot'[live].rt = s.rt /\ slot'[live].chain = [s.chain EXCEPT ![1] = job]
        /\ slot'[live] \in SlotShape
    BY <1>1, <1>5 DEF Advance, SlotShape
  <2> HIDE DEF s, h
  <2> QED BY <1>2, <1>3, <1>5, <2>1, LinkedAdvance DEF s
<1>6. CASE Drop(live)
  BY <1>6 DEF Drop
<1>7. CASE Throw(live) /\ IF h.out.fired THEN h.out.rt.count \in {m, m + 1} ELSE h.out.rt.count = m
  <2>1. CASE GiveUp(live)
    BY <2>1, <1>6 DEF GiveUp
  <2>2. CASE ~GiveUp(live)
    <3> DEFINE job == [h EXCEPT !.pc = "start", !.win = None, !.refund = FALSE, !.retry = TRUE]
    <3>1. slot' = Advance(live, job) /\ live' = live
      BY <1>7, <2>2 DEF Throw
    <3>2. job \in JobShape /\ job.out = h.out /\ ~job.refund /\ job.pc = "start"
      <4> HIDE DEF h
      <4> QED BY <1>3, Literals DEF JobShape, JobPc
    <3> HIDE DEF job
    <3>3. Leads(job, m)
      BY <1>7, <3>2 DEF Leads
    <3> QED BY <1>5, <3>1, <3>2, <3>3
  <2> QED BY <2>1, <2>2
<1>8. CASE slot' = Done(live) /\ live' = live /\ h.out.rt.count = n /\ n = m
  <2>1. slot'[live].rt = s.rt /\ slot'[live].chain = Tail(s.chain) /\ slot'[live] \in SlotShape
    BY <1>1, <1>8 DEF Done, SlotShape
  <2> HIDE DEF s, h
  <2> QED BY <1>2, <1>3, <1>8, <2>1, LinkedTail DEF s
<1>9. ASSUME NEW p \in {"execute", "audit"}, slot' = Advance(live, [h EXCEPT !.pc = p]),
             live' = live, h.out.rt.count = m
      PROVE  Linked(slot'[live'], m)
  <2> DEFINE job == [h EXCEPT !.pc = p]
  <2>1. job \in JobShape /\ job.out = h.out /\ ~job.refund /\ job.pc = p
    <3> HIDE DEF h
    <3> QED BY <1>3, <1>4 DEF JobShape, JobPc, Sound
  <2>2. slot' = Advance(live, job)
    BY <1>9
  <2> HIDE DEF job
  <2>3. Leads(job, m)
    BY <1>9, <2>1 DEF Leads
  <2> QED BY <1>5, <1>9, <2>1, <2>2, <2>3
<1> QED BY <1>6, <1>7, <1>8, <1>9

\* The write chain.
LEMMA CountWork ==
  ASSUME AttemptInv, AttemptInv', CountInv, NEW i \in 1..Slots, Work(i)
  PROVE  CountInv'
<1> DEFINE h == Head1(i)
           n == row.count
           m == row'.count
           c == h.out.rt.count
<1>1. action' = action /\ slot[i].chain # <<>>
  BY DEF Work, Resolve, Claim, Skip, SaveState, Commit, Execute, Finish, Ready
<1>2. SUFFICES ASSUME ~action.rolling, ~apart'
               PROVE  /\ m \in Nat /\ DOMAIN ledger' = 1..m
                      /\ OneWriter' /\ (live' # 0 => Linked(slot'[live'], m))
  BY <1>1 DEF CountInv
<1>3. ~apart /\ OneWriter'
  BY <1>2 DEF Work, NoteApart, OneWriter
<1>4. /\ Shapes /\ Shapes' /\ Tidy /\ n \in Nat /\ DOMAIN ledger = 1..n
      /\ i = live /\ live # 0 /\ Linked(slot[live], n)
  BY <1>1, <1>2, <1>3, ConstantTypes DEF CountInv, OneWriter, AttemptInv
<1>5. h \in JobShape /\ h = slot[i].chain[1] /\ h.out.rt \in RtShape /\ row \in RowShape
  <2>1. h \in JobShape
    BY <1>1, <1>4, HeadShape
  <2> HIDE DEF h
  <2>2. h.out.rt \in RtShape
    BY <2>1, Literals, JobSteps
  <2> QED BY <1>4, <2>1, <2>2 DEF h, Head1, Shapes
<1>6. Sound(h) /\ Leads(h, n)
  <2>1. slot[i].chain \in Seq(JobShape)
    BY <1>4, ConstantTypes DEF Shapes, SlotShape
  <2>2. 1 \in 1..Len(slot[i].chain)
    <3>1. slot[i].chain = <<>> <=> Len(slot[i].chain) = 0
      BY <2>1, EmptyChain
    <3> QED BY <1>1, <2>1, <3>1
  <2> QED BY <1>1, <1>4, <1>5, <2>2 DEF Linked
<1> HIDE DEF h
<1>7. CASE SaveState(i)
  <2>1. h.pc = "start" /\ ~h.out.fired
    BY <1>6, <1>7 DEF SaveState, Ready, Sound, h
  <2>2. c = n
    BY <1>6, <2>1 DEF Leads
  <2>3. m = n /\ ledger' = ledger
    <3>1. row' = row \/ row' = Saved(h.out.rt, h.at)
      BY <1>6, <1>7 DEF SaveState, Sound, h
    <3>2. Saved(h.out.rt, h.at).count = c
      BY <1>5 DEF Saved, RowShape
    <3> QED BY <1>7, <2>2, <3>1, <3>2 DEF SaveState
  <2>4. \/ Drop(i) \/ Throw(i)
        \/ slot' = Advance(i, [h EXCEPT !.pc = "audit"]) /\ live' = live
    BY <1>7 DEF SaveState, h
  <2>5. live' # 0 => Linked(slot'[live'], n)
    BY <1>1, <1>4, <2>1, <2>2, <2>4, CountOutcome DEF h
  <2> QED BY <1>3, <1>4, <2>3, <2>5
<1>8. CASE Commit(i)
  <2>1. h.pc = "start" /\ h.out.fired /\ c >= 1 /\ c \in {n, n + 1} /\ c \in Nat
    BY <1>2, <1>6, <1>8 DEF Commit, Ready, Sound, Leads, h
  <2>2. CASE row' = row /\ ledger' = ledger
    <3>1. Drop(i) \/ Throw(i) \/ (row' = Committed(h) /\ DOMAIN ledger' = DOMAIN ledger \cup {c})
      BY <1>8 DEF Commit, h
    <3>2. CASE Drop(i) \/ Throw(i)
      <4>1. live' # 0 => Linked(slot'[live'], n)
        BY <1>1, <1>4, <2>1, <3>2, CountOutcome DEF h
      <4> QED BY <1>3, <1>4, <2>2, <4>1
    <3>3. CASE ~(Drop(i) \/ Throw(i))
      <4>1. \E p \in {"execute", "audit"} : slot' = Advance(i, [h EXCEPT !.pc = p]) /\ live' = live
        BY <1>8, <3>3 DEF Commit, Quietly, h
      <4>2. Committed(h).count = c
        BY <1>5 DEF Committed, Saved, RowShape
      <4>3. c = n
        BY <2>2, <3>1, <3>3, <4>2
      <4>4. live' # 0 => Linked(slot'[live'], n)
        BY <1>1, <1>4, <4>1, <4>3, CountOutcome DEF h
      <4> QED BY <1>3, <1>4, <2>2, <4>4
    <3> QED BY <3>2, <3>3
  <2>3. CASE row' = Committed(h) /\ DOMAIN ledger' = DOMAIN ledger \cup {c}
    <3>1. m = c
      BY <1>5, <2>3 DEF Committed, Saved, RowShape
    <3>2. DOMAIN ledger' = 1..c
      BY <1>4, <2>1, <2>3
    <3>3. \/ Drop(i) \/ Throw(i)
          \/ \E p \in {"execute", "audit"} : slot' = Advance(i, [h EXCEPT !.pc = p]) /\ live' = live
      BY <1>8 DEF Commit, Quietly, h
    <3>4. live' # 0 => Linked(slot'[live'], c)
      BY <1>1, <1>4, <2>1, <3>3, CountOutcome DEF h
    <3> QED BY <1>3, <2>1, <3>1, <3>2, <3>4
  <2>4. \/ row' = row /\ ledger' = ledger
        \/ row' = Committed(h) /\ DOMAIN ledger' = DOMAIN ledger \cup {c}
    BY <1>8 DEF Commit, h
  <2> QED BY <2>2, <2>3, <2>4
<1>9. CASE Execute(i) \/ Finish(i)
  <2>1. h.pc \in {"execute", "audit"} /\ row' = row
    BY <1>9 DEF Execute, Finish, Ready, h
  <2>2. c = n
    BY <1>6, <2>1 DEF Leads
  <2>3. DOMAIN ledger' = DOMAIN ledger
    BY <1>9 DEF Execute, Finish
  <2>4. \/ Drop(i) \/ Throw(i) \/ (slot' = Done(i) /\ live' = live)
        \/ slot' = Advance(i, [h EXCEPT !.pc = "audit"]) /\ live' = live
    BY <1>9 DEF Execute, Finish, Quietly, h
  <2>5. live' # 0 => Linked(slot'[live'], n)
    BY <1>1, <1>4, <2>2, <2>4, CountOutcome DEF h
  <2> QED BY <1>3, <1>4, <2>1, <2>3, <2>5
<1>10. ~(Resolve(i) \/ Claim(i) \/ Skip(i))
  BY <1>2, <1>6 DEF Resolve, Claim, Skip, Ready, Sound, h
<1> QED BY <1>7, <1>8, <1>9, <1>10 DEF Work

\* The row's count and the trigger rows do not drift apart as long as nobody else
\* writes (commitTriggerAtomically and the retry of the write chain).
THEOREM RowCounts == Spec => []RowCountsTriggers
<1>1. Init => CountInv
  <2> SUFFICES ASSUME Init PROVE CountInv
    OBVIOUS
  <2>1. row.count = 0 /\ DOMAIN ledger = {} /\ live = 0
    BY DEF Init, NewRow
  <2>2. OneWriter
    BY BlankShape DEF Init, OneWriter
  <2> QED BY <2>1, <2>2 DEF CountInv
<1>2. AttemptInv /\ AttemptInv' /\ CountInv /\ [Next]_vars => CountInv'
  <2> SUFFICES ASSUME AttemptInv, AttemptInv', CountInv, [Next]_vars PROVE CountInv'
    OBVIOUS
  <2>1. CASE UNCHANGED vars
    BY <2>1 DEF vars, CountInv, OneWriter
  <2> QED BY <2>1, CountEvents, CountReload, CountControl, CountWork DEF Next
<1>3. CountInv => RowCountsTriggers
  <2> SUFFICES ASSUME CountInv, ~action.rolling, ~apart
               PROVE  row.count = Cardinality(DOMAIN ledger)
    BY DEF RowCountsTriggers
  <2>1. row.count \in Nat /\ DOMAIN ledger = 1..row.count
    BY DEF CountInv
  <2> QED BY <2>1, FS_Interval
<1> QED BY <1>1, <1>2, <1>3, AttemptInit, AttemptStep, PTL DEF Spec

-----------------------------------------------------------------------------
(* The windows of a series.                                                 *)

\* The job under way, where the row's last window is last, the live one lim, and book
\* the ledger: the window it enters is the newest, and no trigger has entered it.
Entering(job, last, lim, book) ==
  /\ job.pc = "claim" => last <= job.win /\ job.win <= lim
  /\ job.pc = "write" /\ ~job.refund /\ job.out.fired =>
       job.win = last /\ \A n \in DOMAIN book : book[n].win < job.win

WindowBase(last, lim, book) ==
  /\ last <= lim
  /\ \A n \in DOMAIN book : book[n].win <= last
  /\ \A a, b \in DOMAIN book : a # b => book[a].win # book[b].win

LiveHead == live # 0 /\ slot[live].chain # <<>>

WindowInv ==
  /\ now \in Nat
  /\ action.rolling /\ ~apart =>
       /\ WindowBase(row.lastWin, now \div WindowLen, ledger) /\ OneWriter
       /\ LiveHead => Entering(slot[live].chain[1], row.lastWin, now \div WindowLen, ledger)

\* The live window moves on.
LEMMA LiveWindow ==
  ASSUME NEW t \in Nat
  PROVE  /\ t \div WindowLen \in Nat
         /\ t \div WindowLen <= (t + 1) \div WindowLen
<1> DEFINE W == WindowLen
           q == t \div W
           z == (t + 1) \div W
<1>1. W \in Nat \ {0}
  BY ConstantTypes
<1>2. /\ q \in Int /\ W * q <= t /\ t < W * q + W
      /\ z \in Int /\ W * z <= t + 1 /\ t + 1 < W * z + W
  BY <1>1
<1> HIDE DEF q, z, W
<1>3. q >= 0
  BY <1>1, <1>2
<1>4. q <= z
  <2> SUFFICES ASSUME z + 1 <= q PROVE FALSE
    BY <1>2
  <2>1. W * (z + 1) <= W * q
    BY <1>1, <1>2
  <2>2. W * (z + 1) = W * z + W
    BY <1>1, <1>2
  <2> QED BY <1>1, <1>2, <2>1, <2>2
<1> QED BY <1>2, <1>3, <1>4 DEF q, z, W

\* What a step of the write chain leaves as its first job.
LEMMA HeadOutcome ==
  ASSUME Shapes, Tidy, live # 0, slot[live].chain # <<>>, NEW a, NEW b, NEW k,
         \/ Drop(live) \/ Throw(live)
         \/ slot' = Done(live) /\ live' = live
         \/ \E job \in JobShape : /\ slot'[live].chain = [slot[live].chain EXCEPT ![1] = job]
                                  /\ live' = live /\ Entering(job, a, b, k)
  PROVE  LiveHead' => Entering(slot'[live'].chain[1], a, b, k)
<1>1. live \in 1..Slots /\ slot \in [1..Slots -> SlotShape]
  BY ConstantTypes DEF Shapes
<1>2. slot[live].chain \in Seq(JobShape) /\ Waiting(slot[live].chain)
  BY <1>1 DEF SlotShape, Tidy
<1>3. SUFFICES ASSUME live' # 0, slot'[live'].chain # <<>>
               PROVE  Entering(slot'[live'].chain[1], a, b, k)
  BY DEF LiveHead
<1>4. ASSUME NEW job \in JobShape, slot'[live].chain = [slot[live].chain EXCEPT ![1] = job],
             live' = live, Entering(job, a, b, k)
      PROVE  Entering(slot'[live'].chain[1], a, b, k)
  <2>1. slot'[live].chain[1] = job
    BY <1>2, <1>4, ChainSteps
  <2> QED BY <1>4, <2>1
<1>5. ~Drop(live)
  BY <1>3 DEF Drop
<1>6. CASE Throw(live)
  <2> DEFINE job == [Head1(live) EXCEPT !.pc = "start", !.win = None, !.refund = FALSE,
                                        !.retry = TRUE]
  <2>1. slot' = Advance(live, job) /\ live' = live
    BY <1>5, <1>6 DEF Throw, GiveUp
  <2>2. job \in JobShape /\ job.pc = "start"
    <3>1. Head1(live) \in JobShape
      BY <1>1, HeadShape
    <3> QED BY <3>1, Literals DEF JobShape, JobPc
  <2> HIDE DEF job
  <2>3. Entering(job, a, b, k)
    BY <2>2 DEF Entering
  <2>4. slot'[live].chain = [slot[live].chain EXCEPT ![1] = job]
    BY <1>1, <2>1, <2>2, AdvanceShape
  <2> QED BY <1>4, <2>1, <2>2, <2>3, <2>4
<1>7. CASE slot' = Done(live) /\ live' = live
  <2>1. slot'[live].chain = Tail(slot[live].chain)
    BY <1>1, <1>7 DEF Done, SlotShape
  <2>2. slot'[live].chain[1].pc = "start"
    <3> DEFINE c == slot[live].chain
    <3>1. c \in Seq(JobShape) /\ Waiting(c) /\ Tail(c) # <<>>
      BY <1>2, <1>3, <1>7, <2>1
    <3>2. c # <<>>
      OBVIOUS
    <3> HIDE DEF c
    <3>3. Tail(c) \in Seq(JobShape) /\ Len(Tail(c)) = Len(c) - 1
      BY <3>1, <3>2
    <3>4. Len(Tail(c)) # 0
      BY <3>1, <3>3, EmptyChain
    <3>5. 2 \in 2..Len(c) /\ Tail(c)[1] = c[2]
      BY <3>1, <3>2, <3>3, <3>4
    <3>6. Tail(c)[1].pc = "start"
      BY <3>1, <3>5 DEF Waiting
    <3> QED BY <2>1, <3>6 DEF c
  <2> QED BY <1>7, <2>2 DEF Entering
<1> QED BY <1>4, <1>5, <1>6, <1>7

\* Time that passes leaves the window under way where it is.
LEMMA WindowsAge ==
  ASSUME NEW last \in Int, NEW lim \in Int, NEW later \in Int, lim <= later, NEW book,
         NEW job \in JobShape
  PROVE  /\ WindowBase(last, lim, book) => WindowBase(last, later, book)
         /\ Entering(job, last, lim, book) => Entering(job, last, later, book)
BY DEF WindowBase, Entering, JobShape

\* Everything that is not the write chain.
LEMMA WindowOthers ==
  ASSUME AttemptInv, AttemptInv', WindowInv,
         \/ ReloadRead \/ ReloadApply \/ Tick \/ Event
         \/ Pause \/ Resume \/ Cancel \/ Crash \/ Start
  PROVE  WindowInv'
<1> DEFINE lim == now \div WindowLen
           later == now' \div WindowLen
<1>1. action' = action /\ ledger' = ledger
  BY DEF ReloadRead, ReloadApply, Tick, Event, Pause, Resume, Cancel, Crash, Start
<1>2. row'.lastWin = row.lastWin /\ row.lastWin \in Int
  BY DEF AttemptInv, Shapes, RowShape, ReloadRead, ReloadApply, Tick, Event, Pause, Resume,
         Cancel, Crash, Start
<1>3. now' \in Nat /\ lim \in Int /\ later \in Int /\ lim <= later
  <2>1. now' = now \/ now' = now + 1
    BY DEF ReloadRead, ReloadApply, Tick, Event, Pause, Resume, Cancel, Crash, Start
  <2> QED BY <2>1, LiveWindow DEF WindowInv
<1>4. ~apart' => ~apart
  BY DEF ReloadRead, ReloadApply, Tick, Event, Pause, Resume, Cancel, Crash, Start, NoteApart
<1> HIDE DEF lim, later
<1>5. SUFFICES ASSUME action.rolling, ~apart, ~apart'
               PROVE  /\ WindowBase(row.lastWin, later, ledger) /\ OneWriter'
                      /\ LiveHead' => Entering(slot'[live'].chain[1], row.lastWin, later, ledger)
  BY <1>1, <1>2, <1>3, <1>4 DEF WindowInv, later
<1>6. /\ WindowBase(row.lastWin, lim, ledger) /\ OneWriter
      /\ LiveHead => Entering(slot[live].chain[1], row.lastWin, lim, ledger)
      /\ Shapes /\ Shapes'
  BY <1>5 DEF WindowInv, AttemptInv, lim
<1>7. PICK any \in JobShape : TRUE
  <2>1. InitialRuntime \in RtShape
    BY Literals DEF InitialRuntime, RtShape
  <2>2. [out |-> [rt |-> InitialRuntime, fired |-> FALSE, noted |-> FALSE], at |-> 0,
         pc |-> "start", win |-> 0, refund |-> FALSE, retry |-> FALSE] \in JobShape
    BY <2>1 DEF JobShape, Result, JobPc
  <2> QED BY <2>2
<1>8. WindowBase(row.lastWin, later, ledger)
  BY <1>2, <1>3, <1>6, <1>7, WindowsAge
<1>9. ASSUME live' = live, LiveHead, slot'[live].chain[1] = slot[live].chain[1]
      PROVE  Entering(slot'[live'].chain[1], row.lastWin, later, ledger)
  <2>1. slot[live].chain[1] \in JobShape
    <3>1. live \in 1..Slots
      BY <1>6, <1>9, ConstantTypes DEF Shapes, LiveHead
    <3> QED BY <1>9, <3>1, HeadShape DEF Head1, LiveHead, AttemptInv
  <2> QED BY <1>2, <1>3, <1>6, <1>9, <2>1, WindowsAge
<1>10. CASE slot' = slot /\ live' = live
  BY <1>6, <1>8, <1>9, <1>10 DEF OneWriter, LiveHead
<1>11. CASE ReloadApply /\ ~(slot' = slot /\ live' = live)
  <2>1. OneWriter'
    BY <1>5, <1>11 DEF ReloadApply, NoteApart, OneWriter
  <2>2. CASE live' = 0
    BY <1>8, <2>1, <2>2 DEF LiveHead
  <2>3. ASSUME NEW i \in 1..Slots, live' = i,
               slot' = [slot EXCEPT ![i] = [rt |-> Restored(reload.row),
                                            lastWin |-> reload.row.lastWin, chain |-> <<>>]]
        PROVE  ~LiveHead'
    BY <1>6, <2>3 DEF LiveHead, Shapes
  <2> QED BY <1>8, <1>11, <2>1, <2>2, <2>3 DEF ReloadApply
<1>12. CASE Crash
  <2>1. live' = 0 /\ \A i \in 1..Slots : slot'[i].chain = <<>>
    BY <1>12, BlankShape DEF Crash
  <2> QED BY <1>8, <2>1 DEF LiveHead, OneWriter
<1>13. ASSUME live # 0, live' = live, NEW e, Apply(e)
       PROVE  /\ OneWriter'
              /\ LiveHead' => Entering(slot'[live'].chain[1], row.lastWin, later, ledger)
  <2> DEFINE job == [out |-> Transition(slot[live].rt, e), at |-> e.now, pc |-> "start",
                     win |-> None, refund |-> FALSE, retry |-> FALSE]
             c == slot[live].chain
  <2>1. live \in 1..Slots /\ slot \in [1..Slots -> SlotShape] /\ c \in Seq(JobShape)
    BY <1>6, <1>13, ConstantTypes DEF Shapes, SlotShape
  <2>2. \E d \in {c, Append(c, job)} :
          slot' = [slot EXCEPT ![live].rt = Transition(slot[live].rt, e).rt, ![live].chain = d]
    BY <1>13, <2>1 DEF Apply, SlotShape
  <2>3. job.pc = "start"
    OBVIOUS
  <2> HIDE DEF job
  <2>4. /\ slot'[live].chain \in {c, Append(c, job)}
        /\ \A j \in 1..Slots : j # live => slot'[j] = slot[j]
    BY <2>1, <2>2 DEF SlotShape
  <2>5. OneWriter'
    BY <1>6, <1>13, <2>4 DEF OneWriter
  <2>6. CASE c # <<>>
    <3>1. Append(c, job)[1] = c[1]
      <4>1. c = <<>> <=> Len(c) = 0
        BY <2>1, EmptyChain
      <4> HIDE DEF c
      <4> QED BY <2>1, <2>6, <4>1
    <3> QED BY <1>9, <1>13, <2>4, <2>5, <2>6, <3>1 DEF LiveHead
  <2>7. CASE c = <<>>
    <3>1. Append(c, job)[1] = job
      <4> HIDE DEF c
      <4> QED BY <2>7
    <3> QED BY <1>13, <2>3, <2>4, <2>5, <2>7, <3>1 DEF LiveHead, Entering
  <2> QED BY <2>6, <2>7
<1>14. CASE Tick \/ Event
  <2>1. live' = live /\ (slot' = slot \/ (live # 0 /\ \E e : Apply(e)))
    <3>1. CASE Tick
      <4>1. CASE up /\ live # 0
        BY <3>1, <4>1 DEF Tick
      <4>2. CASE ~(up /\ live # 0)
        BY <3>1, <4>2 DEF Tick
      <4> QED BY <4>1, <4>2
    <3>2. CASE Event
      BY <3>2 DEF Event
    <3> QED BY <1>14, <3>1, <3>2
  <2> QED BY <1>8, <1>10, <1>13, <2>1
<1> QED BY <1>10, <1>11, <1>12, <1>14 DEF ReloadRead, Pause, Resume, Cancel, Start

\* The write chain.
LEMMA WindowWork ==
  ASSUME AttemptInv, AttemptInv', WindowInv, NEW i \in 1..Slots, Work(i)
  PROVE  WindowInv'
<1> DEFINE h == Head1(i)
           lim == now \div WindowLen
           last == row.lastWin
           after == row'.lastWin
<1>1. action' = action /\ now' = now /\ slot[i].chain # <<>>
  BY DEF Work, Resolve, Claim, Skip, SaveState, Commit, Execute, Finish, Ready
<1>2. SUFFICES ASSUME action.rolling, ~apart'
               PROVE  /\ WindowBase(after, lim, ledger') /\ OneWriter'
                      /\ LiveHead' => Entering(slot'[live'].chain[1], after, lim, ledger')
  BY <1>1 DEF WindowInv
<1>3. ~apart /\ OneWriter'
  BY <1>2 DEF Work, NoteApart, OneWriter
<1>4. /\ Shapes /\ Tidy /\ WindowBase(last, lim, ledger) /\ i = live /\ live # 0
      /\ LiveHead /\ Entering(slot[i].chain[1], last, lim, ledger)
  BY <1>1, <1>2, <1>3, ConstantTypes DEF WindowInv, OneWriter, AttemptInv, LiveHead
<1>5. h \in JobShape /\ h = slot[i].chain[1] /\ h.win \in Int /\ h.out.rt \in RtShape
  <2>1. h \in JobShape
    BY <1>1, <1>4, HeadShape
  <2> HIDE DEF h
  <2>2. h.win \in Int /\ h.out.rt \in RtShape
    BY <2>1, Literals, JobSteps
  <2> QED BY <2>1, <2>2 DEF h, Head1
<1>6. row \in RowShape /\ last \in Int /\ lim \in Int
  <2>1. now \in Nat
    BY DEF WindowInv
  <2> QED BY <1>4, <2>1, LiveWindow DEF Shapes, RowShape
<1> DEFINE Next1(p) == [h EXCEPT !.pc = p]
<1>7. ASSUME NEW p \in {"skip", "audit", "execute"}
      PROVE  /\ Next1(p) \in JobShape
             /\ slot' = Advance(i, Next1(p)) => slot'[i].chain = [slot[i].chain EXCEPT ![1] = Next1(p)]
             /\ \A a, b, k : Entering(Next1(p), a, b, k)
  <2> DEFINE job == Next1(p)
  <2>1. job \in JobShape /\ job.pc = p
    <3>1. p \in JobPc
      BY DEF JobPc
    <3> HIDE DEF h
    <3> QED BY <1>5, <3>1, Literals, JobSteps
  <2> HIDE DEF job
  <2>2. slot' = Advance(i, job) => slot'[i].chain = [slot[i].chain EXCEPT ![1] = job]
    BY <1>1, <1>4, <2>1, AdvanceShape
  <2>3. \A a, b, k : Entering(job, a, b, k)
    BY <2>1 DEF Entering
  <2> QED BY <2>1, <2>2, <2>3 DEF job
<1>8. ASSUME \/ Drop(i) \/ Throw(i)
             \/ slot' = Done(i) /\ live' = live
             \/ \E p \in {"skip", "audit", "execute"} : slot' = Advance(i, Next1(p)) /\ live' = live
      PROVE  LiveHead' => Entering(slot'[live'].chain[1], after, lim, ledger')
  <2>1. ASSUME NEW p \in {"skip", "audit", "execute"}, slot' = Advance(i, Next1(p)), live' = live
        PROVE  \E job \in JobShape : /\ slot'[live].chain = [slot[live].chain EXCEPT ![1] = job]
                                     /\ live' = live /\ Entering(job, after, lim, ledger')
    BY <1>4, <1>7, <2>1
  <2> HIDE DEF Next1
  <2> QED BY <1>1, <1>4, <1>8, <2>1, HeadOutcome
<1>9. ASSUME NEW job \in JobShape, slot'[live].chain = [slot[live].chain EXCEPT ![1] = job],
             live' = live, Entering(job, after, lim, ledger')
      PROVE  LiveHead' => Entering(slot'[live'].chain[1], after, lim, ledger')
  BY <1>1, <1>4, <1>9, HeadOutcome
<1>10. CASE Resolve(i)
  <2> DEFINE job == [h EXCEPT !.pc = "claim", !.win = lim]
  <2>1. after = last /\ ledger' = ledger /\ live' = live
    BY <1>10 DEF Resolve, Quietly
  <2>2. \/ slot' = Advance(i, job)
        \/ slot' = Advance(i, Next1("skip"))
    BY <1>10 DEF Resolve
  <2>3. job \in JobShape /\ job.pc = "claim" /\ job.win = lim
    <3> HIDE DEF h, lim
    <3> QED BY <1>5, <1>6 DEF JobShape, JobPc
  <2> HIDE DEF job, Next1
  <2>4. Entering(job, after, lim, ledger')
    BY <1>4, <1>6, <2>1, <2>3 DEF Entering, WindowBase
  <2>5. slot' = Advance(i, job) => slot'[live].chain = [slot[live].chain EXCEPT ![1] = job]
    BY <1>1, <1>4, <2>3, AdvanceShape
  <2> QED BY <1>3, <1>4, <1>8, <1>9, <2>1, <2>2, <2>3, <2>4, <2>5
<1>11. CASE Claim(i)
  <2>1. h.pc = "claim" /\ last <= h.win /\ h.win <= lim /\ ledger' = ledger
    <3>1. h.pc = "claim"
      BY <1>11 DEF Claim, Ready
    <3> QED BY <1>4, <1>5, <1>11, <3>1 DEF Claim, Entering
  <2>2. \/ row' = row
        \/ row' = Claimed(h.win) /\ last # h.win
    BY <1>11 DEF Claim
  <2>3. Claimed(h.win).lastWin = h.win
    BY <1>6 DEF Claimed, RowShape
  <2>4. WindowBase(after, lim, ledger')
    <3>1. CASE row' = row
      BY <1>4, <2>1, <3>1
    <3>2. CASE row' = Claimed(h.win)
      <4>1. after = h.win
        BY <2>3, <3>2
      <4>2. \A n \in DOMAIN ledger : ledger[n].win \in Int
        BY <1>4 DEF Shapes, EntryShape
      <4> HIDE DEF h, last, lim, after
      <4> QED BY <1>4, <1>5, <1>6, <2>1, <4>1, <4>2 DEF WindowBase
    <3> QED BY <2>2, <3>1, <3>2
  <2>5. CASE Throw(i) \/ (slot' = Advance(i, Next1("skip")) /\ live' = live)
    <3> HIDE DEF Next1
    <3> QED BY <1>3, <1>8, <2>4, <2>5
  <2>6. CASE /\ row' = Claimed(h.win) /\ last # h.win /\ live' = live
             /\ slot' = [Advance(i, [h EXCEPT !.pc = "write"]) EXCEPT ![i].lastWin = h.win]
    <3> DEFINE job == [h EXCEPT !.pc = "write"]
    <3>1. job \in JobShape /\ job.pc = "write" /\ job.win = h.win
      <4> HIDE DEF h
      <4> QED BY <1>5 DEF JobShape, JobPc
    <3>2. \A n \in DOMAIN ledger : ledger[n].win < h.win
      <4>1. \A n \in DOMAIN ledger : ledger[n].win \in Int /\ ledger[n].win <= last
        BY <1>4 DEF Shapes, EntryShape, WindowBase
      <4> HIDE DEF h, last
      <4> QED BY <1>5, <1>6, <2>1, <2>6, <4>1
    <3>3. Entering(job, after, lim, ledger')
      <4>1. after = h.win
        BY <2>3, <2>6
      <4> HIDE DEF job, h, after
      <4> QED BY <2>1, <3>1, <3>2, <4>1 DEF Entering
    <3>4. slot'[live].chain = [slot[live].chain EXCEPT ![1] = job]
      <4> DEFINE s == Advance(i, job)
      <4>1. s \in [1..Slots -> SlotShape] /\ s[i].chain = [slot[i].chain EXCEPT ![1] = job]
        <5> HIDE DEF job
        <5> QED BY <1>1, <1>4, <3>1, AdvanceShape DEF SlotsTyped
      <4>2. slot' = [s EXCEPT ![i].lastWin = h.win]
        BY <2>6
      <4> HIDE DEF s, job, h
      <4>3. slot'[i].chain = s[i].chain
        BY <4>1, <4>2 DEF SlotShape
      <4> QED BY <1>4, <4>1, <4>3
    <3> HIDE DEF job
    <3> QED BY <1>3, <1>9, <2>4, <2>6, <3>1, <3>3, <3>4
  <2> QED BY <1>11, <2>5, <2>6 DEF Claim, Quietly
<1>12. CASE Skip(i)
  <2>1. after = last /\ ledger' = ledger
    BY <1>12 DEF Skip
  <2>2. CASE Throw(i)
    <3> HIDE DEF Next1
    <3> QED BY <1>3, <1>4, <1>8, <2>1, <2>2
  <2>3. CASE /\ slot' = [Advance(i, [h EXCEPT !.pc = "write", !.refund = TRUE])
                           EXCEPT ![i].rt = Refunded(h)]
             /\ live' = live
    <3> DEFINE job == [h EXCEPT !.pc = "write", !.refund = TRUE]
    <3>1. job \in JobShape /\ job.pc = "write" /\ job.refund
      <4> HIDE DEF h
      <4> QED BY <1>5 DEF JobShape, JobPc
    <3>2. Entering(job, after, lim, ledger')
      <4> HIDE DEF job
      <4> QED BY <3>1 DEF Entering
    <3>3. slot'[live].chain = [slot[live].chain EXCEPT ![1] = job]
      <4> DEFINE s == Advance(i, job)
                 r == Refunded(h)
      <4>1. s \in [1..Slots -> SlotShape] /\ s[i].chain = [slot[i].chain EXCEPT ![1] = job]
        <5> HIDE DEF job
        <5> QED BY <1>1, <1>4, <3>1, AdvanceShape DEF SlotsTyped
      <4>2. slot' = [s EXCEPT ![i].rt = r]
        BY <2>3
      <4> HIDE DEF s, job, r
      <4>3. slot'[i].chain = s[i].chain
        BY <4>1, <4>2 DEF SlotShape
      <4> QED BY <1>4, <4>1, <4>3
    <3> HIDE DEF job
    <3> QED BY <1>3, <1>4, <1>9, <2>1, <2>3, <3>1, <3>2, <3>3
  <2> QED BY <1>12, <2>2, <2>3 DEF Skip, Quietly
<1>13. CASE SaveState(i) \/ Execute(i) \/ Finish(i)
  <2>1. after = last
    <3>1. row' = row \/ \E r, t : row' = Saved(r, t)
      BY <1>13 DEF SaveState, Execute, Finish
    <3> QED BY <1>6, <3>1 DEF Saved, RowShape
  <2>2. DOMAIN ledger' = DOMAIN ledger /\ \A n \in DOMAIN ledger : ledger'[n].win = ledger[n].win
    <3>1. CASE ledger' = ledger
      BY <3>1
    <3>2. CASE Execute(i)
      <4>1. ledger' = [ledger EXCEPT ![h.out.rt.count].tries = @ + 1]
        BY <3>2 DEF Execute
      <4> HIDE DEF h
      <4> QED BY <1>4, <4>1 DEF Shapes, EntryShape
    <3> QED BY <1>13, <3>1, <3>2 DEF SaveState, Finish
  <2>3. WindowBase(after, lim, ledger')
    BY <1>4, <2>1, <2>2 DEF WindowBase
  <2>4. \/ Drop(i) \/ Throw(i) \/ (slot' = Done(i) /\ live' = live)
        \/ slot' = Advance(i, Next1("audit")) /\ live' = live
    BY <1>13 DEF SaveState, Execute, Finish, Quietly
  <2> HIDE DEF Next1
  <2> QED BY <1>3, <1>8, <2>3, <2>4
<1>14. CASE Commit(i)
  <2>1. h.pc = "write" /\ ~h.refund /\ h.out.fired
    BY <1>2, <1>14 DEF Commit, Ready
  <2>2. h.win = last /\ \A n \in DOMAIN ledger : ledger[n].win < h.win
    BY <1>4, <1>5, <2>1 DEF Entering
  <2>3. after = last
    <3>1. row' = row \/ \E r, t : row' = Saved(r, t)
      BY <1>14 DEF Commit, Committed
    <3> QED BY <1>6, <3>1 DEF Saved, RowShape
  <2>4. \/ ledger' = ledger
        \/ \E n : ledger' = [k \in DOMAIN ledger \cup {n} |->
                               IF k \in DOMAIN ledger THEN ledger[k]
                               ELSE [win |-> h.win, tries |-> 0]]
    BY <1>14 DEF Commit
  <2>5. WindowBase(after, lim, ledger')
    <3>1. CASE ledger' = ledger
      BY <1>4, <2>3, <3>1
    <3>2. ASSUME NEW n, ledger' = [k \in DOMAIN ledger \cup {n} |->
                                     IF k \in DOMAIN ledger THEN ledger[k]
                                     ELSE [win |-> h.win, tries |-> 0]]
          PROVE  WindowBase(after, lim, ledger')
      <4> HIDE DEF h, last, after, lim
      <4>1. DOMAIN ledger' = DOMAIN ledger \cup {n}
        BY <3>2
      <4>2. \A k \in DOMAIN ledger' : ledger'[k].win = IF k \in DOMAIN ledger THEN ledger[k].win
                                                       ELSE h.win
        BY <3>2
      <4>3. \A k \in DOMAIN ledger : ledger[k].win \in Int
        BY <1>4 DEF Shapes, EntryShape
      <4> QED BY <1>4, <1>5, <1>6, <2>2, <2>3, <4>1, <4>2, <4>3 DEF WindowBase
    <3> QED BY <2>4, <3>1, <3>2
  <2>6. \/ Drop(i) \/ Throw(i)
        \/ \E p \in {"execute", "audit"} : slot' = Advance(i, Next1(p)) /\ live' = live
    BY <1>14 DEF Commit, Quietly
  <2> HIDE DEF Next1
  <2> QED BY <1>3, <1>8, <2>5, <2>6
<1> QED BY <1>10, <1>11, <1>12, <1>13, <1>14 DEF Work

\* No two triggers enter the same window of a series as long as nobody else claims
\* (claimSeriesWindow).
THEOREM WindowsOnce == Spec => []SeriesWindowOnce
<1>1. Init => WindowInv
  <2> SUFFICES ASSUME Init PROVE WindowInv
    OBVIOUS
  <2>1. now = 0 /\ row.lastWin = -1 /\ DOMAIN ledger = {} /\ live = 0
    BY DEF Init, NewRow, None
  <2>2. OneWriter
    BY BlankShape DEF Init, OneWriter
  <2>3. now \div WindowLen \in Nat
    BY <2>1, LiveWindow
  <2> QED BY <2>1, <2>2, <2>3 DEF WindowInv, WindowBase, LiveHead
<1>2. AttemptInv /\ AttemptInv' /\ WindowInv /\ [Next]_vars => WindowInv'
  <2> SUFFICES ASSUME AttemptInv, AttemptInv', WindowInv, [Next]_vars PROVE WindowInv'
    OBVIOUS
  <2>1. CASE UNCHANGED vars
    BY <2>1 DEF vars, WindowInv, OneWriter, LiveHead
  <2> QED BY <2>1, WindowOthers, WindowWork DEF Next
<1>3. WindowInv => SeriesWindowOnce
  BY DEF WindowInv, WindowBase, SeriesWindowOnce
<1> QED BY <1>1, <1>2, <1>3, AttemptInit, AttemptStep, PTL DEF Spec

-----------------------------------------------------------------------------
(* The types: what the shapes leave open.                                   *)

\* A runtime at t: the last trigger is the end of it, and a rule that waits holds no
\* window.
GoodRt(r, t) ==
  /\ r.since >= None /\ r.stale >= None /\ r.stale <= t /\ r.last >= None /\ r.cool >= None
  /\ r.count \in 0..MaxRepeats /\ r.wm \in Prices \cup {None}
  /\ r.status \in Evaluable \cup {"PAUSED"} => r.count < MaxRepeats
  /\ r.status = "ACTIVE_WAITING" => r.since = None

GoodOut(res, t) == GoodRt(res.rt, t) /\ (res.fired => res.rt.count >= 1)

\* Only a trigger enters a window, or is refunded.
GoodJob(job, t) ==
  /\ GoodOut(job.out, t) /\ job.at \in 0..t /\ job.win \in Windows
  /\ job.refund \/ job.pc \in {"claim", "skip"} => job.out.fired

GoodSlot(s, t) ==
  /\ GoodRt(s.rt, t) /\ s.lastWin \in Windows /\ Len(s.chain) <= MaxQueue
  /\ \A k \in 1..Len(s.chain) : GoodJob(s.chain[k], t)

GoodRow(q, t) ==
  /\ q.since >= None /\ q.stale >= None /\ q.stale <= t /\ q.cool >= None /\ q.evalAt >= None
  /\ q.count \in 0..MaxRepeats /\ q.lastWin \in Windows
  /\ q.status \in Evaluable \cup {"PAUSED"} => q.count < MaxRepeats
  /\ q.status = "ACTIVE_WAITING" => q.since = None

GoodSlots(s, t) == \A j \in 1..Slots : GoodSlot(s[j], t)

TypeInv ==
  /\ now \in 0..Horizon /\ up \in BOOLEAN /\ apart \in BOOLEAN
  /\ GoodSlots(slot, now) /\ GoodRow(row, now) /\ GoodRow(reload.row, now)
  /\ reload.pc = "listed" => reload.row.status \in Evaluable

\* A result without a trigger is as good as its runtime.
LEMMA NoTrigger ==
  ASSUME NEW p, NEW n, NEW t, GoodRt(n, t)
  PROVE  /\ \A reason \in BOOLEAN : GoodOut(To(p, n, reason), t)
         /\ GoodOut(Flag(n), t) /\ GoodOut(Keep(n), t)
BY Zenon DEF To, Flag, Keep, GoodOut

\* The end of a window.
LEMMA ResetGood ==
  ASSUME NEW r \in RtShape, NEW t \in Nat, GoodRt(r, t), r.status \notin Terminal,
         NEW wm \in Prices \cup {None}, NEW s \in Terminal
  PROVE  /\ GoodOut(Reset(r, t, wm), t) /\ GoodOut(Ended(r, s, t), t)
         /\ r.status # "ACTIVE_WAITING" => GoodOut(ObserveStale(r, t, wm), t)
         /\ GoodOut(To(r, [r EXCEPT !.last = t], FALSE), t)
         /\ GoodOut(To(r, [r EXCEPT !.since = None, !.stale = None, !.last = t], FALSE), t)
         /\ GoodOut(To(r, [r EXCEPT !.since = None, !.stale = None, !.last = t, !.wm = wm],
                       FALSE), t)
<1>1. r.status \in Evaluable \cup {"PAUSED"} /\ r.count \in 0..MaxRepeats /\ r.count < MaxRepeats
  BY DEF GoodRt, RtShape, Status
<1>2. s \notin Evaluable \cup {"PAUSED"} /\ s # "ACTIVE_WAITING"
  BY DEF Terminal, Evaluable
<1>3. GoodOut(Reset(r, t, wm), t)
  <2>1. GoodRt([r EXCEPT !.status = "ACTIVE_WAITING", !.since = None, !.stale = None,
                         !.last = t, !.wm = wm], t)
    BY <1>1 DEF GoodRt, RtShape, None
  <2> QED BY <2>1, NoTrigger DEF Reset
<1>4. GoodOut(Ended(r, s, t), t)
  <2>1. GoodRt([r EXCEPT !.status = s, !.since = None, !.stale = None, !.last = t], t)
    BY <1>1, <1>2 DEF GoodRt, RtShape, None
  <2> QED BY <2>1, NoTrigger DEF Ended
<1>5. ASSUME r.status # "ACTIVE_WAITING" PROVE GoodOut(ObserveStale(r, t, wm), t)
  <2>1. GoodRt([r EXCEPT !.stale = t, !.last = t, !.wm = wm], t)
    BY <1>1, <1>5 DEF GoodRt, RtShape, None
  <2>2. GoodRt([r EXCEPT !.last = t, !.wm = wm], t)
    BY <1>1, <1>5 DEF GoodRt, RtShape, None
  <2> QED BY <1>3, <2>1, <2>2, NoTrigger DEF ObserveStale
<1>6. /\ GoodRt([r EXCEPT !.last = t], t)
      /\ GoodRt([r EXCEPT !.since = None, !.stale = None, !.last = t], t)
      /\ GoodRt([r EXCEPT !.since = None, !.stale = None, !.last = t, !.wm = wm], t)
  BY <1>1 DEF GoodRt, RtShape, None
<1> QED BY <1>3, <1>4, <1>5, <1>6, NoTrigger

\* A satisfied observation.
LEMMA HitGood ==
  ASSUME NEW p \in RtShape, NEW r \in RtShape, NEW t \in Nat, GoodRt(r, t),
         r.status \in Evaluable, NEW wm \in Prices \cup {None}
  PROVE  GoodOut(Hit(p, r, t, wm), t)
<1>1. r.count \in 0..MaxRepeats /\ r.count < MaxRepeats /\ MaxRepeats \in Nat \ {0} /\ Cooldown \in Nat
  BY ConstantTypes DEF GoodRt
<1>2. Since(r, t) \in Int /\ Since(r, t) >= None
  BY ConstantTypes DEF Since, GoodRt, RtShape, None
<1>3. GoodOut(Fire(r, t, Since(r, t), wm), t)
  BY <1>1, <1>2 DEF Fire, Rearm, GoodOut, GoodRt, Evaluable, None
<1>4. GoodRt([r EXCEPT !.status = "ACTIVE_ACCUMULATING", !.since = Since(r, t), !.stale = None,
                       !.last = t, !.wm = wm], t)
  BY <1>1, <1>2 DEF GoodRt, RtShape, None
<1> QED BY <1>3, <1>4, NoTrigger DEF Hit

\* An observation of the data.
LEMMA ObserveGood ==
  ASSUME NEW r \in RtShape, NEW t \in Nat, GoodRt(r, t), r.status \in Evaluable, NEW v \in Views
  PROVE  GoodOut(Observe(r, v, t), t)
<1> DEFINE c == [r EXCEPT !.cool = None]
           w == Watermark(r.wm, v)
<1>1. r.status \notin Terminal /\ r.wm \in Prices \cup {None}
  BY DEF Evaluable, Terminal, GoodRt
<1>2. w \in Prices \cup {None}
  <2>1. v.ref \in Prices \cup {None}
    BY EvaluatorAssumption DEF View
  <2> QED BY <1>1, <2>1 DEF Watermark
<1>3. /\ c \in RtShape /\ GoodRt(c, t) /\ c.status = r.status
  BY Literals DEF RtShape, GoodRt, None
<1> HIDE DEF c, w
<1>4. GoodOut(Hit(r, c, t, w), t)
  BY <1>2, <1>3, HitGood
<1>5. GoodOut(Miss(r, c, v, t, w), t)
  <2>1. GoodOut(Reset(c, t, w), t) /\ (c.status # "ACTIVE_WAITING" => GoodOut(ObserveStale(c, t, w), t))
    BY <1>1, <1>2, <1>3, ResetGood DEF Terminal
  <2>2. GoodRt([c EXCEPT !.since = None, !.stale = None, !.last = t, !.wm = w], t)
    BY <1>2, <1>3 DEF GoodRt, RtShape, None
  <2> QED BY <2>1, <2>2, NoTrigger DEF Miss
<1>6. /\ GoodOut(Ended(r, "EXPIRED", t), t) /\ GoodOut(Ended(r, "INVALIDATED", t), t)
      /\ GoodOut(Reset(r, t, r.wm), t)
      /\ GoodOut(To(r, [r EXCEPT !.last = t], FALSE), t)
      /\ GoodOut(To(r, [r EXCEPT !.since = None, !.stale = None, !.last = t], FALSE), t)
  BY <1>1, ResetGood DEF Terminal
<1> QED BY <1>4, <1>5, <1>6 DEF Observe, c, w

\* What an event makes of a good runtime.
LEMMA TransitionGood ==
  ASSUME NEW r \in RtShape, NEW e, e.now \in Nat, GoodRt(r, e.now), e.view \in Views \cup {NoView}
  PROVE  GoodOut(Transition(r, e), e.now)
<1> DEFINE t == e.now
<1>1. GoodOut(Keep(r), t)
  BY NoTrigger
<1>2. ASSUME r.status \notin Terminal
      PROVE  /\ \A s \in {"CANCELLED", "EXPIRED", "INVALIDATED"} : GoodOut(Ended(r, s, t), t)
             /\ GoodOut(Reset(r, t, r.wm), t)
             /\ r.status # "ACTIVE_WAITING" => GoodOut(ObserveStale(r, t, r.wm), t)
  <2>1. r.wm \in Prices \cup {None} /\ {"CANCELLED", "EXPIRED", "INVALIDATED"} \subseteq Terminal
    BY DEF GoodRt, Terminal
  <2> QED BY <1>2, <2>1, ResetGood
<1>3. ASSUME r.status \notin Terminal
      PROVE  GoodOut(Paused(r, t), t) /\ GoodOut(Resumed(r, t), t)
  <2>1. r.count \in 0..MaxRepeats /\ r.count < MaxRepeats
    BY <1>3 DEF GoodRt, RtShape, Status
  <2>2. /\ GoodRt([r EXCEPT !.status = "PAUSED", !.since = None, !.last = t], t)
        /\ GoodRt([r EXCEPT !.status = "ACTIVE_WAITING", !.since = None, !.last = t], t)
    BY <2>1 DEF GoodRt, RtShape, None
  <2> QED BY <1>1, <2>2, NoTrigger DEF Paused, Resumed
<1>4. ASSUME r.status = "ACTIVE_ACCUMULATING" PROVE GoodOut(Interrupted(r, e), t)
  BY <1>2, <1>4 DEF Interrupted, Terminal
<1>5. ASSUME r.status \in Evaluable PROVE GoodOut(Blind(r, t), t)
  BY <1>1, <1>2, <1>5 DEF Blind, Terminal, Evaluable
<1>6. ASSUME r.status \in Evaluable, e.view # NoView PROVE GoodOut(Observe(r, e.view, t), t)
  BY <1>6, ObserveGood
<1> QED BY <1>1, <1>2, <1>3, <1>4, <1>5, <1>6 DEF Transition

\* What was good stays good.
LEMMA GoodAges ==
  ASSUME NEW t \in Int, NEW u \in Int, t <= u
  PROVE  /\ \A r \in RtShape : GoodRt(r, t) => GoodRt(r, u)
         /\ \A j \in JobShape : GoodJob(j, t) => GoodJob(j, u)
         /\ \A s \in SlotShape : GoodSlot(s, t) => GoodSlot(s, u)
         /\ \A q \in RowShape : GoodRow(q, t) => GoodRow(q, u)
<1>1. ASSUME NEW r \in RtShape, GoodRt(r, t) PROVE GoodRt(r, u)
  BY <1>1 DEF GoodRt, RtShape
<1>2. ASSUME NEW j \in JobShape, GoodJob(j, t) PROVE GoodJob(j, u)
  <2>1. j.out.rt \in RtShape /\ j.at \in Int
    BY DEF JobShape, Result
  <2> QED BY <1>1, <1>2, <2>1 DEF GoodJob, GoodOut
<1>3. ASSUME NEW s \in SlotShape, GoodSlot(s, t) PROVE GoodSlot(s, u)
  <2>1. s.rt \in RtShape /\ s.chain \in Seq(JobShape)
    BY DEF SlotShape
  <2>2. \A k \in 1..Len(s.chain) : s.chain[k] \in JobShape
    BY <2>1
  <2> QED BY <1>1, <1>2, <1>3, <2>1, <2>2 DEF GoodSlot
<1>4. ASSUME NEW q \in RowShape, GoodRow(q, t) PROVE GoodRow(q, u)
  BY <1>4 DEF GoodRow, RowShape
<1> QED BY <1>1, <1>2, <1>3, <1>4

-----------------------------------------------------------------------------
(* Good chains.                                                             *)

GoodChain(c, t) == Len(c) <= MaxQueue /\ \A k \in 1..Len(c) : GoodJob(c[k], t)

\* A chain that is shortened, advanced or extended.
LEMMA ChainGood ==
  ASSUME NEW t, NEW c \in Seq(JobShape), GoodChain(c, t), NEW job \in JobShape, GoodJob(job, t)
  PROVE  /\ GoodChain(<<>>, t)
         /\ c # <<>> => GoodJob(c[1], t) /\ GoodChain(Tail(c), t) /\ GoodChain([c EXCEPT ![1] = job], t)
         /\ Len(c) < MaxQueue => GoodChain(Append(c, job), t)
<1>1. MaxQueue \in Nat
  BY EvaluatorAssumption
<1>2. GoodChain(<<>>, t)
  BY <1>1 DEF GoodChain
<1>3. ASSUME c # <<>> PROVE GoodJob(c[1], t) /\ GoodChain(Tail(c), t)
  <2>1. Len(c) # 0
    BY <1>3, EmptyChain
  <2>2. /\ Len(Tail(c)) = Len(c) - 1 /\ \A k \in 1..Len(Tail(c)) : Tail(c)[k] = c[k + 1]
    BY <1>3, <2>1
  <2>3. \A k \in 1..Len(Tail(c)) : k + 1 \in 1..Len(c)
    BY <2>1, <2>2
  <2> QED BY <1>1, <2>1, <2>2, <2>3 DEF GoodChain
<1>4. ASSUME c # <<>> PROVE GoodChain([c EXCEPT ![1] = job], t)
  <2> DEFINE d == [c EXCEPT ![1] = job]
  <2>1. Len(d) = Len(c) /\ \A k \in 1..Len(c) : d[k] = IF k = 1 THEN job ELSE c[k]
    BY <1>4
  <2> HIDE DEF d
  <2>2. GoodChain(d, t)
    BY <2>1 DEF GoodChain
  <2> QED BY <2>2 DEF d
<1>5. ASSUME Len(c) < MaxQueue PROVE GoodChain(Append(c, job), t)
  <2>1. Len(Append(c, job)) = Len(c) + 1
    OBVIOUS
  <2>2. \A k \in 1..(Len(c) + 1) : Append(c, job)[k] = IF k = Len(c) + 1 THEN job ELSE c[k]
    OBVIOUS
  <2>3. \A k \in 1..(Len(c) + 1) : k = Len(c) + 1 \/ k \in 1..Len(c)
    OBVIOUS
  <2> QED BY <1>1, <1>5, <2>1, <2>2, <2>3 DEF GoodChain
<1> QED BY <1>2, <1>3, <1>4, <1>5

\* An in-memory rule that is not there.
LEMMA BlankGood == ASSUME NEW t \in Nat PROVE GoodSlot(Blank, t)
<1>1. MaxQueue \in Nat /\ MaxRepeats \in Nat \ {0} /\ None \in Windows
  BY EvaluatorAssumption, ConstantTypes DEF Windows
<1>2. GoodRt(InitialRuntime, t)
  BY <1>1 DEF InitialRuntime, GoodRt, None
<1> QED BY <1>1, <1>2 DEF Blank, GoodSlot

\* What the helpers of the write chain make of good slots.
LEMMA SlotsGood ==
  ASSUME Shapes, Tidy, NEW t \in Nat, GoodSlots(slot, t),
         NEW i \in 1..Slots, slot[i].chain # <<>>
  PROVE  /\ GoodJob(Head1(i), t)
         /\ GoodSlots(Done(i), t)
         /\ \A job \in JobShape : GoodJob(job, t) => GoodSlots(Advance(i, job), t)
         /\ \A s : GoodSlots(s, t) => GoodSlots(Remove(s), t)
<1> DEFINE c == slot[i].chain
<1>1. slot \in [1..Slots -> SlotShape] /\ slot[i] \in SlotShape /\ c \in Seq(JobShape)
  BY DEF Shapes, SlotShape
<1>2. GoodSlot(slot[i], t) /\ GoodChain(c, t)
  BY DEF GoodSlots, GoodSlot, GoodChain
<1>3. ASSUME NEW d \in Seq(JobShape), GoodChain(d, t)
      PROVE  GoodSlots([slot EXCEPT ![i].chain = d], t)
  <2>1. GoodSlot([slot[i] EXCEPT !.chain = d], t)
    BY <1>1, <1>2, <1>3 DEF GoodSlot, GoodChain, SlotShape
  <2>2. [slot EXCEPT ![i].chain = d] = [slot EXCEPT ![i] = [slot[i] EXCEPT !.chain = d]]
    OBVIOUS
  <2> QED BY <1>1, <2>1, <2>2 DEF GoodSlots
<1>4. c[1] \in JobShape /\ GoodJob(c[1], t) /\ GoodChain(Tail(c), t) /\ Tail(c) \in Seq(JobShape)
  <2>1. Len(c) # 0
    <3> HIDE DEF c
    <3> QED BY <1>1, EmptyChain DEF c
  <2>2. c[1] \in JobShape /\ GoodJob(c[1], t)
    <3> HIDE DEF c
    <3> QED BY <1>1, <1>2, <2>1 DEF GoodChain
  <2> HIDE DEF c
  <2> QED BY <1>1, <1>2, <2>1, <2>2, ChainGood
<1>5. GoodSlots(Done(i), t)
  <2>1. GoodSlots([slot EXCEPT ![i] = Blank], t)
    BY <1>1, BlankGood DEF GoodSlots
  <2> QED BY <1>3, <1>4, <2>1 DEF Done
<1>6. ASSUME NEW job \in JobShape, GoodJob(job, t) PROVE GoodSlots(Advance(i, job), t)
  <2> DEFINE d == [c EXCEPT ![1] = job]
  <2>1. d \in Seq(JobShape) /\ GoodChain(d, t)
    <3> HIDE DEF c
    <3> QED BY <1>1, <1>2, <1>6, ChainGood, SMTT(30) DEF c
  <2>2. Advance(i, job) = [slot EXCEPT ![i].chain = d]
    BY <1>1 DEF Advance
  <2> HIDE DEF d
  <2> QED BY <1>3, <2>1, <2>2
<1>7. ASSUME NEW s, GoodSlots(s, t) PROVE GoodSlots(Remove(s), t)
  BY <1>7, BlankGood DEF GoodSlots, Remove
<1> QED BY <1>4, <1>5, <1>6, <1>7 DEF Head1

\* The first job with another place, or started over.
LEMMA JobGood ==
  ASSUME NEW job \in JobShape, NEW t \in Nat, GoodJob(job, t)
  PROVE  /\ \A p \in {"execute", "audit", "write"} : GoodJob([job EXCEPT !.pc = p], t)
         /\ job.out.fired =>
              /\ GoodJob([job EXCEPT !.pc = "skip"], t)
              /\ GoodJob([job EXCEPT !.pc = "write", !.refund = TRUE], t)
              /\ \A w \in Windows : GoodJob([job EXCEPT !.pc = "claim", !.win = w], t)
              /\ GoodRt(Refunded(job), t)
         /\ GoodJob([job EXCEPT !.pc = "start", !.win = None, !.refund = FALSE, !.retry = TRUE], t)
<1>1. \A p \in {"execute", "audit", "write"} : GoodJob([job EXCEPT !.pc = p], t)
  BY DEF GoodJob, JobShape
<1>2. None \in Windows
  BY DEF Windows
<1>3. GoodJob([job EXCEPT !.pc = "start", !.win = None, !.refund = FALSE, !.retry = TRUE], t)
  BY <1>2 DEF GoodJob, JobShape
<1>4. ASSUME job.out.fired
      PROVE  /\ GoodJob([job EXCEPT !.pc = "skip"], t)
             /\ GoodJob([job EXCEPT !.pc = "write", !.refund = TRUE], t)
             /\ \A w \in Windows : GoodJob([job EXCEPT !.pc = "claim", !.win = w], t)
  BY <1>4 DEF GoodJob, JobShape
<1>5. ASSUME job.out.fired PROVE GoodRt(Refunded(job), t)
  <2> DEFINE r == job.out.rt
             u == job.at + SkipRearm
             m == r.count - 1
  <2>1. r \in RtShape /\ GoodRt(r, t) /\ r.count >= 1 /\ r.count \in 0..MaxRepeats
    BY <1>5 DEF JobShape, Result, GoodJob, GoodOut, GoodRt
  <2>2. u \in Int /\ u >= None /\ m \in 0..MaxRepeats /\ m < MaxRepeats
    <3>1. job.at \in Int /\ job.at >= 0
      BY DEF GoodJob
    <3> QED BY <2>1, <3>1, ConstantTypes DEF SkipRearm, None
  <2>3. Refunded(job) = [r EXCEPT !.status = "ACTIVE_WAITING", !.since = None,
                                  !.count = m, !.cool = u]
    <3>1. Refunded(job) = [r EXCEPT !.status = "ACTIVE_WAITING", !.since = None,
                                    !.count = @ - 1, !.cool = u]
      BY Zenon DEF Refunded
    <3> HIDE DEF r, u
    <3> QED BY <2>1, <3>1 DEF RtShape
  <2> HIDE DEF r, u, m
  <2> QED BY <2>1, <2>2, <2>3 DEF GoodRt, RtShape, None
<1> QED BY <1>1, <1>3, <1>4, <1>5

\* What a step of a chain may leave behind.
LEMMA OutcomeGood ==
  ASSUME Shapes, Tidy, NEW t \in Nat, GoodSlots(slot, t),
         NEW i \in 1..Slots, slot[i].chain # <<>>,
         \/ Drop(i) \/ Throw(i) \/ slot' = Done(i)
         \/ \E job \in JobShape : GoodJob(job, t) /\ slot' = Advance(i, job)
  PROVE  GoodSlots(slot', t)
<1>1. CASE Drop(i)
  BY <1>1, SlotsGood DEF Drop
<1>2. CASE Throw(i)
  <2>1. CASE GiveUp(i)
    BY <1>1, <2>1 DEF GiveUp
  <2>2. CASE ~GiveUp(i)
    <3> DEFINE job == [Head1(i) EXCEPT !.pc = "start", !.win = None, !.refund = FALSE,
                                       !.retry = TRUE]
    <3>1. slot' = Advance(i, job)
      BY <1>2, <2>2 DEF Throw
    <3>2. Head1(i) \in JobShape /\ GoodJob(Head1(i), t)
      BY HeadShape, SlotsGood
    <3>3. job \in JobShape /\ GoodJob(job, t)
      <4>1. job \in JobShape
        BY <3>2, Literals DEF JobShape, JobPc
      <4> QED BY <3>2, <4>1, JobGood
    <3> HIDE DEF job
    <3> QED BY <3>1, <3>3, SlotsGood
  <2> QED BY <2>1, <2>2
<1>3. CASE slot' = Done(i)
  BY <1>3, SlotsGood
<1>4. ASSUME NEW job \in JobShape, GoodJob(job, t), slot' = Advance(i, job)
      PROVE  GoodSlots(slot', t)
  BY <1>4, SlotsGood
<1> QED BY <1>1, <1>2, <1>3, <1>4

-----------------------------------------------------------------------------
(* Every step keeps the types.                                              *)

\* What is read from a good row, and written to it.
LEMMA RowGood ==
  ASSUME NEW t \in Nat, NEW q \in RowShape, GoodRow(q, t)
  PROVE  /\ q.status \in Evaluable => GoodRt(Restored(q), t)
         /\ GoodRow([q EXCEPT !.status = "PAUSED", !.since = None, !.stale = None], t)
              \/ q.status \notin Evaluable
         /\ GoodRow([q EXCEPT !.status = "ACTIVE_WAITING", !.since = None, !.stale = None], t)
              \/ q.status # "PAUSED"
         /\ GoodRow([q EXCEPT !.status = "CANCELLED"], t)
         /\ GoodRow(NewRow, t)
<1>1. ASSUME q.status \in Evaluable PROVE GoodRt(Restored(q), t)
  BY <1>1 DEF Restored, CanResume, GoodRow, GoodRt, RowShape, None
<1>2. ASSUME q.status \in Evaluable
      PROVE  GoodRow([q EXCEPT !.status = "PAUSED", !.since = None, !.stale = None], t)
  BY <1>2 DEF GoodRow, RowShape, None
<1>3. ASSUME q.status = "PAUSED"
      PROVE  GoodRow([q EXCEPT !.status = "ACTIVE_WAITING", !.since = None, !.stale = None], t)
  BY <1>3 DEF GoodRow, RowShape, None
<1>4. GoodRow([q EXCEPT !.status = "CANCELLED"], t)
  BY DEF GoodRow, RowShape, Evaluable
<1>5. GoodRow(NewRow, t)
  BY ConstantTypes DEF NewRow, GoodRow, Windows, None
<1> QED BY <1>1, <1>2, <1>3, <1>4, <1>5

\* The reload.
LEMMA TypeReload == ASSUME AttemptInv, TypeInv, ReloadRead \/ ReloadApply PROVE TypeInv'
<1>1. /\ Shapes /\ Tidy /\ now \in Nat /\ row \in RowShape /\ reload.row \in RowShape
      /\ slot \in [1..Slots -> SlotShape]
  BY ConstantTypes DEF AttemptInv, Shapes, TypeInv
<1>2. CASE ReloadRead
  <2>1. GoodRow(reload'.row, now) /\ (reload'.pc = "listed" => reload'.row.status \in Evaluable)
    <3>1. GoodRow(NewRow, now) /\ GoodRow(row, now)
      BY <1>1, RowGood DEF TypeInv
    <3> QED BY <1>2, <3>1 DEF ReloadRead
  <2> QED BY <1>2, <2>1 DEF ReloadRead, TypeInv, GoodSlots
<1>3. CASE ReloadApply
  <2>1. now' = now /\ up' = up /\ row' = row /\ reload' = Idle
    BY <1>3 DEF ReloadApply
  <2>2. GoodRow(reload'.row, now) /\ reload'.pc = "idle"
    BY <1>1, <2>1, RowGood DEF Idle, TypeInv
  <2>3. apart' \in BOOLEAN
    BY <1>3 DEF ReloadApply, NoteApart
  <2>4. GoodSlots(slot', now)
    <3>1. CASE slot' = slot
      BY <3>1 DEF TypeInv
    <3>2. CASE slot' = Remove(slot)
      BY <1>1, <3>2, BlankGood DEF TypeInv, GoodSlots, Remove
    <3>3. ASSUME reload.pc = "listed", NEW i \in 1..Slots,
                 slot' = [slot EXCEPT ![i] = [rt |-> Restored(reload.row),
                                              lastWin |-> reload.row.lastWin, chain |-> <<>>]]
          PROVE  GoodSlots(slot', now)
      <4>1. GoodRt(Restored(reload.row), now) /\ reload.row.lastWin \in Windows
        BY <1>1, <3>3, RowGood DEF TypeInv, GoodRow
      <4> DEFINE q == [rt |-> Restored(reload.row), lastWin |-> reload.row.lastWin,
                       chain |-> <<>>]
      <4>2. GoodSlot(q, now)
        BY <4>1, EvaluatorAssumption DEF GoodSlot
      <4> HIDE DEF q
      <4> QED BY <1>1, <3>3, <4>2 DEF TypeInv, GoodSlots, q
    <3> QED BY <1>3, <3>1, <3>2, <3>3 DEF ReloadApply
  <2> QED BY <2>1, <2>2, <2>3, <2>4 DEF TypeInv, GoodSlots
<1> QED BY <1>2, <1>3

\* An event.
LEMMA ApplyGood ==
  ASSUME Shapes, Tidy, live # 0, NEW e, e.now \in Nat, e.view \in Views \cup {NoView},
         GoodSlots(slot, e.now), Apply(e)
  PROVE  GoodSlots(slot', e.now)
<1> DEFINE s == slot[live]
           res == Transition(s.rt, e)
           save == \/ res.fired \/ res.noted
                   \/ res.rt.count # s.rt.count \/ res.rt.cool # s.rt.cool
                   \/ res.rt.stale # s.rt.stale
           job == [out |-> res, at |-> e.now, pc |-> "start", win |-> None,
                   refund |-> FALSE, retry |-> FALSE]
           d == IF save THEN Append(s.chain, job) ELSE s.chain
           z == [s EXCEPT !.rt = res.rt, !.chain = d]
<1>1. /\ live \in 1..Slots /\ slot \in [1..Slots -> SlotShape] /\ s \in SlotShape
      /\ GoodSlot(s, e.now)
  BY ConstantTypes DEF Shapes, GoodSlots
<1>2. s.rt \in RtShape /\ s.chain \in Seq(JobShape) /\ GoodRt(s.rt, e.now)
      /\ GoodChain(s.chain, e.now) /\ s.lastWin \in Windows
  BY <1>1 DEF SlotShape, GoodSlot, GoodChain
<1>3. GoodOut(res, e.now) /\ res \in Result
  BY <1>2, TransitionGood, TransitionShape
<1>4. GoodJob(job, e.now) /\ job \in JobShape
  <2> HIDE DEF res
  <2> QED BY <1>3, Literals DEF GoodJob, Windows, JobShape, JobPc
<1>5. slot' = [slot EXCEPT ![live].rt = res.rt,
                           ![live].chain = IF save THEN Append(@, job) ELSE @]
      /\ (save => Len(s.chain) < MaxQueue)
  BY DEF Apply
<1> HIDE DEF res, job, save
<1>6. slot' = [slot EXCEPT ![live] = z]
  BY <1>1, <1>5 DEF SlotShape
<1>7. GoodChain(d, e.now)
  <2> HIDE DEF s
  <2> QED BY <1>2, <1>4, <1>5, ChainGood
<1>8. GoodSlot(z, e.now)
  <2>1. z.rt = res.rt /\ z.lastWin = s.lastWin /\ z.chain = d
    <3> HIDE DEF d
    <3> QED BY <1>1 DEF SlotShape
  <2> HIDE DEF z, d, s
  <2> QED BY <1>2, <1>3, <1>7, <2>1 DEF GoodSlot, GoodChain, GoodOut
<1> HIDE DEF z
<1> QED BY <1>1, <1>6, <1>8 DEF GoodSlots

\* Ticks and events.
LEMMA TypeEvents == ASSUME AttemptInv, TypeInv, Tick \/ Event PROVE TypeInv'
<1>1. /\ Shapes /\ Tidy /\ now \in Nat /\ row \in RowShape /\ reload.row \in RowShape
      /\ slot \in [1..Slots -> SlotShape] /\ now \in 0..Horizon /\ Horizon \in Nat
  BY ConstantTypes DEF AttemptInv, Shapes, TypeInv
<1>2. now' \in 0..Horizon /\ now <= now' /\ now' \in Nat
  BY <1>1 DEF Tick, Event
<1>3. GoodSlots(slot, now') /\ GoodRow(row, now') /\ GoodRow(reload.row, now')
  BY <1>1, <1>2, GoodAges DEF TypeInv, GoodSlots
<1>4. GoodSlots(slot', now')
  <2>1. CASE slot' = slot
    BY <1>3, <2>1
  <2>2. ASSUME live # 0, NEW v \in Views, Apply([type |-> "tick", now |-> now', view |-> v])
        PROVE  GoodSlots(slot', now')
    BY <1>1, <1>2, <1>3, <2>2, ApplyGood
  <2>3. ASSUME live # 0, now' = now, NEW e \in Events(now, Views), Apply(e)
        PROVE  GoodSlots(slot', now')
    <3>1. e.now = now /\ e.view \in Views \cup {NoView}
      BY DEF Events
    <3> QED BY <1>1, <1>3, <2>3, <3>1, ApplyGood
  <2>4. CASE Tick
    <3>1. CASE up /\ live # 0
      <4>1. PICK v \in Views : Apply([type |-> "tick", now |-> now', view |-> v])
        BY <2>4, <3>1 DEF Tick
      <4> QED BY <2>2, <3>1, <4>1
    <3>2. CASE ~(up /\ live # 0)
      BY <2>1, <2>4, <3>2 DEF Tick
    <3> QED BY <3>1, <3>2
  <2>5. CASE Event
    BY <2>3, <2>5 DEF Event
  <2> QED BY <2>4, <2>5
<1>5. row' = row /\ reload' = reload /\ up' = up /\ apart' = apart
  BY DEF Tick, Event
<1> QED BY <1>2, <1>3, <1>4, <1>5 DEF TypeInv

\* The user, the crash and the restart.
LEMMA TypeControl ==
  ASSUME AttemptInv, TypeInv, Pause \/ Resume \/ Cancel \/ Crash \/ Start
  PROVE  TypeInv'
<1>1. /\ Shapes /\ now \in Nat /\ row \in RowShape /\ reload.row \in RowShape /\ GoodRow(row, now)
  BY ConstantTypes DEF AttemptInv, Shapes, TypeInv
<1>2. now' = now /\ apart' = apart
  BY DEF Pause, Resume, Cancel, Crash, Start
<1>3. up' \in BOOLEAN
  BY DEF TypeInv, Pause, Resume, Cancel, Crash, Start
<1>4. GoodRow(row', now)
  BY <1>1, RowGood DEF Pause, Resume, Cancel, Crash, Start
<1>5. GoodSlots(slot', now)
  BY <1>1, BlankGood DEF TypeInv, GoodSlots, Pause, Resume, Cancel, Crash, Start
<1>6. GoodRow(reload'.row, now) /\ (reload'.pc = "listed" => reload'.row.status \in Evaluable)
  <2>1. GoodRow(Idle.row, now) /\ Idle.pc # "listed"
    BY <1>1, RowGood DEF Idle
  <2> QED BY <2>1 DEF TypeInv, Pause, Resume, Cancel, Crash, Start
<1> QED BY <1>2, <1>3, <1>4, <1>5, <1>6 DEF TypeInv

\* The write chain.
LEMMA TypeWork == ASSUME AttemptInv, TypeInv, NEW i \in 1..Slots, Work(i) PROVE TypeInv'
<1> DEFINE h == Head1(i)
           c == slot[i].chain
<1>1. /\ Shapes /\ Tidy /\ now \in Nat /\ row \in RowShape /\ slot \in [1..Slots -> SlotShape]
      /\ GoodRow(row, now) /\ GoodSlots(slot, now) /\ now \in 0..Horizon
  BY ConstantTypes DEF AttemptInv, Shapes, TypeInv
<1>2. now' = now /\ up' = up /\ reload' = reload /\ c # <<>>
  BY DEF Work, Resolve, Claim, Skip, SaveState, Commit, Execute, Finish, Ready
<1>3. apart' \in BOOLEAN
  BY DEF Work, NoteApart
<1>4. h \in JobShape /\ GoodJob(h, now) /\ h.win \in Windows
  BY <1>1, <1>2, HeadShape, SlotsGood DEF GoodJob
<1>5. \A p \in {"execute", "audit", "write", "skip"} : [h EXCEPT !.pc = p] \in JobShape
  <2> HIDE DEF h
  <2> QED BY <1>4 DEF JobShape, JobPc
<1>6. h.out.rt \in RtShape /\ GoodRt(h.out.rt, now) /\ h.at \in Nat /\ h.at <= now
  <2> HIDE DEF h
  <2> QED BY <1>1, <1>4 DEF JobShape, Result, GoodJob, GoodOut
<1>7. ASSUME NEW r \in RtShape, GoodRt(r, now) PROVE GoodRow(Saved(r, h.at), now)
  <2> HIDE DEF h
  <2> QED BY <1>1, <1>6, <1>7, SMTT(30) DEF Saved, GoodRow, GoodRt, RowShape, RtShape, None
<1>8. GoodRow(row', now)
  <2>1. GoodRow(Claimed(h.win), now)
    <3> HIDE DEF h
    <3> QED BY <1>1, <1>4 DEF Claimed, GoodRow, RowShape
  <2>2. h.refund => h.out.fired /\ Refunded(h) \in RtShape /\ GoodRt(Refunded(h), now)
    <3> HIDE DEF h
    <3>1. Refunded(h) \in RtShape
      BY <1>4, Literals, JobSteps
    <3> QED BY <1>1, <1>4, <3>1, JobGood DEF GoodJob
  <2>3. \/ row' = row \/ row' = Claimed(h.win) \/ row' = Saved(h.out.rt, h.at)
        \/ h.refund /\ row' = Saved(Refunded(h), h.at)
    <3>1. CASE Resolve(i) \/ Claim(i) \/ Skip(i)
      BY <3>1 DEF Resolve, Claim, Skip
    <3>2. CASE SaveState(i)
      BY <3>2 DEF SaveState
    <3>3. CASE Commit(i) \/ Execute(i) \/ Finish(i)
      BY <3>3 DEF Commit, Committed, Execute, Finish
    <3> QED BY <3>1, <3>2, <3>3 DEF Work
  <2> HIDE DEF h
  <2> QED BY <1>1, <1>6, <1>7, <2>1, <2>2, <2>3
<1>9. GoodSlots(slot', now)
  <2>1. CASE \/ Drop(i) \/ Throw(i) \/ slot' = Done(i)
             \/ \E p \in {"execute", "audit"} : slot' = Advance(i, [h EXCEPT !.pc = p])
    <3>1. \A p \in {"execute", "audit"} : GoodJob([h EXCEPT !.pc = p], now)
      <4> HIDE DEF h
      <4> QED BY <1>1, <1>4, JobGood
    <3> HIDE DEF h
    <3> QED BY <1>1, <1>2, <1>5, <2>1, <3>1, OutcomeGood
  <2>2. CASE Resolve(i)
    <3> DEFINE w == now \div WindowLen
               job == [h EXCEPT !.pc = "claim", !.win = w]
    <3>1. w \in Windows /\ w \in Int
      <4>1. now \div WindowLen \in 0..now
        BY <1>1, ConstantTypes
      <4> QED BY <1>1, <4>1, ConstantTypes DEF Windows
    <3>2. h.out.fired
      BY <2>2 DEF Resolve
    <3>3. /\ job \in JobShape /\ GoodJob(job, now)
          /\ GoodJob([h EXCEPT !.pc = "skip"], now)
      <4> HIDE DEF h, w
      <4> QED BY <1>1, <1>4, <3>1, <3>2, JobSteps, JobGood
    <3>4. slot' = Advance(i, job) \/ slot' = Advance(i, [h EXCEPT !.pc = "skip"])
      BY <2>2 DEF Resolve
    <3> HIDE DEF h, job
    <3> QED BY <1>1, <1>2, <1>5, <3>3, <3>4, OutcomeGood
  <2>3. CASE Claim(i) \/ Skip(i)
    <3>1. h.out.fired
      <4>1. h.pc \in {"claim", "skip"}
        BY <2>3 DEF Claim, Skip, Ready
      <4> HIDE DEF h
      <4> QED BY <1>4, <4>1 DEF GoodJob
    <3> DEFINE job == [h EXCEPT !.pc = "write"]
               ref == [h EXCEPT !.pc = "write", !.refund = TRUE]
    <3>2. /\ GoodJob(job, now) /\ GoodJob([h EXCEPT !.pc = "skip"], now) /\ GoodJob(ref, now)
          /\ GoodRt(Refunded(h), now) /\ job \in JobShape /\ ref \in JobShape
          /\ Refunded(h) \in RtShape
      <4>1. ref \in JobShape /\ Refunded(h) \in RtShape
        <5> HIDE DEF h
        <5> QED BY <1>4, Literals, JobSteps
      <4>2. job \in JobShape
        BY <1>5
      <4> HIDE DEF h
      <4> QED BY <1>1, <1>4, <3>1, <4>1, <4>2, JobGood
    <3>3. /\ GoodSlots(Advance(i, job), now) /\ GoodSlots(Advance(i, ref), now)
          /\ Advance(i, job) \in [1..Slots -> SlotShape]
          /\ Advance(i, ref) \in [1..Slots -> SlotShape]
      <4> HIDE DEF job, ref, h
      <4> QED BY <1>1, <1>2, <3>2, SlotsGood, AdvanceShape DEF SlotsTyped
    <3>4. ASSUME NEW s \in [1..Slots -> SlotShape], GoodSlots(s, now)
          PROVE  /\ GoodSlots([s EXCEPT ![i].lastWin = h.win], now)
                 /\ GoodSlots([s EXCEPT ![i].rt = Refunded(h)], now)
      <4> HIDE DEF h
      <4>1. /\ [s EXCEPT ![i].lastWin = h.win] = [s EXCEPT ![i] = [s[i] EXCEPT !.lastWin = h.win]]
            /\ [s EXCEPT ![i].rt = Refunded(h)] = [s EXCEPT ![i] = [s[i] EXCEPT !.rt = Refunded(h)]]
        OBVIOUS
      <4>2. /\ GoodSlot([s[i] EXCEPT !.lastWin = h.win], now)
            /\ GoodSlot([s[i] EXCEPT !.rt = Refunded(h)], now)
        BY <1>4, <3>2, <3>4 DEF GoodSlots, GoodSlot, SlotShape
      <4> QED BY <3>4, <4>1, <4>2 DEF GoodSlots
    <3>5. \/ Throw(i) \/ slot' = Advance(i, [h EXCEPT !.pc = "skip"])
          \/ slot' = [Advance(i, job) EXCEPT ![i].lastWin = h.win]
          \/ slot' = [Advance(i, ref) EXCEPT ![i].rt = Refunded(h)]
      BY <2>3 DEF Claim, Skip
    <3>6. CASE Throw(i)
      BY <2>1, <3>6
    <3>7. CASE slot' = Advance(i, [h EXCEPT !.pc = "skip"])
      <4> HIDE DEF h
      <4> QED BY <1>1, <1>2, <1>5, <3>2, <3>7, OutcomeGood
    <3> HIDE DEF h, job, ref
    <3> QED BY <3>3, <3>4, <3>5, <3>6, <3>7 DEF h
  <2>4. CASE SaveState(i) \/ Finish(i)
    BY <2>1, <2>4 DEF SaveState, Finish
  <2>5. CASE Commit(i)
    BY <2>1, <2>5 DEF Commit
  <2>6. CASE Execute(i)
    BY <2>1, <2>6 DEF Execute
  <2> QED BY <2>2, <2>3, <2>4, <2>5, <2>6 DEF Work
<1> QED BY <1>2, <1>3, <1>8, <1>9 DEF TypeInv

\* Every variable keeps its type, a trigger count never passes maxRepeats, no chain
\* its bound, and a row that waits holds no open window.
THEOREM TypeCorrect == Spec => []TypeOK
<1>1. Init => TypeInv
  <2> SUFFICES ASSUME Init PROVE TypeInv
    OBVIOUS
  <2>1. now = 0 /\ now \in Nat /\ 0 \in 0..Horizon
    BY ConstantTypes DEF Init
  <2>2. GoodRow(NewRow, now) /\ GoodSlots(slot, now)
    <3>1. NewRow \in RowShape
      BY Literals DEF NewRow, RowShape
    <3>2. GoodRow(NewRow, now)
      BY <2>1, ConstantTypes DEF NewRow, GoodRow, Windows, None
    <3> QED BY <2>1, <3>2, BlankGood DEF Init, GoodSlots
  <2> QED BY <2>1, <2>2 DEF Init, TypeInv, Idle
<1>2. AttemptInv /\ TypeInv /\ [Next]_vars => TypeInv'
  <2> SUFFICES ASSUME AttemptInv, TypeInv, [Next]_vars PROVE TypeInv'
    OBVIOUS
  <2>1. CASE UNCHANGED vars
    BY <2>1 DEF vars, TypeInv, GoodSlots
  <2> QED BY <2>1, TypeReload, TypeEvents, TypeControl, TypeWork DEF Next
<1>3. AttemptInv /\ TypeInv => TypeOK
  <2> SUFFICES ASSUME AttemptInv, TypeInv PROVE TypeOK
    OBVIOUS
  <2>1. Horizon \in Nat /\ MaxRepeats \in Nat \ {0} /\ now \in 0..Horizon
    BY ConstantTypes DEF TypeInv
  <2>2. ASSUME NEW r \in RtShape, GoodRt(r, now) PROVE r \in Runtime
    BY <2>1, <2>2 DEF RtShape, GoodRt, Runtime, Time, None
  <2>3. ASSUME NEW q \in RowShape, GoodRow(q, now) PROVE q \in Row
    BY <2>1, <2>3 DEF RowShape, GoodRow, Row, Time, None
  <2>4. ASSUME NEW job \in JobShape, GoodJob(job, now) PROVE job \in Job
    <3>1. job.out.rt \in Runtime /\ job.at \in 0..Horizon /\ job.win \in Windows
      BY <2>1, <2>2, <2>4 DEF JobShape, Result, GoodJob, GoodOut
    <3>2. job.out \in [rt : Runtime, fired : BOOLEAN, noted : BOOLEAN]
      BY <3>1 DEF JobShape, Result
    <3> QED BY <3>1, <3>2 DEF JobShape, JobPc, Job
  <2>5. ASSUME NEW i \in 1..Slots
        PROVE  /\ slot[i].rt \in Runtime /\ slot[i].lastWin \in Windows
               /\ slot[i].chain \in Seq(Job) /\ Len(slot[i].chain) <= MaxQueue
    <3>1. slot[i] \in SlotShape /\ GoodSlot(slot[i], now)
      BY DEF AttemptInv, Shapes, TypeInv, GoodSlots
    <3>2. slot[i].rt \in RtShape /\ slot[i].chain \in Seq(JobShape)
      BY <3>1 DEF SlotShape
    <3>3. \A k \in 1..Len(slot[i].chain) : slot[i].chain[k] \in JobShape
      BY <3>2
    <3>4. \A k \in 1..Len(slot[i].chain) : slot[i].chain[k] \in Job
      BY <2>4, <3>1, <3>3 DEF GoodSlot
    <3>5. slot[i].chain \in Seq(Job)
      BY <3>2, <3>4
    <3> QED BY <2>2, <3>1, <3>2, <3>5 DEF GoodSlot
  <2>6. row \in Row /\ reload \in [pc : {"idle", "listed", "gone"}, row : Row]
    <3>1. reload.row \in RowShape /\ reload \in [pc : {"idle", "listed", "gone"}, row : RowShape]
      BY DEF AttemptInv, Shapes
    <3>2. row \in Row /\ reload.row \in Row
      BY <2>3, <3>1 DEF AttemptInv, Shapes, TypeInv
    <3> QED BY <3>1, <3>2
  <2>7. row.status = "ACTIVE_WAITING" => row.since = None
    BY DEF TypeInv, GoodRow
  <2> QED BY <2>5, <2>6, <2>7 DEF TypeOK, TypeInv, AttemptInv, Shapes
<1> QED BY <1>1, <1>2, <1>3, AttemptInit, AttemptStep, PTL DEF Spec

-----------------------------------------------------------------------------
(****************************************************************************)
(* ArmedIsEvaluated, but for its fairness: a registered rule that is over   *)
(* has the write of its end before it, and every chain comes to its end.    *)
(****************************************************************************)

\* The runtime is evaluated, or the last write of its chain is the one that ends it.
EndPending(s) ==
  \/ s.rt.status \in Evaluable
  \/ /\ s.rt.status \in Terminal /\ s.chain # <<>>
     /\ s.chain[Len(s.chain)].out.rt.status \in Terminal /\ ~s.chain[Len(s.chain)].refund
NoZombie == live # 0 => EndPending(slot[live])

\* The statements a job has before it at most, its one retry included.
PcLeft(p) == CASE p = "start" -> 6 [] p = "claim" -> 5 [] p = "skip" -> 4 [] p = "write" -> 3
               [] p = "execute" -> 2 [] p = "audit" -> 1
JobLeft(job) == PcLeft(job.pc) + (IF job.retry THEN 0 ELSE 6)
ChainLeft(c) == IF c = <<>> THEN 0 ELSE 13 * Len(c) + JobLeft(c[1])

\* Every statement of a chain, thrown or not, leaves it fewer; only what a rule that is
\* still evaluated sees lengthens a chain.
ChainsGoDown ==
  \A i \in 1..Slots :
    /\ Work(i) => ChainLeft(slot'[i].chain) < ChainLeft(slot[i].chain)
    /\ ChainLeft(slot'[i].chain) > ChainLeft(slot[i].chain) => i = live /\ Watched

\* What an event the worker sends makes of an evaluated rule: one that is still evaluated,
\* or one that is over and has that to record.
Proper(res) ==
  \/ res.rt.status \in Evaluable
  \/ res.rt.status \in Terminal /\ (res.noted \/ res.fired)

LEMMA ResetProper ==
  ASSUME NEW p \in RtShape, NEW r \in RtShape, p.status \in Evaluable, r.status = p.status,
         NEW t \in Int, NEW w \in Int
  PROVE  /\ Proper(Keep(p)) /\ Proper(Reset(r, t, w)) /\ Proper(ObserveStale(r, t, w))
         /\ Proper(Ended(p, "EXPIRED", t)) /\ Proper(Ended(p, "INVALIDATED", t))
         /\ Proper(To(p, [p EXCEPT !.last = t], FALSE))
         /\ Proper(To(p, [r EXCEPT !.since = None, !.stale = None, !.last = t], FALSE))
         /\ Proper(To(p, [r EXCEPT !.since = None, !.stale = None, !.last = t, !.wm = w], FALSE))
<1>1. "ACTIVE_WAITING" \in Evaluable /\ "EXPIRED" \in Terminal /\ "INVALIDATED" \in Terminal
      /\ "EXPIRED" \notin Evaluable /\ "INVALIDATED" \notin Evaluable
  BY DEF Evaluable, Terminal
<1>2. /\ [r EXCEPT !.status = "ACTIVE_WAITING", !.since = None, !.stale = None,
                   !.last = t, !.wm = w].status = "ACTIVE_WAITING"
      /\ [r EXCEPT !.stale = t, !.last = t, !.wm = w].status = r.status
      /\ [r EXCEPT !.last = t, !.wm = w].status = r.status
      /\ [p EXCEPT !.last = t].status = p.status
      /\ [r EXCEPT !.since = None, !.stale = None, !.last = t].status = r.status
      /\ [r EXCEPT !.since = None, !.stale = None, !.last = t, !.wm = w].status = r.status
      /\ \A s \in {"EXPIRED", "INVALIDATED"} :
           [p EXCEPT !.status = s, !.since = None, !.stale = None, !.last = t].status = s
  BY DEF RtShape
<1>3. Proper(Reset(r, t, w))
  BY <1>1, <1>2 DEF Reset, To, Proper
<1>4. Proper(ObserveStale(r, t, w))
  BY <1>2, <1>3 DEF ObserveStale, Flag, To, Proper
<1>5. Proper(Ended(p, "EXPIRED", t)) /\ Proper(Ended(p, "INVALIDATED", t))
  BY <1>1, <1>2 DEF Ended, To, Proper
<1> QED BY <1>2, <1>3, <1>4, <1>5 DEF Keep, To, Proper

LEMMA ObserveProper ==
  ASSUME NEW r \in RtShape, r.status \in Evaluable, NEW t \in Int, NEW v \in Views
  PROVE  Proper(Observe(r, v, t))
<1> DEFINE c == [r EXCEPT !.cool = None]
           w == Watermark(r.wm, v)
<1>1. r.wm \in Int /\ w \in Int
  <2>1. r.wm \in Int BY DEF RtShape
  <2> QED BY <2>1, ConstantTypes DEF Watermark
<1>2. c \in RtShape /\ c.status = r.status
  BY Literals DEF RtShape
<1>3. /\ Proper(Ended(r, "EXPIRED", t)) /\ Proper(Ended(r, "INVALIDATED", t))
      /\ Proper(Reset(r, t, r.wm))
      /\ Proper(To(r, [r EXCEPT !.last = t], FALSE))
      /\ Proper(To(r, [r EXCEPT !.since = None, !.stale = None, !.last = t], FALSE))
  BY <1>1, ResetProper
<1> HIDE DEF c, w
<1>4. Proper(Hit(r, c, t, w))
  <2>1. Proper(Fire(c, t, Since(c, t), w))
    BY DEF Fire, Rearm, Proper, Evaluable, Terminal
  <2>2. [c EXCEPT !.status = "ACTIVE_ACCUMULATING", !.since = Since(c, t), !.stale = None,
                  !.last = t, !.wm = w].status \in Evaluable
    BY <1>2 DEF RtShape, Evaluable
  <2> QED BY <2>1, <2>2 DEF Hit, Flag, To, Proper
<1>5. Proper(Miss(r, c, v, t, w))
  BY <1>1, <1>2, ResetProper DEF Miss
<1> QED BY <1>3, <1>4, <1>5 DEF Observe, c, w

LEMMA TransitionProper ==
  ASSUME NEW r \in RtShape, NEW e, e.now \in Int, e.view \in Views \cup {NoView},
         e.type \in Kinds \cup {"tick"}
  PROVE  /\ r.status \in Evaluable => Proper(Transition(r, e))
         /\ r.status \in Terminal => Transition(r, e) = Keep(r)
<1>1. e.type \notin {"cancel", "expire", "pause", "resume"}
  BY EvaluatorAssumption
<1>2. r.wm \in Int
  BY DEF RtShape
<1>3. ASSUME r.status \in Evaluable PROVE Proper(Transition(r, e))
  <2>1. r.status \notin Terminal
    BY <1>3 DEF Evaluable, Terminal
  <2>2. Proper(Keep(r)) /\ Proper(Ended(r, "INVALIDATED", e.now))
    BY <1>2, <1>3, ResetProper
  <2>3. Proper(Interrupted(r, e)) /\ Proper(Blind(r, e.now))
    BY <1>2, <1>3, ResetProper DEF Interrupted, Blind
  <2>4. e.view # NoView => Proper(Observe(r, e.view, e.now))
    BY <1>3, ObserveProper
  <2> QED BY <1>1, <1>3, <2>1, <2>2, <2>3, <2>4 DEF Transition
<1>4. r.status \in Terminal => Transition(r, e) = Keep(r)
  BY DEF Transition, Terminal, Evaluable
<1> QED BY <1>3, <1>4

\* An event keeps what is registered from becoming a zombie, and lengthens only the chain of
\* a rule that is evaluated.
LEMMA ApplyEnds ==
  ASSUME Shapes, live # 0, NEW e, e.now \in Int, e.view \in Views \cup {NoView},
         e.type \in Kinds \cup {"tick"}, EndPending(slot[live]), Apply(e)
  PROVE  /\ EndPending(slot'[live])
         /\ \A j \in 1..Slots : slot'[j].chain # slot[j].chain => j = live /\ Watched
<1> DEFINE r == slot[live].rt
           c == slot[live].chain
           res == Transition(r, e)
           job == [out |-> res, at |-> e.now, pc |-> "start", win |-> None,
                   refund |-> FALSE, retry |-> FALSE]
           save == \/ res.fired \/ res.noted
                   \/ res.rt.count # r.count \/ res.rt.cool # r.cool
                   \/ res.rt.stale # r.stale
<1>1. live \in 1..Slots /\ slot \in [1..Slots -> SlotShape] /\ slot[live] \in SlotShape
  BY ConstantTypes DEF Shapes
<1>2. r \in RtShape /\ c \in Seq(JobShape)
  BY <1>1 DEF SlotShape
<1>3. /\ r.status \in Evaluable => Proper(res)
      /\ r.status \in Terminal => res = Keep(r)
  BY <1>2, TransitionProper
<1>4. slot' = [slot EXCEPT ![live].rt = res.rt, ![live].chain = IF save THEN Append(c, job) ELSE c]
  BY DEF Apply
<1>5. job.out = res /\ job.refund = FALSE
  OBVIOUS
<1> HIDE DEF r, res, job
<1>6. /\ slot'[live].rt = res.rt /\ slot'[live].chain = IF save THEN Append(c, job) ELSE c
      /\ \A j \in 1..Slots : j # live => slot'[j] = slot[j]
  BY <1>1, <1>4
<1>7. Append(c, job) # <<>> /\ Append(c, job)[Len(Append(c, job))] = job
  <2>1. res \in Result
    BY <1>2, TransitionShape DEF res
  <2>2. job \in JobShape
    BY <2>1, Literals DEF JobShape, JobPc, job
  <2> HIDE DEF c
  <2>3. Len(Append(c, job)) = Len(c) + 1 /\ Len(c) \in Nat
    BY <1>2, <2>2
  <2>4. Append(c, job)[Len(c) + 1] = job
    BY <1>2, <2>2, <2>3
  <2>5. Append(c, job) # <<>>
    <3>1. Append(c, job) \in Seq(JobShape) BY <1>2, <2>2
    <3> QED BY <2>3, <3>1, EmptyChain
  <2> QED BY <2>3, <2>4, <2>5
<1>8. CASE r.status \in Evaluable
  <2>1. Watched BY <1>8 DEF Watched, r
  <2>2. EndPending(slot'[live])
    <3>1. CASE res.rt.status \in Evaluable BY <1>6, <3>1 DEF EndPending
    <3>2. CASE res.rt.status \in Terminal /\ (res.noted \/ res.fired)
      <4>1. slot'[live].chain = Append(c, job) BY <1>6, <3>2
      <4> HIDE DEF c
      <4> QED BY <1>5, <1>6, <1>7, <3>2, <4>1 DEF EndPending
    <3> QED BY <1>3, <1>8, <3>1, <3>2 DEF Proper
  <2> QED BY <1>6, <2>1, <2>2
<1>9. CASE r.status \notin Evaluable
  <2>1. r.status \in Terminal BY <1>9 DEF EndPending, r
  <2>2. res.rt = r /\ ~save BY <1>3, <2>1 DEF Keep
  <2>3. slot'[live].rt = slot[live].rt /\ slot'[live].chain = slot[live].chain
    BY <1>6, <2>2 DEF r
  <2> QED BY <1>6, <2>3 DEF EndPending
<1> QED BY <1>8, <1>9

LEMMA EventsEnd ==
  ASSUME Shapes, NoZombie, Tick \/ Event
  PROVE  /\ NoZombie'
         /\ \A j \in 1..Slots : slot'[j].chain # slot[j].chain => j = live /\ Watched
<1>1. live' = live /\ now \in Int
  BY DEF Tick, Event, Shapes
<1>2. CASE slot' = slot
  BY <1>1, <1>2 DEF NoZombie
<1>3. ASSUME live # 0, NEW e, e.now \in Int, e.view \in Views \cup {NoView},
             e.type \in Kinds \cup {"tick"}, Apply(e)
      PROVE  /\ NoZombie'
             /\ \A j \in 1..Slots : slot'[j].chain # slot[j].chain => j = live /\ Watched
  <2>1. EndPending(slot[live]) BY <1>3 DEF NoZombie
  <2> QED BY <1>1, <1>3, <2>1, ApplyEnds DEF NoZombie
<1>4. CASE Tick
  <2>1. CASE up /\ live # 0
    <3>1. PICK v \in Views : Apply([type |-> "tick", now |-> now', view |-> v])
      BY <1>4, <2>1 DEF Tick
    <3>2. now' \in Int BY <1>1, <1>4 DEF Tick
    <3> DEFINE e == [type |-> "tick", now |-> now', view |-> v]
    <3>3. e.now \in Int /\ e.view \in Views \cup {NoView} /\ e.type \in Kinds \cup {"tick"} /\ Apply(e)
      BY <3>1, <3>2
    <3> HIDE DEF e
    <3> QED BY <1>3, <2>1, <3>3
  <2>2. CASE ~(up /\ live # 0)
    BY <1>2, <1>4, <2>2 DEF Tick
  <2> QED BY <2>1, <2>2
<1>5. CASE Event
  <2>1. PICK e \in Events(now, Views) : e.type \in Kinds /\ Apply(e)
    BY <1>5 DEF Event
  <2>2. e.now = now /\ e.view \in Views \cup {NoView}
    BY <2>1 DEF Events
  <2> QED BY <1>1, <1>3, <1>5, <2>1, <2>2 DEF Event
<1> QED BY <1>4, <1>5

\* The reload registers an evaluated rule; a rule that is dropped leaves its chain.
LEMMA ReloadEnds ==
  ASSUME Shapes, NoZombie, ReloadRead \/ ReloadApply
  PROVE  NoZombie' /\ \A j \in 1..Slots : slot'[j].chain = slot[j].chain
<1>1. slot \in [1..Slots -> SlotShape] BY DEF Shapes
<1>2. CASE UNCHANGED <<live, slot>>
  BY <1>2 DEF NoZombie
<1>3. CASE live' = 0 /\ slot' = Remove(slot)
  BY <1>1, <1>3, BlankShape DEF NoZombie, Remove
<1>4. ASSUME NEW i \in 1..Slots, Free(i), live' = i,
             slot' = [slot EXCEPT ![i] = [rt |-> Restored(reload.row),
                                          lastWin |-> reload.row.lastWin, chain |-> <<>>]]
      PROVE  NoZombie' /\ \A j \in 1..Slots : slot'[j].chain = slot[j].chain
  <2>1. Restored(reload.row).status \in Evaluable
    BY DEF Restored, Evaluable
  <2>2. slot[i].chain = <<>> BY <1>4 DEF Free
  <2> HIDE DEF Restored
  <2>3. slot'[i].rt = Restored(reload.row) /\ slot'[i].chain = <<>>
    BY <1>1, <1>4
  <2> QED BY <1>1, <1>4, <2>1, <2>2, <2>3 DEF NoZombie, EndPending
<1>5. CASE ReloadRead BY <1>2, <1>5 DEF ReloadRead
<1>6. CASE ReloadApply BY <1>2, <1>3, <1>4, <1>6 DEF ReloadApply
<1> QED BY <1>5, <1>6

\* The user's statements leave memory alone; the crash empties it.
LEMMA ControlEnds ==
  ASSUME Shapes, NoZombie, Pause \/ Resume \/ Cancel \/ Crash \/ Start
  PROVE  NoZombie' /\ \A j \in 1..Slots : slot'[j].chain \in {slot[j].chain, <<>>}
<1>1. CASE UNCHANGED <<live, slot>>
  BY <1>1 DEF NoZombie
<1>2. CASE Crash
  BY <1>2, BlankShape DEF Crash, NoZombie
<1> QED BY <1>1, <1>2 DEF Pause, Resume, Cancel, Start

-----------------------------------------------------------------------------
(* What a statement of a chain does to it.                                  *)

\* The first job of chain i goes on as job, and the runtime stays, or was refunded.
Carries(i, job, q) ==
  /\ q.chain = [slot[i].chain EXCEPT ![1] = job]
  /\ job.out = Head1(i).out /\ JobLeft(job) < JobLeft(Head1(i))
  /\ \/ q.rt = slot[i].rt /\ (job.refund => Head1(i).refund)
     \/ q.rt.status \in Evaluable

Carried(i) ==
  /\ live' = live
  /\ \E job \in JobShape, q \in SlotShape : Carries(i, job, q) /\ slot' = [slot EXCEPT ![i] = q]

\* The job is over, and the rule is not over with it.
Passed(i) ==
  /\ live' = live /\ slot' = Done(i)
  /\ Head1(i).refund \/ Head1(i).out.rt.status \notin Terminal

\* What a job has left, statement by statement.
LEMMA Furthers ==
  ASSUME NEW h \in JobShape, NEW job \in JobShape
  PROVE  /\ JobLeft(h) \in 1..12
         /\ job.retry = h.retry /\ PcLeft(job.pc) < PcLeft(h.pc) => JobLeft(job) < JobLeft(h)
         /\ job.retry /\ ~h.retry /\ job.pc = "start" => JobLeft(job) < JobLeft(h)
<1>1. h.pc \in JobPc /\ job.pc \in JobPc /\ h.retry \in BOOLEAN /\ job.retry \in BOOLEAN
  BY DEF JobShape
<1>2. \A p \in JobPc : PcLeft(p) \in 1..6
  BY DEF PcLeft, JobPc
<1>3. PcLeft("start") = 6
  BY DEF PcLeft
<1>4. PcLeft(h.pc) \in 1..6 /\ PcLeft(job.pc) \in 1..6
  BY <1>1, <1>2
<1> HIDE DEF PcLeft
<1> QED BY <1>1, <1>3, <1>4 DEF JobLeft

\* A job that goes on to p.
LEMMA GoesOn ==
  ASSUME Shapes, Tidy, NEW i \in 1..Slots, slot[i].chain # <<>>, NEW p \in JobPc,
         PcLeft(p) < PcLeft(Head1(i).pc), live' = live, NEW w \in Int,
         \/ slot' = Advance(i, [Head1(i) EXCEPT !.pc = p])
         \/ slot' = Advance(i, [Head1(i) EXCEPT !.pc = p, !.win = w])
         \/ slot' = [Advance(i, [Head1(i) EXCEPT !.pc = p]) EXCEPT ![i].lastWin = w]
         \/ /\ slot' = [Advance(i, [Head1(i) EXCEPT !.pc = p, !.refund = TRUE])
                          EXCEPT ![i].rt = Refunded(Head1(i))]
  PROVE  Carried(i)
<1> DEFINE h == Head1(i)
           s == slot[i]
<1>1. h \in JobShape /\ slot \in [1..Slots -> SlotShape] /\ s \in SlotShape /\ s.chain \in Seq(JobShape)
  BY HeadShape DEF Shapes, SlotShape
<1>2. Refunded(h) \in RtShape /\ Refunded(h).status = "ACTIVE_WAITING"
  <2>1. Refunded(h) \in RtShape BY <1>1, Literals, JobSteps
  <2>2. h.out.rt \in RtShape BY <1>1, Literals, JobSteps
  <2> HIDE DEF h
  <2>3. Refunded(h).status = "ACTIVE_WAITING" BY <2>2 DEF Refunded, RtShape
  <2> QED BY <2>1, <2>3
<1> HIDE DEF h, s
<1>3. ASSUME NEW job \in JobShape, job.out = h.out, job.retry = h.retry, job.pc = p, NEW q,
             q = [s EXCEPT !.chain = [s.chain EXCEPT ![1] = job]]
      PROVE  /\ JobLeft(job) < JobLeft(h)
             /\ q \in SlotShape /\ q.chain = [s.chain EXCEPT ![1] = job] /\ q.rt = s.rt
  <2>1. JobLeft(job) < JobLeft(h)
    BY <1>1, <1>3, Furthers DEF h
  <2>2. [s.chain EXCEPT ![1] = job] \in Seq(JobShape)
    <3>1. s.chain # <<>> /\ Waiting(s.chain) BY DEF s, Tidy
    <3> QED BY <1>1, <3>1, ChainSteps
  <2> QED BY <1>1, <1>3, <2>1, <2>2 DEF SlotShape
<1>4. CASE slot' = Advance(i, [h EXCEPT !.pc = p]) \/ slot' = Advance(i, [h EXCEPT !.pc = p, !.win = w])
  <2>1. PICK job : /\ job \in {[h EXCEPT !.pc = p], [h EXCEPT !.pc = p, !.win = w]}
                   /\ slot' = Advance(i, job)
    BY <1>4
  <2>2. /\ job \in JobShape /\ job.out = h.out /\ job.retry = h.retry /\ job.pc = p
        /\ job.refund = h.refund
    BY <1>1, <2>1 DEF JobShape
  <2> DEFINE q == [s EXCEPT !.chain = [s.chain EXCEPT ![1] = job]]
  <2>3. slot' = [slot EXCEPT ![i] = q]
    BY <1>1, <2>1 DEF Advance, SlotShape, s
  <2>4. JobLeft(job) < JobLeft(h) /\ q \in SlotShape /\ q.chain = [s.chain EXCEPT ![1] = job] /\ q.rt = s.rt
    BY <1>3, <2>2
  <2> HIDE DEF q
  <2>5. Carries(i, job, q)
    BY <2>2, <2>4 DEF Carries, h, s
  <2> QED BY <2>2, <2>3, <2>4, <2>5 DEF Carried
<1>5. CASE slot' = [Advance(i, [h EXCEPT !.pc = p]) EXCEPT ![i].lastWin = w]
  <2> DEFINE job == [h EXCEPT !.pc = p]
             q0 == [s EXCEPT !.chain = [s.chain EXCEPT ![1] = job]]
             q == [q0 EXCEPT !.lastWin = w]
  <2>2. /\ job \in JobShape /\ job.out = h.out /\ job.retry = h.retry /\ job.pc = p
        /\ job.refund = h.refund
    BY <1>1 DEF JobShape
  <2>3. slot' = [Advance(i, job) EXCEPT ![i].lastWin = w]
    BY <1>5
  <2> HIDE DEF job
  <2>4. JobLeft(job) < JobLeft(h) /\ q0 \in SlotShape /\ q0.chain = [s.chain EXCEPT ![1] = job] /\ q0.rt = s.rt
    BY <1>3, <2>2
  <2>5. Advance(i, job) = [slot EXCEPT ![i] = q0]
    BY <1>1 DEF Advance, SlotShape, s
  <2> HIDE DEF q0
  <2>6. slot' = [slot EXCEPT ![i] = q]
    BY <1>1, <2>3, <2>5
  <2>7. q \in SlotShape /\ q.chain = q0.chain /\ q.rt = q0.rt
    BY <2>4 DEF SlotShape
  <2> HIDE DEF q
  <2>8. Carries(i, job, q)
    BY <2>2, <2>4, <2>7 DEF Carries, h, s
  <2> QED BY <2>2, <2>6, <2>7, <2>8 DEF Carried
<1>6. CASE slot' = [Advance(i, [h EXCEPT !.pc = p, !.refund = TRUE]) EXCEPT ![i].rt = Refunded(h)]
  <2> DEFINE job == [h EXCEPT !.pc = p, !.refund = TRUE]
             q0 == [s EXCEPT !.chain = [s.chain EXCEPT ![1] = job]]
             r == Refunded(h)
             q == [q0 EXCEPT !.rt = r]
  <2>2. job \in JobShape /\ job.out = h.out /\ job.retry = h.retry /\ job.pc = p
    BY <1>1 DEF JobShape
  <2>3. slot' = [Advance(i, job) EXCEPT ![i].rt = r]
    BY <1>6
  <2>r. r \in RtShape /\ r.status \in Evaluable
    BY <1>2 DEF Evaluable
  <2> HIDE DEF job, r
  <2>4. JobLeft(job) < JobLeft(h) /\ q0 \in SlotShape /\ q0.chain = [s.chain EXCEPT ![1] = job] /\ q0.rt = s.rt
    BY <1>3, <2>2
  <2>5. Advance(i, job) = [slot EXCEPT ![i] = q0]
    BY <1>1 DEF Advance, SlotShape, s
  <2> HIDE DEF q0
  <2>6. slot' = [slot EXCEPT ![i] = q]
    BY <1>1, <2>3, <2>5
  <2>7. q \in SlotShape /\ q.chain = q0.chain /\ q.rt = r
    BY <2>4, <2>r DEF SlotShape
  <2> HIDE DEF q
  <2>8. Carries(i, job, q)
    BY <2>2, <2>4, <2>7, <2>r DEF Carries, h, s
  <2> QED BY <2>2, <2>6, <2>7, <2>8 DEF Carried
<1> QED BY <1>4, <1>5, <1>6 DEF h

\* A statement that throws is tried once more, or the rule is dropped.
LEMMA ThrowEnds ==
  ASSUME Shapes, Tidy, NEW i \in 1..Slots, slot[i].chain # <<>>, Throw(i)
  PROVE  Drop(i) \/ Carried(i)
<1> DEFINE h == Head1(i)
           s == slot[i]
           job == [h EXCEPT !.pc = "start", !.win = None, !.refund = FALSE, !.retry = TRUE]
           q == [s EXCEPT !.chain = [s.chain EXCEPT ![1] = job]]
<1>1. h \in JobShape /\ slot \in [1..Slots -> SlotShape] /\ s \in SlotShape /\ s.chain \in Seq(JobShape)
  BY HeadShape DEF Shapes, SlotShape
<1>2. CASE h.retry BY <1>2 DEF Throw, GiveUp
<1>3. CASE ~h.retry
  <2>1. slot' = Advance(i, job) /\ live' = live
    BY <1>3 DEF Throw
  <2> HIDE DEF h
  <2>2. job \in JobShape /\ job.out = h.out /\ job.retry /\ job.pc = "start" /\ ~job.refund
    BY <1>1, Literals DEF JobShape, JobPc
  <2> HIDE DEF job
  <2>3. JobLeft(job) < JobLeft(h)
    BY <1>1, <1>3, <2>2, Furthers
  <2>4. [s.chain EXCEPT ![1] = job] \in Seq(JobShape)
    <3>1. s.chain # <<>> /\ Waiting(s.chain) BY DEF Tidy
    <3> HIDE DEF s
    <3> QED BY <1>1, <2>2, <3>1, ChainSteps
  <2>5. slot' = [slot EXCEPT ![i] = q]
    BY <1>1, <2>1 DEF Advance, SlotShape
  <2> HIDE DEF s
  <2>6. q \in SlotShape /\ q.chain = [s.chain EXCEPT ![1] = job] /\ q.rt = s.rt
    BY <1>1, <2>4 DEF SlotShape
  <2> HIDE DEF q
  <2>7. Carries(i, job, q)
    BY <2>2, <2>3, <2>6 DEF Carries, h, s
  <2> QED BY <2>1, <2>2, <2>5, <2>6, <2>7 DEF Carried
<1> QED BY <1>2, <1>3

\* Every statement of a chain drops the rule, carries its first job on or passes it.
LEMMA WorkEnds ==
  ASSUME Shapes, Tidy, NEW i \in 1..Slots, Work(i)
  PROVE  slot[i].chain # <<>> /\ (Drop(i) \/ Carried(i) \/ Passed(i))
<1> DEFINE h == Head1(i)
<1>1. slot[i].chain # <<>>
  BY DEF Work, Resolve, Claim, Skip, SaveState, Commit, Execute, Finish, Ready
<1>2. h \in JobShape /\ now \in Int /\ h.win \in Int
  BY <1>1, HeadShape DEF Shapes, JobShape
<1>3. ASSUME Throw(i) PROVE Drop(i) \/ Carried(i)
  BY <1>1, <1>3, ThrowEnds
<1>4. /\ PcLeft("start") = 6 /\ PcLeft("claim") = 5 /\ PcLeft("skip") = 4 /\ PcLeft("write") = 3
      /\ PcLeft("execute") = 2 /\ PcLeft("audit") = 1
  BY DEF PcLeft
<1> HIDE DEF PcLeft
<1>5. 0 \in Int
  OBVIOUS
<1>6. {"claim", "skip", "write", "execute", "audit"} \subseteq JobPc
  BY DEF JobPc
<1>7. CASE Resolve(i)
  <2>1. now \div WindowLen \in Int
    BY <1>2, EvaluatorAssumption
  <2> DEFINE w == now \div WindowLen
  <2>2. /\ h.pc = "start" /\ live' = live
        /\ \/ slot' = Advance(i, [h EXCEPT !.pc = "claim", !.win = w])
           \/ slot' = Advance(i, [h EXCEPT !.pc = "skip"])
    BY <1>7 DEF Resolve, Ready, Quietly
  <2>3. w \in Int BY <2>1
  <2>4. PcLeft("claim") < PcLeft(h.pc) /\ PcLeft("skip") < PcLeft(h.pc)
    BY <1>4, <2>2
  <2> HIDE DEF w
  <2>5. CASE slot' = Advance(i, [h EXCEPT !.pc = "claim", !.win = w])
    BY <1>1, <1>6, <2>2, <2>3, <2>4, <2>5, GoesOn
  <2>6. CASE slot' = Advance(i, [h EXCEPT !.pc = "skip"])
    BY <1>1, <1>5, <1>6, <2>2, <2>4, <2>6, GoesOn
  <2> QED BY <2>2, <2>5, <2>6
<1>8. CASE Claim(i)
  <2>1. /\ h.pc = "claim"
        /\ \/ Throw(i)
           \/ /\ live' = live
              /\ \/ slot' = [Advance(i, [h EXCEPT !.pc = "write"]) EXCEPT ![i].lastWin = h.win]
                 \/ slot' = Advance(i, [h EXCEPT !.pc = "skip"])
    BY <1>8 DEF Claim, Ready, Quietly
  <2>2. PcLeft("write") < PcLeft(h.pc) /\ PcLeft("skip") < PcLeft(h.pc)
    BY <1>4, <2>1
  <2>3. CASE /\ live' = live
             /\ slot' = [Advance(i, [h EXCEPT !.pc = "write"]) EXCEPT ![i].lastWin = h.win]
    BY <1>1, <1>2, <1>6, <2>2, <2>3, GoesOn
  <2>4. CASE live' = live /\ slot' = Advance(i, [h EXCEPT !.pc = "skip"])
    BY <1>1, <1>5, <1>6, <2>2, <2>4, GoesOn
  <2> QED BY <1>1, <1>3, <2>1, <2>3, <2>4
<1>9. CASE Skip(i)
  <2>1. /\ h.pc = "skip"
        /\ \/ Throw(i)
           \/ /\ live' = live
              /\ slot' = [Advance(i, [h EXCEPT !.pc = "write", !.refund = TRUE])
                            EXCEPT ![i].rt = Refunded(h)]
    BY <1>9 DEF Skip, Ready, Quietly
  <2>2. PcLeft("write") < PcLeft(h.pc)
    BY <1>4, <2>1
  <2>3. CASE /\ live' = live
             /\ slot' = [Advance(i, [h EXCEPT !.pc = "write", !.refund = TRUE])
                          EXCEPT ![i].rt = Refunded(h)]
    BY <1>1, <1>2, <1>6, <2>2, <2>3, GoesOn
  <2> QED BY <1>1, <1>3, <2>1, <2>3
<1>10. CASE SaveState(i)
  <2>1. /\ h.pc \in {"start", "write"}
        /\ \/ Throw(i) \/ Drop(i)
           \/ live' = live /\ slot' = Advance(i, [h EXCEPT !.pc = "audit"])
    BY <1>10 DEF SaveState, Ready
  <2>2. PcLeft("audit") < PcLeft(h.pc)
    BY <1>4, <2>1
  <2>3. CASE live' = live /\ slot' = Advance(i, [h EXCEPT !.pc = "audit"])
    BY <1>1, <1>5, <1>6, <2>2, <2>3, GoesOn
  <2> QED BY <1>1, <1>3, <2>1, <2>3
<1>11. CASE Commit(i)
  <2>1. /\ h.pc \in {"start", "write"}
        /\ \/ Throw(i) \/ Drop(i)
           \/ /\ live' = live
              /\ \/ slot' = Advance(i, [h EXCEPT !.pc = "execute"])
                 \/ slot' = Advance(i, [h EXCEPT !.pc = "audit"])
    BY <1>11 DEF Commit, Ready, Quietly
  <2>2. PcLeft("audit") < PcLeft(h.pc) /\ PcLeft("execute") < PcLeft(h.pc)
    BY <1>4, <2>1
  <2>3. CASE live' = live /\ slot' = Advance(i, [h EXCEPT !.pc = "audit"])
    BY <1>1, <1>5, <1>6, <2>2, <2>3, GoesOn
  <2>4. CASE live' = live /\ slot' = Advance(i, [h EXCEPT !.pc = "execute"])
    BY <1>1, <1>5, <1>6, <2>2, <2>4, GoesOn
  <2> QED BY <1>1, <1>3, <2>1, <2>3, <2>4
<1>12. CASE Execute(i)
  <2>1. /\ h.pc = "execute"
        /\ \/ Throw(i)
           \/ live' = live /\ slot' = Advance(i, [h EXCEPT !.pc = "audit"])
    BY <1>12 DEF Execute, Ready, Quietly
  <2>2. PcLeft("audit") < PcLeft(h.pc)
    BY <1>4, <2>1
  <2>3. CASE live' = live /\ slot' = Advance(i, [h EXCEPT !.pc = "audit"])
    BY <1>1, <1>5, <1>6, <2>2, <2>3, GoesOn
  <2> QED BY <1>1, <1>3, <2>1, <2>3
<1>13. CASE Finish(i)
  BY <1>1, <1>3, <1>13 DEF Finish, Passed
<1> QED BY <1>1, <1>7, <1>8, <1>9, <1>10, <1>11, <1>12, <1>13 DEF Work

\* Done takes the first job off chain i, and nothing else off anything.
LEMMA PopsOff ==
  ASSUME Shapes, NEW i \in 1..Slots
  PROVE  /\ Done(i)[i].chain = Tail(slot[i].chain)
         /\ i = live => Done(i)[i].rt = slot[i].rt
         /\ \A j \in 1..Slots : j # i => Done(i)[j] = slot[j]
         /\ \A j \in 1..Slots : Remove(Done(i))[j].chain = Done(i)[j].chain
<1>1. slot \in [1..Slots -> SlotShape] /\ slot[i] \in SlotShape
  BY DEF Shapes
<1> DEFINE rest == Tail(slot[i].chain)
           q == IF i # live /\ rest = <<>> THEN Blank ELSE [slot[i] EXCEPT !.chain = rest]
<1>2. Done(i) = [slot EXCEPT ![i] = q]
  BY <1>1 DEF Done, SlotShape
<1>3. q.chain = rest /\ (i = live => q.rt = slot[i].rt)
  <2> HIDE DEF rest
  <2> QED BY <1>1, BlankShape DEF SlotShape
<1> HIDE DEF rest, q
<1>4. \A j \in 1..Slots : Remove(Done(i))[j].chain = Done(i)[j].chain
  BY BlankShape DEF Remove
<1> QED BY <1>1, <1>2, <1>3, <1>4 DEF rest

\* What a chain has left: its jobs' statements, its first job's among them.
LEMMA ChainBound ==
  ASSUME NEW c \in Seq(JobShape)
  PROVE  /\ Len(c) \in Nat /\ ChainLeft(c) \in Nat
         /\ ChainLeft(c) <= 13 * Len(c) + 12
         /\ c # <<>> => /\ ChainLeft(c) = 13 * Len(c) + JobLeft(c[1])
                        /\ JobLeft(c[1]) \in 1..12
<1>1. Len(c) \in Nat
  OBVIOUS
<1>2. CASE c = <<>>
  <2>1. ChainLeft(c) = 0 BY <1>2 DEF ChainLeft
  <2> QED BY <1>1, <1>2, <2>1
<1>3. CASE c # <<>>
  <2>1. c[1] \in JobShape BY <1>3
  <2>2. JobLeft(c[1]) \in 1..12 BY <2>1, Furthers
  <2>3. ChainLeft(c) = 13 * Len(c) + JobLeft(c[1]) BY <1>3 DEF ChainLeft
  <2> QED BY <1>1, <1>3, <2>2, <2>3
<1> QED BY <1>2, <1>3

\* A chain without its first job has less left, and one whose first job has.
LEMMA ChainShortens ==
  ASSUME NEW c \in Seq(JobShape), c # <<>>, Waiting(c), NEW job \in JobShape
  PROVE  /\ ChainLeft(Tail(c)) < ChainLeft(c) /\ ChainLeft(Tail(c)) \in Nat
         /\ JobLeft(job) < JobLeft(c[1]) =>
              /\ ChainLeft([c EXCEPT ![1] = job]) < ChainLeft(c)
              /\ ChainLeft([c EXCEPT ![1] = job]) \in Nat
<1>1. Tail(c) \in Seq(JobShape) /\ Len(Tail(c)) = Len(c) - 1
  OBVIOUS
<1>2. /\ [c EXCEPT ![1] = job] \in Seq(JobShape) /\ Len([c EXCEPT ![1] = job]) = Len(c)
      /\ [c EXCEPT ![1] = job] # <<>> /\ [c EXCEPT ![1] = job][1] = job
  BY ChainSteps
<1> DEFINE t == Tail(c)
           d == [c EXCEPT ![1] = job]
<1>3. ChainLeft(t) \in Nat /\ ChainLeft(t) <= 13 * Len(t) + 12
  BY <1>1, ChainBound
<1>4. ChainLeft(d) \in Nat /\ ChainLeft(d) = 13 * Len(d) + JobLeft(job) /\ JobLeft(job) \in 1..12
  <2>1. d \in Seq(JobShape) /\ d # <<>> /\ d[1] = job BY <1>2
  <2> HIDE DEF d
  <2>2. /\ ChainLeft(d) \in Nat /\ ChainLeft(d) = 13 * Len(d) + JobLeft(d[1])
        /\ JobLeft(d[1]) \in 1..12
    BY <2>1, ChainBound
  <2> QED BY <2>1, <2>2
<1>5. /\ Len(c) \in Nat /\ ChainLeft(c) \in Nat /\ ChainLeft(c) = 13 * Len(c) + JobLeft(c[1])
      /\ JobLeft(c[1]) \in 1..12
  BY ChainBound
<1>6. Len(t) = Len(c) - 1 /\ Len(d) = Len(c)
  BY <1>1, <1>2
<1> HIDE DEF t, d
<1>7. ChainLeft(t) < ChainLeft(c)
  <2> DEFINE y == JobLeft(c[1])
             n == Len(c)
  <2>1. n \in Nat /\ y \in 1..12 /\ ChainLeft(t) <= 13 * (n - 1) + 12 /\ ChainLeft(c) = 13 * n + y
    BY <1>3, <1>5, <1>6
  <2> HIDE DEF y, n
  <2> QED BY <1>3, <2>1
<1>8. JobLeft(job) < JobLeft(c[1]) => ChainLeft(d) < ChainLeft(c)
  <2> DEFINE x == JobLeft(job)
             y == JobLeft(c[1])
             m == 13 * Len(c)
  <2>1. m \in Nat /\ x \in 1..12 /\ y \in 1..12 /\ ChainLeft(d) = m + x /\ ChainLeft(c) = m + y
    BY <1>4, <1>5, <1>6
  <2> HIDE DEF x, y, m
  <2>2. x < y => ChainLeft(d) < ChainLeft(c)
    BY <2>1
  <2> QED BY <2>2 DEF x, y
<1> QED BY <1>3, <1>4, <1>7, <1>8 DEF t, d

\* A statement of a chain leaves it fewer statements, and the other chains theirs.
LEMMA WorkShortens ==
  ASSUME Shapes, Tidy, NEW i \in 1..Slots, Work(i)
  PROVE  /\ ChainLeft(slot[i].chain) \in Nat /\ ChainLeft(slot'[i].chain) \in Nat
         /\ ChainLeft(slot'[i].chain) < ChainLeft(slot[i].chain)
         /\ \A j \in 1..Slots : j # i => slot'[j].chain = slot[j].chain
<1> DEFINE c == slot[i].chain
           h == Head1(i)
<1>1. slot \in [1..Slots -> SlotShape] /\ c \in Seq(JobShape)
  BY DEF Shapes, SlotShape
<1>2. c # <<>> /\ h \in JobShape /\ (Drop(i) \/ Carried(i) \/ Passed(i))
  BY WorkEnds, HeadShape
<1>3. Waiting(c) /\ ChainLeft(c) \in Nat
  BY <1>1, ChainBound DEF Tidy
<1>5. CASE Drop(i) \/ Passed(i)
  <2>1. slot'[i].chain = Tail(c) /\ \A j \in 1..Slots : j # i => slot'[j].chain = slot[j].chain
    BY <1>5, PopsOff DEF Drop, Passed
  <2> HIDE DEF c
  <2>2. ChainLeft(Tail(c)) \in Nat /\ ChainLeft(Tail(c)) < ChainLeft(c)
    BY <1>1, <1>2, <1>3, ChainShortens
  <2> QED BY <1>3, <2>1, <2>2 DEF c
<1>6. CASE Carried(i)
  <2>1. PICK job \in JobShape, q \in SlotShape : Carries(i, job, q) /\ slot' = [slot EXCEPT ![i] = q]
    BY <1>6 DEF Carried
  <2> DEFINE d == [c EXCEPT ![1] = job]
  <2>2. slot'[i].chain = d /\ JobLeft(job) < JobLeft(c[1])
    BY <1>1, <2>1 DEF Carries, Head1
  <2>3. \A j \in 1..Slots : j # i => slot'[j].chain = slot[j].chain
    BY <1>1, <2>1
  <2> HIDE DEF c
  <2>4. ChainLeft(d) < ChainLeft(c) /\ ChainLeft(d) \in Nat
    BY <1>1, <1>2, <1>3, <2>1, <2>2, ChainShortens
  <2> HIDE DEF d
  <2> QED BY <1>3, <2>2, <2>3, <2>4 DEF c
<1> QED BY <1>2, <1>5, <1>6

\* A statement of a chain, of the registered rule or of a dropped one, makes no zombie.
LEMMA WorkZombie ==
  ASSUME Shapes, Tidy, NoZombie, NEW i \in 1..Slots, Work(i)
  PROVE  NoZombie'
<1>1. slot \in [1..Slots -> SlotShape] /\ live \in 0..Slots
  BY DEF Shapes
<1>2. slot[i].chain # <<>> /\ (Drop(i) \/ Carried(i) \/ Passed(i))
  BY WorkEnds
<1>3. CASE Drop(i)
  BY <1>3 DEF Drop, NoZombie
<1>4. CASE ~Drop(i) /\ i # live
  <2>1. live' = live /\ (live # 0 => slot'[live] = slot[live])
    <3>1. CASE Carried(i) BY <1>1, <1>4, <3>1 DEF Carried
    <3>2. CASE Passed(i) BY <1>1, <1>4, <3>2, PopsOff, ConstantTypes DEF Passed
    <3> QED BY <1>2, <1>4, <3>1, <3>2
  <2> QED BY <2>1 DEF NoZombie
<1>5. CASE ~Drop(i) /\ i = live
  <2> DEFINE s == slot[i]
             c == s.chain
             n == Len(c)
  <2>1. s \in SlotShape /\ c \in Seq(JobShape) /\ n \in Nat /\ n # 0
    BY <1>1, <1>2, EmptyChain DEF SlotShape
  <2>2. EndPending(s) /\ live # 0
    BY <1>5, ConstantTypes DEF NoZombie
  <2>3. CASE Carried(i)
    <3>1. PICK job \in JobShape, q \in SlotShape :
            Carries(i, job, q) /\ slot' = [slot EXCEPT ![i] = q] /\ live' = live
      BY <2>3 DEF Carried
    <3>2. slot'[i] = q BY <1>1, <3>1
    <3> DEFINE d == [c EXCEPT ![1] = job]
    <3>3. /\ q.chain = d /\ job.out = c[1].out
          /\ \/ q.rt = s.rt /\ (job.refund => c[1].refund)
             \/ q.rt.status \in Evaluable
      BY <3>1 DEF Carries, Head1
    <3>4. /\ Len(d) = n /\ d # <<>> /\ d[1] = job
          /\ n # 1 => d[n] = c[n]
      <4> HIDE DEF c
      <4>1. Len(d) = n BY <2>1
      <4>2. d \in Seq(JobShape) BY <2>1, <3>1
      <4>3. d # <<>> BY <2>1, <4>1, <4>2, EmptyChain
      <4> QED BY <2>1, <4>1, <4>3
    <3> HIDE DEF d, c, n, s
    <3>5. EndPending(q)
      <4>1. CASE q.rt.status \in Evaluable BY <4>1 DEF EndPending
      <4>2. CASE q.rt = s.rt /\ (job.refund => c[1].refund) /\ s.rt.status \notin Evaluable
        <5>1. /\ s.rt.status \in Terminal /\ c[n].out.rt.status \in Terminal /\ ~c[n].refund
          BY <2>2, <4>2 DEF EndPending, c, n
        <5>2. d[n].out.rt.status \in Terminal /\ ~d[n].refund
          BY <3>3, <3>4, <4>2, <5>1
        <5>3. q.chain[Len(q.chain)] = d[n] /\ q.chain # <<>>
          BY <3>3, <3>4
        <5> QED BY <4>2, <5>1, <5>2, <5>3 DEF EndPending
      <4> QED BY <3>3, <4>1, <4>2
    <3> QED BY <1>5, <3>1, <3>2, <3>5 DEF NoZombie
  <2>4. CASE Passed(i)
    <3> DEFINE q == Done(i)[i]
               t == Tail(c)
    <3>1. slot'[i] = q /\ live' = live /\ q.rt = s.rt /\ q.chain = t
      BY <1>5, <2>4, PopsOff DEF Passed
    <3>2. c[1].refund \/ c[1].out.rt.status \notin Terminal
      BY <2>4 DEF Passed, Head1
    <3>3. n # 1 => Len(t) = n - 1 /\ t # <<>> /\ t[n - 1] = c[n]
      <4> HIDE DEF c
      <4>1. t \in Seq(JobShape) /\ Len(t) = n - 1 BY <2>1
      <4>2. n # 1 => t # <<>>
        <5> HIDE DEF t, n
        <5> QED BY <2>1, <4>1, EmptyChain
      <4>3. n # 1 => t[n - 1] = c[n] BY <2>1, <4>1
      <4> QED BY <4>1, <4>2, <4>3
    <3> HIDE DEF q, t, c, n, s
    <3>4. EndPending(q)
      <4>1. CASE s.rt.status \in Evaluable BY <3>1, <4>1 DEF EndPending
      <4>2. CASE s.rt.status \notin Evaluable
        <5>1. /\ s.rt.status \in Terminal /\ c[n].out.rt.status \in Terminal /\ ~c[n].refund
          BY <2>2, <4>2 DEF EndPending, c, n
        <5>2. n # 1 BY <3>2, <5>1
        <5> QED BY <3>1, <3>3, <5>1, <5>2 DEF EndPending
      <4> QED BY <4>1, <4>2
    <3> QED BY <1>5, <3>1, <3>4 DEF NoZombie
  <2> QED BY <1>2, <1>5, <2>3, <2>4
<1> QED BY <1>3, <1>4, <1>5

\* Whatever throws and whichever rule's chain runs late, a registered rule is evaluated, or
\* the last write of its chain is the one that ends and drops it (applyEvent's retry and
\* resync): nothing stays registered and blind.
THEOREM NoZombies == Spec => []NoZombie
<1>1. Init => NoZombie
  BY DEF Init, NoZombie
<1>2. AttemptInv /\ NoZombie /\ [Next]_vars => NoZombie'
  <2> SUFFICES ASSUME AttemptInv, NoZombie, [Next]_vars PROVE NoZombie'
    OBVIOUS
  <2>1. Shapes /\ Tidy
    BY DEF AttemptInv
  <2>2. CASE UNCHANGED vars
    BY <2>2 DEF vars, NoZombie
  <2> QED BY <2>1, <2>2, ReloadEnds, EventsEnd, ControlEnds, WorkZombie DEF Next
<1> QED BY <1>1, <1>2, AttemptInit, AttemptStep, PTL DEF Spec

\* Every chain comes to its end: each statement of it, thrown or not, leaves it fewer, and
\* only the registered rule's chain is ever lengthened, while that rule is evaluated.
THEOREM ChainsEnd == Spec => [][ChainsGoDown]_vars
<1>1. AttemptInv /\ NoZombie /\ [Next]_vars => [ChainsGoDown]_vars
  <2> SUFFICES ASSUME AttemptInv, NoZombie, Next PROVE ChainsGoDown
    BY DEF vars, ChainsGoDown
  <2>1. Shapes /\ Tidy
    BY DEF AttemptInv
  <2>2. ASSUME NEW i \in 1..Slots
        PROVE  ChainLeft(slot[i].chain) \in Nat
    BY <2>1, ChainBound DEF Shapes, SlotShape
  <2>3. ChainLeft(<<>>) = 0
    BY DEF ChainLeft
  <2>4. CASE \E k \in 1..Slots : Work(k)
    <3>1. ASSUME NEW i \in 1..Slots, Work(i)
          PROVE  ChainLeft(slot'[i].chain) < ChainLeft(slot[i].chain)
                 /\ ChainLeft(slot'[i].chain) \in Nat
      BY <2>1, <3>1, WorkShortens
    <3>2. PICK k \in 1..Slots : Work(k) BY <2>4
    <3>3. ASSUME NEW i \in 1..Slots
          PROVE  ~(ChainLeft(slot'[i].chain) > ChainLeft(slot[i].chain))
      <4>1. CASE i = k BY <2>2, <3>1, <3>2, <4>1
      <4>2. CASE i # k
        <5>1. slot'[i].chain = slot[i].chain BY <2>1, <3>2, <4>2, WorkShortens
        <5> QED BY <2>2, <5>1
      <4> QED BY <4>1, <4>2
    <3> QED BY <3>1, <3>3 DEF ChainsGoDown
  <2>5. ASSUME ReloadRead \/ ReloadApply \/ Tick \/ Event \/ Pause \/ Resume \/ Cancel \/ Crash \/ Start
        PROVE  \A i \in 1..Slots : ChainLeft(slot'[i].chain) > ChainLeft(slot[i].chain)
                                     => i = live /\ Watched
    <3>1. \A i \in 1..Slots : \/ slot'[i].chain \in {slot[i].chain, <<>>}
                              \/ i = live /\ Watched
      BY <2>1, <2>5, ReloadEnds, EventsEnd, ControlEnds
    <3> QED BY <2>2, <2>3, <3>1
  <2>6. ASSUME NEW i \in 1..Slots, Work(i)
        PROVE  ChainLeft(slot'[i].chain) < ChainLeft(slot[i].chain)
    BY <2>1, <2>6, WorkShortens
  <2> QED BY <2>4, <2>5, <2>6 DEF Next, ChainsGoDown
<1> QED BY <1>1, NoZombies, AttemptInit, AttemptStep, PTL DEF Spec

=============================================================================
