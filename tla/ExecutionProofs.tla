--------------------------- MODULE ExecutionProofs ---------------------------
(* What Execution guarantees for every number of triggers, caps, requests   *)
(* and faults.                                                              *)
EXTENDS Execution, TLAPS, FiniteSetTheorems

\* A strategy still being evaluated has a repetition left: what keeps the trigger
\* number within maxRepeats, and the type invariant inductive.
RepetitionLeft == rule \in {"ACTIVE", "PAUSED"} => fired < MaxTriggers

TypeInv == TypeOK /\ RepetitionLeft

\* Trigger numbers are the naturals 1 to MaxTriggers.
LEMMA TriggersFacts ==
  /\ 1 \in Triggers /\ Triggers \subseteq Nat
  /\ \A n \in 1..MaxTriggers : n \in Triggers
BY ConstAssumption DEF Triggers

\* An attempt is a write chain's or the sweeper's, and the sweeper is no chain.
LEMMA AttemptsFacts ==
  /\ Sweeper \in Attempts /\ Sweeper \notin Chains
  /\ \A p : p \in Attempts <=> p \in Chains \/ p = Sweeper
  /\ IsFiniteSet(Attempts) /\ Cardinality(Attempts) = Cardinality(Chains) + 1
  /\ Cardinality(Chains) \in Nat
BY ConstAssumption, FS_AddElement, FS_CardinalityType DEF Attempts

-----------------------------------------------------------------------------
(* What each group of steps leaves alone.                                   *)

\* What the evaluator's steps leave alone.
LEMMA EvaluatorFrame ==
  ASSUME NEW c \in Chains, EvaluatorStep(c)
  PROVE  UNCHANGED <<stuck, auto, manual, rows, counted, autoOrders, manualOrders,
                     ghosts, sweep, rec, req, faults>>
BY DEF EvaluatorStep, CommitTrigger, EvaluatorEnds, ledgerVars, clobVars

\* What an attempt's steps leave alone.
LEMMA ExecuteFrame ==
  ASSUME NEW p \in Attempts, ExecuteStep(p)
  PROVE  UNCHANGED <<fired, manual, rows, manualOrders, ghosts, at, sweep, rec, req, faults>>
BY DEF ExecuteStep, AttemptGuards, AttemptDaily, AttemptLifetime, AttemptFunding,
       AttemptLookup, AttemptClaim, AttemptCreate, AttemptSubmit, AttemptAck,
       AttemptAccount, AttemptConfirm, AttemptFinish, AttemptNak, AttemptFailRule,
       AttemptNote, AttemptSkipRetry, ledgerVars, clobVars

\* What the sweeper's steps leave alone.
LEMMA SweeperFrame ==
  ASSUME SweeperStep
  PROVE  UNCHANGED <<rule, stuck, fired, auto, manual, rows, counted, autoOrders,
                     manualOrders, ghosts, rec, req, faults>>
BY DEF SweeperStep, SweepStart, SweepList, SweepNext, SweepEnd, RetryCheck,
       RetryVerify, RetryAbandon, ruleVars, ledgerVars, clobVars

\* What recovery's steps leave alone.
LEMMA RecoveryFrame ==
  ASSUME RecoveryStep
  PROVE  UNCHANGED <<fired, auto, manual, rows, autoOrders, manualOrders, ghosts,
                     pc, at, sweep, req, faults>>
BY DEF RecoveryStep, RecoveryPick, RecoveryReadTrigger, RecoveryReadIntent,
       RecoveryRevert, RecoveryFail, RecoveryAccount, RecoveryConfirm, RecoveryFinish,
       ledgerVars, clobVars, attemptVars

\* What an API request's steps leave alone.
LEMMA RequestFrame ==
  ASSUME NEW r \in Requests, RequestStep(r)
  PROVE  UNCHANGED <<fired, auto, counted, autoOrders, pc, at, sweep, rec, faults>>
BY DEF RequestStep, SubmitLookup, SubmitRelease, SubmitRecheck, SubmitCreate,
       SubmitOrder, SubmitRecord, ConfirmRead, ConfirmReadIntent, ConfirmWrite,
       ConfirmClose, DismissRead, DismissWrite, ledgerVars, clobVars, apiUnchanged

\* Controls, deadlines and faults.
Environment ==
  \/ Control \/ RetryLapses \/ ClaimAges
  \/ (\E p \in Attempts : AttemptThrows(p)) \/ RecoveryThrows \/ WorkerCrash
  \/ \E r \in Requests : RequestDies(r)

\* What the user's controls, time and faults leave alone.
LEMMA EnvironmentFrame ==
  ASSUME Environment
  PROVE  UNCHANGED <<fired, auto, manual, rows, counted, autoOrders, manualOrders,
                     ghosts, at>>
BY DEF Environment, Control, RetryLapses, ClaimAges, AttemptThrows, RecoveryThrows,
       WorkerCrash, RequestDies, ledgerVars, clobVars, attemptVars, apiUnchanged

\* Next by the groups the proofs go through.
LEMMA NextGroups ==
  Next <=> \/ (\E c \in Chains : EvaluatorStep(c))
           \/ (\E p \in Attempts : ExecuteStep(p)) \/ SweeperStep \/ RecoveryStep
           \/ (\E r \in Requests : RequestStep(r))
           \/ Environment
BY DEF Next, WorkerStep, Environment

-----------------------------------------------------------------------------
(* Type correctness, one part of the state at a time.                       *)

\* The initial state is typed.
LEMMA InitTyped == ASSUME Init PROVE TypeInv
<1> USE DEF Init
<1>1. RuleTyped
  <2>1. rule \in RuleStatus BY DEF RuleStatus
  <2>2. stuck \in BOOLEAN OBVIOUS
  <2>3. fired \in 0..MaxTriggers BY ConstAssumption
  <2> QED BY <2>1, <2>2, <2>3 DEF RuleTyped
<1>2. TriggersTyped BY DEF TriggersTyped, TriggerRow
<1>3. LedgerTyped /\ ClobTyped BY DEF LedgerTyped, ClobTyped, IntentStatus
<1>4. AttemptsTyped BY TriggersFacts DEF AttemptsTyped, AttemptPc
<1>5. SweepTyped BY DEF SweepTyped
<1>6. RecoveryTyped BY DEF RecoveryTyped, RecoveryPc, IdleRecovery
<1>7. RequestsTyped BY TriggersFacts DEF RequestsTyped, RequestPc, IdleRequest
<1>8. FaultsTyped BY ConstAssumption DEF FaultsTyped
<1>9. RepetitionLeft BY ConstAssumption DEF RepetitionLeft
<1> QED BY <1>1, <1>2, <1>3, <1>4, <1>5, <1>6, <1>7, <1>8, <1>9 DEF TypeInv, TypeOK

\* The evaluator's steps keep the types.
LEMMA EvaluatorTyped ==
  ASSUME TypeInv, NEW c \in Chains, EvaluatorStep(c)
  PROVE  TypeInv'
<1> USE DEF TypeInv, TypeOK
<1>1. CASE CommitTrigger(c)
  <2>1. fired + 1 \in 1..MaxTriggers /\ fired \in Nat
    BY <1>1, ConstAssumption DEF CommitTrigger, RepetitionLeft, RuleTyped
  <2>2. RuleTyped' /\ RepetitionLeft'
    BY <1>1, <2>1, ConstAssumption DEF CommitTrigger, RepetitionLeft, RuleTyped, RuleStatus
  <2>3. TriggersTyped'
    BY <1>1, <2>1, TriggersFacts DEF CommitTrigger, TriggersTyped, TriggerRow
  <2>4. AttemptsTyped'
    BY <1>1, <2>1, TriggersFacts DEF CommitTrigger, Move, AttemptsTyped, Attempts, AttemptPc
  <2> QED BY <1>1, <2>2, <2>3, <2>4, EvaluatorFrame
          DEF LedgerTyped, ClobTyped, SweepTyped, RecoveryTyped, RequestsTyped, FaultsTyped
<1>2. CASE EvaluatorEnds(c)
  <2>1. RuleTyped' /\ RepetitionLeft'
    BY <1>2 DEF EvaluatorEnds, RuleTyped, RuleStatus, RepetitionLeft
  <2>2. TriggersTyped' /\ AttemptsTyped'
    BY <1>2 DEF EvaluatorEnds, TriggersTyped, AttemptsTyped, attemptVars
  <2> QED BY <1>2, <2>1, <2>2, EvaluatorFrame
          DEF LedgerTyped, ClobTyped, SweepTyped, RecoveryTyped, RequestsTyped, FaultsTyped
<1> QED BY <1>1, <1>2 DEF EvaluatorStep

\* An attempt's steps keep the types.
LEMMA ExecuteTyped ==
  ASSUME TypeInv, NEW p \in Attempts, ExecuteStep(p)
  PROVE  TypeInv'
<1> USE DEF TypeInv, TypeOK
<1>0. at[p] \in Triggers
  BY DEF AttemptsTyped
<1>1. RuleTyped' /\ RepetitionLeft'
  BY ExecuteFrame
  DEF RuleTyped, RepetitionLeft, RuleStatus, ExecuteStep, AttemptGuards, AttemptDaily,
      AttemptLifetime, AttemptFunding, AttemptLookup, AttemptClaim, AttemptCreate,
      AttemptSubmit, AttemptAck, AttemptAccount, AttemptConfirm, AttemptFinish,
      AttemptNak, AttemptFailRule, AttemptNote, AttemptSkipRetry, ruleVars, RuleCas,
      AddExecutedNotional
<1>2. TriggersTyped'
  <2>1. CASE AttemptConfirm(p)
    BY <1>0, <2>1 DEF AttemptConfirm, MarkAutoExecuted, TriggersTyped, TriggerRow
  <2>2. CASE AttemptNote(p) \/ AttemptSkipRetry(p)
    <3>1. MarkAutoFailed(at[p]) \/ ScheduleAutoRetry(at[p]) \/ trig' = trig
      BY <2>2 DEF AttemptNote, AttemptSkipRetry
    <3>2. TriggersTyped
      OBVIOUS
    <3>3. CASE MarkAutoFailed(at[p])
      BY ONLY <1>0, <3>2, <3>3 DEF MarkAutoFailed, TriggersTyped, TriggerRow
    <3>4. CASE ScheduleAutoRetry(at[p])
      BY ONLY <1>0, <3>2, <3>4 DEF ScheduleAutoRetry, TriggersTyped, TriggerRow
    <3>5. CASE trig' = trig
      BY ONLY <3>2, <3>5 DEF TriggersTyped
    <3> QED BY <3>1, <3>3, <3>4, <3>5
  <2>3. CASE trig' = trig
    BY <2>3 DEF TriggersTyped
  <2> QED
    BY <2>1, <2>2, <2>3
    DEF ExecuteStep, AttemptGuards, AttemptDaily, AttemptLifetime, AttemptFunding,
        AttemptLookup, AttemptClaim, AttemptCreate, AttemptSubmit, AttemptAck,
        AttemptAccount, AttemptFinish, AttemptNak, AttemptFailRule
<1>3. LedgerTyped'
  <2>1. auto' \in [Triggers -> IntentStatus]
    BY <1>0
    DEF LedgerTyped, IntentStatus, ExecuteStep, AttemptGuards, AttemptDaily,
        AttemptLifetime, AttemptFunding, AttemptLookup, AttemptClaim, AttemptCreate,
        AttemptSubmit, AttemptAck, AttemptAccount, AttemptConfirm, AttemptFinish,
        AttemptNak, AttemptFailRule, AttemptNote, AttemptSkipRetry, ledgerVars
  <2>2. counted' \in [Triggers -> Nat]
    BY <1>0
    DEF LedgerTyped, ExecuteStep, AttemptGuards, AttemptDaily, AttemptLifetime,
        AttemptFunding, AttemptLookup, AttemptClaim, AttemptCreate, AttemptSubmit,
        AttemptAck, AttemptAccount, AttemptConfirm, AttemptFinish, AttemptNak,
        AttemptFailRule, AttemptNote, AttemptSkipRetry, ledgerVars, AddExecutedNotional
  <2> QED BY <2>1, <2>2, ExecuteFrame DEF LedgerTyped
<1>4. ClobTyped'
  <2>1. autoOrders' \in [Triggers -> Nat]
    BY <1>0
    DEF ClobTyped, ExecuteStep, AttemptGuards, AttemptDaily, AttemptLifetime,
        AttemptFunding, AttemptLookup, AttemptClaim, AttemptCreate, AttemptSubmit,
        AttemptAck, AttemptAccount, AttemptConfirm, AttemptFinish, AttemptNak,
        AttemptFailRule, AttemptNote, AttemptSkipRetry, clobVars
  <2> QED BY <2>1, ExecuteFrame DEF ClobTyped
<1>5. AttemptsTyped'
  <2>1. pc' \in [Attempts -> AttemptPc]
    BY DEF AttemptsTyped, AttemptPc, Move, ExecuteStep, AttemptGuards, AttemptDaily,
        AttemptLifetime, AttemptFunding, AttemptLookup, AttemptClaim, AttemptCreate,
        AttemptSubmit, AttemptAck, AttemptAccount, AttemptConfirm, AttemptFinish,
        AttemptNak, AttemptFailRule, AttemptNote, AttemptSkipRetry
  <2> QED BY <2>1, ExecuteFrame DEF AttemptsTyped
<1> QED BY <1>1, <1>2, <1>3, <1>4, <1>5, ExecuteFrame
        DEF SweepTyped, RecoveryTyped, RequestsTyped, FaultsTyped

\* The sweeper's steps keep the types.
LEMMA SweeperTyped == ASSUME TypeInv, SweeperStep PROVE TypeInv'
<1> USE DEF TypeInv, TypeOK
<1>1. at[Sweeper] \in Triggers
  BY DEF AttemptsTyped, Attempts
<1>2. TriggersTyped'
  BY <1>1 DEF TriggersTyped, TriggerRow, SweeperStep, SweepStart, SweepList, SweepNext,
              SweepEnd, RetryCheck, RetryVerify, RetryAbandon, ClearAutoRetry
<1>3. AttemptsTyped'
  <2>1. CASE SweepNext
    BY <2>1 DEF SweepNext, AttemptsTyped, SweepTyped, Attempts, AttemptPc, Move
  <2>2. CASE RetryCheck \/ RetryVerify \/ RetryAbandon
    BY <2>2 DEF RetryCheck, RetryVerify, RetryAbandon, AttemptsTyped, Attempts, AttemptPc, Move
  <2>3. CASE SweepStart \/ SweepList \/ SweepEnd
    BY <2>3 DEF SweepStart, SweepList, SweepEnd, AttemptsTyped, attemptVars
  <2> QED BY <2>1, <2>2, <2>3 DEF SweeperStep
<1>4. SweepTyped'
  BY DEF SweepTyped, SweeperStep, SweepStart, SweepList, SweepNext, SweepEnd,
         RetryCheck, RetryVerify, RetryAbandon
<1> QED BY <1>2, <1>3, <1>4, SweeperFrame
        DEF RuleTyped, RepetitionLeft, LedgerTyped, ClobTyped, RecoveryTyped,
            RequestsTyped, FaultsTyped

\* Recovery's steps keep the types.
LEMMA RecoveryStepTyped == ASSUME TypeInv, RecoveryStep PROVE TypeInv'
<1> USE DEF TypeInv, TypeOK
<1>1. RuleTyped' /\ RepetitionLeft'
  BY RecoveryFrame
  DEF RuleTyped, RepetitionLeft, RuleStatus, RecoveryStep, RecoveryPick,
      RecoveryReadTrigger, RecoveryReadIntent, RecoveryRevert, RecoveryFail,
      RecoveryAccount, RecoveryConfirm, RecoveryFinish, ruleVars, RuleCas,
      AddExecutedNotional
<1>2. TriggersTyped'
  BY DEF TriggersTyped, TriggerRow, RecoveryStep, RecoveryPick, RecoveryReadTrigger,
         RecoveryReadIntent, RecoveryRevert, RecoveryFail, RecoveryAccount,
         RecoveryConfirm, RecoveryFinish, SetTrigger
<1>3. LedgerTyped'
  <2>1. counted' \in [Triggers -> Nat]
    BY DEF LedgerTyped, RecoveryStep, RecoveryPick, RecoveryReadTrigger,
           RecoveryReadIntent, RecoveryRevert, RecoveryFail, RecoveryAccount,
           RecoveryConfirm, RecoveryFinish, ledgerVars, AddExecutedNotional
  <2> QED BY <2>1, RecoveryFrame DEF LedgerTyped
<1>4. RecoveryTyped'
  <2>1. CASE RecoveryReadTrigger
    <3>1. fired = 0 \/ fired \in Triggers
      BY ConstAssumption DEF RuleTyped, Triggers
    <3> QED BY <2>1, <3>1
            DEF RecoveryReadTrigger, RecoveryTyped, RecoveryPc, TriggersTyped, TriggerRow
  <2>2. CASE RecoveryReadIntent
    BY <2>2 DEF RecoveryReadIntent, RecoveryTyped, RecoveryPc
  <2>3. CASE RecoveryPick \/ RecoveryRevert \/ RecoveryFail \/ RecoveryAccount
             \/ RecoveryConfirm \/ RecoveryFinish
    BY <2>3 DEF RecoveryPick, RecoveryRevert, RecoveryFail, RecoveryAccount,
                RecoveryConfirm, RecoveryFinish, RecoveryTyped, RecoveryPc, IdleRecovery
  <2> QED BY <2>1, <2>2, <2>3 DEF RecoveryStep
<1> QED BY <1>1, <1>2, <1>3, <1>4, RecoveryFrame
        DEF ClobTyped, AttemptsTyped, SweepTyped, RequestsTyped, FaultsTyped

\* What requests do to triggers: nothing, or the user's word on one of them.
LEMMA RequestTriggers ==
  ASSUME RequestsTyped, NEW r \in Requests, RequestStep(r)
  PROVE  UNCHANGED trig \/ \E t \in Triggers : SetTrigger(t, "confirmed") \/ SetTrigger(t, "dismissed")
<1>1. req[r].t \in Triggers BY DEF RequestsTyped
<1> QED
  BY <1>1
  DEF RequestStep, SubmitLookup, SubmitRelease, SubmitRecheck, SubmitCreate, SubmitOrder,
      SubmitRecord, ConfirmRead, ConfirmReadIntent, ConfirmWrite, ConfirmClose, DismissRead,
      DismissWrite

\* A request's steps keep the types.
LEMMA RequestTyped ==
  ASSUME TypeInv, NEW r \in Requests, RequestStep(r)
  PROVE  TypeInv'
<1> USE DEF TypeInv, TypeOK
<1>0. req[r].t \in Triggers /\ 1..fired \subseteq Triggers
  BY ConstAssumption DEF RequestsTyped, RuleTyped, Triggers
<1>1. RuleTyped' /\ RepetitionLeft'
  <2>1. fired' = fired
    BY RequestFrame
  <2>2. CASE ConfirmClose(r)
    BY <2>1, <2>2 DEF RuleTyped, RepetitionLeft, RuleStatus, ConfirmClose, RuleCas
  <2>3. CASE ~ConfirmClose(r)
    <3>1. rule' = rule /\ stuck' = stuck
      BY <2>3 DEF RequestStep, SubmitLookup, SubmitRelease, SubmitRecheck, SubmitCreate,
                  SubmitOrder, SubmitRecord, ConfirmRead, ConfirmReadIntent, ConfirmWrite,
                  DismissRead, DismissWrite, ruleVars
    <3> QED BY <2>1, <3>1 DEF RuleTyped, RepetitionLeft
  <2> QED BY <2>2, <2>3
<1>2. TriggersTyped'
  <2>1. CASE UNCHANGED trig BY <1>0, <2>1 DEF TriggersTyped
  <2>2. ASSUME NEW t \in Triggers, SetTrigger(t, "confirmed") \/ SetTrigger(t, "dismissed")
        PROVE  TriggersTyped'
    BY <1>0, <2>2 DEF SetTrigger, TriggersTyped, TriggerRow
  <2>3. UNCHANGED trig \/ \E t \in Triggers : SetTrigger(t, "confirmed") \/ SetTrigger(t, "dismissed")
    BY RequestTriggers
  <2> QED BY <2>1, <2>2, <2>3
<1>3. LedgerTyped'
  <2>1. CASE SubmitRelease(r) \/ SubmitCreate(r) \/ SubmitRecord(r)
    BY <1>0, <2>1, RequestFrame
    DEF SubmitRelease, SubmitCreate, SubmitRecord, LedgerTyped, IntentStatus
  <2>2. CASE UNCHANGED <<manual, rows>>
    BY <2>2, RequestFrame DEF LedgerTyped
  <2> QED
    BY <2>1, <2>2
    DEF RequestStep, SubmitLookup, SubmitRecheck, SubmitOrder, ConfirmRead,
        ConfirmReadIntent, ConfirmWrite, ConfirmClose, DismissRead, DismissWrite, ledgerVars
<1>4. ClobTyped'
  <2>1. CASE SubmitOrder(r)
    BY <1>0, <2>1 DEF SubmitOrder, ClobTyped
  <2>2. CASE UNCHANGED <<manualOrders, ghosts>>
    BY <2>2, RequestFrame DEF ClobTyped
  <2> QED
    BY <2>1, <2>2
    DEF RequestStep, SubmitLookup, SubmitRelease, SubmitRecheck, SubmitCreate,
        SubmitRecord, ConfirmRead, ConfirmReadIntent, ConfirmWrite, ConfirmClose,
        DismissRead, DismissWrite, clobVars
<1>5. RequestsTyped'
  <2> DEFINE Row == [pc : RequestPc, t : Triggers, row : Nat, scoped : BOOLEAN]
  <2>1. ASSUME NEW to \in RequestPc, Go(r, to)
        PROVE  req' \in [Requests -> Row]
    <3>1. IdleRequest \in Row
      BY TriggersFacts DEF IdleRequest, RequestPc
    <3> QED BY <2>1, <3>1 DEF Go, RequestsTyped
  <2>2. CASE SubmitLookup(r) \/ ConfirmRead(r) \/ DismissRead(r)
    <3>1. \E q \in Row : req' = [req EXCEPT ![r] = q]
      BY <1>0, <2>2 DEF SubmitLookup, ConfirmRead, DismissRead, RequestPc, LedgerTyped
    <3> QED BY <3>1 DEF RequestsTyped
  <2>3. CASE ~(SubmitLookup(r) \/ ConfirmRead(r) \/ DismissRead(r))
    <3>1. \E to \in RequestPc : Go(r, to)
      BY <2>3
      DEF RequestStep, SubmitRelease, SubmitRecheck, SubmitCreate, SubmitOrder,
          SubmitRecord, ConfirmReadIntent, ConfirmWrite, ConfirmClose, DismissWrite,
          RequestPc
    <3> QED BY <2>1, <3>1 DEF RequestsTyped
  <2> QED BY <2>2, <2>3 DEF RequestsTyped
<1> QED BY <1>1, <1>2, <1>3, <1>4, <1>5, RequestFrame
        DEF AttemptsTyped, SweepTyped, RecoveryTyped, FaultsTyped

\* The environment's steps keep the types.
LEMMA EnvironmentTyped == ASSUME TypeInv, Environment PROVE TypeInv'
<1> USE DEF TypeInv, TypeOK
<1>1. RuleTyped' /\ RepetitionLeft'
  BY EnvironmentFrame
  DEF RuleTyped, RepetitionLeft, RuleStatus, Environment, Control, Pause, Resume, Cancel,
      RetryLapses, ClaimAges, AttemptThrows, RecoveryThrows, WorkerCrash, RequestDies,
      ruleVars, RuleCas
<1>2. TriggersTyped'
  BY DEF TriggersTyped, TriggerRow, Environment, Control, RetryLapses, ClaimAges,
         AttemptThrows, RecoveryThrows, WorkerCrash, RequestDies
<1>3. AttemptsTyped' /\ SweepTyped' /\ RecoveryTyped'
  <2>1. CASE \E p \in Attempts : AttemptThrows(p)
    BY <2>1 DEF AttemptThrows, Move, AttemptsTyped, AttemptPc, SweepTyped, RecoveryTyped
  <2>2. CASE RecoveryThrows
    BY <2>2 DEF RecoveryThrows, IdleRecovery, RecoveryPc, AttemptsTyped, SweepTyped,
                RecoveryTyped, attemptVars
  <2>3. CASE WorkerCrash
    BY <2>3 DEF WorkerCrash, IdleRecovery, RecoveryPc, AttemptsTyped, AttemptPc,
                SweepTyped, RecoveryTyped
  <2>4. CASE Control \/ RetryLapses \/ ClaimAges \/ \E r \in Requests : RequestDies(r)
    BY <2>4 DEF Control, RetryLapses, ClaimAges, RequestDies, AttemptsTyped, SweepTyped,
                RecoveryTyped, attemptVars, apiUnchanged
  <2> QED BY <2>1, <2>2, <2>3, <2>4 DEF Environment
<1>4. RequestsTyped'
  <2>1. CASE \E r \in Requests : RequestDies(r)
    BY <2>1, TriggersFacts DEF RequestDies, Go, IdleRequest, RequestsTyped, RequestPc
  <2>2. CASE req' = req
    BY <2>2 DEF RequestsTyped
  <2> QED BY <2>1, <2>2 DEF Environment, Control, RetryLapses, ClaimAges, AttemptThrows,
                            RecoveryThrows, WorkerCrash
<1>5. FaultsTyped'
  BY ConstAssumption
  DEF FaultsTyped, Environment, Control, RetryLapses, ClaimAges, AttemptThrows,
      RecoveryThrows, WorkerCrash, RequestDies, apiUnchanged
<1> QED BY <1>1, <1>2, <1>3, <1>4, <1>5, EnvironmentFrame DEF LedgerTyped, ClobTyped

\* A stutter keeps the types.
LEMMA StutterTyped == ASSUME TypeInv, UNCHANGED vars PROVE TypeInv'
BY DEF vars, TypeInv, TypeOK, RepetitionLeft, RuleTyped, TriggersTyped, LedgerTyped,
       ClobTyped, AttemptsTyped, SweepTyped, RecoveryTyped, RequestsTyped, FaultsTyped

\* Every step keeps the types.
LEMMA StepTyped == ASSUME TypeInv, [Next]_vars PROVE TypeInv'
BY NextGroups, EvaluatorTyped, ExecuteTyped, SweeperTyped, RecoveryStepTyped,
   RequestTyped, EnvironmentTyped, StutterTyped

\* TypeInv is an invariant.
LEMMA TypeInvariant == Spec => []TypeInv
BY InitTyped, StepTyped, PTL DEF Spec

\* Type correctness of the execution path for every value of the constants; in
\* particular no trigger is committed beyond maxRepeats.
THEOREM TypeCorrect == Spec => []TypeOK
<1>1. TypeInv => TypeOK BY DEF TypeInv
<1> QED BY <1>1, TypeInvariant, PTL

-----------------------------------------------------------------------------
(* The retry schedule.                                                      *)

\* All that a step may do to the trigger rows.
LEMMA TriggerWrites ==
  ASSUME TypeInv, [Next]_vars
  PROVE  \/ \E c \in Chains : CommitTrigger(c)
         \/ \E t \in Triggers : \/ MarkAutoExecuted(t) \/ MarkAutoFailed(t)
                               \/ ScheduleAutoRetry(t) \/ ClearAutoRetry(t)
         \/ \E t, s : SetTrigger(t, s)
         \/ RetryLapses
         \/ trig' = trig
<1>1. TriggersTyped /\ AttemptsTyped /\ RequestsTyped
  BY DEF TypeInv, TypeOK
<1>2. ASSUME NEW p \in Attempts, ExecuteStep(p)
      PROVE  \/ trig' = trig
             \/ \E t \in Triggers : \/ MarkAutoExecuted(t) \/ MarkAutoFailed(t)
                                   \/ ScheduleAutoRetry(t)
  <2>1. at[p] \in Triggers
    BY <1>1 DEF AttemptsTyped
  <2> QED
    BY <1>2, <2>1
    DEF ExecuteStep, AttemptGuards, AttemptDaily, AttemptLifetime, AttemptFunding,
        AttemptLookup, AttemptClaim, AttemptCreate, AttemptSubmit, AttemptAck,
        AttemptAccount, AttemptConfirm, AttemptFinish, AttemptNak, AttemptFailRule,
        AttemptNote, AttemptSkipRetry
<1>3. ASSUME SweeperStep
      PROVE  trig' = trig \/ \E t \in Triggers : ClearAutoRetry(t)
  BY <1>1, <1>3 DEF SweeperStep, SweepStart, SweepList, SweepNext, SweepEnd, RetryCheck,
                    RetryVerify, RetryAbandon, AttemptsTyped, Attempts
<1>4. ASSUME RecoveryStep
      PROVE  trig' = trig \/ \E t, s : SetTrigger(t, s)
  BY <1>4 DEF RecoveryStep, RecoveryPick, RecoveryReadTrigger, RecoveryReadIntent,
              RecoveryRevert, RecoveryFail, RecoveryAccount, RecoveryConfirm, RecoveryFinish
<1>5. ASSUME NEW r \in Requests, RequestStep(r)
      PROVE  trig' = trig \/ \E t, s : SetTrigger(t, s)
  BY <1>5 DEF RequestStep, SubmitLookup, SubmitRelease, SubmitRecheck, SubmitCreate,
               SubmitOrder, SubmitRecord, ConfirmRead, ConfirmReadIntent, ConfirmWrite,
               ConfirmClose, DismissRead, DismissWrite
<1>6. ASSUME Environment
      PROVE  trig' = trig \/ RetryLapses
  BY <1>6 DEF Environment, Control, ClaimAges, AttemptThrows, RecoveryThrows,
               WorkerCrash, RequestDies
<1>7. UNCHANGED vars \/ (\E c \in Chains : EvaluatorEnds(c)) => trig' = trig
  BY DEF vars, EvaluatorEnds
<1> QED BY <1>2, <1>3, <1>4, <1>5, <1>6, <1>7, NextGroups DEF EvaluatorStep

\* Every write that moves a trigger's status clears its schedule, and only an
\* awaiting trigger is scheduled; what a TypeInv step does to trig is enough.
LEMMA RetryStep ==
  ASSUME TypeInv, RetryOnlyWhileAwaiting, [Next]_vars
  PROVE  RetryOnlyWhileAwaiting'
<1>1. TriggersTyped /\ AttemptsTyped /\ RequestsTyped
  BY DEF TypeInv, TypeOK
<1>2. CASE \E c \in Chains : CommitTrigger(c)
  BY <1>1, <1>2 DEF CommitTrigger, TriggersTyped, TriggerRow, RetryOnlyWhileAwaiting
<1>3. CASE \E t \in Triggers :
             \/ MarkAutoExecuted(t) \/ MarkAutoFailed(t) \/ ScheduleAutoRetry(t)
             \/ ClearAutoRetry(t)
  BY <1>1, <1>3 DEF MarkAutoExecuted, MarkAutoFailed, ScheduleAutoRetry, ClearAutoRetry,
                    TriggersTyped, TriggerRow, RetryOnlyWhileAwaiting
<1>4. CASE \E t, s : SetTrigger(t, s)
  BY <1>1, <1>4 DEF SetTrigger, TriggersTyped, TriggerRow, RetryOnlyWhileAwaiting
<1>5. CASE RetryLapses
  BY <1>1, <1>5 DEF RetryLapses, TriggersTyped, TriggerRow, RetryOnlyWhileAwaiting
<1>6. CASE trig' = trig
  BY <1>6 DEF RetryOnlyWhileAwaiting
<1> QED BY <1>2, <1>3, <1>4, <1>5, <1>6, TriggerWrites

\* "The user always wins": no trigger that was confirmed or dismissed carries a
\* retry schedule, whatever the attempts that were under way go on to write.
THEOREM RetrySchedule == Spec => []RetryOnlyWhileAwaiting
<1>1. Init => RetryOnlyWhileAwaiting
  BY DEF Init, RetryOnlyWhileAwaiting
<1> QED BY <1>1, RetryStep, TypeInvariant, PTL DEF Spec

-----------------------------------------------------------------------------
(* One automatic order per trigger.                                         *)

\* An attempt between the row it created and the row's verdict.
Owns(p) == pc[p] \in {"submit", "ack", "nak"}

\* The key of a trigger belongs to one attempt while its row is pending, and no
\* order exists before the submit.
KeyOwned ==
  /\ \A p \in Attempts : Owns(p) => auto[at[p]] = "pending"
  /\ \A p, q \in Attempts : p # q /\ Owns(p) /\ Owns(q) => at[p] # at[q]
  /\ \A p \in Attempts : pc[p] = "submit" => autoOrders[at[p]] = 0
  /\ \A t \in Triggers : auto[t] = "none" => autoOrders[t] = 0

\* What an attempt past the submit still has to write is already true of the
\* ledger it has written.
SettledInOrder ==
  /\ \A p \in Attempts : pc[p] \in {"account", "confirm"} => auto[at[p]] = "submitted"
  /\ \A p \in Attempts : pc[p] = "confirm" => counted[at[p]] >= 1

LedgerInv == KeyOwned /\ SettledInOrder /\ AutoOrderAtMostOnce /\ ExecutedIsCounted

\* A step that writes neither intents nor orders, takes nothing back from the
\* count, marks no trigger executed, and moves no attempt into Busy.
Busy == {"submit", "ack", "nak", "account", "confirm"}
Quiet ==
  /\ UNCHANGED <<auto, autoOrders>>
  /\ \A t \in Triggers : counted'[t] >= counted[t]
  /\ \A t \in Triggers : trig'[t].executed => trig[t].executed
  /\ \A p \in Attempts : pc'[p] \in Busy => pc'[p] = pc[p] /\ at'[p] = at[p]

\* A step that writes neither ledger nor verdict keeps LedgerInv.
LEMMA QuietKeepsLedger == ASSUME TypeInv, TypeInv', LedgerInv, Quiet PROVE LedgerInv'
<1>1. /\ counted \in [Triggers -> Nat] /\ counted' \in [Triggers -> Nat]
      /\ \A p \in Attempts : at[p] \in Triggers
  BY DEF TypeInv, TypeOK, LedgerTyped, AttemptsTyped
<1>2. KeyOwned'
  BY DEF Quiet, Busy, LedgerInv, KeyOwned, Owns
<1>3. SettledInOrder'
  BY <1>1 DEF Quiet, Busy, LedgerInv, SettledInOrder
<1>4. AutoOrderAtMostOnce'
  BY DEF Quiet, LedgerInv, AutoOrderAtMostOnce
<1>5. ExecutedIsCounted'
  BY <1>1 DEF Quiet, LedgerInv, ExecutedIsCounted
<1> QED BY <1>2, <1>3, <1>4, <1>5 DEF LedgerInv

\* The evaluator writes neither.
LEMMA EvaluatorQuiet == ASSUME TypeInv, NEW c \in Chains, EvaluatorStep(c) PROVE Quiet
<1>1. /\ trig \in [Triggers -> TriggerRow] /\ counted \in [Triggers -> Nat]
      /\ pc \in [Attempts -> AttemptPc] /\ at \in [Attempts -> Triggers]
  BY DEF TypeInv, TypeOK, TriggersTyped, LedgerTyped, AttemptsTyped
<1>2. UNCHANGED <<auto, autoOrders, counted>>
  BY EvaluatorFrame
<1>3. \A t \in Triggers : trig'[t].executed => trig[t].executed
  BY <1>1 DEF EvaluatorStep, CommitTrigger, EvaluatorEnds, TriggerRow
<1>4. \A p \in Attempts : pc'[p] \in Busy => pc'[p] = pc[p] /\ at'[p] = at[p]
  BY <1>1, AttemptsFacts
  DEF EvaluatorStep, CommitTrigger, EvaluatorEnds, attemptVars, Move, Busy
<1> QED BY <1>1, <1>2, <1>3, <1>4 DEF Quiet

\* The sweeper writes neither.
LEMMA SweeperQuiet == ASSUME TypeInv, SweeperStep PROVE Quiet
<1>1. TriggersTyped /\ LedgerTyped /\ AttemptsTyped
  BY DEF TypeInv, TypeOK
<1>2. \A t \in Triggers : trig'[t].executed => trig[t].executed
  BY <1>1 DEF SweeperStep, SweepStart, SweepList, SweepNext, SweepEnd, RetryCheck,
              RetryVerify, RetryAbandon, ClearAutoRetry, TriggersTyped, TriggerRow
<1>3. \A p \in Attempts : pc'[p] \in Busy => pc'[p] = pc[p] /\ at'[p] = at[p]
  BY <1>1 DEF SweeperStep, SweepStart, SweepList, SweepNext, SweepEnd, RetryCheck,
              RetryVerify, RetryAbandon, SweepIdle, Move, Busy, AttemptsTyped, Attempts,
              attemptVars
<1> QED BY <1>1, <1>2, <1>3, SweeperFrame DEF Quiet, LedgerTyped

\* Recovery counts and reports, and writes no intent.
LEMMA RecoveryQuiet == ASSUME TypeInv, RecoveryStep PROVE Quiet
<1>1. TriggersTyped /\ LedgerTyped
  BY DEF TypeInv, TypeOK
<1>2. \A t \in Triggers : trig'[t].executed => trig[t].executed
  BY <1>1 DEF RecoveryStep, RecoveryPick, RecoveryReadTrigger, RecoveryReadIntent,
              RecoveryRevert, RecoveryFail, RecoveryAccount, RecoveryConfirm,
              RecoveryFinish, SetTrigger, TriggersTyped, TriggerRow
<1>3. \A t \in Triggers : counted'[t] >= counted[t]
  BY <1>1 DEF RecoveryStep, RecoveryPick, RecoveryReadTrigger, RecoveryReadIntent,
              RecoveryRevert, RecoveryFail, RecoveryAccount, RecoveryConfirm,
              RecoveryFinish, AddExecutedNotional, ledgerVars, LedgerTyped
<1> QED BY <1>2, <1>3, RecoveryFrame DEF Quiet

\* API requests write no automatic intent.
LEMMA RequestQuiet == ASSUME TypeInv, NEW r \in Requests, RequestStep(r) PROVE Quiet
<1>1. TriggersTyped /\ LedgerTyped /\ RequestsTyped
  BY DEF TypeInv, TypeOK
<1>2. \A t \in Triggers : trig'[t].executed => trig[t].executed
  <2>1. ASSUME NEW t \in Triggers, SetTrigger(t, "confirmed") \/ SetTrigger(t, "dismissed")
        PROVE  \A u \in Triggers : trig'[u].executed => trig[u].executed
    BY <1>1, <2>1 DEF SetTrigger, TriggersTyped, TriggerRow
  <2>2. UNCHANGED trig \/ \E t \in Triggers : SetTrigger(t, "confirmed") \/ SetTrigger(t, "dismissed")
    BY <1>1, RequestTriggers
  <2> QED BY <2>1, <2>2
<1> QED BY <1>1, <1>2, RequestFrame DEF Quiet, LedgerTyped

\* The environment writes neither.
LEMMA EnvironmentQuiet == ASSUME TypeInv, Environment PROVE Quiet
<1>1. TriggersTyped /\ LedgerTyped /\ AttemptsTyped
  BY DEF TypeInv, TypeOK
<1>2. \A t \in Triggers : trig'[t].executed => trig[t].executed
  BY <1>1 DEF Environment, Control, RetryLapses, ClaimAges, AttemptThrows,
              RecoveryThrows, WorkerCrash, RequestDies, TriggersTyped, TriggerRow
<1>3. \A p \in Attempts : pc'[p] \in Busy => pc'[p] = pc[p]
  BY <1>1 DEF Environment, Control, RetryLapses, ClaimAges, AttemptThrows,
              RecoveryThrows, WorkerCrash, RequestDies, Move, Busy, AttemptsTyped,
              attemptVars, apiUnchanged
<1> QED BY <1>1, <1>2, <1>3, EnvironmentFrame DEF Quiet, LedgerTyped

\* The writes of an attempt that concern its intent, order and count.
LedgerWrite(p) ==
  \/ AttemptCreate(p) \/ AttemptSubmit(p) \/ AttemptAck(p) \/ AttemptAccount(p)
  \/ AttemptConfirm(p) \/ AttemptNak(p)

\* Every other step of an attempt is quiet.
LEMMA ExecuteQuiet ==
  ASSUME TypeInv, NEW p \in Attempts, ExecuteStep(p), ~LedgerWrite(p)
  PROVE  Quiet
<1>1. TriggersTyped /\ LedgerTyped /\ AttemptsTyped /\ at[p] \in Triggers
  BY DEF TypeInv, TypeOK, AttemptsTyped
<1>2. \A t \in Triggers : trig'[t].executed => trig[t].executed
  BY <1>1
  DEF ExecuteStep, LedgerWrite, AttemptGuards, AttemptDaily, AttemptLifetime,
      AttemptFunding, AttemptLookup, AttemptClaim, AttemptFinish, AttemptFailRule,
      AttemptNote, AttemptSkipRetry, MarkAutoFailed, ScheduleAutoRetry,
      TriggersTyped, TriggerRow
<1>3. \A q \in Attempts : pc'[q] \in Busy => pc'[q] = pc[q]
  BY <1>1
  DEF ExecuteStep, LedgerWrite, AttemptGuards, AttemptDaily, AttemptLifetime,
      AttemptFunding, AttemptLookup, AttemptClaim, AttemptFinish, AttemptFailRule,
      AttemptNote, AttemptSkipRetry, Move, Busy, AttemptsTyped
<1>4. UNCHANGED <<auto, counted, autoOrders>>
  BY DEF ExecuteStep, LedgerWrite, AttemptGuards, AttemptDaily, AttemptLifetime,
         AttemptFunding, AttemptLookup, AttemptClaim, AttemptFinish, AttemptFailRule,
         AttemptNote, AttemptSkipRetry, ledgerVars, clobVars
<1> QED BY <1>1, <1>2, <1>3, <1>4, ExecuteFrame DEF Quiet, LedgerTyped

\* The writes of an attempt keep LedgerInv.
LEMMA WriteKeepsLedger ==
  ASSUME TypeInv, LedgerInv, NEW p \in Attempts, LedgerWrite(p)
  PROVE  LedgerInv'
<1>1. /\ auto \in [Triggers -> IntentStatus] /\ counted \in [Triggers -> Nat]
      /\ autoOrders \in [Triggers -> Nat] /\ trig \in [Triggers -> TriggerRow]
      /\ pc \in [Attempts -> AttemptPc] /\ at \in [Attempts -> Triggers]
  BY DEF TypeInv, TypeOK, LedgerTyped, ClobTyped, TriggersTyped, AttemptsTyped
<1> USE DEF LedgerInv
<1>2. CASE AttemptCreate(p)
  <2> USE <1>1, <1>2 DEF AttemptCreate, Move, clobVars
  <2>1. KeyOwned' BY DEF KeyOwned, Owns
  <2>2. SettledInOrder' BY DEF SettledInOrder
  <2>3. AutoOrderAtMostOnce' /\ ExecutedIsCounted' BY DEF AutoOrderAtMostOnce, ExecutedIsCounted
  <2> QED BY <2>1, <2>2, <2>3
<1>3. CASE AttemptSubmit(p)
  <2> USE <1>1, <1>3 DEF AttemptSubmit, Move, ledgerVars
  <2>1. KeyOwned' BY DEF KeyOwned, Owns
  <2>2. SettledInOrder' BY DEF SettledInOrder
  <2>3. AutoOrderAtMostOnce' BY DEF AutoOrderAtMostOnce, KeyOwned
  <2>4. ExecutedIsCounted' BY DEF ExecutedIsCounted
  <2> QED BY <2>1, <2>2, <2>3, <2>4
<1>4. CASE AttemptAck(p) \/ AttemptNak(p)
  <2> USE <1>1, <1>4 DEF AttemptAck, AttemptNak, Move, clobVars
  <2>1. KeyOwned' BY DEF KeyOwned, Owns
  <2>2. SettledInOrder' BY DEF SettledInOrder, KeyOwned, Owns
  <2>3. AutoOrderAtMostOnce' BY DEF AutoOrderAtMostOnce
  <2>4. ExecutedIsCounted' BY DEF ExecutedIsCounted, KeyOwned, Owns
  <2> QED BY <2>1, <2>2, <2>3, <2>4
<1>5. CASE AttemptAccount(p)
  <2> USE <1>1, <1>5 DEF AttemptAccount, AddExecutedNotional, Move, clobVars
  <2>1. KeyOwned' BY DEF KeyOwned, Owns
  <2>2. SettledInOrder' BY DEF SettledInOrder
  <2>3. AutoOrderAtMostOnce' BY DEF AutoOrderAtMostOnce
  <2>4. ExecutedIsCounted' BY DEF ExecutedIsCounted
  <2> QED BY <2>1, <2>2, <2>3, <2>4
<1>6. CASE AttemptConfirm(p)
  <2> USE <1>1, <1>6 DEF AttemptConfirm, Move, clobVars, ledgerVars
  <2>1. KeyOwned' BY DEF KeyOwned, Owns
  <2>2. SettledInOrder' BY DEF SettledInOrder
  <2>3. AutoOrderAtMostOnce' BY DEF AutoOrderAtMostOnce
  <2>4. ExecutedIsCounted'
    BY DEF ExecutedIsCounted, SettledInOrder, MarkAutoExecuted, TriggerRow
  <2> QED BY <2>1, <2>2, <2>3, <2>4
<1> QED BY <1>2, <1>3, <1>4, <1>5, <1>6 DEF LedgerWrite

\* LedgerInv holds initially.
LEMMA LedgerInit == ASSUME Init PROVE LedgerInv
BY DEF Init, LedgerInv, KeyOwned, Owns, SettledInOrder, AutoOrderAtMostOnce,
       ExecutedIsCounted

\* Every step keeps LedgerInv.
LEMMA LedgerStep == ASSUME TypeInv, LedgerInv, [Next]_vars PROVE LedgerInv'
<1>1. TypeInv' BY StepTyped
<1>2. ASSUME NEW p \in Attempts, ExecuteStep(p) PROVE LedgerInv'
  BY <1>1, <1>2, ExecuteQuiet, QuietKeepsLedger, WriteKeepsLedger
<1>3. CASE UNCHANGED vars
  BY <1>3 DEF vars, LedgerInv, KeyOwned, Owns, SettledInOrder, AutoOrderAtMostOnce,
              ExecutedIsCounted
<1> QED BY <1>1, <1>2, <1>3, NextGroups, EvaluatorQuiet, SweeperQuiet, RecoveryQuiet,
           RequestQuiet, EnvironmentQuiet, QuietKeepsLedger

\* LedgerInv is an invariant.
LEMMA LedgerInvariant == Spec => []LedgerInv
BY LedgerInit, LedgerStep, TypeInvariant, PTL DEF Spec

\* No trigger ever has two automatic orders at the CLOB, however many repeats,
\* caps, crashes, thrown statements and lost answers there are.
THEOREM OneOrderPerTrigger == Spec => []AutoOrderAtMostOnce
<1>1. LedgerInv => AutoOrderAtMostOnce BY DEF LedgerInv
<1> QED BY <1>1, LedgerInvariant, PTL

\* A trigger marked as executed has its order acknowledged and counted.
THEOREM ExecutedCounted == Spec => []ExecutedIsCounted
<1>1. LedgerInv => ExecutedIsCounted BY DEF LedgerInv
<1> QED BY <1>1, LedgerInvariant, PTL

-----------------------------------------------------------------------------
(* The EXECUTING claim of a once-rule.                                      *)

Claimed(p) == pc[p] \in ClaimedPc

\* While an attempt holds the claim the rule is EXECUTING and fresh, so no other
\* attempt and no recovery can hold it; recovery holds it alone.
ClaimHeld ==
  /\ \A p \in Attempts : pc[p] \in {"claim", "finish", "failRule"} => Once
  /\ Once => \A p \in Attempts : Claimed(p) => rule = "EXECUTING" /\ ~stuck
  /\ Once => \A p, q \in Attempts : Claimed(p) /\ Claimed(q) => p = q
  /\ rule \in {"EXECUTING", "EXECUTED_AUTO", "EXECUTION_FAILED"} => Once
  /\ rec.pc # "idle" => rule = "EXECUTING" /\ \A p \in Attempts : ~Claimed(p)

\* The verdict a claim's holder is about to write agrees with the ledger.
VerdictReady ==
  /\ \A p \in Attempts : /\ pc[p] \in {"account", "confirm", "finish"} => auto[at[p]] = "submitted"
                         /\ pc[p] = "failRule" => auto[at[p]] = "failed"
  /\ rec.pc \in {"account", "confirm", "finish"} => auto[fired] \in {"pending", "submitted"}
  /\ rec.pc = "fail" => auto[fired] = "failed"
  /\ rule \in {"TRIGGERED_AWAITING_USER", "EXECUTING", "EXECUTED_AUTO", "EXECUTION_FAILED"}
       => fired = MaxTriggers

\* A verdict stands over an intent of its kind.
VerdictOnLedger ==
  /\ rule = "EXECUTED_AUTO" => auto[fired] \in {"pending", "submitted"}
  /\ rule = "EXECUTION_FAILED" => auto[fired] = "failed"

ClaimInv == ClaimHeld /\ VerdictReady /\ VerdictOnLedger

\* A step that moves neither the rule, the claims, the intents nor the recovery.
Aside ==
  /\ UNCHANGED <<rule, fired, auto, rec>>
  /\ stuck' => stuck
  /\ \A p \in Attempts : \/ pc'[p] = pc[p] /\ at'[p] = at[p]
                         \/ pc'[p] \notin ClaimedPc \cup {"claim"}

\* A step beside the claim keeps ClaimInv.
LEMMA AsideKeepsClaim == ASSUME TypeInv, TypeInv', ClaimInv, Aside PROVE ClaimInv'
<1>1. ClaimHeld'
  BY DEF Aside, ClaimInv, ClaimHeld, Claimed, ClaimedPc
<1>2. VerdictReady'
  BY DEF Aside, ClaimInv, VerdictReady, ClaimedPc
<1>3. VerdictOnLedger'
  BY DEF Aside, ClaimInv, VerdictOnLedger
<1> QED BY <1>1, <1>2, <1>3 DEF ClaimInv

\* A once-rule has the one trigger, and every attempt works on it.
LEMMA OnceFacts ==
  ASSUME Once, TypeInv, NEW p \in Attempts
  PROVE  MaxTriggers = 1 /\ at[p] = 1 /\ fired \in {0, 1}
BY ConstAssumption DEF TypeInv, TypeOK, AttemptsTyped, RuleTyped, Triggers

\* The evaluator keeps ClaimInv.
LEMMA EvaluatorKeepsClaim ==
  ASSUME TypeInv, ClaimInv, NEW c \in Chains, EvaluatorStep(c)
  PROVE  ClaimInv'
<1>1. /\ pc \in [Attempts -> AttemptPc] /\ at \in [Attempts -> Triggers]
      /\ fired \in Nat /\ RepetitionLeft
  BY ConstAssumption DEF TypeInv, TypeOK, AttemptsTyped, RuleTyped
<1>2. rule = "ACTIVE"
  BY DEF EvaluatorStep, CommitTrigger, EvaluatorEnds
<1>3. rec.pc = "idle" /\ \A p \in Attempts : Once => ~Claimed(p)
  BY <1>2 DEF ClaimInv, ClaimHeld
<1>4. UNCHANGED <<auto, rec>>
  BY EvaluatorFrame
<1>5. rule' \in {"ACTIVE", "TRIGGERED_AWAITING_USER", "EXPIRED"}
  BY DEF EvaluatorStep, CommitTrigger, EvaluatorEnds
<1>6. \A p \in Attempts : (pc'[p] = pc[p] /\ at'[p] = at[p]) \/ pc'[p] = "guards"
  BY <1>1 DEF EvaluatorStep, CommitTrigger, EvaluatorEnds, Move, attemptVars, Attempts
<1>7. rule' = "TRIGGERED_AWAITING_USER" => fired' = MaxTriggers
  BY <1>1, <1>2, ConstAssumption DEF EvaluatorStep, CommitTrigger, EvaluatorEnds, RepetitionLeft
<1>8. ClaimHeld'
  BY <1>3, <1>4, <1>5, <1>6 DEF ClaimInv, ClaimHeld, Claimed, ClaimedPc
<1>9. VerdictReady'
  BY <1>3, <1>4, <1>5, <1>6, <1>7 DEF ClaimInv, VerdictReady
<1>10. VerdictOnLedger'
  BY <1>5 DEF VerdictOnLedger
<1> QED BY <1>8, <1>9, <1>10 DEF ClaimInv

\* The sweeper is beside the claim.
LEMMA SweeperAside == ASSUME TypeInv, SweeperStep PROVE Aside
<1>1. AttemptsTyped
  BY DEF TypeInv, TypeOK
<1> QED
  BY <1>1, SweeperFrame
  DEF Aside, ClaimedPc, SweeperStep, SweepStart, SweepList, SweepNext, SweepEnd,
      RetryCheck, RetryVerify, RetryAbandon, SweepIdle, Move, AttemptsTyped, Attempts,
      attemptVars

\* A repeat-rule never claims, so its verdict never changes hands.
LEMMA RepeatKeepsClaim ==
  ASSUME TypeInv, ClaimInv, LedgerInv, ~Once, NEW p \in Attempts, ExecuteStep(p)
  PROVE  ClaimInv'
<1>1. pc \in [Attempts -> AttemptPc] /\ pc[p] \notin {"claim", "finish", "failRule"}
  BY DEF TypeInv, TypeOK, AttemptsTyped, ClaimInv, ClaimHeld
<1>2. rec.pc = "idle" /\ rule \notin {"EXECUTING", "EXECUTED_AUTO", "EXECUTION_FAILED"}
  BY DEF ClaimInv, ClaimHeld
<1>3. UNCHANGED <<rule, fired, rec, at>>
  BY <1>1, ExecuteFrame
  DEF ExecuteStep, AttemptGuards, AttemptDaily, AttemptLifetime, AttemptFunding,
      AttemptLookup, AttemptClaim, AttemptCreate, AttemptSubmit, AttemptAck,
      AttemptAccount, AttemptConfirm, AttemptFinish, AttemptNak, AttemptFailRule,
      AttemptNote, AttemptSkipRetry, ruleVars
<1>4. \A q \in Attempts : pc'[q] \notin {"claim", "finish", "failRule"}
  BY <1>1
  DEF ClaimInv, ClaimHeld, ExecuteStep, AttemptGuards, AttemptDaily, AttemptLifetime,
      AttemptFunding, AttemptLookup, AttemptClaim, AttemptCreate, AttemptSubmit, AttemptAck,
      AttemptAccount, AttemptConfirm, AttemptFinish, AttemptNak, AttemptFailRule,
      AttemptNote, AttemptSkipRetry, Move
<1>5. \A q \in Attempts : pc'[q] \in {"account", "confirm"} => auto'[at'[q]] = "submitted"
  <2>1. LedgerInv' /\ TypeInv'
    BY LedgerStep, StepTyped, NextGroups
  <2> QED BY <2>1 DEF LedgerInv, SettledInOrder
<1> QED
  BY <1>2, <1>3, <1>4, <1>5
  DEF ClaimInv, ClaimHeld, VerdictReady, VerdictOnLedger

\* An attempt that does not hold the claim is beside it.
LEMMA UnclaimedAside ==
  ASSUME TypeInv, NEW p \in Attempts,
         \/ AttemptGuards(p) \/ AttemptDaily(p) \/ AttemptLifetime(p) \/ AttemptFunding(p)
         \/ AttemptNote(p) \/ AttemptSkipRetry(p)
  PROVE  Aside
<1>1. pc \in [Attempts -> AttemptPc]
  BY DEF TypeInv, TypeOK, AttemptsTyped
<1> QED
  BY <1>1
  DEF Aside, ClaimedPc, AttemptGuards, AttemptDaily, AttemptLifetime, AttemptFunding,
      AttemptNote, AttemptSkipRetry, Move, ruleVars, ledgerVars

\* A once-rule's attempt up to its claim.
LEMMA ClaimKeepsClaim ==
  ASSUME TypeInv, ClaimInv, Once, NEW p \in Attempts, AttemptLookup(p) \/ AttemptClaim(p)
  PROVE  ClaimInv'
<1>1. pc \in [Attempts -> AttemptPc] /\ UNCHANGED <<fired, auto, at, rec>>
  BY DEF TypeInv, TypeOK, AttemptsTyped, AttemptLookup, AttemptClaim, ledgerVars
<1>2. CASE UNCHANGED ruleVars /\ pc' = [pc EXCEPT ![p] = "idle"]
  BY <1>1, <1>2 DEF ruleVars, ClaimInv, ClaimHeld, Claimed, ClaimedPc, VerdictReady,
     VerdictOnLedger
<1>3. CASE UNCHANGED ruleVars /\ pc' = [pc EXCEPT ![p] = "claim"]
  BY <1>1, <1>3 DEF ruleVars, ClaimInv, ClaimHeld, Claimed, ClaimedPc, VerdictReady,
     VerdictOnLedger
<1>4. CASE UNCHANGED ruleVars /\ pc' = [pc EXCEPT ![p] = "skipNote"]
  BY <1>1, <1>4 DEF ruleVars, ClaimInv, ClaimHeld, Claimed, ClaimedPc, VerdictReady,
     VerdictOnLedger
<1>5. CASE /\ rule = "TRIGGERED_AWAITING_USER" /\ rule' = "EXECUTING" /\ stuck' = FALSE
           /\ pc' = [pc EXCEPT ![p] = "create"]
  BY <1>1, <1>5 DEF ClaimInv, ClaimHeld, Claimed, ClaimedPc, VerdictReady,
     VerdictOnLedger
<1> QED
  BY <1>2, <1>3, <1>4, <1>5 DEF AttemptLookup, AttemptClaim, Move, RuleCas, ruleVars

\* What holding the claim means for everybody else.
LEMMA HolderAlone ==
  ASSUME TypeInv, ClaimInv, Once, NEW p \in Attempts, Claimed(p)
  PROVE  /\ rule = "EXECUTING" /\ ~stuck /\ rec.pc = "idle"
         /\ \A q \in Attempts : Claimed(q) => q = p
         /\ fired = 1 /\ at[p] = 1
BY OnceFacts DEF ClaimInv, ClaimHeld, VerdictReady

\* The attempt that holds the claim keeps ClaimInv.
LEMMA HolderKeepsClaim ==
  ASSUME TypeInv, ClaimInv, Once, NEW p \in Attempts,
         \/ AttemptCreate(p) \/ AttemptSubmit(p) \/ AttemptAck(p) \/ AttemptAccount(p)
         \/ AttemptConfirm(p) \/ AttemptFinish(p) \/ AttemptNak(p) \/ AttemptFailRule(p)
  PROVE  ClaimInv'
<1>1. Claimed(p)
  BY DEF Claimed, ClaimedPc, AttemptCreate, AttemptSubmit, AttemptAck, AttemptAccount,
         AttemptConfirm, AttemptFinish, AttemptNak, AttemptFailRule
<1>2. /\ pc \in [Attempts -> AttemptPc] /\ at \in [Attempts -> Triggers]
      /\ auto \in [Triggers -> IntentStatus] /\ at[p] \in Triggers
  BY DEF TypeInv, TypeOK, AttemptsTyped, LedgerTyped
<1>3. UNCHANGED <<fired, at, rec>>
  BY DEF AttemptCreate, AttemptSubmit, AttemptAck, AttemptAccount, AttemptConfirm,
         AttemptFinish, AttemptNak, AttemptFailRule
<1>4. \A q \in Attempts : q # p => pc'[q] = pc[q] /\ pc[q] \notin ClaimedPc
  BY <1>1, <1>2, HolderAlone
  DEF Claimed, AttemptCreate, AttemptSubmit, AttemptAck, AttemptAccount, AttemptConfirm,
      AttemptFinish, AttemptNak, AttemptFailRule, Move
<1>5. /\ pc[p] \in {"account", "confirm", "finish"} => auto[1] = "submitted"
      /\ pc[p] = "failRule" => auto[1] = "failed"
  BY <1>1, HolderAlone DEF ClaimInv, VerdictReady
<1>6. \/ /\ rule' = "EXECUTING" /\ stuck' = FALSE
      \/ rule' = "EXECUTED_AUTO" /\ auto'[1] = "submitted" /\ pc'[p] = "idle"
      \/ rule' = "EXECUTION_FAILED" /\ auto'[1] = "failed" /\ pc'[p] = "failNote"
  BY <1>1, <1>2, <1>5, HolderAlone
  DEF AttemptCreate, AttemptSubmit, AttemptAck, AttemptAccount, AttemptConfirm,
      AttemptFinish, AttemptNak, AttemptFailRule, Move, RuleCas, ruleVars, ledgerVars,
      AddExecutedNotional, TypeInv, TypeOK, RuleTyped
<1>7. /\ pc'[p] \in {"account", "confirm", "finish"} => auto'[1] = "submitted"
      /\ pc'[p] = "failRule" => auto'[1] = "failed"
      /\ pc'[p] # "claim"
  BY <1>1, <1>2, <1>5, HolderAlone
  DEF AttemptCreate, AttemptSubmit, AttemptAck, AttemptAccount, AttemptConfirm,
      AttemptFinish, AttemptNak, AttemptFailRule, Move, ledgerVars
<1>8. ClaimHeld'
  BY <1>1, <1>3, <1>4, <1>6, HolderAlone DEF ClaimHeld, Claimed, ClaimedPc
<1>9. VerdictReady'
  BY <1>1, <1>3, <1>4, <1>6, <1>7, HolderAlone, OnceFacts DEF VerdictReady, ClaimedPc
<1>10. VerdictOnLedger'
  BY <1>1, <1>3, <1>6, HolderAlone DEF VerdictOnLedger
<1> QED BY <1>8, <1>9, <1>10 DEF ClaimInv

\* Every attempt keeps ClaimInv.
LEMMA ExecuteKeepsClaim ==
  ASSUME TypeInv, LedgerInv, ClaimInv, NEW p \in Attempts, ExecuteStep(p)
  PROVE  ClaimInv'
<1>1. TypeInv' BY StepTyped, NextGroups
<1>2. CASE ~Once BY <1>2, RepeatKeepsClaim
<1>3. CASE Once
  BY <1>1, <1>3, UnclaimedAside, AsideKeepsClaim, ClaimKeepsClaim, HolderKeepsClaim
  DEF ExecuteStep
<1> QED BY <1>2, <1>3

\* Recovery keeps ClaimInv: it resolves a claim nobody works on.
LEMMA RecoveryKeepsClaim == ASSUME TypeInv, ClaimInv, RecoveryStep PROVE ClaimInv'
<1>1. /\ stuck \in BOOLEAN /\ rec \in [pc : RecoveryPc, seen : {"none", "awaiting_user", "confirmed", "dismissed"}]
  BY DEF TypeInv, TypeOK, RuleTyped, RecoveryTyped
<1>2. UNCHANGED <<fired, auto, pc, at>>
  BY RecoveryFrame
<1>3. rule = "EXECUTING" /\ (rec.pc = "idle" => stuck)
  BY DEF RecoveryStep, RecoveryPick, RecoveryReadTrigger, RecoveryReadIntent,
         RecoveryRevert, RecoveryFail, RecoveryAccount, RecoveryConfirm, RecoveryFinish,
         ClaimInv, ClaimHeld
<1>4. Once /\ fired = MaxTriggers /\ \A p \in Attempts : ~Claimed(p)
  BY <1>3 DEF ClaimInv, ClaimHeld, VerdictReady
<1>5. /\ rec.pc \in {"account", "confirm", "finish"} => auto[fired] \in {"pending", "submitted"}
      /\ rec.pc = "fail" => auto[fired] = "failed"
  BY DEF ClaimInv, VerdictReady
<1>6. \/ /\ rule' = "EXECUTING"
         /\ rec'.pc \in {"account", "confirm", "finish"} => auto[fired] \in {"pending", "submitted"}
         /\ rec'.pc = "fail" => auto[fired] = "failed"
      \/ rule' = "TRIGGERED_AWAITING_USER" /\ rec'.pc = "idle"
      \/ rule' = "EXECUTED_AUTO" /\ auto[fired] \in {"pending", "submitted"} /\ rec'.pc = "idle"
      \/ rule' = "EXECUTION_FAILED" /\ auto[fired] = "failed" /\ rec'.pc = "idle"
  <2>1. CASE RecoveryReadIntent
    <3>1. auto[fired] \in IntentStatus
      BY <1>4, ConstAssumption DEF TypeInv, TypeOK, LedgerTyped, Triggers
    <3> QED BY <2>1, <3>1, <1>3 DEF RecoveryReadIntent, RecoveryFinds, IntentStatus, ruleVars
  <2>2. CASE RecoveryPick \/ RecoveryReadTrigger
    BY <2>2, <1>1, <1>3 DEF RecoveryPick, RecoveryReadTrigger, ruleVars
  <2>3. CASE RecoveryRevert \/ RecoveryFail \/ RecoveryFinish
    <3>1. rec'.pc = "idle"
      BY <2>3 DEF RecoveryRevert, RecoveryFail, RecoveryFinish, IdleRecovery
    <3>2. \/ rule' = "TRIGGERED_AWAITING_USER"
          \/ rule' = "EXECUTED_AUTO" /\ rec.pc = "finish"
          \/ rule' = "EXECUTION_FAILED" /\ rec.pc = "fail"
      BY <2>3, <1>3 DEF RecoveryRevert, RecoveryFail, RecoveryFinish, RuleCas
    <3> QED BY <3>1, <3>2, <1>5
  <2>4. CASE RecoveryAccount \/ RecoveryConfirm
    BY <2>4, <1>1, <1>3, <1>5 DEF RecoveryAccount, RecoveryConfirm, ruleVars
  <2> QED BY <2>1, <2>2, <2>3, <2>4 DEF RecoveryStep
<1>7. ClaimHeld'
  BY <1>2, <1>4, <1>6 DEF ClaimInv, ClaimHeld, Claimed
<1>8. VerdictReady'
  BY <1>2, <1>4, <1>6 DEF ClaimInv, VerdictReady
<1>9. VerdictOnLedger'
  BY <1>2, <1>6 DEF VerdictOnLedger
<1> QED BY <1>7, <1>8, <1>9 DEF ClaimInv

\* API requests keep ClaimInv: no request moves an EXECUTING rule.
LEMMA RequestKeepsClaim ==
  ASSUME TypeInv, ClaimInv, NEW r \in Requests, RequestStep(r)
  PROVE  ClaimInv'
<1>1. UNCHANGED <<fired, auto, pc, at, rec>>
  BY RequestFrame
<1>2. \/ rule' = rule /\ (stuck' => stuck)
      \/ rule = "TRIGGERED_AWAITING_USER" /\ rule' = "EXECUTED_MANUALLY"
  BY DEF RequestStep, SubmitLookup, SubmitRelease, SubmitRecheck, SubmitCreate,
         SubmitOrder, SubmitRecord, ConfirmRead, ConfirmReadIntent, ConfirmWrite,
         ConfirmClose, DismissRead, DismissWrite, ruleVars, RuleCas
<1> QED
  BY <1>1, <1>2 DEF ClaimInv, ClaimHeld, Claimed, VerdictReady, VerdictOnLedger

\* The environment keeps ClaimInv.
LEMMA EnvironmentKeepsClaim == ASSUME TypeInv, ClaimInv, Environment PROVE ClaimInv'
<1>1. UNCHANGED <<fired, auto, at>>
  BY EnvironmentFrame
<1>2. pc \in [Attempts -> AttemptPc]
  BY DEF TypeInv, TypeOK, AttemptsTyped
<1>3. CASE Control
  <2>1. rule \in {"ACTIVE", "PAUSED"} /\ rule' \in {"ACTIVE", "PAUSED", "CANCELLED"}
        /\ UNCHANGED <<pc, rec>>
    BY <1>3 DEF Control, Pause, Resume, Cancel, RuleCas, apiUnchanged
  <2> QED
    BY <1>1, <2>1 DEF ClaimInv, ClaimHeld, Claimed, VerdictReady, VerdictOnLedger
<1>4. CASE ClaimAges
  BY <1>1, <1>4 DEF ClaimAges, ClaimInv, ClaimHeld, Claimed, VerdictReady,
     VerdictOnLedger, attemptVars
<1>5. CASE RetryLapses \/ (\E p \in Attempts : AttemptThrows(p)) \/ RecoveryThrows
           \/ WorkerCrash \/ (\E r \in Requests : RequestDies(r))
  <2>1. UNCHANGED <<rule, stuck>> /\ (rec' = rec \/ rec'.pc = "idle")
    BY <1>5 DEF RetryLapses, AttemptThrows, RecoveryThrows, WorkerCrash, RequestDies,
                ruleVars, IdleRecovery
  <2>2. \A p \in Attempts : pc'[p] = pc[p] \/ pc'[p] = "idle"
    BY <1>2, <1>5 DEF RetryLapses, AttemptThrows, RecoveryThrows, WorkerCrash, RequestDies,
                      attemptVars, Move
  <2> QED
    BY <1>1, <2>1, <2>2 DEF ClaimInv, ClaimHeld, Claimed, ClaimedPc, VerdictReady,
       VerdictOnLedger
<1> QED BY <1>3, <1>4, <1>5 DEF Environment

\* ClaimInv holds initially.
LEMMA ClaimInit == ASSUME Init PROVE ClaimInv
BY DEF Init, ClaimInv, ClaimHeld, Claimed, ClaimedPc, VerdictReady, VerdictOnLedger,
       IdleRecovery

\* Every step keeps ClaimInv.
LEMMA ClaimStep == ASSUME TypeInv, LedgerInv, ClaimInv, [Next]_vars PROVE ClaimInv'
<1>1. TypeInv' BY StepTyped
<1>2. CASE UNCHANGED vars
  BY <1>2 DEF vars, ClaimInv, ClaimHeld, Claimed, VerdictReady, VerdictOnLedger
<1> QED BY <1>1, <1>2, NextGroups, EvaluatorKeepsClaim, ExecuteKeepsClaim, SweeperAside,
           AsideKeepsClaim, RecoveryKeepsClaim, RequestKeepsClaim, EnvironmentKeepsClaim

\* ClaimInv is an invariant.
LEMMA ClaimInvariant == Spec => []ClaimInv
BY ClaimInit, ClaimStep, LedgerInvariant, TypeInvariant, PTL DEF Spec

\* A once-rule's verdict agrees with its ledger and its trigger, whoever ends the
\* EXECUTING claim, the attempt that took it or the recovery sweep: EXECUTION_FAILED
\* stands over a failed intent, EXECUTED_AUTO over an acknowledged one or, by recovery
\* alone, over a pending one whose trigger no attempt has marked executed.
THEOREM VerdictAgrees == Spec => []VerdictMatchesLedger
<1>1. ASSUME TypeInv, LedgerInv, ClaimInv PROVE VerdictMatchesLedger
  <2>1. CASE rule = "EXECUTED_AUTO"
    <3>1. fired \in Triggers
      BY <2>1, <1>1, ConstAssumption DEF ClaimInv, VerdictReady, Triggers
    <3>2. auto[fired] \in {"pending", "submitted"}
      BY <2>1, <1>1 DEF ClaimInv, VerdictOnLedger
    <3>3. trig[fired].executed => auto[fired] = "submitted"
      BY <3>1, <1>1 DEF LedgerInv, ExecutedIsCounted
    <3> QED BY <2>1, <3>2, <3>3 DEF VerdictMatchesLedger
  <2>2. CASE rule # "EXECUTED_AUTO"
    BY <2>2, <1>1 DEF ClaimInv, VerdictOnLedger, VerdictMatchesLedger
  <2> QED BY <2>1, <2>2
<1> QED BY <1>1, ClaimInvariant, LedgerInvariant, TypeInvariant, PTL

\* An automatic order of a once-rule is submitted under the EXECUTING claim only:
\* never after the user has confirmed or the recovery sweep has ended the claim.
THEOREM OrdersUnderClaim == Spec => OnceOrdersUnderClaim
<1>1. ASSUME TypeInv, LedgerInv, ClaimInv, [Next]_vars
      PROVE  [Once /\ autoOrders' # autoOrders => rule = "EXECUTING" /\ rule' = rule]_vars
  <2>1. ASSUME NEW p \in Attempts, ExecuteStep(p), Once, autoOrders' # autoOrders
        PROVE  rule = "EXECUTING" /\ rule' = rule
    <3>1. AttemptSubmit(p)
      BY <2>1 DEF ExecuteStep, AttemptGuards, AttemptDaily, AttemptLifetime, AttemptFunding,
         AttemptLookup, AttemptClaim, AttemptCreate, AttemptAck, AttemptAccount,
         AttemptConfirm, AttemptFinish, AttemptNak, AttemptFailRule, AttemptNote,
         AttemptSkipRetry, clobVars
    <3> QED BY <2>1, <3>1, <1>1, HolderAlone DEF AttemptSubmit, Claimed, ClaimedPc, ruleVars
  <2>2. CASE UNCHANGED vars BY <2>2 DEF vars
  <2> QED BY <1>1, <2>1, <2>2, NextGroups, EvaluatorFrame, SweeperFrame, RecoveryFrame,
             RequestFrame, EnvironmentFrame
<1> QED BY <1>1, ClaimInvariant, LedgerInvariant, TypeInvariant, PTL
        DEF Spec, OnceOrdersUnderClaim

\* No step moves a rule out of a final status.
THEOREM FinalIsFinal == Spec => FinalStatusIsFinal
<1>1. ASSUME TypeInv, LedgerInv, ClaimInv, [Next]_vars
      PROVE  [(rule \in FinalStatus) => (rule' = rule)]_vars
  <2> SUFFICES ASSUME rule \in FinalStatus PROVE rule' = rule
    OBVIOUS
  <2>1. rule \notin {"ACTIVE", "PAUSED", "EXECUTING", "TRIGGERED_AWAITING_USER"}
    BY DEF FinalStatus
  <2>2. rec.pc = "idle"
    BY <1>1, <2>1 DEF ClaimInv, ClaimHeld
  <2>3. ASSUME NEW p \in Attempts, ExecuteStep(p) PROVE rule' = rule
    BY <2>1, <2>3 DEF ExecuteStep, AttemptGuards, AttemptDaily, AttemptLifetime,
       AttemptFunding, AttemptLookup, AttemptClaim, AttemptCreate, AttemptSubmit, AttemptAck,
       AttemptAccount, AttemptConfirm, AttemptFinish, AttemptNak, AttemptFailRule,
       AttemptNote, AttemptSkipRetry, ruleVars, RuleCas
  <2>4. ~(\E c \in Chains : EvaluatorStep(c)) /\ ~RecoveryStep
    BY <2>1, <2>2 DEF EvaluatorStep, CommitTrigger, EvaluatorEnds, RecoveryStep, RecoveryPick,
       RecoveryReadTrigger, RecoveryReadIntent, RecoveryRevert, RecoveryFail,
       RecoveryAccount, RecoveryConfirm, RecoveryFinish
  <2>5. ASSUME NEW r \in Requests, RequestStep(r) PROVE rule' = rule
    BY <2>1, <2>5 DEF RequestStep, SubmitLookup, SubmitRelease, SubmitRecheck, SubmitCreate,
       SubmitOrder, SubmitRecord, ConfirmRead, ConfirmReadIntent, ConfirmWrite,
       ConfirmClose, DismissRead, DismissWrite, ruleVars, RuleCas
  <2>6. CASE Environment
    BY <2>1, <2>6 DEF Environment, Control, Pause, Resume, Cancel, RetryLapses, ClaimAges,
       AttemptThrows, RecoveryThrows, WorkerCrash, RequestDies, ruleVars
  <2>7. CASE UNCHANGED vars BY <2>7 DEF vars
  <2> QED BY <1>1, <2>3, <2>4, <2>5, <2>6, <2>7, NextGroups, SweeperFrame
<1> QED BY <1>1, ClaimInvariant, LedgerInvariant, TypeInvariant, PTL
        DEF Spec, FinalStatusIsFinal

-----------------------------------------------------------------------------
(* Manual orders: one per trigger beside the submits that reported an error *)
(* although the order was registered.                                       *)

\* A request between the row it created and the row's verdict.
Submitting(r) == req[r].pc \in {"submit", "ack", "nak"}

\* The key of a trigger belongs to one request while its row is pending; while it
\* is free, and until the owner's submit is acknowledged, every order is a ghost.
ManualKeyOwned ==
  /\ \A r \in Requests : Submitting(r) => manual[req[r].t] = "pending"
  /\ \A r, q \in Requests : Submitting(r) /\ Submitting(q) /\ req[r].t = req[q].t => r = q
  /\ \A r \in Requests :
       req[r].pc \in {"submit", "nak"} => manualOrders[req[r].t] <= ghosts[req[r].t]
  /\ \A t \in Triggers : manual[t] \in {"none", "failed"} => manualOrders[t] <= ghosts[t]

ManualInv == ManualKeyOwned /\ ManualOrderAtMostOnce

\* A step that writes no manual intent and no manual order, and brings no request
\* to a submit, keeps ManualInv.
LEMMA ElsewhereKeepsManual ==
  ASSUME ManualInv, UNCHANGED <<manual, manualOrders, ghosts>>,
         \A r \in Requests : req'[r] = req[r] \/ req'[r].pc \notin {"submit", "ack", "nak"}
  PROVE  ManualInv'
BY DEF ManualInv, ManualKeyOwned, Submitting, ManualOrderAtMostOnce

\* The requests that read before they write, and what is not a submit.
LEMMA ReadsKeepManual ==
  ASSUME TypeInv, ManualInv, NEW r \in Requests,
         \/ SubmitLookup(r) \/ SubmitRecheck(r) \/ ConfirmRead(r) \/ ConfirmReadIntent(r)
         \/ ConfirmWrite(r) \/ ConfirmClose(r) \/ DismissRead(r) \/ DismissWrite(r)
  PROVE  ManualInv'
<1>1. UNCHANGED <<manual, manualOrders, ghosts>>
  BY DEF SubmitLookup, SubmitRecheck, ConfirmRead, ConfirmReadIntent, ConfirmWrite,
         ConfirmClose, DismissRead, DismissWrite, ledgerVars, clobVars
<1>2. DOMAIN req = Requests
  BY DEF TypeInv, TypeOK, RequestsTyped
<1>3. /\ \A q \in Requests : q # r => req'[q] = req[q]
      /\ req'[r].pc \notin {"submit", "ack", "nak"}
  <2>1. CASE SubmitLookup(r) \/ ConfirmRead(r) \/ DismissRead(r)
    BY <1>2, <2>1 DEF SubmitLookup, ConfirmRead, DismissRead
  <2>2. CASE \/ SubmitRecheck(r) \/ ConfirmReadIntent(r) \/ ConfirmWrite(r)
             \/ ConfirmClose(r) \/ DismissWrite(r)
    <3>1. \E to \in {"idle", "create", "confirm", "close"} : Go(r, to)
      BY <2>2 DEF SubmitRecheck, ConfirmReadIntent, ConfirmWrite, ConfirmClose, DismissWrite
    <3>2. req \in [Requests -> [pc : RequestPc, t : Triggers, row : Nat, scoped : BOOLEAN]]
      BY DEF TypeInv, TypeOK, RequestsTyped
    <3> QED BY <3>1, <3>2 DEF Go, IdleRequest
  <2> QED BY <2>1, <2>2
<1> QED BY <1>1, <1>3, ElsewhereKeepsManual

\* The writes of a submit keep ManualInv.
LEMMA SubmitKeepsManual ==
  ASSUME TypeInv, ManualInv, NEW r \in Requests,
         SubmitRelease(r) \/ SubmitCreate(r) \/ SubmitOrder(r) \/ SubmitRecord(r)
  PROVE  ManualInv'
<1>1. /\ manual \in [Triggers -> IntentStatus]
      /\ manualOrders \in [Triggers -> Nat] /\ ghosts \in [Triggers -> Nat]
      /\ req \in [Requests -> [pc : RequestPc, t : Triggers, row : Nat, scoped : BOOLEAN]]
  BY DEF TypeInv, TypeOK, LedgerTyped, ClobTyped, RequestsTyped
<1>2. req[r].t \in Triggers
  BY <1>1
<1> USE DEF ManualInv
<1>3. CASE SubmitRelease(r)
  <2> USE <1>1, <1>2, <1>3 DEF SubmitRelease, Go, IdleRequest, clobVars
  <2>1. ManualKeyOwned' BY DEF ManualKeyOwned, Submitting
  <2>2. ManualOrderAtMostOnce' BY DEF ManualOrderAtMostOnce
  <2> QED BY <2>1, <2>2
<1>4. CASE SubmitCreate(r)
  <2>1. UNCHANGED <<manualOrders, ghosts>>
    BY <1>4 DEF SubmitCreate, clobVars
  <2>2. CASE manual' = manual
    <3>1. \A q \in Requests : req'[q] = req[q] \/ req'[q].pc = "idle"
      BY <1>1, <1>4, <2>2 DEF SubmitCreate, Go, IdleRequest
    <3> QED BY <2>1, <2>2, <3>1, ElsewhereKeepsManual
  <2>3. CASE manual' # manual
    <3> DEFINE t == req[r].t
    <3>1. /\ manual[t] = "none" /\ manual' = [manual EXCEPT ![t] = "pending"]
          /\ req' = [req EXCEPT ![r].pc = "submit"]
      BY <1>4, <2>3 DEF SubmitCreate, Go
    <3>2. /\ req'[r].pc = "submit" /\ req'[r].t = t
          /\ \A q \in Requests \ {r} : req'[q] = req[q]
      BY <1>1, <3>1
    <3>3. \A q \in Requests : Submitting(q) => req[q].t # t
      BY <3>1 DEF ManualKeyOwned
    <3>4. ManualKeyOwned'
      BY <1>1, <1>2, <2>1, <3>1, <3>2, <3>3 DEF ManualKeyOwned, Submitting
    <3>5. ManualOrderAtMostOnce'
      BY <2>1 DEF ManualOrderAtMostOnce
    <3> QED BY <3>4, <3>5
  <2> QED BY <2>2, <2>3
<1>5. CASE SubmitOrder(r)
  <2> USE <1>1, <1>2, <1>5 DEF SubmitOrder, Go, IdleRequest, ledgerVars
  <2>1. ManualKeyOwned' BY DEF ManualKeyOwned, Submitting
  <2>2. ManualOrderAtMostOnce' BY DEF ManualOrderAtMostOnce, ManualKeyOwned
  <2> QED BY <2>1, <2>2
<1>6. CASE SubmitRecord(r)
  <2> USE <1>1, <1>2, <1>6 DEF SubmitRecord, Go, IdleRequest, clobVars
  <2>1. ManualKeyOwned' BY DEF ManualKeyOwned, Submitting
  <2>2. ManualOrderAtMostOnce' BY DEF ManualOrderAtMostOnce
  <2> QED BY <2>1, <2>2
<1> QED BY <1>3, <1>4, <1>5, <1>6

\* Every step keeps ManualInv.
LEMMA ManualStep == ASSUME TypeInv, ManualInv, [Next]_vars PROVE ManualInv'
<1>1. ASSUME NEW r \in Requests, RequestStep(r) PROVE ManualInv'
  BY <1>1, ReadsKeepManual, SubmitKeepsManual DEF RequestStep
<1>2. CASE Environment
  <2>1. \A r \in Requests : req'[r] = req[r] \/ req'[r].pc \notin {"submit", "ack", "nak"}
    <3>1. req \in [Requests -> [pc : RequestPc, t : Triggers, row : Nat, scoped : BOOLEAN]]
      BY DEF TypeInv, TypeOK, RequestsTyped
    <3> QED BY <1>2, <3>1 DEF Environment, Control, RetryLapses, ClaimAges, AttemptThrows,
               RecoveryThrows, WorkerCrash, RequestDies, Go, IdleRequest
  <2> QED BY <1>2, <2>1, EnvironmentFrame, ElsewhereKeepsManual
<1>3. CASE UNCHANGED vars
  BY <1>3, ElsewhereKeepsManual DEF vars
<1> QED BY <1>1, <1>2, <1>3, NextGroups, EvaluatorFrame, ExecuteFrame, SweeperFrame,
           RecoveryFrame, ElsewhereKeepsManual

\* The manual path of a trigger double-submits only after a submit that reported
\* an error although the order was registered, however many requests race.
THEOREM ManualOncePerTrigger == Spec => []ManualOrderAtMostOnce
<1>1. Init => ManualInv
  BY DEF Init, ManualInv, ManualKeyOwned, Submitting, IdleRequest, ManualOrderAtMostOnce
<1>2. ManualInv => ManualOrderAtMostOnce
  BY DEF ManualInv
<1> QED BY <1>1, <1>2, ManualStep, TypeInvariant, PTL DEF Spec

-----------------------------------------------------------------------------
(* The daily cap.                                                           *)

\* The live intents are finitely many, the ones the daily check counts; so are the
\* attempts past the check, at most one for each caller.
LEMMA LiveFacts ==
  ASSUME TypeInv
  PROVE  /\ IsFiniteSet(LiveAutoIntents) /\ Cardinality(LiveAutoIntents) \in Nat
         /\ DailyNotional = Cardinality(LiveAutoIntents)
<1>1. IsFiniteSet(Triggers)
  BY ConstAssumption, FS_Interval DEF Triggers
<1>2. LiveAutoIntents \in SUBSET Triggers
  BY DEF LiveAutoIntents
<1>3. LiveAutoIntents = {t \in Triggers : auto[t] \notin {"none", "failed"}}
  <2>1. auto \in [Triggers -> IntentStatus]
    BY DEF TypeInv, TypeOK, LedgerTyped
  <2> QED BY <2>1 DEF LiveAutoIntents, IntentStatus
<1> QED BY <1>1, <1>2, <1>3, FS_Subset, FS_CardinalityType DEF DailyNotional

LEMMA PastCapFacts ==
  /\ IsFiniteSet(PastCapAttempts) /\ Cardinality(PastCapAttempts) \in Nat
  /\ Cardinality(PastCapAttempts) <= Cardinality(Chains) + 1
<1>1. PastCapAttempts \in SUBSET Attempts
  BY DEF PastCapAttempts
<1> QED BY <1>1, AttemptsFacts, FS_Subset, FS_CardinalityType

\* The same of the primed state, whose attempts are among the same callers.
LEMMA PastCapFactsPrime ==
  /\ IsFiniteSet(PastCapAttempts') /\ Cardinality(PastCapAttempts') \in Nat
  /\ Cardinality(PastCapAttempts') <= Cardinality(Chains) + 1
<1>1. PastCapAttempts' \in SUBSET Attempts
  BY DEF PastCapAttempts
<1> QED BY <1>1, AttemptsFacts, FS_Subset, FS_CardinalityType

\* A step that lets no attempt past the cap and adds no live intent keeps the bound.
LEMMA AsideKeepsDaily ==
  ASSUME TypeInv, DailyOvershootBounded,
         LiveAutoIntents' \subseteq LiveAutoIntents, PastCapAttempts' \subseteq PastCapAttempts
  PROVE  DailyOvershootBounded'
<1>1. /\ Cardinality(LiveAutoIntents') <= Cardinality(LiveAutoIntents)
      /\ Cardinality(PastCapAttempts') <= Cardinality(PastCapAttempts)
  BY LiveFacts, PastCapFacts, FS_Subset
<1>2. /\ Cardinality(LiveAutoIntents) \in Nat /\ Cardinality(LiveAutoIntents') \in Nat
      /\ Cardinality(PastCapAttempts) \in Nat /\ Cardinality(PastCapAttempts') \in Nat
  <2>1. IsFiniteSet(LiveAutoIntents) /\ LiveAutoIntents' \in SUBSET LiveAutoIntents
    BY LiveFacts
  <2>2. IsFiniteSet(LiveAutoIntents')
    BY <2>1, FS_Subset
  <2> QED BY <2>1, <2>2, FS_CardinalityType, PastCapFacts, PastCapFactsPrime
<1> QED BY <1>1, <1>2, AttemptsFacts, ConstAssumption DEF DailyOvershootBounded

\* The intents an attempt's step makes live or settles.
LEMMA ExecuteLive ==
  ASSUME TypeInv, LedgerInv, NEW p \in Attempts, ExecuteStep(p), ~AttemptCreate(p)
  PROVE  LiveAutoIntents' \subseteq LiveAutoIntents
<1>1. /\ auto \in [Triggers -> IntentStatus] /\ at[p] \in Triggers
      /\ pc[p] = "ack" => auto[at[p]] = "pending"
  BY DEF TypeInv, TypeOK, LedgerTyped, AttemptsTyped, LedgerInv, KeyOwned, Owns
<1>2. CASE AttemptAck(p) \/ AttemptNak(p)
  BY <1>1, <1>2 DEF AttemptAck, AttemptNak, LiveAutoIntents
<1>3. CASE auto' = auto
  BY <1>3 DEF LiveAutoIntents
<1> QED BY <1>2, <1>3 DEF ExecuteStep, AttemptGuards, AttemptDaily, AttemptLifetime,
   AttemptFunding, AttemptLookup, AttemptClaim, AttemptSubmit, AttemptAccount,
   AttemptConfirm, AttemptFinish, AttemptFailRule, AttemptNote, AttemptSkipRetry, ledgerVars

\* The daily check itself: passing it leaves room for this attempt, and the others
\* are at most one for each chain.
LEMMA CheckKeepsDaily ==
  ASSUME TypeInv, DailyOvershootBounded, NEW p \in Attempts, AttemptDaily(p)
  PROVE  DailyOvershootBounded'
<1>1. LiveAutoIntents' = LiveAutoIntents /\ pc \in [Attempts -> AttemptPc]
  BY DEF AttemptDaily, ledgerVars, LiveAutoIntents, TypeInv, TypeOK, AttemptsTyped
<1>2. CASE DailyNotional + 1 > MaxDaily
  <2>1. PastCapAttempts' \subseteq PastCapAttempts
    BY <1>1, <1>2 DEF AttemptDaily, Move, PastCapAttempts, PastCap
  <2> QED BY <1>1, <2>1, AsideKeepsDaily
<1>3. CASE ~(DailyNotional + 1 > MaxDaily)
  <2>1. Cardinality(LiveAutoIntents') + 1 <= MaxDaily
    BY <1>1, <1>3, LiveFacts, ConstAssumption
  <2> QED BY <1>1, <2>1, LiveFacts, PastCapFactsPrime, AttemptsFacts, ConstAssumption
          DEF DailyOvershootBounded
<1> QED BY <1>2, <1>3

\* The row an attempt past the cap creates takes the attempt's place in the sum.
LEMMA CreateKeepsDaily ==
  ASSUME TypeInv, DailyOvershootBounded, NEW p \in Attempts, AttemptCreate(p)
  PROVE  DailyOvershootBounded'
<1>1. PastCapAttempts' = PastCapAttempts \ {p} /\ p \in PastCapAttempts
  BY DEF AttemptCreate, Move, PastCapAttempts, PastCap, TypeInv, TypeOK, AttemptsTyped
<1>2. Cardinality(PastCapAttempts') = Cardinality(PastCapAttempts) - 1
  BY <1>1, PastCapFacts, FS_RemoveElement
<1>3. LiveAutoIntents' = LiveAutoIntents \/ LiveAutoIntents' = LiveAutoIntents \cup {at[p]}
  <2>1. auto \in [Triggers -> IntentStatus] /\ at[p] \in Triggers
    BY DEF TypeInv, TypeOK, LedgerTyped, AttemptsTyped
  <2> QED BY <2>1 DEF AttemptCreate, LiveAutoIntents
<1>4. /\ Cardinality(LiveAutoIntents') \in Nat
      /\ Cardinality(LiveAutoIntents') <= Cardinality(LiveAutoIntents) + 1
  BY LiveFacts, <1>3, FS_AddElement
<1> QED BY <1>2, <1>4, LiveFacts, PastCapFacts, AttemptsFacts, ConstAssumption
        DEF DailyOvershootBounded

\* Every step keeps the bound.
LEMMA DailyStep ==
  ASSUME TypeInv, LedgerInv, DailyOvershootBounded, [Next]_vars PROVE DailyOvershootBounded'
<1>1. pc \in [Attempts -> AttemptPc]
  BY DEF TypeInv, TypeOK, AttemptsTyped
<1>2. ASSUME NEW p \in Attempts, ExecuteStep(p) PROVE DailyOvershootBounded'
  <2>1. CASE AttemptDaily(p) \/ AttemptCreate(p)
    BY <2>1, CheckKeepsDaily, CreateKeepsDaily
  <2>2. CASE ~AttemptDaily(p) /\ ~AttemptCreate(p)
    <3>1. \A q \in Attempts : PastCap(q)' => PastCap(q)
      BY <1>1, <1>2, <2>2 DEF ExecuteStep, AttemptGuards, AttemptLifetime, AttemptFunding,
         AttemptLookup, AttemptClaim, AttemptSubmit, AttemptAck, AttemptAccount,
         AttemptConfirm, AttemptFinish, AttemptNak, AttemptFailRule, AttemptNote,
         AttemptSkipRetry, Move, PastCap
    <3>2. PastCapAttempts' \subseteq PastCapAttempts
      BY <3>1 DEF PastCapAttempts
    <3> QED BY <1>2, <2>2, <3>2, ExecuteLive, AsideKeepsDaily
  <2> QED BY <2>1, <2>2
<1>3. ASSUME auto' = auto, \A p \in Attempts : PastCap(p)' => PastCap(p)
      PROVE  DailyOvershootBounded'
  <2>1. LiveAutoIntents' \subseteq LiveAutoIntents BY <1>3 DEF LiveAutoIntents
  <2>2. PastCapAttempts' \subseteq PastCapAttempts BY <1>3 DEF PastCapAttempts
  <2> QED BY <2>1, <2>2, AsideKeepsDaily
<1>4. ASSUME NEW c \in Chains, EvaluatorStep(c)
      PROVE  \A p \in Attempts : PastCap(p)' => PastCap(p)
  BY <1>1, <1>4 DEF EvaluatorStep, CommitTrigger, EvaluatorEnds, Move, attemptVars, PastCap
<1>5. ASSUME SweeperStep PROVE \A p \in Attempts : PastCap(p)' => PastCap(p)
  BY <1>1, <1>5 DEF SweeperStep, SweepStart, SweepList, SweepNext, SweepEnd, RetryCheck,
     RetryVerify, RetryAbandon, Move, attemptVars, PastCap
<1>6. ASSUME Environment PROVE \A p \in Attempts : PastCap(p)' => PastCap(p)
  BY <1>1, <1>6 DEF Environment, Control, RetryLapses, ClaimAges, AttemptThrows,
     RecoveryThrows, WorkerCrash, RequestDies, Move, attemptVars, apiUnchanged, PastCap
<1>7. (RecoveryStep \/ (\E r \in Requests : RequestStep(r)) \/ UNCHANGED vars)
        => \A p \in Attempts : PastCap(p)' => PastCap(p)
  BY RecoveryFrame, RequestFrame DEF vars, PastCap
<1> QED BY <1>2, <1>3, <1>4, <1>5, <1>6, <1>7, NextGroups, EvaluatorFrame, SweeperFrame,
           RecoveryFrame, RequestFrame, EnvironmentFrame DEF vars

\* Attempts that check the daily cap against the same ledger, one of each chain under
\* way and the sweeper's, overshoot it by one order for each chain at most.
THEOREM DailyOvershoot == Spec => []DailyOvershootBounded
<1>1. Init => DailyOvershootBounded
  <2> SUFFICES ASSUME Init PROVE DailyOvershootBounded OBVIOUS
  <2>1. LiveAutoIntents = {} /\ PastCapAttempts = {}
    BY DEF Init, LiveAutoIntents, PastCapAttempts, PastCap
  <2> QED BY <2>1, FS_EmptySet, AttemptsFacts, ConstAssumption DEF DailyOvershootBounded
<1> QED BY <1>1, DailyStep, LedgerInvariant, TypeInvariant, PTL DEF Spec

-----------------------------------------------------------------------------
(****************************************************************************)
(* ExecutingResolves and RetryResolves, but for their fairness: an attempt, *)
(* a claim and a pass of the sweeper have so much left to do, each step of  *)
(* theirs leaves less, and only a fault sets a claim back.                  *)
(****************************************************************************)

\* The statements an attempt has before it at most.
Rank(c) ==
  CASE c = "check" -> 15 [] c = "verify" -> 14 [] c = "guards" -> 13 [] c = "daily" -> 12
    [] c = "lifetime" -> 11 [] c = "funding" -> 10 [] c = "lookup" -> 9 [] c = "claim" -> 8
    [] c = "create" -> 7 [] c = "submit" -> 6 [] c = "ack" -> 5 [] c = "account" -> 4
    [] c \in {"confirm", "nak"} -> 3
    [] c \in {"finish", "failRule", "skipRetry", "abandon"} -> 2
    [] c \in {"failNote", "skipNote", "abandonNote"} -> 1 [] c = "idle" -> 0

\* An attempt begins with the trigger's commit, or with the sweeper's next trigger;
\* its own statements, the sweeper's about it and a throw carry it on.
Begins(p) == (p \in Chains /\ CommitTrigger(p)) \/ (p = Sweeper /\ SweepNext)
Advances(p) == \/ ExecuteStep(p) \/ AttemptThrows(p)
               \/ p = Sweeper /\ (RetryCheck \/ RetryVerify \/ RetryAbandon)
AttemptsGoDown ==
  \A p \in Attempts :
    /\ Advances(p) => Rank(pc'[p]) < Rank(pc[p])
    /\ Begins(p) => pc[p] = "idle"
    /\ ~Begins(p) => Rank(pc'[p]) <= Rank(pc[p])

\* Rank, statement by statement.
LEMMA RankValues ==
  /\ Rank("check") = 15 /\ Rank("verify") = 14 /\ Rank("guards") = 13 /\ Rank("daily") = 12
  /\ Rank("lifetime") = 11 /\ Rank("funding") = 10 /\ Rank("lookup") = 9 /\ Rank("claim") = 8
  /\ Rank("create") = 7 /\ Rank("submit") = 6 /\ Rank("ack") = 5 /\ Rank("account") = 4
  /\ Rank("confirm") = 3 /\ Rank("nak") = 3 /\ Rank("finish") = 2 /\ Rank("failRule") = 2
  /\ Rank("skipRetry") = 2 /\ Rank("abandon") = 2 /\ Rank("failNote") = 1
  /\ Rank("skipNote") = 1 /\ Rank("abandonNote") = 1 /\ Rank("idle") = 0
  /\ \A c \in AttemptPc : Rank(c) \in 0..15
BY SMTT(30) DEF Rank, AttemptPc

\* A statement of an attempt takes it further, and leaves the other attempt where it is.
LEMMA ExecuteAdvances ==
  ASSUME TypeInv, NEW p \in Attempts, ExecuteStep(p)
  PROVE  Rank(pc'[p]) < Rank(pc[p]) /\ \A q \in Attempts \ {p} : pc'[q] = pc[q]
<1>1. pc \in [Attempts -> AttemptPc]
  BY DEF TypeInv, TypeOK, AttemptsTyped
<1>2. \E to \in AttemptPc : pc' = [pc EXCEPT ![p] = to] /\ Rank(to) < Rank(pc[p])
  <2>1. CASE AttemptGuards(p) \/ AttemptDaily(p) \/ AttemptLifetime(p) \/ AttemptFunding(p)
    BY <2>1, RankValues
    DEF AttemptGuards, AttemptDaily, AttemptLifetime, AttemptFunding, Move, AttemptPc
  <2>2. CASE AttemptLookup(p) \/ AttemptClaim(p) \/ AttemptCreate(p) \/ AttemptSubmit(p)
    BY <2>2, RankValues DEF AttemptLookup, AttemptClaim, AttemptCreate, AttemptSubmit, Move, AttemptPc
  <2>3. CASE AttemptAck(p) \/ AttemptAccount(p) \/ AttemptConfirm(p) \/ AttemptFinish(p)
    BY <2>3, RankValues DEF AttemptAck, AttemptAccount, AttemptConfirm, AttemptFinish, Move, AttemptPc
  <2>4. CASE AttemptNak(p) \/ AttemptFailRule(p) \/ AttemptNote(p) \/ AttemptSkipRetry(p)
    BY <2>4, RankValues DEF AttemptNak, AttemptFailRule, AttemptNote, AttemptSkipRetry, Move, AttemptPc
  <2> QED BY <2>1, <2>2, <2>3, <2>4 DEF ExecuteStep
<1> QED BY <1>1, <1>2

\* The sweeper's statements about its trigger take it further; the others find it idle.
LEMMA SweeperAdvances ==
  ASSUME TypeInv, SweeperStep
  PROVE  /\ \A q \in Chains : pc'[q] = pc[q]
         /\ \/ /\ RetryCheck \/ RetryVerify \/ RetryAbandon
               /\ Rank(pc'[Sweeper]) < Rank(pc[Sweeper])
               /\ UNCHANGED sweep
            \/ /\ SweepNext
               /\ pc[Sweeper] = "idle"
               /\ Rank(pc'[Sweeper]) <= 15
            \/ /\ SweepStart \/ SweepList \/ SweepEnd
               /\ pc[Sweeper] = "idle" /\ UNCHANGED pc
<1>1. /\ pc \in [Attempts -> AttemptPc] /\ Sweeper \in Attempts /\ Sweeper \notin Chains
      /\ Chains \subseteq Attempts
  BY AttemptsFacts DEF TypeInv, TypeOK, AttemptsTyped
<1>2. CASE RetryCheck \/ RetryVerify \/ RetryAbandon
  BY <1>1, <1>2, RankValues DEF RetryCheck, RetryVerify, RetryAbandon, Move
<1>3. CASE SweepNext
  <2>1. pc[Sweeper] = "idle" /\ (\A q \in Chains : pc'[q] = pc[q])
        /\ (pc'[Sweeper] = "abandon" \/ pc'[Sweeper] = "check")
    BY <1>1, <1>3 DEF SweepNext, SweepIdle, Move
  <2> QED BY <1>3, <2>1, RankValues
<1>4. CASE SweepStart \/ SweepList \/ SweepEnd
  BY <1>4 DEF SweepStart, SweepList, SweepEnd, SweepIdle, attemptVars
<1> QED BY <1>2, <1>3, <1>4 DEF SweeperStep

\* A throw or a crash ends attempts; the rest of the environment leaves them alone.
LEMMA EnvironmentAttempts ==
  ASSUME TypeInv, Environment
  PROVE  /\ \A p \in Attempts : pc'[p] = pc[p] \/ (pc'[p] = "idle" /\ faults' > faults)
         /\ \A p \in Attempts : AttemptThrows(p) => pc[p] # "idle" /\ pc'[p] = "idle"
<1>1. pc \in [Attempts -> AttemptPc] /\ faults \in Nat
  BY DEF TypeInv, TypeOK, AttemptsTyped, FaultsTyped
<1> QED
  BY <1>1 DEF Environment, Control, RetryLapses, ClaimAges, AttemptThrows, RecoveryThrows,
              WorkerCrash, RequestDies, Move, attemptVars, apiUnchanged

\* Each statement of an attempt, of a chain's or of the sweeper's, leaves it fewer, and so
\* do throws; a new one begins only where the last one is over.
THEOREM AttemptsEnd == Spec => [][AttemptsGoDown]_vars
<1>1. ASSUME TypeInv, [Next]_vars PROVE [AttemptsGoDown]_vars
  <2> SUFFICES ASSUME NEW p \in Attempts, Next
               PROVE  /\ Advances(p) => Rank(pc'[p]) < Rank(pc[p])
                      /\ Begins(p) => pc[p] = "idle"
                      /\ ~Begins(p) => Rank(pc'[p]) <= Rank(pc[p])
    BY <1>1 DEF AttemptsGoDown
  <2>1. pc \in [Attempts -> AttemptPc] /\ Rank(pc[p]) \in 0..15
    BY <1>1, RankValues DEF TypeInv, TypeOK, AttemptsTyped
  <2>2. Begins(p) => pc[p] = "idle"
    BY DEF Begins, CommitTrigger, SweepNext, SweepIdle
  <2>3. Advances(p) => Rank(pc'[p]) < Rank(pc[p])
    <3>1. CASE ExecuteStep(p)
      BY <1>1, <3>1, ExecuteAdvances
    <3>2. CASE AttemptThrows(p)
      <4>1. pc[p] # "idle" /\ pc'[p] = "idle"
        BY <2>1, <3>2 DEF AttemptThrows, Move
      <4> QED BY <2>1, <4>1, RankValues DEF AttemptPc
    <3>3. CASE p = Sweeper /\ (RetryCheck \/ RetryVerify \/ RetryAbandon)
      BY <1>1, <3>3, SweeperAdvances DEF SweeperStep, RetryCheck, RetryVerify, RetryAbandon, SweepNext, SweepStart, SweepList, SweepEnd, SweepIdle
    <3> QED BY <3>1, <3>2, <3>3 DEF Advances
  <2>4. ~Begins(p) => Rank(pc'[p]) <= Rank(pc[p])
    <3> SUFFICES ASSUME ~Begins(p) PROVE Rank(pc'[p]) <= Rank(pc[p])
      OBVIOUS
    <3>1. CASE \E c \in Chains : EvaluatorStep(c)
      <4>1. pc'[p] = pc[p]
        BY <2>1, <3>1
        DEF Begins, EvaluatorStep, CommitTrigger, EvaluatorEnds, Move, Attempts, attemptVars
      <4> QED BY <2>1, <4>1
    <3>2. CASE \E q \in Attempts : ExecuteStep(q)
      <4>1. PICK q \in Attempts : ExecuteStep(q)
        BY <3>2
      <4>2. CASE q = p
        <5>1. Rank(pc'[p]) < Rank(pc[p]) BY <4>1, <4>2, <2>3 DEF Advances
        <5>2. Rank(pc'[p]) \in 0..15
          BY <1>1, StepTyped, RankValues DEF TypeInv, TypeOK, AttemptsTyped
        <5> QED BY <2>1, <5>1, <5>2
      <4>3. CASE q # p
        <5>1. pc'[p] = pc[p] BY <1>1, <4>1, <4>3, ExecuteAdvances
        <5> QED BY <2>1, <5>1
      <4> QED BY <4>2, <4>3
    <3>3. CASE SweeperStep
      <4>1. CASE p \in Chains
        <5>1. pc'[p] = pc[p] BY <1>1, <3>3, <4>1, SweeperAdvances
        <5> QED BY <2>1, <5>1
      <4>2. CASE p = Sweeper
        <5>1. ~SweepNext BY <4>2 DEF Begins
        <5>2. \/ Rank(pc'[Sweeper]) < Rank(pc[Sweeper])
              \/ pc' = pc
          BY <1>1, <3>3, <5>1, SweeperAdvances
        <5>3. pc' \in [Attempts -> AttemptPc] /\ Rank(pc'[p]) \in 0..15
          BY <1>1, StepTyped, RankValues DEF TypeInv, TypeOK, AttemptsTyped
        <5> QED BY <2>1, <4>2, <5>2, <5>3
      <4> QED BY <4>1, <4>2, AttemptsFacts
    <3>4. CASE Environment
      BY <1>1, <2>1, <3>4, EnvironmentAttempts, RankValues
    <3>5. CASE RecoveryStep \/ \E r \in Requests : RequestStep(r)
      BY <2>1, <3>5, RecoveryFrame, RequestFrame
    <3> QED BY <3>1, <3>2, <3>3, <3>4, <3>5, NextGroups
  <2> QED BY <2>2, <2>3, <2>4
<1> QED BY <1>1, TypeInvariant, PTL DEF Spec

\* What is left of an EXECUTING claim: the statements of the attempt that holds it
\* and, should the attempt die, five minutes and the recovery sweep's statements.
RecoveryLeft ==
  CASE rec.pc = "idle" -> (IF stuck THEN 7 ELSE 8)
    [] rec.pc = "trigger" -> 6 [] rec.pc = "intent" -> 5 [] rec.pc = "account" -> 4
    [] rec.pc = "confirm" -> 3 [] OTHER -> 2
ClaimLeft ==
  IF \E p \in Attempts : Claimed(p)
    THEN 8 + Rank(pc[CHOOSE p \in Attempts : Claimed(p)])
    ELSE RecoveryLeft

\* The steps FairSpec insists on while a rule is EXECUTING.
Resolves ==
  \/ \E p \in Attempts : Claimed(p) /\ ExecuteStep(p)
  \/ ClaimAges /\ rec.pc = "idle"
  \/ RecoveryStep
ClaimGoesDown ==
  rule = "EXECUTING" /\ rule' = "EXECUTING" =>
    /\ Resolves => ClaimLeft' < ClaimLeft
    /\ ClaimLeft' > ClaimLeft => faults' > faults /\ ClaimLeft' <= 8

\* What a claim has left, by who holds it.
LEMMA ClaimLeftFacts ==
  ASSUME TypeInv, ClaimInv, rule = "EXECUTING"
  PROVE  /\ \A p \in Attempts : Claimed(p) =>
              ClaimLeft = 8 + Rank(pc[p]) /\ rec.pc = "idle" /\ \A q \in Attempts \ {p} : ~Claimed(q)
         /\ (\A p \in Attempts : ~Claimed(p)) => ClaimLeft = RecoveryLeft
         /\ RecoveryLeft \in 2..8 /\ ClaimLeft \in 2..23
         /\ Once
<1>1. Once /\ \A p, q \in Attempts : Claimed(p) /\ Claimed(q) => p = q
  BY DEF ClaimInv, ClaimHeld
<1>2. \A p \in Attempts : Claimed(p) => rec.pc = "idle"
  BY DEF ClaimInv, ClaimHeld
<1>3. RecoveryLeft \in 2..8
  BY DEF RecoveryLeft
<1>4. \A p \in Attempts : Rank(pc[p]) \in 0..15
  BY RankValues DEF TypeInv, TypeOK, AttemptsTyped
<1>5. ASSUME NEW p \in Attempts, Claimed(p) PROVE ClaimLeft = 8 + Rank(pc[p])
  BY <1>1, <1>5 DEF ClaimLeft
<1>6. (\A p \in Attempts : ~Claimed(p)) => ClaimLeft = RecoveryLeft
  BY DEF ClaimLeft
<1>7. ClaimLeft \in 2..23
  BY <1>3, <1>4 DEF ClaimLeft
<1> QED BY <1>1, <1>2, <1>3, <1>5, <1>6, <1>7

\* A step that moves neither the claim nor its recovery.
ClaimAside ==
  /\ stuck' = stuck /\ rec' = rec
  /\ \A p \in Attempts : (Claimed(p)' <=> Claimed(p)) /\ (Claimed(p) => pc'[p] = pc[p])

\* Such a step leaves the claim what it had left.
LEMMA ClaimAsideKeeps ==
  ASSUME ClaimAside
  PROVE  ClaimLeft' = ClaimLeft
BY DEF ClaimAside, ClaimLeft, RecoveryLeft

\* The holder of the claim, one statement further: nearer its end, or gone, and then the
\* claim is recovery's.
LEMMA HolderResolves ==
  ASSUME TypeInv, ClaimInv, TypeInv', ClaimInv', NEW p \in Attempts, Claimed(p), ExecuteStep(p),
         rule = "EXECUTING", rule' = "EXECUTING"
  PROVE  ClaimLeft' < ClaimLeft
<1>1. ClaimLeft = 8 + Rank(pc[p]) /\ \A q \in Attempts \ {p} : ~Claimed(q)
  BY ClaimLeftFacts
<1>2. Rank(pc'[p]) < Rank(pc[p]) /\ \A q \in Attempts \ {p} : pc'[q] = pc[q]
  BY ExecuteAdvances
<1>3. Rank(pc[p]) \in 1..15 /\ Rank(pc'[p]) \in 0..15
  BY <1>2, RankValues DEF TypeInv, TypeOK, AttemptsTyped
<1>4. \A q \in Attempts \ {p} : ~Claimed(q)'
  BY <1>1, <1>2 DEF Claimed
<1>5. CASE Claimed(p)'
  <2>1. ClaimLeft' = 8 + Rank(pc'[p])
    BY <1>4, <1>5 DEF ClaimLeft
  <2> QED BY <1>1, <1>2, <1>3, <2>1
<1>6. CASE ~Claimed(p)'
  <2>1. ClaimLeft' = RecoveryLeft'
    BY <1>4, <1>6 DEF ClaimLeft
  <2>2. RecoveryLeft' \in 2..8
    BY DEF RecoveryLeft
  <2> QED BY <1>1, <1>3, <2>1, <2>2
<1> QED BY <1>5, <1>6

\* While a rule is EXECUTING no other attempt can take the claim, nor touch the rule.
LEMMA OthersAside ==
  ASSUME TypeInv, ClaimInv, NEW p \in Attempts, ~Claimed(p), ExecuteStep(p), rule = "EXECUTING"
  PROVE  ClaimAside
<1>1. pc \in [Attempts -> AttemptPc] /\ Once
  BY DEF TypeInv, TypeOK, AttemptsTyped, ClaimInv, ClaimHeld
<1>2. stuck' = stuck /\ rec' = rec /\ pc'[p] \notin ClaimedPc
  BY <1>1
  DEF ExecuteStep, Claimed, ClaimedPc, AttemptGuards, AttemptDaily, AttemptLifetime, AttemptFunding,
      AttemptLookup, AttemptClaim, AttemptCreate, AttemptSubmit, AttemptAck, AttemptAccount,
      AttemptConfirm, AttemptFinish, AttemptNak, AttemptFailRule, AttemptNote, AttemptSkipRetry,
      Move, RuleCas, ruleVars
<1>3. \A q \in Attempts \ {p} : pc'[q] = pc[q]
  BY ExecuteAdvances
<1> QED BY <1>2, <1>3 DEF ClaimAside, Claimed

\* Recovery, one statement further.
LEMMA RecoveryResolves ==
  ASSUME TypeInv, ClaimInv, RecoveryStep, rule = "EXECUTING", rule' = "EXECUTING"
  PROVE  ClaimLeft' < ClaimLeft
<1>1. /\ stuck \in BOOLEAN
      /\ rec \in [pc : RecoveryPc, seen : {"none", "awaiting_user", "confirmed", "dismissed"}]
  BY DEF TypeInv, TypeOK, RuleTyped, RecoveryTyped
<1>2. \A p \in Attempts : ~Claimed(p)
  BY DEF ClaimInv, ClaimHeld, RecoveryStep, RecoveryPick, RecoveryReadTrigger,
         RecoveryReadIntent, RecoveryRevert, RecoveryFail, RecoveryAccount, RecoveryConfirm,
         RecoveryFinish
<1>3. ClaimLeft = RecoveryLeft /\ ClaimLeft' = RecoveryLeft'
  BY <1>2, RecoveryFrame DEF ClaimLeft, Claimed
<1>4. CASE RecoveryPick \/ RecoveryReadTrigger \/ RecoveryReadIntent
  BY <1>1, <1>3, <1>4 DEF RecoveryPick, RecoveryReadTrigger, RecoveryReadIntent, RecoveryLeft
<1>5. CASE RecoveryAccount \/ RecoveryConfirm
  BY <1>1, <1>3, <1>5 DEF RecoveryAccount, RecoveryConfirm, RecoveryLeft
<1>6. ~(RecoveryRevert \/ RecoveryFail \/ RecoveryFinish)
  BY DEF RecoveryRevert, RecoveryFail, RecoveryFinish, RuleCas
<1> QED BY <1>4, <1>5, <1>6 DEF RecoveryStep

\* Time brings recovery nearer; a fault sets the claim back to the wait for it at most.
LEMMA EnvironmentClaims ==
  ASSUME TypeInv, ClaimInv, Environment, rule = "EXECUTING", rule' = "EXECUTING"
  PROVE  /\ ClaimAges /\ rec.pc = "idle" => ClaimLeft' < ClaimLeft
         /\ ClaimLeft' > ClaimLeft => faults' > faults /\ ClaimLeft' <= 8
<1>1. pc \in [Attempts -> AttemptPc] /\ stuck \in BOOLEAN /\ faults \in Nat
  BY DEF TypeInv, TypeOK, AttemptsTyped, RuleTyped, FaultsTyped
<1>2. Once /\ ClaimLeft \in 2..23 /\ \A p \in Attempts : Claimed(p) => rec.pc = "idle"
  BY ClaimLeftFacts
<1>3. CASE ClaimAges
  <2>1. /\ \A p \in Attempts : ~Claimed(p) /\ ~Claimed(p)'
        /\ ~stuck /\ stuck' = TRUE /\ rec' = rec
    BY <1>2, <1>3 DEF ClaimAges, Claimed, attemptVars
  <2>2. ClaimLeft = RecoveryLeft /\ ClaimLeft' = RecoveryLeft'
    BY <2>1 DEF ClaimLeft
  <2>3. /\ RecoveryLeft \in 2..8 /\ RecoveryLeft' \in 2..8
        /\ RecoveryLeft' <= RecoveryLeft /\ (rec.pc = "idle" => RecoveryLeft' < RecoveryLeft)
    BY <2>1 DEF RecoveryLeft
  <2> QED BY <1>2, <2>2, <2>3
<1>4. CASE Control \/ RetryLapses \/ \E r \in Requests : RequestDies(r)
  <2>1. ClaimAside /\ ~ClaimAges
    BY <1>4 DEF Control, Pause, Resume, Cancel, RetryLapses, RequestDies, ClaimAside, Claimed,
                ClaimAges, attemptVars, ruleVars, apiUnchanged
  <2> QED BY <1>2, <2>1, ClaimAsideKeeps
<1>5. CASE (\E p \in Attempts : AttemptThrows(p)) \/ RecoveryThrows \/ WorkerCrash
  <2>1. faults' > faults /\ ~ClaimAges /\ stuck' = stuck
    BY <1>1, <1>5 DEF AttemptThrows, RecoveryThrows, WorkerCrash, ClaimAges, ruleVars
  <2>2. \A p \in Attempts : pc'[p] = pc[p] \/ pc'[p] = "idle"
    BY <1>1, <1>5 DEF AttemptThrows, RecoveryThrows, WorkerCrash, Move, attemptVars
  <2>3. RecoveryLeft' \in 2..8
    BY DEF RecoveryLeft
  <2>4. CASE \E p \in Attempts : Claimed(p)'
    <3>1. \A p \in Attempts : Claimed(p)' => Claimed(p) /\ pc'[p] = pc[p]
      BY <2>2 DEF Claimed, ClaimedPc
    <3>2. PICK p \in Attempts : Claimed(p)' BY <2>4
    <3>3. \A q \in Attempts : Claimed(q)' => q = p
      BY <1>2, <3>1, <3>2 DEF ClaimInv, ClaimHeld
    <3>4. ClaimLeft' = 8 + Rank(pc[p])
      BY <3>1, <3>2, <3>3 DEF ClaimLeft
    <3>5. ClaimLeft = 8 + Rank(pc[p])
      BY <3>1, <3>2, ClaimLeftFacts
    <3> QED BY <1>2, <2>1, <3>4, <3>5
  <2>5. CASE \A p \in Attempts : ~Claimed(p)'
    <3>1. ClaimLeft' = RecoveryLeft'
      BY <2>5 DEF ClaimLeft
    <3> QED BY <1>2, <2>1, <2>3, <3>1
  <2> QED BY <2>4, <2>5
<1> QED BY <1>3, <1>4, <1>5 DEF Environment

\* Each statement of the claim's holder, the five minutes once it is dead, and each
\* statement of recovery's bring the end of an EXECUTING claim nearer, and nothing but a
\* fault puts it off: ExecutingResolves, but for the fairness of the steps in Resolves.
THEOREM ClaimsEnd == Spec => [][ClaimGoesDown]_vars
<1>1. ASSUME TypeInv, LedgerInv, ClaimInv, [Next]_vars PROVE [ClaimGoesDown]_vars
  <2> SUFFICES ASSUME Next, rule = "EXECUTING", rule' = "EXECUTING"
               PROVE  /\ Resolves => ClaimLeft' < ClaimLeft
                      /\ ClaimLeft' > ClaimLeft => faults' > faults /\ ClaimLeft' <= 8
    BY <1>1 DEF ClaimGoesDown
  <2>1. TypeInv' /\ ClaimInv'
    BY <1>1, StepTyped, ClaimStep
  <2>2. ClaimLeft \in 2..23 /\ ClaimLeft' \in 2..23
    <3>1. ClaimLeft \in 2..23 BY <1>1, ClaimLeftFacts
    <3>2. \A p \in Attempts : Rank(pc'[p]) \in 0..15
      BY <2>1, RankValues DEF TypeInv, TypeOK, AttemptsTyped
    <3>3. RecoveryLeft' \in 2..8 BY DEF RecoveryLeft
    <3> QED BY <3>1, <3>2, <3>3 DEF ClaimLeft
  <2>3. ASSUME ClaimAside PROVE ~(ClaimLeft' > ClaimLeft)
    BY <2>2, <2>3, ClaimAsideKeeps
  <2>4. ~(\E c \in Chains : EvaluatorStep(c))
    BY DEF EvaluatorStep, CommitTrigger, EvaluatorEnds
  <2>5. (\E p \in Attempts : Claimed(p) /\ ExecuteStep(p)) => ClaimLeft' < ClaimLeft
    BY <1>1, <2>1, HolderResolves
  <2>6. RecoveryStep => ClaimLeft' < ClaimLeft
    BY <1>1, RecoveryResolves
  <2>7. ClaimAges /\ rec.pc = "idle" => ClaimLeft' < ClaimLeft
    BY <1>1, EnvironmentClaims DEF Environment
  <2>8. Resolves => ClaimLeft' < ClaimLeft
    BY <2>5, <2>6, <2>7 DEF Resolves
  <2>9. ClaimLeft' > ClaimLeft => faults' > faults /\ ClaimLeft' <= 8
    <3>1. CASE \E p \in Attempts : ExecuteStep(p)
      <4>1. PICK p \in Attempts : ExecuteStep(p) BY <3>1
      <4>2. CASE Claimed(p) BY <2>2, <2>5, <4>1, <4>2
      <4>3. CASE ~Claimed(p) BY <1>1, <2>3, <4>1, <4>3, OthersAside
      <4> QED BY <4>2, <4>3
    <3>2. CASE RecoveryStep
      BY <2>2, <2>6, <3>2
    <3>3. CASE SweeperStep
      <4>1. \A q \in Chains : pc'[q] = pc[q] BY <1>1, <3>3, SweeperAdvances
      <4>2. ~Claimed(Sweeper) /\ ~Claimed(Sweeper)'
        BY <1>1, <3>3 DEF SweeperStep, SweepStart, SweepList, SweepNext, SweepEnd, RetryCheck,
           RetryVerify, RetryAbandon, SweepIdle, Move, Claimed, ClaimedPc, attemptVars, TypeInv,
           TypeOK, AttemptsTyped, Attempts
      <4> QED BY <2>3, <3>3, <4>1, <4>2, SweeperFrame, AttemptsFacts DEF ClaimAside, Claimed
    <3>4. CASE \E r \in Requests : RequestStep(r)
      <4>1. PICK r \in Requests : RequestStep(r) BY <3>4
      <4>2. stuck' = stuck
        BY <4>1
        DEF RequestStep, SubmitLookup, SubmitRelease, SubmitRecheck, SubmitCreate, SubmitOrder,
            SubmitRecord, ConfirmRead, ConfirmReadIntent, ConfirmWrite, ConfirmClose,
            DismissRead, DismissWrite, ruleVars, RuleCas
      <4> QED BY <2>3, <4>1, <4>2, RequestFrame DEF ClaimAside, Claimed
    <3>5. CASE Environment
      BY <1>1, <3>5, EnvironmentClaims
    <3> QED BY <2>4, <3>1, <3>2, <3>3, <3>4, <3>5, NextGroups
  <2> QED BY <2>8, <2>9
<1> QED BY <1>1, ClaimInvariant, LedgerInvariant, TypeInvariant, PTL DEF Spec

\* What is left of a pass of the sweeper.
SweepLeft ==
  Rank(pc[Sweeper]) + 16 * Cardinality(sweep.todo)
    + (CASE sweep.phase = "idle" -> 0 [] sweep.phase = "retry" -> 1
         [] sweep.phase = "lapsed" -> 2 + 16 * MaxTriggers)
InSweep == (SweeperStep /\ ~SweepStart) \/ ExecuteStep(Sweeper)
SweepGoesDown ==
  /\ InSweep => SweepLeft' < SweepLeft
  /\ ~SweepStart => SweepLeft' <= SweepLeft

\* Between two passes the sweeper has nothing to do, and the lapsed are only abandoned.
SweepShape ==
  /\ sweep.phase = "idle" => sweep.todo = {} /\ pc[Sweeper] = "idle"
  /\ sweep.phase = "lapsed" => pc[Sweeper] \in {"idle", "abandon", "abandonNote"}

\* A pass has at most every trigger before it.
LEMMA TodoFacts ==
  ASSUME NEW S \in SUBSET Triggers
  PROVE  IsFiniteSet(S) /\ Cardinality(S) \in 0..MaxTriggers
<1>1. S \subseteq 1..MaxTriggers /\ MaxTriggers \in Nat \ {0}
  BY ConstAssumption DEF Triggers
<1>2. IsFiniteSet(1..MaxTriggers) /\ Cardinality(1..MaxTriggers) = MaxTriggers
  <2>1. 1 \in Int /\ MaxTriggers \in Int BY <1>1
  <2>2. /\ IsFiniteSet(1..MaxTriggers)
        /\ Cardinality(1..MaxTriggers) = IF 1 > MaxTriggers THEN 0 ELSE MaxTriggers - 1 + 1
    BY ONLY <2>1, FS_Interval
  <2> QED BY <1>1, <2>2
<1>3. IsFiniteSet(S) /\ Cardinality(S) <= MaxTriggers
  BY <1>1, <1>2, FS_Subset
<1>4. Cardinality(S) \in Nat
  BY <1>3, FS_CardinalityType
<1> QED BY <1>1, <1>3, <1>4

\* Every step keeps SweepShape.
LEMMA SweepShapeStep == ASSUME TypeInv, SweepShape, [Next]_vars PROVE SweepShape'
<1>1. /\ pc \in [Attempts -> AttemptPc] /\ Sweeper \in Attempts /\ Sweeper \notin Chains
      /\ sweep \in [phase : {"idle", "lapsed", "retry"}, todo : SUBSET Triggers]
  BY AttemptsFacts DEF TypeInv, TypeOK, AttemptsTyped, SweepTyped
<1>2. CASE \E c \in Chains : EvaluatorStep(c)
  BY <1>1, <1>2 DEF EvaluatorStep, CommitTrigger, EvaluatorEnds, Move, SweepShape, attemptVars
<1>3. ASSUME NEW p \in Attempts, ExecuteStep(p) PROVE SweepShape'
  <2>1. sweep' = sweep BY <1>3, ExecuteFrame
  <2>2. CASE p # Sweeper
    <3>1. pc'[Sweeper] = pc[Sweeper] BY <1>3, <2>2, <1>1, ExecuteAdvances
    <3> QED BY <2>1, <3>1 DEF SweepShape
  <2>3. CASE p = Sweeper /\ pc[Sweeper] \in {"idle", "abandon"}
    BY <1>3, <2>3
    DEF ExecuteStep, AttemptGuards, AttemptDaily, AttemptLifetime, AttemptFunding,
        AttemptLookup, AttemptClaim, AttemptCreate, AttemptSubmit, AttemptAck,
        AttemptAccount, AttemptConfirm, AttemptFinish, AttemptNak, AttemptFailRule,
        AttemptNote, AttemptSkipRetry
  <2>4. CASE p = Sweeper /\ pc[Sweeper] = "abandonNote"
    <3>1. pc'[Sweeper] = "idle"
      BY <1>1, <1>3, <2>4
      DEF ExecuteStep, AttemptGuards, AttemptDaily, AttemptLifetime, AttemptFunding,
          AttemptLookup, AttemptClaim, AttemptCreate, AttemptSubmit, AttemptAck,
          AttemptAccount, AttemptConfirm, AttemptFinish, AttemptNak, AttemptFailRule,
          AttemptNote, AttemptSkipRetry, Move
    <3> QED BY <2>1, <3>1, <2>4 DEF SweepShape
  <2>5. CASE p = Sweeper /\ pc[Sweeper] \notin {"idle", "abandon", "abandonNote"}
    BY <2>1, <2>5 DEF SweepShape
  <2> QED BY <2>2, <2>3, <2>4, <2>5
<1>4. CASE SweeperStep
  <2>1. CASE SweepStart \/ SweepList \/ SweepEnd
    BY <1>1, <2>1 DEF SweepStart, SweepList, SweepEnd, SweepIdle, SweepShape, attemptVars
  <2>2. CASE SweepNext
    BY <1>1, <2>2 DEF SweepNext, SweepIdle, SweepShape, Move
  <2>3. CASE RetryCheck \/ RetryVerify \/ RetryAbandon
    BY <1>1, <2>3 DEF RetryCheck, RetryVerify, RetryAbandon, SweepShape, Move
  <2> QED BY <1>4, <2>1, <2>2, <2>3 DEF SweeperStep
<1>5. CASE RecoveryStep \/ \E r \in Requests : RequestStep(r)
  BY <1>5, RecoveryFrame, RequestFrame DEF SweepShape
<1>6. CASE Environment
  BY <1>1, <1>6 DEF Environment, Control, RetryLapses, ClaimAges, AttemptThrows, RecoveryThrows,
     WorkerCrash, RequestDies, SweepShape, Move, attemptVars, apiUnchanged
<1>7. CASE UNCHANGED vars BY <1>7 DEF vars, SweepShape
<1> QED BY <1>2, <1>3, <1>4, <1>5, <1>6, <1>7, NextGroups

\* SweepShape is an invariant.
LEMMA SweepShapeInvariant == Spec => []SweepShape
<1>1. Init => SweepShape
  BY DEF Init, SweepShape, Attempts
<1> QED BY <1>1, SweepShapeStep, TypeInvariant, PTL DEF Spec

\* Each statement of the sweeper's pass leaves the pass less, and nothing but the start of
\* the next one lengthens it: every pass ends.
THEOREM SweepsEnd == Spec => [][SweepGoesDown]_vars
<1>1. ASSUME TypeInv, SweepShape, [Next]_vars PROVE [SweepGoesDown]_vars
  <2> SUFFICES ASSUME Next PROVE SweepGoesDown
    BY <1>1
  <2>1. TypeInv' BY <1>1, StepTyped
  <2> DEFINE M == MaxTriggers
             k == Rank(pc[Sweeper])
             c == Cardinality(sweep.todo)
             h == CASE sweep.phase = "idle" -> 0 [] sweep.phase = "retry" -> 1
                    [] sweep.phase = "lapsed" -> 2 + 16 * M
             kk == Rank(pc'[Sweeper])
             cc == Cardinality(sweep'.todo)
             hh == CASE sweep'.phase = "idle" -> 0 [] sweep'.phase = "retry" -> 1
                     [] sweep'.phase = "lapsed" -> 2 + 16 * M
  <2>2. M \in Nat /\ k \in 0..15 /\ c \in 0..M /\ IsFiniteSet(sweep.todo)
    <3>1. sweep.todo \in SUBSET Triggers /\ pc[Sweeper] \in AttemptPc
      BY <1>1 DEF TypeInv, TypeOK, SweepTyped, AttemptsTyped, Attempts
    <3> QED BY <3>1, ConstAssumption, TodoFacts, RankValues
  <2>3. kk \in 0..15 /\ cc \in 0..M
    <3>1. sweep'.todo \in SUBSET Triggers /\ pc'[Sweeper] \in AttemptPc
      BY <2>1 DEF TypeInv, TypeOK, SweepTyped, AttemptsTyped, Attempts
    <3> QED BY <3>1, TodoFacts, RankValues
  <2>4. h \in Nat /\ hh \in Nat
    BY <1>1, <2>1, <2>2 DEF TypeInv, TypeOK, SweepTyped
  <2>5. SweepLeft = k + 16 * c + h /\ SweepLeft' = kk + 16 * cc + hh
    BY DEF SweepLeft
  <2>6. CASE \/ ExecuteStep(Sweeper) \/ RetryCheck \/ RetryVerify \/ RetryAbandon
    <3>1. kk < k
      BY <1>1, <2>6, ExecuteAdvances, SweeperAdvances
      DEF SweeperStep, RetryCheck, RetryVerify, RetryAbandon, SweepNext, SweepStart, SweepList,
          SweepEnd, SweepIdle, Attempts
    <3>2. sweep' = sweep
      BY <2>6, ExecuteFrame DEF RetryCheck, RetryVerify, RetryAbandon, Attempts
    <3>3. cc = c /\ hh = h BY <3>2
    <3> HIDE DEF M, k, c, h, kk, cc, hh
    <3>4. SweepLeft' < SweepLeft
      BY <2>2, <2>3, <2>4, <2>5, <3>1, <3>3
    <3>5. SweepLeft' <= SweepLeft
      BY <2>2, <2>3, <2>4, <2>5, <3>1, <3>3
    <3> QED BY <3>4, <3>5 DEF SweepGoesDown
  <2>7. CASE SweepNext
    <3>1. k = 0 /\ kk <= 15
      BY <2>3, <2>7, RankValues DEF SweepNext, SweepIdle
    <3>2. PICK t \in sweep.todo : sweep' = [sweep EXCEPT !.todo = @ \ {t}]
      BY <2>7 DEF SweepNext
    <3>3. sweep'.todo = sweep.todo \ {t} /\ sweep'.phase = sweep.phase
      BY <1>1, <3>2 DEF TypeInv, TypeOK, SweepTyped
    <3>4. cc = c - 1
      BY <2>2, <3>2, <3>3, FS_RemoveElement
    <3>5. hh = h BY <3>3
    <3> HIDE DEF M, k, c, h, kk, cc, hh
    <3>6. SweepLeft' < SweepLeft /\ SweepLeft' <= SweepLeft
      BY <2>2, <2>3, <2>4, <2>5, <3>1, <3>4, <3>5
    <3> QED BY <3>6 DEF SweepGoesDown
  <2>8. CASE SweepList \/ SweepEnd
    <3>1. pc' = pc /\ sweep.todo = {}
      BY <2>8 DEF SweepList, SweepEnd, attemptVars
    <3>2. kk = k /\ c = 0
      BY <3>1, FS_EmptySet
    <3>3. \/ h = 2 + 16 * M /\ hh = 1
          \/ h = 1 /\ hh = 0 /\ cc = 0
      <4>1. CASE SweepList BY <4>1 DEF SweepList
      <4>2. CASE SweepEnd BY <4>2, FS_EmptySet DEF SweepEnd
      <4> QED BY <2>8, <4>1, <4>2
    <3> HIDE DEF M, k, c, h, kk, cc, hh
    <3>4. SweepLeft' < SweepLeft /\ SweepLeft' <= SweepLeft
      BY <2>2, <2>3, <2>4, <2>5, <3>2, <3>3
    <3> QED BY <3>4 DEF SweepGoesDown
  <2>9. CASE SweepStart
    <3>1. ~InSweep
      BY <1>1, <2>9
      DEF InSweep, SweepStart, SweepIdle, ExecuteStep, AttemptGuards, AttemptDaily,
          AttemptLifetime, AttemptFunding, AttemptLookup, AttemptClaim, AttemptCreate,
          AttemptSubmit, AttemptAck, AttemptAccount, AttemptConfirm, AttemptFinish, AttemptNak,
          AttemptFailRule, AttemptNote, AttemptSkipRetry
    <3> QED BY <2>9, <3>1 DEF SweepGoesDown
  <2>10. ASSUME ~SweeperStep, ~ExecuteStep(Sweeper) PROVE SweepGoesDown
    <3>1. ~InSweep BY <2>10 DEF InSweep
    <3>2. kk <= k /\ cc <= c /\ hh <= h
      <4>1. CASE \E x \in Chains : EvaluatorStep(x)
        <5>1. pc'[Sweeper] = pc[Sweeper] /\ sweep' = sweep
          BY <1>1, <4>1, AttemptsFacts
          DEF EvaluatorStep, CommitTrigger, EvaluatorEnds, Move, attemptVars, TypeInv, TypeOK,
              AttemptsTyped
        <5>2. kk = k /\ cc = c /\ hh = h BY <5>1
        <5> HIDE DEF k, c, h, kk, cc, hh
        <5> QED BY <2>2, <2>4, <5>2
      <4>2. CASE \E p \in Attempts \ {Sweeper} : ExecuteStep(p)
        <5>1. pc'[Sweeper] = pc[Sweeper] /\ sweep' = sweep
          BY <1>1, <4>2, ExecuteAdvances, ExecuteFrame, AttemptsFacts
        <5>2. kk = k /\ cc = c /\ hh = h BY <5>1
        <5> HIDE DEF k, c, h, kk, cc, hh
        <5> QED BY <2>2, <2>4, <5>2
      <4>3. CASE RecoveryStep \/ \E r \in Requests : RequestStep(r)
        <5>1. pc' = pc /\ sweep' = sweep BY <4>3, RecoveryFrame, RequestFrame
        <5>2. kk = k /\ cc = c /\ hh = h BY <5>1
        <5> HIDE DEF k, c, h, kk, cc, hh
        <5> QED BY <2>2, <2>4, <5>2
      <4>4. CASE Environment
        <5>1. pc'[Sweeper] = pc[Sweeper] \/ pc'[Sweeper] = "idle"
          BY <1>1, <4>4, EnvironmentAttempts DEF Attempts
        <5>2. sweep' = sweep \/ sweep' = [phase |-> "idle", todo |-> {}]
          BY <4>4 DEF Environment, Control, RetryLapses, ClaimAges, AttemptThrows,
             RecoveryThrows, WorkerCrash, RequestDies, apiUnchanged
        <5>3. kk = k \/ kk = 0 BY <5>1, RankValues
        <5>4. (cc = c /\ hh = h) \/ (cc = 0 /\ hh = 0)
          <6>1. CASE sweep' = sweep BY <6>1
          <6>2. CASE sweep' = [phase |-> "idle", todo |-> {}]
            <7>1. sweep'.phase = "idle" /\ sweep'.todo = {} BY <6>2
            <7> QED BY <7>1, FS_EmptySet
          <6> QED BY <5>2, <6>1, <6>2
        <5> HIDE DEF k, c, h, kk, cc, hh
        <5> QED BY <2>2, <2>4, <5>3, <5>4
      <4> QED BY <2>10, <4>1, <4>2, <4>3, <4>4, NextGroups, AttemptsFacts
    <3> HIDE DEF M, k, c, h, kk, cc, hh
    <3>3. SweepLeft' <= SweepLeft
      BY <2>2, <2>3, <2>4, <2>5, <3>2
    <3> QED BY <3>1, <3>3 DEF SweepGoesDown
  <2> QED BY <2>6, <2>7, <2>8, <2>9, <2>10 DEF SweeperStep
<1> QED BY <1>1, SweepShapeInvariant, TypeInvariant, PTL DEF Spec

\* The pass is about to abandon trigger t.
Listed(t) == /\ sweep.phase = "lapsed"
             /\ t \in sweep.todo \/ (pc[Sweeper] = "abandon" /\ at[Sweeper] = t)

\* A schedule whose window has closed is never opened again; the pass that begins
\* next lists it, and clears it unless a fault ends the pass.
SchedulesSettle ==
  \A t \in Triggers : trig[t].retry = "lapsed" =>
    /\ trig'[t].retry \in {"lapsed", "none"}
    /\ SweepStart => Listed(t)'
    /\ Listed(t) => Listed(t)' \/ trig'[t].retry = "none" \/ faults' > faults

\* No write opens again a schedule whose window has closed.
LEMMA LapsedStays ==
  ASSUME TypeInv, NEW t \in Triggers, trig[t].retry = "lapsed", [Next]_vars
  PROVE  trig'[t].retry \in {"lapsed", "none"}
<1>1. TriggersTyped BY DEF TypeInv, TypeOK
<1>2. CASE \E c \in Chains : CommitTrigger(c)
  BY <1>1, <1>2 DEF CommitTrigger, TriggersTyped, TriggerRow
<1>3. CASE \E u \in Triggers :
             \/ MarkAutoExecuted(u) \/ MarkAutoFailed(u) \/ ScheduleAutoRetry(u)
             \/ ClearAutoRetry(u)
  BY <1>1, <1>3 DEF MarkAutoExecuted, MarkAutoFailed, ScheduleAutoRetry, ClearAutoRetry,
                    TriggersTyped, TriggerRow
<1>4. CASE \E u, s : SetTrigger(u, s)
  BY <1>1, <1>4 DEF SetTrigger, TriggersTyped, TriggerRow
<1>5. CASE RetryLapses
  BY <1>1, <1>5 DEF RetryLapses, TriggersTyped, TriggerRow
<1>6. CASE trig' = trig
  BY <1>6
<1> QED BY <1>2, <1>3, <1>4, <1>5, <1>6, TriggerWrites

\* A listed trigger stays listed until its schedule is cleared or a fault ends the pass.
LEMMA ListedIsAbandoned ==
  ASSUME TypeInv, SweepShape, NEW t \in Triggers, Listed(t), Next
  PROVE  Listed(t)' \/ trig'[t].retry = "none" \/ faults' > faults
<1>1. /\ pc \in [Attempts -> AttemptPc] /\ Sweeper \in Attempts /\ Sweeper \notin Chains
      /\ at \in [Attempts -> Triggers] /\ faults \in Nat /\ TriggersTyped
      /\ sweep \in [phase : {"idle", "lapsed", "retry"}, todo : SUBSET Triggers]
  BY AttemptsFacts DEF TypeInv, TypeOK, AttemptsTyped, SweepTyped, FaultsTyped
<1>2. /\ sweep.phase = "lapsed" /\ pc[Sweeper] \in {"idle", "abandon", "abandonNote"}
      /\ t \in sweep.todo \/ (pc[Sweeper] = "abandon" /\ at[Sweeper] = t)
  BY DEF SweepShape, Listed
<1>3. ASSUME sweep' = sweep, pc'[Sweeper] = pc[Sweeper], at'[Sweeper] = at[Sweeper]
      PROVE  Listed(t)'
  BY <1>3 DEF Listed
<1>4. CASE \E c \in Chains : EvaluatorStep(c)
  BY <1>1, <1>3, <1>4 DEF EvaluatorStep, CommitTrigger, EvaluatorEnds, Move, attemptVars
<1>5. CASE \E p \in Attempts \ {Sweeper} : ExecuteStep(p)
  <2>1. pc'[Sweeper] = pc[Sweeper] BY <1>1, <1>5, ExecuteAdvances
  <2>2. sweep' = sweep /\ at' = at BY <1>1, <1>5, ExecuteFrame
  <2> QED BY <1>3, <2>1, <2>2
<1>6. CASE ExecuteStep(Sweeper)
  <2>1. pc[Sweeper] \notin {"idle", "abandon"}
    BY <1>6
    DEF ExecuteStep, AttemptGuards, AttemptDaily, AttemptLifetime, AttemptFunding,
        AttemptLookup, AttemptClaim, AttemptCreate, AttemptSubmit, AttemptAck,
        AttemptAccount, AttemptConfirm, AttemptFinish, AttemptNak, AttemptFailRule,
        AttemptNote, AttemptSkipRetry
  <2>2. sweep' = sweep BY <1>1, <1>6, ExecuteFrame
  <2> QED BY <1>2, <2>1, <2>2 DEF Listed
<1>7. CASE SweeperStep
  <2>1. CASE SweepNext
    <3>1. PICK u \in sweep.todo : /\ sweep' = [sweep EXCEPT !.todo = @ \ {u}]
                                  /\ pc' = [pc EXCEPT ![Sweeper] = "abandon"]
                                  /\ at' = [at EXCEPT ![Sweeper] = u]
      BY <1>2, <2>1 DEF SweepNext, Move
    <3>2. t \in sweep.todo
      BY <1>2, <2>1 DEF SweepNext, SweepIdle
    <3> QED BY <1>1, <1>2, <3>1, <3>2 DEF Listed
  <2>2. CASE RetryAbandon
    <3>1. sweep' = sweep /\ trig' = [trig EXCEPT ![at[Sweeper]].retry = "none"]
      BY <2>2 DEF RetryAbandon, ClearAutoRetry
    <3>2. CASE at[Sweeper] = t
      BY <1>1, <3>1, <3>2 DEF TriggersTyped, TriggerRow
    <3>3. CASE at[Sweeper] # t
      BY <1>2, <3>1, <3>3 DEF Listed
    <3> QED BY <3>2, <3>3
  <2>3. ~(SweepStart \/ SweepList \/ SweepEnd \/ RetryCheck \/ RetryVerify)
    BY <1>2 DEF SweepStart, SweepList, SweepEnd, RetryCheck, RetryVerify, SweepIdle
  <2> QED BY <1>7, <2>1, <2>2, <2>3 DEF SweeperStep
<1>8. CASE RecoveryStep \/ \E r \in Requests : RequestStep(r)
  BY <1>3, <1>8, RecoveryFrame, RequestFrame
<1>9. CASE Environment
  <2>1. CASE Control \/ RetryLapses \/ ClaimAges \/ RecoveryThrows \/ \E r \in Requests : RequestDies(r)
    BY <1>3, <2>1 DEF Control, RetryLapses, ClaimAges, RecoveryThrows, RequestDies, attemptVars,
                      apiUnchanged
  <2>2. CASE (\E p \in Attempts : AttemptThrows(p)) \/ WorkerCrash
    BY <1>1, <2>2 DEF AttemptThrows, WorkerCrash
  <2> QED BY <1>9, <2>1, <2>2 DEF Environment
<1> QED BY <1>4, <1>5, <1>6, <1>7, <1>8, <1>9, NextGroups, AttemptsFacts

\* A schedule whose window has closed is never opened again; the sweeper's next pass lists
\* it, and clears it before the pass ends unless a fault ends the pass: with SweepsEnd this
\* is RetryResolves, but for the fairness of the sweeper's steps and of time.
THEOREM SchedulesCleared == Spec => [][SchedulesSettle]_vars
<1>1. ASSUME TypeInv, SweepShape, RetryOnlyWhileAwaiting, [Next]_vars
      PROVE  [SchedulesSettle]_vars
  <2> SUFFICES ASSUME NEW t \in Triggers, trig[t].retry = "lapsed", Next
               PROVE  /\ trig'[t].retry \in {"lapsed", "none"}
                      /\ SweepStart => Listed(t)'
                      /\ Listed(t) => Listed(t)' \/ trig'[t].retry = "none" \/ faults' > faults
    BY <1>1 DEF SchedulesSettle
  <2>1. trig'[t].retry \in {"lapsed", "none"}
    BY <1>1, LapsedStays
  <2>2. SweepStart => Listed(t)'
    BY <1>1 DEF SweepStart, Listed, RetryOnlyWhileAwaiting
  <2>3. Listed(t) => Listed(t)' \/ trig'[t].retry = "none" \/ faults' > faults
    BY <1>1, ListedIsAbandoned
  <2> QED BY <2>1, <2>2, <2>3
<1> QED BY <1>1, SweepShapeInvariant, RetrySchedule, TypeInvariant, PTL DEF Spec

=============================================================================
