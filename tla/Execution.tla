------------------------------ MODULE Execution ------------------------------
(****************************************************************************)
(* The order-execution path of ONE automatic strategy, from the trigger     *)
(* commit to the order ledger:                                              *)
(*   - the rule row, its trigger rows and the order_intents ledger (the     *)
(*     Postgres rows of packages/db), every write one atomic statement;     *)
(*   - the worker: the write chains that commit a trigger and run the       *)
(*     auto-executor, one per in-memory rule, so a dropped rule's beside    *)
(*     its successor's; the auto-retry sweeper that runs it again, the      *)
(*     recovery sweep for rules stranded in EXECUTING, and the crash of the *)
(*     process that runs them all;                                          *)
(*   - the API: POST /api/trade/orders for a trigger, confirm, dismiss,     *)
(*     pause, resume and cancel, as requests that interleave statement by   *)
(*     statement with the worker;                                           *)
(*   - the CLOB (external): a submit may be accepted, be rejected, or       *)
(*     register the order and still answer an error (client timeout).       *)
(*                                                                          *)
(* One step is one awaited database statement or one upstream call.  Order  *)
(* sizes are one unit; ACTIVE_WAITING and ACTIVE_ACCUMULATING are "ACTIVE"  *)
(* here (StrategyMachine tells them apart), and the intent statuses that    *)
(* follow "submitted" belong to OrderSync.                                  *)
(****************************************************************************)
EXTENDS Naturals, FiniteSets, Functions

CONSTANTS
  Once,        \* recurrence.kind is "once" (FALSE: "repeat")
  Rolling,     \* the action is a rolling series: intents are keyed by window
  MaxTriggers, \* recurrence.maxRepeats, 1 for a once-rule
  MaxTotal,    \* limits.maxTotalNotional, in orders
  MaxDaily,    \* limits.maxDailyNotional, in orders (one UTC day is modelled)
  Chains,      \* write chains that may be under way at the same time
  Requests,    \* API requests that may be open at the same time
  MaxManual,   \* bound: manual intent rows created per trigger
  MaxFaults    \* bound: crashes and thrown database errors in one behaviour

Sweeper == "sweeper"

ASSUME ConstAssumption ==
  /\ Once \in BOOLEAN /\ Rolling \in BOOLEAN
  /\ MaxTriggers \in Nat \ {0} /\ (Once => MaxTriggers = 1)
  /\ MaxTotal \in Nat /\ MaxDaily \in Nat
  /\ IsFiniteSet(Chains) /\ Sweeper \notin Chains
  /\ MaxManual \in Nat /\ MaxFaults \in Nat

Triggers == 1..MaxTriggers
Attempts == Chains \cup {Sweeper}   \* the callers of autoExecutor.execute

RuleStatus == {"ACTIVE", "PAUSED", "TRIGGERED_AWAITING_USER", "EXECUTING",
               "EXECUTED_AUTO", "EXECUTED_MANUALLY", "EXECUTION_FAILED",
               "CANCELLED", "EXPIRED"}
FinalStatus == {"EXECUTED_AUTO", "EXECUTED_MANUALLY", "EXECUTION_FAILED",
                "CANCELLED", "EXPIRED"}
RetryableRuleStatus == {"TRIGGERED_AWAITING_USER", "ACTIVE"}

TriggerRow == [status   : {"none", "awaiting_user", "confirmed", "dismissed"},
               retry    : {"none", "open", "lapsed"},  \* autoRetryUntil
               executed : BOOLEAN,                     \* autoExecutedAt set
               failed   : BOOLEAN]                     \* autoFailedAt set
IntentStatus == {"none", "pending", "submitted", "failed"}

\* Where an attempt stands: the statement it is about to run.
AttemptPc == {"idle", "guards", "daily", "lifetime", "funding", "lookup",
              "claim", "create", "submit", "ack", "account", "confirm",
              "finish", "nak", "failRule", "failNote", "skipRetry", "skipNote",
              "check", "verify", "abandon", "abandonNote"}
\* A once-rule's attempt holds the EXECUTING claim from the CAS to the status
\* that ends it.
ClaimedPc == {"create", "submit", "ack", "account", "confirm", "finish",
              "nak", "failRule"}
RequestPc == {"idle", "release", "recheck", "create", "submit", "ack", "nak",
              "intent", "confirm", "close", "dismiss"}
RecoveryPc == {"idle", "trigger", "intent", "revert", "fail", "account",
               "confirm", "finish"}

VARIABLES
  rule,     \* conditional_rules.status
  stuck,    \* the row is EXECUTING and its updatedAt is older than stuckAfterMs
  fired,    \* number of trigger rows: triggers 1..fired exist
  trig,     \* rule_triggers rows
  auto,     \* status of the intent under trigger t's auto key
  manual,   \* status of the intent under the key "trigger:<t>"
  rows,     \* manual intent rows ever created; the last one may hold the key
  counted,  \* times trigger t's notional was added to totalNotionalExecuted
  autoOrders, manualOrders, \* orders registered at the CLOB
  ghosts,   \* manual orders registered although the submit answered an error
  pc, at,   \* the auto-executor attempts and the trigger each works on
  sweep,    \* the sweeper's pass: phase and triggers still to visit
  rec,      \* the recovery sweep
  req,      \* the API requests
  faults    \* faults so far

ruleVars    == <<rule, stuck>>
ledgerVars  == <<auto, manual, rows, counted>>
clobVars    == <<autoOrders, manualOrders, ghosts>>
attemptVars == <<pc, at>>
vars == <<rule, stuck, fired, trig, auto, manual, rows, counted, autoOrders,
          manualOrders, ghosts, pc, at, sweep, rec, req, faults>>

IdleRequest == [pc |-> "idle", t |-> 1, row |-> 0, scoped |-> FALSE]
IdleRecovery == [pc |-> "idle", seen |-> "none"]

Init ==
  /\ rule = "ACTIVE" /\ stuck = FALSE /\ fired = 0
  /\ trig = [t \in Triggers |-> [status |-> "none", retry |-> "none",
                                 executed |-> FALSE, failed |-> FALSE]]
  /\ auto = [t \in Triggers |-> "none"]
  /\ manual = [t \in Triggers |-> "none"]
  /\ rows = [t \in Triggers |-> 0]
  /\ counted = [t \in Triggers |-> 0]
  /\ autoOrders = [t \in Triggers |-> 0]
  /\ manualOrders = [t \in Triggers |-> 0]
  /\ ghosts = [t \in Triggers |-> 0]
  /\ pc = [p \in Attempts |-> "idle"]
  /\ at = [p \in Attempts |-> 1]
  /\ sweep = [phase |-> "idle", todo |-> {}]
  /\ rec = IdleRecovery
  /\ req = [r \in Requests |-> IdleRequest]
  /\ faults = 0

-----------------------------------------------------------------------------
(* Statements of the stores, shared by their callers.                       *)

\* A compare-and-set on the rule's status; a row that matched gets a new
\* updatedAt, so it is no longer stuck.
RuleCas(from, to) ==
  /\ rule' = IF rule = from THEN to ELSE rule
  /\ stuck' = IF rule = from THEN FALSE ELSE stuck

\* triggerStore.updateStatus to a status other than awaiting_user.
SetTrigger(t, status) ==
  trig' = [trig EXCEPT ![t].status = status, ![t].retry = "none"]

MarkAutoExecuted(t) ==
  trig' = [trig EXCEPT ![t].status = "confirmed", ![t].retry = "none", ![t].executed = TRUE]

MarkAutoFailed(t) == trig' = [trig EXCEPT ![t].failed = TRUE]

ClearAutoRetry(t) == trig' = [trig EXCEPT ![t].retry = "none"]

\* Bug: the WHERE clause without first-schedule-wins.
ScheduleExtends(t) ==
  trig' = IF trig[t].status = "awaiting_user" THEN [trig EXCEPT ![t].retry = "open"] ELSE trig

\* First schedule wins, and only while the trigger awaits the user.
ScheduleAutoRetry(t) ==
  trig' = IF trig[t].status = "awaiting_user" /\ trig[t].retry = "none"
            THEN [trig EXCEPT ![t].retry = "open"]
            ELSE trig

\* ruleStore.addExecutedNotional: unguarded, and it touches updatedAt.
AddExecutedNotional(t) ==
  /\ counted' = [counted EXCEPT ![t] = @ + 1]
  /\ stuck' = FALSE

DailySubmitted == Cardinality({t \in Triggers : auto[t] = "submitted"})

\* sumRuleAutoNotional: every auto intent that is not failed.
DailyNotional == Cardinality({t \in Triggers : auto[t] \notin {"none", "failed"}})

\* totalNotionalExecuted.
LifetimeNotional == FoldFunction(+, 0, counted)

\* The intent the recovery sweep finds: it looks under auto:<rule>:<trigger>,
\* which is not the key of a rolling strategy's intent.
RecoveryFinds(t) == IF Rolling THEN "none" ELSE auto[t]

Move(p, to) == pc' = [pc EXCEPT ![p] = to]

-----------------------------------------------------------------------------
(* A write chain of the evaluator: trigger commit, then the auto-executor.  *)
(* removeRule does not wait for the chain of the rule it drops.             *)

\* Bug: `<=` for `<` in the test for remaining repetitions.
CommitTriggerOneTooMany(c) ==
  /\ rule = "ACTIVE" /\ pc[c] = "idle"
  /\ fired' = fired + 1
  /\ trig' = [trig EXCEPT ![fired'].status = "awaiting_user"]
  /\ rule' = IF fired' <= MaxTriggers THEN "ACTIVE" ELSE "TRIGGERED_AWAITING_USER"
  /\ Move(c, "guards") /\ at' = [at EXCEPT ![c] = fired']
  /\ UNCHANGED <<stuck, ledgerVars, clobVars, sweep, rec, req, faults>>

\* State CAS and trigger row in one transaction; the chain goes on to execute.
CommitTrigger(c) ==
  /\ rule = "ACTIVE" /\ pc[c] = "idle"
  /\ fired' = fired + 1
  /\ trig' = [trig EXCEPT ![fired'].status = "awaiting_user"]
  /\ rule' = IF fired' < MaxTriggers THEN "ACTIVE" ELSE "TRIGGERED_AWAITING_USER"
  /\ Move(c, "guards") /\ at' = [at EXCEPT ![c] = fired']
  /\ UNCHANGED <<stuck, ledgerVars, clobVars, sweep, rec, req, faults>>

\* The evaluator ends the strategy: expired or invalidated.
EvaluatorEnds(c) ==
  /\ rule = "ACTIVE" /\ pc[c] = "idle"
  /\ rule' = "EXPIRED"
  /\ UNCHANGED <<stuck, fired, trig, ledgerVars, clobVars, attemptVars, sweep,
                 rec, req, faults>>

EvaluatorStep(c) == CommitTrigger(c) \/ EvaluatorEnds(c)

-----------------------------------------------------------------------------
(* autoExecutor.execute, run by the chains and by the sweeper.              *)

\* Flags, kill switches, wallet, delegation, rate limit, order limits: all
\* read outside this rule's rows, so any of them may pass or skip.
AttemptGuards(p) ==
  /\ pc[p] = "guards"
  /\ \E to \in {"daily", "skipRetry", "skipNote"} : Move(p, to)
  /\ UNCHANGED <<ruleVars, fired, trig, ledgerVars, clobVars, at, sweep, rec, req, faults>>

\* Bug: it counts the acknowledged orders only.
AttemptDailySubmitted(p) ==
  /\ pc[p] = "daily"
  /\ Move(p, IF DailySubmitted + 1 > MaxDaily THEN "skipNote" ELSE "lifetime")
  /\ UNCHANGED <<ruleVars, fired, trig, ledgerVars, clobVars, at, sweep, rec, req, faults>>

AttemptDaily(p) ==
  /\ pc[p] = "daily"
  /\ Move(p, IF DailyNotional + 1 > MaxDaily THEN "skipNote" ELSE "lifetime")
  /\ UNCHANGED <<ruleVars, fired, trig, ledgerVars, clobVars, at, sweep, rec, req, faults>>

AttemptLifetime(p) ==
  /\ pc[p] = "lifetime"
  /\ Move(p, IF LifetimeNotional + 1 > MaxTotal THEN "skipNote" ELSE "funding")
  /\ UNCHANGED <<ruleVars, fired, trig, ledgerVars, clobVars, at, sweep, rec, req, faults>>

\* Deposit wallet, credentials, balance.
AttemptFunding(p) ==
  /\ pc[p] = "funding"
  /\ \E to \in {"lookup", "skipRetry", "skipNote"} : Move(p, to)
  /\ UNCHANGED <<ruleVars, fired, trig, ledgerVars, clobVars, at, sweep, rec, req, faults>>

\* An intent under the deterministic key ends the attempt, whatever its status.
AttemptLookup(p) ==
  /\ pc[p] = "lookup"
  /\ Move(p, IF auto[at[p]] # "none" THEN "idle" ELSE IF Once THEN "claim" ELSE "create")
  /\ UNCHANGED <<ruleVars, fired, trig, ledgerVars, clobVars, at, sweep, rec, req, faults>>

\* Bug: the result of the claim is ignored.
AttemptClaimIgnored(p) ==
  /\ pc[p] = "claim"
  /\ RuleCas("TRIGGERED_AWAITING_USER", "EXECUTING")
  /\ Move(p, "create")
  /\ UNCHANGED <<fired, trig, ledgerVars, clobVars, at, sweep, rec, req, faults>>

\* Once-rules claim TRIGGERED_AWAITING_USER -> EXECUTING before any funds move.
AttemptClaim(p) ==
  /\ pc[p] = "claim"
  /\ RuleCas("TRIGGERED_AWAITING_USER", "EXECUTING")
  /\ Move(p, IF rule = "TRIGGERED_AWAITING_USER" THEN "create" ELSE "skipNote")
  /\ UNCHANGED <<fired, trig, ledgerVars, clobVars, at, sweep, rec, req, faults>>

\* The unique key: a second row throws, and the attempt ends there.
AttemptCreate(p) ==
  /\ pc[p] = "create"
  /\ auto' = IF auto[at[p]] = "none" THEN [auto EXCEPT ![at[p]] = "pending"] ELSE auto
  /\ Move(p, IF auto[at[p]] = "none" THEN "submit" ELSE "idle")
  /\ UNCHANGED <<ruleVars, fired, trig, manual, rows, counted, clobVars, at, sweep,
                 rec, req, faults>>

\* Sign and submit: accepted, registered behind an error, or rejected.
AttemptSubmit(p) ==
  /\ pc[p] = "submit"
  /\ \E registered \in BOOLEAN, ok \in BOOLEAN :
       /\ ok => registered
       /\ autoOrders' = [autoOrders EXCEPT ![at[p]] = @ + (IF registered THEN 1 ELSE 0)]
       /\ Move(p, IF ok THEN "ack" ELSE "nak")
  /\ UNCHANGED <<ruleVars, fired, trig, ledgerVars, manualOrders, ghosts, at, sweep,
                 rec, req, faults>>

\* Bug: the acknowledged order is not counted.
AttemptAckUncounted(p) ==
  /\ pc[p] = "ack"
  /\ auto' = [auto EXCEPT ![at[p]] = "submitted"]
  /\ Move(p, "confirm")
  /\ UNCHANGED <<ruleVars, fired, trig, manual, rows, counted, clobVars, at, sweep,
                 rec, req, faults>>

AttemptAck(p) ==
  /\ pc[p] = "ack"
  /\ auto' = [auto EXCEPT ![at[p]] = "submitted"]
  /\ Move(p, "account")
  /\ UNCHANGED <<ruleVars, fired, trig, manual, rows, counted, clobVars, at, sweep,
                 rec, req, faults>>

AttemptAccount(p) ==
  /\ pc[p] = "account"
  /\ AddExecutedNotional(at[p])
  /\ Move(p, "confirm")
  /\ UNCHANGED <<rule, fired, trig, auto, manual, rows, clobVars, at, sweep, rec, req, faults>>

\* One statement, whatever the trigger's status.
AttemptConfirm(p) ==
  /\ pc[p] = "confirm"
  /\ MarkAutoExecuted(at[p])
  /\ Move(p, IF Once THEN "finish" ELSE "idle")
  /\ UNCHANGED <<ruleVars, fired, ledgerVars, clobVars, at, sweep, rec, req, faults>>

AttemptFinish(p) ==
  /\ pc[p] = "finish"
  /\ RuleCas("EXECUTING", "EXECUTED_AUTO")
  /\ Move(p, "idle")
  /\ UNCHANGED <<fired, trig, ledgerVars, clobVars, at, sweep, rec, req, faults>>

\* Bug: the key of a failed intent is released for the next attempt.
AttemptNakReleases(p) ==
  /\ pc[p] = "nak"
  /\ auto' = [auto EXCEPT ![at[p]] = "none"]
  /\ Move(p, IF Once THEN "failRule" ELSE "failNote")
  /\ UNCHANGED <<ruleVars, fired, trig, manual, rows, counted, clobVars, at, sweep,
                 rec, req, faults>>

AttemptNak(p) ==
  /\ pc[p] = "nak"
  /\ auto' = [auto EXCEPT ![at[p]] = "failed"]
  /\ Move(p, IF Once THEN "failRule" ELSE "failNote")
  /\ UNCHANGED <<ruleVars, fired, trig, manual, rows, counted, clobVars, at, sweep,
                 rec, req, faults>>

AttemptFailRule(p) ==
  /\ pc[p] = "failRule"
  /\ RuleCas("EXECUTING", "EXECUTION_FAILED")
  /\ Move(p, "failNote")
  /\ UNCHANGED <<fired, trig, ledgerVars, clobVars, at, sweep, rec, req, faults>>

\* The reason stamped on the trigger, after a failed submit, a plain skip, or a
\* retry that was abandoned.
AttemptNote(p) ==
  /\ pc[p] \in {"failNote", "skipNote", "abandonNote"}
  /\ MarkAutoFailed(at[p])
  /\ Move(p, "idle")
  /\ UNCHANGED <<ruleVars, fired, ledgerVars, clobVars, at, sweep, rec, req, faults>>

\* A recoverable skip schedules a retry, unless the rule expires first.
AttemptSkipRetry(p) ==
  /\ pc[p] = "skipRetry"
  /\ \/ ScheduleAutoRetry(at[p]) /\ Move(p, "idle")
     \/ Move(p, "skipNote") /\ UNCHANGED trig
  /\ UNCHANGED <<ruleVars, fired, ledgerVars, clobVars, at, sweep, rec, req, faults>>

ExecuteStep(p) ==
  \/ AttemptGuards(p) \/ AttemptDaily(p) \/ AttemptLifetime(p) \/ AttemptFunding(p)
  \/ AttemptLookup(p) \/ AttemptClaim(p) \/ AttemptCreate(p) \/ AttemptSubmit(p)
  \/ AttemptAck(p) \/ AttemptAccount(p) \/ AttemptConfirm(p) \/ AttemptFinish(p)
  \/ AttemptNak(p) \/ AttemptFailRule(p) \/ AttemptNote(p) \/ AttemptSkipRetry(p)

-----------------------------------------------------------------------------
(* The auto-retry sweeper: lapsed triggers first, then the retryable ones.  *)

SweepIdle == pc[Sweeper] = "idle"

\* runOnce, guarded by `running`; it lists the lapsed schedules.
SweepStart ==
  /\ sweep.phase = "idle" /\ SweepIdle
  /\ sweep' = [phase |-> "lapsed",
               todo |-> {t \in Triggers : /\ trig[t].status = "awaiting_user"
                                          /\ trig[t].retry = "lapsed"}]
  /\ UNCHANGED <<ruleVars, fired, trig, ledgerVars, clobVars, attemptVars, rec, req, faults>>

\* The lapsed ones are done; the schedules left were open when the pass began.
SweepList ==
  /\ sweep.phase = "lapsed" /\ sweep.todo = {} /\ SweepIdle
  /\ sweep' = [phase |-> "retry",
               todo |-> {t \in Triggers : /\ trig[t].status = "awaiting_user"
                                          /\ trig[t].retry # "none"}]
  /\ UNCHANGED <<ruleVars, fired, trig, ledgerVars, clobVars, attemptVars, rec, req, faults>>

\* The next listed trigger: abandoned if it lapsed, retried if it did not.
SweepNext ==
  /\ SweepIdle
  /\ \E t \in sweep.todo :
       /\ sweep' = [sweep EXCEPT !.todo = @ \ {t}]
       /\ Move(Sweeper, IF sweep.phase = "lapsed" THEN "abandon" ELSE "check")
       /\ at' = [at EXCEPT ![Sweeper] = t]
  /\ UNCHANGED <<ruleVars, fired, trig, ledgerVars, clobVars, rec, req, faults>>

SweepEnd ==
  /\ sweep.phase = "retry" /\ sweep.todo = {} /\ SweepIdle
  /\ sweep' = [phase |-> "idle", todo |-> {}]
  /\ UNCHANGED <<ruleVars, fired, trig, ledgerVars, clobVars, attemptVars, rec, req, faults>>

\* retryOne reads the rule once, before it fetches any book.
RetryCheck ==
  /\ pc[Sweeper] = "check"
  /\ Move(Sweeper, IF rule \in RetryableRuleStatus THEN "verify" ELSE "abandon")
  /\ UNCHANGED <<ruleVars, fired, trig, ledgerVars, clobVars, at, sweep, rec, req, faults>>

\* A failed fetch waits for the next pass; a condition that no longer holds, or
\* cannot be re-verified, abandons; otherwise the executor runs again.
RetryVerify ==
  /\ pc[Sweeper] = "verify"
  /\ \E to \in {"idle", "abandon", "guards"} : Move(Sweeper, to)
  /\ UNCHANGED <<ruleVars, fired, trig, ledgerVars, clobVars, at, sweep, rec, req, faults>>

RetryAbandon ==
  /\ pc[Sweeper] = "abandon"
  /\ ClearAutoRetry(at[Sweeper])
  /\ Move(Sweeper, "abandonNote")
  /\ UNCHANGED <<ruleVars, fired, ledgerVars, clobVars, at, sweep, rec, req, faults>>

SweeperStep == SweepStart \/ SweepList \/ SweepNext \/ SweepEnd
               \/ RetryCheck \/ RetryVerify \/ RetryAbandon

-----------------------------------------------------------------------------
(* Recovery of a rule stranded in EXECUTING.                                *)

RecoveryPick ==
  /\ rec.pc = "idle" /\ rule = "EXECUTING" /\ stuck
  /\ rec' = [rec EXCEPT !.pc = "trigger"]
  /\ UNCHANGED <<ruleVars, fired, trig, ledgerVars, clobVars, attemptVars, sweep, req, faults>>

\* The latest trigger row, whose status is used after the next two reads.
RecoveryReadTrigger ==
  /\ rec.pc = "trigger"
  /\ rec' = IF fired = 0 THEN [pc |-> "revert", seen |-> "none"]
                         ELSE [pc |-> "intent", seen |-> trig[fired].status]
  /\ UNCHANGED <<ruleVars, fired, trig, ledgerVars, clobVars, attemptVars, sweep, req, faults>>

\* Bugs: a failed intent adopted like a live one; a pending one left for later.
RecoveryAdoptsFailed ==
  /\ rec.pc = "intent"
  /\ rec' = [seen |-> "none", pc |->
       CASE RecoveryFinds(fired) = "none" -> "revert"
         [] OTHER -> IF rec.seen = "awaiting_user" THEN "account" ELSE "finish"]
  /\ UNCHANGED <<ruleVars, fired, trig, ledgerVars, clobVars, attemptVars, sweep, req, faults>>
RecoveryWaits ==
  /\ rec.pc = "intent"
  /\ rec' = [seen |-> "none", pc |->
       CASE RecoveryFinds(fired) = "none"    -> "revert"
         [] RecoveryFinds(fired) = "failed"  -> "fail"
         [] RecoveryFinds(fired) = "pending" -> "idle"
         [] OTHER -> IF rec.seen = "awaiting_user" THEN "account" ELSE "finish"]
  /\ UNCHANGED <<ruleVars, fired, trig, ledgerVars, clobVars, attemptVars, sweep, req, faults>>

\* No store writes the status "created" the code also tests for, so that branch
\* is never taken and a pending intent is adopted as one that made it out.
RecoveryReadIntent ==
  /\ rec.pc = "intent"
  /\ rec' = [seen |-> "none", pc |->
       CASE RecoveryFinds(fired) = "none"   -> "revert"
         [] RecoveryFinds(fired) = "failed" -> "fail"
         [] OTHER -> IF rec.seen = "awaiting_user" THEN "account" ELSE "finish"]
  /\ UNCHANGED <<ruleVars, fired, trig, ledgerVars, clobVars, attemptVars, sweep, req, faults>>

RecoveryRevert ==
  /\ rec.pc = "revert"
  /\ RuleCas("EXECUTING", "TRIGGERED_AWAITING_USER")
  /\ rec' = IdleRecovery
  /\ UNCHANGED <<fired, trig, ledgerVars, clobVars, attemptVars, sweep, req, faults>>

RecoveryFail ==
  /\ rec.pc = "fail"
  /\ RuleCas("EXECUTING", "EXECUTION_FAILED")
  /\ rec' = IdleRecovery
  /\ UNCHANGED <<fired, trig, ledgerVars, clobVars, attemptVars, sweep, req, faults>>

RecoveryAccount ==
  /\ rec.pc = "account"
  /\ AddExecutedNotional(fired)
  /\ rec' = [rec EXCEPT !.pc = "confirm"]
  /\ UNCHANGED <<rule, fired, trig, auto, manual, rows, clobVars, attemptVars, sweep,
                 req, faults>>

RecoveryConfirm ==
  /\ rec.pc = "confirm"
  /\ SetTrigger(fired, "confirmed")
  /\ rec' = [rec EXCEPT !.pc = "finish"]
  /\ UNCHANGED <<ruleVars, fired, ledgerVars, clobVars, attemptVars, sweep, req, faults>>

RecoveryFinish ==
  /\ rec.pc = "finish"
  /\ RuleCas("EXECUTING", "EXECUTED_AUTO")
  /\ rec' = IdleRecovery
  /\ UNCHANGED <<fired, trig, ledgerVars, clobVars, attemptVars, sweep, req, faults>>

RecoveryStep ==
  \/ RecoveryPick \/ RecoveryReadTrigger \/ RecoveryReadIntent \/ RecoveryRevert
  \/ RecoveryFail \/ RecoveryAccount \/ RecoveryConfirm \/ RecoveryFinish

-----------------------------------------------------------------------------
(* POST /api/trade/orders with the idempotency key "trigger:<t>".           *)

Go(r, to) == req' = IF to = "idle" THEN [req EXCEPT ![r] = IdleRequest]
                                   ELSE [req EXCEPT ![r].pc = to]
apiUnchanged == <<fired, pc, at, sweep, rec, faults>>

\* findByIdempotencyKey: a live intent is replayed (no step), a failed one has
\* its key released first.  A scoped session came from a sign link.
SubmitLookup(r) ==
  /\ req[r].pc = "idle"
  /\ \E t \in 1..fired, scoped \in BOOLEAN :
       /\ manual[t] \in {"none", "failed"} /\ rows[t] < MaxManual
       /\ req' = [req EXCEPT ![r] = [pc |-> IF manual[t] = "none" THEN "recheck" ELSE "release",
                                     t |-> t, row |-> rows[t], scoped |-> scoped]]
  /\ UNCHANGED <<ruleVars, trig, ledgerVars, clobVars, apiUnchanged>>

\* releaseIdempotencyKey, a compare-and-set on the row that was read.  A released
\* row keeps the status failed, so releasing it again succeeds and frees nothing.
SubmitRelease(r) ==
  /\ req[r].pc = "release"
  /\ LET t == req[r].t
         holder == req[r].row = rows[t] /\ manual[t] # "none"
     IN /\ manual' = IF holder /\ manual[t] = "failed" THEN [manual EXCEPT ![t] = "none"]
                                                     ELSE manual
        /\ Go(r, IF holder /\ manual[t] # "failed" THEN "idle" ELSE "recheck")
  /\ UNCHANGED <<ruleVars, trig, auto, rows, counted, clobVars, apiUnchanged>>

\* Only a scoped session re-reads its trigger; window, rate limit, signature and
\* credentials may turn any request away.
SubmitRecheck(r) ==
  /\ req[r].pc = "recheck"
  /\ \/ Go(r, "idle")
     \/ (req[r].scoped => trig[req[r].t].status = "awaiting_user") /\ Go(r, "create")
  /\ UNCHANGED <<ruleVars, trig, ledgerVars, clobVars, apiUnchanged>>

\* Bug: no unique index on the idempotency key.
SubmitCreateNotUnique(r) ==
  /\ req[r].pc = "create"
  /\ LET t == req[r].t IN
       IF rows[t] < MaxManual
         THEN /\ manual' = [manual EXCEPT ![t] = "pending"]
              /\ rows' = [rows EXCEPT ![t] = @ + 1]
              /\ Go(r, "submit")
         ELSE /\ Go(r, "idle") /\ UNCHANGED <<manual, rows>>
  /\ UNCHANGED <<ruleVars, trig, auto, counted, clobVars, apiUnchanged>>

\* The unique key: the loser of a race gets an error and no row.
SubmitCreate(r) ==
  /\ req[r].pc = "create"
  /\ LET t == req[r].t IN
       IF manual[t] = "none" /\ rows[t] < MaxManual
         THEN /\ manual' = [manual EXCEPT ![t] = "pending"]
              /\ rows' = [rows EXCEPT ![t] = @ + 1]
              /\ Go(r, "submit")
         ELSE /\ Go(r, "idle") /\ UNCHANGED <<manual, rows>>
  /\ UNCHANGED <<ruleVars, trig, auto, counted, clobVars, apiUnchanged>>

SubmitOrder(r) ==
  /\ req[r].pc = "submit"
  /\ LET t == req[r].t IN
       \E registered \in BOOLEAN, ok \in BOOLEAN :
         /\ ok => registered
         /\ manualOrders' = [manualOrders EXCEPT ![t] = @ + (IF registered THEN 1 ELSE 0)]
         /\ ghosts' = [ghosts EXCEPT ![t] = @ + (IF registered /\ ~ok THEN 1 ELSE 0)]
         /\ Go(r, IF ok THEN "ack" ELSE "nak")
  /\ UNCHANGED <<ruleVars, trig, ledgerVars, autoOrders, apiUnchanged>>

SubmitRecord(r) ==
  /\ req[r].pc \in {"ack", "nak"}
  /\ manual' = [manual EXCEPT ![req[r].t] = IF req[r].pc = "ack" THEN "submitted" ELSE "failed"]
  /\ Go(r, "idle")
  /\ UNCHANGED <<ruleVars, trig, auto, rows, counted, clobVars, apiUnchanged>>

-----------------------------------------------------------------------------
(* Confirm, dismiss, and the controls of the rule.                          *)

\* The trigger must await the user when it is read; the intent id is optional.
ConfirmRead(r) ==
  /\ req[r].pc = "idle"
  /\ \E t \in 1..fired, linked \in BOOLEAN :
       /\ trig[t].status = "awaiting_user"
       /\ linked => rows[t] > 0
       /\ req' = [req EXCEPT ![r] = [pc |-> IF linked THEN "intent" ELSE "confirm",
                                     t |-> t, row |-> rows[t], scoped |-> FALSE]]
  /\ UNCHANGED <<ruleVars, trig, ledgerVars, clobVars, apiUnchanged>>

\* A failed intent (released or not) must never consume the trigger.
ConfirmReadIntent(r) ==
  /\ req[r].pc = "intent"
  /\ LET t == req[r].t IN
       Go(r, IF req[r].row = rows[t] /\ manual[t] \in {"pending", "submitted"}
               THEN "confirm" ELSE "idle")
  /\ UNCHANGED <<ruleVars, trig, ledgerVars, clobVars, apiUnchanged>>

ConfirmWrite(r) ==
  /\ req[r].pc = "confirm"
  /\ SetTrigger(req[r].t, "confirmed")
  /\ Go(r, "close")
  /\ UNCHANGED <<ruleVars, ledgerVars, clobVars, apiUnchanged>>

\* Bug: the close is not a compare-and-set.
ConfirmCloseForced(r) ==
  /\ req[r].pc = "close"
  /\ rule' = "EXECUTED_MANUALLY" /\ stuck' = FALSE
  /\ Go(r, "idle")
  /\ UNCHANGED <<trig, ledgerVars, clobVars, apiUnchanged>>

\* ruleStore.markExecuted.
ConfirmClose(r) ==
  /\ req[r].pc = "close"
  /\ RuleCas("TRIGGERED_AWAITING_USER", "EXECUTED_MANUALLY")
  /\ Go(r, "idle")
  /\ UNCHANGED <<trig, ledgerVars, clobVars, apiUnchanged>>

DismissRead(r) ==
  /\ req[r].pc = "idle"
  /\ \E t \in 1..fired :
       /\ trig[t].status = "awaiting_user"
       /\ req' = [req EXCEPT ![r] = [pc |-> "dismiss", t |-> t, row |-> 0, scoped |-> FALSE]]
  /\ UNCHANGED <<ruleVars, trig, ledgerVars, clobVars, apiUnchanged>>

\* Dismissing touches the trigger only, never the rule.
DismissWrite(r) ==
  /\ req[r].pc = "dismiss"
  /\ SetTrigger(req[r].t, "dismissed")
  /\ Go(r, "idle")
  /\ UNCHANGED <<ruleVars, ledgerVars, clobVars, apiUnchanged>>

Pause  == rule = "ACTIVE" /\ RuleCas("ACTIVE", "PAUSED")
Resume == rule = "PAUSED" /\ RuleCas("PAUSED", "ACTIVE")
Cancel == \E s \in {"ACTIVE", "PAUSED"} : rule = s /\ RuleCas(s, "CANCELLED")

Control ==
  /\ Pause \/ Resume \/ Cancel
  /\ UNCHANGED <<trig, ledgerVars, clobVars, req, apiUnchanged>>

RequestStep(r) ==
  \/ SubmitLookup(r) \/ SubmitRelease(r) \/ SubmitRecheck(r) \/ SubmitCreate(r)
  \/ SubmitOrder(r) \/ SubmitRecord(r) \/ ConfirmRead(r) \/ ConfirmReadIntent(r)
  \/ ConfirmWrite(r) \/ ConfirmClose(r) \/ DismissRead(r) \/ DismissWrite(r)

-----------------------------------------------------------------------------
(* Time and failure.                                                        *)

\* autoRetryUntil passes.
RetryLapses ==
  /\ \E t \in Triggers : trig[t].retry = "open" /\ trig' = [trig EXCEPT ![t].retry = "lapsed"]
  /\ UNCHANGED <<ruleVars, fired, ledgerVars, clobVars, attemptVars, sweep, rec, req, faults>>

\* stuckAfterMs passes.  Five minutes are far above the sum of an attempt's
\* timeouts: a claim that old has lost its attempt.
ClaimAges ==
  /\ rule = "EXECUTING" /\ ~stuck
  /\ Once => \A p \in Attempts : pc[p] \notin ClaimedPc
  /\ stuck' = TRUE
  /\ UNCHANGED <<rule, fired, trig, ledgerVars, clobVars, attemptVars, sweep, rec, req, faults>>

\* An awaited statement throws and the attempt is over: the chain's retry of
\* its persist finds the commit done, the sweeper goes on with its next trigger,
\* or ends its pass when the throw came while it abandoned the lapsed ones.
AttemptThrows(p) ==
  /\ pc[p] # "idle" /\ faults < MaxFaults
  /\ faults' = faults + 1 /\ Move(p, "idle")
  /\ sweep' = IF p = Sweeper /\ sweep.phase = "lapsed"
                THEN [phase |-> "idle", todo |-> {}] ELSE sweep
  /\ UNCHANGED <<ruleVars, fired, trig, ledgerVars, clobVars, at, rec, req>>

RecoveryThrows ==
  /\ rec.pc # "idle" /\ faults < MaxFaults
  /\ faults' = faults + 1 /\ rec' = IdleRecovery
  /\ UNCHANGED <<ruleVars, fired, trig, ledgerVars, clobVars, attemptVars, sweep, req>>

\* The worker process dies between two statements and starts again.
WorkerCrash ==
  /\ faults < MaxFaults /\ faults' = faults + 1
  /\ pc' = [p \in Attempts |-> "idle"]
  /\ sweep' = [phase |-> "idle", todo |-> {}]
  /\ rec' = IdleRecovery
  /\ UNCHANGED <<ruleVars, fired, trig, ledgerVars, clobVars, at, req>>

\* The API process dies with a request open.
RequestDies(r) ==
  /\ req[r].pc # "idle" /\ faults < MaxFaults
  /\ faults' = faults + 1 /\ Go(r, "idle")
  /\ UNCHANGED <<ruleVars, fired, trig, ledgerVars, clobVars, attemptVars, sweep, rec>>

-----------------------------------------------------------------------------
WorkerStep == (\E p \in Attempts : ExecuteStep(p)) \/ SweeperStep \/ RecoveryStep

Next ==
  \/ \E c \in Chains : EvaluatorStep(c)
  \/ WorkerStep
  \/ \E r \in Requests : RequestStep(r)
  \/ Control
  \/ RetryLapses \/ ClaimAges
  \/ (\E p \in Attempts : AttemptThrows(p)) \/ RecoveryThrows \/ WorkerCrash
  \/ \E r \in Requests : RequestDies(r)

Spec == Init /\ [][Next]_vars

\* The worker's timers keep firing and its awaits return; deadlines pass.  The
\* evaluator, the users and the faults are under no obligation.
Fairness ==
  /\ \A p \in Attempts : WF_vars(ExecuteStep(p))
  /\ WF_vars(SweeperStep) /\ WF_vars(RecoveryStep)
  /\ WF_vars(RetryLapses) /\ WF_vars(ClaimAges)

FairSpec == Spec /\ Fairness

-----------------------------------------------------------------------------
RuleTyped == rule \in RuleStatus /\ stuck \in BOOLEAN /\ fired \in 0..MaxTriggers
TriggersTyped == trig \in [Triggers -> TriggerRow]
LedgerTyped ==
  /\ auto \in [Triggers -> IntentStatus] /\ manual \in [Triggers -> IntentStatus]
  /\ rows \in [Triggers -> Nat] /\ counted \in [Triggers -> Nat]
ClobTyped ==
  /\ autoOrders \in [Triggers -> Nat] /\ manualOrders \in [Triggers -> Nat]
  /\ ghosts \in [Triggers -> Nat]
AttemptsTyped == pc \in [Attempts -> AttemptPc] /\ at \in [Attempts -> Triggers]
SweepTyped == sweep \in [phase : {"idle", "lapsed", "retry"}, todo : SUBSET Triggers]
RecoveryTyped ==
  rec \in [pc : RecoveryPc, seen : {"none", "awaiting_user", "confirmed", "dismissed"}]
RequestsTyped ==
  req \in [Requests -> [pc : RequestPc, t : Triggers, row : Nat, scoped : BOOLEAN]]
FaultsTyped == faults \in 0..MaxFaults

TypeOK ==
  /\ RuleTyped /\ TriggersTyped /\ LedgerTyped /\ ClobTyped /\ AttemptsTyped
  /\ SweepTyped /\ RecoveryTyped /\ RequestsTyped /\ FaultsTyped

\* Safety.  Never two automatic orders at the CLOB for one trigger, whatever
\* crashes, retries and lost answers do: the deterministic idempotency key.
AutoOrderAtMostOnce == \A t \in Triggers : autoOrders[t] <= 1

\* A trigger's manual path double-submits only after a submit that reported an
\* error although the order was registered: replay, release and the unique key.
ManualOrderAtMostOnce == \A t \in Triggers : manualOrders[t] <= 1 + ghosts[t]

\* "The user always wins: any trigger status movement clears the schedule", and
\* no later skip brings the schedule back.
RetryOnlyWhileAwaiting ==
  \A t \in Triggers : trig[t].retry # "none" => trig[t].status = "awaiting_user"

\* A trigger shown as executed automatically has its order acknowledged in the
\* ledger and its notional counted against the lifetime cap.
ExecutedIsCounted ==
  \A t \in Triggers : trig[t].executed => counted[t] >= 1 /\ auto[t] = "submitted"

\* A once-rule's verdict agrees with its ledger and its trigger: EXECUTION_FAILED
\* over a failed intent only, EXECUTED_AUTO over an acknowledged one, or, when
\* recovery gave it, over one that is pending and whose trigger no attempt ever
\* marked executed.
VerdictMatchesLedger ==
  /\ rule = "EXECUTED_AUTO" => \/ auto[fired] = "submitted"
                               \/ auto[fired] = "pending" /\ ~trig[fired].executed
  /\ rule = "EXECUTION_FAILED" => auto[fired] = "failed"

\* What the header of executing-recovery.ts says of an intent that was created and
\* never acknowledged: it fails closed, so EXECUTED_AUTO stands over an
\* acknowledged order only.
CreatedFailsClosed == rule = "EXECUTED_AUTO" => auto[fired] = "submitted"

LiveAutoIntents == {t \in Triggers : auto[t] \in {"pending", "submitted"}}

\* An attempt that has passed the daily cap and has not created its intent yet.
PastCap(p) == pc[p] \in {"lifetime", "funding", "lookup", "claim", "create"}
PastCapAttempts == {p \in Attempts : PastCap(p)}

\* Attempts that read the daily cap before any of them has its intent overshoot it,
\* by one order for each write chain beside the sweeper and never by more, counting
\* the orders that are still to be created.
DailyOvershootBounded ==
  Cardinality(LiveAutoIntents) + Cardinality(PastCapAttempts) <= MaxDaily + Cardinality(Chains)

\* No step moves a rule out of a final status.
FinalStatusIsFinal == [][(rule \in FinalStatus) => (rule' = rule)]_vars

\* An automatic order of a once-rule reaches the CLOB under the EXECUTING claim
\* only, so never once the user has closed the rule.
OnceOrdersUnderClaim ==
  [][Once /\ autoOrders' # autoOrders => rule = "EXECUTING" /\ rule' = rule]_vars

\* Liveness.  No rule stays stranded in EXECUTING.
ExecutingResolves == rule = "EXECUTING" ~> rule # "EXECUTING"

\* No scheduled retry stays on a trigger for ever: it executes, the user acts, or
\* the sweeper abandons it when its window closes.
RetryResolves == \A t \in Triggers : trig[t].retry # "none" ~> trig[t].retry = "none"

=============================================================================
