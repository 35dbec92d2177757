---------------------------- MODULE RuleEvaluator ----------------------------
(****************************************************************************)
(* The rule evaluator for one strategy: the row in conditional_rules, the   *)
(* in-memory rule the worker evaluates instead of it, and the write chain   *)
(* that brings the row up to date.                                          *)
(*                                                                          *)
(* The worker drops and re-adds the in-memory rule as the row's status      *)
(* changes.  A dropped rule no longer sees events, but its write chain runs *)
(* to its end beside the chain of its successor: each has a slot.           *)
(* Subscriptions, audits and notifications' payloads are left out; the      *)
(* strategies evaluated have no trailing stop.                              *)
(****************************************************************************)
EXTENDS StrategyMachine, Sequences, FiniteSets

CONSTANTS
  MaxAge,     \* maxDataAgeMs
  Actions,    \* the actions a strategy may have
  WindowLen,  \* length of a series' windows
  Views,      \* the views the host may hold
  Kinds,      \* event types that reach the rule beside its ticks
  Slots,      \* bound: in-memory rules with something left to do
  MaxQueue,   \* bound: writes waiting in one chain
  Horizon, Faults, Crashes, Stops  \* bounds: instants, statements that throw,
                                   \* worker crashes, user's pauses or cancel

\* The order may execute automatically, and may target the live window of a series.
Action == [auto : BOOLEAN, rolling : BOOLEAN]

ASSUME EvaluatorAssumption ==
  /\ MaxAge \in Nat /\ Actions \subseteq Action /\ WindowLen \in Nat \ {0}
  /\ Views \subseteq View
  /\ Kinds \subseteq {"book", "reconnect", "tick_size_change", "market_paused", "market_closed"}
  /\ Slots \in Nat \ {0} /\ MaxQueue \in Nat \ {0}
  /\ Horizon \in Nat /\ Faults \in Nat /\ Crashes \in Nat /\ Stops \in Nat

VARIABLES
  action,   \* the strategy's action
  now,
  row,      \* the conditional_rules row
  ledger,   \* rule_triggers rows, by trigger number
  slot,     \* in-memory rules: runtime, last series window, write chain
  live,     \* the slot registered in the map of rules, 0 if none
  reload,   \* the reload under way: "idle", or whether and how it read the row
  up,       \* the worker runs
  left,     \* faults, crashes and the user's acts that may still happen
  apart     \* history: memory and row are written by two, or from an old list

vars == <<action, now, row, ledger, slot, live, reload, up, left, apart>>

SkipRearm == 1   \* SERIES_SKIP_REARM_MS
Windows == {None} \cup 0..Horizon
Job == [out   : [rt : Runtime, fired : BOOLEAN, noted : BOOLEAN],
        at    : 0..Horizon,
        pc    : {"start", "claim", "skip", "write", "execute", "audit"},
        win   : Windows,      \* the window the trigger enters
        refund : BOOLEAN,     \* the window was skipped
        retry : BOOLEAN]
Row == [status : Status, since : Time, stale : Time, count : 0..MaxRepeats, cool : Time,
        evalAt : Time, lastWin : Windows]
NewRow == [status |-> "ACTIVE_WAITING", since |-> None, stale |-> None, count |-> 0,
           cool |-> None, evalAt |-> None, lastWin |-> None]
Idle == [pc |-> "idle", row |-> NewRow]
Blank == [rt |-> InitialRuntime, lastWin |-> None, chain |-> <<>>]

Init ==
  /\ action \in Actions /\ now = 0 /\ up = TRUE
  /\ row = NewRow
  /\ ledger = <<>>
  /\ slot = [i \in 1..Slots |-> Blank] /\ live = 0 /\ reload = Idle
  /\ left = [faults |-> Faults, crashes |-> Crashes, stops |-> Stops]
  /\ apart = FALSE

-----------------------------------------------------------------------------
(* The in-memory rule.                                                      *)

Free(i) == i # live /\ slot[i].chain = <<>>

\* Restart policy: a window is resumed if the row was written recently enough.
CanResume(r) ==
  /\ r.status = "ACTIVE_ACCUMULATING" /\ r.since # None /\ r.evalAt # None
  /\ now - r.evalAt <= MaxAge + Grace

Restored(r) ==
  [status |-> IF CanResume(r) THEN "ACTIVE_ACCUMULATING" ELSE "ACTIVE_WAITING",
   since |-> IF CanResume(r) THEN r.since ELSE None,
   stale |-> IF CanResume(r) THEN r.stale ELSE None,
   last |-> None, count |-> r.count, cool |-> r.cool, wm |-> None]

\* The reload reads the row, and then adds or removes the in-memory rule.
ReloadRead ==
  /\ up /\ reload = Idle
  /\ reload' = IF row.status \in Evaluable THEN [pc |-> "listed", row |-> row]
                                             ELSE [pc |-> "gone", row |-> NewRow]
  /\ UNCHANGED <<action, now, row, ledger, slot, live, up, left, apart>>

Remove(s) == [i \in 1..Slots |-> IF s[i].chain = <<>> THEN Blank ELSE s[i]]

\* What a dropped rule leaves in its chain is written beside its successor's; and a
\* rule may be added from a list that was read before its row's last trigger.
NoteApart ==
  apart' = \/ apart
           \/ \E i \in 1..Slots : i # live' /\ slot'[i].chain # <<>>
           \/ live = 0 /\ live' # 0 /\ reload.row.count # row.count

ReloadApply ==
  /\ up /\ reload # Idle /\ reload' = Idle
  /\ \/ /\ reload.pc = "listed" /\ live = 0
        /\ \E i \in 1..Slots : /\ Free(i) /\ \A k \in 1..(i - 1) : ~Free(k)
                               /\ live' = i
                               /\ slot' = [slot EXCEPT ![i] = [rt |-> Restored(reload.row),
                                                               lastWin |-> reload.row.lastWin,
                                                               chain |-> <<>>]]
     \/ reload.pc = "listed" /\ live # 0 /\ UNCHANGED <<live, slot>>
     \/ reload.pc = "gone" /\ live' = 0 /\ slot' = Remove(slot)
  /\ NoteApart /\ UNCHANGED <<action, now, row, ledger, up, left>>

\* applyEvent: the runtime changes at once, the row when the chain gets there.
Apply(e) ==
  LET result == Transition(slot[live].rt, e)
      old == slot[live].rt
      save == \/ result.fired \/ result.noted
              \/ result.rt.count # old.count \/ result.rt.cool # old.cool
              \/ result.rt.stale # old.stale
      job == [out |-> result, at |-> e.now, pc |-> "start", win |-> None,
              refund |-> FALSE, retry |-> FALSE]
  IN /\ save => Len(slot[live].chain) < MaxQueue
     /\ slot' = [slot EXCEPT ![live].rt = result.rt,
                             ![live].chain = IF save THEN Append(@, job) ELSE @]

\* The tick timer runs once in every instant.
Tick ==
  /\ now < Horizon /\ now' = now + 1
  /\ IF up /\ live # 0
       THEN \E v \in Views : Apply([type |-> "tick", now |-> now', view |-> v])
       ELSE UNCHANGED slot
  /\ UNCHANGED <<action, row, ledger, live, reload, up, left, apart>>

Event ==
  /\ up /\ live # 0
  /\ \E e \in Events(now, Views) : e.type \in Kinds /\ Apply(e)
  /\ UNCHANGED <<action, now, row, ledger, live, reload, up, left, apart>>

-----------------------------------------------------------------------------
(* The write chain of slot i works on its first job.                        *)

Head1(i) == slot[i].chain[1]
Ready(i, pcs) == up /\ slot[i].chain # <<>> /\ Head1(i).pc \in pcs
Advance(i, job) == [slot EXCEPT ![i].chain[1] = job]
Done(i) ==
  LET rest == Tail(slot[i].chain) IN
  IF i # live /\ rest = <<>> THEN [slot EXCEPT ![i] = Blank]
                             ELSE [slot EXCEPT ![i].chain = rest]

\* removeRule is called with the rule's id: it drops the registered rule, be it
\* this one or its successor.
Drop(i) == live' = 0 /\ slot' = Remove(Done(i))

\* Bug: the rule stays registered.
GiveUpKeeps(i) == slot' = Done(i) /\ UNCHANGED live

GiveUp(i) == Drop(i)

\* One retry from the start, then the in-memory rule is dropped.
Throw(i) ==
  /\ left.faults > 0 /\ left' = [left EXCEPT !.faults = @ - 1]
  /\ IF Head1(i).retry THEN GiveUp(i)
     ELSE /\ slot' = Advance(i, [Head1(i) EXCEPT !.pc = "start", !.win = None,
                                                 !.refund = FALSE, !.retry = TRUE])
          /\ UNCHANGED live

Quietly == UNCHANGED <<live, left>>

\* The window of the series that is live now, if it can be resolved and passes
\* the guards.
Resolve(i) ==
  LET job == Head1(i) win == now \div WindowLen IN
  /\ Ready(i, {"start"}) /\ action.rolling /\ job.out.fired
  /\ \/ win # slot[i].lastWin /\ slot' = Advance(i, [job EXCEPT !.pc = "claim", !.win = win])
     \/ slot' = Advance(i, [job EXCEPT !.pc = "skip"])
  /\ Quietly /\ UNCHANGED <<action, now, row, ledger, reload, up>>

\* Bug: the claim is not recorded.
ClaimedUnmarked(win) == row

Claimed(win) == [row EXCEPT !.lastWin = win]

\* claimSeriesWindow: a compare-and-set on the row's window marker.
Claim(i) ==
  LET job == Head1(i) IN
  /\ Ready(i, {"claim"})
  /\ \/ /\ row.lastWin # job.win /\ row' = Claimed(job.win)
        /\ slot' = [Advance(i, [job EXCEPT !.pc = "write"]) EXCEPT ![i].lastWin = job.win]
        /\ Quietly
     \/ /\ row.lastWin = job.win /\ UNCHANGED row
        /\ slot' = Advance(i, [job EXCEPT !.pc = "skip"])
        /\ Quietly
     \/ /\ row' = (IF row.lastWin # job.win THEN Claimed(job.win) ELSE row) /\ Throw(i)
     \/ UNCHANGED row /\ Throw(i)
  /\ UNCHANGED <<action, now, ledger, reload, up>>

\* Bug: the refund leaves the hold window standing.
RefundedHot(job) ==
  [job.out.rt EXCEPT !.status = "ACTIVE_WAITING", !.since = job.at,
                     !.count = @ - 1, !.cool = job.at + SkipRearm]

\* revertRepeatForSkip
Refunded(job) ==
  [job.out.rt EXCEPT !.status = "ACTIVE_WAITING", !.since = None,
                     !.count = @ - 1, !.cool = job.at + SkipRearm]

Skip(i) ==
  /\ Ready(i, {"skip"})
  /\ \/ /\ slot' = [Advance(i, [Head1(i) EXCEPT !.pc = "write", !.refund = TRUE])
                      EXCEPT ![i].rt = Refunded(Head1(i))]
        /\ Quietly
     \/ Throw(i)
  /\ UNCHANGED <<action, now, row, ledger, reload, up>>

Saved(r, at) ==
  [row EXCEPT !.status = r.status, !.since = r.since, !.stale = r.stale, !.count = r.count,
              !.cool = r.cool, !.evalAt = at]

\* The state without a trigger; a lost compare-and-set drops the rule.
SaveState(i) ==
  LET job == Head1(i)
      rt == IF job.refund THEN Refunded(job) ELSE job.out.rt
      saved == IF row.status \in Evaluable THEN Saved(rt, job.at) ELSE row
  IN /\ Ready(i, {"start", "write"})
     /\ job.refund \/ ~job.out.fired
     /\ \/ /\ row' = saved /\ UNCHANGED left
           /\ IF row.status \in Evaluable
                THEN slot' = Advance(i, [job EXCEPT !.pc = "audit"]) /\ UNCHANGED live
                ELSE Drop(i)
        \/ row' \in {row, saved} /\ Throw(i)
     /\ UNCHANGED <<action, now, ledger, reload, up>>

\* Bug: the trigger is inserted without the state.
CommittedAlone(job) == row

Committed(job) == Saved(job.out.rt, job.at)

\* Bug: a duplicate is executed again.
ExecutesAgain(number) == action.auto

Executes(number) == action.auto /\ number \notin DOMAIN ledger

\* commitTriggerAtomically: state, trigger and notification, all or nothing.  A
\* number that has a row is a duplicate: only the state is written.
Commit(i) ==
  LET job == Head1(i)
      number == job.out.rt.count
      entered == [k \in DOMAIN ledger \cup {number} |->
                    IF k \in DOMAIN ledger THEN ledger[k]
                    ELSE [win |-> job.win, tries |-> 0]]
      cas == row.status \in Evaluable
      done == row' = Committed(job) /\ ledger' = entered
  IN /\ Ready(i, IF action.rolling THEN {"write"} ELSE {"start"}) /\ job.out.fired /\ ~job.refund
     /\ \/ /\ cas /\ done
           /\ slot' = Advance(i, [job EXCEPT !.pc = IF Executes(number) THEN "execute"
                                                      ELSE "audit"])
           /\ Quietly
        \/ ~cas /\ Drop(i) /\ UNCHANGED <<row, ledger, left>>
        \/ cas /\ done /\ Throw(i)
        \/ Throw(i) /\ UNCHANGED <<row, ledger>>
     /\ UNCHANGED <<action, now, reload, up>>

\* The automatic attempt at the new trigger (module Execution); it may throw.
Execute(i) ==
  /\ Ready(i, {"execute"})
  /\ ledger' = [ledger EXCEPT ![Head1(i).out.rt.count].tries = @ + 1]
  /\ \/ slot' = Advance(i, [Head1(i) EXCEPT !.pc = "audit"]) /\ Quietly
     \/ Throw(i)
  /\ UNCHANGED <<action, now, row, reload, up>>

\* The end of persist: the audit, and the end of a strategy that is over.
Finish(i) ==
  LET job == Head1(i) IN
  /\ Ready(i, {"audit"})
  /\ \/ /\ UNCHANGED left
        /\ IF ~job.refund /\ job.out.rt.status \in Terminal THEN Drop(i)
           ELSE slot' = Done(i) /\ UNCHANGED live
     \/ /\ ~job.refund /\ job.out.noted /\ job.out.rt.status # "TRIGGERED_AWAITING_USER"
        /\ Throw(i)
  /\ UNCHANGED <<action, now, row, ledger, reload, up>>

Work(i) ==
  /\ \/ Resolve(i) \/ Claim(i) \/ Skip(i) \/ SaveState(i) \/ Commit(i) \/ Execute(i)
     \/ Finish(i)
  /\ NoteApart

-----------------------------------------------------------------------------
(* The user and the process.                                                *)

Pause ==
  /\ row.status \in Evaluable /\ left.stops > 0 /\ left' = [left EXCEPT !.stops = @ - 1]
  /\ row' = [row EXCEPT !.status = "PAUSED", !.since = None, !.stale = None]
  /\ UNCHANGED <<action, now, ledger, slot, live, reload, up, apart>>

Resume ==
  /\ row.status = "PAUSED"
  /\ row' = [row EXCEPT !.status = "ACTIVE_WAITING", !.since = None, !.stale = None]
  /\ UNCHANGED <<action, now, ledger, slot, live, reload, up, left, apart>>

Cancel ==
  /\ row.status \in Evaluable \cup {"PAUSED"}
  /\ left.stops > 0 /\ left' = [left EXCEPT !.stops = @ - 1]
  /\ row' = [row EXCEPT !.status = "CANCELLED"]
  /\ UNCHANGED <<action, now, ledger, slot, live, reload, up, apart>>

Crash ==
  /\ up /\ left.crashes > 0 /\ left' = [left EXCEPT !.crashes = @ - 1]
  /\ up' = FALSE /\ live' = 0 /\ reload' = Idle /\ slot' = [i \in 1..Slots |-> Blank]
  /\ UNCHANGED <<action, now, row, ledger, apart>>

Start ==
  /\ ~up /\ up' = TRUE
  /\ UNCHANGED <<action, now, row, ledger, slot, live, reload, left, apart>>

Next ==
  \/ ReloadRead \/ ReloadApply \/ Tick \/ Event
  \/ \E i \in 1..Slots : Work(i)
  \/ Pause \/ Resume \/ Cancel \/ Crash \/ Start

Spec == Init /\ [][Next]_vars

\* Timers and the event loop run while the process does; it is restarted.
Fairness == /\ WF_vars(ReloadRead) /\ WF_vars(ReloadApply) /\ WF_vars(Start)
            /\ \A i \in 1..Slots : WF_vars(Work(i))

LiveSpec == Spec /\ Fairness

-----------------------------------------------------------------------------
(* Properties.                                                              *)

\* The types; and a row that is waiting, or was skipped, holds no open window.
TypeOK ==
  /\ now \in 0..Horizon /\ row \in Row /\ live \in 0..Slots /\ up \in BOOLEAN
  /\ apart \in BOOLEAN
  /\ \A i \in 1..Slots : /\ slot[i].rt \in Runtime /\ slot[i].lastWin \in Windows
                         /\ slot[i].chain \in Seq(Job) /\ Len(slot[i].chain) <= MaxQueue
  /\ reload \in [pc : {"idle", "listed", "gone"}, row : Row]
  /\ row.status = "ACTIVE_WAITING" => row.since = None

Watched == live # 0 /\ slot[live].rt.status \in Evaluable

\* No zombie: whatever statement throws, a strategy whose row is armed is, again
\* and again, registered in memory in a status that is evaluated (applyEvent's
\* retry and resync).
ArmedIsEvaluated == []<>(row.status \in Evaluable => Watched)

\* The row's trigger_count and the trigger rows are written together and do not
\* drift apart, across retries, lost acknowledgements, pauses and restarts, as long
\* as no dropped rule has left writes behind and none was added from a list older
\* than the row's last trigger (both happen: a trigger is never inserted, or counted
\* back).  A rolling strategy's refund is set against a trigger that is never
\* inserted.
RowCountsTriggers ==
  ~action.rolling /\ ~apart => row.count = Cardinality(DOMAIN ledger)

\* A trigger's automatic attempt starts once, also when the write chain retries
\* after a commit whose acknowledgement was lost or an attempt that threw.
AttemptedOnce == \A n \in DOMAIN ledger : ledger[n].tries <= 1

\* No two triggers of a rolling strategy enter the same window of the series
\* (claimSeriesWindow), as long as no dropped rule has left writes behind: the claim
\* compares with the last window only, so a late claim of an older window by such a
\* chain opens the newer one again.
SeriesWindowOnce ==
  action.rolling /\ ~apart =>
    \A a, b \in DOMAIN ledger : a # b => ledger[a].win # ledger[b].win

=============================================================================
