----------------------------- MODULE StrategyRun -----------------------------
(* One strategy driven by every sequence of events, and what its hold       *)
(* window, cooldown and watermark then guarantee.                           *)
EXTENDS StrategyMachine

CONSTANTS Views,   \* the views the host may hold
          Horizon  \* bound: the last instant at which an event arrives

ASSUME RunAssumption == Views \subseteq View /\ Horizon \in Nat

VARIABLES
  rt,      \* the runtime
  firedAt  \* history: the last trigger, None before the first

vars == <<rt, firedAt>>

Init == rt = InitialRuntime /\ firedAt = None

\* Events carry the host's clock, which never goes back.
Step(e) ==
  LET result == Transition(rt, e) IN
  /\ e.now >= rt.last
  /\ rt' = result.rt
  /\ firedAt' = IF result.fired THEN e.now ELSE firedAt

Next == \E t \in 0..Horizon : \E e \in Events(t, Views) : Step(e)

Spec == Init /\ [][Next]_vars

-----------------------------------------------------------------------------
\* A window is open exactly while the strategy accumulates, within its bounds.
TypeOK ==
  /\ rt \in Runtime /\ firedAt \in Time
  /\ rt.status = "ACTIVE_ACCUMULATING" => 0 <= rt.since /\ rt.since <= rt.last
  /\ rt.status \in {"ACTIVE_WAITING", "PAUSED"} => rt.since = None

\* Two triggers are apart by the cooldown and a whole new window.
TriggersApart ==
  [][rt'.count # rt.count /\ firedAt # None
       => firedAt' >= firedAt + Cooldown + Hold]_vars

\* "High-water mark": nothing but a trigger lowers or forgets a watermark.
WatermarkRatchets ==
  [][rt'.count = rt.count /\ rt.wm # None => rt'.wm # None /\ rt'.wm >= rt.wm]_vars

-----------------------------------------------------------------------------
(* The hold window implements its abstract specification.                   *)

Accumulating == rt.status = "ACTIVE_ACCUMULATING"

Phase == IF rt.status \in Terminal THEN "done"
         ELSE IF ~Accumulating THEN "idle"
         ELSE IF rt.stale = None THEN "running" ELSE "dark"
Credit == IF Accumulating THEN (IF rt.stale = None THEN rt.last ELSE rt.stale) - rt.since ELSE 0
Clock == IF rt.last = None THEN 0 ELSE rt.last
DarkSince == IF rt.stale = None THEN 0 ELSE rt.stale
QuietUntil == IF firedAt = None THEN 0 ELSE firedAt + Cooldown

Window == INSTANCE HoldWindow WITH
  phase <- Phase, credit <- Credit, clock <- Clock, dark <- DarkSince, quiet <- QuietUntil,
  fires <- rt.count

HoldWindowSpec == Window!Spec

=============================================================================
