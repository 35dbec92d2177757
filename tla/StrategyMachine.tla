--------------------------- MODULE StrategyMachine ---------------------------
(****************************************************************************)
(* The v2 strategy state machine: what one event does to the runtime of one *)
(* strategy.  A pure function, as in the code; StrategyRun drives it alone. *)
(*                                                                          *)
(* The strategy's expression is a conjunction of a leaf that is true, false *)
(* or unusable ("stale": its view is missing or too old) and, if Trailing,  *)
(* of a trailing stop on a reference price.  Evidence, reason codes and the *)
(* audit texts are left out, but not whether there is anything to audit.    *)
(****************************************************************************)
EXTENDS Integers

CONSTANTS
  Hold,       \* holdsForMs
  Grace,      \* staleGraceMs, 0 for the strict reset of v1 rules
  Cooldown,   \* recurrence.cooldownMs
  MaxRepeats, \* recurrence.maxRepeats, 1 for recurrence "once"
  ExpiresAt,  \* expiresAtMs
  Orders,     \* the action is an order (FALSE: an alert or a stop)
  Trailing,   \* the expression has a trailing stop
  Prices,     \* reference prices
  Offset      \* distance of the stop below the peak

ASSUME StrategyAssumption ==
  /\ Hold \in Nat /\ Grace \in Nat /\ Cooldown \in Nat /\ ExpiresAt \in Nat
  /\ MaxRepeats \in Nat \ {0}
  /\ Orders \in BOOLEAN /\ Trailing \in BOOLEAN
  /\ Prices \subseteq Nat /\ Offset \in Nat \ {0}

None == -1   \* null
Time == Nat \cup {None}

Evaluable == {"ACTIVE_WAITING", "ACTIVE_ACCUMULATING"}
Terminal  == {"TRIGGERED_AWAITING_USER", "COMPLETED", "CANCELLED", "EXPIRED", "INVALIDATED"}
Status    == Evaluable \cup Terminal \cup {"PAUSED"}

Runtime == [status : Status,
            since  : Time,                   \* trueSinceMs
            stale  : Time,                   \* staleSinceMs
            last   : Time,                   \* lastEventTimeMs
            count  : 0..MaxRepeats,          \* triggerCount
            cool   : Time,                   \* cooldownUntilMs
            wm     : Prices \cup {None}]     \* the trailing node's watermark

InitialRuntime == [status |-> "ACTIVE_WAITING", since |-> None, stale |-> None,
                   last |-> None, count |-> 0, cool |-> None, wm |-> None]

\* What the host's views say of the strategy's markets at one instant.
View == [market : {"open", "paused", "closed", "resolved"},
         leaf   : {"yes", "no", "stale"},
         ref    : Prices \cup {None}]        \* None: stale, or an empty book side

\* The host has no view at all.
NoView == [market |-> "open", leaf |-> "none", ref |-> None]

-----------------------------------------------------------------------------
(* Evaluation of the expression.                                            *)

\* Bug: the watermark follows the price down.
WatermarkFollows(wm, view) == IF ~Trailing \/ view.ref = None THEN wm ELSE view.ref

\* Update-then-check: a usable reference ratchets the peak, a stale one freezes
\* it.
Watermark(wm, view) ==
  IF ~Trailing \/ view.ref = None THEN wm
  ELSE IF wm = None \/ view.ref > wm THEN view.ref ELSE wm

\* The observation that arms the node never satisfies it.
TrailingHit(wm, view) ==
  /\ wm # None /\ view.ref # None
  /\ view.ref + Offset <= Watermark(wm, view)

AnyStale(view) == view.leaf = "stale" \/ (Trailing /\ view.ref = None)

\* Fail-closed: one stale leaf makes the whole expression unsatisfied.
Satisfied(wm, view) ==
  ~AnyStale(view) /\ view.leaf = "yes" /\ (Trailing => TrailingHit(wm, view))

-----------------------------------------------------------------------------
(* Results: the next runtime, whether a trigger fires, whether there is a   *)
(* transition to record.                                                    *)

Keep(prev) == [rt |-> prev, fired |-> FALSE, noted |-> FALSE]
To(prev, next, reason) ==
  [rt |-> next, fired |-> FALSE, noted |-> reason /\ prev.status # next.status]
Flag(next) == [rt |-> next, fired |-> FALSE, noted |-> TRUE]

Reset(prev, t, wm) ==
  To(prev, [prev EXCEPT !.status = "ACTIVE_WAITING", !.since = None, !.stale = None,
                        !.last = t, !.wm = wm], TRUE)

Ended(prev, status, t) ==
  To(prev, [prev EXCEPT !.status = status, !.since = None, !.stale = None, !.last = t], TRUE)

\* Bug: every stale observation moves the onset, so the grace never runs out.
ObserveStaleRenews(prev, t, wm) ==
  IF Grace = 0 THEN Reset(prev, t, wm)
  ELSE Flag([prev EXCEPT !.stale = t, !.last = t, !.wm = wm])

\* Stale data while accumulating pauses the window until the grace runs out.
ObserveStale(prev, t, wm) ==
  IF Grace = 0 \/ (prev.stale # None /\ t - prev.stale > Grace) THEN Reset(prev, t, wm)
  ELSE IF prev.stale = None THEN Flag([prev EXCEPT !.stale = t, !.last = t, !.wm = wm])
  ELSE To(prev, [prev EXCEPT !.last = t, !.wm = wm], FALSE)

\* Bug: the stale interval is not excised.
SinceUnshifted(base, t) ==
  IF base.since = None THEN t
  ELSE IF base.stale # None /\ t - base.stale > Grace THEN t ELSE base.since

\* Where the window starts for an observation at t that satisfies: a paused one
\* shifts by the stale interval, or starts over when the grace is exhausted.
Since(base, t) ==
  IF base.since = None THEN t
  ELSE IF base.stale = None THEN base.since
  ELSE IF t - base.stale > Grace THEN t ELSE base.since + (t - base.stale)

\* Bug: no cooldown.
RearmHot(base, t) ==
  [status |-> "ACTIVE_WAITING", since |-> None, stale |-> None, last |-> t,
   count |-> base.count + 1, cool |-> None, wm |-> None]

\* A repetition re-arms behind its cooldown and trails from scratch.
Rearm(base, t) ==
  [status |-> "ACTIVE_WAITING", since |-> None, stale |-> None, last |-> t,
   count |-> base.count + 1, cool |-> t + Cooldown, wm |-> None]

\* The window is complete; the final trigger leaves the evaluable statuses.
Fire(base, t, since, wm) ==
  [rt |-> IF base.count + 1 < MaxRepeats THEN Rearm(base, t)
          ELSE [status |-> IF Orders THEN "TRIGGERED_AWAITING_USER" ELSE "COMPLETED",
                since |-> since, stale |-> None, last |-> t, count |-> base.count + 1,
                cool |-> None, wm |-> wm],
   fired |-> TRUE, noted |-> TRUE]

\* A satisfied observation: it fires, or the window goes on.
Hit(prev, base, t, wm) ==
  LET since == Since(base, t)
      next  == [base EXCEPT !.status = "ACTIVE_ACCUMULATING", !.since = since, !.stale = None,
                          !.last = t, !.wm = wm]
  IN IF t - since >= Hold THEN Fire(base, t, since, wm)
     ELSE IF base.stale # None THEN Flag(next) ELSE To(prev, next, TRUE)

\* An unsatisfied one: it pauses or resets a window, and ratchets the watermark.
Miss(prev, cleared, view, t, wm) ==
  IF cleared.status # "ACTIVE_ACCUMULATING"
    THEN To(prev, [cleared EXCEPT !.since = None, !.stale = None, !.last = t, !.wm = wm], FALSE)
  ELSE IF AnyStale(view) THEN ObserveStale(cleared, t, wm) ELSE Reset(cleared, t, wm)

\* Expiry, then the markets' statuses, then the cooldown gate, then the data.
Observe(prev, view, t) ==
  IF t >= ExpiresAt THEN Ended(prev, "EXPIRED", t)
  ELSE IF view.market \in {"closed", "resolved"} THEN Ended(prev, "INVALIDATED", t)
  ELSE IF view.market = "paused"
    THEN IF prev.status = "ACTIVE_ACCUMULATING" THEN Reset(prev, t, prev.wm)
                                                ELSE To(prev, [prev EXCEPT !.last = t], FALSE)
  ELSE IF prev.cool # None /\ t < prev.cool
    THEN To(prev, [prev EXCEPT !.since = None, !.stale = None, !.last = t], FALSE)
  ELSE LET cleared == [prev EXCEPT !.cool = None]
           wm == Watermark(prev.wm, view)
       IN IF Satisfied(prev.wm, view) THEN Hit(prev, cleared, t, wm)
                                      ELSE Miss(prev, cleared, view, t, wm)

-----------------------------------------------------------------------------
(* The events.                                                              *)

Events(t, views) ==
  [type : {"cancel", "expire", "pause", "resume", "reconnect", "tick_size_change",
           "market_paused", "market_closed"}, now : {t}, view : {NoView}]
  \cup [type : {"book"}, now : {t}, view : views]
  \cup [type : {"tick"}, now : {t}, view : views \cup {NoView}]

\* Bug: the user's pause leaves the window standing.
PausedKeepsWindow(prev, t) ==
  IF prev.status = "PAUSED" THEN Keep(prev)
  ELSE To(prev, [prev EXCEPT !.status = "PAUSED", !.last = t], TRUE)

Paused(prev, t) ==
  IF prev.status = "PAUSED" THEN Keep(prev)
  ELSE To(prev, [prev EXCEPT !.status = "PAUSED", !.since = None, !.last = t], TRUE)

Resumed(prev, t) ==
  IF prev.status # "PAUSED" THEN Keep(prev)
  ELSE To(prev, [prev EXCEPT !.status = "ACTIVE_WAITING", !.since = None, !.last = t], TRUE)

\* A tick without views can only expire a strategy or darken its window.
Blind(prev, t) ==
  IF t >= ExpiresAt THEN Ended(prev, "EXPIRED", t)
  ELSE IF prev.status = "ACTIVE_ACCUMULATING" THEN ObserveStale(prev, t, prev.wm)
  ELSE Keep(prev)

\* What breaks a window, whatever the data.
Interrupted(prev, e) ==
  IF e.type = "reconnect" THEN ObserveStale(prev, e.now, prev.wm)
                          ELSE Reset(prev, e.now, prev.wm)

Transition(prev, e) ==
  CASE prev.status \in Terminal -> Keep(prev)
    [] prev.status \notin Terminal /\ e.type = "cancel" -> Ended(prev, "CANCELLED", e.now)
    [] prev.status \notin Terminal /\ e.type = "expire" -> Ended(prev, "EXPIRED", e.now)
    [] prev.status \notin Terminal /\ e.type = "market_closed" -> Ended(prev, "INVALIDATED", e.now)
    [] prev.status \notin Terminal /\ e.type = "pause" -> Paused(prev, e.now)
    [] prev.status \notin Terminal /\ e.type = "resume" -> Resumed(prev, e.now)
    [] prev.status = "ACTIVE_ACCUMULATING"
         /\ e.type \in {"reconnect", "tick_size_change", "market_paused"} -> Interrupted(prev, e)
    [] prev.status \in Evaluable /\ e.type \in {"book", "tick"} ->
         IF e.view = NoView THEN Blind(prev, e.now) ELSE Observe(prev, e.view, e.now)
    [] OTHER -> Keep(prev)

=============================================================================
