---------------------------- MODULE StrategyProofs ----------------------------
(****************************************************************************)
(* Proofs about one strategy under any sequence of events.  Every event has *)
(* one of a few outcomes (Outcomes); the invariant and the properties are   *)
(* then read off the outcomes, without the state machine's code.            *)
(****************************************************************************)
EXTENDS StrategyRun, TLAPS

ACC == "ACTIVE_ACCUMULATING"

\* What one runtime must satisfy, and how it relates to the last trigger.
Sane(r) ==
  /\ r \in Runtime
  /\ r.status = ACC => /\ r.since \in Nat /\ r.cool = None /\ r.since <= r.last
                       /\ r.stale # None => r.since <= r.stale
  /\ r.status \in {"ACTIVE_WAITING", "PAUSED"} => r.since = None
  /\ r.status \notin Terminal => r.count < MaxRepeats
  /\ r.stale <= r.last

Spaced(r, fired) ==
  /\ fired \in Time
  /\ fired = None <=> r.count = 0
  /\ fired <= r.last
  /\ r.status \notin Terminal /\ fired # None =>
       r.cool = fired + Cooldown \/ (r.cool = None /\ r.last >= fired + Cooldown)
  /\ r.status = ACC /\ fired # None => r.since >= fired + Cooldown
  /\ fired = None => r.cool = None

Inv == Sane(rt) /\ Spaced(rt, firedAt)

-----------------------------------------------------------------------------
(* The outcomes of an event at time t: from runtime r to runtime n.         *)

Ratchets(r, n) == r.wm # None => n.wm # None /\ n.wm >= r.wm
Quiet(r, t) == r.cool = None \/ t >= r.cool

Moved(r, n, t) == n.last = t /\ n.count = r.count /\ Ratchets(r, n)

Dropped(r, n, t) ==
  /\ Moved(r, n, t)
  /\ n.status \in Status \ {ACC} /\ n.since = None /\ n.stale \in {r.stale, None}
  /\ n.cool = r.cool \/ (n.cool = None /\ Quiet(r, t))

Darkened(r, n, t) ==
  /\ Moved(r, n, t)
  /\ Grace > 0 /\ r.status = ACC /\ n.status = ACC /\ n.since = r.since /\ n.cool = None
  /\ \/ r.stale = None /\ n.stale = t
     \/ r.stale # None /\ n.stale = r.stale /\ t - r.stale <= Grace

Continued(r, n, t) ==
  /\ Moved(r, n, t)
  /\ r.status \in Evaluable /\ Quiet(r, t)
  /\ n.status = ACC /\ n.since = Since(r, t) /\ n.stale = None /\ n.cool = None
  /\ t - n.since < Hold

Fired(r, n, t) ==
  /\ r.status \in Evaluable /\ Quiet(r, t) /\ t - Since(r, t) >= Hold
  /\ n.last = t /\ n.count = r.count + 1 /\ n.stale = None
  /\ IF n.count < MaxRepeats
       THEN n.status = "ACTIVE_WAITING" /\ n.since = None /\ n.cool = t + Cooldown
       ELSE n.status \in Terminal /\ n.cool = None

Goes(r, n, t, fired) ==
  /\ n \in Runtime
  /\ \/ ~fired /\ n = r
     \/ ~fired /\ r.status \notin Terminal /\ Dropped(r, n, t)
     \/ ~fired /\ r.status \notin Terminal /\ Darkened(r, n, t)
     \/ ~fired /\ r.status \notin Terminal /\ Continued(r, n, t)
     \/ fired /\ Fired(r, n, t)

Outcome(r, res, t) == Goes(r, res.rt, t, res.fired)

-----------------------------------------------------------------------------
\* The types of the constants.
LEMMA ConstantTypes ==
  /\ Hold \in Nat /\ Grace \in Nat /\ Cooldown \in Nat /\ ExpiresAt \in Nat
  /\ MaxRepeats \in Nat \ {0} /\ Prices \subseteq Nat /\ Offset \in Nat \ {0}
  /\ Views \subseteq View /\ Horizon \in Nat
  BY StrategyAssumption, RunAssumption

\* The watermark of an observation never falls.
LEMMA WatermarkRises ==
  ASSUME NEW r \in Runtime, NEW v, v.ref \in Prices \cup {None}
  PROVE  /\ Watermark(r.wm, v) \in Prices \cup {None}
         /\ r.wm # None => Watermark(r.wm, v) # None /\ Watermark(r.wm, v) >= r.wm
<1>1. r.wm \in Prices \cup {None}
  BY DEF Runtime
<1>2. \A p \in Prices : p \in Nat
  BY ConstantTypes
<1>. QED  BY <1>1, <1>2 DEF Watermark, None

\* A reset drops the window.
LEMMA ResetDrops ==
  ASSUME NEW r, Sane(r), NEW t \in Nat, NEW wm \in Prices \cup {None},
         r.wm # None => wm # None /\ wm >= r.wm
  PROVE  LET res == Reset(r, t, wm) IN
           res.rt \in Runtime /\ ~res.fired /\ Dropped(r, res.rt, t)
  BY ConstantTypes DEF Reset, To, Sane, Runtime, Status, Evaluable, Dropped, Moved, Ratchets, ACC, Time

\* A terminal status drops the window.
LEMMA EndedDrops ==
  ASSUME NEW r, Sane(r), NEW t \in Nat, NEW s \in Terminal
  PROVE  LET res == Ended(r, s, t) IN
           res.rt \in Runtime /\ ~res.fired /\ Dropped(r, res.rt, t)
<1>1. r \in Runtime /\ r.wm >= r.wm
  <2>1. r \in Runtime /\ r.wm \in Prices \cup {None}
    BY DEF Sane, Runtime
  <2>2. \A p \in Prices : p \in Nat
    BY ConstantTypes
  <2>. QED  BY <2>1, <2>2 DEF None
<1>2. s \in Status \ {ACC}
  BY DEF Status, Terminal, Evaluable, ACC
<1>3. Ended(r, s, t).rt \in Runtime /\ ~Ended(r, s, t).fired
  BY <1>1, <1>2 DEF Ended, To, Runtime, Time
<1>. QED
  BY <1>1, <1>2, <1>3 DEF Ended, To, Runtime, Dropped, Moved, Ratchets

\* Stale data, whatever brought it: the window pauses, or is gone.
LEMMA StaleDarkens ==
  ASSUME NEW r, Sane(r), r.status = ACC, NEW t \in Nat, NEW wm \in Prices \cup {None},
         r.wm # None => wm # None /\ wm >= r.wm
  PROVE  LET res == ObserveStale(r, t, wm) IN
           /\ res.rt \in Runtime /\ ~res.fired
           /\ Dropped(r, res.rt, t) \/ Darkened(r, res.rt, t)
<1>1. CASE Grace = 0 \/ (r.stale # None /\ t - r.stale > Grace)
  <2>1. ObserveStale(r, t, wm) = Reset(r, t, wm)
    BY <1>1 DEF ObserveStale
  <2>. QED  BY <2>1, ResetDrops
<1>2. CASE Grace > 0 /\ r.stale = None
  <2>1. ObserveStale(r, t, wm) = Flag([r EXCEPT !.stale = t, !.last = t, !.wm = wm])
    BY <1>2, ConstantTypes DEF ObserveStale
  <2>2. [r EXCEPT !.stale = t, !.last = t, !.wm = wm] \in Runtime
    BY DEF Sane, Runtime, Time
  <2>3. Darkened(r, [r EXCEPT !.stale = t, !.last = t, !.wm = wm], t)
    BY <1>2, <2>2 DEF Sane, Runtime, Darkened, Moved, Ratchets
  <2>. QED  BY <2>1, <2>2, <2>3 DEF Flag
<1>3. CASE Grace # 0 /\ r.stale # None /\ ~(t - r.stale > Grace)
  <2>1. ObserveStale(r, t, wm) = To(r, [r EXCEPT !.last = t, !.wm = wm], FALSE)
    BY <1>3 DEF ObserveStale
  <2>2. Grace > 0 /\ r.stale # None /\ r.stale \in Nat /\ t - r.stale <= Grace
    BY <1>3, ConstantTypes DEF Sane, Runtime, Time
  <2>3. [r EXCEPT !.last = t, !.wm = wm] \in Runtime
    BY DEF Sane, Runtime, Time
  <2>4. Darkened(r, [r EXCEPT !.last = t, !.wm = wm], t)
    BY <2>2, <2>3 DEF Sane, Runtime, Darkened, Moved, Ratchets
  <2>. QED  BY <2>1, <2>3, <2>4 DEF To
<1>. QED  BY <1>1, <1>2, <1>3, ConstantTypes

\* The window of a satisfied observation starts at an instant.
LEMMA SinceIsTime ==
  ASSUME NEW r, Sane(r), NEW t \in Nat, t >= r.last
  PROVE  Since(r, t) \in Nat
<1>1. r \in Runtime /\ r.since \in Time /\ r.stale \in Time /\ r.stale <= r.last /\ r.last \in Time
  BY DEF Sane, Runtime
<1>. QED  BY <1>1 DEF Since, Time, None

\* A satisfied observation continues the window or fires.
LEMMA HitContinues ==
  ASSUME NEW r, Sane(r), r.status \in Evaluable, NEW t \in Nat, t >= r.last, Quiet(r, t),
         NEW wm \in Prices \cup {None}, r.wm # None => wm # None /\ wm >= r.wm
  PROVE  LET res == Hit(r, [r EXCEPT !.cool = None], t, wm) IN
           /\ res.rt \in Runtime
           /\ \/ ~res.fired /\ Continued(r, res.rt, t)
              \/ res.fired /\ Fired(r, res.rt, t)
<1>. DEFINE base == [r EXCEPT !.cool = None]
            since == Since(r, t)
            next == [base EXCEPT !.status = ACC, !.since = since, !.stale = None,
                                 !.last = t, !.wm = wm]
<1>1. r \in Runtime /\ since \in Nat /\ r.status \notin Terminal /\ r.count < MaxRepeats
  BY SinceIsTime DEF Sane, Evaluable, Terminal
<1>2. base.since = r.since /\ base.stale = r.stale /\ base.count = r.count
  BY <1>1 DEF Runtime
<1>3. Since(base, t) = since
  BY <1>2 DEF Since
<1>4. CASE t - since >= Hold
  <2>1. Hit(r, base, t, wm) = Fire(base, t, since, wm)
    BY <1>1, <1>3, <1>4, ConstantTypes DEF Hit
  <2>2. r.count \in Nat /\ r.count + 1 \in 0..MaxRepeats
    BY <1>1, ConstantTypes DEF Runtime
  <2>3. CASE r.count + 1 < MaxRepeats
    <3>1. Hit(r, base, t, wm).rt = Rearm(base, t) /\ Hit(r, base, t, wm).fired
      BY <2>1, <2>3, <1>2 DEF Fire
    <3>2. t + Cooldown \in Nat
      BY ConstantTypes
    <3>. QED
      BY <1>1, <1>2, <1>4, <2>2, <2>3, <3>1, <3>2 DEF Rearm, Runtime, Status, Evaluable, Time, Fired
  <2>4. CASE ~(r.count + 1 < MaxRepeats)
    <3>1. /\ Hit(r, base, t, wm).fired
          /\ Hit(r, base, t, wm).rt =
               [status |-> IF Orders THEN "TRIGGERED_AWAITING_USER" ELSE "COMPLETED",
                since |-> since, stale |-> None, last |-> t, count |-> r.count + 1,
                cool |-> None, wm |-> wm]
      BY <2>1, <2>4, <1>2 DEF Fire
    <3>. QED
      BY <1>1, <1>4, <2>2, <2>4, <3>1 DEF Runtime, Status, Terminal, Time, Fired
  <2>. QED  BY <2>3, <2>4
<1>5. CASE ~(t - since >= Hold)
  <2>1. t - since < Hold
    BY <1>1, <1>5, ConstantTypes
  <2>2. Hit(r, base, t, wm).rt = next /\ ~Hit(r, base, t, wm).fired
    BY <1>1, <1>3, <2>1, <1>5, ConstantTypes DEF Hit, Flag, To, ACC
  <2>3. next \in Runtime
    BY <1>1 DEF Runtime, Status, Evaluable, Time, ACC
  <2>4. Continued(r, next, t)
    BY <1>1, <2>1, <2>3 DEF Runtime, Continued, Moved, Ratchets
  <2>. QED  BY <2>2, <2>3, <2>4
<1>. QED  BY <1>4, <1>5

\* An unsatisfied one pauses the window or drops it.
LEMMA MissDrops ==
  ASSUME NEW r, Sane(r), r.status \in Evaluable, NEW t \in Nat, Quiet(r, t), NEW view,
         NEW wm \in Prices \cup {None}, r.wm # None => wm # None /\ wm >= r.wm
  PROVE  LET res == Miss(r, [r EXCEPT !.cool = None], view, t, wm) IN
           /\ res.rt \in Runtime /\ ~res.fired
           /\ Dropped(r, res.rt, t) \/ Darkened(r, res.rt, t)
<1>. DEFINE cleared == [r EXCEPT !.cool = None]
<1>1. r \in Runtime /\ cleared \in Runtime /\ cleared.status = r.status
  BY DEF Sane, Runtime, Time
<1>2. CASE r.status = ACC
  <2>1. cleared = r
    BY <1>1, <1>2 DEF Sane, Runtime
  <2>2. Miss(r, cleared, view, t, wm) \in {ObserveStale(r, t, wm), Reset(r, t, wm)}
    BY <1>2, <2>1 DEF Miss, ACC
  <2>. QED  BY <1>2, <2>1, <2>2, StaleDarkens, ResetDrops
<1>3. CASE r.status # ACC
  <2>1. Miss(r, cleared, view, t, wm)
          = To(r, [cleared EXCEPT !.since = None, !.stale = None, !.last = t, !.wm = wm], FALSE)
    BY <1>1, <1>3 DEF Miss, ACC
  <2>. DEFINE n == [cleared EXCEPT !.since = None, !.stale = None, !.last = t, !.wm = wm]
  <2>2. n \in Runtime
    BY <1>1 DEF Runtime, Time
  <2>3. n.status \in Status \ {ACC}
    BY <1>1, <1>3, <2>2 DEF Runtime
  <2>4. Dropped(r, n, t)
    BY <1>1, <2>2, <2>3 DEF Runtime, Dropped, Moved, Ratchets
  <2>. QED  BY <2>1, <2>2, <2>4 DEF To
<1>. QED  BY <1>2, <1>3

\* The outcomes of an observation: every branch is one of these.
LEMMA ObserveOutcome ==
  ASSUME NEW r, Sane(r), r.status \in Evaluable, NEW t \in Nat, t >= r.last,
         NEW view, view.ref \in Prices \cup {None}
  PROVE  Outcome(r, Observe(r, view, t), t)
<1>. DEFINE cleared == [r EXCEPT !.cool = None]
            wm == Watermark(r.wm, view)
<1>1. r \in Runtime /\ r.status \notin Terminal
  BY DEF Sane, Evaluable, Terminal
<1>2. wm \in Prices \cup {None} /\ (r.wm # None => wm # None /\ wm >= r.wm)
  BY <1>1, WatermarkRises
<1>3. r.wm \in Prices \cup {None} /\ (r.wm # None => r.wm # None /\ r.wm >= r.wm)
  <2>1. \A p \in Prices : p \in Nat
    BY ConstantTypes
  <2>. QED  BY <1>1, <2>1 DEF Runtime
<1>. SUFFICES ASSUME NEW res, res = Observe(r, view, t)
              PROVE  Outcome(r, res, t)
  OBVIOUS
<1>4. CASE res \in {Ended(r, "EXPIRED", t), Ended(r, "INVALIDATED", t)}
  <2>1. {"EXPIRED", "INVALIDATED"} \subseteq Terminal
    BY DEF Terminal
  <2>. QED  BY <1>1, <1>4, <2>1, EndedDrops DEF Outcome, Goes
<1>5. CASE res = Reset(r, t, r.wm)
  BY <1>1, <1>3, <1>5, ResetDrops DEF Outcome, Goes
<1>6. CASE r.status # ACC /\ res = To(r, [r EXCEPT !.last = t], FALSE)
  <2>. DEFINE n == [r EXCEPT !.last = t]
  <2>1. n \in Runtime
    BY <1>1 DEF Runtime, Time
  <2>2. r.status \in Status \ {ACC} /\ r.since = None
    BY <1>1, <1>6 DEF Sane, Runtime, Evaluable, ACC
  <2>3. Dropped(r, n, t)
    BY <1>1, <1>3, <2>1, <2>2 DEF Runtime, Dropped, Moved, Ratchets
  <2>. QED  BY <1>1, <1>6, <2>1, <2>3 DEF To, Outcome, Goes
<1>7. CASE r.status # ACC /\ res = To(r, [r EXCEPT !.since = None, !.stale = None, !.last = t], FALSE)
  <2>. DEFINE n == [r EXCEPT !.since = None, !.stale = None, !.last = t]
  <2>1. n \in Runtime
    BY <1>1 DEF Runtime, Time
  <2>2. r.status \in Status \ {ACC}
    BY <1>1, <1>7 DEF Runtime
  <2>3. Dropped(r, n, t)
    BY <1>1, <1>3, <2>1, <2>2 DEF Runtime, Dropped, Moved, Ratchets
  <2>. QED  BY <1>1, <1>7, <2>1, <2>3 DEF To, Outcome, Goes
<1>8. CASE Quiet(r, t) /\ res = Hit(r, cleared, t, wm)
  <2>. HIDE DEF wm
  <2>. QED  BY <1>1, <1>2, <1>8, HitContinues DEF Outcome, Goes
<1>9. CASE Quiet(r, t) /\ res = Miss(r, cleared, view, t, wm)
  <2>. HIDE DEF wm
  <2>. QED  BY <1>1, <1>2, <1>9, MissDrops DEF Outcome, Goes
<1>10. \/ res \in {Ended(r, "EXPIRED", t), Ended(r, "INVALIDATED", t)}
       \/ res = Reset(r, t, r.wm)
       \/ r.status # ACC /\ res = To(r, [r EXCEPT !.last = t], FALSE)
       \/ r.status # ACC /\ res = To(r, [r EXCEPT !.since = None, !.stale = None, !.last = t], FALSE)
       \/ Quiet(r, t) /\ res = Hit(r, cleared, t, wm)
       \/ Quiet(r, t) /\ res = Miss(r, cleared, view, t, wm)
  <2>1. CASE r.cool # None /\ t < r.cool
    <3>1. r.status # ACC
      BY <2>1 DEF Sane
    <3>. QED  BY <2>1, <3>1 DEF Observe, ACC
  <2>2. CASE ~(r.cool # None /\ t < r.cool)
    <3>1. Quiet(r, t)
      BY <1>1, <2>2 DEF Quiet, Runtime, Time
    <3>. QED  BY <2>2, <3>1 DEF Observe, ACC
  <2>. QED  BY <2>1, <2>2
<1>. QED  BY <1>4, <1>5, <1>6, <1>7, <1>8, <1>9, <1>10

\* Every event on a live strategy has one of the outcomes.
LEMMA TransitionOutcome ==
  ASSUME NEW r, Sane(r), NEW t \in 0..Horizon, NEW e \in Events(t, Views), t >= r.last
  PROVE  Outcome(r, Transition(r, e), t)
<1>1. /\ r \in Runtime /\ t \in Nat /\ e.now = t
      /\ e.type \in {"cancel", "expire", "pause", "resume", "reconnect", "tick_size_change",
                    "market_paused", "market_closed", "book", "tick"}
      /\ e.view \in View \cup {NoView}
  BY ConstantTypes DEF Sane, Events
<1>2. e.view.ref \in Prices \cup {None}
  BY <1>1 DEF View, NoView
<1>3. r.wm \in Prices \cup {None} /\ (r.wm # None => r.wm # None /\ r.wm >= r.wm)
  <2>1. \A p \in Prices : p \in Nat
    BY ConstantTypes
  <2>. QED  BY <1>1, <2>1 DEF Runtime
<1>4. ASSUME NEW res, res = Keep(r)
      PROVE  Outcome(r, res, t)
  BY <1>1, <1>4 DEF Keep, Outcome, Goes
<1>5. ASSUME NEW res, r.status \notin Terminal,
             res \in {Ended(r, s, t) : s \in {"CANCELLED", "EXPIRED", "INVALIDATED"}}
      PROVE  Outcome(r, res, t)
  <2>1. PICK s \in Terminal : res = Ended(r, s, t)
    BY <1>5 DEF Terminal
  <2>. QED  BY <1>1, <1>5, <2>1, EndedDrops DEF Outcome, Goes
<1>6. ASSUME r.status = ACC
      PROVE  Outcome(r, ObserveStale(r, t, r.wm), t) /\ Outcome(r, Reset(r, t, r.wm), t)
  <2>1. r.status \notin Terminal
    BY <1>6 DEF Terminal, ACC
  <2>. QED  BY <1>1, <1>3, <1>6, <2>1, StaleDarkens, ResetDrops DEF Outcome, Goes
<1>7. ASSUME r.status \notin Terminal
      PROVE  Outcome(r, Paused(r, t), t) /\ Outcome(r, Resumed(r, t), t)
  <2>1. ASSUME NEW s \in {"PAUSED", "ACTIVE_WAITING"}
        PROVE  LET n == [r EXCEPT !.status = s, !.since = None, !.last = t]
               IN n \in Runtime /\ Dropped(r, n, t)
    <3>. DEFINE n == [r EXCEPT !.status = s, !.since = None, !.last = t]
    <3>1. s \in Status \ {ACC}
      BY DEF Status, Evaluable, ACC
    <3>2. n \in Runtime
      BY <1>1, <3>1 DEF Runtime, Time
    <3>. QED  BY <1>1, <1>3, <3>1, <3>2 DEF Runtime, Dropped, Moved, Ratchets
  <2>2. Outcome(r, Paused(r, t), t)
    BY <1>1, <1>4, <1>7, <2>1 DEF Paused, To, Outcome, Goes
  <2>3. Outcome(r, Resumed(r, t), t)
    BY <1>1, <1>4, <1>7, <2>1 DEF Resumed, To, Outcome, Goes
  <2>. QED  BY <2>2, <2>3
<1>8. ASSUME r.status \in Evaluable
      PROVE  Outcome(r, Observe(r, e.view, t), t) /\ Outcome(r, Blind(r, t), t)
  <2>1. r.status \notin Terminal
    BY <1>8 DEF Evaluable, Terminal
  <2>2. \/ Blind(r, t) \in {Ended(r, "EXPIRED", t), Keep(r)}
        \/ r.status = ACC /\ Blind(r, t) = ObserveStale(r, t, r.wm)
    BY DEF Blind, ACC
  <2>. QED  BY <1>1, <1>2, <1>4, <1>5, <1>6, <1>8, <2>1, <2>2, ObserveOutcome
<1>. DEFINE res == Transition(r, e)
<1>9. \/ res = Keep(r)
      \/ r.status \notin Terminal
           /\ res \in {Ended(r, s, t) : s \in {"CANCELLED", "EXPIRED", "INVALIDATED"}}
      \/ r.status \notin Terminal /\ res \in {Paused(r, t), Resumed(r, t)}
      \/ r.status = ACC /\ res \in {ObserveStale(r, t, r.wm), Reset(r, t, r.wm)}
      \/ r.status \in Evaluable /\ res \in {Blind(r, t), Observe(r, e.view, t)}
  BY <1>1 DEF Transition, Interrupted, ACC
<1>. QED  BY <1>4, <1>5, <1>6, <1>7, <1>8, <1>9

-----------------------------------------------------------------------------
(* The invariant, and the bounds of the window.                             *)

\* An open window starts after the cooldown of the last trigger, even when it
\* is shifted by a stale interval.
LEMMA SinceBounds ==
  ASSUME NEW r, Sane(r), NEW f, Spaced(r, f), r.status \in Evaluable,
         NEW t \in Nat, t >= r.last, Quiet(r, t)
  PROVE  /\ Since(r, t) \in Nat /\ Since(r, t) <= t
         /\ f # None => Since(r, t) >= f + Cooldown
         /\ f # None => t >= f + Cooldown
<1>1. /\ r.since \in Time /\ r.stale \in Time /\ r.last \in Time /\ r.cool \in Time
      /\ f \in Time /\ Cooldown \in Nat /\ Grace \in Nat
  BY ConstantTypes DEF Sane, Runtime, Spaced
<1>2. r.status \notin Terminal /\ (r.status = ACC \/ r.since = None)
  BY DEF Evaluable, Terminal, ACC, Sane
<1>3. f # None => t >= f + Cooldown
  BY <1>1, <1>2 DEF Spaced, Quiet, Time, None
<1>4. CASE r.since = None
  BY <1>1, <1>3, <1>4 DEF Since
<1>5. CASE r.since # None
  <2>1. /\ r.status = ACC /\ r.since \in Nat /\ r.since <= r.last
        /\ r.stale # None => r.since <= r.stale
        /\ r.stale <= r.last
        /\ f # None => r.since >= f + Cooldown
    BY <1>2, <1>5 DEF Sane, Spaced
  <2>. QED  BY <1>1, <1>3, <1>5, <2>1 DEF Since, Time, None
<1>. QED  BY <1>4, <1>5

\* Each outcome keeps the invariant.
LEMMA OutcomeKeepsInv ==
  ASSUME NEW r, Sane(r), NEW f, Spaced(r, f), NEW t \in Nat, t >= r.last,
         NEW n, NEW fired, Goes(r, n, t, fired)
  PROVE  Sane(n) /\ Spaced(n, IF fired THEN t ELSE f)
<1>1. /\ r.since \in Time /\ r.stale \in Time /\ r.last \in Time /\ r.cool \in Time
      /\ r.count \in Nat /\ f \in Time /\ Cooldown \in Nat /\ MaxRepeats \in Nat /\ r.stale <= r.last
      /\ n.count \in Nat /\ r.status \in Status /\ n.status \in Status
  BY ConstantTypes DEF Sane, Runtime, Spaced, Goes
<1>2. n \in Runtime
  BY DEF Goes
<1>7. CASE ~fired /\ n = r
  BY <1>7
<1>3. CASE ~fired /\ r.status \notin Terminal /\ Dropped(r, n, t)
  <2>1. n.last = t /\ n.count = r.count /\ n.status # ACC /\ n.since = None /\ n.stale \in {r.stale, None}
    BY <1>3 DEF Dropped, Moved
  <2>2. Sane(n)
    BY <1>1, <1>2, <1>3, <2>1 DEF Sane, Time, None
  <2>3. n.cool = r.cool \/ (n.cool = None /\ Quiet(r, t))
    BY <1>3 DEF Dropped
  <2>4. Spaced(n, f)
    BY <1>1, <1>3, <2>1, <2>3 DEF Spaced, Quiet, Time, None
  <2>. QED  BY <1>3, <2>2, <2>4
<1>4. CASE ~fired /\ r.status \notin Terminal /\ Darkened(r, n, t)
  <2>1. /\ n.last = t /\ n.count = r.count /\ r.status = ACC /\ n.status = ACC
        /\ n.since = r.since /\ n.cool = None /\ r.cool = None
        /\ \/ r.stale = None /\ n.stale = t
           \/ r.stale # None /\ n.stale = r.stale
    BY <1>4 DEF Darkened, Moved, Sane
  <2>2. Sane(n)
    BY <1>1, <1>2, <1>4, <2>1 DEF Sane, Time, None, ACC, Terminal
  <2>3. Spaced(n, f)
    BY <1>1, <1>4, <2>1 DEF Spaced, Time, None
  <2>. QED  BY <1>4, <2>2, <2>3
<1>5. CASE ~fired /\ r.status \notin Terminal /\ Continued(r, n, t)
  <2>1. /\ n.last = t /\ n.count = r.count /\ n.status = ACC /\ n.since = Since(r, t)
        /\ n.stale = None /\ n.cool = None /\ r.status \in Evaluable /\ Quiet(r, t)
    BY <1>5 DEF Continued, Moved
  <2>2. /\ n.since \in Nat /\ n.since <= t
        /\ f # None => n.since >= f + Cooldown /\ t >= f + Cooldown
    BY <2>1, SinceBounds
  <2>3. Sane(n)
    BY <1>1, <1>2, <1>5, <2>1, <2>2 DEF Sane, Time, None, ACC, Terminal
  <2>4. Spaced(n, f)
    BY <1>1, <1>5, <2>1, <2>2 DEF Spaced, Time, None
  <2>. QED  BY <1>5, <2>3, <2>4
<1>6. CASE fired /\ Fired(r, n, t)
  <2>1. /\ n.last = t /\ n.count = r.count + 1 /\ n.stale = None
        /\ \/ n.count < MaxRepeats /\ n.status = "ACTIVE_WAITING" /\ n.since = None /\ n.cool = t + Cooldown
           \/ n.status \in Terminal /\ n.cool = None
    BY <1>6 DEF Fired
  <2>2. Sane(n)
    BY <1>1, <1>2, <2>1 DEF Sane, Time, None, ACC, Terminal
  <2>3. Spaced(n, t)
    BY <1>1, <2>1 DEF Spaced, Time, None, ACC, Terminal
  <2>. QED  BY <1>6, <2>2, <2>3
<1>. QED  BY <1>3, <1>4, <1>5, <1>6, <1>7 DEF Goes

\* A step, through its outcome.
LEMMA StepOutcome ==
  ASSUME Inv, Next
  PROVE  \E t \in Nat, fired \in BOOLEAN :
           t >= rt.last /\ Goes(rt, rt', t, fired) /\ firedAt' = (IF fired THEN t ELSE firedAt)
<1>0. PICK t \in 0..Horizon : \E e \in Events(t, Views) : Step(e)
  BY DEF Next
<1>1. PICK e \in Events(t, Views) : Step(e)
  BY <1>0
<1>2. e.now = t /\ t \in Nat
  BY ConstantTypes DEF Events
<1>3. t >= rt.last /\ rt' = Transition(rt, e).rt
        /\ firedAt' = IF Transition(rt, e).fired THEN t ELSE firedAt
  BY <1>1, <1>2 DEF Step
<1>4. Outcome(rt, Transition(rt, e), t)
  BY <1>3, TransitionOutcome DEF Inv
<1>5. CASE Transition(rt, e).fired
  <2>1. Goes(rt, rt', t, TRUE) /\ firedAt' = t
    BY <1>3, <1>4, <1>5 DEF Outcome, Goes
  <2>. QED  BY <1>2, <1>3, <2>1
<1>6. CASE ~Transition(rt, e).fired
  <2>1. Goes(rt, rt', t, FALSE) /\ firedAt' = firedAt
    BY <1>3, <1>4, <1>6 DEF Outcome, Goes
  <2>. QED  BY <1>2, <1>3, <2>1
<1>. QED  BY <1>5, <1>6

\* The inductive invariant: types, and a window open exactly while the
\* strategy accumulates, paused only while it is open.
THEOREM InvHolds == Spec => []Inv
<1>1. Init => Inv
  BY ConstantTypes DEF Init, InitialRuntime, Inv, Sane, Spaced, Runtime, Status, Evaluable, Terminal,
     Time, None, ACC
<1>2. Inv /\ [Next]_vars => Inv'
  <2>. SUFFICES ASSUME Inv, [Next]_vars PROVE Inv'
    OBVIOUS
  <2>1. CASE Next
    <3>1. PICK t \in Nat, fired \in BOOLEAN :
           t >= rt.last /\ Goes(rt, rt', t, fired) /\ firedAt' = (IF fired THEN t ELSE firedAt)
      BY <2>1, StepOutcome
    <3>. QED  BY <3>1, OutcomeKeepsInv DEF Inv
  <2>2. CASE UNCHANGED vars
    BY <2>2 DEF Inv, vars
  <2>. QED  BY <2>1, <2>2
<1>. QED  BY <1>1, <1>2, PTL DEF Spec

-----------------------------------------------------------------------------
(* What the invariant gives.                                                *)

\* The runtime keeps its types, and a window is open exactly while the strategy
\* accumulates.
THEOREM StrategyTypeCorrect == Spec => []TypeOK
<1>1. Inv => TypeOK
  BY DEF Inv, Sane, Spaced, TypeOK, ACC
<1>. QED  BY <1>1, InvHolds, PTL

\* A cooldown and a whole window lie between two triggers.
THEOREM TriggersKeepApart == Spec => TriggersApart
<1>1. Inv /\ [Next]_vars
        => [rt'.count # rt.count /\ firedAt # None => firedAt' >= firedAt + Cooldown + Hold]_vars
  <2>. SUFFICES ASSUME Inv, Next, rt'.count # rt.count, firedAt # None
                PROVE  firedAt' >= firedAt + Cooldown + Hold
    OBVIOUS
  <2>1. PICK t \in Nat, fired \in BOOLEAN :
           t >= rt.last /\ Goes(rt, rt', t, fired) /\ firedAt' = (IF fired THEN t ELSE firedAt)
    BY StepOutcome
  <2>2. fired /\ Fired(rt, rt', t) /\ firedAt' = t
    BY <2>1 DEF Goes, Dropped, Darkened, Continued, Moved
  <2>3. /\ Since(rt, t) \in Nat /\ Since(rt, t) >= firedAt + Cooldown
        /\ t - Since(rt, t) >= Hold
    BY <2>1, <2>2, SinceBounds DEF Inv, Fired
  <2>4. firedAt \in Nat /\ Hold \in Nat /\ Cooldown \in Nat
    BY ConstantTypes DEF Inv, Spaced, Time
  <2>. QED  BY <2>1, <2>2, <2>3, <2>4
<1>. QED  BY <1>1, InvHolds, PTL DEF Spec, TriggersApart

\* A watermark is a high-water mark.
THEOREM WatermarkNeverFalls == Spec => WatermarkRatchets
<1>1. Inv /\ [Next]_vars
        => [rt'.count = rt.count /\ rt.wm # None => rt'.wm # None /\ rt'.wm >= rt.wm]_vars
  <2>. SUFFICES ASSUME Inv, Next, rt'.count = rt.count, rt.wm # None
                PROVE  rt'.wm # None /\ rt'.wm >= rt.wm
    OBVIOUS
  <2>1. PICK t \in Nat, fired \in BOOLEAN :
           t >= rt.last /\ Goes(rt, rt', t, fired) /\ firedAt' = (IF fired THEN t ELSE firedAt)
    BY StepOutcome
  <2>2. rt.count \in Nat /\ rt.wm \in Nat
    <3>1. \A p \in Prices : p \in Nat
      BY ConstantTypes
    <3>2. rt.count \in 0..MaxRepeats /\ rt.wm \in Prices \cup {None} /\ MaxRepeats \in Nat
      BY ConstantTypes DEF Inv, Sane, Runtime
    <3>. QED  BY <3>1, <3>2
  <2>3. rt' = rt \/ Ratchets(rt, rt')
    BY <2>1, <2>2 DEF Goes, Dropped, Darkened, Continued, Fired, Moved
  <2>. QED  BY <2>2, <2>3 DEF Ratchets
<1>. QED  BY <1>1, InvHolds, PTL DEF Spec, WatermarkRatchets

-----------------------------------------------------------------------------
(* Refinement: every step of the strategy is a step of its hold window.     *)

\* Every step of a strategy is a step of its hold window, or a stutter.
LEMMA WindowStep ==
  ASSUME Inv, Inv', NEW t \in Nat, NEW fired \in BOOLEAN, t >= rt.last,
         Goes(rt, rt', t, fired), firedAt' = IF fired THEN t ELSE firedAt
  PROVE  Window!Next \/ UNCHANGED Window!vars
<1>1. /\ rt.since \in Time /\ rt.stale \in Time /\ rt.last \in Time /\ firedAt \in Time
      /\ rt.count \in Nat /\ rt.status \in Status /\ rt.stale <= rt.last
      /\ rt'.since \in Time /\ rt'.stale \in Time /\ rt'.last \in Time /\ firedAt' \in Time
      /\ rt'.count \in Nat /\ rt'.status \in Status
      /\ Hold \in Nat /\ Grace \in Nat /\ Cooldown \in Nat /\ MaxRepeats \in Nat
  BY ConstantTypes DEF Inv, Sane, Runtime, Spaced
<1>2. /\ Accumulating => rt.since \in Nat /\ rt.since <= rt.last /\ rt.last \in Nat
      /\ Accumulating /\ rt.stale # None => rt.since <= rt.stale
      /\ rt.status \notin Terminal => rt.count < MaxRepeats
      /\ rt.status \in {"ACTIVE_WAITING", "PAUSED"} => rt.since = None
  BY <1>1 DEF Inv, Sane, Accumulating, ACC, Time, None
<1>3. CASE ~fired /\ rt' = rt
  <2>1. firedAt' = firedAt
    BY <1>3
  <2>. QED
    BY <1>3, <2>1 DEF Window!vars, Phase, Credit, Clock, DarkSince, QuietUntil, Accumulating
<1>4. ASSUME rt.status \notin Terminal, rt'.last = t
      PROVE  Clock' = t /\ Clock' >= Clock /\ Phase # "done"
  BY <1>1, <1>4 DEF Clock, Phase, Time, None
<1>5. CASE ~fired /\ rt.status \notin Terminal /\ Dropped(rt, rt', t)
  <2>1. rt'.last = t /\ rt'.count = rt.count /\ ~Accumulating' /\ firedAt' = firedAt
    BY <1>5 DEF Dropped, Moved, Accumulating, ACC
  <2>2. Phase' \in {"idle", "done"} /\ Credit' = 0 /\ QuietUntil' = QuietUntil
    BY <2>1 DEF Phase, Credit, QuietUntil
  <2>. QED  BY <1>4, <1>5, <2>1, <2>2 DEF Window!Next, Window!Drop
<1>6. CASE ~fired /\ rt.status \notin Terminal /\ Darkened(rt, rt', t)
  <2>1. /\ rt'.last = t /\ rt'.count = rt.count /\ Accumulating /\ Accumulating'
        /\ rt'.since = rt.since /\ firedAt' = firedAt /\ Grace > 0
        /\ \/ rt.stale = None /\ rt'.stale = t
           \/ rt.stale # None /\ rt'.stale = rt.stale /\ t - rt.stale <= Grace
    BY <1>6 DEF Darkened, Moved, Accumulating, ACC
  <2>2. rt'.status \notin Terminal /\ rt'.stale # None /\ QuietUntil' = QuietUntil
    BY <1>1, <2>1 DEF Accumulating, Terminal, QuietUntil, None, Time
  <2>3. Clock' = t /\ Clock' >= Clock /\ Phase' = "dark"
    BY <1>4, <1>6, <2>1, <2>2 DEF Phase
  <2>4. CASE rt.stale = None
    <3>1. Phase = "running" /\ DarkSince' = t /\ Credit' = t - rt.since /\ Credit = rt.last - rt.since
          /\ Clock = rt.last
      BY <1>1, <1>2, <1>6, <2>1, <2>2, <2>4 DEF Phase, DarkSince, Credit, Clock, None
    <3>2. Credit' = Credit + (Clock' - Clock)
      BY <1>1, <1>2, <2>1, <2>3, <3>1 DEF Time, None
    <3>. QED  BY <2>1, <2>2, <2>3, <3>1, <3>2 DEF Window!Next, Window!Darken, Window!Earned
  <2>5. CASE rt.stale # None
    <3>1. Phase = "dark" /\ DarkSince' = rt.stale /\ DarkSince = rt.stale /\ Credit' = Credit
          /\ t - rt.stale <= Grace
      BY <1>6, <2>1, <2>2, <2>5 DEF Phase, DarkSince, Credit
    <3>. QED  BY <2>1, <2>2, <2>3, <3>1 DEF Window!Next, Window!Darken, Window!Earned
  <2>. QED  BY <2>4, <2>5
<1>7. ASSUME rt.status \in Evaluable, Quiet(rt, t), rt'.last = t
      PROVE  Window!Earned = t - Since(rt, t) /\ t >= QuietUntil
  <2>1. Since(rt, t) \in Nat /\ (firedAt # None => t >= firedAt + Cooldown)
    BY <1>7, SinceBounds DEF Inv
  <2>2. t >= QuietUntil
    BY <2>1 DEF QuietUntil
  <2>3. rt.status \notin Terminal /\ Clock' = t
    BY <1>4, <1>7 DEF Evaluable, Terminal
  <2>4. CASE ~Accumulating
    <3>1. rt.since = None /\ Phase = "idle"
      BY <1>2, <1>7, <2>3, <2>4 DEF Evaluable, Phase, Accumulating
    <3>. QED  BY <2>2, <3>1 DEF Since, Window!Earned
  <2>5. CASE Accumulating /\ rt.stale = None
    <3>1. Phase = "running" /\ Since(rt, t) = rt.since /\ Credit = rt.last - rt.since /\ Clock = rt.last
      BY <1>1, <1>2, <2>3, <2>5 DEF Phase, Credit, Clock, Since, None, Time
    <3>2. Credit + (Clock' - Clock) = t - rt.since
      BY <1>1, <1>2, <2>3, <2>5, <3>1 DEF Time, None
    <3>. QED  BY <2>2, <3>1, <3>2 DEF Window!Earned
  <2>6. CASE Accumulating /\ rt.stale # None
    <3>1. Phase = "dark" /\ DarkSince = rt.stale /\ Credit = rt.stale - rt.since
          /\ rt.stale \in Nat /\ rt.since \in Nat /\ rt.since # None
      BY <1>1, <1>2, <2>3, <2>6 DEF Phase, DarkSince, Credit, Time, None
    <3>2. CASE t - rt.stale <= Grace
      <4>1. Since(rt, t) = rt.since + (t - rt.stale)
        BY <1>1, <2>6, <3>1, <3>2 DEF Since
      <4>2. t - Since(rt, t) = Credit
        BY <3>1, <4>1
      <4>3. Window!Earned = Credit
        BY <2>3, <3>1, <3>2 DEF Window!Earned
      <4>. QED  BY <2>2, <4>2, <4>3
    <3>3. CASE ~(t - rt.stale <= Grace)
      <4>1. Since(rt, t) = t
        BY <1>1, <2>6, <3>1, <3>3 DEF Since
      <4>2. Window!Earned = 0
        BY <2>3, <3>1, <3>3 DEF Window!Earned
      <4>. QED  BY <2>2, <4>1, <4>2
    <3>. QED  BY <3>2, <3>3
  <2>. QED  BY <2>4, <2>5, <2>6
<1>8. CASE ~fired /\ rt.status \notin Terminal /\ Continued(rt, rt', t)
  <2>1. /\ rt'.last = t /\ rt'.count = rt.count /\ firedAt' = firedAt /\ rt.status \in Evaluable
        /\ Quiet(rt, t) /\ Accumulating' /\ rt'.since = Since(rt, t) /\ rt'.stale = None
        /\ t - rt'.since < Hold
    BY <1>8 DEF Continued, Moved, Accumulating, ACC
  <2>2. Phase' = "running" /\ Credit' = t - Since(rt, t) /\ QuietUntil' = QuietUntil
    BY <2>1 DEF Phase, Credit, QuietUntil, Accumulating, Terminal
  <2>. QED  BY <1>4, <1>7, <1>8, <2>1, <2>2 DEF Window!Next, Window!Earn
<1>9. CASE fired /\ Fired(rt, rt', t)
  <2>1. /\ rt.status \in Evaluable /\ Quiet(rt, t) /\ t - Since(rt, t) >= Hold
        /\ rt'.last = t /\ rt'.count = rt.count + 1 /\ firedAt' = t
        /\ IF rt'.count < MaxRepeats THEN rt'.status = "ACTIVE_WAITING"
                                     ELSE rt'.status \in Terminal
    BY <1>9 DEF Fired
  <2>2. rt.status \notin Terminal /\ rt.count < MaxRepeats
    BY <1>2, <2>1 DEF Evaluable, Terminal
  <2>3. Phase' = (IF rt'.count < MaxRepeats THEN "idle" ELSE "done") /\ Credit' = 0
    BY <2>1 DEF Phase, Credit, Accumulating, Terminal
  <2>4. QuietUntil' = t + Cooldown
    BY <2>1 DEF QuietUntil, None
  <2>. QED  BY <1>4, <1>7, <2>1, <2>2, <2>3, <2>4 DEF Window!Next, Window!Trigger
<1>. QED  BY <1>3, <1>5, <1>6, <1>8, <1>9 DEF Goes

\* The strategy implements the abstract hold window.
THEOREM HoldWindowImplemented == Spec => HoldWindowSpec
<1>1. Init => Window!Init
  BY DEF Init, InitialRuntime, Window!Init, Phase, Credit, Clock, DarkSince, QuietUntil, Accumulating,
     Terminal, None
<1>2. Inv /\ Inv' /\ [Next]_vars => [Window!Next]_(Window!vars)
  <2>. SUFFICES ASSUME Inv, Inv', [Next]_vars PROVE Window!Next \/ UNCHANGED Window!vars
    OBVIOUS
  <2>1. CASE Next
    <3>1. PICK t \in Nat, fired \in BOOLEAN :
           t >= rt.last /\ Goes(rt, rt', t, fired) /\ firedAt' = (IF fired THEN t ELSE firedAt)
      BY <2>1, StepOutcome
    <3>. QED  BY <3>1, WindowStep
  <2>2. CASE UNCHANGED vars
    BY <2>2 DEF vars, Window!vars, Phase, Credit, Clock, DarkSince, QuietUntil, Accumulating
  <2>. QED  BY <2>1, <2>2
<1>. QED  BY <1>1, <1>2, InvHolds, PTL DEF Spec, HoldWindowSpec, Window!Spec

=============================================================================
