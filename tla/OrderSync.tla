------------------------------ MODULE OrderSync ------------------------------
(****************************************************************************)
(* The worker's fill reconciliation: order_intents against the exchange's   *)
(* open orders and trades, beside the user's cancel requests.               *)
(*                                                                          *)
(* A pass lists a batch of in-flight intents, least recently synced first,  *)
(* and takes it account by account: the open orders, then, for an order     *)
(* that is not among them and is older than the grace period, the trades    *)
(* of its token.  Sizes are in units of the settlement tolerance or more;   *)
(* average prices and audits are left out.                                  *)
(****************************************************************************)
EXTENDS Integers, FiniteSets, FiniteSetsExt

CONSTANTS
  Orders, Accounts, Tokens,
  AccountOf, TokenOf, Size,  \* the account, the token and the size of every order
  BatchLimit,          \* batchLimit
  Broken,              \* accounts whose open orders can no longer be read
  MaxFaults, MaxCancels, MaxLost
                       \* bounds: crashes and statements that throw, requests to cancel,
                       \* trades that fail on chain

ASSUME SyncAssumption ==
  /\ IsFiniteSet(Orders)
  /\ AccountOf \in [Orders -> Accounts] /\ TokenOf \in [Orders -> Tokens]
  /\ Size \in [Orders -> Nat \ {0}] /\ BatchLimit \in Nat \ {0}
  /\ Broken \subseteq Accounts
  /\ MaxFaults \in Nat /\ MaxCancels \in Nat /\ MaxLost \in Nat

VARIABLES
  venue,   \* the orders at the exchange
  old,     \* orders older than the grace period
  row,     \* the intents; by is history: who wrote the final status
  told,    \* orders whose fill was put in the notification outbox
  cancel,  \* the user's cancel requests: what each does next
  pass,    \* the pass under way
  faults

vars == <<venue, old, row, told, cancel, pass, faults>>

InFlight == {"submitted", "acknowledged"}
Final == {"filled", "cancelled"}
Absent == -1
Nobody == "nobody"

Venue == [phase : {"none", "resting", "gone"}, listed : BOOLEAN,
          matched : Nat, failed : Nat]
Row == [status : {"none"} \cup InFlight \cup Final, filled : Nat, stamp : Nat,
        by : {Nobody, "sync", "user"}]
Pass == [batch : SUBSET Orders,   \* listed, their account not yet read
         group : SUBSET Orders,   \* of the account being synced
         now   : Nat,             \* the stamp that the group's rows get
         open  : [Orders -> {Absent} \cup Nat],
         trades : [Tokens -> {"unread", "failed", "read"}],
         fills : [Orders -> Nat],
         tell  : SUBSET Orders]   \* filled, not yet announced

Idle == [batch |-> {}, group |-> {}, now |-> 0, open |-> [o \in Orders |-> Absent],
         trades |-> [t \in Tokens |-> "unread"], fills |-> [o \in Orders |-> 0], tell |-> {}]

Init ==
  /\ venue = [o \in Orders |-> [phase |-> "none", listed |-> FALSE, matched |-> 0, failed |-> 0]]
  /\ old = {} /\ told = {}
  /\ row = [o \in Orders |-> [status |-> "none", filled |-> 0, stamp |-> 0, by |-> Nobody]]
  /\ cancel = [o \in Orders |-> "none"]
  /\ pass = Idle /\ faults = 0

-----------------------------------------------------------------------------
(* The exchange.                                                            *)

Place(o) ==
  /\ venue[o].phase = "none"
  /\ venue' = [venue EXCEPT ![o].phase = "resting"]
  /\ row' = [row EXCEPT ![o].status = "submitted"]
  /\ UNCHANGED <<old, told, cancel, pass, faults>>

List(o) ==
  /\ venue[o].phase = "resting" /\ ~venue[o].listed
  /\ venue' = [venue EXCEPT ![o].listed = TRUE]
  /\ UNCHANGED <<old, row, told, cancel, pass, faults>>

Match(o) ==
  /\ venue[o].phase = "resting"
  /\ venue' = [venue EXCEPT ![o].matched = @ + 1,
                            ![o].phase = IF venue[o].matched + 1 = Size[o] THEN "gone" ELSE @]
  /\ UNCHANGED <<old, row, told, cancel, pass, faults>>

Expire(o) ==
  /\ venue[o].phase = "resting"
  /\ venue' = [venue EXCEPT ![o].phase = "gone"]
  /\ UNCHANGED <<old, row, told, cancel, pass, faults>>

\* A matched trade fails to settle on chain.
TradeFails(o) ==
  /\ venue[o].failed < venue[o].matched
  /\ MapThenSumSet(LAMBDA q : venue[q].failed, Orders) < MaxLost
  /\ venue' = [venue EXCEPT ![o].failed = @ + 1]
  /\ UNCHANGED <<old, row, told, cancel, pass, faults>>

\* The grace is taken to be long enough: a resting order has been listed when the
\* pass that first finds it old reads the open orders.  (An order that is gone may
\* as well have grown old before the pass as in it.)
GraceElapses(o) ==
  /\ venue[o].phase # "none" /\ o \notin old \cup pass.group
  /\ venue[o].phase = "resting" => venue[o].listed
  /\ old' = old \cup {o}
  /\ UNCHANGED <<venue, row, told, cancel, pass, faults>>

-----------------------------------------------------------------------------
(* The pass.                                                                *)

Pending == {o \in Orders : row[o].status \in InFlight}

\* updateFillState: only an in-flight intent is written.
FillState(r, o, w) == IF r[o].status \in InFlight THEN [r EXCEPT ![o] = w] ELSE r

StampedNever(r, S, now) == r

Stamped(r, S, now) ==
  [o \in Orders |-> IF o \in S /\ r[o].status \in InFlight THEN [r[o] EXCEPT !.stamp = now]
                                                           ELSE r[o]]

\* Only the order of the stamps matters: they are renumbered from 0.
Renumbered(r) ==
  [o \in Orders |-> [r[o] EXCEPT !.stamp =
     Cardinality({q \in Orders : r[q].stamp < r[o].stamp})]]

\* listForSync: the least recently synced, ties in any order.
Listable(S) ==
  /\ S \subseteq Pending
  /\ Cardinality(S) = Min({BatchLimit, Cardinality(Pending)})
  /\ \A x \in S, y \in Pending \ S : row[x].stamp <= row[y].stamp

StartPass ==
  /\ pass = Idle
  /\ \E S \in SUBSET Orders : Listable(S) /\ S # {} /\
       pass' = [Idle EXCEPT !.batch = S, !.now = Cardinality(Orders)]
  /\ row' = Renumbered(row)
  /\ UNCHANGED <<venue, old, told, cancel, faults>>

\* What is left of a pass when a group ends; every group has a later stamp.
Rest(p, batch) == IF batch = {} THEN Idle ELSE [Idle EXCEPT !.batch = batch, !.now = p.now]

Of(S, a) == {o \in S : AccountOf[o] = a}
NextGroup(a) == pass.group = {} /\ pass.tell = {} /\ Of(pass.batch, a) # {}

ReadOpen(a) ==
  /\ NextGroup(a) /\ a \notin Broken
  /\ pass' = [Idle EXCEPT !.batch = pass.batch \ Of(pass.batch, a),
                          !.group = Of(pass.batch, a),
                          !.now = pass.now + 1,
                          !.open = [o \in Orders |->
                             IF AccountOf[o] = a /\ venue[o].phase = "resting" /\ venue[o].listed
                             THEN venue[o].matched ELSE Absent]]
  /\ UNCHANGED <<venue, old, row, told, cancel, faults>>

\* No account, no credentials, or the open orders cannot be read.
OpenFails(a) ==
  /\ NextGroup(a)
  /\ row' = Stamped(row, Of(pass.batch, a), pass.now + 1)
  /\ pass' = Rest([pass EXCEPT !.now = @ + 1], pass.batch \ Of(pass.batch, a))
  /\ UNCHANGED <<venue, old, told, cancel, faults>>

Done(p, o) == IF p.group = {o} /\ p.tell = {} THEN Rest(p, p.batch)
                                              ELSE [p EXCEPT !.group = @ \ {o}]
Turn(o) == o \in pass.group /\ pass.tell = {}

\* Present: acknowledged, with what it has filled so far.
Resting(o) ==
  /\ Turn(o) /\ pass.open[o] # Absent
  /\ row' = FillState(row, o, [row[o] EXCEPT !.status = "acknowledged",
                                             !.filled = pass.open[o], !.stamp = pass.now])
  /\ pass' = Done(pass, o)
  /\ UNCHANGED <<venue, old, told, cancel, faults>>

Missing(o) == Turn(o) /\ pass.open[o] = Absent

WithinGraceNever(o) == FALSE

WithinGrace(o) == Missing(o) /\ o \notin old

Young(o) ==
  /\ WithinGrace(o)
  /\ row' = Stamped(row, {o}, pass.now)
  /\ pass' = Done(pass, o)
  /\ UNCHANGED <<venue, old, told, cancel, faults>>

FillsForOrderOff(o) == venue[o].matched - 2 * venue[o].failed

\* A trade that failed on chain does not count.
FillsForOrder(o) == venue[o].matched - venue[o].failed

ReadTrades(o) ==
  /\ Missing(o) /\ ~WithinGrace(o) /\ pass.trades[TokenOf[o]] = "unread"
  /\ pass' = [pass EXCEPT !.trades[TokenOf[o]] = "read",
                          !.fills = [q \in Orders |-> IF TokenOf[q] = TokenOf[o] /\ q \in pass.group
                                                      THEN FillsForOrder(q) ELSE @[q]]]
  /\ UNCHANGED <<venue, old, row, told, cancel, faults>>

TradesFail(o) ==
  /\ Missing(o) /\ ~WithinGrace(o) /\ pass.trades[TokenOf[o]] = "unread"
  /\ pass' = [pass EXCEPT !.trades[TokenOf[o]] = "failed"]
  /\ UNCHANGED <<venue, old, row, told, cancel, faults>>

\* Not even stamped: the order is first in line again.
Untouched(o) ==
  /\ Missing(o) /\ ~WithinGrace(o) /\ pass.trades[TokenOf[o]] = "failed"
  /\ pass' = Done(pass, o)
  /\ UNCHANGED <<venue, old, row, told, cancel, faults>>

Resolution(o) ==
  [row[o] EXCEPT !.status = IF pass.fills[o] = Size[o] THEN "filled" ELSE "cancelled",
                 !.filled = pass.fills[o], !.stamp = pass.now, !.by = "sync"]

Resolve(o) ==
  /\ Missing(o) /\ ~WithinGrace(o) /\ pass.trades[TokenOf[o]] = "read"
  /\ row' = FillState(row, o, Resolution(o))
  /\ pass' = IF row[o].status \in InFlight /\ row'[o].status = "filled"
             THEN [pass EXCEPT !.tell = {o}] ELSE Done(pass, o)
  /\ UNCHANGED <<venue, old, told, cancel, faults>>

\* The enqueue may fail: that is logged and no more.
Announce(o) ==
  /\ o \in pass.tell
  /\ told' \in {told, told \cup {o}}
  /\ pass' = Done([pass EXCEPT !.tell = {}], o)
  /\ UNCHANGED <<venue, old, row, cancel, faults>>

\* A statement throws: the rest of the account's group waits for another pass.
GroupThrows ==
  /\ pass.group # {} /\ faults < MaxFaults /\ faults' = faults + 1
  /\ pass' = Rest(pass, pass.batch)
  /\ UNCHANGED <<venue, old, row, told, cancel>>

Crash ==
  /\ pass # Idle /\ faults < MaxFaults /\ faults' = faults + 1
  /\ pass' = Idle
  /\ UNCHANGED <<venue, old, row, told, cancel>>

-----------------------------------------------------------------------------
(* DELETE /api/trade/orders/:id.                                             *)

\* The exchange answers OK whether or not there was something left to cancel.
CancelSend(o) ==
  /\ venue[o].phase # "none" /\ cancel[o] = "none"
  /\ Cardinality({q \in Orders : cancel[q] # "none"}) < MaxCancels
  /\ venue' = [venue EXCEPT ![o].phase = "gone"]
  /\ cancel' = [cancel EXCEPT ![o] = "read"]
  /\ UNCHANGED <<old, row, told, pass, faults>>

CancelRead(o) ==
  /\ cancel[o] = "read"
  /\ cancel' = [cancel EXCEPT ![o] = IF row[o].status \in InFlight THEN "write" ELSE "done"]
  /\ UNCHANGED <<venue, old, row, told, pass, faults>>

\* updateStatus: whatever the status is by now.
CancelWrite(o) ==
  /\ cancel[o] = "write"
  /\ row' = [row EXCEPT ![o].status = "cancelled", ![o].by = "user"]
  /\ cancel' = [cancel EXCEPT ![o] = "done"]
  /\ UNCHANGED <<venue, old, told, pass, faults>>

-----------------------------------------------------------------------------
SyncOne(o) ==
  \/ Resting(o) \/ Young(o) \/ ReadTrades(o) \/ TradesFail(o) \/ Untouched(o)
  \/ Resolve(o) \/ Announce(o)

PassStep ==
  \/ StartPass
  \/ \E a \in Accounts : ReadOpen(a) \/ OpenFails(a)
  \/ \E o \in Orders : SyncOne(o)

\* What the exchange does with the orders of a broken account is never seen.
Exchange(o) ==
  \/ Place(o)
  \/ AccountOf[o] \notin Broken /\ (List(o) \/ Match(o) \/ Expire(o) \/ TradeFails(o))
  \/ GraceElapses(o)

User(o) == CancelSend(o) \/ CancelRead(o) \/ CancelWrite(o)

Next ==
  \/ PassStep \/ GroupThrows \/ Crash
  \/ \E o \in Orders : Exchange(o) \/ User(o)

Spec == Init /\ [][Next]_vars

\* The interval timer starts passes and a pass goes on; time passes; the reads
\* of an account that is not broken, made again and again, succeed again and again.
Fairness ==
  /\ WF_vars(PassStep)
  /\ \A a \in Accounts \ Broken : SF_vars(ReadOpen(a))
  /\ \A o \in Orders : SF_vars(ReadTrades(o)) /\ SF_vars(GraceElapses(o))

FairSpec == Spec /\ Fairness

-----------------------------------------------------------------------------
TypeOK ==
  /\ venue \in [Orders -> Venue] /\ row \in [Orders -> Row]
  /\ old \subseteq Orders /\ told \subseteq Orders
  /\ cancel \in [Orders -> {"none", "read", "write", "done"}]
  /\ pass \in Pass /\ faults \in 0..MaxFaults

\* A verdict of the loop is true and stays true: the order has left the book,
\* and the fills written with it are no less than what settled on chain, so
\* that what is counted against a rule's daily cap is never too little.
VerdictIsTrue ==
  \A o \in Orders :
    /\ row[o].by = "sync" => /\ venue[o].phase = "gone"
                            /\ row[o].filled >= venue[o].matched - venue[o].failed
    /\ row[o].status = "filled" \/ o \in told => venue[o].matched = Size[o]

\* The intent never shows a fill that the exchange has not made.
RecordWithinVenue == \A o \in Orders : row[o].filled <= venue[o].matched

\* Every order that leaves the book reaches a final status, whatever the reads of
\* another account's orders do, and whether or not the user's request survives.
OrdersSettle ==
  \A o \in Orders :
    venue[o].phase = "gone" /\ AccountOf[o] \notin Broken ~> row[o].status \in Final

=============================================================================
