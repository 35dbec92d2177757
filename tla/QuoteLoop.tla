------------------------------ MODULE QuoteLoop ------------------------------
(****************************************************************************)
(* The maker loop of one strategy: the quote_sessions row, the worker's     *)
(* loop in memory, the cycle under way, the exchange's orders, and the      *)
(* user who halts, resumes, changes the mode and approves batches.          *)
(*                                                                          *)
(* Every await of a cycle is a step.  A share is worth one unit of capital, *)
(* quoted or held; profit, daily loss, rewards, audits and the shadow mode, *)
(* which places nothing, are left out.  A loop is detached between cycles.  *)
(****************************************************************************)
EXTENDS Integers, Sequences, FiniteSets, FiniteSetsExt

CONSTANTS
  Yes, No,       \* the two tokens of the market
  Levels,        \* price levels that the book may call for
  Size,          \* sizeShares
  MaxCapital, MaxInventory,  \* the caps of the strategy
  MaxOrders, MaxFaults, MaxControls
                 \* bounds: orders ever placed, crashes, statements that throw,
                 \* answers lost on their way,
                 \* what the user does: halts, kill switches, changes of mode,
                 \* cancels elsewhere, a pause of the strategy

Tokens == {Yes, No}
Orders == 1..MaxOrders
None == "none"

ASSUME QuoteAssumption ==
  /\ Yes # No /\ IsFiniteSet(Levels) /\ Size \in Nat \ {0}
  /\ MaxCapital \in Nat /\ MaxInventory \in Nat /\ MaxOrders \in Nat
  /\ MaxFaults \in Nat /\ MaxControls \in Nat

VARIABLES
  venue,     \* the orders ever placed, in order
  session,   \* the quote_sessions row
  loop,      \* the loop in memory
  cycle,     \* the cycle under way
  paused,    \* one of the kill switches is on
  proposal,  \* history of the last proposed batch: approved since, its executions
  used       \* faults and controls that have happened

vars == <<venue, session, loop, cycle, paused, proposal, used>>

Modes == {"confirm", "live"}
Batch == [places : [Tokens -> Levels \cup {None}], merge : Nat]
Holding == [inv : [Tokens -> Nat], merged : Nat]   \* merged is history: pairs taken out of inv
Nothing == [inv |-> [t \in Tokens |-> 0], merged |-> 0]
NoQuotes == [t \in Tokens |-> None]
Unknown == -1   \* not among the resting quotes

NoBatch == [places |-> NoQuotes, merge |-> 0]   \* never proposed

Off == [on |-> FALSE, base |-> [o \in Orders |-> Unknown], held |-> Nothing, merges |-> 0]
Rest == [pc |-> "rest", mode |-> "live", pending |-> NoBatch, approved |-> NoBatch,
         todo |-> {}, places |-> NoQuotes, merge |-> 0]

Init ==
  /\ venue = <<>>
  /\ session \in [status : {"idle"}, mode : Modes, pending : {NoBatch}, approved : {NoBatch},
                  held : {Nothing}]
  /\ loop = Off /\ cycle = Rest /\ paused = FALSE
  /\ proposal = [granted |-> FALSE, uses |-> 0]
  /\ used = [faults |-> 0, controls |-> 0]

-----------------------------------------------------------------------------
(* The exchange.                                                            *)

Placed == DOMAIN venue
Open == {o \in Placed : venue[o].open}

Fill(o) ==
  /\ o \in Open
  /\ venue' = [venue EXCEPT ![o].matched = @ + 1, ![o].open = venue[o].matched + 1 < Size]
  /\ UNCHANGED <<session, loop, cycle, paused, proposal, used>>

Fault == used.faults < MaxFaults /\ used' = [used EXCEPT !.faults = @ + 1]
Control == used.controls < MaxControls /\ used' = [used EXCEPT !.controls = @ + 1]

CancelledElsewhere(o) ==
  /\ o \in Open /\ Control
  /\ venue' = [venue EXCEPT ![o].open = FALSE]
  /\ UNCHANGED <<session, loop, cycle, paused, proposal>>

-----------------------------------------------------------------------------
(* The loop.                                                                *)

\* addLoop: nothing rests until the exchange has said so; the inventory is the row's.
Attach ==
  /\ ~loop.on
  /\ loop' = [Off EXCEPT !.on = TRUE, !.held = session.held]
  /\ UNCHANGED <<venue, session, cycle, paused, proposal, used>>

\* removeLoop: nothing is cancelled.
Detach ==
  /\ loop.on /\ cycle = Rest /\ Control
  /\ loop' = Off
  /\ UNCHANGED <<venue, session, cycle, paused, proposal>>

Resting == {o \in Placed : loop.base[o] # Unknown}

Go(pc) == cycle' = [cycle EXCEPT !.pc = pc]
Ending(pc) == cycle' = [Rest EXCEPT !.pc = pc]   \* nothing it has read matters any more
At(pc) == cycle.pc = pc

\* The cycle reads the row, the kill switches, and whether there is an executor.
Begin ==
  /\ loop.on /\ At("rest") /\ session.status # "halted"
  /\ paused => Resting # {}
  /\ cycle' \in {[Rest EXCEPT !.pc = pc, !.mode = session.mode, !.pending = session.pending,
                              !.approved = session.approved,
                              !.todo = IF paused THEN Resting ELSE {}]
                   : pc \in IF paused THEN {"withdraw"} ELSE {"poll", "unavailable"}}
  /\ UNCHANGED <<venue, session, loop, paused, proposal, used>>

\* pollMerges: a failed merge halts the loop, and the cycle goes on.
Poll ==
  /\ At("poll") /\ loop.merges > 0
  /\ loop' = [loop EXCEPT !.merges = @ - 1]
  /\ \/ UNCHANGED cycle
     \/ cycle' = [cycle EXCEPT !.pc = "fail", !.todo = Resting]
  /\ UNCHANGED <<venue, session, paused, proposal, used>>

AdoptedFromZero(o) == 0

\* An order that was not known is adopted with what it has filled by now.
Adopted(o) == venue[o].matched

\* diffOpenOrders: an order that vanished counts as filled.
Matched(o) == IF o \in Open THEN venue[o].matched ELSE Size
Gained(t, fills) == SumFunctionOnSet([o \in fills |-> Matched(o) - loop.base[o]],
                                     {o \in fills : venue[o].token = t})
Reconciled == [o \in Orders |-> CASE o \notin Open -> Unknown
                                  [] o \in Open \cap Resting -> venue[o].matched
                                  [] OTHER -> Adopted(o)]
Booked(fills) == [loop EXCEPT !.base = Reconciled,
                              !.held.inv = [t \in Tokens |-> @[t] + Gained(t, fills)]]

\* syncFills: a cycle that cannot see the book manages nothing.  A statement that
\* throws between the fills loses those that are not booked yet.
Sync ==
  /\ cycle.pc \in {"poll", "sync"}
  /\ \/ cycle' = Rest /\ UNCHANGED <<loop, used>>
     \/ loop' = Booked(Resting) /\ Go("decide") /\ UNCHANGED used
     \/ Fault /\ cycle' = Rest /\ \E fills \in SUBSET Resting : loop' = Booked(fills)
  /\ UNCHANGED <<venue, session, paused, proposal>>

Inv(t) == loop.held.inv[t]
Committed == Cardinality(Resting) * Size + Inv(Yes) + Inv(No)
Breach ==
  \/ Committed > MaxCapital
  \/ Inv(Yes) - Inv(No) > MaxInventory \/ Inv(No) - Inv(Yes) > MaxInventory

MergeOrPlace(pairs) == IF pairs > 0 THEN "merge" ELSE "place"
MergePairs == LET pairs == Min({Inv(Yes), Inv(No)})
              IN IF pairs >= Max({1, Size \div 4}) THEN pairs ELSE 0

\* diffQuotes: of the quotes on a token one at the wanted price is kept.
Keepers(want) == {k \in [Tokens -> Resting \cup {0}] : \A t \in Tokens :
  LET good == {o \in Resting : venue[o].token = t /\ venue[o].level = want[t]}
  IN IF good = {} THEN k[t] = 0 ELSE k[t] \in good}

\* The caps, and then the cancels and places that lead to the wanted quotes.
Decide ==
  /\ At("decide")
  /\ \/ Breach /\ cycle' = [cycle EXCEPT !.pc = "breach", !.todo = Resting]
     \/ /\ ~Breach
        /\ \E want \in [Tokens -> Levels] \cup {NoQuotes} : \E k \in Keepers(want) :
             cycle' = [cycle EXCEPT
               !.pc = IF cycle.mode = "live" THEN MergeOrPlace(MergePairs) ELSE "cancel",
               !.todo = {o \in Resting : k[venue[o].token] # o},
               !.places = [t \in Tokens |-> IF k[t] = 0 THEN want[t] ELSE None],
               !.merge = MergePairs]
  /\ UNCHANGED <<venue, session, loop, paused, proposal, used>>

\* executor.cancel: the order may be gone although the answer is an error.
CancelOne(o) ==
  /\ o \in cycle.todo /\ cycle.pc \in {"withdraw", "fail", "breach", "cancel", "place"}
  /\ cycle' = [cycle EXCEPT !.todo = @ \ {o}]
  /\ \/ /\ venue' = [venue EXCEPT ![o].open = FALSE]
        /\ \/ loop' = [loop EXCEPT !.base[o] = Unknown] /\ UNCHANGED used
           \/ Fault /\ UNCHANGED loop
     \/ UNCHANGED <<venue, loop, used>>
  /\ UNCHANGED <<session, paused, proposal>>

\* The quotes are withdrawn; a breach and a failed merge halt the session.  Without an
\* executor it is halted too, and nothing was cancelled.
Withdrawn ==
  /\ cycle.todo = {} /\ cycle.pc \in {"withdraw", "unavailable", "fail", "breach"}
  /\ session' = [session EXCEPT !.status = IF At("withdraw") THEN "idle" ELSE "halted"]
  /\ CASE cycle.pc \in {"withdraw", "unavailable"} -> cycle' = Rest
       [] At("fail") -> Go("sync")
       [] At("breach") -> Ending("persist")
  /\ UNCHANGED <<venue, loop, paused, proposal, used>>

\* executeMerge: the pairs leave the inventory when the merge is submitted.
Merge ==
  /\ At("merge")
  /\ \/ UNCHANGED loop
     \/ loop' = [loop EXCEPT !.held.inv = [t \in Tokens |-> Max({0, @[t] - cycle.merge})],
                             !.held.merged = @ + cycle.merge, !.merges = @ + 1]
  /\ cycle' = [cycle EXCEPT !.pc = "place", !.merge = 0]
  /\ UNCHANGED <<venue, session, paused, proposal, used>>

BaseFull == Size
BaseOfNew == 0

\* executor.place: the order may rest although the answer is an error.
PlaceOne(t) ==
  /\ At("place") /\ cycle.todo = {} /\ cycle.places[t] # None
  /\ cycle' = [cycle EXCEPT !.places[t] = None]
  /\ \/ /\ Len(venue) < MaxOrders
        /\ venue' = Append(venue, [token |-> t, level |-> cycle.places[t],
                                   open |-> TRUE, matched |-> 0])
        /\ \/ loop' = [loop EXCEPT !.base[Len(venue) + 1] = BaseOfNew] /\ UNCHANGED used
           \/ Fault /\ UNCHANGED loop
     \/ UNCHANGED <<venue, loop, used>>
  /\ UNCHANGED <<session, paused, proposal>>

AllPlaced == At("place") /\ cycle.todo = {} /\ cycle.places = NoQuotes

-----------------------------------------------------------------------------
(* Confirm mode: a batch is proposed, approved, and executed while current. *)

TheBatch == [places |-> cycle.places, merge |-> cycle.merge]

ClearedPending(s) == [s EXCEPT !.pending = NoBatch]
Cleared(s) == [s EXCEPT !.pending = NoBatch, !.approved = NoBatch]

ProposedOver(s, b) == [s EXCEPT !.pending = b]
Proposed(s, b) == [s EXCEPT !.pending = b, !.approved = NoBatch]

Consider ==
  /\ At("cancel") /\ cycle.todo = {}
  /\ \/ /\ TheBatch = NoBatch
        /\ session' = IF cycle.pending # NoBatch THEN Cleared(session) ELSE session
        /\ Ending("persist") /\ UNCHANGED proposal
     \/ /\ TheBatch # NoBatch /\ cycle.approved = TheBatch
        /\ Go(MergeOrPlace(cycle.merge)) /\ proposal' = [proposal EXCEPT !.uses = @ + 1] /\ UNCHANGED session
     \/ /\ TheBatch # NoBatch /\ cycle.approved # TheBatch /\ cycle.pending # TheBatch
        /\ session' = Proposed(session, TheBatch)
        /\ proposal' = [granted |-> FALSE, uses |-> 0] /\ Ending("persist")
     \/ /\ TheBatch # NoBatch /\ cycle.approved # TheBatch /\ cycle.pending = TheBatch
        /\ Ending("persist") /\ UNCHANGED <<session, proposal>>
  /\ UNCHANGED <<venue, loop, paused, used>>

ClearBatch ==
  /\ AllPlaced /\ cycle.mode = "confirm"
  /\ session' = Cleared(session)
  /\ Ending("persist")
  /\ UNCHANGED <<venue, loop, paused, proposal, used>>

\* persistScoreboard: the status is the loop's own, whatever the row says.
Persist ==
  /\ At("persist") \/ (AllPlaced /\ cycle.mode = "live")
  /\ session' = [session EXCEPT !.status = IF Resting # {} THEN "quoting" ELSE "idle",
                                !.held = loop.held]
  /\ cycle' = Rest
  /\ UNCHANGED <<venue, loop, paused, proposal, used>>

-----------------------------------------------------------------------------
(* Faults, and the user.                                                    *)

\* A statement throws: the cycle is over, the loop stays as it is.
Throw ==
  /\ cycle # Rest /\ Fault
  /\ cycle' = Rest
  /\ UNCHANGED <<venue, session, loop, paused, proposal>>

Crash ==
  /\ loop.on /\ Fault
  /\ loop' = Off /\ cycle' = Rest
  /\ UNCHANGED <<venue, session, paused, proposal>>

Halt ==
  /\ session.status # "halted" /\ Control
  /\ session' = [session EXCEPT !.status = "halted"]
  /\ UNCHANGED <<venue, loop, cycle, paused, proposal>>

Resume ==
  /\ session.status = "halted"
  /\ session' = [session EXCEPT !.status = "idle"]
  /\ UNCHANGED <<venue, loop, cycle, paused, proposal, used>>

SetMode ==
  /\ Control /\ \E m \in Modes \ {session.mode} : session' = [session EXCEPT !.mode = m]
  /\ UNCHANGED <<venue, loop, cycle, paused, proposal>>

\* approveBatch: only what is pending; the mode was looked at an await earlier.
Approve ==
  /\ session.pending # NoBatch
  /\ session' = [session EXCEPT !.approved = session.pending]
  /\ proposal' = [proposal EXCEPT !.granted = TRUE]
  /\ UNCHANGED <<venue, loop, cycle, paused, used>>

KillSwitch ==
  /\ paused' = ~paused
  /\ IF paused THEN UNCHANGED used ELSE Control
  /\ UNCHANGED <<venue, session, loop, cycle, proposal>>

-----------------------------------------------------------------------------
Next ==
  \/ Attach \/ Detach \/ Begin \/ Poll \/ Sync \/ Decide \/ Withdrawn
  \/ Merge \/ Consider \/ ClearBatch \/ Persist
  \/ \E o \in Orders : CancelOne(o) \/ Fill(o) \/ CancelledElsewhere(o)
  \/ \E t \in Tokens : PlaceOne(t)
  \/ Throw \/ Crash \/ Halt \/ Resume \/ SetMode \/ Approve \/ KillSwitch

Spec == Init /\ [][Next]_vars

-----------------------------------------------------------------------------
\* Types; a resting quote is on the book's record, and its baseline is not ahead of it.
TypeOK ==
  /\ venue \in Seq([token : Tokens, level : Levels, open : BOOLEAN, matched : 0..Size])
  /\ session \in [status : {"idle", "quoting", "halted"}, mode : Modes,
                  pending : Batch, approved : Batch, held : Holding]
  /\ loop.held \in Holding /\ loop.merges \in Nat
  /\ \A o \in Orders : loop.base[o] # Unknown => o \in Placed /\ loop.base[o] <= venue[o].matched

\* What an order can have added to the inventory.
Bookable(t) ==
  SumFunctionOnSet([o \in Placed |-> Matched(o)], {o \in Placed : venue[o].token = t})

\* A fill is booked once, whatever is cancelled, adopted, forgotten or read again
\* after a crash: the loop and the row hold no more than the orders can have filled.
FillsBookedOnce ==
  \A h \in {loop.held, session.held} : \A t \in Tokens : h.inv[t] + h.merged <= Bookable(t)

Executing == cycle.mode = "confirm" /\ cycle.pc \in {"merge", "place"}

\* In confirm mode nothing is placed or merged but under an approval of the proposal
\* that is still the current one.
ApprovalIsCurrent == Executing => proposal.granted

\* One approval executes one batch, once; a fault can make it execute again.
ApprovalUsedOnce == proposal.uses <= 1 + used.faults

\* A halted session stays halted until the user resumes it.
HaltStays == [][session.status = "halted" /\ session'.status # "halted" => Resume]_vars
=============================================================================
