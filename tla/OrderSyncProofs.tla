--------------------------- MODULE OrderSyncProofs ---------------------------
(****************************************************************************)
(* What OrderSync keeps true for every number of orders, accounts, tokens,  *)
(* sizes and faults: a verdict of the loop is true, and no intent shows a   *)
(* fill that the exchange has not made.                                     *)
(*                                                                          *)
(* A verdict is written from what two reads, made earlier in the pass, said *)
(* of the exchange; the invariant says what those reads are still worth     *)
(* when their result is used: an order that was not listed and is old is    *)
(* gone, and the fills of one that is gone only get fewer.                  *)
(*                                                                          *)
(* The second part is what progress rests on: a pass ends, no order is      *)
(* starved by the batch limit, and an order the exchange has dropped is     *)
(* settled by the pass that misses it, unless a fault or a read defers it.  *)
(****************************************************************************)
EXTENDS OrderSync, FiniteSetTheorems, TLAPS

BookOK ==
  \A o \in Orders :
    /\ venue[o].failed <= venue[o].matched /\ venue[o].matched <= Size[o]
    /\ venue[o].phase # "gone" => venue[o].matched < Size[o]
    /\ o \in old => venue[o].phase = "gone" \/ (venue[o].phase = "resting" /\ venue[o].listed)

Settled(o) == venue[o].phase = "gone"

ReadsOK ==
  /\ \A o \in pass.group :
       /\ pass.open[o] # Absent => pass.open[o] <= venue[o].matched
       /\ pass.open[o] = Absent /\ o \in old => Settled(o)
       /\ pass.trades[TokenOf[o]] = "read" =>
            /\ pass.fills[o] <= venue[o].matched
            /\ pass.open[o] = Absent /\ o \in old =>
                 pass.fills[o] >= venue[o].matched - venue[o].failed
  /\ \A o \in pass.tell : venue[o].matched = Size[o]

RowsOK ==
  \A o \in Orders :
    /\ row[o].filled <= venue[o].matched
    /\ row[o].by = "sync" => /\ Settled(o) /\ row[o].status \in Final
                             /\ row[o].filled >= venue[o].matched - venue[o].failed
    /\ row[o].status = "filled" \/ o \in told => venue[o].matched = Size[o]

Inv == TypeOK /\ BookOK /\ ReadsOK /\ RowsOK

-----------------------------------------------------------------------------
(* Writing rows.                                                            *)

\* Renumbering keeps everything of a row but its stamp.
LEMMA RenumberedRows ==
  ASSUME NEW r \in [Orders -> Row]
  PROVE  /\ Renumbered(r) \in [Orders -> Row]
         /\ \A o \in Orders : /\ Renumbered(r)[o].status = r[o].status
                              /\ Renumbered(r)[o].filled = r[o].filled
                              /\ Renumbered(r)[o].by = r[o].by
<1>1. ASSUME NEW o \in Orders
      PROVE  Cardinality({q \in Orders : r[q].stamp < r[o].stamp}) \in Nat
  BY SyncAssumption, FS_Subset, FS_CardinalityType
<1>. QED  BY <1>1 DEF Renumbered, Row

\* A stamp is put on in-flight rows only, and changes nothing else.
LEMMA StampedRows ==
  ASSUME NEW r \in [Orders -> Row], NEW S, NEW n \in Nat
  PROVE  /\ Stamped(r, S, n) \in [Orders -> Row]
         /\ \A o \in Orders : /\ Stamped(r, S, n)[o].status = r[o].status
                              /\ Stamped(r, S, n)[o].filled = r[o].filled
                              /\ Stamped(r, S, n)[o].by = r[o].by
  BY DEF Stamped, Row

\* What a pass becomes when a group ends keeps nothing that was read for it.
LEMMA RestPass ==
  ASSUME NEW p \in Pass, NEW S \in SUBSET Orders
  PROVE  /\ Rest(p, S) \in Pass
         /\ Rest(p, S).group = {} /\ Rest(p, S).tell = {}
  BY DEF Rest, Idle, Pass, Absent

\* One order of the group done: the reads of the others stand.
LEMMA DonePass ==
  ASSUME NEW p \in Pass, NEW o \in Orders
  PROVE  /\ Done(p, o) \in Pass
         /\ Done(p, o).tell \subseteq p.tell
         /\ Done(p, o).group \subseteq p.group
         /\ Done(p, o).group # {} => /\ Done(p, o).open = p.open
                                     /\ Done(p, o).trades = p.trades
                                     /\ Done(p, o).fills = p.fills
<1>1. p.batch \in SUBSET Orders /\ p.group \in SUBSET Orders
  BY DEF Pass
<1>2. CASE p.group = {o} /\ p.tell = {}
  BY <1>1, <1>2, RestPass DEF Done
<1>3. CASE ~(p.group = {o} /\ p.tell = {})
  <2>1. Done(p, o) = [p EXCEPT !.group = @ \ {o}]
    BY <1>3 DEF Done
  <2>. QED  BY <1>1, <2>1 DEF Pass
<1>. QED  BY <1>2, <1>3

-----------------------------------------------------------------------------
(* The invariant.                                                           *)

LEMMA IdlePass == Idle \in Pass
  BY DEF Idle, Pass, Absent

LEMMA InitInv == Init => Inv
  BY SyncAssumption DEF Init, Inv, TypeOK, BookOK, ReadsOK, RowsOK, Idle, Pass, Row, Venue,
     Absent, Nobody, Final, Settled

\* Reads that were good stay good when the pass loses some of its orders.
LEMMA ReadsKept ==
  ASSUME TypeOK, ReadsOK, NEW o \in Orders, pass' = Done(pass, o), UNCHANGED <<venue, old>>
  PROVE  ReadsOK'
<1>1. pass \in Pass /\ pass.group \subseteq Orders
  BY DEF TypeOK, Pass
<1>. QED  BY <1>1, DonePass DEF ReadsOK, Settled

\* What the exchange does.
LEMMA ExchangeStep ==
  ASSUME Inv, NEW o \in Orders, Exchange(o)
  PROVE  Inv'
<1>. USE SyncAssumption DEF Inv, Settled
<1>1. CASE Place(o)
  <2>1. TypeOK'
    BY <1>1, ZenonT(60) DEF Place, TypeOK, Venue, Row, InFlight
  <2>2. BookOK'
    BY <1>1 DEF Place, TypeOK, BookOK, Venue
  <2>3. ReadsOK'
    BY <1>1 DEF Place, TypeOK, ReadsOK, Venue, BookOK, Pass
  <2>4. RowsOK'
    BY <1>1 DEF Place, TypeOK, RowsOK, Venue, Row, Final
  <2>. QED  BY <2>1, <2>2, <2>3, <2>4
<1>2. CASE List(o)
  <2>1. TypeOK' /\ BookOK'
    BY <1>2 DEF List, TypeOK, BookOK, Venue
  <2>2. ReadsOK'
    BY <1>2 DEF List, TypeOK, ReadsOK, Venue, Pass
  <2>3. RowsOK'
    BY <1>2 DEF List, TypeOK, RowsOK, Venue, Row
  <2>. QED  BY <2>1, <2>2, <2>3
<1>3. CASE Match(o)
  <2>1. TypeOK'
    <3> DEFINE after == IF venue[o].matched + 1 = Size[o] THEN "gone" ELSE venue[o].phase
    <3>1. venue[o].matched + 1 \in Nat /\ after \in {"none", "resting", "gone"}
      BY DEF TypeOK, Venue
    <3>2. venue' = [venue EXCEPT ![o].matched = venue[o].matched + 1, ![o].phase = after]
      BY <1>3 DEF Match, TypeOK, Venue
    <3> HIDE DEF after
    <3>3. [venue[o] EXCEPT !.matched = venue[o].matched + 1, !.phase = after] \in Venue
      BY <3>1, ZenonT(60) DEF TypeOK, Venue
    <3>4. venue' = [venue EXCEPT ![o] =
                      [venue[o] EXCEPT !.matched = venue[o].matched + 1, !.phase = after]]
      BY <3>2 DEF TypeOK
    <3>5. venue' \in [Orders -> Venue]
      BY <3>3, <3>4 DEF TypeOK
    <3>. QED  BY <1>3, <3>5 DEF Match, TypeOK
  <2>2. BookOK'
    BY <1>3 DEF Match, TypeOK, BookOK, Venue
  <2>3. ReadsOK'
    BY <1>3 DEF Match, TypeOK, ReadsOK, Venue, BookOK, Pass
  <2>4. RowsOK'
    BY <1>3 DEF Match, TypeOK, RowsOK, Venue, Row, BookOK
  <2>. QED  BY <2>1, <2>2, <2>3, <2>4
<1>4. CASE Expire(o)
  BY <1>4 DEF Expire, TypeOK, BookOK, ReadsOK, RowsOK, Venue, Pass
<1>5. CASE TradeFails(o)
  <2>1. TypeOK' /\ BookOK'
    BY <1>5 DEF TradeFails, TypeOK, BookOK, Venue
  <2>2. ReadsOK'
    BY <1>5 DEF TradeFails, TypeOK, ReadsOK, Venue, Pass
  <2>3. RowsOK'
    BY <1>5 DEF TradeFails, TypeOK, RowsOK, Venue, Row
  <2>. QED  BY <2>1, <2>2, <2>3
<1>6. CASE GraceElapses(o)
  BY <1>6 DEF GraceElapses, TypeOK, BookOK, ReadsOK, RowsOK, Venue, Pass
<1>. QED  BY <1>1, <1>2, <1>3, <1>4, <1>5, <1>6 DEF Exchange

\* What a request to cancel does.
LEMMA UserStep ==
  ASSUME Inv, NEW o \in Orders, User(o)
  PROVE  Inv'
<1>. USE DEF Inv, Settled
<1>1. CASE CancelSend(o)
  BY <1>1 DEF CancelSend, TypeOK, BookOK, ReadsOK, RowsOK, Venue, Pass
<1>2. CASE CancelRead(o)
  BY <1>2 DEF CancelRead, TypeOK, BookOK, ReadsOK, RowsOK
<1>3. CASE CancelWrite(o)
  <2>1. TypeOK'
    BY <1>3, ZenonT(60) DEF CancelWrite, TypeOK, Row, Final
  <2>2. BookOK' /\ ReadsOK'
    BY <1>3 DEF CancelWrite, BookOK, ReadsOK
  <2>3. RowsOK'
    BY <1>3 DEF CancelWrite, TypeOK, RowsOK, Row
  <2>. QED  BY <2>1, <2>2, <2>3
<1>. QED  BY <1>1, <1>2, <1>3 DEF User

\* A pass lists its batch, and reads the open orders of one account after another.
LEMMA ReadingStep ==
  ASSUME Inv, StartPass \/ \E a \in Accounts : ReadOpen(a) \/ OpenFails(a)
  PROVE  Inv'
<1>. USE SyncAssumption DEF Inv, Settled
<1>1. CASE StartPass
  <2>1. PICK S \in SUBSET Orders : pass' = [Idle EXCEPT !.batch = S, !.now = Cardinality(Orders)]
    BY <1>1 DEF StartPass
  <2>2. Cardinality(Orders) \in Nat
    BY FS_CardinalityType
  <2>3. pass' \in Pass /\ pass'.group = {} /\ pass'.tell = {}
    BY <2>1, <2>2 DEF Idle, Pass, Absent
  <2>4. row' \in [Orders -> Row]
        /\ \A o \in Orders : /\ row'[o].status = row[o].status
                             /\ row'[o].filled = row[o].filled /\ row'[o].by = row[o].by
    BY <1>1, RenumberedRows DEF StartPass, TypeOK
  <2>5. TypeOK' /\ BookOK' /\ ReadsOK'
    BY <1>1, <2>3, <2>4 DEF StartPass, TypeOK, BookOK, ReadsOK
  <2>6. RowsOK'
    BY <1>1, <2>4, ZenonT(60) DEF StartPass, RowsOK
  <2>. QED  BY <2>5, <2>6
<1>2. ASSUME NEW a \in Accounts, ReadOpen(a) PROVE Inv'
  <2>1. pass.batch \subseteq Orders /\ pass.now \in Nat
    BY DEF TypeOK, Pass
  <2> DEFINE book == [o \in Orders |->
              IF AccountOf[o] = a /\ venue[o].phase = "resting" /\ venue[o].listed
              THEN venue[o].matched ELSE Absent]
             mine == Of(pass.batch, a)
  <2>2. pass' \in Pass
    <3>1. book \in [Orders -> {Absent} \cup Nat]
      BY DEF TypeOK, Venue
    <3>2. mine \in SUBSET Orders
      BY <2>1 DEF Of
    <3>3. pass' = [Idle EXCEPT !.batch = pass.batch \ mine, !.group = mine,
                              !.now = pass.now + 1, !.open = book]
      BY <1>2 DEF ReadOpen
    <3>. HIDE DEF book, mine
    <3>4. pass.batch \ mine \in SUBSET Orders /\ pass.now + 1 \in Nat
      BY <2>1
    <3>5. \A p \in Pass : \A S \in SUBSET Orders, G \in SUBSET Orders, n \in Nat,
                          b \in [Orders -> {Absent} \cup Nat] :
             [p EXCEPT !.batch = S, !.group = G, !.now = n, !.open = b] \in Pass
      BY DEF Pass
    <3>. QED  BY <3>1, <3>2, <3>3, <3>4, <3>5, IdlePass
  <2>3. /\ pass'.group = Of(pass.batch, a) /\ pass'.tell = {}
        /\ pass'.trades = [t \in Tokens |-> "unread"]
        /\ pass'.open = [o \in Orders |->
              IF AccountOf[o] = a /\ venue[o].phase = "resting" /\ venue[o].listed
              THEN venue[o].matched ELSE Absent]
    BY <1>2 DEF ReadOpen, Idle
  <2>4. ReadsOK'
    <3>1. \A o \in Orders : pass'.trades[TokenOf[o]] # "read"
      BY <2>3
    <3>2. \A o \in pass'.group :
            /\ pass'.open[o] # Absent => pass'.open[o] <= venue[o].matched
            /\ pass'.open[o] = Absent /\ o \in old => Settled(o)
      BY <2>1, <2>3 DEF BookOK, Of, TypeOK, Venue, Absent
    <3>3. UNCHANGED <<venue, old>> /\ pass'.group \subseteq Orders
      BY <1>2, <2>1, <2>3 DEF ReadOpen, Of
    <3>. QED  BY <2>3, <3>1, <3>2, <3>3 DEF ReadsOK
  <2>. QED  BY <1>2, <2>2, <2>4 DEF ReadOpen, TypeOK, BookOK, RowsOK
<1>3. ASSUME NEW a \in Accounts, OpenFails(a) PROVE Inv'
  <2>1. pass.batch \subseteq Orders /\ pass.now + 1 \in Nat
    BY DEF TypeOK, Pass
  <2>2. [pass EXCEPT !.now = @ + 1] \in Pass
    BY DEF TypeOK, Pass
  <2>3. pass' \in Pass /\ pass'.group = {} /\ pass'.tell = {}
    BY <1>3, <2>1, <2>2, RestPass DEF OpenFails, Of
  <2>4. row' \in [Orders -> Row]
        /\ \A o \in Orders : /\ row'[o].status = row[o].status
                             /\ row'[o].filled = row[o].filled /\ row'[o].by = row[o].by
    BY <1>3, <2>1, StampedRows DEF OpenFails, TypeOK
  <2>5. TypeOK' /\ BookOK' /\ ReadsOK'
    BY <1>3, <2>3, <2>4 DEF OpenFails, TypeOK, BookOK, ReadsOK
  <2>6. RowsOK'
    BY <1>3, <2>4 DEF OpenFails, RowsOK
  <2>. QED  BY <2>5, <2>6
<1>. QED  BY <1>1, <1>2, <1>3

\* A pass deals with one order.
LEMMA SyncStep ==
  ASSUME Inv, NEW o \in Orders, SyncOne(o)
  PROVE  Inv'
<1>. USE SyncAssumption DEF Inv, Settled
<1>1. pass \in Pass /\ pass.group \subseteq Orders /\ pass.now \in Nat
      /\ row \in [Orders -> Row] /\ venue \in [Orders -> Venue]
  BY DEF TypeOK, Pass
<1>2. CASE Resting(o)
  <2>1. o \in pass.group /\ pass.open[o] \in Nat /\ pass.open[o] <= venue[o].matched
    BY <1>1, <1>2 DEF Resting, Turn, ReadsOK, Pass
  <2>2. pass' \in Pass /\ ReadsOK'
    BY <1>1, <1>2, DonePass, ReadsKept DEF Resting
  <2>3. row' \in [Orders -> Row] /\ RowsOK'
    <3>1. CASE row[o].status \in InFlight
      <4>1. row' = [row EXCEPT ![o] = [row[o] EXCEPT !.status = "acknowledged",
                                  !.filled = pass.open[o], !.stamp = pass.now]]
        BY <1>2, <3>1 DEF Resting, FillState
      <4>2. row' \in [Orders -> Row]
        BY <1>1, <2>1, <4>1 DEF Row, InFlight
      <4>3. RowsOK'
        <5>1. SUFFICES ASSUME NEW q \in Orders PROVE RowsOK!(q)'
          BY DEF RowsOK
        <5>2. UNCHANGED <<venue, told>> /\ RowsOK!(q) /\ RowsOK!(o)
          BY <1>2 DEF Resting, RowsOK
        <5>3. CASE q = o
          <6>1. /\ row'[o].filled = pass.open[o] /\ row'[o].status = "acknowledged"
                /\ row'[o].by = row[o].by /\ row[o].by # "sync"
            BY <1>1, <3>1, <4>1, <5>2 DEF Row, InFlight, Final
          <6>. QED  BY <2>1, <5>2, <5>3, <6>1
        <5>4. CASE q # o
          BY <1>1, <4>1, <5>2, <5>4
        <5>. QED  BY <5>3, <5>4
      <4>. QED  BY <4>2, <4>3
    <3>2. CASE row[o].status \notin InFlight
      BY <1>1, <1>2, <3>2 DEF Resting, FillState, RowsOK
    <3>. QED  BY <3>1, <3>2
  <2>. QED  BY <1>2, <2>2, <2>3 DEF Resting, TypeOK, BookOK
<1>3. CASE Young(o)
  <2>1. pass' \in Pass /\ ReadsOK'
    BY <1>1, <1>3, DonePass, ReadsKept DEF Young
  <2>2. /\ row' \in [Orders -> Row] /\ UNCHANGED <<venue, told>>
        /\ \A q \in Orders : /\ row'[q].status = row[q].status
                              /\ row'[q].filled = row[q].filled
                              /\ row'[q].by = row[q].by
    <3>1. row' = Stamped(row, {o}, pass.now) /\ UNCHANGED <<venue, told>> BY <1>3 DEF Young
    <3>2. row \in [Orders -> Row] /\ pass.now \in Nat BY <1>1 DEF Pass
    <3>. QED  BY <3>1, <3>2, StampedRows
  <2>3. RowsOK'
    BY <1>1, <2>2 DEF RowsOK, Settled
  <2>. QED  BY <1>3, <2>1, <2>2, <2>3 DEF Young, TypeOK, BookOK
<1>4. CASE ReadTrades(o)
  <2>1. \A q \in Orders : FillsForOrder(q) \in Nat /\ FillsForOrder(q) <= venue[q].matched
    BY <1>1 DEF FillsForOrder, BookOK, Venue
  <2>2. pass' \in Pass
    BY <1>1, <1>4, <2>1 DEF ReadTrades, Pass
  <2>3. ReadsOK'
    BY <1>1, <1>4, <2>1 DEF ReadTrades, ReadsOK, Pass, FillsForOrder, Venue
  <2>. QED  BY <1>4, <2>2, <2>3 DEF ReadTrades, TypeOK, BookOK, RowsOK
<1>5. CASE TradesFail(o)
  <2>1. pass' \in Pass /\ ReadsOK'
    BY <1>1, <1>5 DEF TradesFail, ReadsOK, Pass
  <2>. QED  BY <1>5, <2>1 DEF TradesFail, TypeOK, BookOK, RowsOK
<1>6. CASE Untouched(o)
  <2>1. pass' \in Pass /\ ReadsOK'
    BY <1>1, <1>6, DonePass, ReadsKept DEF Untouched
  <2>. QED  BY <1>6, <2>1 DEF Untouched, TypeOK, BookOK, RowsOK
<1>7. CASE Resolve(o)
  <2>1. /\ o \in pass.group /\ Settled(o)
        /\ pass.fills[o] \in Nat /\ pass.fills[o] <= venue[o].matched
        /\ pass.fills[o] >= venue[o].matched - venue[o].failed
    BY <1>1, <1>7 DEF Resolve, Missing, WithinGrace, Turn, ReadsOK, Pass
  <2>2. pass.fills[o] = Size[o] => venue[o].matched = Size[o]
    <3>1. venue[o].matched \in Nat /\ Size[o] \in Nat /\ venue[o].matched <= Size[o]
      BY <1>1 DEF BookOK, Venue
    <3>. QED  BY <2>1, <3>1
  <2>3. Resolution(o) \in Row
    BY <1>1, <2>1 DEF Resolution, Row, Final
  <2>4. row' \in [Orders -> Row] /\ RowsOK'
    BY <1>1, <1>7, <2>1, <2>2, <2>3 DEF Resolve, Resolution, FillState, Row, Venue, RowsOK, Final
  <2>5. pass' \in Pass /\ ReadsOK'
    <3>1. CASE pass' = Done(pass, o)
      BY <1>1, <1>7, <3>1, DonePass, ReadsKept DEF Resolve
    <3>2. CASE pass' # Done(pass, o)
      <4>1. pass' = [pass EXCEPT !.tell = {o}] /\ row'[o].status = "filled"
        BY <1>7, <3>2 DEF Resolve
      <4>2. venue[o].matched = Size[o]
        BY <1>7, <2>4, <4>1 DEF Resolve, RowsOK
      <4>. QED  BY <1>1, <1>7, <4>1, <4>2 DEF Resolve, ReadsOK, Pass
    <3>. QED  BY <3>1, <3>2
  <2>. QED  BY <1>7, <2>4, <2>5 DEF Resolve, TypeOK, BookOK
<1>8. CASE Announce(o)
  <2> DEFINE quiet == [pass EXCEPT !.tell = {}]
  <2>1. quiet \in Pass /\ quiet.group = pass.group /\ quiet.tell = {}
        /\ quiet.open = pass.open /\ quiet.trades = pass.trades /\ quiet.fills = pass.fills
    BY <1>1 DEF Pass
  <2>2. pass' = Done(quiet, o) /\ UNCHANGED <<venue, old, row, cancel, faults>>
    BY <1>8 DEF Announce
  <2> HIDE DEF quiet
  <2>3. pass' \in Pass /\ ReadsOK'
    <3>1. /\ Done(quiet, o) \in Pass /\ Done(quiet, o).tell = {}
          /\ Done(quiet, o).group \subseteq pass.group
          /\ Done(quiet, o).group # {} => /\ Done(quiet, o).open = pass.open
                                          /\ Done(quiet, o).trades = pass.trades
                                          /\ Done(quiet, o).fills = pass.fills
      <4>1. Done(quiet, o).tell \subseteq {} /\ Done(quiet, o) \in Pass
        BY <2>1, DonePass
      <4>2. Done(quiet, o).group \subseteq quiet.group
        BY <2>1, DonePass
      <4>3. Done(quiet, o).group # {} => /\ Done(quiet, o).open = quiet.open
                                         /\ Done(quiet, o).trades = quiet.trades
                                         /\ Done(quiet, o).fills = quiet.fills
        BY <2>1, DonePass
      <4>. QED  BY <2>1, <4>1, <4>2, <4>3
    <3>. QED  BY <1>1, <2>2, <3>1 DEF ReadsOK
  <2>4. venue[o].matched = Size[o]
    BY <1>8 DEF Announce, ReadsOK
  <2>. QED  BY <1>8, <2>2, <2>3, <2>4 DEF Announce, TypeOK, BookOK, RowsOK
<1>. QED  BY <1>2, <1>3, <1>4, <1>5, <1>6, <1>7, <1>8 DEF SyncOne

\* A statement that throws, or a crash, forgets what was read.
LEMMA FaultStep ==
  ASSUME Inv, GroupThrows \/ Crash
  PROVE  Inv'
<1>1. Idle \in Pass /\ Idle.group = {} /\ Idle.tell = {}
  BY DEF Idle, Pass, Absent
<1>2. pass' \in Pass /\ pass'.group = {} /\ pass'.tell = {}
  BY <1>1, RestPass DEF GroupThrows, Crash, Inv, TypeOK, Pass
<1>. QED  BY <1>2, SyncAssumption DEF GroupThrows, Crash, Inv, TypeOK, BookOK, ReadsOK, RowsOK, Settled

LEMMA StepInv == Inv /\ [Next]_vars => Inv'
<1>. SUFFICES ASSUME Inv, [Next]_vars PROVE Inv'
  OBVIOUS
<1>1. CASE PassStep
  BY <1>1, ReadingStep, SyncStep DEF PassStep
<1>2. CASE GroupThrows \/ Crash
  BY <1>2, FaultStep
<1>3. ASSUME NEW o \in Orders, Exchange(o) \/ User(o) PROVE Inv'
  BY <1>3, ExchangeStep, UserStep
<1>4. CASE UNCHANGED vars
  BY <1>4 DEF vars, Inv, TypeOK, BookOK, ReadsOK, RowsOK, Settled
<1>. QED  BY <1>1, <1>2, <1>3, <1>4 DEF Next

\* The state of the loop, the rows and the exchange is always of its type.
THEOREM TypeCorrect == Spec => []TypeOK
<1>1. Inv => TypeOK
  BY DEF Inv
<1>. QED  BY <1>1, InitInv, StepInv, PTL DEF Spec

\* Every verdict of the loop is true, whenever and in whatever order the exchange,
\* the user's requests and faults come between its reads and its writes.
THEOREM VerdictsAreTrue == Spec => []VerdictIsTrue
<1>1. Inv => VerdictIsTrue
  BY DEF Inv, RowsOK, VerdictIsTrue, Settled
<1>. QED  BY <1>1, InitInv, StepInv, PTL DEF Spec

\* No intent shows a fill that the exchange has not made.
THEOREM FillsAreReal == Spec => []RecordWithinVenue
<1>1. Inv => RecordWithinVenue
  BY DEF Inv, RowsOK, RecordWithinVenue
<1>. QED  BY <1>1, InitInv, StepInv, PTL DEF Spec


-----------------------------------------------------------------------------
(* OrdersSettle, but for the fairness: passes end, every order gets its turn, *)
(* and a turn that meets no failure settles an order that is gone.            *)

\* What a pass is between its steps, and what it has to do with the rows: no row has a
\* later stamp than its own, and its orders are intents.
Shape ==
  /\ pass.tell = {} \/ \E o \in pass.group : pass.tell = {o}
  /\ pass.batch = {} /\ pass.group = {} => pass = Idle
  /\ pass # Idle => \A o \in Orders : row[o].stamp <= pass.now
  /\ \A o \in pass.batch \cup pass.group : row[o].status # "none"
  /\ \A o \in pass.tell : row[o].status \in Final
  /\ \A o \in Orders : row[o].status # "none" \/ cancel[o] # "none" => venue[o].phase # "none"

Types == TypeOK /\ Shape

LEMMA PassTypes ==
  ASSUME TypeOK
  PROVE  /\ pass \in Pass /\ pass.batch \in SUBSET Orders /\ pass.group \in SUBSET Orders
         /\ pass.tell \in SUBSET Orders /\ pass.now \in Nat
         /\ row \in [Orders -> Row] /\ \A o \in Orders : row[o].stamp \in Nat
BY DEF TypeOK, Pass, Row

\* Orders that their pass serves in this step: all of the others keep their stamps.
Served(o) ==
  \/ Resting(o) \/ Young(o) \/ Resolve(o)
  \/ \E a \in Accounts : OpenFails(a) /\ o \in Of(pass.batch, a)

LEMMA FillStateIs ==
  ASSUME NEW r \in [Orders -> Row], NEW o \in Orders, NEW w
  PROVE  /\ \A q \in Orders : q # o => FillState(r, o, w)[q] = r[q]
         /\ FillState(r, o, w)[o] = IF r[o].status \in InFlight THEN w ELSE r[o]
BY DEF FillState

LEMMA StampedIs ==
  ASSUME NEW r \in [Orders -> Row], NEW S, NEW n \in Nat, NEW o \in Orders
  PROVE  /\ o \in S /\ r[o].status \in InFlight => Stamped(r, S, n)[o].stamp = n
         /\ ~(o \in S /\ r[o].status \in InFlight) => Stamped(r, S, n)[o] = r[o]
BY DEF Stamped, Row

LEMMA TheServed ==
  ASSUME Types, NEW o \in Orders, Served(o)
  PROVE  /\ pass # Idle
         /\ \/ /\ row[o].status \in InFlight /\ row'[o].status \in InFlight
               /\ IF \E a \in Accounts : OpenFails(a) THEN row'[o].stamp \in {pass.now, pass.now + 1}
                                                     ELSE row'[o].stamp = pass.now
            \/ row[o].status \in InFlight /\ row'[o].status \in Final /\ row'[o].stamp = pass.now
            \/ row[o].status \notin InFlight /\ row'[o] = row[o]
<1>1. TypeOK /\ pass.now \in Nat /\ row \in [Orders -> Row] /\ row[o] \in Row BY PassTypes DEF Types, TypeOK
<1>2. Idle.group = {} /\ Idle.batch = {} BY DEF Idle
<1>3. CASE Resting(o)
  <2> DEFINE w == [row[o] EXCEPT !.status = "acknowledged", !.filled = pass.open[o], !.stamp = pass.now]
  <2>1. o \in pass.group /\ row' = FillState(row, o, w) BY <1>3 DEF Resting, Turn
  <2>2. w.status = "acknowledged" /\ w.stamp = pass.now BY <1>1 DEF Row
  <2> HIDE DEF w
  <2>3. row'[o] = IF row[o].status \in InFlight THEN w ELSE row[o] BY <1>1, <2>1, FillStateIs
  <2> QED BY <1>2, <2>1, <2>2, <2>3 DEF InFlight
<1>4. CASE Young(o)
  <2>1. o \in pass.group /\ row' = Stamped(row, {o}, pass.now)
    BY <1>4 DEF Young, WithinGrace, Missing, Turn
  <2> QED BY <1>1, <1>2, <2>1, StampedIs, StampedRows
<1>5. CASE Resolve(o)
  <2>1. o \in pass.group /\ row' = FillState(row, o, Resolution(o))
    BY <1>5 DEF Resolve, Missing, Turn
  <2>2. Resolution(o).status \in Final /\ Resolution(o).stamp = pass.now BY <1>1 DEF Resolution, Row, Final
  <2>3. row'[o] = IF row[o].status \in InFlight THEN Resolution(o) ELSE row[o] BY <1>1, <2>1, FillStateIs
  <2> QED BY <1>2, <2>1, <2>2, <2>3
<1>6. CASE \E a \in Accounts : OpenFails(a) /\ o \in Of(pass.batch, a)
  <2>1. PICK a \in Accounts : OpenFails(a) /\ o \in Of(pass.batch, a) BY <1>6
  <2>2. o \in pass.batch /\ row' = Stamped(row, Of(pass.batch, a), pass.now + 1) BY <2>1 DEF OpenFails, Of
  <2> QED BY <1>1, <1>2, <2>1, <2>2, StampedIs, StampedRows
<1> QED BY <1>3, <1>4, <1>5, <1>6 DEF Served

LEMMA TheSpared ==
  ASSUME Types, [Next]_vars, ~StartPass, NEW o \in Orders, ~Served(o)
  PROVE  /\ row'[o].stamp = row[o].stamp
         /\ row'[o].status = row[o].status \/ Place(o) \/ CancelWrite(o)
<1>1. TypeOK /\ pass.now \in Nat /\ row \in [Orders -> Row] BY PassTypes DEF Types
<1>2. CASE UNCHANGED row BY <1>2
<1>3. ASSUME NEW q \in Orders, Resting(q) \/ Resolve(q) \/ Young(q)
      PROVE  row'[o] = row[o]
  <2>1. q # o BY <1>3 DEF Served
  <2>2. CASE Resting(q) \/ Resolve(q) BY <1>1, <2>1, <2>2, FillStateIs DEF Resting, Resolve
  <2>3. CASE Young(q) BY <1>1, <2>1, <2>3, StampedIs DEF Young
  <2> QED BY <1>3, <2>2, <2>3
<1>4. ASSUME NEW a \in Accounts, OpenFails(a) PROVE row'[o] = row[o]
  <2>1. o \notin Of(pass.batch, a) BY <1>4 DEF Served
  <2>2. row' = Stamped(row, Of(pass.batch, a), pass.now + 1) BY <1>4 DEF OpenFails
  <2>3. pass.now + 1 \in Nat BY <1>1
  <2> QED BY <1>1, <2>1, <2>2, <2>3, StampedIs
<1>5. ASSUME NEW q \in Orders, Place(q) \/ CancelWrite(q)
      PROVE  /\ row'[o].stamp = row[o].stamp
             /\ row'[o].status = row[o].status \/ q = o
  BY <1>1, <1>5 DEF Place, CancelWrite, Row
<1>6. \/ UNCHANGED row \/ (\E a \in Accounts : OpenFails(a))
      \/ \E q \in Orders : Resting(q) \/ Resolve(q) \/ Young(q) \/ Place(q) \/ CancelWrite(q)
  BY DEF Next, vars, PassStep, ReadOpen, SyncOne, ReadTrades, TradesFail, Untouched, Announce, GroupThrows,
         Crash, Exchange, List, Match, Expire, TradeFails, GraceElapses, User, CancelSend, CancelRead
<1> QED BY <1>2, <1>3, <1>4, <1>5, <1>6

\* What a step makes of the pass.
Turns(o) == Turn(o) /\ pass' = Done(pass, o)
Tries(o) ==
  /\ Turn(o) /\ pass.trades[TokenOf[o]] = "unread"
  /\ \E result \in {"read", "failed"} : pass'.trades = [pass.trades EXCEPT ![TokenOf[o]] = result]
  /\ pass'.batch = pass.batch /\ pass'.group = pass.group /\ pass'.open = pass.open
  /\ pass'.tell = pass.tell /\ pass'.now = pass.now
Tells(o) == Turn(o) /\ row'[o].status \in Final /\ pass' = [pass EXCEPT !.tell = {o}]
Forgets == pass' = Idle \/ (pass.group # {} /\ pass' = Rest(pass, pass.batch))

LEMMA SyncMoves ==
  ASSUME Types, NEW o \in Orders, SyncOne(o)
  PROVE  Turns(o) \/ Tries(o) \/ Tells(o) \/ Announce(o)
<1>1. pass \in Pass BY PassTypes DEF Types
<1>2. CASE Resting(o) \/ Young(o) \/ Untouched(o)
  BY <1>2 DEF Resting, Young, Untouched, WithinGrace, Missing, Turns
<1>3. CASE ReadTrades(o) \/ TradesFail(o)
  BY <1>1, <1>3 DEF ReadTrades, TradesFail, Missing, Tries, Pass
<1>4. CASE Resolve(o) BY <1>4 DEF Resolve, Missing, Turns, Tells, Final
<1> QED BY <1>2, <1>3, <1>4 DEF SyncOne

LEMMA PassMoves ==
  ASSUME Types, [Next]_vars
  PROVE  \/ UNCHANGED pass \/ StartPass \/ \E a \in Accounts : ReadOpen(a) \/ OpenFails(a)
         \/ \E o \in Orders : Turns(o) \/ Tries(o) \/ Tells(o) \/ Announce(o)
         \/ Forgets /\ (GroupThrows \/ Crash)
<1>1. CASE UNCHANGED vars BY <1>1 DEF vars
<1>2. ASSUME NEW o \in Orders, Exchange(o) \/ User(o) PROVE UNCHANGED pass
  BY <1>2 DEF Exchange, Place, List, Match, Expire, TradeFails, GraceElapses,
              User, CancelSend, CancelRead, CancelWrite
<1>3. CASE GroupThrows \/ Crash BY <1>3 DEF GroupThrows, Crash, Forgets
<1> QED BY <1>1, <1>2, <1>3, SyncMoves DEF Next, PassStep

LEMMA IdleIs ==
  Idle.group = {} /\ Idle.batch = {} /\ Idle.tell = {}
BY DEF Idle

LEMMA RestIs ==
  ASSUME NEW p \in Pass, NEW S
  PROVE  /\ Rest(p, S).batch = S /\ Rest(p, S).group = {} /\ Rest(p, S).tell = {}
         /\ S = {} => Rest(p, S) = Idle
         /\ S # {} => Rest(p, S).now = p.now
BY DEF Rest, Idle

LEMMA DoneIs ==
  ASSUME NEW p \in Pass, NEW o \in Orders
  PROVE  /\ p.group = {o} /\ p.tell = {} => Done(p, o) = Rest(p, p.batch)
         /\ ~(p.group = {o} /\ p.tell = {}) =>
              /\ Done(p, o).batch = p.batch /\ Done(p, o).group = p.group \ {o}
              /\ Done(p, o).tell = p.tell /\ Done(p, o).now = p.now
              /\ Done(p, o).open = p.open /\ Done(p, o).trades = p.trades
BY DEF Done, Pass

LEMMA DoneShape ==
  ASSUME NEW p \in Pass, NEW o \in Orders, p.tell = {}, o \in p.group
  PROVE  /\ Done(p, o).tell = {} /\ Done(p, o).batch = p.batch
         /\ Done(p, o).group = p.group \ {o}
         /\ Done(p, o).batch = {} /\ Done(p, o).group = {} => Done(p, o) = Idle
         /\ Done(p, o) # Idle => Done(p, o).now = p.now
<1>1. CASE p.group = {o}
  <2>1. Done(p, o) = Rest(p, p.batch) BY <1>1, DoneIs
  <2> QED BY <1>1, <2>1, RestIs
<1>2. CASE p.group # {o}
  <2>1. p.group \ {o} # {} BY <1>2
  <2> QED BY <1>2, <2>1, DoneIs
<1> QED BY <1>1, <1>2

\* Once the last order is announced, its group is done with it.
LEMMA AnnounceShape ==
  ASSUME Types, NEW o \in Orders, Announce(o)
  PROVE  /\ pass.tell = {o} /\ o \in pass.group
         /\ pass'.tell = {} /\ pass'.batch = pass.batch /\ pass'.group = pass.group \ {o}
         /\ pass'.batch = {} /\ pass'.group = {} => pass' = Idle
         /\ pass' # Idle => pass'.now = pass.now
         /\ pass'.group # {} => pass'.open = pass.open /\ pass'.trades = pass.trades
<1> DEFINE quiet == [pass EXCEPT !.tell = {}]
<1>1. pass \in Pass /\ pass.tell = {o} /\ o \in pass.group
  BY PassTypes DEF Types, Shape, Announce
<1>2. /\ quiet \in Pass /\ quiet.tell = {} /\ quiet.batch = pass.batch /\ quiet.group = pass.group
      /\ quiet.now = pass.now /\ quiet.open = pass.open /\ quiet.trades = pass.trades
  BY <1>1 DEF Pass
<1>3. pass' = Done(quiet, o) BY DEF Announce
<1> HIDE DEF quiet
<1>4. /\ Done(quiet, o).tell = {} /\ Done(quiet, o).batch = quiet.batch
      /\ Done(quiet, o).group = quiet.group \ {o}
      /\ Done(quiet, o).batch = {} /\ Done(quiet, o).group = {} => Done(quiet, o) = Idle
      /\ Done(quiet, o) # Idle => Done(quiet, o).now = quiet.now
  BY <1>1, <1>2, DoneShape
<1>5. Done(quiet, o).group # {} => Done(quiet, o).open = quiet.open /\ Done(quiet, o).trades = quiet.trades
  BY <1>2, DonePass
<1> QED BY <1>1, <1>2, <1>3, <1>4, <1>5

LEMMA StartIs ==
  ASSUME Types, StartPass
  PROVE  /\ pass = Idle /\ pass'.group = {} /\ pass'.tell = {} /\ pass'.batch \subseteq Pending
         /\ pass'.batch # {} /\ pass'.now = Cardinality(Orders)
         /\ \A o \in Orders :
              /\ row'[o].status = row[o].status
              /\ row'[o].stamp = Cardinality({q \in Orders : row[q].stamp < row[o].stamp})
<1>1. row \in [Orders -> Row] BY PassTypes DEF Types
<1>2. \A o \in Orders :
        /\ row'[o].status = row[o].status
        /\ row'[o].stamp = Cardinality({q \in Orders : row[q].stamp < row[o].stamp})
  BY <1>1 DEF StartPass, Renumbered, Row
<1>3. PICK S \in SUBSET Orders : Listable(S) /\ S # {} /\
        pass' = [Idle EXCEPT !.batch = S, !.now = Cardinality(Orders)]
  BY DEF StartPass
<1> QED BY <1>2, <1>3 DEF StartPass, Listable, Idle

LEMMA OpenFailsIs ==
  ASSUME Types, NEW a \in Accounts, OpenFails(a)
  PROVE  /\ pass # Idle /\ pass.group = {} /\ pass.tell = {} /\ Of(pass.batch, a) # {}
         /\ pass'.batch = pass.batch \ Of(pass.batch, a) /\ pass'.group = {} /\ pass'.tell = {}
         /\ pass'.batch = {} => pass' = Idle
         /\ pass' # Idle => pass'.now = pass.now + 1
<1> DEFINE p == [pass EXCEPT !.now = @ + 1]
           S == pass.batch \ Of(pass.batch, a)
<1>1. pass \in Pass /\ pass.now \in Nat /\ pass.batch \in SUBSET Orders BY PassTypes DEF Types
<1>2. p \in Pass /\ p.now = pass.now + 1 BY <1>1 DEF Pass
<1>3. pass' = Rest(p, S) /\ pass.group = {} /\ pass.tell = {} /\ Of(pass.batch, a) # {}
  BY DEF OpenFails, NextGroup
<1>4. pass # Idle BY <1>3, IdleIs DEF Of
<1> HIDE DEF p, S
<1> QED BY <1>2, <1>3, <1>4, RestIs DEF S

LEMMA ReadOpenIs ==
  ASSUME Types, NEW a \in Accounts, ReadOpen(a)
  PROVE  /\ pass # Idle /\ pass.group = {} /\ pass.tell = {} /\ Of(pass.batch, a) # {}
         /\ pass'.batch = pass.batch \ Of(pass.batch, a) /\ pass'.group = Of(pass.batch, a)
         /\ pass'.tell = {} /\ pass'.now = pass.now + 1 /\ pass.now \in Nat
         /\ UNCHANGED <<row, venue, cancel>>
         /\ \A o \in pass'.group : venue[o].phase = "gone" => pass'.open[o] = Absent
<1>1. pass.now \in Nat /\ pass.batch \in SUBSET Orders BY PassTypes DEF Types
<1>2. pass.group = {} /\ pass.tell = {} /\ Of(pass.batch, a) # {} BY DEF ReadOpen, NextGroup
<1>3. pass # Idle BY <1>2, IdleIs DEF Of
<1> QED BY <1>1, <1>2, <1>3 DEF ReadOpen, Idle, Of

LEMMA InitShape == Init => Shape
BY IdleIs DEF Init, Shape

\* What has its order in the book, or a final status, keeps it.
LEMMA StatusesStay ==
  ASSUME Types, [Next]_vars, NEW o \in Orders
  PROVE  /\ venue[o].phase # "none" => venue'[o].phase # "none"
         /\ venue[o].phase = "gone" => venue'[o].phase = "gone"
         /\ row[o].status # "none" => row'[o].status # "none"
         /\ row[o].status \in Final => row'[o].status \in Final
         /\ row'[o].status # "none" \/ cancel'[o] # "none" => venue'[o].phase # "none"
         /\ o \in old => o \in old'
<1>1. /\ venue \in [Orders -> Venue] /\ row \in [Orders -> Row]
      /\ cancel \in [Orders -> {"none", "read", "write", "done"}]
  BY DEF Types, TypeOK
<1>2. row[o].status # "none" \/ cancel[o] # "none" => venue[o].phase # "none" BY DEF Types, Shape
<1>3. /\ venue[o].phase # "none" => venue'[o].phase # "none"
      /\ venue[o].phase = "gone" => venue'[o].phase = "gone"
      /\ o \in old => o \in old'
      /\ cancel'[o] # "none" => venue'[o].phase # "none"
  <2>1. ASSUME NEW q \in Orders, Exchange(q)
        PROVE  /\ venue[o].phase # "none" => venue'[o].phase # "none"
               /\ venue[o].phase = "gone" => venue'[o].phase = "gone"
               /\ old \subseteq old' /\ cancel' = cancel
    <3>1. CASE Place(q) \/ List(q) \/ Expire(q) \/ TradeFails(q) \/ GraceElapses(q)
      BY <1>1, <3>1 DEF Place, List, Expire, TradeFails, GraceElapses, Venue
    <3>2. CASE Match(q)
      <4>1. UNCHANGED <<old, cancel>> /\ venue[q].phase = "resting" BY <3>2 DEF Match
      <4>2. o # q => venue'[o] = venue[o] BY <1>1, <3>2 DEF Match
      <4>3. venue'[q].phase \in {"resting", "gone"}
        <5> DEFINE w == [venue[q] EXCEPT !.matched = @ + 1]
                   end == IF venue[q].matched + 1 = Size[q] THEN "gone" ELSE venue[q].phase
        <5>1. venue' = [venue EXCEPT ![q] = [w EXCEPT !.phase = end]] BY <1>1, <3>2 DEF Match, Venue
        <5>2. end \in {"resting", "gone"} BY <4>1
        <5>3. DOMAIN w = DOMAIN venue[q] /\ "phase" \in DOMAIN w BY <1>1 DEF Venue
        <5> HIDE DEF w, end
        <5>4. [w EXCEPT !.phase = end].phase = end BY <5>3
        <5> QED BY <1>1, <5>1, <5>2, <5>4
      <4> QED BY <4>1, <4>2, <4>3
    <3> QED BY <2>1, <3>1, <3>2 DEF Exchange
  <2>2. ASSUME NEW q \in Orders, User(q)
        PROVE  /\ venue[o].phase # "none" => venue'[o].phase # "none"
               /\ venue[o].phase = "gone" => venue'[o].phase = "gone"
               /\ cancel'[o] # "none" => venue'[o].phase # "none"
               /\ old' = old
    BY <1>1, <1>2, <2>2 DEF User, CancelSend, CancelRead, CancelWrite, Venue
  <2>3. CASE UNCHANGED <<venue, cancel, old>> BY <1>2, <2>3
  <2>4. CASE PassStep \/ GroupThrows \/ Crash \/ UNCHANGED vars
    BY <2>3, <2>4 DEF PassStep, StartPass, ReadOpen, OpenFails, SyncOne, Resting, Young, ReadTrades, TradesFail,
                      Untouched, Resolve, Announce, GroupThrows, Crash, vars
  <2> QED BY <1>2, <2>1, <2>2, <2>4 DEF Next
<1>4. /\ row[o].status # "none" => row'[o].status # "none"
      /\ row[o].status \in Final => row'[o].status \in Final
      /\ row'[o].status # "none" => row[o].status # "none" \/ venue'[o].phase # "none"
  <2>1. CASE Served(o) BY <2>1, TheServed DEF InFlight, Final
  <2>2. CASE StartPass BY <2>2, StartIs
  <2>3. CASE ~Served(o) /\ ~StartPass
    <3>1. CASE Place(o)
      <4>1. row[o].status = "none" BY <1>2, <3>1 DEF Place
      <4>2. venue'[o].phase = "resting" BY <1>1, <3>1 DEF Place, Venue
      <4> QED BY <4>1, <4>2 DEF Final
    <3>2. CASE CancelWrite(o)
      <4>1. cancel[o] = "write" /\ UNCHANGED venue BY <3>2 DEF CancelWrite
      <4> DEFINE w == [row[o] EXCEPT !.status = "cancelled"]
      <4>2. row' = [row EXCEPT ![o] = [w EXCEPT !.by = "user"]] BY <1>1, <3>2 DEF CancelWrite, Row
      <4>3. w.status = "cancelled" /\ w \in Row BY <1>1 DEF Row, Final
      <4> HIDE DEF w
      <4>4. [w EXCEPT !.by = "user"].status = "cancelled" BY <4>3 DEF Row
      <4> QED BY <1>1, <1>2, <4>1, <4>2, <4>4 DEF Final
    <3> QED BY <2>3, <3>1, <3>2, TheSpared
  <2> QED BY <2>1, <2>2, <2>3
<1> QED BY <1>2, <1>3, <1>4

LEMMA NextShape == ASSUME Types, [Next]_vars PROVE Shape'
<1>1. /\ pass \in Pass /\ pass.batch \in SUBSET Orders /\ pass.group \in SUBSET Orders
      /\ pass.now \in Nat /\ \A o \in Orders : row[o].stamp \in Nat
  BY PassTypes DEF Types
<1>2. \A o \in Orders : row'[o].status # "none" \/ cancel'[o] # "none" => venue'[o].phase # "none"
  BY StatusesStay
<1>3. \A o \in pass.batch \cup pass.group : row[o].status # "none" BY DEF Types, Shape
<1>4. \A o \in Orders : /\ row[o].status # "none" => row'[o].status # "none"
                        /\ row[o].status \in Final => row'[o].status \in Final
  BY StatusesStay
<1>5. pass.tell = {} \/ \E o \in pass.group : pass.tell = {o} BY DEF Types, Shape
<1>6. /\ pass'.tell = {} \/ \E o \in pass'.group : pass'.tell = {o}
      /\ pass'.batch = {} /\ pass'.group = {} => pass' = Idle
      /\ \A o \in pass'.batch \cup pass'.group : row'[o].status # "none"
      /\ \A o \in pass'.tell : row'[o].status \in Final
  <2>1. CASE StartPass
    <3>1. pass'.batch \subseteq Pending /\ \A o \in Orders : row'[o].status = row[o].status BY <2>1, StartIs
    <3>2. \A o \in pass'.batch : row'[o].status # "none" BY <3>1 DEF Pending, InFlight
    <3> QED BY <2>1, <3>2, StartIs
  <2>2. CASE pass'.tell = {} /\ (pass'.batch = {} /\ pass'.group = {} => pass' = Idle)
             /\ pass'.batch \cup pass'.group \subseteq pass.batch \cup pass.group
    BY <1>1, <1>3, <1>4, <2>2
  <2>3. ASSUME NEW a \in Accounts, ReadOpen(a) \/ OpenFails(a)
        PROVE  /\ pass'.tell = {} /\ (pass'.batch = {} /\ pass'.group = {} => pass' = Idle)
               /\ pass'.batch \cup pass'.group \subseteq pass.batch
    <3>1. CASE ReadOpen(a) BY <3>1, ReadOpenIs DEF Of
    <3>2. CASE OpenFails(a) BY <3>2, OpenFailsIs
    <3> QED BY <2>3, <3>1, <3>2
  <2>4. ASSUME NEW o \in Orders, Turns(o) \/ Announce(o)
        PROVE  /\ pass'.tell = {} /\ (pass'.batch = {} /\ pass'.group = {} => pass' = Idle)
               /\ pass'.batch = pass.batch /\ pass'.group = pass.group \ {o}
    BY <1>1, <2>4, DoneShape, AnnounceShape DEF Turns, Turn
  <2>5. ASSUME NEW o \in Orders, Tries(o)
        PROVE  pass'.tell = {} /\ pass'.batch = pass.batch /\ pass'.group = pass.group /\ o \in pass.group
    BY <2>5 DEF Tries, Turn
  <2>6. ASSUME NEW o \in Orders, Tells(o)
        PROVE  /\ pass'.tell = {o} /\ pass'.batch = pass.batch /\ pass'.group = pass.group
               /\ o \in pass.group /\ row'[o].status \in Final
    BY <1>1, <2>6 DEF Tells, Turn, Pass
  <2>7. CASE Forgets
    <3>1. pass' = Idle \/ pass' = Rest(pass, pass.batch) BY <2>7 DEF Forgets
    <3>2. /\ pass'.tell = {} /\ pass'.batch \subseteq pass.batch /\ pass'.group = {}
          /\ pass'.batch = {} => pass' = Idle
      BY <1>1, <3>1, RestIs, IdleIs
    <3> QED BY <2>2, <3>2
  <2>8. CASE UNCHANGED pass BY <1>1, <1>3, <1>4, <1>5, <2>8 DEF Types, Shape
  <2>9. CASE \E a \in Accounts : ReadOpen(a) \/ OpenFails(a) BY <2>2, <2>3, <2>9
  <2>10. CASE \E o \in Orders : Turns(o) \/ Announce(o) BY <2>2, <2>4, <2>10
  <2>11. CASE \E o \in Orders : Tries(o) BY <1>1, <1>3, <1>4, <2>5, <2>11
  <2>12. CASE \E o \in Orders : Tells(o) BY <1>1, <1>3, <1>4, <2>6, <2>12
  <2> QED BY <2>1, <2>7, <2>8, <2>9, <2>10, <2>11, <2>12, PassMoves
<1>7. ASSUME pass' # Idle, NEW o \in Orders PROVE row'[o].stamp <= pass'.now
  <2>1. CASE StartPass
    <3>1. row'[o].stamp = Cardinality({q \in Orders : row[q].stamp < row[o].stamp}) BY <2>1, StartIs
    <3>2. {q \in Orders : row[q].stamp < row[o].stamp} \in SUBSET Orders OBVIOUS
    <3>3. Cardinality({q \in Orders : row[q].stamp < row[o].stamp}) <= Cardinality(Orders)
      BY <3>2, FS_Subset, SyncAssumption
    <3> QED BY <2>1, <3>1, <3>3, StartIs
  <2>2. CASE ~StartPass
    <3>1. ASSUME NEW a \in Accounts, ReadOpen(a) \/ OpenFails(a)
          PROVE  pass # Idle /\ pass'.now = pass.now + 1
      BY <1>7, <3>1, ReadOpenIs, OpenFailsIs
    <3>2. ASSUME NEW q \in Orders, Turns(q) \/ Tries(q) \/ Tells(q) \/ Announce(q)
          PROVE  pass # Idle /\ pass'.now = pass.now
      <4>1. CASE Turns(q) BY <1>1, <1>7, <4>1, DoneShape, IdleIs DEF Turns, Turn
      <4>2. CASE Tries(q) BY <4>2, IdleIs DEF Tries, Turn
      <4>3. CASE Tells(q) BY <1>1, <4>3, IdleIs DEF Tells, Turn, Pass
      <4>4. CASE Announce(q) BY <1>7, <4>4, AnnounceShape, IdleIs
      <4> QED BY <3>2, <4>1, <4>2, <4>3, <4>4
    <3>3. ASSUME Forgets PROVE pass # Idle /\ pass'.now = pass.now
      <4>1. pass.group # {} /\ pass' = Rest(pass, pass.batch) BY <1>7, <3>3 DEF Forgets
      <4> QED BY <1>1, <1>7, <4>1, RestIs, IdleIs
    <3>4. /\ pass # Idle /\ pass'.now \in {pass.now, pass.now + 1}
          /\ (\E a \in Accounts : OpenFails(a)) => pass'.now = pass.now + 1
      BY <1>7, <2>2, <3>1, <3>2, <3>3, PassMoves, OpenFailsIs
    <3>5. row[o].stamp <= pass.now BY <3>4 DEF Types, Shape
    <3>6. CASE Served(o)
      <4>1. row'[o].stamp \in {row[o].stamp, pass.now} \/ (row'[o].stamp = pass.now + 1 /\ \E a \in Accounts : OpenFails(a))
        BY <3>6, TheServed
      <4> QED BY <1>1, <3>4, <3>5, <4>1
    <3>7. CASE ~Served(o)
      <4>1. row'[o].stamp = row[o].stamp BY <2>2, <3>7, TheSpared
      <4> QED BY <1>1, <3>4, <3>5, <4>1
    <3> QED BY <3>6, <3>7
  <2> QED BY <2>1, <2>2
<1> QED BY <1>2, <1>6, <1>7 DEF Shape

LEMMA AllTypes == Spec => []Types
<1>1. Init => Types BY InitInv, InitShape DEF Types, Inv
<1>2. Inv /\ Shape /\ [Next]_vars => Inv' /\ Shape' BY StepInv, NextShape DEF Types, Inv
<1>3. Inv /\ Shape => Types BY DEF Types, Inv
<1> QED BY <1>1, <1>2, <1>3, InitInv, InitShape, PTL DEF Spec

-----------------------------------------------------------------------------
(* A pass ends. *)

\* At most so many steps are left of a pass: its accounts, then for every order of the
\* group the trades of its token, its verdict and the announcement.
Unread(p) == {o \in p.group : p.trades[TokenOf[o]] = "unread"}
Work(p) ==
  4 * Cardinality(p.batch) + 2 * Cardinality(p.group) + Cardinality(Unread(p)) - Cardinality(p.tell)

LEMMA OrderSets ==
  ASSUME NEW S \in SUBSET Orders
  PROVE  /\ IsFiniteSet(S) /\ Cardinality(S) \in Nat
         /\ \A T \in SUBSET S : /\ IsFiniteSet(T) /\ Cardinality(T) \in Nat
                                /\ Cardinality(T) <= Cardinality(S)
                                /\ Cardinality(T) = Cardinality(S) => T = S
         /\ Cardinality(S) = 0 <=> S = {}
<1>1. IsFiniteSet(S) BY SyncAssumption, FS_Subset
<1> QED BY <1>1, FS_Subset, FS_CardinalityType, FS_EmptySet

LEMMA WithoutOne ==
  ASSUME NEW S \in SUBSET Orders, NEW o \in S
  PROVE  Cardinality(S \ {o}) = Cardinality(S) - 1
BY OrderSets, FS_RemoveElement

LEMMA WithoutAll ==
  ASSUME NEW S \in SUBSET Orders, NEW T \in SUBSET S
  PROVE  Cardinality(S \ T) = Cardinality(S) - Cardinality(T)
<1>1. S \cap T = T OBVIOUS
<1>2. IsFiniteSet(S) BY OrderSets
<1>3. Cardinality(S \ T) = Cardinality(S) - Cardinality(S \cap T) BY <1>2, FS_Difference
<1> QED BY <1>1, <1>3

LEMMA WorkIs ==
  ASSUME NEW p \in Pass
  PROVE  /\ p.batch \in SUBSET Orders /\ p.group \in SUBSET Orders /\ p.tell \in SUBSET Orders
         /\ Unread(p) \in SUBSET p.group
         /\ Cardinality(p.batch) \in Nat /\ Cardinality(p.group) \in Nat
         /\ Cardinality(p.tell) \in Nat /\ Cardinality(Unread(p)) \in 0..Cardinality(p.group)
         /\ p.tell = {} => Cardinality(p.tell) = 0
         /\ (\E o : p.tell = {o}) => Cardinality(p.tell) = 1
<1>1. p.batch \in SUBSET Orders /\ p.group \in SUBSET Orders /\ p.tell \in SUBSET Orders BY DEF Pass
<1>2. Unread(p) \in SUBSET p.group BY DEF Unread
<1>3. (\E o : p.tell = {o}) => Cardinality(p.tell) = 1 BY FS_Singleton
<1>4. p.tell = {} => Cardinality(p.tell) = 0 BY FS_EmptySet
<1>5. Cardinality(Unread(p)) \in Nat /\ Cardinality(Unread(p)) <= Cardinality(p.group)
  BY <1>1, <1>2, OrderSets
<1>6. /\ Cardinality(p.batch) \in Nat /\ Cardinality(p.group) \in Nat /\ Cardinality(p.tell) \in Nat
  BY <1>1, OrderSets
<1>7. Cardinality(Unread(p)) \in 0..Cardinality(p.group) BY <1>5, <1>6
<1> QED BY <1>1, <1>2, <1>3, <1>4, <1>6, <1>7

\* Without a group, only the batch is left.
LEMMA WorkOfBatch ==
  ASSUME NEW p \in Pass, p.group = {}, p.tell = {}
  PROVE  Work(p) = 4 * Cardinality(p.batch)
<1>1. Unread(p) = {} BY DEF Unread
<1> QED BY <1>1, WorkIs, FS_EmptySet DEF Work

\* An order of the group done.
LEMMA WorkOfTurn ==
  ASSUME NEW p \in Pass, NEW q \in Pass, NEW o \in p.group, q.tell = {}, q.batch = p.batch,
         q.group = p.group \ {o}, q.group # {} => q.trades = p.trades
  PROVE  Work(q) <= Work(p) - 2 + Cardinality(p.tell)
<1>1. Cardinality(q.group) = Cardinality(p.group) - 1 BY WorkIs, WithoutOne
<1>2. Unread(q) \subseteq Unread(p) BY DEF Unread
<1>3. Cardinality(Unread(q)) <= Cardinality(Unread(p)) BY <1>2, WorkIs, OrderSets
<1>4. Cardinality(q.tell) = 0 BY WorkIs
<1> DEFINE a == Cardinality(p.batch)
           b == Cardinality(p.group)
           c == Cardinality(Unread(p))
           d == Cardinality(Unread(q))
           e == Cardinality(p.tell)
<1>5. a \in Nat /\ b \in Nat /\ c \in Nat /\ d \in Nat /\ e \in Nat BY WorkIs
<1>6. Work(p) = 4 * a + 2 * b + c - e /\ Work(q) = 4 * a + 2 * (b - 1) + d - 0 BY <1>1, <1>4 DEF Work
<1> HIDE DEF a, b, c, d, e
<1> QED BY <1>3, <1>5, <1>6 DEF c, d, e

LEMMA WorkBounds ==
  ASSUME TypeOK, Shape
  PROVE  Work(pass) \in Nat /\ (Work(pass) = 0 <=> pass = Idle)
<1>1. pass \in Pass /\ Idle \in Pass BY PassTypes, IdlePass
<1>2. Work(Idle) = 0
  <2>1. Work(Idle) = 4 * Cardinality({}) BY <1>1, IdleIs, WorkOfBatch
  <2> QED BY <2>1, FS_EmptySet
<1>3. CASE pass.group = {}
  <2>1. pass.tell = {} BY <1>3 DEF Shape
  <2>2. Work(pass) = 4 * Cardinality(pass.batch) BY <1>1, <1>3, <2>1, WorkOfBatch
  <2>3. Cardinality(pass.batch) \in Nat /\ (Cardinality(pass.batch) = 0 <=> pass.batch = {})
    BY <1>1, WorkIs, OrderSets
  <2> QED BY <1>2, <1>3, <2>2, <2>3 DEF Shape
<1>4. CASE pass.group # {}
  <2> DEFINE a == Cardinality(pass.batch)
             b == Cardinality(pass.group)
             c == Cardinality(Unread(pass))
             e == Cardinality(pass.tell)
  <2>1. a \in Nat /\ b \in Nat /\ c \in Nat /\ e \in {0, 1}
    <3>1. pass.tell = {} \/ \E o : pass.tell = {o} BY DEF Shape
    <3>2. e = 0 \/ e = 1 BY <1>1, <3>1, WorkIs
    <3> QED BY <1>1, <3>2, WorkIs
  <2>2. b # 0 BY <1>1, <1>4, WorkIs, OrderSets
  <2>3. Work(pass) = 4 * a + 2 * b + c - e BY DEF Work
  <2>4. pass # Idle BY <1>4, IdleIs
  <2> HIDE DEF a, b, c, e
  <2> QED BY <2>1, <2>2, <2>3, <2>4
<1> QED BY <1>3, <1>4

LEMMA WorkOfReading ==
  ASSUME Types, TypeOK', NEW a \in Accounts, ReadOpen(a) \/ OpenFails(a)
  PROVE  Work(pass') < Work(pass)
<1>1. pass \in Pass /\ pass' \in Pass BY PassTypes DEF Types, TypeOK
<1>2. /\ pass.group = {} /\ pass.tell = {} /\ pass'.tell = {} /\ Of(pass.batch, a) # {}
      /\ pass'.batch = pass.batch \ Of(pass.batch, a)
      /\ pass'.group = {} \/ pass'.group = Of(pass.batch, a)
  <2>1. CASE ReadOpen(a) BY <2>1, ReadOpenIs
  <2>2. CASE OpenFails(a) BY <2>2, OpenFailsIs
  <2> QED BY <2>1, <2>2
<1> DEFINE n == Cardinality(pass.batch)
           m == Cardinality(Of(pass.batch, a))
           g == Cardinality(pass'.group)
           u == Cardinality(Unread(pass'))
<1>3. n \in Nat /\ m \in Nat /\ m # 0 /\ Cardinality(pass'.batch) = n - m
  <2>1. pass.batch \in SUBSET Orders /\ Of(pass.batch, a) \in SUBSET pass.batch BY <1>1, WorkIs DEF Of
  <2> QED BY <1>2, <2>1, OrderSets, WithoutAll
<1>4. g \in Nat /\ u \in Nat /\ u <= g /\ (g = 0 \/ g = m)
  <2>1. g \in Nat /\ u \in 0..g BY <1>1, WorkIs
  <2>2. g = 0 \/ g = m BY <1>2, FS_EmptySet
  <2> QED BY <2>1, <2>2
<1>5. Work(pass) = 4 * n BY <1>1, <1>2, WorkOfBatch
<1>6. Work(pass') = 4 * (n - m) + 2 * g + u - 0
  <2>1. Cardinality(pass'.tell) = 0 BY <1>2, FS_EmptySet
  <2> QED BY <1>3, <2>1 DEF Work
<1> HIDE DEF n, m, g, u
<1> QED BY <1>3, <1>4, <1>5, <1>6

LEMMA WorkOfSync ==
  ASSUME Types, TypeOK', NEW o \in Orders, Turns(o) \/ Tries(o) \/ Tells(o) \/ Announce(o)
  PROVE  Work(pass') < Work(pass)
<1>1. /\ pass \in Pass /\ pass' \in Pass /\ Work(pass) \in Nat /\ Cardinality(pass.group) \in Nat
      /\ Cardinality(pass.batch) \in Nat
  BY PassTypes, WorkBounds, WorkIs DEF Types, TypeOK
<1>2. CASE Turns(o)
  <2>1. o \in pass.group /\ pass.tell = {} /\ pass' = Done(pass, o) BY <1>2 DEF Turns, Turn
  <2>2. /\ pass'.tell = {} /\ pass'.batch = pass.batch /\ pass'.group = pass.group \ {o}
        /\ pass'.group # {} => pass'.trades = pass.trades
    BY <1>1, <2>1, DoneShape, DonePass
  <2>3. Work(pass') <= Work(pass) - 2 + Cardinality(pass.tell) BY <1>1, <2>1, <2>2, WorkOfTurn
  <2>4. Cardinality(pass.tell) = 0 BY <2>1, FS_EmptySet
  <2>5. Work(pass') <= Work(pass) - 2 BY <1>1, <2>3, <2>4
  <2>6. Work(pass') \in Int BY <1>1, WorkIs DEF Work
  <2> QED BY <1>1, <2>5, <2>6
<1>3. CASE Announce(o)
  <2>1. /\ pass.tell = {o} /\ o \in pass.group
        /\ pass'.tell = {} /\ pass'.batch = pass.batch /\ pass'.group = pass.group \ {o}
        /\ pass'.group # {} => pass'.trades = pass.trades
    BY <1>3, AnnounceShape
  <2>2. Work(pass') <= Work(pass) - 2 + Cardinality(pass.tell) BY <1>1, <2>1, WorkOfTurn
  <2>3. Cardinality(pass.tell) = 1 BY <2>1, FS_Singleton
  <2>4. Work(pass') \in Int BY <1>1, WorkIs DEF Work
  <2>5. Work(pass') <= Work(pass) - 2 + 1 BY <2>2, <2>3
  <2> QED BY <1>1, <2>4, <2>5
<1>4. CASE Tries(o)
  <2>1. /\ o \in pass.group /\ pass.trades[TokenOf[o]] = "unread"
        /\ pass'.batch = pass.batch /\ pass'.group = pass.group /\ pass'.tell = pass.tell
    BY <1>4 DEF Tries, Turn
  <2>2. PICK result \in {"read", "failed"} : pass'.trades = [pass.trades EXCEPT ![TokenOf[o]] = result]
    BY <1>4 DEF Tries
  <2>3. pass.trades \in [Tokens -> {"unread", "failed", "read"}] /\ TokenOf \in [Orders -> Tokens]
    BY <1>1, SyncAssumption DEF Pass
  <2>4. Unread(pass') \subseteq Unread(pass) \ {o} /\ o \in Unread(pass)
    BY <2>1, <2>2, <2>3 DEF Unread
  <2> DEFINE u == Cardinality(Unread(pass))
             v == Cardinality(Unread(pass'))
             rest == 4 * Cardinality(pass.batch) + 2 * Cardinality(pass.group)
             e == Cardinality(pass.tell)
  <2>5. u \in Nat /\ v \in Nat /\ v <= u - 1
    <3>1. Unread(pass) \in SUBSET Orders BY <1>1, WorkIs
    <3>2. Unread(pass) \ {o} \in SUBSET Orders /\ Unread(pass') \in SUBSET (Unread(pass) \ {o})
      BY <2>4, <3>1
    <3>3. Cardinality(Unread(pass) \ {o}) = u - 1 BY <2>4, <3>1, WithoutOne
    <3>4. v \in Nat /\ v <= Cardinality(Unread(pass) \ {o}) BY <3>2, OrderSets
    <3>5. u \in Nat BY <3>1, OrderSets
    <3> QED BY <3>3, <3>4, <3>5
  <2>6. rest \in Nat /\ e \in Nat BY <1>1, WorkIs
  <2>7. Work(pass) = rest + u - e /\ Work(pass') = rest + v - e BY <2>1 DEF Work
  <2> HIDE DEF u, v, rest, e
  <2> QED BY <2>5, <2>6, <2>7
<1>5. CASE Tells(o)
  <2>1. pass.tell = {} /\ pass' = [pass EXCEPT !.tell = {o}] BY <1>5 DEF Tells, Turn
  <2>2. /\ pass'.batch = pass.batch /\ pass'.group = pass.group /\ pass'.trades = pass.trades
        /\ pass'.tell = {o}
    BY <1>1, <2>1 DEF Pass
  <2>3. Unread(pass') = Unread(pass) BY <2>2 DEF Unread
  <2>4. Cardinality(pass.tell) = 0 /\ Cardinality(pass'.tell) = 1 BY <2>1, <2>2, FS_EmptySet, FS_Singleton
  <2> DEFINE u == Cardinality(Unread(pass))
             v == Cardinality(Unread(pass'))
             rest == 4 * Cardinality(pass.batch) + 2 * Cardinality(pass.group)
             e == Cardinality(pass.tell)
             f == Cardinality(pass'.tell)
  <2>5. rest \in Nat /\ u \in Nat /\ v = u /\ e = 0 /\ f = 1 BY <1>1, <2>3, <2>4, WorkIs
  <2>6. Work(pass) = rest + u - e /\ Work(pass') = rest + v - f BY <2>2 DEF Work
  <2> HIDE DEF u, v, rest, e, f
  <2> QED BY <2>5, <2>6
<1> QED BY <1>2, <1>3, <1>4, <1>5

LEMMA WorkOfForgetting ==
  ASSUME Types, TypeOK', GroupThrows \/ Crash
  PROVE  Work(pass') < Work(pass)
<1>1. /\ pass \in Pass /\ Idle \in Pass /\ Work(pass) \in Nat /\ (Work(pass) = 0 <=> pass = Idle)
      /\ Cardinality(pass.batch) \in Nat
  BY PassTypes, WorkBounds, IdlePass, WorkIs DEF Types
<1>2. Work(Idle) = 0
  <2>1. Work(Idle) = 4 * Cardinality({}) BY <1>1, IdleIs, WorkOfBatch
  <2> QED BY <2>1, FS_EmptySet
<1>3. CASE pass' = Idle /\ pass # Idle
  <2>1. Work(pass') = 0 /\ Work(pass) # 0 BY <1>1, <1>2, <1>3
  <2> QED BY <1>1, <2>1
<1>4. CASE pass.group # {} /\ pass' = Rest(pass, pass.batch) /\ pass' # Idle
  <2>1. pass'.batch = pass.batch /\ pass'.group = {} /\ pass'.tell = {} BY <1>1, <1>4, RestIs
  <2>2. pass' \in Pass BY DEF TypeOK
  <2> DEFINE a == Cardinality(pass.batch)
             b == Cardinality(pass.group)
             c == Cardinality(Unread(pass))
             e == Cardinality(pass.tell)
  <2>3. Work(pass') = 4 * a BY <2>1, <2>2, WorkOfBatch
  <2>4. Work(pass) = 4 * a + 2 * b + c - e BY DEF Work
  <2>5. a \in Nat /\ b \in Nat /\ b # 0 /\ c \in Nat BY <1>1, <1>4, WorkIs, OrderSets
  <2>6. e = 0 \/ e = 1
    <3>1. pass.tell = {} \/ \E o : pass.tell = {o} BY DEF Types, Shape
    <3> QED BY <1>1, <3>1, WorkIs
  <2> HIDE DEF a, b, c, e
  <2> QED BY <2>3, <2>4, <2>5, <2>6
<1>5. pass # Idle BY IdleIs DEF GroupThrows, Crash
<1> QED BY <1>3, <1>4, <1>5 DEF GroupThrows, Crash

LEMMA MinOfTwo ==
  ASSUME NEW a \in Nat, NEW b \in Nat
  PROVE  Min({a, b}) = IF a <= b THEN a ELSE b
<1>1. CASE a <= b
  <2>1. \A x \in {a, b} : a <= x BY <1>1
  <2>2. \A x \in {a, b} : (\A y \in {a, b} : x <= y) => x = a BY <1>1
  <2> QED BY <1>1, <2>1, <2>2 DEF Min
<1>2. CASE ~(a <= b)
  <2>1. \A x \in {a, b} : b <= x BY <1>2
  <2>2. \A x \in {a, b} : (\A y \in {a, b} : x <= y) => x = b BY <1>2
  <2> QED BY <1>2, <2>1, <2>2 DEF Min
<1> QED BY <1>1, <1>2

LEMMA WorkOfStarting ==
  ASSUME Types, TypeOK', StartPass
  PROVE  Work(pass') <= 4 * BatchLimit
<1>1. pass' \in Pass /\ pass'.group = {} /\ pass'.tell = {} BY StartIs DEF TypeOK
<1>2. Listable(pass'.batch)
  <2>1. PICK S \in SUBSET Orders : Listable(S) /\ pass' = [Idle EXCEPT !.batch = S, !.now = Cardinality(Orders)]
    BY DEF StartPass
  <2>2. pass'.batch = S BY <2>1 DEF Idle
  <2> QED BY <2>1, <2>2
<1>3. Cardinality(Pending) \in Nat /\ BatchLimit \in Nat
  <2>1. Pending \in SUBSET Orders BY DEF Pending
  <2> QED BY <2>1, OrderSets, SyncAssumption
<1>4. Cardinality(pass'.batch) = Min({BatchLimit, Cardinality(Pending)}) BY <1>2 DEF Listable
<1>5. Cardinality(pass'.batch) <= BatchLimit BY <1>3, <1>4, MinOfTwo
<1>6. Work(pass') = 4 * Cardinality(pass'.batch) /\ Cardinality(pass'.batch) \in Nat
  BY <1>1, WorkOfBatch, WorkIs
<1> QED BY <1>3, <1>5, <1>6

GoesOn ==
  \/ \E a \in Accounts : ReadOpen(a) \/ OpenFails(a)
  \/ \E o \in Orders : SyncOne(o)

PassGoesDown ==
  /\ GoesOn \/ GroupThrows \/ Crash => Work(pass') < Work(pass)
  /\ StartPass => pass = Idle /\ Work(pass') <= 4 * BatchLimit
  /\ ~StartPass => Work(pass') <= Work(pass)

LEMMA NextGoesDown == ASSUME Types, TypeOK', [Next]_vars PROVE PassGoesDown
<1>1. ASSUME GoesOn \/ GroupThrows \/ Crash PROVE Work(pass') < Work(pass)
  <2>1. CASE GroupThrows \/ Crash BY <2>1, WorkOfForgetting
  <2>2. CASE \E a \in Accounts : ReadOpen(a) \/ OpenFails(a) BY <2>2, WorkOfReading
  <2>3. CASE \E o \in Orders : SyncOne(o) BY <2>3, SyncMoves, WorkOfSync
  <2> QED BY <1>1, <2>1, <2>2, <2>3 DEF GoesOn
<1>2. ASSUME ~StartPass PROVE Work(pass') <= Work(pass)
  <2>1. Work(pass) \in Nat BY WorkBounds DEF Types
  <2>2. CASE UNCHANGED pass BY <2>1, <2>2
  <2>3. ASSUME Work(pass') < Work(pass) PROVE Work(pass') <= Work(pass)
    <3>1. Work(pass') \in Int
      <4>1. pass' \in Pass BY DEF TypeOK
      <4> QED BY <4>1, WorkIs DEF Work
    <3> QED BY <2>1, <2>3, <3>1
  <2>4. CASE Forgets /\ (GroupThrows \/ Crash) BY <2>3, <2>4, WorkOfForgetting
  <2>5. CASE \E a \in Accounts : ReadOpen(a) \/ OpenFails(a) BY <2>3, <2>5, WorkOfReading
  <2>6. CASE \E o \in Orders : Turns(o) \/ Tries(o) \/ Tells(o) \/ Announce(o) BY <2>3, <2>6, WorkOfSync
  <2> QED BY <1>2, <2>2, <2>4, <2>5, <2>6, PassMoves
<1> QED BY <1>1, <1>2, WorkOfStarting, StartIs DEF PassGoesDown

\* A pass has a next step until it is done: an account to read, an order to announce, or
\* one whose turn it is.
OnTheWay ==
  \/ \E a \in Accounts : NextGroup(a)
  \/ \E o \in Orders : o \in pass.tell \/ Turn(o)
Ends ==
  /\ Work(pass) \in Nat /\ (Work(pass) = 0 <=> pass = Idle)
  /\ pass # Idle => OnTheWay

LEMMA PassEnds == ASSUME Types PROVE Ends
<1>1. pass \in Pass /\ pass.batch \in SUBSET Orders /\ pass.group \in SUBSET Orders BY PassTypes DEF Types
<1>2. ASSUME pass # Idle PROVE OnTheWay
  <2>1. CASE pass.tell # {} BY <1>1, <2>1 DEF OnTheWay, Types, Shape
  <2>2. CASE pass.tell = {} /\ pass.group # {}
    <3>1. PICK o \in pass.group : TRUE BY <2>2
    <3> QED BY <1>1, <2>2, <3>1 DEF OnTheWay, Turn
  <2>3. CASE pass.tell = {} /\ pass.group = {}
    <3>1. PICK o \in pass.batch : TRUE BY <1>2, <2>3 DEF Types, Shape
    <3>2. o \in Of(pass.batch, AccountOf[o]) /\ AccountOf[o] \in Accounts BY <1>1, SyncAssumption DEF Of
    <3>3. NextGroup(AccountOf[o]) BY <2>3, <3>2 DEF NextGroup
    <3> QED BY <3>2, <3>3 DEF OnTheWay
  <2> QED BY <2>1, <2>2, <2>3
<1> QED BY <1>2, WorkBounds DEF Ends, Types

-----------------------------------------------------------------------------
(* Every order gets its turn. *)

\* The intents that a pass lists before this one, or may.
Ahead(o) == {q \in Pending \ {o} : row[q].stamp <= row[o].stamp}

\* Nobody gets ahead of an order that is not served but by being placed; who is served when
\* it is not falls behind it; and with fewer ahead of it than the batch holds it is listed.
InTurn(o) ==
  /\ ~Served(o) => Ahead(o)' \subseteq Ahead(o) \cup {q \in Orders : Place(q)}
  /\ \A q \in Pending : Served(q) /\ ~Served(o) /\ row[o].stamp < pass.now => q \notin Ahead(o)'
  /\ StartPass /\ Cardinality(Ahead(o)) < BatchLimit => o \in pass'.batch

LEMMA Overtaking ==
  ASSUME Types, [Next]_vars, NEW o \in Pending, ~Served(o)
  PROVE  Ahead(o)' \subseteq Ahead(o) \cup {q \in Orders : Place(q)}
<1>1. o \in Orders /\ \A q \in Orders : row[q].stamp \in Nat BY PassTypes DEF Types, Pending
<1> SUFFICES ASSUME NEW q \in Orders, q # o, row'[q].status \in InFlight,
                    row'[q].stamp <= row'[o].stamp, ~Place(q)
             PROVE  row[q].status \in InFlight /\ row[q].stamp <= row[o].stamp
  BY DEF Ahead, Pending
<1>2. CASE StartPass
  <2> DEFINE below(x) == {z \in Orders : row[z].stamp < row[x].stamp}
  <2>1. row[q].status \in InFlight BY <1>2, StartIs
  <2>2. Cardinality(below(q)) <= Cardinality(below(o)) BY <1>1, <1>2, StartIs
  <2>3. ASSUME row[o].stamp < row[q].stamp PROVE FALSE
    <3>1. below(o) \subseteq below(q) /\ o \in below(q) /\ o \notin below(o) BY <1>1, <2>3
    <3>2. below(q) \in SUBSET Orders /\ below(o) \in SUBSET below(q) BY <3>1
    <3>3. Cardinality(below(o)) = Cardinality(below(q)) => below(o) = below(q) BY <3>2, OrderSets
    <3>4. Cardinality(below(o)) <= Cardinality(below(q)) /\ Cardinality(below(o)) \in Nat
          /\ Cardinality(below(q)) \in Nat
      BY <3>2, OrderSets
    <3> HIDE DEF below
    <3> QED BY <2>2, <3>1, <3>3, <3>4
  <2> QED BY <1>1, <2>1, <2>3
<1>3. CASE ~StartPass
  <2>1. row'[o].stamp = row[o].stamp BY <1>1, <1>3, TheSpared
  <2>2. CASE Served(q)
    <3>1. /\ pass # Idle /\ row[q].status \in InFlight
          /\ row'[q].stamp \in {pass.now, pass.now + 1} \/ row'[q] = row[q]
      BY <2>2, TheServed DEF InFlight, Final
    <3>2. row[q].stamp <= pass.now /\ pass.now \in Nat BY <3>1, PassTypes DEF Types, Shape
    <3>3. row[q].status \in InFlight BY <3>1
    <3>4. row[q].stamp <= row'[q].stamp BY <1>1, <3>1, <3>2
    <3>5. row'[q].stamp \in Nat BY <1>1, <3>1, <3>2
    <3> QED BY <1>1, <2>1, <3>3, <3>4, <3>5
  <2>3. CASE ~Served(q)
    <3>1. row'[q].stamp = row[q].stamp /\ (row'[q].status = row[q].status \/ CancelWrite(q))
      BY <1>3, <2>3, TheSpared
    <3>2. ~CancelWrite(q)
      <4>1. ASSUME CancelWrite(q) PROVE row'[q].status = "cancelled"
        <5> DEFINE w == [row[q] EXCEPT !.status = "cancelled"]
        <5>1. row \in [Orders -> Row] BY PassTypes DEF Types
        <5>2. row' = [row EXCEPT ![q] = [w EXCEPT !.by = "user"]] BY <4>1, <5>1 DEF CancelWrite, Row
        <5>3. w.status = "cancelled" /\ w \in Row BY <5>1 DEF Row, Final
        <5> HIDE DEF w
        <5>4. [w EXCEPT !.by = "user"].status = "cancelled" BY <5>3 DEF Row
        <5> QED BY <5>1, <5>2, <5>4
      <4> QED BY <4>1 DEF InFlight
    <3> QED BY <2>1, <3>1, <3>2
  <2> QED BY <2>2, <2>3
<1> QED BY <1>2, <1>3

LEMMA FallingBehind ==
  ASSUME Types, [Next]_vars, NEW o \in Pending, NEW q \in Pending,
         Served(q), ~Served(o), row[o].stamp < pass.now
  PROVE  q \notin Ahead(o)'
<1>1. o \in Orders /\ q \in Orders /\ pass.now \in Nat /\ \A z \in Orders : row[z].stamp \in Nat
  BY PassTypes DEF Types, Pending
<1>2. /\ pass # Idle
      /\ row'[q].status \in Final \/ row'[q].stamp \in {pass.now, pass.now + 1}
  BY <1>1, TheServed DEF Pending
<1>3. ~StartPass BY <1>2 DEF StartPass
<1>4. row'[o].stamp = row[o].stamp BY <1>1, <1>3, TheSpared
<1>5. CASE row'[q].status \in Final BY <1>5 DEF Ahead, Pending, Final, InFlight
<1>6. CASE row'[q].stamp \in {pass.now, pass.now + 1}
  <2>1. ~(row'[q].stamp <= row'[o].stamp) BY <1>1, <1>4, <1>6
  <2> QED BY <2>1 DEF Ahead
<1> QED BY <1>2, <1>5, <1>6

LEMMA ListedInTime ==
  ASSUME Types, NEW o \in Pending, StartPass, Cardinality(Ahead(o)) < BatchLimit
  PROVE  o \in pass'.batch
<1> SUFFICES ASSUME o \notin pass'.batch PROVE FALSE OBVIOUS
<1>1. PICK S \in SUBSET Orders : Listable(S) /\ pass' = [Idle EXCEPT !.batch = S, !.now = Cardinality(Orders)]
  BY DEF StartPass
<1>2. pass'.batch = S BY <1>1 DEF Idle
<1>3. /\ S \subseteq Pending /\ Cardinality(S) = Min({BatchLimit, Cardinality(Pending)})
      /\ \A x \in S : row[x].stamp <= row[o].stamp
  BY <1>1, <1>2 DEF Listable
<1>4. S \subseteq Ahead(o) /\ Ahead(o) \in SUBSET Orders /\ Pending \in SUBSET Orders
  BY <1>2, <1>3 DEF Ahead, Pending
<1>5. /\ Cardinality(S) <= Cardinality(Ahead(o)) /\ Cardinality(S) \in Nat
      /\ Cardinality(Ahead(o)) \in Nat /\ Cardinality(Pending) \in Nat /\ BatchLimit \in Nat
  BY <1>4, OrderSets, SyncAssumption
<1>6. Cardinality(S) = Cardinality(Pending) BY <1>3, <1>5, MinOfTwo
<1>7. S = Pending BY <1>3, <1>4, <1>6, OrderSets
<1> QED BY <1>2, <1>7

-----------------------------------------------------------------------------
(* A turn settles an order that is gone. *)

\* The pass has found an order that is gone and old missing from the book.
Gone(o) == venue[o].phase = "gone" /\ o \in old
Missed(o) == o \in pass.group /\ pass.open[o] = Absent

Settles ==
  \A o \in Orders :
    /\ row[o].status \in Final => row'[o].status \in Final
    /\ Gone(o) =>
         /\ Gone(o)'
         /\ ReadOpen(AccountOf[o]) /\ o \in pass.batch => Missed(o)'
         /\ Missed(o) => \/ Missed(o)' \/ row'[o].status \in Final
                         \/ Untouched(o) \/ GroupThrows \/ Crash

LEMMA NextSettles == ASSUME Types, [Next]_vars PROVE Settles
<1> SUFFICES ASSUME NEW o \in Orders, Gone(o)
             PROVE  /\ ReadOpen(AccountOf[o]) /\ o \in pass.batch => Missed(o)'
                    /\ Missed(o) => \/ Missed(o)' \/ row'[o].status \in Final
                                    \/ Untouched(o) \/ GroupThrows \/ Crash
  BY StatusesStay DEF Settles, Gone
<1>1. pass \in Pass /\ pass.group \in SUBSET Orders /\ row \in [Orders -> Row] BY PassTypes DEF Types
<1>2. ASSUME ReadOpen(AccountOf[o]), o \in pass.batch PROVE Missed(o)'
  <2>1. AccountOf[o] \in Accounts BY SyncAssumption
  <2>2. o \in pass'.group BY <1>2, <2>1, ReadOpenIs DEF Of
  <2> QED BY <1>2, <2>1, <2>2, ReadOpenIs DEF Missed, Gone
<1>3. ASSUME Missed(o), ~Untouched(o), ~GroupThrows, ~Crash
      PROVE  Missed(o)' \/ row'[o].status \in Final
  <2>1. o \in pass.group /\ pass.open[o] = Absent BY <1>3 DEF Missed
  <2>2. pass # Idle /\ ~StartPass BY <2>1, IdleIs DEF StartPass
  <2>3. CASE UNCHANGED pass BY <2>1, <2>3 DEF Missed
  <2>4. ~\E a \in Accounts : ReadOpen(a) \/ OpenFails(a) BY <2>1, ReadOpenIs, OpenFailsIs
  <2>5. ASSUME NEW q \in Orders, q # o, Turns(q) PROVE Missed(o)'
    <3>1. pass.group # {q} /\ pass' = Done(pass, q) BY <2>1, <2>5 DEF Turns
    <3> QED BY <1>1, <2>1, <3>1, <2>5, DoneIs DEF Missed
  <2>6. ASSUME NEW q \in Orders, Tries(q) PROVE Missed(o)' BY <2>1, <2>6 DEF Tries, Missed
  <2>7. ASSUME NEW q \in Orders, Tells(q) PROVE Missed(o)' BY <1>1, <2>1, <2>7 DEF Tells, Missed, Pass
  <2>8. ASSUME NEW q \in Orders, q # o, Announce(q) PROVE Missed(o)'
    BY <2>1, <2>8, AnnounceShape DEF Missed
  <2>9. CASE Announce(o)
    <3>1. row[o].status \in Final BY <2>9 DEF Announce, Types, Shape
    <3> QED BY <3>1, StatusesStay
  <2>10. CASE SyncOne(o) /\ ~Announce(o)
    <3>1. CASE ReadTrades(o) \/ TradesFail(o)
      <4>1. Tries(o) BY <1>1, <3>1 DEF ReadTrades, TradesFail, Missing, Tries, Pass
      <4> QED BY <2>6, <4>1
    <3>2. CASE Resolve(o)
      <4>1. row' = FillState(row, o, Resolution(o)) BY <3>2 DEF Resolve
      <4>2. row'[o] = IF row[o].status \in InFlight THEN Resolution(o) ELSE row[o] BY <1>1, <4>1, FillStateIs
      <4>3. Resolution(o).status \in Final BY <1>1 DEF Resolution, Row, Final
      <4>4. row[o].status \in InFlight \cup Final
        <5>1. row[o].status # "none" BY <2>1 DEF Types, Shape
        <5> QED BY <1>1, <5>1 DEF Row
      <4> QED BY <4>2, <4>3, <4>4
    <3>3. ~Resting(o) /\ ~Young(o) BY <2>1 DEF Resting, Young, WithinGrace, Gone
    <3> QED BY <1>3, <2>10, <3>1, <3>2, <3>3 DEF SyncOne
  <2>11. ASSUME NEW q \in Orders, q # o, SyncOne(q) PROVE Missed(o)'
    BY <2>5, <2>6, <2>7, <2>8, <2>11, SyncMoves
  <2>12. CASE \E q \in Orders : SyncOne(q) BY <2>9, <2>10, <2>11, <2>12
  <2>13. UNCHANGED pass \/ \E q \in Orders : SyncOne(q)
    <3>1. CASE \E q \in Orders : Exchange(q) \/ User(q)
      BY <3>1 DEF Exchange, Place, List, Match, Expire, TradeFails, GraceElapses,
                  User, CancelSend, CancelRead, CancelWrite
    <3> QED BY <1>3, <2>2, <2>4, <3>1 DEF Next, PassStep, vars
  <2> QED BY <2>3, <2>12, <2>13
<1> QED BY <1>2, <1>3

-----------------------------------------------------------------------------
\* OrdersSettle, but for the fairness, in four parts.  A pass always has a next step until
\* it is done.
THEOREM PassNeverStuck == Spec => []Ends
<1>1. Types => Ends BY PassEnds
<1> QED BY <1>1, AllTypes, PTL

\* Each step of a pass leaves it less to do, whatever the exchange, the users and faults do
\* in between, and nothing adds to it: it ends within four steps for each order that a batch may hold.
THEOREM PassesEnd == Spec => [][PassGoesDown]_vars
<1>1. Types /\ Types' /\ [Next]_vars => [PassGoesDown]_vars BY NextGoesDown DEF Types
<1> QED BY <1>1, AllTypes, PTL DEF Spec

\* The batch limit starves no order: in the order of the stamps nobody but a new order gets
\* ahead of one that waits, each that is served falls behind it, and with fewer ahead than
\* a batch holds it is listed.  (An order left untouched keeps its place: it is ahead of
\* others until its trades can be read.)
THEOREM NobodyOvertakes == Spec => [][\A o \in Pending : InTurn(o)]_vars
<1>1. Types /\ [Next]_vars => [\A o \in Pending : InTurn(o)]_vars
  BY Overtaking, FallingBehind, ListedInTime DEF InTurn
<1> QED BY <1>1, AllTypes, PTL DEF Spec

\* An order that is gone and past its grace is missed once the open orders of its account
\* are read, and stays missed until its row has a final status: only trades that cannot be
\* read, a statement that throws and a crash put it off.  A final status stays final.
THEOREM GoneOrdersSettle == Spec => [][Settles]_vars
<1>1. Types /\ [Next]_vars => [Settles]_vars BY NextSettles
<1> QED BY <1>1, AllTypes, PTL DEF Spec
=============================================================================
