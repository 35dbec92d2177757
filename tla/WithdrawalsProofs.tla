--------------------------- MODULE WithdrawalsProofs --------------------------
(****************************************************************************)
(* Theorems about Withdrawals, for every number of withdrawals, requests    *)
(* and pollers, whichever addresses they share: funds leave once, completed *)
(* means delivered, failed means recoverable, and what the bridge has       *)
(* decided is undone in the ledger by late writers only, each of them once. *)
(****************************************************************************)
EXTENDS Withdrawals, TLAPS

Held(k) == \E r \in Requests : k \in request[r].keys
Delivered(k) == \E j \in Keys : AddressOf[j] = AddressOf[k] /\ hop[j] = "COMPLETED"

\* A key is handled by one request, which has its row to itself before the batch.
Handled ==
  /\ \A r, s \in Requests : \A k \in Keys : k \in request[r].keys /\ k \in request[s].keys => r = s
  /\ \A r \in Requests : \A k, j \in request[r].keys : k = j
  /\ \A r \in Requests : \A k \in request[r].keys :
       /\ row[k].state # "none" /\ request[r].pc \notin {"new", "done"}
       /\ request[r].pc \in {"quote", "send"} => leg[k] = "none"
       /\ request[r].pc = "unsent" => leg[k] = "none" \/ k \in lost

\* What a state of the ledger says of the two legs.
Entry(k) ==
  /\ sends[k] = (IF leg[k] = "none" THEN 0 ELSE 1)
  /\ row[k].state = "none" => leg[k] = "none"
  /\ row[k].state = "failed_address" => leg[k] = "none" /\ ~Held(k)
  /\ row[k].state = "failed_polygon" /\ k \notin lost
       => leg[k] = "reverted" \/ (leg[k] = "none" /\ ~Held(k))
  /\ row[k].state = "completed" \/ k \in told => Delivered(k)
Ledger == \A k \in Keys : Entry(k)

\* What a poller carries from one await to the next is still true.
Known(q, k) ==
  /\ q.pc = "asked" /\ "COMPLETED" \in q.status /\ k \in q.todo => Delivered(k)
  /\ q.pc = "write" =>
       /\ q.next[k] \in {"none", "bridging", "completed", "failed_bridge"}
       /\ k \in q.todo => q.next[k] # "none"
       /\ q.next[k] = "completed" => Delivered(k)
  /\ q.pc = "tell" /\ k \in q.todo => Delivered(k)
  /\ q.pc \in {"answered", "set"} /\ k \in q.todo =>
       \/ q.next[k] = "polygon_confirmed"
       \/ q.next[k] = "failed_polygon" /\ leg[k] = "reverted"
Carried == \A p \in Pollers : \A k \in Keys : Known(poll[p], k)

Row == [state : {"none"} \cup States, linked : BOOLEAN, tx : BOOLEAN]
Steps == {"new", "quote", "send", "sent", "unsent", "done"}
Asking == [pc : Phases, status : SUBSET {"SEEN", "COMPLETED", "FAILED"},
           todo : SUBSET Keys, next : [Keys -> {"none"} \cup States],
           seen : {"none"} \cup States]

Chains ==
  /\ leg \in [Keys -> {"none", "sent", "mined", "reverted"}]
  /\ hop \in [Keys -> {"none", "SEEN", "COMPLETED", "FAILED"}]
  /\ sends \in [Keys -> Nat] /\ lost \subseteq Keys

Types ==
  /\ row \in [Keys -> Row] /\ request \in [Requests -> [pc : Steps, keys : SUBSET Keys]]
  /\ Chains /\ poll \in [Pollers -> Asking] /\ told \subseteq Keys /\ faults \in 0..MaxFaults

Books == Types /\ Handled /\ Ledger /\ Carried

-----------------------------------------------------------------------------
LEMMA TheStates ==
  States = {"requested", "address_created", "polygon_submitted", "polygon_confirmed",
            "bridging", "completed", "failed_address", "failed_polygon", "failed_bridge"}
<1>1. DOMAIN Ranked = {1, 2, 3, 4, 5, 6} BY DEF Ranked
<1>2. /\ Ranked[1] = "requested" /\ Ranked[2] = "address_created" /\ Ranked[3] = "polygon_submitted"
      /\ Ranked[4] = "polygon_confirmed" /\ Ranked[5] = "bridging" /\ Ranked[6] = "completed"
  BY DEF Ranked
<1> QED BY <1>1, <1>2 DEF States, Failures

\* A write to a row changes its state and no other row.
LEMMA Writes ==
  ASSUME Types, NEW k \in Keys, NEW state \in States, Write(k, state)
  PROVE  /\ row' \in [Keys -> Row] /\ row'[k].state = state
         /\ \A j \in Keys : j # k => row'[j] = row[j]
<1> DEFINE new == [row[k] EXCEPT !.state = state]
<1>1. row[k] \in Row /\ row \in [Keys -> Row] BY DEF Types, Row
<1>2. new \in Row /\ new.state = state BY <1>1 DEF Row
<1>3. row' = [row EXCEPT ![k] = new] BY DEF Write
<1> HIDE DEF new
<1> QED BY <1>1, <1>2, <1>3

\* A request goes on with what it handles, or is done.
LEMMA Goes ==
  ASSUME Types, NEW r \in Requests, NEW pc \in Steps, Go(r, pc)
  PROVE  /\ request' \in [Requests -> [pc : Steps, keys : SUBSET Keys]]
         /\ request'[r].pc = pc /\ request'[r].keys = request[r].keys
         /\ \A s \in Requests : s # r => request'[s] = request[s]
<1> DEFINE new == [request[r] EXCEPT !.pc = pc]
<1>1. request \in [Requests -> [pc : Steps, keys : SUBSET Keys]] BY DEF Types, Steps
<1>2. new \in [pc : Steps, keys : SUBSET Keys] /\ new.pc = pc /\ new.keys = request[r].keys BY <1>1
<1>3. request' = [request EXCEPT ![r] = new] BY DEF Go
<1> HIDE DEF new
<1> QED BY <1>1, <1>2, <1>3

LEMMA IsDone ==
  ASSUME Types, NEW r \in Requests, Done(r)
  PROVE  /\ request' \in [Requests -> [pc : Steps, keys : SUBSET Keys]]
         /\ request'[r].keys = {}
         /\ \A s \in Requests : s # r => request'[s] = request[s]
BY DEF Types, Steps, Done

-----------------------------------------------------------------------------
LEMMA InitBooks == Init => Books
<1> SUFFICES ASSUME Init PROVE Books OBVIOUS
<1>1. MaxFaults \in Nat BY WithdrawalsAssumption
<1>2. Nothing \in [Keys -> {"none"}] BY DEF Nothing
<1>3. Idle \in Asking /\ Idle.pc = "idle" BY <1>2 DEF Idle, Asking, Phases
<1>4. Types BY <1>1, <1>2, <1>3 DEF Init, Types, Chains, Row, Steps
<1>5. Handled BY DEF Init, Handled
<1>6. Ledger BY <1>2 DEF Init, Ledger, Entry, Held, Nothing
<1>7. Carried BY <1>3 DEF Init, Carried, Known
<1> QED BY <1>4, <1>5, <1>6, <1>7 DEF Books

-----------------------------------------------------------------------------
(* The request. *)

\* A request ends and leaves everything as it is.
LEMMA ReleaseBooks ==
  ASSUME Books, NEW r \in Requests, Done(r), faults' \in 0..MaxFaults,
         UNCHANGED <<row, leg, hop, sends, lost, poll, told>>
  PROVE  Books'
<1>1. Types /\ Handled /\ Ledger /\ Carried BY DEF Books
<1>2. \A s \in Requests : request'[s].keys \subseteq request[s].keys BY <1>1, IsDone
<1>3. Types' BY <1>1, IsDone DEF Types, Chains
<1>4. Handled' BY <1>1, IsDone DEF Handled
<1>5. Ledger' BY <1>1, <1>2 DEF Ledger, Entry, Held, Delivered
<1>6. Carried' BY <1>1 DEF Carried, Known, Delivered
<1> QED BY <1>3, <1>4, <1>5, <1>6 DEF Books

LEMMA SubmitBooks ==
  ASSUME Books, NEW r \in Requests, NEW k \in Keys, Submit(r, k) PROVE Books'
<1>1. Types /\ Handled /\ Ledger /\ Carried BY DEF Books
<1>2. UNCHANGED <<leg, hop, sends, lost, poll, told, faults>> BY DEF Submit, chain
<1>3. CASE Taken(k)
  <2>1. Done(r) /\ UNCHANGED row BY <1>3 DEF Submit
  <2> QED BY <2>1, <1>1, <1>2, ReleaseBooks DEF Types
<1>4. CASE ~Taken(k)
  <2>1. row[k].state = "none" /\ Write(k, "requested")
        /\ request' = [request EXCEPT ![r] = [pc |-> "quote", keys |-> {k}]]
    BY <1>4 DEF Submit, Taken
  <2>2. /\ row' \in [Keys -> Row] /\ row'[k].state = "requested"
        /\ \A j \in Keys : j # k => row'[j] = row[j]
    BY <1>1, <2>1, Writes, TheStates
  <2>3. /\ request'[r] = [pc |-> "quote", keys |-> {k}]
        /\ \A s \in Requests : s # r => request'[s] = request[s]
        /\ request' \in [Requests -> [pc : Steps, keys : SUBSET Keys]]
    BY <2>1, <1>1 DEF Types, Steps
  <2>4. Types'
    <3>1. Chains' BY <1>1, <1>2 DEF Types, Chains
    <3>2. poll' \in [Pollers -> Asking] /\ told' \subseteq Keys /\ faults' \in 0..MaxFaults
      BY <1>1, <1>2 DEF Types
    <3> QED BY <2>2, <2>3, <3>1, <3>2 DEF Types
  <2>5. ~Held(k) /\ leg[k] = "none" BY <1>1, <2>1 DEF Held, Handled, Ledger, Entry
  <2>6. Handled' BY <1>1, <1>2, <2>2, <2>3, <2>5, SMTT(30) DEF Handled, Held
  <2>7. Ledger'
    <3> SUFFICES ASSUME NEW j \in Keys PROVE Entry(j)' BY DEF Ledger
    <3>1. Entry(j) BY <1>1 DEF Ledger
    <3>2. Delivered(j) <=> Delivered(j)' BY <1>2 DEF Delivered
    <3>3. j # k => (Held(j)' => Held(j)) BY <2>3 DEF Held
    <3> QED BY <1>2, <2>2, <2>5, <3>1, <3>2, <3>3 DEF Entry
  <2>8. Carried' BY <1>1, <1>2 DEF Carried, Known, Delivered
  <2> QED BY <2>4, <2>6, <2>7, <2>8 DEF Books
<1> QED BY <1>3, <1>4

\* A request writes the row it handles, and goes on or ends.
LEMMA RecordBooks ==
  ASSUME Books, NEW r \in Requests, NEW k \in request[r].keys, NEW x \in States,
         UNCHANGED <<leg, hop, sends, lost, poll, told, faults>>,
         row' \in [Keys -> Row], row'[k].state = x, \A j \in Keys : j # k => row'[j] = row[j],
         Done(r) \/ (request[r].pc = "quote" /\ Go(r, "send")),
         x \notin {"none", "completed"},
         x = "failed_address" => leg[k] = "none" /\ Done(r),
         x = "failed_polygon" => Done(r) /\ (leg[k] = "none" \/ k \in lost)
  PROVE  Books'
<1>1. Types /\ Handled /\ Ledger /\ Carried /\ k \in Keys BY DEF Books, Types
<1>2. /\ request' \in [Requests -> [pc : Steps, keys : SUBSET Keys]]
      /\ request'[r].keys \subseteq request[r].keys /\ (Done(r) => request'[r].keys = {})
      /\ request'[r].keys = {} \/ (request[r].pc = "quote" /\ request'[r].pc = "send")
      /\ \A s \in Requests : s # r => request'[s] = request[s]
  BY <1>1, IsDone, Goes DEF Steps
<1>3. Types' BY <1>1, <1>2 DEF Types, Chains
<1>4. Handled'
  <2>1. \A s \in Requests : request'[s].keys \subseteq request[s].keys BY <1>2
  <2>2. \A j \in Keys : row[j].state # "none" => row'[j].state # "none" OBVIOUS
  <2>3. ASSUME NEW s \in Requests, NEW j \in request'[s].keys
        PROVE  /\ row'[j].state # "none" /\ request'[s].pc \notin {"new", "done"}
               /\ request'[s].pc \in {"quote", "send"} => leg[j] = "none"
               /\ request'[s].pc = "unsent" => leg[j] = "none" \/ j \in lost
    <3>1. j \in request[s].keys /\ j \in Keys BY <2>1, <1>2
    <3> QED BY <3>1, <2>2, <1>1, <1>2 DEF Handled
  <2>4. \A s, t \in Requests : \A j \in Keys : j \in request'[s].keys /\ j \in request'[t].keys => s = t
    BY <2>1, <1>1 DEF Handled
  <2>5. \A s \in Requests : \A i, j \in request'[s].keys : i = j BY <2>1, <1>1 DEF Handled
  <2> QED BY <2>3, <2>4, <2>5 DEF Handled
<1>5. Ledger'
  <2> SUFFICES ASSUME NEW j \in Keys PROVE Entry(j)' BY DEF Ledger
  <2>1. Entry(j) BY <1>1 DEF Ledger
  <2>2. Delivered(j) <=> Delivered(j)' BY DEF Delivered
  <2>3. Held(j)' => Held(j) BY <1>2 DEF Held
  <2>4. CASE j # k BY <2>1, <2>2, <2>3, <2>4 DEF Entry
  <2>5. CASE j = k
    <3>1. Done(r) => ~Held(k)' BY <1>1, <1>2 DEF Held, Handled
    <3> QED BY <2>1, <2>2, <2>5, <3>1 DEF Entry
  <2> QED BY <2>4, <2>5
<1>6. Carried' BY <1>1 DEF Carried, Known, Delivered
<1> QED BY <1>3, <1>4, <1>5, <1>6 DEF Books

LEMMA LinkedWrites ==
  ASSUME Types, NEW k \in Keys, NEW r, Linked(r, k) \/ RecordSent(r, k)
  PROVE  /\ row' \in [Keys -> Row] /\ row'[k].state \in {"address_created", "polygon_submitted"}
         /\ \A j \in Keys : j # k => row'[j] = row[j]
<1>1. row[k] \in Row /\ row \in [Keys -> Row] BY DEF Types
<1>2. CASE Linked(r, k)
  <2> DEFINE a == [row[k] EXCEPT !.state = "address_created"]
             b == [a EXCEPT !.linked = TRUE]
  <2>1. a \in Row /\ a.state = "address_created" BY <1>1, TheStates DEF Row
  <2>2. row' = [row EXCEPT ![k] = b] BY <1>1, <1>2 DEF Linked
  <2> HIDE DEF a
  <2>3. b \in Row /\ b.state = "address_created" BY <2>1 DEF Row
  <2> HIDE DEF b
  <2> QED BY <1>1, <2>2, <2>3
<1>3. CASE RecordSent(r, k)
  <2> DEFINE a == [row[k] EXCEPT !.state = "polygon_submitted"]
             b == [a EXCEPT !.tx = TRUE]
  <2>1. a \in Row /\ a.state = "polygon_submitted" BY <1>1, TheStates DEF Row
  <2>2. row' = [row EXCEPT ![k] = b] BY <1>1, <1>3 DEF RecordSent
  <2> HIDE DEF a
  <2>3. b \in Row /\ b.state = "polygon_submitted" BY <2>1 DEF Row
  <2> HIDE DEF b
  <2> QED BY <1>1, <2>2, <2>3
<1> QED BY <1>2, <1>3

LEMMA HandleBooks ==
  ASSUME Books, NEW r \in Requests, NEW k \in Keys,
         NoAddress(r, k) \/ Linked(r, k) \/ RecordSent(r, k) \/ RecordUnsent(r, k)
  PROVE  Books'
<1>1. Types /\ Handled BY DEF Books
<1>2. k \in request[r].keys
  BY DEF NoAddress, Linked, RecordSent, RecordUnsent, At
<1>3. UNCHANGED <<leg, hop, sends, lost, poll, told, faults>>
  BY DEF NoAddress, Linked, RecordSent, RecordUnsent, chain
<1>4. CASE NoAddress(r, k)
  <2>1. request[r].pc = "quote" /\ Done(r) /\ Write(k, "failed_address") /\ leg[k] = "none"
    BY <1>4, <1>1, <1>2 DEF NoAddress, At, Handled
  <2>2. "failed_address" \in States BY TheStates
  <2>3. /\ row' \in [Keys -> Row] /\ row'[k].state = "failed_address"
        /\ \A j \in Keys : j # k => row'[j] = row[j]
    BY <1>1, <2>1, <2>2, Writes
  <2> QED BY <1>2, <1>3, <2>1, <2>2, <2>3, RecordBooks
<1>5. CASE Linked(r, k) \/ RecordSent(r, k)
  <2>1. Done(r) \/ (request[r].pc = "quote" /\ Go(r, "send")) BY <1>5 DEF Linked, RecordSent, At
  <2>2. /\ row' \in [Keys -> Row] /\ row'[k].state \in {"address_created", "polygon_submitted"}
        /\ \A j \in Keys : j # k => row'[j] = row[j]
    BY <1>1, <1>5, LinkedWrites
  <2>3. row'[k].state \in States BY <2>2, TheStates
  <2> QED BY <1>2, <1>3, <2>1, <2>2, <2>3, RecordBooks
<1>6. CASE RecordUnsent(r, k)
  <2>1. Done(r) /\ Write(k, "failed_polygon") /\ (leg[k] = "none" \/ k \in lost)
    BY <1>6, <1>1, <1>2 DEF RecordUnsent, At, Handled
  <2>2. "failed_polygon" \in States BY TheStates
  <2>3. /\ row' \in [Keys -> Row] /\ row'[k].state = "failed_polygon"
        /\ \A j \in Keys : j # k => row'[j] = row[j]
    BY <1>1, <2>1, <2>2, Writes
  <2> QED BY <1>2, <1>3, <2>1, <2>2, <2>3, RecordBooks
<1> QED BY <1>4, <1>5, <1>6

LEMMA SendBooks ==
  ASSUME Books, NEW r \in Requests, NEW k \in Keys, Send(r, k) PROVE Books'
<1>1. Types /\ Handled /\ Ledger /\ Carried BY DEF Books
<1>2. /\ request[r].pc = "send" /\ k \in request[r].keys /\ leg[k] = "none"
      /\ UNCHANGED <<row, hop, poll, told>>
  BY <1>1 DEF Send, At, Handled
<1>3. PICK ok, out \in BOOLEAN :
        /\ ok => out
        /\ IF out /\ ~ok THEN Fault /\ lost' = lost \cup {k} ELSE UNCHANGED <<faults, lost>>
        /\ leg' = IF out THEN [leg EXCEPT ![k] = "sent"] ELSE leg
        /\ sends' = IF out THEN [sends EXCEPT ![k] = @ + 1] ELSE sends
        /\ Go(r, IF ok THEN "sent" ELSE "unsent")
  BY DEF Send
<1>4. /\ request' \in [Requests -> [pc : Steps, keys : SUBSET Keys]]
      /\ request'[r].pc = (IF ok THEN "sent" ELSE "unsent") /\ request'[r].keys = request[r].keys
      /\ \A s \in Requests : s # r => request'[s] = request[s]
  BY <1>1, <1>3, Goes DEF Steps
<1>5. \A s \in Requests : request'[s].keys = request[s].keys BY <1>4
<1>6. /\ leg' \in [Keys -> {"none", "sent", "mined", "reverted"}] /\ sends' \in [Keys -> Nat]
      /\ leg'[k] = (IF out THEN "sent" ELSE "none") /\ sends'[k] = (IF out THEN 1 ELSE 0)
      /\ \A j \in Keys : j # k => leg'[j] = leg[j] /\ sends'[j] = sends[j]
  <2>1. leg \in [Keys -> {"none", "sent", "mined", "reverted"}] /\ sends \in [Keys -> Nat]
    BY <1>1 DEF Types, Chains
  <2>2. sends[k] = 0 BY <1>1, <1>2 DEF Ledger, Entry
  <2> QED BY <2>1, <2>2, <1>2, <1>3
<1>7. lost' \subseteq Keys /\ lost \subseteq lost' /\ (out /\ ~ok => k \in lost')
      /\ (\A j \in Keys : j # k => (j \in lost' <=> j \in lost))
  BY <1>1, <1>3 DEF Types, Chains
<1>8. faults' \in 0..MaxFaults BY <1>1, <1>3, WithdrawalsAssumption DEF Types, Fault
<1>9. Types' BY <1>1, <1>2, <1>4, <1>6, <1>7, <1>8 DEF Types, Chains
<1>10. Handled'
  <2>1. ASSUME NEW s \in Requests, NEW j \in request'[s].keys
        PROVE  /\ row'[j].state # "none" /\ request'[s].pc \notin {"new", "done"}
               /\ request'[s].pc \in {"quote", "send"} => leg'[j] = "none"
               /\ request'[s].pc = "unsent" => leg'[j] = "none" \/ j \in lost'
    <3>1. j \in request[s].keys /\ j \in Keys BY <1>5, <1>1 DEF Types
    <3>2. CASE j = k
      <4>1. s = r BY <3>1, <3>2, <1>1, <1>2 DEF Handled
      <4> QED BY <4>1, <3>1, <3>2, <1>1, <1>2, <1>3, <1>4, <1>6, <1>7 DEF Handled
    <3>3. CASE j # k
      <4>1. s # r BY <3>1, <3>3, <1>1, <1>2 DEF Handled
      <4> QED BY <4>1, <3>1, <3>3, <1>1, <1>2, <1>4, <1>6, <1>7 DEF Handled
    <3> QED BY <3>2, <3>3
  <2>2. \A s, t \in Requests : \A j \in Keys : j \in request'[s].keys /\ j \in request'[t].keys => s = t
    BY <1>5, <1>1 DEF Handled
  <2>3. \A s \in Requests : \A i, j \in request'[s].keys : i = j BY <1>5, <1>1 DEF Handled
  <2> QED BY <2>1, <2>2, <2>3 DEF Handled
<1>11. Ledger'
  <2> SUFFICES ASSUME NEW j \in Keys PROVE Entry(j)' BY DEF Ledger
  <2>1. Entry(j) BY <1>1 DEF Ledger
  <2>2. Delivered(j) <=> Delivered(j)' BY <1>2 DEF Delivered
  <2>3. Held(j)' <=> Held(j) BY <1>5 DEF Held
  <2>4. CASE j # k BY <2>1, <2>2, <2>3, <2>4, <1>2, <1>6, <1>7 DEF Entry
  <2>5. CASE j = k
    <3>1. Held(k) /\ row[k].state # "none" BY <1>1, <1>2 DEF Held, Handled
    <3>2. row[k].state = "failed_polygon" => k \in lost BY <3>1, <2>1, <2>5, <1>2 DEF Entry
    <3> QED BY <2>1, <2>2, <2>5, <3>1, <3>2, <1>2, <1>6, <1>7 DEF Entry
  <2> QED BY <2>4, <2>5
<1>12. Carried'
  <2> SUFFICES ASSUME NEW p \in Pollers, NEW j \in Keys PROVE Known(poll[p], j)' BY DEF Carried
  <2>1. Known(poll[p], j) BY <1>1 DEF Carried
  <2>2. Delivered(j) <=> Delivered(j)' BY <1>2 DEF Delivered
  <2>3. leg[j] = "reverted" => leg'[j] = "reverted" BY <1>2, <1>6
  <2> QED BY <2>1, <2>2, <2>3, <1>2 DEF Known
<1> QED BY <1>9, <1>10, <1>11, <1>12 DEF Books

-----------------------------------------------------------------------------
(* The relayer and the bridge. *)

LEMMA ChainBooks ==
  ASSUME Books, NEW k \in Keys, PolygonLeg(k) \/ BridgeLeg(k) PROVE Books'
<1>1. Types /\ Handled /\ Ledger /\ Carried BY DEF Books
<1>2. UNCHANGED <<row, request, poll, sends, lost, told, faults>> BY DEF PolygonLeg, BridgeLeg
<1>3. /\ leg' \in [Keys -> {"none", "sent", "mined", "reverted"}]
      /\ hop' \in [Keys -> {"none", "SEEN", "COMPLETED", "FAILED"}]
      /\ \A j \in Keys : /\ (leg'[j] = "none") <=> (leg[j] = "none")
                         /\ leg[j] = "reverted" => leg'[j] = "reverted"
                         /\ hop[j] = "COMPLETED" => hop'[j] = "COMPLETED"
  <2>1. /\ leg \in [Keys -> {"none", "sent", "mined", "reverted"}]
        /\ hop \in [Keys -> {"none", "SEEN", "COMPLETED", "FAILED"}]
    BY <1>1 DEF Types, Chains
  <2>2. CASE PolygonLeg(k) BY <2>1, <2>2 DEF PolygonLeg
  <2>3. CASE BridgeLeg(k) BY <2>1, <2>3 DEF BridgeLeg
  <2> QED BY <2>2, <2>3
<1>4. Types' BY <1>1, <1>2, <1>3 DEF Types, Chains
<1>5. Handled'
  <2>1. \A r \in Requests : request[r].keys \subseteq Keys BY <1>1 DEF Types
  <2> QED BY <2>1, <1>1, <1>2, <1>3 DEF Handled
<1>6. \A j \in Keys : Delivered(j) => Delivered(j)' BY <1>3 DEF Delivered
<1>7. Ledger'
  <2> SUFFICES ASSUME NEW j \in Keys PROVE Entry(j)' BY DEF Ledger
  <2>1. Entry(j) BY <1>1 DEF Ledger
  <2>2. Held(j)' <=> Held(j) BY <1>2 DEF Held
  <2> QED BY <2>1, <2>2, <1>2, <1>3, <1>6 DEF Entry
<1>8. Carried'
  <2> SUFFICES ASSUME NEW p \in Pollers, NEW j \in Keys PROVE Known(poll[p], j)' BY DEF Carried
  <2>1. Known(poll[p], j) BY <1>1 DEF Carried
  <2> QED BY <2>1, <1>2, <1>3, <1>6 DEF Known
<1> QED BY <1>4, <1>5, <1>7, <1>8 DEF Books

-----------------------------------------------------------------------------
(* The pollers. *)

\* A poller goes on from true knowledge to true knowledge, and what it writes is true.
LEMMA PollBooks ==
  ASSUME Books, NEW p \in Pollers, NEW q \in Asking, Becomes(p, q),
         \A k \in Keys : Known(q, k),
         UNCHANGED <<request, leg, hop, sends, lost>>,
         row' \in [Keys -> Row],
         \A k \in Keys :
           \/ row'[k].state = row[k].state
           \/ row'[k].state \in {"bridging", "failed_bridge", "polygon_confirmed"}
           \/ row'[k].state = "completed" /\ Delivered(k)
           \/ row'[k].state = "failed_polygon" /\ leg[k] = "reverted",
         told' \subseteq Keys, \A k \in told' : k \in told \/ Delivered(k),
         \A k \in Keys : row[k].state # "none" => row'[k].state # "none",
         faults' \in 0..MaxFaults
  PROVE  Books'
<1>1. Types /\ Handled /\ Ledger /\ Carried BY DEF Books
<1>2. poll' = [poll EXCEPT ![p] = q] /\ poll \in [Pollers -> Asking] BY <1>1 DEF Becomes, Types
<1>3. Types' BY <1>1, <1>2 DEF Types, Chains
<1>4. Handled'
  <2>1. \A r \in Requests : request[r].keys \subseteq Keys BY <1>1 DEF Types
  <2> QED BY <2>1, <1>1 DEF Handled
<1>5. \A k \in Keys : Delivered(k) <=> Delivered(k)' BY DEF Delivered
<1>6. Ledger'
  <2> SUFFICES ASSUME NEW k \in Keys PROVE Entry(k)' BY DEF Ledger
  <2>1. Entry(k) BY <1>1 DEF Ledger
  <2>2. Held(k)' <=> Held(k) BY DEF Held
  <2>3. row'[k].state = "none" => row[k].state = "none" OBVIOUS
  <2> QED BY <2>1, <2>2, <2>3, <1>5 DEF Entry
<1>7. Carried'
  <2> SUFFICES ASSUME NEW s \in Pollers, NEW k \in Keys PROVE Known(poll[s], k)' BY DEF Carried
  <2>1. Known(poll'[s], k)
    <3>1. CASE s = p BY <3>1, <1>2
    <3>2. CASE s # p BY <3>2, <1>1, <1>2 DEF Carried
    <3> QED BY <3>1, <3>2
  <2> QED BY <2>1, <1>5 DEF Known
<1> QED BY <1>3, <1>4, <1>6, <1>7 DEF Books

LEMMA IdleKnows ==
  Idle \in Asking /\ \A k \in Keys : Known(Idle, k)
<1>1. Nothing \in [Keys -> {"none"}] BY DEF Nothing
<1>2. Idle.pc = "idle" BY DEF Idle
<1> QED BY <1>1, <1>2 DEF Idle, Asking, Phases, Known

\* A poller that only reads.
LEMMA ReadBooks ==
  ASSUME Books, NEW p \in Pollers, NEW q \in Asking, Becomes(p, q), \A k \in Keys : Known(q, k),
         UNCHANGED <<row, request, leg, hop, sends, lost>>,
         told' \subseteq Keys, \A k \in told' : k \in told \/ Delivered(k),
         faults' \in 0..MaxFaults
  PROVE  Books'
<1>1. row' \in [Keys -> Row] BY DEF Books, Types
<1>2. \A k \in Keys : row'[k].state = row[k].state OBVIOUS
<1> QED BY <1>1, <1>2, PollBooks

LEMMA AskBridgeBooks ==
  ASSUME Books, NEW p \in Pollers, NEW a \in Addresses, AskBridge(p, a) PROVE Books'
<1> DEFINE q == [Idle EXCEPT !.pc = "asked", !.status = StatusOf(a),
                             !.todo = {k \in Keys : AddressOf[k] = a}]
<1>1. /\ Becomes(p, IF StatusOf(a) = {} \/ Linkeds(a) = {} THEN Idle ELSE q)
      /\ UNCHANGED <<row, request, leg, hop, sends, lost, told, faults>>
  BY DEF AskBridge, chain
<1>2. Types BY DEF Books
<1>3. CASE Becomes(p, Idle) BY <1>1, <1>2, <1>3, IdleKnows, ReadBooks DEF Types
<1>4. StatusOf(a) \subseteq {"SEEN", "COMPLETED", "FAILED"} BY <1>2 DEF Types, Chains, StatusOf
<1>5. Nothing \in [Keys -> {"none"} \cup States] BY DEF Nothing
<1>6. /\ q \in Asking /\ q.pc = "asked" /\ q.status = StatusOf(a)
      /\ q.todo = {j \in Keys : AddressOf[j] = a}
  <2> DEFINE todo == {j \in Keys : AddressOf[j] = a}
  <2>1. todo \in SUBSET Keys /\ StatusOf(a) \in SUBSET {"SEEN", "COMPLETED", "FAILED"} BY <1>4
  <2> DEFINE b == [Idle EXCEPT !.pc = "asked"]
             c == [b EXCEPT !.status = StatusOf(a)]
  <2>2. b \in Asking /\ b.pc = "asked" BY IdleKnows DEF Asking, Phases
  <2>3. q = [c EXCEPT !.todo = todo] OBVIOUS
  <2> HIDE DEF b, q, todo
  <2>4. c \in Asking /\ c.pc = "asked" /\ c.status = StatusOf(a) BY <2>1, <2>2 DEF Asking
  <2> HIDE DEF c
  <2>5. q \in Asking /\ q.pc = "asked" /\ q.status = StatusOf(a) /\ q.todo = todo
    BY <2>1, <2>3, <2>4 DEF Asking
  <2> QED BY <2>5 DEF todo
<1>7. ASSUME NEW k \in Keys PROVE Known(q, k)
  <2>1. "COMPLETED" \in StatusOf(a) /\ AddressOf[k] = a => Delivered(k) BY DEF StatusOf, Delivered
  <2> HIDE DEF q
  <2> QED BY <2>1, <1>6 DEF Known
<1> HIDE DEF q
<1>8. CASE Becomes(p, q) BY <1>1, <1>2, <1>6, <1>7, <1>8, ReadBooks DEF Types
<1> QED BY <1>1, <1>3, <1>8

LEMMA VerdictIs ==
  ASSUME NEW status \in SUBSET {"SEEN", "COMPLETED", "FAILED"}, NEW state
  PROVE  /\ Verdict(status, state) \in {"none", "bridging", "completed", "failed_bridge"}
         /\ Verdict(status, state) = "completed" => "COMPLETED" \in status
<1>1. CASE state \in Terminal BY <1>1 DEF Verdict
<1>2. CASE state \notin Terminal /\ "COMPLETED" \in status BY <1>2 DEF Verdict
<1>3. CASE state \notin Terminal /\ "COMPLETED" \notin status BY <1>3 DEF Verdict
<1> QED BY <1>1, <1>2, <1>3

LEMMA ReadRowsBooks ==
  ASSUME Books, NEW p \in Pollers, ReadRows(p) PROVE Books'
<1> DEFINE next == [k \in Keys |-> IF k \in poll[p].todo /\ row[k].linked
                              THEN Verdict(poll[p].status, row[k].state) ELSE "none"]
           moving == {k \in Keys : next[k] # "none"}
           q == [Idle EXCEPT !.pc = "write", !.next = next, !.todo = moving]
<1>1. /\ poll[p].pc = "asked" /\ Becomes(p, IF moving = {} THEN Idle ELSE q)
      /\ UNCHANGED <<row, request, leg, hop, sends, lost, told, faults>>
  BY DEF ReadRows, chain
<1>2. Types /\ Carried BY DEF Books
<1>3. poll[p].status \in SUBSET {"SEEN", "COMPLETED", "FAILED"} BY <1>2 DEF Types, Asking
<1>4. ASSUME NEW k \in Keys
      PROVE  /\ next[k] \in {"none", "bridging", "completed", "failed_bridge"}
             /\ next[k] = "completed" => Delivered(k)
  <2>1. CASE k \in poll[p].todo /\ row[k].linked
    <3>1. next[k] = Verdict(poll[p].status, row[k].state) BY <2>1
    <3>2. "COMPLETED" \in poll[p].status => Delivered(k) BY <2>1, <1>1, <1>2 DEF Carried, Known
    <3> QED BY <3>1, <3>2, <1>3, VerdictIs
  <2>2. CASE ~(k \in poll[p].todo /\ row[k].linked) BY <2>2
  <2> QED BY <2>1, <2>2
<1>5. next \in [Keys -> {"none"} \cup States] BY <1>4, TheStates
<1>6. \A k \in moving : next[k] # "none" OBVIOUS
<1>7. moving \subseteq Keys OBVIOUS
<1> HIDE DEF next, moving
<1>8. q \in Asking /\ q.pc = "write" /\ q.next = next /\ q.todo = moving
  <2> DEFINE b == [Idle EXCEPT !.pc = "write"]
             c == [b EXCEPT !.next = next]
  <2>1. b \in Asking /\ b.pc = "write" BY IdleKnows DEF Asking, Phases
  <2>2. q = [c EXCEPT !.todo = moving] OBVIOUS
  <2> HIDE DEF b, q
  <2>3. c \in Asking /\ c.pc = "write" /\ c.next = next BY <2>1, <1>5 DEF Asking
  <2> HIDE DEF c
  <2> QED BY <2>2, <2>3, <1>7 DEF Asking
<1> HIDE DEF q
<1>9. \A k \in Keys : Known(q, k) BY <1>4, <1>6, <1>8 DEF Known
<1> QED BY <1>1, <1>2, <1>8, <1>9, IdleKnows, ReadBooks DEF Types

LEMMA WriteRowBooks ==
  ASSUME Books, NEW p \in Pollers, NEW k \in Keys, WriteRow(p, k) PROVE Books'
<1> DEFINE rest == [poll[p] EXCEPT !.todo = @ \ {k}]
           done == {j \in Keys : poll[p].next[j] = "completed"}
           tells == [poll[p] EXCEPT !.pc = "tell", !.todo = done]
           q == IF poll[p].todo = {k} THEN Announcing(p, poll[p]) ELSE rest
<1>1. /\ poll[p].pc = "write" /\ k \in poll[p].todo /\ Write(k, poll[p].next[k]) /\ Becomes(p, q)
      /\ UNCHANGED <<request, leg, hop, sends, lost, told, faults>>
  BY DEF WriteRow, chain
<1>2. Types /\ poll[p] \in Asking /\ \A j \in Keys : Known(poll[p], j) BY DEF Books, Types, Carried
<1>3. /\ poll[p].next[k] \in {"bridging", "completed", "failed_bridge"}
      /\ \A j \in Keys : poll[p].next[j] = "completed" => Delivered(j)
  BY <1>1, <1>2 DEF Known
<1>4. poll[p].next[k] \in States BY <1>3, TheStates
<1>5. /\ row' \in [Keys -> Row] /\ row'[k].state = poll[p].next[k]
      /\ \A j \in Keys : j # k => row'[j] = row[j]
  BY <1>1, <1>2, <1>4, Writes
<1>6. rest \in Asking /\ \A j \in Keys : Known(rest, j)
  <2>1. /\ rest \in Asking /\ rest.pc = "write" /\ rest.next = poll[p].next
        /\ rest.todo = poll[p].todo \ {k}
    BY <1>1, <1>2 DEF Asking
  <2> HIDE DEF rest
  <2> QED BY <2>1, <1>1, <1>2 DEF Known
<1>7. tells \in Asking /\ \A j \in Keys : Known(tells, j)
  <2> DEFINE a == [poll[p] EXCEPT !.pc = "tell"]
  <2>1. a \in Asking /\ a.pc = "tell" BY <1>2 DEF Asking, Phases
  <2>2. tells = [a EXCEPT !.todo = done] BY DEF tells
  <2>3. done \subseteq Keys /\ \A j \in done : Delivered(j) BY <1>3
  <2> HIDE DEF a, done
  <2>4. tells \in Asking /\ tells.pc = "tell" /\ tells.todo = done BY <2>1, <2>2, <2>3 DEF Asking
  <2> HIDE DEF tells
  <2> QED BY <2>3, <2>4 DEF Known
<1>8. q \in {rest, tells, Idle} BY DEF Announcing
<1> HIDE DEF rest, tells, q
<1>9. q \in Asking /\ \A j \in Keys : Known(q, j) BY <1>6, <1>7, <1>8, IdleKnows
<1>10. \A j \in Keys :
         /\ row[j].state # "none" => row'[j].state # "none"
         /\ \/ row'[j].state = row[j].state
            \/ row'[j].state \in {"bridging", "failed_bridge", "polygon_confirmed"}
            \/ row'[j].state = "completed" /\ Delivered(j)
  BY <1>3, <1>5
<1> QED BY <1>1, <1>2, <1>5, <1>9, <1>10, PollBooks DEF Types

LEMMA TellBooks ==
  ASSUME Books, NEW p \in Pollers, NEW k \in Keys, Tell(p, k) PROVE Books'
<1> DEFINE rest == [poll[p] EXCEPT !.todo = @ \ {k}]
           q == IF poll[p].todo = {k} THEN Idle ELSE rest
<1>1. /\ poll[p].pc = "tell" /\ k \in poll[p].todo /\ Becomes(p, q)
      /\ told' \in {told, told \cup {k}}
      /\ UNCHANGED <<row, request, leg, hop, sends, lost, faults>>
  BY DEF Tell, chain
<1>2. Types /\ poll[p] \in Asking /\ \A j \in Keys : Known(poll[p], j) BY DEF Books, Types, Carried
<1>3. rest \in Asking /\ \A j \in Keys : Known(rest, j)
  <2>1. rest \in Asking /\ rest.pc = "tell" /\ rest.todo = poll[p].todo \ {k}
    BY <1>1, <1>2 DEF Asking
  <2> HIDE DEF rest
  <2> QED BY <2>1, <1>1, <1>2 DEF Known
<1> HIDE DEF rest
<1>4. q \in Asking /\ \A j \in Keys : Known(q, j) BY <1>3, IdleKnows
<1>5. Delivered(k) BY <1>1, <1>2 DEF Known
<1>6. told' \subseteq Keys /\ \A j \in told' : j \in told \/ Delivered(j)
  BY <1>1, <1>2, <1>5 DEF Types
<1> HIDE DEF q
<1> QED BY <1>1, <1>2, <1>4, <1>6, ReadBooks DEF Types

LEMMA AskRelayerBooks ==
  ASSUME Books, NEW p \in Pollers, NEW k \in Keys, AskRelayer(p, k) PROVE Books'
<1> DEFINE q == [Idle EXCEPT !.pc = "answered", !.todo = {k}, !.next[k] = Answer(leg[k])]
<1>1. /\ Answer(leg[k]) # "none" /\ Becomes(p, q)
      /\ UNCHANGED <<row, request, leg, hop, sends, lost, told, faults>>
  BY DEF AskRelayer, chain
<1>2. Types BY DEF Books
<1>3. \/ Answer(leg[k]) = "polygon_confirmed"
      \/ Answer(leg[k]) = "failed_polygon" /\ leg[k] = "reverted"
  BY <1>1 DEF Answer
<1>4. q \in Asking /\ q.pc = "answered" /\ q.todo = {k} /\ q.next[k] = Answer(leg[k])
  <2> DEFINE a == [Idle EXCEPT !.pc = "answered"]
             b == [a EXCEPT !.todo = {k}]
             next == [b.next EXCEPT ![k] = Answer(leg[k])]
  <2>1. a \in Asking /\ a.pc = "answered" BY IdleKnows DEF Asking, Phases
  <2>2. q = [b EXCEPT !.next = next] OBVIOUS
  <2> HIDE DEF a
  <2>3. b \in Asking /\ b.pc = "answered" /\ b.todo = {k} BY <2>1 DEF Asking
  <2> HIDE DEF b
  <2>4. Answer(leg[k]) \in States BY <1>3, TheStates
  <2>5. next \in [Keys -> {"none"} \cup States] /\ next[k] = Answer(leg[k])
    BY <2>3, <2>4 DEF Asking
  <2> HIDE DEF next
  <2>6. /\ [b EXCEPT !.next = next] \in Asking /\ [b EXCEPT !.next = next].pc = "answered"
        /\ [b EXCEPT !.next = next].todo = {k} /\ [b EXCEPT !.next = next].next = next
    BY <2>3, <2>5 DEF Asking
  <2> QED BY <2>2, <2>5, <2>6
<1> HIDE DEF q
<1>5. \A j \in Keys : Known(q, j) BY <1>3, <1>4 DEF Known
<1> QED BY <1>1, <1>2, <1>4, <1>5, ReadBooks DEF Types

LEMMA ReadRowBooks ==
  ASSUME Books, NEW p \in Pollers, NEW k \in Keys, ReadRow(p, k) PROVE Books'
<1> DEFINE s == [poll[p] EXCEPT !.pc = "set", !.seen = row[k].state]
<1>1. /\ poll[p].pc = "answered" /\ k \in poll[p].todo /\ (Becomes(p, s) \/ Becomes(p, Idle))
      /\ UNCHANGED <<row, request, leg, hop, sends, lost, told, faults>>
  BY DEF ReadRow, chain
<1>2. Types /\ poll[p] \in Asking /\ \A j \in Keys : Known(poll[p], j) BY DEF Books, Types, Carried
<1>3. s \in Asking /\ s.pc = "set" /\ s.todo = poll[p].todo /\ s.next = poll[p].next
  <2> DEFINE a == [poll[p] EXCEPT !.pc = "set"]
  <2>1. /\ a \in Asking /\ a.pc = "set" /\ a.todo = poll[p].todo /\ a.next = poll[p].next
        /\ s = [a EXCEPT !.seen = row[k].state]
    BY <1>2 DEF Asking, Phases
  <2>2. row[k].state \in {"none"} \cup States BY <1>2 DEF Types, Row
  <2> HIDE DEF a
  <2> QED BY <2>1, <2>2 DEF Asking
<1> HIDE DEF s
<1>4. \A j \in Keys : Known(s, j) BY <1>1, <1>2, <1>3 DEF Known
<1> QED BY <1>1, <1>2, <1>3, <1>4, IdleKnows, ReadBooks DEF Types

LEMMA SetRowBooks ==
  ASSUME Books, NEW p \in Pollers, NEW k \in Keys, SetRow(p, k) PROVE Books'
<1>1. /\ poll[p].pc = "set" /\ k \in poll[p].todo /\ Becomes(p, Idle)
      /\ (Write(k, poll[p].next[k]) \/ UNCHANGED row)
      /\ UNCHANGED <<request, leg, hop, sends, lost, told, faults>>
  BY DEF SetRow, chain
<1>2. Types /\ \A j \in Keys : Known(poll[p], j) BY DEF Books, Carried
<1>3. \/ poll[p].next[k] = "polygon_confirmed"
      \/ poll[p].next[k] = "failed_polygon" /\ leg[k] = "reverted"
  BY <1>1, <1>2 DEF Known
<1>4. CASE UNCHANGED row BY <1>1, <1>2, <1>4, IdleKnows, ReadBooks DEF Types
<1>5. CASE Write(k, poll[p].next[k])
  <2>1. poll[p].next[k] \in States BY <1>3, TheStates
  <2>2. /\ row' \in [Keys -> Row] /\ row'[k].state = poll[p].next[k]
        /\ \A j \in Keys : j # k => row'[j] = row[j]
    BY <1>2, <1>5, <2>1, Writes
  <2>3. \A j \in Keys :
          /\ row[j].state # "none" => row'[j].state # "none"
          /\ \/ row'[j].state = row[j].state
             \/ row'[j].state \in {"bridging", "failed_bridge", "polygon_confirmed"}
             \/ row'[j].state = "failed_polygon" /\ leg[j] = "reverted"
    BY <1>3, <2>2
  <2> QED BY <1>1, <1>2, <2>2, <2>3, IdleKnows, PollBooks DEF Types
<1> QED BY <1>1, <1>4, <1>5

-----------------------------------------------------------------------------
LEMMA NextBooks == ASSUME Books, [Next]_vars PROVE Books'
<1>1. CASE UNCHANGED vars
  BY <1>1 DEF vars, Books, Types, Chains, Handled, Ledger, Entry, Held, Delivered, Carried, Known
<1>2. CASE \E r \in Requests : RequestDies(r)
  <2>1. PICK r \in Requests : RequestDies(r) BY <1>2
  <2>2. Done(r) /\ Fault /\ UNCHANGED <<row, leg, hop, sends, lost, poll, told>>
    BY <2>1 DEF RequestDies, chain
  <2>3. faults' \in 0..MaxFaults BY <2>2, WithdrawalsAssumption DEF Books, Types, Fault
  <2> QED BY <2>2, <2>3, ReleaseBooks
<1>3. CASE \E p \in Pollers : PollerDies(p)
  <2>1. PICK p \in Pollers : PollerDies(p) BY <1>3
  <2>2. Becomes(p, Idle) /\ Fault /\ UNCHANGED <<row, request, leg, hop, sends, lost, told>>
    BY <2>1 DEF PollerDies, chain
  <2>3. faults' \in 0..MaxFaults BY <2>2, WithdrawalsAssumption DEF Books, Types, Fault
  <2> QED BY <2>2, <2>3, IdleKnows, ReadBooks DEF Books, Types
<1>4. CASE \E r \in Requests, k \in Keys : Submit(r, k) \/ Send(r, k)
  BY <1>4, SubmitBooks, SendBooks
<1>5. CASE \E r \in Requests : Handle(r)
  BY <1>5, HandleBooks, SendBooks DEF Handle
<1>6. CASE \E k \in Keys : PolygonLeg(k) \/ BridgeLeg(k) BY <1>6, ChainBooks
<1>7. CASE \E p \in Pollers : GoOn(p)
  BY <1>7, ReadRowsBooks, WriteRowBooks, TellBooks, ReadRowBooks, SetRowBooks DEF GoOn
<1>8. CASE \E p \in Pollers : \/ \E a \in Addresses : AskBridge(p, a)
                             \/ \E k \in Keys : AskRelayer(p, k)
  BY <1>8, AskBridgeBooks, AskRelayerBooks
<1>9. CASE Sweep
  <2>1. UNCHANGED <<row, request, leg, hop, poll, sends, lost, told, faults>> BY <1>9 DEF Sweep, chain
  <2> QED BY <2>1 DEF Books, Types, Chains, Handled, Ledger, Entry, Held, Delivered, Carried, Known
<1> QED BY <1>1, <1>2, <1>3, <1>4, <1>5, <1>6, <1>7, <1>8, <1>9 DEF Next

\* The sweeps: where the addresses are in their order.
Listing ==
  /\ checked \subseteq Addresses /\ ahead \in [Addresses -> SUBSET Addresses]
  /\ batch \subseteq Addresses

\* Whoever acts, the order changes as an address is checked, the batch as it is visited,
\* swept together or lost.
LEMMA WhoLists ==
  ASSUME [Next]_vars
  PROVE  /\ UNCHANGED <<checked, ahead>> \/ \E p \in Pollers, a \in Addresses : AskBridge(p, a) /\ Check(a)
         /\ batch' \subseteq batch \/ Sweep
<1>1. CASE UNCHANGED sweep BY <1>1 DEF sweep
<1>2. CASE \E r \in Requests : (\E k \in Keys : Submit(r, k)) \/ Handle(r) \/ RequestDies(r)
  BY <1>1, <1>2 DEF Submit, Handle, NoAddress, Linked, Send, RecordSent, RecordUnsent, RequestDies
<1>3. CASE \E k \in Keys : PolygonLeg(k) \/ BridgeLeg(k) BY <1>1, <1>3 DEF PolygonLeg, BridgeLeg
<1>4. CASE \E p \in Pollers : GoOn(p) \/ \E k \in Keys : AskRelayer(p, k)
  BY <1>1, <1>4 DEF GoOn, ReadRows, WriteRow, Tell, ReadRow, SetRow, AskRelayer
<1>5. CASE \E p \in Pollers : PollerDies(p) BY <1>5 DEF PollerDies
<1>6. CASE \E p \in Pollers, a \in Addresses : AskBridge(p, a)
  <2>1. PICK p \in Pollers, a \in Addresses : AskBridge(p, a) BY <1>6
  <2>2. Check(a) /\ batch' \subseteq batch BY <2>1 DEF AskBridge
  <2> QED BY <2>1, <2>2
<1>7. CASE Sweep BY <1>7 DEF Sweep
<1>8. CASE UNCHANGED vars BY <1>1, <1>8 DEF vars, sweep
<1> QED BY <1>2, <1>3, <1>4, <1>5, <1>6, <1>7, <1>8 DEF Next

LEMMA NextListing == ASSUME Listing, [Next]_vars PROVE Listing'
<1>1. checked' \subseteq Addresses /\ ahead' \in [Addresses -> SUBSET Addresses]
  <2>1. CASE UNCHANGED <<checked, ahead>> BY <2>1 DEF Listing
  <2>2. CASE \E a \in Addresses : Check(a) BY <2>2 DEF Check, Listing
  <2> QED BY <2>1, <2>2, WhoLists
<1>2. batch' \subseteq Addresses
  <2>1. CASE Sweep BY <2>1 DEF Sweep
  <2> QED BY <2>1, WhoLists DEF Listing
<1> QED BY <1>1, <1>2 DEF Listing

\* The ledger, the requests and the pollers stay of their types.
THEOREM TypeCorrect == Spec => []TypeOK
<1>1. Books /\ Listing => TypeOK BY DEF Books, Types, Chains, TypeOK, Row, Steps, Asking, Listing
<1>2. Init => Listing BY DEF Init, Listing
<1> QED BY <1>1, <1>2, InitBooks, NextBooks, NextListing, PTL DEF Spec

\* However often a withdrawal is submitted, and whichever answer is lost, its batch is
\* executed once at most.
THEOREM FundsLeaveOnce == Spec => []SentOnce
<1>1. Books => SentOnce BY DEF Books, Ledger, Entry, SentOnce
<1> QED BY <1>1, InitBooks, NextBooks, PTL DEF Spec

\* Nothing is completed or announced that the bridge has not delivered to its address.
THEOREM CompletionsAreReal == Spec => []CompletedIsDelivered
<1>1. Books => CompletedIsDelivered BY DEF Books, Ledger, Entry, Delivered, CompletedIsDelivered
<1> QED BY <1>1, InitBooks, NextBooks, PTL DEF Spec

\* A withdrawal failed on Polygon, or before, has its funds where they were.
THEOREM FailuresAreRecoverable == Spec => []FailedIsRecoverable
<1>1. Books => FailedIsRecoverable BY DEF Books, Ledger, Entry, FailedIsRecoverable
<1> QED BY <1>1, InitBooks, NextBooks, PTL DEF Spec

-----------------------------------------------------------------------------
(* TransfersSettle, but for the fairness: what the bridge has decided is in   *)
(* reach of every sweep; a sweep that begins after it writes it; and only who *)
(* was under way by then can undo that, each of them once.                    *)

\* Funds that are out have an address in the ledger, and a poller that is about to
\* compare and set has not seen a final state.
Traced ==
  /\ \A r \in Requests : \A k \in request[r].keys :
       request[r].pc \in {"send", "sent", "unsent"} => row[k].linked
  /\ \A k \in Keys : /\ leg[k] # "none" => row[k].linked
                     /\ hop[k] # "none" => leg[k] = "mined"
  /\ \A p \in Pollers : poll[p].pc = "set" => poll[p].seen \notin Terminal

LEMMA InitTraced == Init => Traced
BY DEF Init, Traced, Nothing, Idle

ByRequest(r) == (\E k \in Keys : Submit(r, k)) \/ Handle(r) \/ RequestDies(r)
ByPoller(p) == \/ GoOn(p) \/ PollerDies(p)
               \/ \E a \in Addresses : AskBridge(p, a)
               \/ \E k \in Keys : AskRelayer(p, k)

LEMMA WhoActs ==
  ASSUME [Next]_vars
  PROVE  \/ UNCHANGED vars
         \/ \E r \in Requests : ByRequest(r)
         \/ \E k \in Keys : PolygonLeg(k) \/ BridgeLeg(k)
         \/ \E p \in Pollers : ByPoller(p)
         \/ Sweep
BY DEF Next, ByRequest, ByPoller

\* No write takes a row's address away.
LEMMA LinksStay ==
  ASSUME Books, [Next]_vars
  PROVE  \A k \in Keys : row[k].linked => row'[k].linked
<1> SUFFICES ASSUME NEW k \in Keys, row[k].linked PROVE row'[k].linked OBVIOUS
<1>1. row \in [Keys -> Row] /\ row[k] \in Row BY DEF Books, Types
<1>2. ASSUME NEW j \in Keys, NEW state, Write(j, state) PROVE row'[k].linked
  <2>1. row' = [row EXCEPT ![j] = [row[j] EXCEPT !.state = state]] BY <1>2 DEF Write
  <2>2. [row[k] EXCEPT !.state = state].linked = row[k].linked BY <1>1 DEF Row
  <2> QED BY <1>1, <2>1, <2>2
<1>3. ASSUME NEW j \in Keys, NEW r, Linked(r, j) PROVE row'[k].linked
  <2> DEFINE b == [row[j] EXCEPT !.state = "address_created"]
  <2>1. row' = [row EXCEPT ![j] = [b EXCEPT !.linked = TRUE]] BY <1>3 DEF Linked
  <2>2. b \in [state : States \cup {"none", "address_created"}, linked : BOOLEAN, tx : BOOLEAN]
    BY <1>1 DEF Row
  <2> HIDE DEF b
  <2>3. [b EXCEPT !.linked = TRUE].linked = TRUE BY <2>2
  <2> QED BY <1>1, <2>1, <2>3
<1>4. ASSUME NEW j \in Keys, NEW r, RecordSent(r, j) PROVE row'[k].linked
  <2> DEFINE b == [row[j] EXCEPT !.state = "polygon_submitted"]
  <2>1. row' = [row EXCEPT ![j] = [b EXCEPT !.tx = TRUE]] BY <1>4 DEF RecordSent
  <2>2. /\ b \in [state : States \cup {"none", "polygon_submitted"}, linked : BOOLEAN, tx : BOOLEAN]
        /\ b.linked = row[j].linked
    BY <1>1 DEF Row
  <2> HIDE DEF b
  <2>3. [b EXCEPT !.tx = TRUE].linked = row[j].linked BY <2>2
  <2> QED BY <1>1, <2>1, <2>3
<1>5. CASE UNCHANGED row BY <1>5
<1>6. \/ UNCHANGED row
      \/ \E j \in Keys, state \in {"requested", "failed_address", "failed_polygon"} : Write(j, state)
      \/ \E j \in Keys, p \in Pollers : Write(j, poll[p].next[j])
      \/ \E j \in Keys, r \in Requests : Linked(r, j) \/ RecordSent(r, j)
  <2>1. CASE UNCHANGED vars BY <2>1 DEF vars
  <2>2. CASE \E r \in Requests : ByRequest(r)
    BY <2>2 DEF ByRequest, Submit, Handle, NoAddress, Send, RecordUnsent, RequestDies
  <2>3. CASE \E j \in Keys : PolygonLeg(j) \/ BridgeLeg(j) BY <2>3 DEF PolygonLeg, BridgeLeg
  <2>4. CASE \E p \in Pollers : ByPoller(p)
    BY <2>4, ZenonT(60) DEF ByPoller, GoOn, ReadRows, WriteRow, Tell, ReadRow, SetRow, PollerDies, AskBridge, AskRelayer
  <2>5. CASE Sweep BY <2>5 DEF Sweep
  <2> QED BY <2>1, <2>2, <2>3, <2>4, <2>5, WhoActs
<1> QED BY <1>2, <1>3, <1>4, <1>5, <1>6

\* Funds leave, and a request goes on, only once there is an address.
LEMMA RequestTraced ==
  ASSUME Books, Traced, [Next]_vars,
         NEW r \in Requests, ByRequest(r)
  PROVE  Traced'
<1>1. Types /\ Handled BY DEF Books
<1>2. \A k \in Keys : row[k].linked => row'[k].linked BY LinksStay
<1>3. UNCHANGED <<poll, hop>>
  BY DEF ByRequest, Submit, Handle, NoAddress, Linked, Send, RecordSent, RecordUnsent, RequestDies, chain
<1>4. leg \in [Keys -> {"none", "sent", "mined", "reverted"}] /\ row \in [Keys -> Row]
  BY <1>1 DEF Types, Chains
<1>5. \A s \in Requests : request[s].keys \subseteq Keys BY <1>1 DEF Types
<1>6. \A s \in Requests : s # r => request'[s] = request[s]
  BY <1>1 DEF ByRequest, Types, Submit, Handle, NoAddress, Linked, Send, RecordSent, RecordUnsent, RequestDies, Go, Done
<1>7. /\ \A k \in Keys : leg'[k] = leg[k] \/ (leg[k] = "none" /\ leg'[k] # "none" /\ row[k].linked)
      /\ \A k \in request'[r].keys :
           request'[r].pc \in {"send", "sent", "unsent"} => k \in Keys /\ row'[k].linked
  <2>1. CASE \E k \in Keys : Submit(r, k)
    <3>1. PICK k \in Keys : Submit(r, k) BY <2>1
    <3>2. request'[r].pc \in {"quote", "done"} BY <3>1, <1>1 DEF Submit, Types, Done
    <3> QED BY <3>1, <3>2 DEF Submit, chain
  <2>2. CASE Done(r) /\ UNCHANGED leg
    <3>1. request'[r].pc = "done" BY <2>2, <1>1 DEF Types, Done
    <3> QED BY <2>2, <3>1
  <2>3. CASE \E k \in Keys : Linked(r, k)
    <3>1. PICK k \in Keys : Linked(r, k) BY <2>3
    <3>2. /\ k \in request[r].keys /\ Go(r, "send") /\ UNCHANGED leg
          /\ row' = [row EXCEPT ![k].state = "address_created", ![k].linked = TRUE]
      BY <3>1 DEF Linked, At, chain
    <3>3. request'[r].keys = request[r].keys BY <3>2, <1>1, Goes DEF Steps
    <3>4. \A j \in request'[r].keys : j = k BY <3>2, <3>3, <1>1 DEF Handled
    <3>5. row'[k].linked = TRUE
      <4> DEFINE b == [row[k] EXCEPT !.state = "address_created"]
      <4>1. row' = [row EXCEPT ![k] = [b EXCEPT !.linked = TRUE]] BY <3>2
      <4>2. b \in [state : States \cup {"none", "address_created"}, linked : BOOLEAN, tx : BOOLEAN]
        BY <1>4 DEF Row
      <4> HIDE DEF b
      <4>3. [b EXCEPT !.linked = TRUE].linked = TRUE BY <4>2
      <4> QED BY <1>4, <4>1, <4>3
    <3> QED BY <3>2, <3>4, <3>5
  <2>4. CASE \E k \in Keys : Send(r, k)
    <3>1. PICK k \in Keys : Send(r, k) BY <2>4
    <3>2. k \in request[r].keys /\ request[r].pc = "send" /\ leg[k] = "none" /\ UNCHANGED row
      BY <3>1, <1>1 DEF Send, At, Handled
    <3>3. row[k].linked BY <3>2 DEF Traced
    <3>4. PICK pc \in {"sent", "unsent"} : Go(r, pc) BY <3>1 DEF Send
    <3>5. request'[r].keys = request[r].keys BY <3>4, <1>1, Goes DEF Steps
    <3>6. \A j \in request'[r].keys : j = k BY <3>2, <3>5, <1>1 DEF Handled
    <3>7. leg' = leg \/ leg' = [leg EXCEPT ![k] = "sent"] BY <3>1 DEF Send
    <3> QED BY <3>2, <3>3, <3>6, <3>7, <1>4
  <2> QED BY <2>1, <2>2, <2>3, <2>4 DEF ByRequest, Handle, NoAddress, RecordSent, RecordUnsent, RequestDies, chain
<1>8. ASSUME NEW s \in Requests, NEW k \in request'[s].keys, request'[s].pc \in {"send", "sent", "unsent"}
      PROVE  row'[k].linked
  BY <1>2, <1>5, <1>6, <1>7, <1>8 DEF Traced
<1>9. ASSUME NEW k \in Keys
      PROVE  (leg'[k] # "none" => row'[k].linked) /\ (hop'[k] # "none" => leg'[k] = "mined")
  BY <1>2, <1>3, <1>7 DEF Traced
<1> QED BY <1>3, <1>8, <1>9 DEF Traced

LEMMA NextTraced == ASSUME Books, Traced, [Next]_vars PROVE Traced'
<1>1. Types BY DEF Books
<1>2. \A k \in Keys : row[k].linked => row'[k].linked BY LinksStay
<1>3. \A s \in Requests : request[s].keys \subseteq Keys BY <1>1 DEF Types
<1>4. CASE UNCHANGED vars BY <1>4 DEF vars, Traced
<1>5. CASE \E r \in Requests : ByRequest(r)
  BY <1>5, RequestTraced
<1>6. CASE \E k \in Keys : PolygonLeg(k) \/ BridgeLeg(k)
  <2>1. UNCHANGED <<row, request, poll>> BY <1>6 DEF PolygonLeg, BridgeLeg
  <2>2. ASSUME NEW j \in Keys
        PROVE  (leg'[j] # "none" => leg[j] # "none") /\ (hop'[j] # "none" => leg'[j] = "mined")
    <3>1. /\ leg \in [Keys -> {"none", "sent", "mined", "reverted"}]
          /\ hop \in [Keys -> {"none", "SEEN", "COMPLETED", "FAILED"}]
      BY <1>1 DEF Types, Chains
    <3>2. PICK k \in Keys : PolygonLeg(k) \/ BridgeLeg(k) BY <1>6
    <3>3. hop[k] # "none" => leg[k] = "mined" BY DEF Traced
    <3>4. hop[j] # "none" => leg[j] = "mined" BY DEF Traced
    <3>5. CASE PolygonLeg(k) BY <3>1, <3>3, <3>4, <3>5 DEF PolygonLeg
    <3>6. CASE BridgeLeg(k) BY <3>1, <3>3, <3>4, <3>6 DEF BridgeLeg
    <3> QED BY <3>2, <3>5, <3>6
  <2> QED BY <2>1, <2>2 DEF Traced
<1>7. CASE \E p \in Pollers : ByPoller(p)
  <2>1. PICK p \in Pollers : ByPoller(p)
    BY <1>7
  <2>2. UNCHANGED <<request, leg, hop>>
    BY <2>1 DEF ByPoller, GoOn, ReadRows, WriteRow, Tell, ReadRow, SetRow, PollerDies, AskBridge, AskRelayer, chain
  <2>3. \A q \in Pollers : q # p => poll'[q] = poll[q]
    BY <2>1, <1>1 DEF ByPoller, GoOn, ReadRows, WriteRow, Tell, ReadRow, SetRow, PollerDies, AskBridge, AskRelayer,
                      Becomes, Types
  <2>4. poll'[p].pc = "set" => poll'[p].seen \notin Terminal
    <3>1. poll[p] \in Asking /\ poll \in [Pollers -> Asking] BY <1>1 DEF Types
    <3>2. CASE \E k \in Keys : ReadRow(p, k)
      <4>1. PICK k \in Keys : ReadRow(p, k) BY <3>2
      <4>2. CASE Advances(row[k].state, poll[p].next[k])
        <5>1. poll'[p] = [poll[p] EXCEPT !.pc = "set", !.seen = row[k].state]
          BY <3>1, <4>1, <4>2 DEF ReadRow, Becomes
        <5>2. poll'[p].seen = row[k].state BY <3>1, <5>1 DEF Asking
        <5> QED BY <4>2, <5>2 DEF Advances
      <4>3. CASE ~Advances(row[k].state, poll[p].next[k])
        <5>1. poll'[p] = Idle BY <3>1, <4>1, <4>3 DEF ReadRow, Becomes
        <5> QED BY <5>1 DEF Idle
      <4> QED BY <4>2, <4>3
    <3>3. CASE ~\E k \in Keys : ReadRow(p, k)
      <4>1. poll'[p].pc # "set"
        <5>1. CASE \E k \in Keys : WriteRow(p, k)
          <6>1. PICK k \in Keys : WriteRow(p, k) BY <5>1
          <6>2. CASE poll[p].todo = {k}
            <7>1. poll'[p] = Announcing(p, poll[p]) BY <6>1, <6>2, <3>1 DEF WriteRow, Becomes
            <7> QED BY <7>1, <3>1 DEF Announcing, Idle, Asking
          <6>3. CASE poll[p].todo # {k}
            <7>1. poll'[p] = [poll[p] EXCEPT !.todo = @ \ {k}] BY <6>1, <6>3, <3>1 DEF WriteRow, Becomes
            <7> QED BY <7>1, <6>1, <3>1 DEF WriteRow, Asking
          <6> QED BY <6>2, <6>3
        <5>2. CASE \E k \in Keys : Tell(p, k)
          <6>1. PICK k \in Keys : Tell(p, k) BY <5>2
          <6>2. poll'[p] = Idle \/ poll'[p] = [poll[p] EXCEPT !.todo = @ \ {k}]
            BY <6>1, <3>1 DEF Tell, Becomes
          <6> QED BY <6>1, <6>2, <3>1 DEF Tell, Asking, Idle
        <5>3. CASE (\E k \in Keys : SetRow(p, k)) \/ PollerDies(p)
          BY <5>3, <3>1 DEF SetRow, PollerDies, Becomes, Idle
        <5>4. CASE ReadRows(p) BY <5>4, <3>1 DEF ReadRows, Becomes, Idle
        <5>5. CASE \E a \in Addresses : AskBridge(p, a) BY <5>5, <3>1 DEF AskBridge, Becomes, Idle
        <5>6. CASE \E k \in Keys : AskRelayer(p, k) BY <5>6, <3>1 DEF AskRelayer, Becomes, Idle
        <5> QED BY <2>1, <3>3, <5>1, <5>2, <5>3, <5>4, <5>5, <5>6 DEF ByPoller, GoOn
      <4> QED BY <4>1
    <3> QED BY <3>2, <3>3
  <2>5. \A q \in Pollers : poll'[q].pc = "set" => poll'[q].seen \notin Terminal
    BY <2>3, <2>4 DEF Traced
  <2> QED BY <1>2, <1>3, <2>2, <2>5 DEF Traced
<1>8. CASE Sweep BY <1>8 DEF Sweep, chain, Traced
<1> QED BY <1>4, <1>5, <1>6, <1>7, <1>8, WhoActs


-----------------------------------------------------------------------------
Final == {"COMPLETED", "FAILED"}
Decided(k) == hop[k] \in Final

\* A poller that asked before the decision, and whose write may still undo what it brings.
Stale(q, k) ==
  /\ k \in q.todo
  /\ \/ q.pc = "asked" /\ q.status \cap Final = {}
     \/ q.pc = "write" /\ q.next[k] = "bridging"
Stales(k) == {p \in Pollers : Stale(poll[p], k)}
Holders(k) == {r \in Requests : k \in request[r].keys}

\* A poller that knows the decision, and has the row of the key before it.
Sure(q, k) ==
  /\ k \in q.todo
  /\ \/ q.pc = "asked" /\ q.status \cap Final # {}
     \/ q.pc = "write" /\ q.next[k] \in Terminal

LEMMA OfTheDecided ==
  ASSUME Books, Traced, NEW k \in Keys, Decided(k)
  PROVE  /\ leg[k] = "mined" /\ row[k].state # "none" /\ row[k].linked
         /\ StatusOf(AddressOf[k]) \cap Final # {}
<1>1. hop[k] # "none" BY DEF Decided, Final
<1>2. leg[k] = "mined" /\ row[k].linked BY <1>1 DEF Traced
<1>3. row[k].state # "none" BY <1>2 DEF Books, Ledger, Entry
<1>4. hop[k] \in StatusOf(AddressOf[k]) BY <1>1 DEF StatusOf
<1> QED BY <1>2, <1>3, <1>4 DEF Decided

\* What a poller's step can be to one row: the sweep begins, has read the row, writes it,
\* writes another; or it is none of a sweep.
Begins(p, k) ==
  /\ UNCHANGED row /\ poll[p].pc = "idle" /\ poll'[p].pc = "asked"
  /\ k \in poll'[p].todo => poll'[p].status = StatusOf(AddressOf[k])
Judged(p, k) ==
  /\ UNCHANGED row /\ poll[p].pc = "asked"
  /\ LET next == IF k \in poll[p].todo /\ row[k].linked
                 THEN Verdict(poll[p].status, row[k].state) ELSE "none"
     IN  IF next = "none" THEN poll'[p].pc = "idle" \/ (poll'[p].pc = "write" /\ k \notin poll'[p].todo)
         ELSE poll'[p].pc = "write" /\ k \in poll'[p].todo /\ poll'[p].next[k] = next
Written(p, k) ==
  /\ poll[p].pc = "write" /\ k \in poll[p].todo /\ row'[k].state = poll[p].next[k]
  /\ poll'[p].pc \in {"idle", "tell"} \/ (poll'[p].pc = "write" /\ k \notin poll'[p].todo)
Waits(p, k) ==
  /\ poll[p].pc = "write" /\ row'[k] = row[k]
  /\ IF k \in poll[p].todo THEN poll'[p].pc = "write" /\ k \in poll'[p].todo /\ poll'[p].next = poll[p].next
     ELSE poll'[p].pc \in {"idle", "tell"} \/ (poll'[p].pc = "write" /\ k \notin poll'[p].todo)
Elsewhere(p, k) ==
  /\ row'[k] = row[k] \/ row[k].state \notin Terminal
  /\ poll[p].pc \notin {"asked", "write"} \/ (UNCHANGED row /\ PollerDies(p))
  /\ poll'[p].pc \notin {"asked", "write"}

LEMMA ReadRowsJudges ==
  ASSUME Types, NEW p \in Pollers, NEW k \in Keys, ReadRows(p)
  PROVE  Judged(p, k)
<1> DEFINE next == [j \in Keys |-> IF j \in poll[p].todo /\ row[j].linked
                              THEN Verdict(poll[p].status, row[j].state) ELSE "none"]
           moving == {j \in Keys : next[j] # "none"}
           q == [Idle EXCEPT !.pc = "write", !.next = next, !.todo = moving]
<1>1. poll[p].pc = "asked" /\ UNCHANGED row /\ poll' = [poll EXCEPT ![p] = IF moving = {} THEN Idle ELSE q]
  BY DEF ReadRows, Becomes
<1>2. poll \in [Pollers -> Asking] BY DEF Types
<1>3. poll'[p] = IF moving = {} THEN Idle ELSE q BY <1>1, <1>2
<1>4. next[k] = IF k \in poll[p].todo /\ row[k].linked
                THEN Verdict(poll[p].status, row[k].state) ELSE "none"
  OBVIOUS
<1>5. k \in moving <=> next[k] # "none" OBVIOUS
<1>6. q.pc = "write" /\ q.next = next /\ q.todo = moving BY DEF Idle
<1>7. Idle.pc = "idle" BY DEF Idle
<1> HIDE DEF next, moving, q
<1> QED BY <1>1, <1>3, <1>4, <1>5, <1>6, <1>7 DEF Judged

LEMMA WriteRowWrites ==
  ASSUME Books, NEW p \in Pollers, NEW k \in Keys, NEW j \in Keys, WriteRow(p, j)
  PROVE  Written(p, k) \/ Waits(p, k)
<1>1. /\ poll[p].pc = "write" /\ j \in poll[p].todo /\ Write(j, poll[p].next[j])
      /\ poll' = [poll EXCEPT ![p] = IF poll[p].todo = {j} THEN Announcing(p, poll[p])
                                     ELSE [poll[p] EXCEPT !.todo = @ \ {j}]]
  BY DEF WriteRow, Becomes
<1>2. Types /\ poll \in [Pollers -> Asking] /\ poll[p] \in Asking BY DEF Books, Types
<1>3. poll[p].next[j] \in {"bridging", "completed", "failed_bridge"}
  BY <1>1 DEF Books, Carried, Known
<1>4. poll[p].next[j] \in States BY <1>3, TheStates
<1>5. row'[j].state = poll[p].next[j] /\ \A i \in Keys : i # j => row'[i] = row[i]
  BY <1>1, <1>2, <1>4, Writes
<1>6. CASE poll[p].todo = {j}
  <2>1. poll'[p] = Announcing(p, poll[p]) BY <1>1, <1>2, <1>6
  <2>2. poll'[p].pc \in {"idle", "tell"} BY <2>1, <1>2 DEF Announcing, Idle, Asking
  <2> QED BY <1>1, <1>5, <1>6, <2>2 DEF Written, Waits
<1>7. CASE poll[p].todo # {j}
  <2>1. poll'[p] = [poll[p] EXCEPT !.todo = @ \ {j}] BY <1>1, <1>2, <1>7
  <2>2. poll'[p].pc = "write" /\ poll'[p].todo = poll[p].todo \ {j} /\ poll'[p].next = poll[p].next
    BY <2>1, <1>1, <1>2 DEF Asking
  <2> QED BY <1>1, <1>5, <2>2 DEF Written, Waits
<1> QED BY <1>6, <1>7

LEMMA PollerSteps ==
  ASSUME Books, Traced, NEW p \in Pollers, NEW k \in Keys, ByPoller(p)
  PROVE  /\ UNCHANGED <<request, hop>> /\ \A q \in Pollers : q # p => poll'[q] = poll[q]
         /\ Begins(p, k) \/ Judged(p, k) \/ Written(p, k) \/ Waits(p, k) \/ Elsewhere(p, k)
<1>1. Types /\ poll \in [Pollers -> Asking] /\ poll[p] \in Asking BY DEF Books, Types
<1>2. UNCHANGED <<request, hop>>
  BY DEF ByPoller, GoOn, ReadRows, WriteRow, Tell, ReadRow, SetRow, PollerDies, AskBridge, AskRelayer, chain
<1>3. \A q \in Pollers : q # p => poll'[q] = poll[q]
  BY <1>1 DEF ByPoller, GoOn, ReadRows, WriteRow, Tell, ReadRow, SetRow, PollerDies, AskBridge, AskRelayer,
              Becomes
<1>4. CASE \E a \in Addresses : AskBridge(p, a)
  <2>1. PICK a \in Addresses : AskBridge(p, a) BY <1>4
  <2> DEFINE asked == [Idle EXCEPT !.pc = "asked", !.status = StatusOf(a),
                                   !.todo = {j \in Keys : AddressOf[j] = a}]
  <2>2. /\ poll[p].pc = "idle" /\ UNCHANGED row
        /\ poll'[p] = Idle \/ poll'[p] = asked
    BY <2>1, <1>1 DEF AskBridge, Becomes
  <2>3. /\ asked.pc = "asked" /\ asked.status = StatusOf(a)
        /\ asked.todo = {j \in Keys : AddressOf[j] = a}
    BY DEF Idle
  <2> HIDE DEF asked
  <2>4. CASE poll'[p] = asked BY <2>2, <2>3, <2>4, <1>2, <1>3 DEF Begins
  <2>5. CASE poll'[p] = Idle
    <3>1. poll'[p].pc = "idle" BY <2>5 DEF Idle
    <3> QED BY <2>2, <3>1, <1>2, <1>3 DEF Elsewhere
  <2> QED BY <2>2, <2>4, <2>5
<1>5. CASE ReadRows(p) BY <1>1, <1>2, <1>3, <1>5, ReadRowsJudges
<1>6. CASE \E j \in Keys : WriteRow(p, j) BY <1>2, <1>3, <1>6, WriteRowWrites
<1>7. CASE \E j \in Keys : Tell(p, j)
  <2>1. PICK j \in Keys : Tell(p, j) BY <1>7
  <2>2. poll[p].pc = "tell" /\ (poll'[p] = Idle \/ poll'[p] = [poll[p] EXCEPT !.todo = @ \ {j}])
    BY <2>1, <1>1 DEF Tell, Becomes
  <2>3. poll'[p].pc \in {"idle", "tell"} /\ UNCHANGED row BY <2>1, <2>2, <1>1 DEF Tell, Idle, Asking
  <2> QED BY <1>2, <1>3, <2>2, <2>3 DEF Elsewhere
<1>8. CASE \E j \in Keys : ReadRow(p, j)
  <2>1. PICK j \in Keys : ReadRow(p, j) BY <1>8
  <2>2. /\ poll[p].pc = "answered" /\ UNCHANGED row
        /\ poll'[p] = Idle \/ poll'[p] = [poll[p] EXCEPT !.pc = "set", !.seen = row[j].state]
    BY <2>1, <1>1 DEF ReadRow, Becomes
  <2>3. poll'[p].pc \in {"idle", "set"}
    <3> DEFINE a == [poll[p] EXCEPT !.pc = "set"]
    <3>1. a.pc = "set" /\ a \in Asking BY <1>1 DEF Asking, Phases
    <3>2. [poll[p] EXCEPT !.pc = "set", !.seen = row[j].state] = [a EXCEPT !.seen = row[j].state] OBVIOUS
    <3> HIDE DEF a
    <3>3. [a EXCEPT !.seen = row[j].state].pc = "set" BY <3>1 DEF Asking
    <3>4. poll'[p] = Idle \/ poll'[p] = [a EXCEPT !.seen = row[j].state] BY <2>2, <3>2
    <3>5. Idle.pc = "idle" BY DEF Idle
    <3> QED BY <3>3, <3>4, <3>5
  <2> QED BY <1>2, <1>3, <2>2, <2>3 DEF Elsewhere
<1>9. CASE \E j \in Keys : SetRow(p, j)
  <2>1. PICK j \in Keys : SetRow(p, j) BY <1>9
  <2>2. poll[p].pc = "set" /\ poll'[p] = Idle BY <2>1, <1>1 DEF SetRow, Becomes
  <2>3. poll'[p].pc = "idle" BY <2>2 DEF Idle
  <2>4. row'[k] = row[k] \/ row[k].state \notin Terminal
    <3>1. row \in [Keys -> Row] BY <1>1 DEF Types
    <3>2. poll[p].seen \notin Terminal BY <2>2 DEF Traced
    <3>3. CASE row[j].state = poll[p].seen /\ j = k BY <3>2, <3>3
    <3>4. CASE row[j].state = poll[p].seen /\ j # k
      BY <2>1, <3>1, <3>4 DEF SetRow, Write
    <3>5. CASE row[j].state # poll[p].seen BY <2>1, <3>5 DEF SetRow
    <3> QED BY <3>3, <3>4, <3>5
  <2> QED BY <1>2, <1>3, <2>2, <2>3, <2>4 DEF Elsewhere
<1>10. CASE PollerDies(p)
  <2>1. poll'[p] = Idle /\ UNCHANGED row BY <1>1, <1>10 DEF PollerDies, Becomes
  <2>2. poll'[p].pc = "idle" BY <2>1 DEF Idle
  <2> QED BY <1>2, <1>3, <1>10, <2>1, <2>2 DEF Elsewhere
<1>11. CASE \E j \in Keys : AskRelayer(p, j)
  <2>1. PICK j \in Keys : AskRelayer(p, j) BY <1>11
  <2>2. /\ poll[p].pc = "idle" /\ UNCHANGED row
        /\ poll'[p] = [Idle EXCEPT !.pc = "answered", !.todo = {j}, !.next[j] = Answer(leg[j])]
    BY <2>1, <1>1 DEF AskRelayer, Becomes
  <2>3. poll'[p].pc = "answered" BY <2>2 DEF Idle
  <2> QED BY <1>2, <1>3, <2>2, <2>3 DEF Elsewhere
<1> QED BY <1>4, <1>5, <1>6, <1>7, <1>8, <1>9, <1>10, <1>11 DEF ByPoller, GoOn

LEMMA VerdictOf ==
  ASSUME NEW status \in SUBSET {"SEEN", "COMPLETED", "FAILED"}, NEW state
  PROVE  /\ Verdict(status, state) = "bridging" => status \cap Final = {}
         /\ status \cap Final # {} /\ state \notin Terminal => Verdict(status, state) \in Terminal
<1>1. CASE state \in Terminal BY <1>1 DEF Verdict
<1>2. CASE state \notin Terminal /\ "COMPLETED" \in status BY <1>2 DEF Verdict, Terminal
<1>3. CASE state \notin Terminal /\ "COMPLETED" \notin status /\ "FAILED" \in status
  BY <1>3 DEF Verdict, Terminal, Failures
<1>4. CASE state \notin Terminal /\ "COMPLETED" \notin status /\ "FAILED" \notin status
  BY <1>4 DEF Final
<1> QED BY <1>1, <1>2, <1>3, <1>4

\* A row loses its final state, and no late writer has ended with that.
LostFreely(k) ==
  /\ row[k].state \in Terminal /\ row'[k].state \notin Terminal
  /\ Stales(k)' = Stales(k) /\ Holders(k)' = Holders(k)
Shrinks(k) == Decided(k)' /\ Stales(k)' \subseteq Stales(k) /\ Holders(k)' \subseteq Holders(k)

LEMMA PollerShrinks ==
  ASSUME Books, Traced, NEW p \in Pollers, NEW k \in Keys, ByPoller(p), Decided(k)
  PROVE  Shrinks(k) /\ ~LostFreely(k)
<1>1. poll[p] \in Asking BY DEF Books, Types
<1>2. /\ UNCHANGED <<request, hop>> /\ \A q \in Pollers : q # p => poll'[q] = poll[q]
      /\ Begins(p, k) \/ Judged(p, k) \/ Written(p, k) \/ Waits(p, k) \/ Elsewhere(p, k)
  BY PollerSteps
<1>3. poll[p].status \in SUBSET {"SEEN", "COMPLETED", "FAILED"} BY <1>1 DEF Asking
<1>4. /\ Stale(poll'[p], k) => Stale(poll[p], k)
      /\ row[k].state \in Terminal /\ row'[k].state \notin Terminal
           => Stale(poll[p], k) /\ ~Stale(poll'[p], k)
  <2>1. CASE Begins(p, k) BY <2>1, OfTheDecided DEF Begins, Stale
  <2>2. CASE Judged(p, k)
    <3>1. CASE k \in poll[p].todo /\ row[k].linked
      BY <2>2, <3>1, <1>3, VerdictOf DEF Judged, Stale
    <3>2. CASE ~(k \in poll[p].todo /\ row[k].linked) BY <2>2, <3>2 DEF Judged, Stale
    <3> QED BY <3>1, <3>2
  <2>3. CASE Written(p, k)
    <3>1. poll[p].next[k] \in {"bridging", "completed", "failed_bridge"}
      BY <2>3 DEF Written, Books, Carried, Known
    <3> QED BY <2>3, <3>1 DEF Written, Stale, Terminal, Failures
  <2>4. CASE Waits(p, k) BY <2>4 DEF Waits, Stale
  <2>5. CASE Elsewhere(p, k) BY <2>5 DEF Elsewhere, Stale
  <2> QED BY <1>2, <2>1, <2>2, <2>3, <2>4, <2>5
<1>5. \A q \in Pollers : Stale(poll'[q], k) => Stale(poll[q], k) BY <1>2, <1>4
<1> QED BY <1>2, <1>4, <1>5 DEF Shrinks, LostFreely, Stales, Holders, Decided

LEMMA RequestShrinks ==
  ASSUME Books, Traced, NEW r \in Requests, NEW k \in Keys, ByRequest(r), Decided(k)
  PROVE  Shrinks(k) /\ ~LostFreely(k)
<1>1. Types /\ Handled /\ row \in [Keys -> Row] BY DEF Books, Types
<1>2. UNCHANGED <<poll, hop>>
  BY DEF ByRequest, Submit, Handle, NoAddress, Linked, Send, RecordSent, RecordUnsent, RequestDies, chain
<1>3. leg[k] = "mined" /\ row[k].state # "none" BY OfTheDecided
<1>4. /\ \A s \in Requests : k \in request'[s].keys => k \in request[s].keys
      /\ row[k].state \in Terminal /\ row'[k].state \notin Terminal
           => k \in request[r].keys /\ k \notin request'[r].keys
  <2>1. CASE \E j \in Keys : Submit(r, j)
    <3>1. PICK j \in Keys : Submit(r, j) BY <2>1
    <3>2. CASE Taken(j) BY <3>1, <3>2, <1>1, IsDone DEF Submit
    <3>3. CASE ~Taken(j)
      <4>1. j # k BY <3>3, <1>3 DEF Taken
      <4>2. request' = [request EXCEPT ![r] = [pc |-> "quote", keys |-> {j}]] /\ row'[k] = row[k]
        BY <3>1, <3>3, <4>1, <1>1 DEF Submit, Write
      <4> QED BY <4>1, <4>2, <1>1 DEF Types
    <3> QED BY <3>2, <3>3
  <2>2. CASE RequestDies(r) BY <2>2, <1>1, IsDone DEF RequestDies
  <2>3. CASE \E j \in Keys, x \in Terminal : Done(r) /\ Write(j, x)
    <3>1. PICK j \in Keys, x \in Terminal : Done(r) /\ Write(j, x) BY <2>3
    <3>2. x \in States BY <3>1, TheStates DEF Terminal, Failures
    <3>3. row'[j].state = x /\ \A i \in Keys : i # j => row'[i] = row[i] BY <1>1, <3>1, <3>2, Writes
    <3> QED BY <3>1, <3>3, <1>1, IsDone
  <2>4. CASE \E j \in Keys : Linked(r, j)
    <3>1. PICK j \in Keys : Linked(r, j) BY <2>4
    <3>2. At(r, "quote", j) /\ Go(r, "send") BY <3>1 DEF Linked
    <3>3. j # k BY <3>2, <1>1, <1>3 DEF At, Handled
    <3>4. row'[k] = row[k] BY <3>1, <3>3, <1>1, LinkedWrites
    <3> QED BY <3>2, <3>4, <1>1, Goes DEF Steps
  <2>5. CASE \E j \in Keys : RecordSent(r, j)
    <3>1. PICK j \in Keys : RecordSent(r, j) BY <2>5
    <3>2. Done(r) /\ j \in request[r].keys BY <3>1 DEF RecordSent, At
    <3>3. \A i \in Keys : i # j => row'[i] = row[i] BY <3>1, <1>1, LinkedWrites
    <3> QED BY <3>2, <3>3, <1>1, IsDone
  <2>6. CASE \E j \in Keys : Send(r, j)
    <3>1. PICK pc \in {"sent", "unsent"} : Go(r, pc) BY <2>6 DEF Send
    <3> QED BY <2>6, <3>1, <1>1, Goes DEF Send, Steps
  <2> QED BY <2>1, <2>2, <2>3, <2>4, <2>5, <2>6
          DEF ByRequest, Handle, NoAddress, RecordUnsent, Terminal, Failures
<1> QED BY <1>2, <1>4 DEF Shrinks, LostFreely, Stales, Holders, Decided

LEMMA ChainShrinks ==
  ASSUME Books, NEW k \in Keys, NEW j \in Keys, PolygonLeg(j) \/ BridgeLeg(j), Decided(k)
  PROVE  Shrinks(k) /\ ~LostFreely(k)
<1>1. UNCHANGED <<row, request, poll>> BY DEF PolygonLeg, BridgeLeg
<1>2. hop \in [Keys -> {"none", "SEEN", "COMPLETED", "FAILED"}] BY DEF Books, Types, Chains
<1>3. hop'[k] = hop[k] BY <1>2 DEF PolygonLeg, BridgeLeg, Decided, Final
<1> QED BY <1>1, <1>3 DEF Shrinks, LostFreely, Stales, Holders, Decided

Late == \A k \in Keys : Decided(k) => Shrinks(k) /\ ~LostFreely(k)

LEMMA NextLate == ASSUME Books, Traced, [Next]_vars PROVE Late
<1> SUFFICES ASSUME NEW k \in Keys, Decided(k) PROVE Shrinks(k) /\ ~LostFreely(k) BY DEF Late
<1>1. CASE UNCHANGED vars BY <1>1 DEF vars, Shrinks, LostFreely, Stales, Holders, Decided
<1>2. CASE Sweep BY <1>2 DEF Sweep, chain, Shrinks, LostFreely, Stales, Holders, Decided
<1> QED BY <1>1, <1>2, WhoActs, PollerShrinks, RequestShrinks, ChainShrinks

\* The worker's sweep of an address, begun after the decision, brings it to the row.
Sweeps ==
  \A k \in Keys : Decided(k) =>
    /\ AskBridge(Worker, AddressOf[k]) => Sure(poll'[Worker], k)
    /\ Sure(poll[Worker], k) =>
         Sure(poll'[Worker], k) \/ row'[k].state \in Terminal \/ PollerDies(Worker)

LEMMA NextSweeps == ASSUME Books, Traced, [Next]_vars PROVE Sweeps
<1> SUFFICES ASSUME NEW k \in Keys, Decided(k)
             PROVE  /\ AskBridge(Worker, AddressOf[k]) => Sure(poll'[Worker], k)
                    /\ Sure(poll[Worker], k) =>
                         Sure(poll'[Worker], k) \/ row'[k].state \in Terminal \/ PollerDies(Worker)
  BY DEF Sweeps
<1>1. /\ poll \in [Pollers -> Asking] /\ Worker \in Pollers /\ poll[Worker] \in Asking
      /\ poll[Worker].status \in SUBSET {"SEEN", "COMPLETED", "FAILED"}
  BY WithdrawalsAssumption DEF Books, Types, Asking
<1>2. ASSUME AskBridge(Worker, AddressOf[k]) PROVE Sure(poll'[Worker], k)
  <2>1. poll'[Worker] = [Idle EXCEPT !.pc = "asked", !.status = StatusOf(AddressOf[k]),
                                     !.todo = {j \in Keys : AddressOf[j] = AddressOf[k]}]
    BY <1>1, <1>2, OfTheDecided DEF AskBridge, Becomes, Linkeds
  <2>2. /\ poll'[Worker].pc = "asked" /\ poll'[Worker].status = StatusOf(AddressOf[k])
        /\ poll'[Worker].todo = {j \in Keys : AddressOf[j] = AddressOf[k]}
    BY <2>1 DEF Idle
  <2> QED BY <2>2, OfTheDecided DEF Sure
<1>3. ASSUME Sure(poll[Worker], k)
      PROVE  Sure(poll'[Worker], k) \/ row'[k].state \in Terminal \/ PollerDies(Worker)
  <2>1. CASE poll'[Worker] = poll[Worker] BY <1>3, <2>1
  <2>2. CASE ByPoller(Worker)
    <3>1. \/ Begins(Worker, k) \/ Judged(Worker, k) \/ Written(Worker, k) \/ Waits(Worker, k)
          \/ Elsewhere(Worker, k)
      BY <1>1, <2>2, PollerSteps
    <3>2. CASE Judged(Worker, k)
      <4>1. row[k].linked BY OfTheDecided
      <4>2. poll[Worker].status \cap Final # {} /\ k \in poll[Worker].todo BY <1>3, <3>2 DEF Sure, Judged
      <4>3. CASE row[k].state \in Terminal BY <3>2, <4>3 DEF Judged
      <4>4. CASE row[k].state \notin Terminal
        <5>1. Verdict(poll[Worker].status, row[k].state) \in Terminal BY <1>1, <4>2, <4>4, VerdictOf
        <5>2. Verdict(poll[Worker].status, row[k].state) # "none" BY <5>1 DEF Terminal, Failures
        <5> QED BY <3>2, <4>1, <4>2, <5>1, <5>2 DEF Judged, Sure
      <4> QED BY <4>3, <4>4
    <3>3. CASE Begins(Worker, k) \/ Written(Worker, k) \/ Waits(Worker, k) \/ Elsewhere(Worker, k)
      BY <1>3, <3>3 DEF Sure, Begins, Written, Waits, Elsewhere
    <3> QED BY <3>1, <3>2, <3>3
  <2>3. CASE \E p \in Pollers : p # Worker /\ ByPoller(p)
    BY <2>1, <2>3, <1>1, PollerSteps
  <2>4. CASE \E r \in Requests : ByRequest(r)
    <3>1. UNCHANGED poll
      BY <2>4 DEF ByRequest, Submit, Handle, NoAddress, Linked, Send, RecordSent, RecordUnsent, RequestDies
    <3> QED BY <2>1, <3>1
  <2>5. CASE UNCHANGED vars \/ Sweep \/ \E j \in Keys : PolygonLeg(j) \/ BridgeLeg(j)
    BY <2>1, <2>5 DEF vars, Sweep, PolygonLeg, BridgeLeg
  <2> QED BY <2>2, <2>3, <2>4, <2>5, WhoActs
<1> QED BY <1>2, <1>3

-----------------------------------------------------------------------------
\* TransfersSettle, but for the fairness.  What the bridge has decided, the worker can
\* learn: the row has its address, so the sweep comes to it and is told a final status.
THEOREM DecisionsAreInReach ==
  Spec => [](\A k \in Keys : Decided(k) =>
               k \in Linkeds(AddressOf[k]) /\ StatusOf(AddressOf[k]) \cap Final # {})
<1>1. Books /\ Traced =>
        \A k \in Keys : Decided(k) => k \in Linkeds(AddressOf[k]) /\ StatusOf(AddressOf[k]) \cap Final # {}
  BY OfTheDecided DEF Linkeds
<1> QED BY <1>1, InitBooks, NextBooks, InitTraced, NextTraced, PTL DEF Spec

\* A sweep of the worker's that begins after the decision knows it, goes on knowing it, and
\* leaves the row in a final state unless the worker dies: no step of another stops it.
THEOREM SweepsSettle == Spec => [][Sweeps]_vars
<1>1. Books /\ Traced /\ [Next]_vars => [Sweeps]_vars BY NextSweeps
<1> QED BY <1>1, InitBooks, NextBooks, InitTraced, NextTraced, PTL DEF Spec

\* A final state is lost only to a writer that asks for no previous state: a poller that
\* asked before the decision, or the request itself.  Once the bridge has decided there are
\* no new ones, and with the write that undoes it the writer is one no more: so each undoes
\* it once at most, and the ledger settles with the first sweep after the last of them.
THEOREM OnlyLateWritersUndo == Spec => [][Late]_vars
<1>1. Books /\ Traced /\ [Next]_vars => [Late]_vars BY NextLate
<1> QED BY <1>1, InitBooks, NextBooks, InitTraced, NextTraced, PTL DEF Spec

-----------------------------------------------------------------------------
(* The order of the sweeps, that the fairness of TransfersSettle rests on:  *)
(* the oldest check first, and no check at all last.                        *)

Queue ==
  /\ Listing
  /\ \A a \in Addresses \ checked : checked \subseteq ahead[a]
  /\ \A a, b \in checked : a # b => a \in ahead[b] \/ b \in ahead[a]

\* Who can still be visited before an address.
Before(a) == ahead[a] \cup (Addresses \ checked)

Turns ==
  \A a \in checked :
    /\ a \in checked' /\ (Before(a)' \subseteq Before(a) \/ \E p \in Pollers : AskBridge(p, a))
    /\ \A p \in Pollers, b \in Addresses \ {a} : AskBridge(p, b) => b \notin Before(a)'
    /\ Sweep /\ a \in InMotion => a \in batch' \/ batch' \subseteq Before(a)

LEMMA Checks ==
  ASSUME Queue, NEW b \in Addresses, Check(b)
  PROVE  /\ checked' = checked \cup {b} /\ ahead'[b] = checked \ {b}
         /\ \A a \in checked \ {b} : ahead'[a] = ahead[a] \ {b}
         /\ \A a \in Addresses \ (checked \cup {b}) : ahead'[a] = ahead[a] \cup {b}
BY DEF Check, Queue, Listing

LEMMA NextQueue == ASSUME Queue, [Next]_vars PROVE Queue'
<1>1. Listing' BY NextListing DEF Queue
<1>2. CASE UNCHANGED <<checked, ahead>> BY <1>1, <1>2 DEF Queue
<1>3. CASE \E b \in Addresses : Check(b)
  <2>1. PICK b \in Addresses : Check(b) BY <1>3
  <2>2. checked \subseteq Addresses BY DEF Queue, Listing
  <2>3. \A a \in Addresses \ checked' : checked' \subseteq ahead'[a] BY <2>1, Checks DEF Queue
  <2>4. ASSUME NEW a \in checked', NEW c \in checked', a # c PROVE a \in ahead'[c] \/ c \in ahead'[a]
    <3>1. a \in checked \cup {b} /\ c \in checked \cup {b} BY <2>1, Checks
    <3>2. CASE a = b BY <3>1, <3>2, <2>1, <2>4, Checks
    <3>3. CASE c = b BY <3>1, <3>3, <2>1, <2>4, Checks
    <3>4. CASE a # b /\ c # b
      <4>1. a \in ahead[c] \/ c \in ahead[a] BY <3>1, <3>4, <2>4 DEF Queue
      <4> QED BY <3>1, <3>4, <4>1, <2>1, Checks
    <3> QED BY <3>2, <3>3, <3>4
  <2> QED BY <1>1, <2>3, <2>4 DEF Queue
<1> QED BY <1>2, <1>3, WhoLists

LEMMA NextTurns == ASSUME Queue, [Next]_vars PROVE Turns
<1> SUFFICES ASSUME NEW a \in checked
             PROVE  /\ a \in checked' /\ (Before(a)' \subseteq Before(a) \/ \E p \in Pollers : AskBridge(p, a))
                    /\ \A p \in Pollers, b \in Addresses \ {a} : AskBridge(p, b) => b \notin Before(a)'
                    /\ Sweep /\ a \in InMotion => a \in batch' \/ batch' \subseteq Before(a)
  BY DEF Turns
<1>1. a \in Addresses /\ checked \subseteq Addresses /\ a \notin Addresses \ checked BY DEF Queue, Listing
<1>2. ASSUME NEW b \in Addresses \ {a}, Check(b)
      PROVE  a \in checked' /\ Before(a)' \subseteq Before(a) /\ b \notin Before(a)'
  <2>1. checked' = checked \cup {b} /\ ahead'[a] = ahead[a] \ {b} BY <1>1, <1>2, Checks
  <2> QED BY <2>1 DEF Before
<1>3. a \in checked' /\ (Before(a)' \subseteq Before(a) \/ \E p \in Pollers : AskBridge(p, a))
  <2>1. CASE UNCHANGED <<checked, ahead>> BY <2>1 DEF Before
  <2>2. CASE \E p \in Pollers, b \in Addresses : AskBridge(p, b) /\ Check(b)
    <3>1. PICK p \in Pollers, b \in Addresses : AskBridge(p, b) /\ Check(b) BY <2>2
    <3>2. CASE b = a BY <3>1, <3>2, Checks
    <3>3. CASE b # a BY <3>1, <3>3, <1>2
    <3> QED BY <3>2, <3>3
  <2> QED BY <2>1, <2>2, WhoLists
<1>4. ASSUME NEW p \in Pollers, NEW b \in Addresses \ {a}, AskBridge(p, b) PROVE b \notin Before(a)'
  BY <1>2, <1>4 DEF AskBridge
<1>5. ASSUME Sweep, a \in InMotion PROVE a \in batch' \/ batch' \subseteq Before(a)
  <2>1. PICK due \in SUBSET Addresses :
          /\ \A c \in due \cap checked : InMotion \cap ahead[c] \subseteq due
          /\ batch' \subseteq due
          /\ \A c \in batch' : due \cap ahead[c] \subseteq batch'
    BY <1>5 DEF Sweep
  <2>2. ASSUME a \notin batch', NEW b \in batch' PROVE b \in Before(a)
    <3>1. b \in due /\ b \in Addresses /\ b # a BY <2>1, <2>2
    <3>2. CASE b \notin checked BY <3>1, <3>2 DEF Before
    <3>3. CASE b \in checked
      <4>1. a \notin ahead[b]
        <5>1. a \in ahead[b] => a \in due BY <2>1, <3>1, <3>3, <1>5
        <5> QED BY <5>1, <2>1, <2>2
      <4>2. b \in ahead[a] BY <3>1, <3>3, <4>1 DEF Queue
      <4> QED BY <4>2 DEF Before
    <3> QED BY <3>2, <3>3
  <2> QED BY <2>2
<1> QED BY <1>3, <1>4, <1>5

\* An address that has been checked has its turn.  Each visit to another takes that out of
\* those that can come before it, nobody joins them until it is visited itself, and a sweep
\* while its withdrawals are in motion takes it or some of them.  (Nothing of the kind holds
\* of an address that never was: all that were checked since remain before it.)
THEOREM CheckedHaveTurns == Spec => [][Turns]_vars
<1>1. Init => Queue BY DEF Init, Queue, Listing
<1>2. Queue /\ [Next]_vars => [Turns]_vars BY NextTurns
<1> QED BY <1>1, <1>2, NextQueue, PTL DEF Spec
=============================================================================
