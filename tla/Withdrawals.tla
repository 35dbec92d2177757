----------------------------- MODULE Withdrawals -----------------------------
(****************************************************************************)
(* The two-leg ledger of cross-chain withdrawals: a request moves funds     *)
(* from the deposit wallet to an address of the bridge (the Polygon leg, by *)
(* the relayer), and the bridge delivers them on another chain.  Worker and *)
(* API both ask relayer and bridge, and write what they learn, beside the   *)
(* request that is still being handled.  Every await is a step.             *)
(*                                                                          *)
(* Amounts, quotes and audits are left out, and withdrawals on Polygon      *)
(* itself, which have one leg.                                              *)
(****************************************************************************)
EXTENDS Integers, FiniteSets

CONSTANTS
  Keys,        \* idempotency keys: one withdrawal each
  Requests,    \* POST requests, each for a key
  Addresses, AddressOf,  \* the address that the bridge gives for a withdrawal; two may
                         \* share one
  Pollers,     \* who asks relayer and bridge: the worker and requests for the history
  Worker,
  Batch,       \* addresses that the worker visits in one sweep
  MaxFaults    \* bound: crashes, requests that die, answers lost

ASSUME WithdrawalsAssumption ==
  /\ AddressOf \in [Keys -> Addresses] /\ Worker \in Pollers
  /\ Batch \in Nat \ {0} /\ MaxFaults \in Nat

VARIABLES
  row,       \* bridge_withdrawals
  request,   \* what a POST does next, and for which withdrawal
  leg, hop,  \* the two legs: at the relayer, and as the bridge reports it
  poll,      \* what a poller is doing
  checked, ahead,  \* lastCheckedAt: the addresses that have one, and those before each in
                   \* the order of the sweeps
  batch,     \* addresses that the worker's sweep has still to visit
  sends, lost, told,  \* history: batches executed; whose answer was lost; announced
  faults

vars == <<row, request, leg, hop, poll, checked, ahead, batch, sends, lost, told, faults>>
chain == <<leg, hop, sends, lost>>
sweep == <<checked, ahead, batch>>

Ranked == <<"requested", "address_created", "polygon_submitted", "polygon_confirmed",
            "bridging", "completed">>
Rank(state) == CHOOSE n \in DOMAIN Ranked : Ranked[n] = state
Failures == {"failed_address", "failed_polygon", "failed_bridge"}
Terminal == {"completed"} \cup Failures
States == {Ranked[n] : n \in DOMAIN Ranked} \cup Failures

Nothing == [k \in Keys |-> "none"]
Idle == [pc |-> "idle", status |-> {}, todo |-> {}, next |-> Nothing, seen |-> "none"]

Init ==
  /\ row = [k \in Keys |-> [state |-> "none", linked |-> FALSE, tx |-> FALSE]]
  /\ request = [r \in Requests |-> [pc |-> "new", keys |-> {}]]
  /\ leg = Nothing /\ hop = Nothing
  /\ poll = [p \in Pollers |-> Idle]
  /\ checked = {} /\ ahead = [a \in Addresses |-> {}] /\ batch = {}
  /\ sends = [k \in Keys |-> 0] /\ lost = {} /\ told = {} /\ faults = 0

Fault == faults < MaxFaults /\ faults' = faults + 1
Write(k, state) == row' = [row EXCEPT ![k].state = state]
At(r, pc, k) == request[r].pc = pc /\ k \in request[r].keys
Go(r, pc) == request' = [request EXCEPT ![r].pc = pc]
Done(r) == request' = [request EXCEPT ![r] = [pc |-> "done", keys |-> {}]]

-----------------------------------------------------------------------------
(* POST /api/trading-wallet/withdraw.  Its writes ask for no previous state. *)

TakenNever(k) == FALSE
\* The unique index on the key.
Taken(k) == row[k].state # "none"

Submit(r, k) ==
  /\ request[r].pc = "new"
  /\ IF Taken(k) THEN Done(r) /\ UNCHANGED row
     ELSE /\ request' = [request EXCEPT ![r] = [pc |-> "quote", keys |-> {k}]]
          /\ Write(k, "requested")
  /\ UNCHANGED <<chain, poll, sweep, told, faults>>

\* No quote, a quote too low, or no address.
NoAddress(r, k) ==
  /\ At(r, "quote", k) /\ Done(r) /\ Write(k, "failed_address")
  /\ UNCHANGED <<chain, poll, sweep, told, faults>>

Linked(r, k) ==
  /\ At(r, "quote", k) /\ Go(r, "send")
  /\ row' = [row EXCEPT ![k].state = "address_created", ![k].linked = TRUE]
  /\ UNCHANGED <<chain, poll, sweep, told, faults>>

\* executeBatch; an error may come back for a batch that is out.
Send(r, k) ==
  /\ At(r, "send", k)
  /\ \E ok, out \in BOOLEAN :
       /\ ok => out
       /\ IF out /\ ~ok THEN Fault /\ lost' = lost \cup {k} ELSE UNCHANGED <<faults, lost>>
       /\ leg' = IF out THEN [leg EXCEPT ![k] = "sent"] ELSE leg
       /\ sends' = IF out THEN [sends EXCEPT ![k] = @ + 1] ELSE sends
       /\ Go(r, IF ok THEN "sent" ELSE "unsent")
  /\ UNCHANGED <<row, hop, poll, sweep, told>>

RecordSent(r, k) ==
  /\ At(r, "sent", k) /\ Done(r)
  /\ row' = [row EXCEPT ![k].state = "polygon_submitted", ![k].tx = TRUE]
  /\ UNCHANGED <<chain, poll, sweep, told, faults>>

RecordUnsent(r, k) ==
  /\ At(r, "unsent", k) /\ Done(r) /\ Write(k, "failed_polygon")
  /\ UNCHANGED <<chain, poll, sweep, told, faults>>

RequestDies(r) ==
  /\ request[r].keys # {} /\ Fault /\ Done(r)
  /\ UNCHANGED <<row, chain, poll, sweep, told>>

-----------------------------------------------------------------------------
(* The relayer and the bridge.                                              *)

PolygonLeg(k) ==
  /\ leg[k] = "sent" /\ \E end \in {"mined", "reverted"} : leg' = [leg EXCEPT ![k] = end]
  /\ UNCHANGED <<row, request, hop, poll, sweep, sends, lost, told, faults>>

BridgeLeg(k) ==
  /\ \/ leg[k] = "mined" /\ hop[k] = "none" /\ hop' = [hop EXCEPT ![k] = "SEEN"]
     \/ hop[k] = "SEEN" /\ \E end \in {"COMPLETED", "FAILED"} : hop' = [hop EXCEPT ![k] = end]
  /\ UNCHANGED <<row, request, leg, poll, sweep, sends, lost, told, faults>>

\* Everything the address has received.
StatusOf(a) == {hop[k] : k \in {j \in Keys : AddressOf[j] = a}} \ {"none"}

-----------------------------------------------------------------------------
(* Asking the bridge: the status of an address, the rows linked to it, and  *)
(* one write for each, which asks for no previous state either.             *)

Linkeds(a) == {k \in Keys : row[k].linked /\ AddressOf[k] = a}
Becomes(p, q) == poll' = [poll EXCEPT ![p] = q]

\* Listed without fail: the stale of these.  The rest is listed in the slow sweeps.
InMotion == {a \in Addresses : \E k \in Linkeds(a) : row[k].state \notin Terminal}

\* The first of those listed.  What is checked goes stale in the order of the checks; what
\* never was is stale, and last.
Sweep ==
  /\ poll[Worker].pc = "idle" /\ batch = {}
  /\ \E due \in SUBSET Addresses :
       /\ InMotion \ checked \subseteq due
       /\ \A a \in due \cap checked : InMotion \cap ahead[a] \subseteq due
       /\ batch' \in SUBSET due \ {{}}
       /\ Cardinality(batch') <= Batch /\ (batch' # due => Cardinality(batch') = Batch)
       /\ \A a \in batch' : due \cap ahead[a] \subseteq batch'
  /\ UNCHANGED <<row, request, chain, poll, checked, ahead, told, faults>>

Check(a) ==
  /\ checked' = checked \cup {a}
  /\ ahead' = [b \in Addresses |-> CASE b = a -> checked \ {a}
                                     [] b \in checked \ {a} -> ahead[b] \ {a}
                                     [] OTHER -> ahead[b] \cup {a}]

\* The worker visits the addresses of its sweep, a request those of rows in transit.
\* Nothing received, or no row: nothing learnt.
AskBridge(p, a) ==
  /\ poll[p].pc = "idle" /\ Check(a)
  /\ IF p = Worker THEN a \in batch /\ batch' = batch \ {a}
     ELSE /\ \E k \in Linkeds(a) : row[k].state \in {"polygon_confirmed", "bridging"}
          /\ UNCHANGED batch
  /\ Becomes(p, IF StatusOf(a) = {} \/ Linkeds(a) = {} THEN Idle
                ELSE [Idle EXCEPT !.pc = "asked", !.status = StatusOf(a),
                                  !.todo = {k \in Keys : AddressOf[k] = a}])
  /\ UNCHANGED <<row, request, chain, told, faults>>

SeenIsDone(status, state) ==
  CASE state \in Terminal -> "none"
    [] state \notin Terminal /\ status # {} -> "completed"
    [] OTHER -> "none"

VerdictInTransit(status, state) ==
  CASE state \notin {"polygon_confirmed", "bridging"} -> "none"
    [] state \in {"polygon_confirmed", "bridging"} /\ "COMPLETED" \in status -> "completed"
    [] state \in {"polygon_confirmed", "bridging"} /\ "COMPLETED" \notin status
         /\ "FAILED" \in status -> "failed_bridge"
    [] OTHER -> "none"

\* What the status of its address makes of a row.
Verdict(status, state) ==
  CASE state \in Terminal -> "none"
    [] state \notin Terminal /\ "COMPLETED" \in status -> "completed"
    [] state \notin Terminal /\ "COMPLETED" \notin status /\ "FAILED" \in status -> "failed_bridge"
    [] state \notin Terminal \cup {"bridging"} /\ status = {"SEEN"} -> "bridging"
    [] OTHER -> "none"

ReadRows(p) ==
  LET next == [k \in Keys |-> IF k \in poll[p].todo /\ row[k].linked
                              THEN Verdict(poll[p].status, row[k].state) ELSE "none"]
      moving == {k \in Keys : next[k] # "none"}
  IN
  /\ poll[p].pc = "asked"
  /\ Becomes(p, IF moving = {} THEN Idle
                ELSE [Idle EXCEPT !.pc = "write", !.next = next, !.todo = moving])
  /\ UNCHANGED <<row, request, chain, sweep, told, faults>>

\* Only the worker announces what it has seen completed.
Announcing(p, q) ==
  LET done == {k \in Keys : q.next[k] = "completed"} IN
  IF p = Worker /\ done # {} THEN [q EXCEPT !.pc = "tell", !.todo = done] ELSE Idle

WriteRow(p, k) ==
  /\ poll[p].pc = "write" /\ k \in poll[p].todo
  /\ Write(k, poll[p].next[k])
  /\ Becomes(p, IF poll[p].todo = {k} THEN Announcing(p, poll[p])
                                      ELSE [poll[p] EXCEPT !.todo = @ \ {k}])
  /\ UNCHANGED <<request, chain, sweep, told, faults>>

\* The enqueue may fail: that is logged and no more.
Tell(p, k) ==
  /\ poll[p].pc = "tell" /\ k \in poll[p].todo
  /\ told' \in {told, told \cup {k}}
  /\ Becomes(p, IF poll[p].todo = {k} THEN Idle ELSE [poll[p] EXCEPT !.todo = @ \ {k}])
  /\ UNCHANGED <<row, request, chain, sweep, faults>>

-----------------------------------------------------------------------------
(* Asking the relayer: its answer, the row again, and a compare-and-set.    *)

AnswerRaw(state) == state

AnswerUnlessMined(state) == IF state = "mined" THEN "polygon_confirmed" ELSE "failed_polygon"

Answer(state) ==
  CASE state = "mined" -> "polygon_confirmed"
    [] state = "reverted" -> "failed_polygon"
    [] OTHER -> "none"

AskRelayer(p, k) ==
  /\ poll[p].pc = "idle" /\ (p = Worker => batch = {})
  /\ row[k].state = "polygon_submitted" /\ row[k].tx
  /\ Answer(leg[k]) # "none"
  /\ Becomes(p, [Idle EXCEPT !.pc = "answered", !.todo = {k}, !.next[k] = Answer(leg[k])])
  /\ UNCHANGED <<row, request, chain, sweep, told, faults>>

\* Forward only; a failure from wherever it is.
Advances(state, next) == state \notin Terminal /\ (next \in Failures \/ Rank(next) > Rank(state))

ReadRow(p, k) ==
  /\ poll[p].pc = "answered" /\ k \in poll[p].todo
  /\ Becomes(p, IF Advances(row[k].state, poll[p].next[k])
                THEN [poll[p] EXCEPT !.pc = "set", !.seen = row[k].state] ELSE Idle)
  /\ UNCHANGED <<row, request, chain, sweep, told, faults>>

SetRow(p, k) ==
  /\ poll[p].pc = "set" /\ k \in poll[p].todo
  /\ IF row[k].state = poll[p].seen THEN Write(k, poll[p].next[k]) ELSE UNCHANGED row
  /\ Becomes(p, Idle)
  /\ UNCHANGED <<request, chain, sweep, told, faults>>

\* A poller dies, or something throws, and the sweep is over; or the bridge does not say.
PollerDies(p) ==
  /\ poll[p].pc \in {"asked", "write", "tell"} /\ Fault /\ Becomes(p, Idle)
  /\ \/ UNCHANGED batch /\ (p # Worker \/ poll[p].pc = "asked")
     \/ batch' = {} /\ p = Worker
  /\ UNCHANGED <<row, request, chain, checked, ahead, told>>

-----------------------------------------------------------------------------
Handle(r) ==
  \E k \in Keys : NoAddress(r, k) \/ Linked(r, k) \/ Send(r, k) \/ RecordSent(r, k)
                   \/ RecordUnsent(r, k)
GoOn(p) ==
  \/ ReadRows(p)
  \/ \E k \in Keys : WriteRow(p, k) \/ Tell(p, k) \/ ReadRow(p, k) \/ SetRow(p, k)

Next ==
  \/ \E r \in Requests : (\E k \in Keys : Submit(r, k)) \/ Handle(r) \/ RequestDies(r)
  \/ \E k \in Keys : PolygonLeg(k) \/ BridgeLeg(k)
  \/ \E p \in Pollers : \/ GoOn(p) \/ PollerDies(p)
                        \/ \E a \in Addresses : AskBridge(p, a)
                        \/ \E k \in Keys : AskRelayer(p, k)
  \/ Sweep

Spec == Init /\ [][Next]_vars

\* Awaits are answered; the worker sweeps when its timer fires, and visits its batch.
FairSpec ==
  /\ Spec
  /\ \A r \in Requests : WF_vars(Handle(r))
  /\ \A p \in Pollers : WF_vars(GoOn(p))
  /\ WF_vars(Sweep) /\ WF_vars(\E a \in Addresses : AskBridge(Worker, a))

-----------------------------------------------------------------------------
Phases == {"idle", "asked", "write", "tell", "answered", "set"}

TypeOK ==
  /\ row \in [Keys -> [state : {"none"} \cup States, linked : BOOLEAN, tx : BOOLEAN]]
  /\ request \in [Requests -> [pc : {"new", "quote", "send", "sent", "unsent", "done"},
                              keys : SUBSET Keys]]
  /\ leg \in [Keys -> {"none", "sent", "mined", "reverted"}]
  /\ hop \in [Keys -> {"none", "SEEN", "COMPLETED", "FAILED"}]
  /\ poll \in [Pollers -> [pc : Phases, status : SUBSET {"SEEN", "COMPLETED", "FAILED"},
                           todo : SUBSET Keys, next : [Keys -> {"none"} \cup States],
                           seen : {"none"} \cup States]]
  /\ checked \subseteq Addresses /\ ahead \in [Addresses -> SUBSET Addresses]
  /\ batch \subseteq Addresses
  /\ sends \in [Keys -> Nat] /\ lost \subseteq Keys /\ told \subseteq Keys
  /\ faults \in 0..MaxFaults

\* Whatever is submitted twice, dies or loses its answer: funds leave the deposit wallet
\* at most once under a key.
SentOnce == \A k \in Keys : sends[k] <= 1

\* A withdrawal is completed, and announced, only when the bridge has delivered what its
\* address received.  (Its own funds, when no other withdrawal has that address.)
CompletedIsDelivered ==
  \A k \in Keys : row[k].state = "completed" \/ k \in told =>
    \E j \in Keys : AddressOf[j] = AddressOf[k] /\ hop[j] = "COMPLETED"

\* failed_address and failed_polygon mean that the funds are in the deposit wallet, unless
\* the answer of the batch was lost.
FailedIsRecoverable ==
  \A k \in Keys :
    /\ row[k].state = "failed_address" => leg[k] = "none"
    /\ row[k].state = "failed_polygon" /\ k \notin lost => leg[k] \in {"none", "reverted"}

\* Writes that ask for no previous state overtake each other, and a final state can be
\* lost; yet what the bridge has decided ends up decided in the ledger, and stays so, once
\* the address has been checked: then no other is put before it for ever.  An address that
\* never was comes last, in each sweep, and a full batch may always be before it.
TransfersSettle ==
  \A k \in Keys :
    hop[k] \in {"COMPLETED", "FAILED"} /\ AddressOf[k] \in checked ~> [](row[k].state \in Terminal)
=============================================================================
