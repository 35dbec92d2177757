------------------------------- MODULE Outbox -------------------------------
(****************************************************************************)
(* The notification outbox: producers enqueue, one dispatcher sends a row   *)
(* to every channel of its wallet and marks it.  Every await of a pass is a *)
(* step.  All rows belong to one wallet; wording, preferences by kind and   *)
(* sign links, one of which is minted per attempt, are left out.            *)
(****************************************************************************)
EXTENDS Naturals, Sequences, FiniteSets

CONSTANTS
  Events,        \* what there is to tell; its name is the dedupe key
  Channels,      \* the channels of the wallet
  BatchSize, MaxAttempts,  \* batchSize and MAX_SEND_ATTEMPTS
  MaxRows, MaxFaults, MaxControls
                 \* bounds: rows; crashes, statements that throw and answers lost;
                 \* channels revoked or linked

ASSUME OutboxAssumption ==
  /\ IsFiniteSet(Channels) /\ BatchSize \in Nat \ {0} /\ MaxAttempts \in Nat \ {0}
  /\ MaxRows \in Nat /\ MaxFaults \in Nat /\ MaxControls \in Nat

VARIABLES
  outbox,  \* the rows, oldest first; listed and told are history
  pass,    \* the dispatcher's pass
  active,  \* the channels that are active
  used     \* faults and controls that have happened

vars == <<outbox, pass, active, used>>

Row(e) == [event |-> e, status |-> "pending", attempts |-> 0, ready |-> TRUE,
           listed |-> {}, told |-> [c \in Channels |-> 0]]
Idle == [pc |-> "idle", due |-> {}, row |-> 0, todo |-> {}, failure |-> FALSE, caught |-> FALSE]

Init ==
  /\ outbox = <<>> /\ pass = Idle /\ active \in SUBSET Channels
  /\ used = [faults |-> 0, controls |-> 0]

Fault == used.faults < MaxFaults /\ used' = [used EXCEPT !.faults = @ + 1]
Rows == DOMAIN outbox
At(pc) == pass.pc = pc
Go(pc) == pass' = [pass EXCEPT !.pc = pc]
NextRow == pass' = [Idle EXCEPT !.pc = "next", !.due = pass.due]

-----------------------------------------------------------------------------
QueuedNever(e) == FALSE
Queued(e) == \E i \in Rows : outbox[i].event = e

\* A producer that repeats itself finds its row there.
Enqueue(e) ==
  /\ ~Queued(e) /\ Len(outbox) < MaxRows
  /\ outbox' = Append(outbox, Row(e))
  /\ UNCHANGED <<pass, active, used>>

DueAnyStatus == {i \in Rows : outbox[i].ready}
DueBelowMax == {i \in Rows : outbox[i].ready /\ outbox[i].status = "pending"
                           /\ outbox[i].attempts < MaxAttempts}
Due == {i \in Rows : outbox[i].ready /\ outbox[i].status = "pending"}

\* tick: one pass at a time; claimDue only reads.
Claim ==
  /\ At("idle") /\ Due # {}
  /\ pass' = [Idle EXCEPT !.pc = "next",
                          !.due = {i \in Due : Cardinality({j \in Due : j < i}) < BatchSize}]
  /\ UNCHANGED <<outbox, active, used>>

PassEnds ==
  /\ At("next") /\ pass.due = {}
  /\ pass' = Idle
  /\ UNCHANGED <<outbox, active, used>>

\* The channels of the row are read once.
List(i) ==
  /\ At("next") /\ i \in pass.due /\ \A j \in pass.due : i <= j
  /\ pass' = [Idle EXCEPT !.pc = IF active = {} THEN "skip" ELSE "send",
                          !.due = pass.due \ {i}, !.row = i, !.todo = active]
  /\ outbox' = [outbox EXCEPT ![i].listed = active]
  /\ UNCHANGED <<active, used>>

Skip ==
  /\ At("skip")
  /\ outbox' = [outbox EXCEPT ![pass.row].status = "skipped"]
  /\ NextRow
  /\ UNCHANGED <<active, used>>

LastOnly(failure, ok) == ~ok
FailureAfter(failure, ok) == failure \/ ~ok

\* A failing channel does not keep the others from being told; an error may come back
\* for a message that went out.
Send(c) ==
  /\ At("send") /\ c \in pass.todo
  /\ \E ok, out \in BOOLEAN :
       /\ ok => out
       /\ IF out /\ ~ok THEN Fault ELSE UNCHANGED used
       /\ outbox' = IF out THEN [outbox EXCEPT ![pass.row].told[c] = @ + 1] ELSE outbox
       /\ pass' = [pass EXCEPT !.todo = @ \ {c}, !.failure = FailureAfter(@, ok)]
  /\ UNCHANGED active

AllSent ==
  /\ At("send") /\ pass.todo = {}
  /\ \/ pass.failure /\ Go("count") /\ UNCHANGED outbox
     \/ /\ ~pass.failure /\ Go("audit")
        /\ outbox' = [outbox EXCEPT ![pass.row].status = "sent"]
  /\ UNCHANGED <<active, used>>

\* markAttemptFailed, in two statements.
Count ==
  /\ At("count")
  /\ outbox' = [outbox EXCEPT ![pass.row].attempts = @ + 1]
  /\ Go("settle")
  /\ UNCHANGED <<active, used>>

ExhaustedLate(attempts) == attempts > MaxAttempts
Exhausted(attempts) == attempts >= MaxAttempts

Settle ==
  /\ At("settle")
  /\ outbox' = IF Exhausted(outbox[pass.row].attempts)
               THEN [outbox EXCEPT ![pass.row].status = "failed"]
               ELSE [outbox EXCEPT ![pass.row].ready = FALSE]
  /\ IF pass.caught THEN NextRow ELSE Go("audit")
  /\ UNCHANGED <<active, used>>

Audit ==
  /\ At("audit") /\ NextRow
  /\ UNCHANGED <<outbox, active, used>>

\* A statement throws: the attempt counts as failed, also when it is the audit after
\* the row was marked.  In the handler itself the pass, and the process, are over.
Throw ==
  /\ pass.pc \in {"skip", "send", "count", "settle", "audit"} /\ Fault
  /\ pass' = IF pass.caught THEN Idle ELSE [pass EXCEPT !.pc = "count", !.caught = TRUE]
  /\ UNCHANGED <<outbox, active>>

Crash ==
  /\ pass # Idle /\ Fault
  /\ pass' = Idle
  /\ UNCHANGED <<outbox, active>>

BackoffElapses(i) ==
  /\ i \in Rows /\ ~outbox[i].ready
  /\ outbox' = [outbox EXCEPT ![i].ready = TRUE]
  /\ UNCHANGED <<pass, active, used>>

LinkOrRevoke(c) ==
  /\ used.controls < MaxControls /\ used' = [used EXCEPT !.controls = @ + 1]
  /\ active' = IF c \in active THEN active \ {c} ELSE active \cup {c}
  /\ UNCHANGED <<outbox, pass>>

-----------------------------------------------------------------------------
Dispatch ==
  \/ Claim \/ PassEnds \/ Skip \/ AllSent \/ Count \/ Settle \/ Audit
  \/ \E i \in 1..MaxRows : List(i)
  \/ \E c \in Channels : Send(c)

Next ==
  \/ Dispatch \/ Throw \/ Crash
  \/ \E e \in Events : Enqueue(e)
  \/ \E i \in 1..MaxRows : BackoffElapses(i)
  \/ \E c \in Channels : LinkOrRevoke(c)

Spec == Init /\ [][Next]_vars

\* The interval timer calls tick for as long as the worker runs, or runs again; every
\* await is answered; a back-off is a time.
FairSpec ==
  Spec /\ WF_vars(Dispatch) /\ \A i \in 1..MaxRows : WF_vars(BackoffElapses(i))

-----------------------------------------------------------------------------
\* Types; a row is tried at most MAX_SEND_ATTEMPTS times, and once more per fault.
TypeOK ==
  /\ outbox \in Seq([event : Events, status : {"pending", "sent", "skipped", "failed"},
                     attempts : 0..(MaxAttempts + used.faults), ready : BOOLEAN,
                     listed : SUBSET Channels, told : [Channels -> Nat]])
  /\ pass.due \subseteq Rows /\ pass.todo \subseteq Channels

\* A row is marked sent only when every channel of its last attempt has been told, in
\* that attempt or an earlier one, whatever failed, threw or was lost in between.
SentMeansTold ==
  \A i \in Rows : outbox[i].status = "sent" => \A c \in outbox[i].listed : outbox[i].told[c] > 0

\* However often producers repeat themselves, sends fail and the worker restarts, a
\* channel hears of an event at most MAX_SEND_ATTEMPTS times, and once more per fault.
ToldBounded ==
  \A e \in Events : \A c \in Channels :
    \A i, j \in Rows : outbox[i].event = e /\ outbox[j].event = e =>
      outbox[i].told[c] + (IF i = j THEN 0 ELSE outbox[j].told[c]) <= MaxAttempts + used.faults

\* A row that was sent, skipped or given up is never sent again.
SettledIsLeftAlone ==
  [][\A i \in Rows : outbox[i].status # "pending" => outbox'[i].told = outbox[i].told]_vars

\* Every row is settled in the end, behind any number of failing ones.
RowsSettle ==
  \A i \in 1..MaxRows : i \in Rows ~> i \in Rows /\ outbox[i].status # "pending"
=============================================================================
