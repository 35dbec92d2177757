---------------------------- MODULE OutboxProofs ----------------------------
(****************************************************************************)
(* Theorems about Outbox, for every number of rows, channels, attempts and  *)
(* faults: who is told, how often, that settled rows are left alone, and    *)
(* that each pass, and each attempt it makes, comes to an end.              *)
(****************************************************************************)
EXTENDS Outbox, FiniteSetTheorems, FunctionTheorems, SequenceTheorems, WellFoundedInduction, TLAPS

Entry == [event : Events, status : {"pending", "sent", "skipped", "failed"}, attempts : Nat,
          ready : BOOLEAN, listed : SUBSET Channels, told : [Channels -> Nat]]
Busy == {"skip", "send", "count", "settle", "audit"}
PassType == [pc : {"idle", "next"} \cup Busy, due : SUBSET Nat, row : Nat,
             todo : SUBSET Channels, failure : BOOLEAN, caught : BOOLEAN]

\* Types; the pass works on one row, which it has taken from those that are due.
Shapes ==
  /\ outbox \in Seq(Entry) /\ active \subseteq Channels
  /\ pass \in PassType
  /\ pass.due \subseteq Rows
  /\ pass.pc \in Busy => pass.row \in Rows \ pass.due
  /\ used \in [faults : Nat, controls : Nat]

\* One row per event: the dedupe key.
OneRowEach == \A i, j \in Rows : outbox[i].event = outbox[j].event => i = j

\* What waits to be sent, and what is being sent, is pending.
Fresh ==
  /\ \A i \in pass.due : outbox[i].status = "pending"
  /\ pass.pc \in {"skip", "send"} => outbox[pass.row].status = "pending"

\* Who is no longer to be told in this attempt has been told, unless there was a failure.
Telling ==
  /\ \A i \in Rows : outbox[i].status = "sent" =>
       \A c \in outbox[i].listed : outbox[i].told[c] > 0
  /\ pass.pc = "send" /\ ~pass.failure =>
       \A c \in outbox[pass.row].listed \ pass.todo : outbox[pass.row].told[c] > 0

\* What a row in attempts has told a channel: once per attempt, but the last attempt
\* allowed counts when it is settled, and once per fault.
Base(a) == IF a < MaxAttempts THEN a ELSE MaxAttempts - 1
Calm(r, f) == /\ r.attempts <= MaxAttempts - 1 + f
              /\ \A c \in Channels : r.told[c] <= f + Base(r.attempts)
Over(r, f) == /\ r.attempts <= MaxAttempts + f
              /\ \A c \in Channels : r.told[c] <= f + Base(r.attempts) + 1

Working(i) == pass.pc \in Busy \ {"audit"} /\ pass.row = i

Counted ==
  \A i \in Rows : /\ Over(outbox[i], used.faults)
                  /\ outbox[i].status = "pending" /\ ~Working(i) => Calm(outbox[i], used.faults)

\* The row at work, by what is done with it.
CountedAtWork(p, r, f) ==
  /\ p.pc = "skip" => Calm(r, f)
  /\ p.pc \in {"send", "count"} => r.attempts <= MaxAttempts - 1 + f
  /\ p.pc = "send" => \A c \in p.todo : r.told[c] <= f + Base(r.attempts)
  /\ p.pc = "settle" /\ r.attempts < MaxAttempts => \A c \in Channels : r.told[c] <= f + r.attempts
Work == CountedAtWork(pass, outbox[pass.row], used.faults)

Conduct == Shapes /\ OneRowEach /\ Fresh /\ Telling /\ Counted /\ Work

-----------------------------------------------------------------------------
LEMMA InitConduct == Init => Conduct
<1> SUFFICES ASSUME Init PROVE Conduct OBVIOUS
<1>1. outbox = <<>> /\ outbox \in Seq(Entry) /\ Rows = {} /\ pass = Idle /\ pass.pc = "idle"
  BY DEF Init, Idle, Rows
<1>2. Shapes BY <1>1 DEF Init, Idle, Shapes, Busy, PassType
<1> QED BY <1>1, <1>2 DEF Conduct, OneRowEach, Fresh, Telling, Counted, Work, CountedAtWork, Idle

\* An entry is replaced.
LEMMA Replaced ==
  ASSUME outbox \in Seq(Entry), NEW i \in Rows, NEW new \in Entry, outbox' = [outbox EXCEPT ![i] = new]
  PROVE  /\ outbox' \in Seq(Entry) /\ Rows' = Rows
         /\ \A j \in Rows : outbox'[j] = IF j = i THEN new ELSE outbox[j]
<1>1. Rows = 1..Len(outbox) BY LenProperties DEF Rows
<1>2. /\ outbox' \in Seq(Entry) /\ Len(outbox') = Len(outbox)
      /\ \A j \in 1..Len(outbox) : outbox'[j] = IF j = i THEN new ELSE outbox[j]
  BY <1>1, ExceptSeq
<1>3. Rows' = 1..Len(outbox') BY <1>2, LenProperties DEF Rows
<1> QED BY <1>1, <1>2, <1>3

LEMMA EntryOf == ASSUME Shapes, NEW i \in Rows PROVE outbox[i] \in Entry
BY LenProperties, ElementOfSeq DEF Shapes, Rows

\* Whatever does not touch an entry at work leaves the outbox in order.
LEMMA EnqueueConduct == ASSUME Conduct, NEW e \in Events, Enqueue(e) PROVE Conduct'
<1>1. /\ outbox \in Seq(Entry) /\ ~Queued(e) /\ outbox' = Append(outbox, Row(e))
      /\ UNCHANGED <<pass, active, used>> /\ Shapes
  BY DEF Conduct, Shapes, Enqueue
<1>2. Row(e) \in Entry BY DEF Row, Entry
<1>3. /\ outbox' \in Seq(Entry) /\ Len(outbox') = Len(outbox) + 1
      /\ \A j \in 1..Len(outbox) : outbox'[j] = outbox[j]
      /\ outbox'[Len(outbox) + 1] = Row(e) /\ Len(outbox) \in Nat
  BY <1>1, <1>2, AppendProperties, LenProperties
<1>4. Rows = 1..Len(outbox) /\ Rows' = 1..(Len(outbox) + 1)
  BY <1>1, <1>3, LenProperties DEF Rows
<1>5. Rows' = Rows \cup {Len(outbox) + 1} BY <1>3, <1>4
<1>6. /\ Row(e).event = e /\ Row(e).status = "pending" /\ Row(e).attempts = 0
      /\ \A c \in Channels : Row(e).told[c] = 0
  BY DEF Row
<1>7. Shapes' BY <1>1, <1>3, <1>5 DEF Shapes
<1>8. OneRowEach' BY <1>1, <1>3, <1>4, <1>5, <1>6 DEF Conduct, OneRowEach, Queued
<1>9. Fresh' BY <1>1, <1>3, <1>4 DEF Conduct, Fresh, Shapes, Busy
<1>10. Telling' BY <1>1, <1>3, <1>4, <1>5, <1>6 DEF Conduct, Telling, Shapes, Busy
<1>11. Counted'
  <2>1. Calm(Row(e), used.faults) /\ Over(Row(e), used.faults)
    BY <1>1, <1>6, OutboxAssumption DEF Calm, Over, Base, Shapes
  <2> QED BY <2>1, <1>1, <1>3, <1>4, <1>5 DEF Conduct, Counted, Working
<1>12. Work'
  <2>1. CASE pass.pc \in Busy
    <3>1. outbox'[pass.row] = outbox[pass.row] BY <2>1, <1>1, <1>3, <1>4 DEF Shapes
    <3> QED BY <3>1, <1>1 DEF Conduct, Work, CountedAtWork
  <2>2. CASE pass.pc \notin Busy BY <2>2, <1>1 DEF Work, CountedAtWork, Busy
  <2> QED BY <2>1, <2>2
<1> QED BY <1>7, <1>8, <1>9, <1>10, <1>11, <1>12 DEF Conduct

\* A step that takes up or drops no row at work.
LEMMA IdleConduct ==
  ASSUME Conduct, UNCHANGED <<outbox, active>>,
         used' \in [faults : Nat, controls : Nat], used.faults <= used'.faults,
         pass.pc \in Busy \ {"audit"} =>
           \/ used'.faults = used.faults + 1
           \/ outbox[pass.row].status # "pending"
           \/ Calm(outbox[pass.row], used.faults),
         pass'.pc \in {"idle", "next"}, pass' \in PassType,
         pass'.due \subseteq Rows, \A i \in pass'.due : outbox[i].status = "pending"
  PROVE  Conduct'
<1>1. Shapes' BY DEF Conduct, Shapes, Rows, Busy
<1>2. OneRowEach' /\ Fresh' /\ Telling' BY DEF Conduct, OneRowEach, Fresh, Telling, Rows
<1>3. Work' BY DEF Work, CountedAtWork
<1>4. Counted'
  <2> SUFFICES ASSUME NEW i \in Rows
               PROVE  /\ Over(outbox[i], used'.faults)
                      /\ outbox[i].status = "pending" => Calm(outbox[i], used'.faults)
    BY DEF Counted, Rows
  <2>1. outbox[i] \in Entry /\ MaxAttempts \in Nat \ {0} /\ used.faults \in Nat /\ used'.faults \in Nat
    BY EntryOf, OutboxAssumption DEF Conduct, Shapes
  <2>2. Over(outbox[i], used.faults) BY DEF Conduct, Counted
  <2>3. Over(outbox[i], used'.faults) BY <2>1, <2>2 DEF Over, Base, Entry
  <2>4. ASSUME outbox[i].status = "pending" PROVE Calm(outbox[i], used'.faults)
    <3>1. CASE used'.faults = used.faults + 1 BY <2>1, <2>2, <3>1 DEF Over, Calm, Base, Entry
    <3>2. CASE Calm(outbox[i], used.faults) BY <2>1, <3>2 DEF Calm, Base, Entry
    <3>3. CASE ~Working(i) BY <2>4, <3>2, <3>3 DEF Conduct, Counted
    <3>4. CASE Working(i) /\ used'.faults # used.faults + 1
      BY <2>4, <3>2, <3>4 DEF Working
    <3> QED BY <3>1, <3>3, <3>4
  <2> QED BY <2>3, <2>4
<1> QED BY <1>1, <1>2, <1>3, <1>4 DEF Conduct

\* Claiming, ending, and the end of the pass or of the process.
LEMMA PassConduct == ASSUME Conduct, Claim \/ PassEnds \/ Audit \/ Crash PROVE Conduct'
<1>1. /\ UNCHANGED <<outbox, active>> /\ used.faults \in Nat
      /\ used \in [faults : Nat, controls : Nat] /\ pass \in PassType /\ Idle \in PassType
      /\ pass.due \subseteq Rows /\ \A i \in pass.due : outbox[i].status = "pending"
      /\ Rows \subseteq Nat
  BY LenProperties
  DEF Claim, PassEnds, Audit, Crash, NextRow, Conduct, Shapes, Fresh, PassType, Idle, Rows
<1>2. CASE Claim
  <2>1. /\ UNCHANGED used /\ pass.pc = "idle"
        /\ pass' = [Idle EXCEPT !.pc = "next",
                      !.due = {i \in Due : Cardinality({j \in Due : j < i}) < BatchSize}]
    BY <1>2 DEF Claim, At
  <2>2. \A i \in Due : i \in Rows /\ outbox[i].status = "pending" BY DEF Due
  <2>3. pass'.due \subseteq Due BY <2>1 DEF Idle
  <2>4. pass' \in PassType /\ pass'.pc = "next" BY <2>1, <2>2, <2>3, <1>1 DEF PassType, Idle
  <2>5. pass'.due \subseteq Rows /\ \A i \in pass'.due : outbox[i].status = "pending"
    BY <2>2, <2>3
  <2>6. pass.pc \notin Busy /\ used' = used BY <2>1 DEF Busy
  <2> QED BY <2>4, <2>5, <2>6, <1>1, IdleConduct
<1>3. CASE PassEnds
  <2>1. UNCHANGED used /\ pass.pc = "next" /\ pass' = Idle BY <1>3 DEF PassEnds, At
  <2> QED BY <2>1, <1>1, IdleConduct DEF PassType, Busy, Idle
<1>4. CASE Audit
  <2>1. /\ UNCHANGED used /\ pass.pc = "audit" /\ pass' = [Idle EXCEPT !.pc = "next", !.due = pass.due]
    BY <1>4 DEF Audit, At, NextRow
  <2>2. pass' \in PassType /\ pass'.pc = "next" /\ pass'.due = pass.due
    BY <2>1, <1>1 DEF PassType, Idle
  <2> QED BY <2>1, <2>2, <1>1, IdleConduct DEF PassType, Busy
<1>5. CASE Crash
  <2>1. used' = [used EXCEPT !.faults = @ + 1] /\ pass' = Idle BY <1>5 DEF Crash, Fault
  <2>2. used' \in [faults : Nat, controls : Nat] /\ used'.faults = used.faults + 1 BY <2>1, <1>1
  <2> QED BY <2>1, <2>2, <1>1, IdleConduct DEF PassType, Idle
<1> QED BY <1>2, <1>3, <1>4, <1>5

\* Channels come and go.
LEMMA ControlConduct == ASSUME Conduct, NEW c \in Channels, LinkOrRevoke(c) PROVE Conduct'
<1>1. /\ UNCHANGED <<outbox, pass>> /\ active' \subseteq Channels
      /\ used' \in [faults : Nat, controls : Nat] /\ used'.faults = used.faults
  BY DEF LinkOrRevoke, Conduct, Shapes
<1>2. Shapes' BY <1>1 DEF Conduct, Shapes, Rows
<1>3. OneRowEach' /\ Fresh' /\ Telling' BY <1>1 DEF Conduct, OneRowEach, Fresh, Telling, Rows
<1>4. Counted' BY <1>1 DEF Conduct, Counted, Rows, Working
<1>5. Work' BY <1>1 DEF Conduct, Work, CountedAtWork
<1> QED BY <1>2, <1>3, <1>4, <1>5 DEF Conduct

\* A row is taken up, or the row at work is rewritten, and it stays at work or not.
LEMMA WorkConduct ==
  ASSUME Conduct, NEW r \in Rows, pass.pc \in Busy => pass.row = r, UNCHANGED active,
         NEW new \in Entry, outbox' = [outbox EXCEPT ![r] = new], new.event = outbox[r].event,
         new.status = "sent" => \A c \in new.listed : new.told[c] > 0,
         used' \in [faults : Nat, controls : Nat], used.faults <= used'.faults,
         pass' \in PassType, pass'.due \subseteq pass.due \ {r},
         pass'.pc \in {"next"} \cup Busy, pass'.pc \in Busy => pass'.row = r,
         pass'.pc \in {"skip", "send"} => new.status = "pending",
         pass'.pc = "send" /\ ~pass'.failure => \A c \in new.listed \ pass'.todo : new.told[c] > 0,
         Over(new, used'.faults),
         new.status = "pending" /\ pass'.pc \in {"next", "audit"} => Calm(new, used'.faults),
         CountedAtWork(pass', new, used'.faults)
  PROVE  Conduct'
<1>1. /\ outbox \in Seq(Entry) /\ Rows \subseteq Nat /\ pass.due \subseteq Rows
  BY LenProperties DEF Conduct, Shapes, Rows
<1>2. /\ outbox' \in Seq(Entry) /\ Rows' = Rows
      /\ \A j \in Rows : outbox'[j] = IF j = r THEN new ELSE outbox[j]
  <2>1. outbox \in Seq(Entry) BY <1>1
  <2> QED BY <2>1, Replaced, Zenon
<1>3. Shapes' BY <1>1, <1>2 DEF Conduct, Shapes, PassType
<1>4. OneRowEach' BY <1>1, <1>2 DEF Conduct, OneRowEach
<1>5. Fresh' BY <1>1, <1>2, <1>3 DEF Conduct, Fresh, Shapes, Busy
<1>6. Telling' BY <1>1, <1>2, <1>3 DEF Conduct, Telling, Shapes, Busy
<1>7. Work'
  <2>1. CASE pass'.pc \in Busy BY <2>1, <1>1, <1>2 DEF Work
  <2>2. CASE pass'.pc \notin Busy BY <2>2 DEF Work, CountedAtWork, Busy
  <2> QED BY <2>1, <2>2
<1>8. Counted'
  <2> SUFFICES ASSUME NEW i \in Rows
               PROVE  /\ Over(outbox'[i], used'.faults)
                      /\ outbox'[i].status = "pending" /\ ~Working(i)' => Calm(outbox'[i], used'.faults)
    BY <1>2 DEF Counted
  <2>1. CASE i = r
    <3>1. outbox'[i] = new BY <2>1, <1>2
    <3>2. ASSUME new.status = "pending", ~Working(i)' PROVE Calm(new, used'.faults)
      BY <3>2, <2>1 DEF Working, Busy
    <3> QED BY <3>1, <3>2
  <2>2. CASE i # r
    <3>1. outbox'[i] = outbox[i] /\ ~Working(i) BY <2>2, <1>2 DEF Working, Busy
    <3>2. outbox[i] \in Entry /\ MaxAttempts \in Nat \ {0} /\ used.faults \in Nat /\ used'.faults \in Nat
      BY EntryOf, OutboxAssumption DEF Conduct, Shapes
    <3>3. /\ Over(outbox[i], used.faults)
          /\ outbox[i].status = "pending" => Calm(outbox[i], used.faults)
      BY <3>1 DEF Conduct, Counted
    <3>4. Over(outbox[i], used'.faults) BY <3>2, <3>3 DEF Over, Base, Entry
    <3>5. outbox[i].status = "pending" => Calm(outbox[i], used'.faults)
      BY <3>2, <3>3 DEF Calm, Base, Entry
    <3> QED BY <3>1, <3>4, <3>5
  <2> QED BY <2>1, <2>2
<1> QED BY <1>3, <1>4, <1>5, <1>6, <1>7, <1>8 DEF Conduct

\* Facts about the row at work.
LEMMA AtWork ==
  ASSUME Conduct, pass.pc \in Busy
  PROVE  /\ pass.row \in Rows /\ pass.row \notin pass.due /\ outbox[pass.row] \in Entry
         /\ pass \in PassType /\ used \in [faults : Nat, controls : Nat]
         /\ MaxAttempts \in Nat \ {0} /\ Over(outbox[pass.row], used.faults)
         /\ CountedAtWork(pass, outbox[pass.row], used.faults)
         /\ outbox[pass.row].status = "sent" =>
              \A c \in outbox[pass.row].listed : outbox[pass.row].told[c] > 0
BY EntryOf, OutboxAssumption DEF Conduct, Shapes, Counted, Work, Telling

LEMMA ListConduct == ASSUME Conduct, NEW i, List(i) PROVE Conduct'
<1> DEFINE new == [outbox[i] EXCEPT !.listed = active]
           r == outbox[i]
<1>1. /\ i \in Rows /\ i \in pass.due /\ pass.pc = "next" /\ r \in Entry /\ pass \in PassType
      /\ r.status = "pending" /\ active \subseteq Channels /\ UNCHANGED <<active, used>>
      /\ used \in [faults : Nat, controls : Nat]
  BY EntryOf DEF List, At, Conduct, Shapes, Fresh
<1>2. /\ outbox' = [outbox EXCEPT ![i] = new]
      /\ pass' = [Idle EXCEPT !.pc = IF active = {} THEN "skip" ELSE "send",
                          !.due = pass.due \ {i}, !.row = i, !.todo = active]
  BY DEF List
<1>3. /\ pass' \in PassType /\ pass'.pc \in {"skip", "send"} /\ pass'.row = i
      /\ pass'.due = pass.due \ {i} /\ pass'.todo = active
  BY <1>1, <1>2, LenProperties DEF PassType, Idle, Busy, Rows, Conduct, Shapes
<1>4. Over(r, used.faults) /\ Calm(r, used.faults)
  BY <1>1 DEF Conduct, Counted, Working, Busy
<1>5. /\ new \in Entry /\ new.event = r.event /\ new.status = "pending" /\ new.listed = active
      /\ new.told = r.told /\ new.attempts = r.attempts
  BY <1>1 DEF Entry
<1> HIDE DEF new, r
<1>6. Over(new, used.faults) /\ Calm(new, used.faults) BY <1>4, <1>5 DEF Over, Calm
<1>7. CountedAtWork(pass', new, used.faults)
  BY <1>1, <1>3, <1>6 DEF CountedAtWork, Calm
<1>8. used.faults <= used'.faults /\ used' = used BY <1>1
<1> QED BY <1>1, <1>2, <1>3, <1>5, <1>6, <1>7, <1>8, WorkConduct DEF Busy, r

LEMMA SkipConduct == ASSUME Conduct, Skip PROVE Conduct'
<1> DEFINE r == outbox[pass.row]
           new == [r EXCEPT !.status = "skipped"]
<1>1. /\ pass.pc = "skip" /\ outbox' = [outbox EXCEPT ![pass.row] = new]
      /\ pass' = [Idle EXCEPT !.pc = "next", !.due = pass.due] /\ UNCHANGED <<active, used>>
  BY DEF Skip, At, NextRow
<1>2. pass.pc \in Busy BY <1>1 DEF Busy
<1>3. /\ pass.row \in Rows /\ pass.row \notin pass.due /\ r \in Entry /\ pass \in PassType
      /\ used \in [faults : Nat, controls : Nat] /\ Over(r, used.faults)
  BY <1>2, AtWork
<1>4. pass' \in PassType /\ pass'.pc = "next" /\ pass'.due = pass.due
  BY <1>1, <1>3 DEF PassType, Idle
<1>5. /\ new \in Entry /\ new.event = r.event /\ new.status = "skipped"
      /\ new.told = r.told /\ new.attempts = r.attempts
  BY <1>3 DEF Entry
<1> HIDE DEF new
<1>6. Over(new, used.faults) BY <1>3, <1>5 DEF Over
<1>7. CountedAtWork(pass', new, used.faults) BY <1>4 DEF CountedAtWork
<1>8. used.faults <= used'.faults /\ used' = used BY <1>1, <1>3
<1> QED BY <1>1, <1>3, <1>4, <1>5, <1>6, <1>7, <1>8, WorkConduct DEF Busy

LEMMA SendConduct == ASSUME Conduct, NEW c \in Channels, Send(c) PROVE Conduct'
<1> DEFINE r == outbox[pass.row]
<1>1. /\ pass.pc = "send" /\ c \in pass.todo /\ UNCHANGED active BY DEF Send, At
<1>2. pass.pc \in Busy BY <1>1 DEF Busy
<1>3. /\ pass.row \in Rows /\ pass.row \notin pass.due /\ r \in Entry /\ pass \in PassType
      /\ used \in [faults : Nat, controls : Nat] /\ Over(r, used.faults)
      /\ CountedAtWork(pass, r, used.faults) /\ MaxAttempts \in Nat \ {0}
      /\ outbox \in Seq(Entry)
  BY <1>2, AtWork DEF Conduct, Shapes
<1>4. r.status = "pending" BY <1>1 DEF Conduct, Fresh
<1>5. PICK ok \in BOOLEAN, out \in BOOLEAN :
        /\ ok => out
        /\ IF out /\ ~ok THEN Fault ELSE UNCHANGED used
        /\ outbox' = IF out THEN [outbox EXCEPT ![pass.row].told[c] = @ + 1] ELSE outbox
        /\ pass' = [pass EXCEPT !.todo = @ \ {c}, !.failure = FailureAfter(@, ok)]
  BY DEF Send
<1> DEFINE n == IF out THEN r.told[c] + 1 ELSE r.told[c]
           new == [r EXCEPT !.told = [r.told EXCEPT ![c] = n]]
<1>6. /\ used' \in [faults : Nat, controls : Nat] /\ used.faults <= used'.faults
  BY <1>3, <1>5 DEF Fault
<1>7. /\ pass' \in PassType /\ pass'.pc = "send" /\ pass'.due = pass.due /\ pass'.row = pass.row
      /\ pass'.todo = pass.todo \ {c} /\ pass'.failure = (pass.failure \/ ~ok)
  BY <1>1, <1>3, <1>5 DEF PassType, FailureAfter
<1>8. r.told \in [Channels -> Nat] /\ n \in Nat BY <1>3 DEF Entry
<1>9. outbox' = [outbox EXCEPT ![pass.row] = new]
  <2>1. CASE out BY <2>1, <1>3, <1>5, <1>8 DEF Entry
  <2>2. CASE ~out
    <3>1. new = r BY <2>2, <1>3, <1>8 DEF Entry
    <3>2. [outbox EXCEPT ![pass.row] = r] = outbox BY <1>3, LenProperties DEF Rows
    <3> QED BY <2>2, <3>1, <3>2, <1>5
  <2> QED BY <2>1, <2>2
<1> HIDE DEF n
<1>10. /\ new \in Entry /\ new.event = r.event /\ new.status = "pending" /\ new.listed = r.listed
       /\ new.attempts = r.attempts
       /\ \A d \in Channels : new.told[d] = IF d = c THEN n ELSE r.told[d]
  BY <1>3, <1>4, <1>8 DEF Entry
<1>11. n <= r.told[c] + 1 /\ (ok => n > 0) BY <1>5, <1>8 DEF n
<1> HIDE DEF new
<1>12. /\ r.attempts <= MaxAttempts - 1 + used.faults
       /\ \A d \in pass.todo : r.told[d] <= used.faults + Base(r.attempts)
  BY <1>1, <1>3 DEF CountedAtWork
<1>13. Base(r.attempts) \in Nat /\ r.attempts \in Nat /\ used.faults \in Nat /\ used'.faults \in Nat
  BY <1>3, <1>6 DEF Base, Entry
<1>14. Over(new, used'.faults)
  <2>1. new.attempts <= MaxAttempts + used'.faults BY <1>3, <1>6, <1>10, <1>12, <1>13
  <2>2. ASSUME NEW d \in Channels PROVE new.told[d] <= used'.faults + Base(r.attempts) + 1
    <3>1. CASE d = c BY <3>1, <1>1, <1>6, <1>8, <1>10, <1>11, <1>12, <1>13
    <3>2. CASE d # c
      <4>1. r.told[d] <= used.faults + Base(r.attempts) + 1 BY <1>3 DEF Over
      <4>2. r.told[d] \in Nat /\ new.told[d] = r.told[d] BY <3>2, <1>8, <1>10
      <4> QED BY <4>1, <4>2, <1>6, <1>13
    <3> QED BY <3>1, <3>2
  <2> QED BY <2>1, <2>2, <1>10 DEF Over
<1>15. CountedAtWork(pass', new, used'.faults)
  <2>1. ASSUME NEW d \in pass'.todo PROVE new.told[d] <= used'.faults + Base(new.attempts)
    <3>1. d \in Channels /\ d \in pass.todo /\ d # c BY <1>3, <1>7 DEF PassType
    <3>2. r.told[d] \in Nat /\ new.told[d] = r.told[d] BY <3>1, <1>8, <1>10
    <3>3. r.told[d] <= used.faults + Base(r.attempts) BY <3>1, <1>12
    <3> QED BY <3>2, <3>3, <1>6, <1>10, <1>13
  <2> QED BY <2>1, <1>3, <1>6, <1>7, <1>10, <1>12, <1>13 DEF CountedAtWork
<1>16. ~pass'.failure => \A d \in new.listed \ pass'.todo : new.told[d] > 0
  <2> SUFFICES ASSUME ~pass'.failure, NEW d \in new.listed \ pass'.todo PROVE new.told[d] > 0 OBVIOUS
  <2>1. d \in Channels BY <1>10 DEF Entry
  <2>2. ok /\ ~pass.failure BY <1>7
  <2>3. CASE d = c BY <2>2, <2>3, <2>1, <1>10, <1>11
  <2>4. CASE d # c
    <3>1. r.told[d] > 0 BY <2>2, <2>4, <1>1, <1>7, <1>10 DEF Conduct, Telling
    <3> QED BY <3>1, <2>1, <2>4, <1>10
  <2> QED BY <2>3, <2>4
<1> QED BY <1>1, <1>3, <1>6, <1>7, <1>9, <1>10, <1>14, <1>15, <1>16, WorkConduct DEF Busy

LEMMA AllSentConduct == ASSUME Conduct, AllSent PROVE Conduct'
<1> DEFINE r == outbox[pass.row]
<1>1. /\ pass.pc = "send" /\ pass.todo = {} /\ UNCHANGED <<active, used>> BY DEF AllSent, At
<1>2. pass.pc \in Busy BY <1>1 DEF Busy
<1>3. /\ pass.row \in Rows /\ pass.row \notin pass.due /\ r \in Entry /\ pass \in PassType
      /\ used \in [faults : Nat, controls : Nat] /\ Over(r, used.faults)
      /\ CountedAtWork(pass, r, used.faults) /\ MaxAttempts \in Nat \ {0}
      /\ outbox \in Seq(Entry)
  BY <1>2, AtWork DEF Conduct, Shapes
<1>4. used.faults <= used'.faults /\ used' = used BY <1>1, <1>3
<1>5. r.status = "pending" BY <1>1 DEF Conduct, Fresh
<1>6. CASE pass.failure /\ Go("count") /\ UNCHANGED outbox
  <2>1. outbox' = [outbox EXCEPT ![pass.row] = r] BY <1>6, <1>3, LenProperties DEF Rows
  <2>2. /\ pass' \in PassType /\ pass'.pc = "count" /\ pass'.due = pass.due /\ pass'.row = pass.row
    BY <1>3, <1>6 DEF PassType, Go, Busy
  <2>3. CountedAtWork(pass', r, used.faults) BY <1>1, <1>3, <2>2 DEF CountedAtWork
  <2> HIDE DEF r
  <2> QED BY <1>1, <1>3, <1>4, <1>5, <2>1, <2>2, <2>3, WorkConduct DEF Busy, r
<1>7. CASE ~pass.failure /\ Go("audit") /\ outbox' = [outbox EXCEPT ![pass.row].status = "sent"]
  <2> DEFINE new == [r EXCEPT !.status = "sent"]
  <2>1. outbox' = [outbox EXCEPT ![pass.row] = new] BY <1>7
  <2>2. /\ pass' \in PassType /\ pass'.pc = "audit" /\ pass'.due = pass.due /\ pass'.row = pass.row
    BY <1>3, <1>7 DEF PassType, Go, Busy
  <2>3. /\ new \in Entry /\ new.event = r.event /\ new.status = "sent" /\ new.listed = r.listed
        /\ new.told = r.told /\ new.attempts = r.attempts
    BY <1>3 DEF Entry
  <2> HIDE DEF new
  <2>4. Over(new, used.faults) BY <1>3, <2>3 DEF Over
  <2>5. CountedAtWork(pass', new, used.faults) BY <2>2 DEF CountedAtWork
  <2>6. \A c \in new.listed : new.told[c] > 0
    BY <1>1, <1>7, <2>3 DEF Conduct, Telling
  <2> QED BY <1>1, <1>3, <1>4, <2>1, <2>2, <2>3, <2>4, <2>5, <2>6, WorkConduct DEF Busy
<1> QED BY <1>6, <1>7 DEF AllSent

LEMMA CountConduct == ASSUME Conduct, Count PROVE Conduct'
<1> DEFINE r == outbox[pass.row]
           new == [r EXCEPT !.attempts = r.attempts + 1]
<1>1. /\ pass.pc = "count" /\ UNCHANGED <<active, used>>
      /\ outbox' = [outbox EXCEPT ![pass.row] = new]
      /\ pass' = [pass EXCEPT !.pc = "settle"]
  BY DEF Count, At, Go
<1>2. pass.pc \in Busy BY <1>1 DEF Busy
<1>3. /\ pass.row \in Rows /\ pass.row \notin pass.due /\ r \in Entry /\ pass \in PassType
      /\ used \in [faults : Nat, controls : Nat] /\ Over(r, used.faults)
      /\ CountedAtWork(pass, r, used.faults) /\ MaxAttempts \in Nat \ {0}
      /\ r.status = "sent" => \A c \in r.listed : r.told[c] > 0
  BY <1>2, AtWork
<1>4. used.faults <= used'.faults /\ used' = used BY <1>1, <1>3
<1>5. /\ pass' \in PassType /\ pass'.pc = "settle" /\ pass'.due = pass.due /\ pass'.row = pass.row
  BY <1>1, <1>3 DEF PassType, Busy
<1>6. /\ new \in Entry /\ new.event = r.event /\ new.status = r.status /\ new.listed = r.listed
      /\ new.told = r.told /\ new.attempts = r.attempts + 1
  BY <1>3 DEF Entry
<1>7. r.attempts <= MaxAttempts - 1 + used.faults BY <1>1, <1>3 DEF CountedAtWork
<1>8. r.attempts \in Nat /\ r.told \in [Channels -> Nat] /\ used.faults \in Nat BY <1>3 DEF Entry
<1> HIDE DEF new
<1>9. Over(new, used.faults) BY <1>3, <1>6, <1>7, <1>8 DEF Over, Base
<1>10. CountedAtWork(pass', new, used.faults)
  BY <1>3, <1>5, <1>6, <1>8 DEF CountedAtWork, Over, Base
<1> HIDE DEF r
<1> QED BY <1>1, <1>3, <1>4, <1>5, <1>6, <1>9, <1>10, WorkConduct DEF Busy, r

LEMMA SettleConduct == ASSUME Conduct, Settle PROVE Conduct'
<1> DEFINE r == outbox[pass.row]
           new == IF Exhausted(r.attempts) THEN [r EXCEPT !.status = "failed"]
                                           ELSE [r EXCEPT !.ready = FALSE]
<1>1. pass.pc = "settle" /\ UNCHANGED <<active, used>> BY DEF Settle, At
<1>2. pass.pc \in Busy BY <1>1 DEF Busy
<1>3. /\ pass.row \in Rows /\ pass.row \notin pass.due /\ r \in Entry /\ pass \in PassType
      /\ used \in [faults : Nat, controls : Nat] /\ Over(r, used.faults)
      /\ CountedAtWork(pass, r, used.faults) /\ MaxAttempts \in Nat \ {0}
      /\ r.status = "sent" => \A c \in r.listed : r.told[c] > 0
  BY <1>2, AtWork
<1>4. used.faults <= used'.faults /\ used' = used BY <1>1, <1>3
<1>5. outbox' = [outbox EXCEPT ![pass.row] = new] BY DEF Settle
<1>6. /\ pass' \in PassType /\ pass'.pc \in {"next", "audit"} /\ pass'.due = pass.due
      /\ pass'.pc \in Busy => pass'.row = pass.row
  <2>1. CASE pass.caught
    <3>1. pass' = [Idle EXCEPT !.pc = "next", !.due = pass.due] BY <2>1 DEF Settle, NextRow
    <3> QED BY <3>1, <1>3 DEF PassType, Idle, Busy
  <2>2. CASE ~pass.caught
    <3>1. pass' = [pass EXCEPT !.pc = "audit"] BY <2>2 DEF Settle, Go
    <3> QED BY <3>1, <1>3 DEF PassType, Busy
  <2> QED BY <2>1, <2>2
<1>7. /\ new \in Entry /\ new.event = r.event /\ new.listed = r.listed
      /\ new.told = r.told /\ new.attempts = r.attempts
      /\ new.status = IF Exhausted(r.attempts) THEN "failed" ELSE r.status
  <2>1. CASE Exhausted(r.attempts) BY <2>1, <1>3 DEF Entry
  <2>2. CASE ~Exhausted(r.attempts) BY <2>2, <1>3 DEF Entry
  <2> QED BY <2>1, <2>2
<1>8. r.attempts \in Nat /\ r.told \in [Channels -> Nat] /\ used.faults \in Nat BY <1>3 DEF Entry
<1> HIDE DEF new
<1>9. Over(new, used.faults) BY <1>3, <1>7 DEF Over
<1>10. new.status = "pending" => Calm(new, used.faults)
  BY <1>1, <1>3, <1>7, <1>8 DEF CountedAtWork, Calm, Base, Exhausted
<1>11. CountedAtWork(pass', new, used.faults) BY <1>6 DEF CountedAtWork
<1> HIDE DEF r
<1> QED BY <1>1, <1>3, <1>4, <1>5, <1>6, <1>7, <1>9, <1>10, <1>11, WorkConduct DEF Busy, r

LEMMA ThrowConduct == ASSUME Conduct, Throw PROVE Conduct'
<1> DEFINE r == outbox[pass.row]
<1>1. /\ pass.pc \in Busy /\ UNCHANGED <<outbox, active>> /\ used' = [used EXCEPT !.faults = @ + 1]
      /\ pass' = IF pass.caught THEN Idle ELSE [pass EXCEPT !.pc = "count", !.caught = TRUE]
  BY DEF Throw, Fault, Busy
<1>2. /\ pass.row \in Rows /\ pass.row \notin pass.due /\ r \in Entry /\ pass \in PassType
      /\ used \in [faults : Nat, controls : Nat] /\ Over(r, used.faults)
      /\ MaxAttempts \in Nat \ {0} /\ outbox \in Seq(Entry)
      /\ r.status = "sent" => \A c \in r.listed : r.told[c] > 0
  BY <1>1, AtWork DEF Conduct, Shapes
<1>3. /\ used' \in [faults : Nat, controls : Nat] /\ used'.faults = used.faults + 1
      /\ used.faults \in Nat /\ used.faults <= used'.faults
  BY <1>1, <1>2
<1>4. CASE pass.caught
  <2>1. pass' \in PassType /\ pass'.pc = "idle" /\ pass'.due = {} BY <1>1, <1>4 DEF PassType, Idle
  <2> QED BY <2>1, <1>1, <1>3, IdleConduct
<1>5. CASE ~pass.caught
  <2>1. outbox' = [outbox EXCEPT ![pass.row] = r] BY <1>1, <1>2, LenProperties DEF Rows
  <2>2. /\ pass' \in PassType /\ pass'.pc = "count" /\ pass'.due = pass.due /\ pass'.row = pass.row
    BY <1>1, <1>2, <1>5 DEF PassType, Busy
  <2>3. r.attempts \in Nat /\ r.told \in [Channels -> Nat] BY <1>2 DEF Entry
  <2>4. Over(r, used'.faults)
    <3>1. Base(r.attempts) \in Nat /\ MaxAttempts \in Nat BY <1>2, <2>3 DEF Base
    <3>2. r.attempts <= MaxAttempts + used'.faults BY <1>2, <1>3, <2>3, <3>1 DEF Over
    <3>3. ASSUME NEW c \in Channels PROVE r.told[c] <= used'.faults + Base(r.attempts) + 1
      <4>1. r.told[c] \in Nat BY <2>3
      <4>2. r.told[c] <= used.faults + Base(r.attempts) + 1 BY <1>2 DEF Over
      <4> HIDE DEF r
      <4> QED BY <1>3, <3>1, <4>1, <4>2
    <3> QED BY <3>2, <3>3 DEF Over
  <2>5. CountedAtWork(pass', r, used'.faults) BY <1>2, <1>3, <2>2, <2>3 DEF CountedAtWork, Over
  <2> HIDE DEF r
  <2> QED BY <1>1, <1>2, <1>3, <2>1, <2>2, <2>4, <2>5, WorkConduct DEF Busy, r
<1> QED BY <1>4, <1>5

LEMMA BackoffConduct == ASSUME Conduct, NEW i, BackoffElapses(i) PROVE Conduct'
<1> DEFINE new == [outbox[i] EXCEPT !.ready = TRUE]
<1>1. /\ i \in Rows /\ outbox' = [outbox EXCEPT ![i] = new] /\ UNCHANGED <<pass, active, used>>
      /\ outbox \in Seq(Entry) /\ outbox[i] \in Entry
  BY EntryOf DEF BackoffElapses, Conduct, Shapes
<1>2. /\ new \in Entry /\ new.event = outbox[i].event /\ new.status = outbox[i].status
      /\ new.listed = outbox[i].listed /\ new.told = outbox[i].told
      /\ new.attempts = outbox[i].attempts
  BY <1>1 DEF Entry
<1> HIDE DEF new
<1>3. /\ outbox' \in Seq(Entry) /\ Rows' = Rows
      /\ \A j \in Rows : outbox'[j] = IF j = i THEN new ELSE outbox[j]
  <2>1. outbox \in Seq(Entry) BY <1>1
  <2> QED BY <1>1, <1>2, <2>1, Replaced, Zenon
<1>4. \A j \in Rows : /\ outbox'[j].event = outbox[j].event /\ outbox'[j].status = outbox[j].status
                      /\ outbox'[j].listed = outbox[j].listed /\ outbox'[j].told = outbox[j].told
                      /\ outbox'[j].attempts = outbox[j].attempts
  BY <1>2, <1>3
<1>5. Shapes' BY <1>1, <1>3 DEF Conduct, Shapes
<1>6. OneRowEach' BY <1>3, <1>4 DEF Conduct, OneRowEach
<1>7. Fresh' BY <1>1, <1>3, <1>4 DEF Conduct, Fresh, Shapes, Busy
<1>8. Telling' BY <1>1, <1>3, <1>4 DEF Conduct, Telling, Shapes, Busy
<1>9. Counted' BY <1>1, <1>3, <1>4 DEF Conduct, Counted, Working, Over, Calm
<1>10. Work' BY <1>1, <1>3, <1>4 DEF Conduct, Work, CountedAtWork, Calm, Shapes, Busy
<1> QED BY <1>5, <1>6, <1>7, <1>8, <1>9, <1>10 DEF Conduct

-----------------------------------------------------------------------------
LEMMA NextConduct == ASSUME Conduct, [Next]_vars PROVE Conduct'
<1>1. CASE UNCHANGED vars
  BY <1>1 DEF vars, Conduct, Shapes, OneRowEach, Fresh, Telling, Counted, Work, Working, Rows
<1>2. CASE Dispatch
  BY <1>2, PassConduct, ListConduct, SkipConduct, SendConduct, AllSentConduct, CountConduct,
     SettleConduct DEF Dispatch
<1>3. CASE Throw \/ Crash BY <1>3, ThrowConduct, PassConduct
<1>4. CASE \/ \E e \in Events : Enqueue(e)
           \/ \E i \in 1..MaxRows : BackoffElapses(i)
           \/ \E c \in Channels : LinkOrRevoke(c)
  BY <1>4, EnqueueConduct, BackoffConduct, ControlConduct
<1> QED BY <1>1, <1>2, <1>3, <1>4 DEF Next

\* Types, and at most MAX_SEND_ATTEMPTS attempts, and one more per fault, at any row.
THEOREM TypeCorrect == Spec => []TypeOK
<1>1. ASSUME Conduct PROVE TypeOK
  <2>1. \A i \in Rows : outbox[i].attempts \in 0..(MaxAttempts + used.faults)
    <3> SUFFICES ASSUME NEW i \in Rows PROVE outbox[i].attempts \in 0..(MaxAttempts + used.faults)
      OBVIOUS
    <3>1. outbox[i] \in Entry BY <1>1, EntryOf DEF Conduct
    <3>2. outbox[i].attempts \in Nat BY <3>1 DEF Entry
    <3>3. outbox[i].attempts <= MaxAttempts + used.faults BY <1>1 DEF Conduct, Counted, Over
    <3>4. used.faults \in Nat /\ MaxAttempts \in Nat BY <1>1, OutboxAssumption DEF Conduct, Shapes
    <3> QED BY <3>2, <3>3, <3>4
  <2> DEFINE Limited == [event : Events, status : {"pending", "sent", "skipped", "failed"},
                         attempts : 0..(MaxAttempts + used.faults), ready : BOOLEAN,
                         listed : SUBSET Channels, told : [Channels -> Nat]]
  <2>2. outbox \in Seq(Entry) /\ outbox \in [1..Len(outbox) -> Entry] /\ Rows = 1..Len(outbox)
        /\ Len(outbox) \in Nat
    BY <1>1, LenProperties DEF Conduct, Shapes, Rows
  <2>3. ASSUME NEW i \in 1..Len(outbox) PROVE outbox[i] \in Limited
    <3>1. outbox[i] \in Entry /\ outbox[i].attempts \in 0..(MaxAttempts + used.faults)
      BY <2>1, <2>2
    <3> QED BY <3>1 DEF Entry
  <2> HIDE DEF Limited
  <2>4. outbox \in [1..Len(outbox) -> Limited] BY <2>2, <2>3
  <2>5. outbox \in Seq(Limited) BY <2>2, <2>4
  <2> QED BY <1>1, <2>5 DEF TypeOK, Conduct, Shapes, PassType, Limited
<1> QED BY <1>1, InitConduct, NextConduct, PTL DEF Spec

\* markSent follows a pass over all channels without a failure; what was told before a
\* failure, a throw or a restart counts.
THEOREM SentWasTold == Spec => []SentMeansTold
<1>1. Conduct => SentMeansTold BY DEF Conduct, Telling, SentMeansTold
<1> QED BY <1>1, InitConduct, NextConduct, PTL DEF Spec

\* The attempt is counted after it was made, and the count and its consequence are two
\* statements: a fault between them buys one more message, and never two.
THEOREM ToldWithinBound == Spec => []ToldBounded
<1>1. ASSUME Conduct PROVE ToldBounded
  <2> SUFFICES ASSUME NEW e \in Events, NEW c \in Channels, NEW i \in Rows, NEW j \in Rows,
                      outbox[i].event = e, outbox[j].event = e
               PROVE  outbox[i].told[c] + (IF i = j THEN 0 ELSE outbox[j].told[c])
                        <= MaxAttempts + used.faults
    BY DEF ToldBounded
  <2>1. i = j BY <1>1 DEF Conduct, OneRowEach
  <2>2. outbox[i] \in Entry BY <1>1, EntryOf DEF Conduct
  <2>3. outbox[i].told[c] \in Nat /\ outbox[i].attempts \in Nat BY <2>2 DEF Entry
  <2>4. outbox[i].told[c] <= used.faults + Base(outbox[i].attempts) + 1
    BY <1>1 DEF Conduct, Counted, Over
  <2>5. used.faults \in Nat /\ MaxAttempts \in Nat \ {0}
    BY <1>1, OutboxAssumption DEF Conduct, Shapes
  <2> QED BY <2>1, <2>3, <2>4, <2>5 DEF Base
<1> QED BY <1>1, InitConduct, NextConduct, PTL DEF Spec

\* claimDue reads pending rows only, and one dispatcher works on them: what was settled
\* is told to nobody again.
THEOREM SettledStaysAlone == Spec => SettledIsLeftAlone
<1> DEFINE Alone == \A i \in Rows : outbox[i].status # "pending" => outbox'[i].told = outbox[i].told
<1>1. ASSUME Conduct, Conduct', [Next]_vars PROVE Alone
  <2> SUFFICES ASSUME NEW i \in Rows, outbox[i].status # "pending"
               PROVE  outbox'[i].told = outbox[i].told
    OBVIOUS
  <2>1. /\ outbox \in Seq(Entry) /\ i \in 1..Len(outbox) /\ outbox[i] \in Entry
    BY <1>1, LenProperties, EntryOf DEF Conduct, Shapes, Rows
  <2>2. CASE UNCHANGED outbox BY <2>2
  <2>3. ASSUME NEW e \in Events, Enqueue(e) PROVE outbox'[i].told = outbox[i].told
    <3>1. Row(e) \in Entry BY DEF Row, Entry
    <3>2. outbox'[i] = outbox[i] BY <2>1, <2>3, <3>1, AppendProperties DEF Enqueue
    <3> QED BY <3>2
  <2>4. ASSUME NEW c \in Channels, Send(c) PROVE outbox'[i].told = outbox[i].told
    <3>1. i # pass.row BY <1>1, <2>4 DEF Send, At, Conduct, Fresh
    <3> QED BY <2>1, <2>4, <3>1 DEF Send
  <2>5. ASSUME NEW k, NEW v, \/ outbox' = [outbox EXCEPT ![k].status = v]
                             \/ outbox' = [outbox EXCEPT ![k].ready = v]
                             \/ outbox' = [outbox EXCEPT ![k].listed = v]
                             \/ outbox' = [outbox EXCEPT ![k].attempts = v]
        PROVE  outbox'[i].told = outbox[i].told
    <3>1. i \in DOMAIN outbox BY DEF Rows
    <3>2. CASE i # k BY <2>5, <3>1, <3>2
    <3>3. CASE i = k
      <4> DEFINE r == outbox[i]
      <4>1. \/ outbox'[i] = [r EXCEPT !.status = v] \/ outbox'[i] = [r EXCEPT !.ready = v]
            \/ outbox'[i] = [r EXCEPT !.listed = v] \/ outbox'[i] = [r EXCEPT !.attempts = v]
        BY <2>5, <3>1, <3>3
      <4>2. r \in Entry BY <2>1
      <4> HIDE DEF r
      <4>3. outbox'[i].told = r.told BY <4>1, <4>2 DEF Entry
      <4> QED BY <4>3 DEF r
    <3> QED BY <3>2, <3>3
  <2>6. CASE AllSent BY <2>5, <2>6 DEF AllSent
  <2>7. CASE Count BY <2>5, <2>7 DEF Count
  <2>8. CASE Settle BY <2>5, <2>8 DEF Settle
  <2>9. CASE Skip BY <2>5, <2>9 DEF Skip
  <2>10. ASSUME NEW k, List(k) \/ BackoffElapses(k) PROVE outbox'[i].told = outbox[i].told
    BY <2>5, <2>10 DEF List, BackoffElapses
  <2> QED BY <1>1, <2>2, <2>3, <2>4, <2>6, <2>7, <2>8, <2>9, <2>10
      DEF Next, Dispatch, Claim, PassEnds, Audit, Throw, Crash, LinkOrRevoke, vars
<1>2. Alone => [Alone]_vars OBVIOUS
<1>3. ASSUME Conduct, Conduct', [Next]_vars PROVE [Alone]_vars BY <1>1, <1>3
<1> QED BY <1>3, InitConduct, NextConduct, PTL DEF Spec, SettledIsLeftAlone

-----------------------------------------------------------------------------
(****************************************************************************)
(* RowsSettle but for fairness: a pass ends, a row has its turn, and who is *)
(* taken up is settled or has used one of its attempts.                     *)
(****************************************************************************)

\* What is left of a pass: a row costs a listing, a message per channel, and its marking,
\* twice when a statement throws.
Cost == Cardinality(Channels) + 8
Left(pc) == CASE pc = "idle" -> 0 [] pc = "next" -> 1 [] pc = "skip" -> 2 [] pc = "audit" -> 2
              [] pc = "settle" -> 3 [] pc = "count" -> 4 [] pc = "send" -> 5
Again(p) == IF p.pc \in Busy /\ ~p.caught THEN 3 ELSE 0
Toll(p) == Cost * Cardinality(p.due) + Cardinality(p.todo) + Left(p.pc) + Again(p)

\* The steps of a pass that has begun.
Goes ==
  \/ PassEnds \/ Skip \/ AllSent \/ Count \/ Settle \/ Audit
  \/ \E i \in 1..MaxRows : List(i)
  \/ \E c \in Channels : Send(c)

\* Between two rows nobody is left to be told; no pass, nothing in hand.
Tidy ==
  /\ Conduct /\ Len(outbox) <= MaxRows
  /\ pass.pc = "next" => pass.todo = {}
  /\ pass.pc = "idle" => pass = Idle

LEMMA InitTidy == Init => Tidy
BY InitConduct, OutboxAssumption DEF Init, Idle, Tidy

LEMMA NextTidy == ASSUME Tidy, [Next]_vars PROVE Tidy'
<1>1. Conduct /\ Conduct' BY NextConduct DEF Tidy
<1>2. Len(outbox') <= MaxRows
  <2>1. outbox \in Seq(Entry) BY <1>1 DEF Conduct, Shapes
  <2>2. CASE \E e \in Events : Enqueue(e)
    <3>1. PICK e \in Events : Enqueue(e) BY <2>2
    <3>2. Row(e) \in Entry BY DEF Row, Entry
    <3>3. Len(outbox') = Len(outbox) + 1 /\ Len(outbox) < MaxRows /\ Len(outbox) \in Nat
      BY <2>1, <3>1, <3>2, AppendProperties, LenProperties DEF Enqueue
    <3> QED BY <3>3, OutboxAssumption
  <2>3. CASE Rows' = Rows
    <3>1. outbox' \in Seq(Entry) BY <1>1 DEF Conduct, Shapes
    <3>2. /\ Rows = 1..Len(outbox) /\ Rows' = 1..Len(outbox') /\ Len(outbox) \in Nat
          /\ Len(outbox') \in Nat
      BY <2>1, <3>1, LenProperties DEF Rows
    <3>3. Len(outbox') <= Len(outbox) BY <2>3, <3>2
    <3> QED BY <3>2, <3>3, OutboxAssumption DEF Tidy
  <2>4. UNCHANGED outbox => Rows' = Rows BY DEF Rows
  <2>5. \A f, k, v : outbox' = [outbox EXCEPT ![k] = v] => Rows' = Rows BY DEF Rows
  <2>6. Dispatch \/ (\E i \in 1..MaxRows : BackoffElapses(i)) => Rows' = Rows
    BY DEF Dispatch, Claim, PassEnds, Skip, AllSent, Count, Settle, Audit, List, Send,
           BackoffElapses, Rows
  <2> QED BY <2>2, <2>3, <2>4, <2>6 DEF Next, Throw, Crash, LinkOrRevoke, vars
<1>3. /\ pass'.pc = "next" => pass'.todo = {}
      /\ pass'.pc = "idle" => pass' = Idle
  <2>1. pass \in PassType BY <1>1 DEF Conduct, Shapes
  <2>2. CASE UNCHANGED pass BY <2>2 DEF Tidy
  <2>3. CASE Claim BY <2>3 DEF Claim, Idle
  <2>4. CASE PassEnds BY <2>4 DEF PassEnds, Idle
  <2>5. CASE NextRow BY <2>5 DEF NextRow, Idle
  <2>6. CASE \E v : Go(v) /\ v \in Busy BY <2>1, <2>6 DEF Go, PassType, Busy
  <2>7. ASSUME NEW i, List(i) PROVE pass'.pc \in Busy BY <2>7 DEF List, Idle, Busy
  <2>8. ASSUME NEW c, Send(c) PROVE pass'.pc \in Busy
    BY <2>1, <2>8 DEF Send, At, Busy, PassType
  <2>9. CASE Throw BY <2>1, <2>9 DEF Throw, Idle, PassType
  <2>10. CASE Crash BY <2>10 DEF Crash, Idle
  <2>11. Skip \/ Audit => NextRow BY DEF Skip, Audit
  <2>12. AllSent \/ Count => \E v : Go(v) /\ v \in Busy BY DEF AllSent, Count, Busy
  <2>13. Settle => NextRow \/ \E v : Go(v) /\ v \in Busy BY DEF Settle, Busy
  <2>14. ASSUME \/ UNCHANGED vars \/ (\E e \in Events : Enqueue(e))
                \/ (\E i \in 1..MaxRows : BackoffElapses(i))
                \/ (\E c \in Channels : LinkOrRevoke(c))
         PROVE  UNCHANGED pass
    BY <2>14 DEF vars, Enqueue, BackoffElapses, LinkOrRevoke
  <2> QED BY <2>2, <2>3, <2>4, <2>5, <2>6, <2>7, <2>8, <2>9, <2>10, <2>11, <2>12, <2>13, <2>14
      DEF Next, Dispatch, Busy
<1> QED BY <1>1, <1>2, <1>3 DEF Tidy

\* The numbers a toll is made of.
LEMMA TollParts ==
  ASSUME NEW p \in PassType, IsFiniteSet(p.due)
  PROVE  /\ Cardinality(p.due) \in Nat /\ Cardinality(p.todo) \in Nat
         /\ Cardinality(p.todo) <= Cardinality(Channels) /\ Cardinality(Channels) \in Nat
         /\ Left(p.pc) \in 0..5 /\ Again(p) \in {0, 3} /\ Cost \in Nat
         /\ Cost * Cardinality(p.due) \in Nat /\ Toll(p) \in Nat
<1>1. p.todo \subseteq Channels /\ IsFiniteSet(Channels) BY OutboxAssumption DEF PassType
<1>2. /\ Cardinality(p.due) \in Nat /\ Cardinality(p.todo) \in Nat
      /\ Cardinality(p.todo) <= Cardinality(Channels) /\ Cardinality(Channels) \in Nat
  BY <1>1, FS_CardinalityType, FS_Subset
<1>3. Left(p.pc) \in 0..5 BY DEF Left, PassType, Busy
<1>4. Again(p) \in {0, 3} BY DEF Again
<1>5. Cost \in Nat BY <1>2 DEF Cost
<1>6. Cost * Cardinality(p.due) \in Nat BY <1>2, <1>5
<1> HIDE DEF Cost, Left, Again
<1>7. Toll(p) \in Nat BY <1>2, <1>3, <1>4, <1>6 DEF Toll
<1> QED BY <1>1, <1>2, <1>3, <1>4, <1>5, <1>6, <1>7

\* Rows are finitely many, and so is what a pass has taken.
LEMMA DueIsFinite ==
  ASSUME Conduct
  PROVE  /\ IsFiniteSet(Rows) /\ Rows \subseteq Nat /\ IsFiniteSet(pass.due)
         /\ pass \in PassType /\ Rows = 1..Len(outbox) /\ Len(outbox) \in Nat
<1>1. Rows = 1..Len(outbox) /\ Len(outbox) \in Nat BY LenProperties DEF Conduct, Shapes, Rows
<1>2. IsFiniteSet(Rows) /\ Rows \subseteq Nat BY <1>1, FS_Interval
<1> QED BY <1>1, <1>2, FS_Subset DEF Conduct, Shapes

\* A step of the pass, a throw and a crash lower the toll.
LEMMA StepLowers ==
  ASSUME Tidy, Goes \/ Throw \/ Crash
  PROVE  Toll(pass') < Toll(pass)
<1> DEFINE D == Cost * Cardinality(pass.due)
           t == Cardinality(pass.todo)
           n == Cardinality(Channels)
<1>1. /\ Conduct /\ pass \in PassType /\ IsFiniteSet(pass.due) /\ IsFiniteSet(Channels)
      /\ active \subseteq Channels
  BY DueIsFinite, OutboxAssumption DEF Tidy, Conduct, Shapes
<1>2. /\ D \in Nat /\ t \in Nat /\ n \in Nat /\ t <= n /\ Cost \in Nat /\ Cost = n + 8
      /\ Toll(pass) = D + t + Left(pass.pc) + Again(pass)
      /\ Left(pass.pc) \in 0..5 /\ Again(pass) \in {0, 3}
  BY <1>1, TollParts DEF Toll, Cost
<1>3. Toll(Idle) = 0
  <2>1. /\ Idle.due = {} /\ Idle.todo = {} /\ Idle.pc = "idle" BY DEF Idle
  <2>2. Cardinality({}) = 0 BY FS_EmptySet
  <2>3. Left("idle") = 0 /\ Again(Idle) = 0 BY <2>1 DEF Left, Again, Busy
  <2> HIDE DEF Idle, Left, Again, Cost
  <2> QED BY <2>1, <2>2, <2>3, <1>2 DEF Toll
<1> HIDE DEF D, t, n
<1>4. pass.pc # "idle" => Toll(pass) > 0
  <2>1. pass.pc # "idle" => Left(pass.pc) > 0 BY <1>1 DEF Left, PassType, Busy
  <2> HIDE DEF Left, Again
  <2> QED BY <2>1, <1>2
<1>5. ASSUME pass' = Idle, pass.pc # "idle" PROVE Toll(pass') < Toll(pass) BY <1>3, <1>4, <1>5
<1>6. ASSUME NextRow, pass.pc \in Busy PROVE Toll(pass') < Toll(pass)
  <2>1. pass'.pc = "next" /\ pass'.due = pass.due /\ pass'.todo = {} BY <1>6 DEF NextRow, Idle
  <2>2. Toll(pass') = D + 1
    <3>1. Left("next") = 1 /\ Again(pass') = 0 BY <2>1 DEF Left, Again, Busy
    <3>2. Cardinality({}) = 0 BY FS_EmptySet
    <3> QED BY <2>1, <3>1, <3>2, <1>2 DEF Toll, D
  <2>3. Left(pass.pc) >= 2 BY <1>6 DEF Left, Busy
  <2> QED BY <2>2, <2>3, <1>2
<1>7. ASSUME NEW v \in Busy, pass' = [pass EXCEPT !.pc = v], pass.pc \in Busy, Left(v) < Left(pass.pc)
      PROVE  Toll(pass') < Toll(pass)
  <2>1. /\ pass'.pc = v /\ pass'.due = pass.due /\ pass'.todo = pass.todo
        /\ pass'.caught = pass.caught
    BY <1>1, <1>7 DEF PassType
  <2>2. Again(pass') = Again(pass) BY <2>1, <1>7 DEF Again
  <2>3. Left(v) \in 0..5 BY DEF Left, Busy
  <2>4. Toll(pass') = D + t + Left(v) + Again(pass) BY <2>1, <2>2 DEF Toll, D, t
  <2> QED BY <2>3, <2>4, <1>2, <1>7
<1>8. CASE PassEnds BY <1>5, <1>8 DEF PassEnds, At
<1>9. CASE Crash BY <1>5, <1>9 DEF Crash, Tidy
<1>10. CASE Skip \/ Audit BY <1>6, <1>10 DEF Skip, Audit, At, Busy
<1>11. CASE AllSent
  <2>1. pass.pc = "send" /\ (Go("count") \/ Go("audit")) BY <1>11 DEF AllSent, At
  <2>2. Left("count") < Left("send") /\ Left("audit") < Left("send") BY DEF Left
  <2> QED BY <2>1, <2>2, <1>7 DEF Go, Busy
<1>12. CASE Count
  <2>1. pass.pc = "count" /\ Go("settle") BY <1>12 DEF Count, At
  <2>2. Left("settle") < Left("count") BY DEF Left
  <2> QED BY <2>1, <2>2, <1>7 DEF Go, Busy
<1>13. CASE Settle
  <2>1. pass.pc = "settle" /\ (NextRow \/ Go("audit")) BY <1>13 DEF Settle, At
  <2>2. Left("audit") < Left("settle") BY DEF Left
  <2> QED BY <2>1, <2>2, <1>6, <1>7 DEF Go, Busy
<1>14. ASSUME NEW i, List(i) PROVE Toll(pass') < Toll(pass)
  <2>1. /\ pass.pc = "next" /\ i \in pass.due /\ pass'.pc \in {"skip", "send"}
        /\ pass'.due = pass.due \ {i} /\ pass'.todo = active /\ ~pass'.caught
    BY <1>14 DEF List, At, Idle
  <2> DEFINE d == Cardinality(pass.due)
             k == Cardinality(active)
             b == Cardinality(pass.due \ {i})
  <2>2. b = d - 1 /\ d \in Nat /\ b \in Nat
    BY <1>1, <2>1, FS_RemoveElement, FS_CardinalityType, FS_Subset
  <2>3. k \in Nat /\ k <= n BY <1>1, FS_Subset, FS_CardinalityType DEF n
  <2>4. Left(pass'.pc) <= 5 /\ Left(pass'.pc) \in Nat /\ Again(pass') = 3
    BY <2>1 DEF Left, Again, Busy
  <2>5. Toll(pass') = Cost * b + k + Left(pass'.pc) + Again(pass') BY <2>1 DEF Toll
  <2>6. Left(pass.pc) = 1 BY <2>1 DEF Left
  <2>7. D = Cost * d BY DEF D
  <2> HIDE DEF d, k, b
  <2>8. D = Cost * b + Cost /\ Cost * b \in Nat BY <1>2, <2>2, <2>7
  <2> DEFINE e == Cost * b
  <2>9. D = e + Cost /\ e \in Nat /\ Toll(pass') = e + k + Left(pass'.pc) + Again(pass')
    BY <2>5, <2>8
  <2> HIDE DEF e
  <2> QED BY <1>2, <2>3, <2>4, <2>6, <2>9
<1>15. ASSUME NEW c, Send(c) PROVE Toll(pass') < Toll(pass)
  <2>1. PICK ok \in BOOLEAN : /\ pass.pc = "send" /\ c \in pass.todo
                              /\ pass' = [pass EXCEPT !.todo = @ \ {c}, !.failure = FailureAfter(@, ok)]
    BY <1>15 DEF Send, At
  <2>2. /\ pass'.pc = pass.pc /\ pass'.due = pass.due /\ pass'.todo = pass.todo \ {c}
        /\ pass'.caught = pass.caught
    BY <1>1, <2>1 DEF PassType
  <2>3. IsFiniteSet(pass.todo) BY <1>1, FS_Subset DEF PassType
  <2> DEFINE s == Cardinality(pass.todo \ {c})
  <2>4. s = t - 1 BY <2>1, <2>3, FS_RemoveElement DEF t
  <2>5. Again(pass') = Again(pass) BY <2>2 DEF Again
  <2>6. Toll(pass') = D + s + Left(pass.pc) + Again(pass) BY <2>2, <2>5 DEF Toll, D
  <2> HIDE DEF s
  <2> QED BY <1>2, <2>4, <2>6
<1>16. CASE Throw
  <2>1. pass.pc \in Busy /\ pass.pc # "idle" BY <1>16 DEF Throw, Busy
  <2>2. CASE pass.caught BY <1>5, <1>16, <2>1, <2>2 DEF Throw
  <2>3. CASE ~pass.caught
    <3>1. pass' = [pass EXCEPT !.pc = "count", !.caught = TRUE] BY <1>16, <2>3 DEF Throw
    <3>2. pass'.pc = "count" /\ pass'.due = pass.due /\ pass'.todo = pass.todo /\ pass'.caught
      BY <1>1, <3>1 DEF PassType
    <3>3. Again(pass') = 0 /\ Again(pass) = 3 BY <2>1, <2>3, <3>2 DEF Again
    <3>4. Left(pass'.pc) = 4 /\ Left(pass.pc) >= 2 BY <2>1, <3>2 DEF Left, Busy
    <3>5. Toll(pass') = D + t + Left(pass'.pc) + Again(pass') BY <3>2 DEF Toll, D, t
    <3> QED BY <1>2, <3>3, <3>4, <3>5
  <2> QED BY <2>2, <2>3
<1> QED BY <1>8, <1>9, <1>10, <1>11, <1>12, <1>13, <1>14, <1>15, <1>16 DEF Goes

\* How many of the first i rows there are; a batch is no larger than it may be.
LEMMA BatchIsSmall ==
  ASSUME NEW S, IsFiniteSet(S), S \subseteq Nat, NEW b \in Nat
  PROVE  Cardinality({i \in S : Cardinality({j \in S : j < i}) < b}) <= b
<1> DEFINE T == {i \in S : Cardinality({j \in S : j < i}) < b}
           rank(i) == Cardinality({j \in S : j < i})
           f == [i \in T |-> rank(i)]
<1>1. \A i \in S : rank(i) \in Nat /\ IsFiniteSet({j \in S : j < i})
  <2> SUFFICES ASSUME NEW i \in S PROVE rank(i) \in Nat /\ IsFiniteSet({j \in S : j < i}) OBVIOUS
  <2>1. IsFiniteSet({j \in S : j < i}) BY FS_Subset, {j \in S : j < i} \subseteq S
  <2> QED BY <2>1, FS_CardinalityType
<1>2. \A i, k \in S : i < k => rank(i) < rank(k)
  <2> SUFFICES ASSUME NEW i \in S, NEW k \in S, i < k PROVE rank(i) < rank(k) OBVIOUS
  <2>1. {j \in S : j < i} \subseteq {j \in S : j < k} \ {i}
    <3> SUFFICES ASSUME NEW j \in S, j < i PROVE j < k /\ j # i OBVIOUS
    <3>1. i \in Nat /\ j \in Nat /\ k \in Nat OBVIOUS
    <3> QED BY <3>1
  <2>2. IsFiniteSet({j \in S : j < k}) /\ i \in {j \in S : j < k} BY <1>1
  <2>3. /\ IsFiniteSet({j \in S : j < k} \ {i})
        /\ Cardinality({j \in S : j < k} \ {i}) = rank(k) - 1
    BY <2>2, FS_RemoveElement
  <2>4. rank(i) <= Cardinality({j \in S : j < k} \ {i}) BY <2>1, <2>3, FS_Subset
  <2>5. rank(i) \in Nat /\ rank(k) \in Nat BY <1>1
  <2> HIDE DEF rank
  <2> QED BY <2>3, <2>4, <2>5
<1> DEFINE R == 0..(b - 1)
<1>3. IsFiniteSet(R) /\ Cardinality(R) = b BY FS_Interval
<1>4. f \in [T -> R]
  <2> SUFFICES ASSUME NEW i \in T PROVE rank(i) \in R OBVIOUS
  <2>1. rank(i) \in Nat /\ rank(i) < b BY <1>1
  <2> HIDE DEF rank
  <2> QED BY <2>1
<1>5. \A i, k \in T : f[i] = f[k] => i = k
  <2> SUFFICES ASSUME NEW i \in T, NEW k \in T, i # k PROVE f[i] # f[k] OBVIOUS
  <2>1. i \in S /\ k \in S /\ i \in Nat /\ k \in Nat /\ f[i] = rank(i) /\ f[k] = rank(k) OBVIOUS
  <2>2. rank(i) \in Nat /\ rank(k) \in Nat BY <1>1, <2>1
  <2>3. i < k \/ k < i BY <2>1
  <2> HIDE DEF rank, f, T
  <2> QED BY <1>2, <2>1, <2>2, <2>3
<1> HIDE DEF f, R
<1>6. f \in Injection(T, R) BY <1>4, <1>5, Fun_IsInj
<1>7. Cardinality(T) <= Cardinality(R) BY <1>3, <1>6, FS_Injection
<1> QED BY <1>3, <1>7

\* However much is due, the tick takes no more than a batch.
LEMMA ClaimIsCheap == ASSUME Tidy, Claim PROVE Toll(pass') <= Cost * BatchSize + 1
<1>1. /\ Conduct' /\ IsFiniteSet(pass'.due) /\ pass' \in PassType
  <2>1. Conduct' BY PassConduct DEF Tidy
  <2>2. IsFiniteSet(Rows) /\ Rows' = Rows BY DueIsFinite DEF Tidy, Claim, Rows
  <2>3. pass'.due \subseteq Rows' /\ pass' \in PassType BY <2>1 DEF Conduct, Shapes
  <2> QED BY <2>1, <2>2, <2>3, FS_Subset
<1>2. /\ pass'.pc = "next" /\ pass'.todo = {}
      /\ pass'.due = {i \in Due : Cardinality({j \in Due : j < i}) < BatchSize}
  BY DEF Claim, Idle
<1> DEFINE k == Cardinality(pass'.due)
<1>3. k \in Nat /\ k <= BatchSize /\ BatchSize \in Nat
  <2>1. Due \subseteq Rows BY DEF Due
  <2>2. IsFiniteSet(Due) /\ Due \subseteq Nat BY <2>1, DueIsFinite, FS_Subset DEF Tidy
  <2>3. BatchSize \in Nat BY OutboxAssumption
  <2>4. Cardinality({i \in Due : Cardinality({j \in Due : j < i}) < BatchSize}) <= BatchSize
    BY <2>2, <2>3, BatchIsSmall
  <2> QED BY <1>1, <1>2, <2>3, <2>4, FS_CardinalityType
<1>4. Cost \in Nat /\ Left("next") = 1 /\ Again(pass') = 0
  BY <1>1, <1>2, TollParts DEF Left, Again, Busy
<1>5. Toll(pass') = Cost * k + 1
  <2>1. Cardinality({}) = 0 BY FS_EmptySet
  <2> DEFINE x == Cost * k
  <2>2. Toll(pass') = x + Cardinality(pass'.todo) + Left(pass'.pc) + Again(pass') BY DEF Toll
  <2>3. x \in Nat BY <1>3, <1>4
  <2> HIDE DEF x
  <2>4. Toll(pass') = x + 1 BY <1>2, <1>4, <2>1, <2>2, <2>3
  <2> QED BY <2>4 DEF x
<1> HIDE DEF k
<1>6. Cost * k <= Cost * BatchSize BY <1>3, <1>4
<1>7. Cost * k \in Nat /\ Cost * BatchSize \in Nat BY <1>3, <1>4
<1> QED BY <1>5, <1>6, <1>7

\* The tick allows one pass at a time, of batchSize rows at most, and each of its steps,
\* whatever fails or throws in it, leaves less of it to do: a pass costs a bounded number of
\* awaits, and nothing that happens beside it, however much is enqueued or linked, adds one.
PassIsSpent ==
  [][/\ Claim => Toll(pass') <= Cost * BatchSize + 1
     /\ Goes \/ Throw \/ Crash => Toll(pass') < Toll(pass)
     /\ ~(Claim \/ Goes \/ Throw \/ Crash) => UNCHANGED pass]_vars

THEOREM PassesEnd == Spec => PassIsSpent
<1> DEFINE Spent == /\ Claim => Toll(pass') <= Cost * BatchSize + 1
                    /\ Goes \/ Throw \/ Crash => Toll(pass') < Toll(pass)
                    /\ ~(Claim \/ Goes \/ Throw \/ Crash) => UNCHANGED pass
<1>1. ASSUME Tidy, [Next]_vars PROVE Spent
  <2>1. ~(Claim \/ Goes \/ Throw \/ Crash) => UNCHANGED pass
    BY <1>1 DEF Next, Dispatch, Goes, Enqueue, BackoffElapses, LinkOrRevoke, vars
  <2> QED BY <1>1, <2>1, StepLowers, ClaimIsCheap
<1>2. Spent => [Spent]_vars OBVIOUS
<1>3. ASSUME Tidy, [Next]_vars PROVE [Spent]_vars BY <1>1, <1>3
<1> QED BY <1>3, InitTidy, NextTidy, PTL DEF Spec, PassIsSpent

\* What the next step of the pass waits for.
Ready ==
  \/ pass.pc = "next" /\ pass.due = {}
  \/ /\ pass.pc = "next"
     /\ \E i \in 1..MaxRows : i \in pass.due /\ \A j \in pass.due : i <= j
  \/ pass.pc = "send" /\ (pass.todo = {} \/ \E c \in Channels : c \in pass.todo)
  \/ pass.pc \in Busy \ {"send"}

\* A pass that has begun always has a step to take, on a row that exists, until its toll
\* is paid; and no pass owes nothing.
NeverStuck == IF pass = Idle THEN Toll(pass) = 0
                             ELSE Toll(pass) \in Nat \ {0} /\ Ready

THEOREM PassNeverStuck == Spec => []NeverStuck
<1>1. ASSUME Tidy PROVE NeverStuck
  <2>1. /\ pass \in PassType /\ IsFiniteSet(pass.due) /\ Rows = 1..Len(outbox)
        /\ Len(outbox) \in Nat /\ pass.due \subseteq Rows /\ Len(outbox) <= MaxRows
        /\ MaxRows \in Nat
    BY <1>1, DueIsFinite, OutboxAssumption DEF Tidy, Conduct, Shapes
  <2>2. CASE pass = Idle
    <3>1. pass.due = {} /\ pass.todo = {} /\ pass.pc = "idle" BY <2>2 DEF Idle
    <3>2. Left("idle") = 0 /\ Again(pass) = 0 BY <3>1 DEF Left, Again, Busy
    <3>3. Cardinality({}) = 0 BY FS_EmptySet
    <3>4. Cost \in Nat BY <2>1, TollParts
    <3> HIDE DEF Idle, Left, Again, Cost
    <3>5. Toll(pass) = 0 BY <3>1, <3>2, <3>3, <3>4 DEF Toll
    <3> QED BY <2>2, <3>5 DEF NeverStuck
  <2>3. CASE pass # Idle
    <3>1. pass.pc \in {"next"} \cup Busy BY <1>1, <2>1, <2>3 DEF Tidy, PassType
    <3>2. Toll(pass) \in Nat \ {0}
      <4>1. Left(pass.pc) > 0 BY <3>1 DEF Left, Busy
      <4> DEFINE D == Cost * Cardinality(pass.due)
      <4>2. /\ D \in Nat /\ Cardinality(pass.todo) \in Nat /\ Left(pass.pc) \in Nat
            /\ Again(pass) \in Nat /\ Toll(pass) \in Nat
            /\ Toll(pass) = D + Cardinality(pass.todo) + Left(pass.pc) + Again(pass)
        BY <2>1, TollParts, SMTT(30) DEF Toll
      <4> HIDE DEF D, Left, Again
      <4> QED BY <4>1, <4>2
    <3>3. CASE pass.pc = "next" /\ pass.due # {}
      <4>1. pass.due \subseteq Nat BY <2>1
      <4>2. PICK i \in pass.due : \A j \in pass.due : <<j, i>> \notin OpToRel(<, Nat)
        BY <3>3, <4>1, WFMin, NatLessThanWellFounded
      <4>3. \A j \in pass.due : ~(j < i) BY <4>1, <4>2 DEF OpToRel
      <4>4. \A j \in pass.due : i <= j BY <4>1, <4>3
      <4>5. i \in 1..MaxRows
        <5> DEFINE len == Len(outbox)
        <5>1. i \in 1..len /\ len \in Nat /\ len <= MaxRows BY <2>1, <4>2
        <5> HIDE DEF len
        <5> QED BY <2>1, <5>1
      <4> QED BY <2>3, <3>2, <3>3, <4>4, <4>5 DEF NeverStuck, Ready
    <3>4. CASE pass.pc = "send"
      <4>1. pass.todo \subseteq Channels BY <2>1 DEF PassType
      <4> QED BY <2>3, <3>2, <3>4, <4>1 DEF NeverStuck, Ready
    <3> QED BY <2>3, <3>1, <3>2, <3>3, <3>4 DEF NeverStuck, Ready
  <2> QED BY <2>2, <2>3
<1> QED BY <1>1, InitTidy, NextTidy, PTL DEF Spec

\* The rows a tick takes before row i; and the row the pass is committed to attempt.
Older(i) == {j \in Due : j < i}
InHand(i) == i \in pass.due \/ (pass.pc \in {"skip", "send", "count"} /\ pass.row = i)

\* What a step does to row i: a settled row stays settled and attempts only grow; only a
\* row whose back-off has just elapsed gets ahead of a due one, and one of the first
\* batchSize of those is taken by the tick; what is taken leaves the dispatcher's hands
\* settled, or one attempt nearer to being given up, unless the process or the pass dies.
Moves(i) ==
  /\ outbox[i].status # "pending" => outbox'[i].status # "pending"
  /\ outbox'[i].attempts >= outbox[i].attempts
  /\ i \in Due => Older(i)' \subseteq Older(i) \cup {j \in Rows : BackoffElapses(j)}
  /\ Claim /\ i \in Due /\ Cardinality(Older(i)) < BatchSize => InHand(i)'
  /\ InHand(i) => \/ InHand(i)'
                  \/ outbox'[i].status # "pending" \/ outbox'[i].attempts > outbox[i].attempts
                  \/ Crash \/ (Throw /\ pass.caught)

\* Nothing that is rewritten in a row settles it back, or makes it due.
LEMMA RowAfter ==
  ASSUME Conduct, NEW i \in Rows, [Next]_vars
  PROVE  /\ i \in Rows' /\ outbox[i] \in Entry
         /\ outbox[i].status # "pending" => outbox'[i].status # "pending"
         /\ outbox'[i].attempts >= outbox[i].attempts
         /\ i \in Due' => i \in Due \/ BackoffElapses(i)
<1> DEFINE r == outbox[i]
           Kept == /\ i \in Rows'
                   /\ r.status # "pending" => outbox'[i].status # "pending"
                   /\ outbox'[i].attempts >= r.attempts
                   /\ i \in Due' => i \in Due \/ BackoffElapses(i)
           Lawful(new) == /\ r.status # "pending" => new.status # "pending"
                          /\ new.attempts >= r.attempts
                          /\ new.ready /\ new.status = "pending" => i \in Due \/ BackoffElapses(i)
<1>1. /\ outbox \in Seq(Entry) /\ i \in DOMAIN outbox /\ r \in Entry /\ i \in 1..Len(outbox)
      /\ r.attempts \in Nat
  BY EntryOf, LenProperties DEF Conduct, Shapes, Rows, Entry
<1>2. ASSUME i \in Rows', outbox'[i] = r PROVE Kept BY <1>1, <1>2 DEF Due
<1>3. ASSUME UNCHANGED outbox PROVE Kept BY <1>1, <1>2, <1>3 DEF Rows
<1>4. ASSUME NEW e \in Events, Enqueue(e) PROVE Kept
  <2>1. Row(e) \in Entry BY DEF Row, Entry
  <2>2. outbox'[i] = outbox[i] BY <1>1, <1>4, <2>1, AppendProperties DEF Enqueue
  <2>3. /\ outbox' \in Seq(Entry) /\ Len(outbox') = Len(outbox) + 1
    BY <1>1, <1>4, <2>1, AppendProperties DEF Enqueue
  <2>4. i \in Rows' BY <1>1, <2>3, LenProperties DEF Rows
  <2> QED BY <1>2, <2>2, <2>4
<1>5. ASSUME NEW k, \E new : outbox' = [outbox EXCEPT ![k] = new], i # k PROVE Kept
  <2>1. i \in Rows' /\ outbox'[i] = r BY <1>1, <1>5 DEF Rows
  <2> QED BY <1>2, <2>1
<1>6. ASSUME NEW new, outbox' = [outbox EXCEPT ![i] = new], Lawful(new) PROVE Kept
  <2>1. i \in Rows' /\ outbox'[i] = new BY <1>1, <1>6 DEF Rows
  <2> HIDE DEF r
  <2>2. i \in Due' => new.ready /\ new.status = "pending" BY <2>1 DEF Due
  <2> QED BY <1>6, <2>1, <2>2
<1>7. r.ready /\ r.status = "pending" => i \in Due BY DEF Due
<1>8. ASSUME NEW k, NEW v, outbox' = [outbox EXCEPT ![k].status = v], v # "pending" PROVE Kept
  <2>1. CASE i # k BY <1>5, <1>8, <2>1
  <2>2. CASE i = k
    <3> DEFINE new == [r EXCEPT !.status = v]
    <3>1. new.status = v /\ new.attempts = r.attempts BY <1>1 DEF Entry
    <3>2. outbox' = [outbox EXCEPT ![i] = new] BY <1>8, <2>2
    <3> HIDE DEF new, r
    <3>3. Lawful(new) BY <1>1, <1>8, <3>1
    <3> HIDE DEF Kept, Lawful
    <3> QED BY <1>6, <3>2, <3>3
  <2> QED BY <2>1, <2>2
<1>9. ASSUME NEW k, outbox' = [outbox EXCEPT ![k].ready = FALSE] PROVE Kept
  <2>1. CASE i # k BY <1>5, <1>9, <2>1
  <2>2. CASE i = k
    <3> DEFINE new == [r EXCEPT !.ready = FALSE]
    <3>1. ~new.ready /\ new.status = r.status /\ new.attempts = r.attempts BY <1>1 DEF Entry
    <3>2. outbox' = [outbox EXCEPT ![i] = new] BY <1>9, <2>2
    <3> HIDE DEF new, r
    <3>3. Lawful(new) BY <1>1, <3>1
    <3> HIDE DEF Kept, Lawful
    <3> QED BY <1>6, <3>2, <3>3
  <2> QED BY <2>1, <2>2
<1>10. ASSUME NEW k, BackoffElapses(k) PROVE Kept
  <2>1. outbox' = [outbox EXCEPT ![k].ready = TRUE] BY <1>10 DEF BackoffElapses
  <2>2. CASE i # k BY <1>5, <2>1, <2>2
  <2>3. CASE i = k
    <3> DEFINE new == [r EXCEPT !.ready = TRUE]
    <3>1. new.status = r.status /\ new.attempts = r.attempts BY <1>1 DEF Entry
    <3>2. outbox' = [outbox EXCEPT ![i] = new] BY <2>1, <2>3
    <3> HIDE DEF new, r
    <3>3. Lawful(new) BY <1>1, <1>10, <2>3, <3>1
    <3> HIDE DEF Kept, Lawful
    <3> QED BY <1>6, <3>2, <3>3
  <2> QED BY <2>2, <2>3
<1>11. ASSUME NEW k, NEW v, outbox' = [outbox EXCEPT ![k].listed = v] PROVE Kept
  <2>1. CASE i # k BY <1>5, <1>11, <2>1
  <2>2. CASE i = k
    <3> DEFINE new == [r EXCEPT !.listed = v]
    <3>1. new.ready = r.ready /\ new.status = r.status /\ new.attempts = r.attempts
      BY <1>1 DEF Entry
    <3>2. outbox' = [outbox EXCEPT ![i] = new] BY <1>11, <2>2
    <3> HIDE DEF new, r
    <3>3. Lawful(new) BY <1>1, <1>7, <3>1
    <3> HIDE DEF Kept, Lawful
    <3> QED BY <1>6, <3>2, <3>3
  <2> QED BY <2>1, <2>2
<1>12. ASSUME Count PROVE Kept
  <2>1. CASE i # pass.row
    <3>1. \E new : outbox' = [outbox EXCEPT ![pass.row] = new] BY <1>12 DEF Count
    <3> QED BY <1>5, <2>1, <3>1
  <2>2. CASE i = pass.row
    <3> DEFINE new == [r EXCEPT !.attempts = r.attempts + 1]
    <3>1. /\ new.ready = r.ready /\ new.status = r.status /\ new.attempts = r.attempts + 1
      BY <1>1 DEF Entry
    <3>2. outbox' = [outbox EXCEPT ![i] = new] BY <1>12, <2>2 DEF Count
    <3> HIDE DEF new, r
    <3>3. Lawful(new) BY <1>1, <1>7, <3>1
    <3> HIDE DEF Kept, Lawful
    <3> QED BY <1>6, <3>2, <3>3
  <2> QED BY <2>1, <2>2
<1>13. ASSUME NEW c \in Channels, Send(c) PROVE Kept
  <2>1. CASE UNCHANGED outbox BY <1>1, <1>2, <2>1 DEF Rows
  <2>2. CASE outbox' = [outbox EXCEPT ![pass.row].told[c] = @ + 1]
    <3>1. CASE i # pass.row BY <1>5, <2>2, <3>1
    <3>2. CASE i = pass.row
      <4> DEFINE new == [r EXCEPT !.told[c] = @ + 1]
      <4>1. new.ready = r.ready /\ new.status = r.status /\ new.attempts = r.attempts
        BY <1>1 DEF Entry
      <4>2. outbox' = [outbox EXCEPT ![i] = new] BY <2>2, <3>2
      <4> HIDE DEF new, r
      <4>3. Lawful(new) BY <1>1, <1>7, <4>1
      <4> HIDE DEF Kept, Lawful
      <4> QED BY <1>6, <4>2, <4>3
    <3> QED BY <3>1, <3>2
  <2> QED BY <1>13, <2>1, <2>2 DEF Send
<1> HIDE DEF Kept, Lawful, r
<1>14. Skip => \E k : outbox' = [outbox EXCEPT ![k].status = "skipped"] BY DEF Skip
<1>15. AllSent => UNCHANGED outbox \/ \E k : outbox' = [outbox EXCEPT ![k].status = "sent"]
  BY DEF AllSent
<1>16. Settle => \/ \E k : outbox' = [outbox EXCEPT ![k].status = "failed"]
                 \/ \E k : outbox' = [outbox EXCEPT ![k].ready = FALSE]
  BY DEF Settle
<1>17. \A k : List(k) => \E v : outbox' = [outbox EXCEPT ![k].listed = v] BY DEF List
<1>18. ASSUME NEW k, List(k) PROVE Kept BY <1>11, <1>17, <1>18
<1>19. \/ UNCHANGED vars \/ Claim \/ PassEnds \/ Audit \/ Throw \/ Crash
       \/ (\E c \in Channels : LinkOrRevoke(c))
       => UNCHANGED outbox
  BY DEF vars, Claim, PassEnds, Audit, Throw, Crash, LinkOrRevoke
<1>20. ASSUME Skip \/ AllSent \/ Settle PROVE Kept
  BY <1>3, <1>8, <1>9, <1>14, <1>15, <1>16, <1>20
<1>21. ASSUME \/ UNCHANGED vars \/ Claim \/ PassEnds \/ Audit \/ Throw \/ Crash
              \/ (\E c \in Channels : LinkOrRevoke(c))
       PROVE  Kept
  BY <1>3, <1>19, <1>21
<1>22. Kept BY <1>4, <1>10, <1>12, <1>13, <1>18, <1>20, <1>21 DEF Next, Dispatch
<1> QED BY <1>1, <1>22 DEF Kept, r

\* What the dispatcher has taken stays in its hands until it is done with it.
LEMMA HandsHold ==
  ASSUME Tidy, NEW i \in Rows, InHand(i), [Next]_vars
  PROVE  \/ InHand(i)' \/ outbox'[i].status # "pending" \/ outbox'[i].attempts > outbox[i].attempts
         \/ Crash \/ (Throw /\ pass.caught)
<1>1. /\ Conduct /\ pass \in PassType /\ outbox \in Seq(Entry) /\ i \in DOMAIN outbox
      /\ outbox[i] \in Entry
  BY EntryOf DEF Tidy, Conduct, Shapes, Rows
<1>2. CASE UNCHANGED pass BY <1>2 DEF InHand
<1>3. CASE Claim
  <2>1. pass.pc = "idle" /\ pass = Idle BY <1>3 DEF Claim, At, Tidy
  <2> QED BY <2>1 DEF InHand, Idle
<1>4. CASE PassEnds BY <1>4 DEF PassEnds, At, InHand
<1>5. ASSUME NEW k, List(k) PROVE InHand(i)'
  <2>1. /\ pass.pc = "next" /\ pass'.pc \in {"skip", "send"} /\ pass'.row = k
        /\ pass'.due = pass.due \ {k}
    BY <1>5 DEF List, At, Idle
  <2> QED BY <2>1 DEF InHand
<1>6. CASE Skip
  <2>1. pass.pc = "skip" /\ pass'.due = pass.due BY <1>6 DEF Skip, At, NextRow, Idle
  <2>2. outbox' = [outbox EXCEPT ![pass.row].status = "skipped"] BY <1>6 DEF Skip
  <2>3. i = pass.row => outbox'[i].status = "skipped" BY <1>1, <2>2 DEF Entry
  <2> QED BY <2>1, <2>3 DEF InHand
<1>7. ASSUME NEW c, Send(c) PROVE InHand(i)'
  <2>1. pass'.due = pass.due /\ pass'.pc = pass.pc /\ pass'.row = pass.row
    BY <1>1, <1>7 DEF Send, PassType
  <2> QED BY <2>1 DEF InHand
<1>8. CASE AllSent
  <2>1. pass.pc = "send" /\ pass'.due = pass.due /\ pass'.row = pass.row
    BY <1>1, <1>8 DEF AllSent, At, Go, PassType
  <2>2. CASE Go("count") BY <1>1, <2>1, <2>2 DEF Go, PassType, InHand
  <2>3. CASE outbox' = [outbox EXCEPT ![pass.row].status = "sent"]
    <3>1. i = pass.row => outbox'[i].status = "sent" BY <1>1, <2>3 DEF Entry
    <3> QED BY <2>1, <3>1 DEF InHand
  <2> QED BY <1>8, <2>2, <2>3 DEF AllSent
<1>9. CASE Count
  <2>1. pass.pc = "count" /\ pass'.due = pass.due
    BY <1>1, <1>9 DEF Count, At, Go, PassType
  <2>2. outbox' = [outbox EXCEPT ![pass.row].attempts = @ + 1] BY <1>9 DEF Count
  <2>3. i = pass.row => outbox'[i].attempts = outbox[i].attempts + 1 BY <1>1, <2>2 DEF Entry
  <2>4. outbox[i].attempts \in Nat BY <1>1 DEF Entry
  <2> QED BY <2>1, <2>3, <2>4 DEF InHand
<1>10. CASE Settle \/ Audit
  <2>1. pass.pc \in {"settle", "audit"} /\ pass'.due = pass.due
    BY <1>1, <1>10 DEF Settle, Audit, At, Go, NextRow, Idle, PassType
  <2> QED BY <2>1 DEF InHand
<1>11. CASE Throw /\ ~pass.caught
  <2>1. pass'.due = pass.due /\ pass'.pc = "count" /\ pass'.row = pass.row
    BY <1>1, <1>11 DEF Throw, PassType
  <2> QED BY <2>1 DEF InHand
<1>12. \/ UNCHANGED vars \/ (\E e \in Events : Enqueue(e))
       \/ (\E k \in 1..MaxRows : BackoffElapses(k)) \/ (\E c \in Channels : LinkOrRevoke(c))
       => UNCHANGED pass
  BY DEF vars, Enqueue, BackoffElapses, LinkOrRevoke
<1> QED BY <1>2, <1>3, <1>4, <1>5, <1>6, <1>7, <1>8, <1>9, <1>10, <1>11, <1>12 DEF Next, Dispatch

\* claimDue takes the oldest due rows first and markAttemptFailed counts every attempt: a
\* row waits behind at most the older ones, is handed over with an end or a count, and
\* nothing sends it back; with attempts bounded (TypeCorrect) this is RowsSettle but for
\* the fairness of the timer.
RowsMove == [][\A i \in Rows : Moves(i)]_vars

THEOREM RowsAdvance == Spec => RowsMove
<1> DEFINE All == \A i \in Rows : Moves(i)
<1>1. ASSUME Tidy, [Next]_vars PROVE All
  <2> SUFFICES ASSUME NEW i \in Rows PROVE Moves(i) OBVIOUS
  <2>1. Conduct /\ Rows \subseteq Nat BY <1>1, DueIsFinite DEF Tidy
  <2>2. /\ outbox[i].status # "pending" => outbox'[i].status # "pending"
        /\ outbox'[i].attempts >= outbox[i].attempts
    BY <1>1, <2>1, RowAfter
  <2>3. ASSUME i \in Due PROVE Older(i)' \subseteq Older(i) \cup {j \in Rows : BackoffElapses(j)}
    <3> SUFFICES ASSUME NEW j, j \in Due', j < i
                 PROVE  (j \in Due /\ j < i) \/ (j \in Rows /\ BackoffElapses(j))
      BY DEF Older
    <3>1. j \in Rows
      <4>1. /\ Rows = 1..Len(outbox) /\ Len(outbox) \in Nat BY <2>1, DueIsFinite
      <4>2. j \in Rows' BY DEF Due
      <4>3. Conduct' BY <1>1, <2>1, NextConduct
      <4>4. Rows' = 1..Len(outbox') /\ Len(outbox') \in Nat
        BY <4>3, LenProperties DEF Conduct, Shapes, Rows
      <4> DEFINE n == Len(outbox)  m == Len(outbox')
      <4>5. i \in 1..n /\ j \in 1..m /\ n \in Nat /\ m \in Nat BY <4>1, <4>2, <4>4
      <4> HIDE DEF n, m
      <4>6. j \in 1..n BY <4>5
      <4> QED BY <4>1, <4>6 DEF n
    <3> QED BY <1>1, <2>1, <3>1, RowAfter
  <2>4. ASSUME Claim, i \in Due, Cardinality(Older(i)) < BatchSize PROVE InHand(i)'
    <3>1. pass'.due = {k \in Due : Cardinality({j \in Due : j < k}) < BatchSize}
      BY <2>4 DEF Claim, Idle
    <3> QED BY <2>4, <3>1 DEF Older, InHand
  <2>5. InHand(i) => \/ InHand(i)' \/ outbox'[i].status # "pending"
                     \/ outbox'[i].attempts > outbox[i].attempts
                     \/ Crash \/ (Throw /\ pass.caught)
    BY <1>1, HandsHold
  <2> QED BY <2>2, <2>3, <2>4, <2>5 DEF Moves
<1>2. All => [All]_vars OBVIOUS
<1>3. ASSUME Tidy, [Next]_vars PROVE [All]_vars BY <1>1, <1>3
<1> QED BY <1>3, InitTidy, NextTidy, PTL DEF Spec, RowsMove
=============================================================================
