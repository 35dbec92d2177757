------------------------- MODULE MarketSocketProofs -------------------------
(****************************************************************************)
(* Theorems about MarketSocket, for every number of tokens, faults and      *)
(* subscriptions: the socket in use is watched, pinged and told what is     *)
(* wanted, whichever socket's events come late; only faults cast sockets    *)
(* off; and only a fault or a socket cast off sets a recovery back.         *)
(****************************************************************************)
EXTENDS MarketSocket, FiniteSetTheorems, TLAPS

Socket == [phase : Phases, told : SUBSET Tokens, alive : BOOLEAN]
Client == [state : {"idle", "connecting", "connected", "reconnecting"}, ws : 0..(MaxFaults + 1),
           liveness : BOOLEAN, pinging : BOOLEAN, reconnect : {0, 1}]

Shapes ==
  /\ sockets \in [Ids -> Socket] /\ wanted \subseteq Tokens /\ client \in Client
  /\ used \in [faults : 0..MaxFaults, controls : Nat]
  /\ \A s \in Ids : sockets[s].phase = "connecting" => sockets[s] = New
  /\ client.state = "idle" => client.ws = 0 /\ \A s \in Ids : sockets[s].phase = "gone"

\* this.ws is null exactly while one reconnect is scheduled.
OneTimer == client.reconnect = (IF client.ws = 0 /\ client.state # "idle" THEN 1 ELSE 0)

\* What the socket in use can rely on; the state matters because a subscription only
\* goes out in state connected.
InUse ==
  /\ client.ws # 0 => sockets[client.ws].phase \in {"connecting", "open"}
  /\ IsOpen(client.ws) => /\ client.state = "connected" /\ client.liveness /\ client.pinging
                          /\ sockets[client.ws].told = wanted

Tended == Shapes /\ OneTimer /\ InUse

-----------------------------------------------------------------------------
LEMMA IdsFacts ==
  /\ MaxFaults \in Nat /\ Ids \subseteq Nat /\ 0 \notin Ids /\ IsFiniteSet(Ids)
  /\ Cardinality(Ids) = MaxFaults + 1 /\ 0..(MaxFaults + 1) = Ids \cup {0}
<1>1. MaxFaults \in Nat /\ 1 \in Int /\ MaxFaults + 1 \in Int BY SocketAssumption
<1>2. IsFiniteSet(Ids) /\ Cardinality(Ids) = MaxFaults + 1 BY <1>1, FS_Interval DEF Ids
<1> QED BY <1>1, <1>2 DEF Ids

LEMMA InitTended == Init => Tended
BY SocketAssumption, IdsFacts
DEF Init, Tended, Shapes, OneTimer, InUse, IsOpen, Socket, Client, Phases, Gone

\* A new socket is connecting, and in use.
LEMMA ConnectTended ==
  ASSUME Tended, NEW c \in Client, c.reconnect = 0, Connect(c), wanted' \subseteq Tokens,
         used' \in [faults : 0..MaxFaults, controls : Nat]
  PROVE  Tended'
<1>1. PICK s \in Ids : /\ sockets' = [sockets EXCEPT ![s] = New]
                       /\ client' = [c EXCEPT !.state = "connecting", !.ws = s]
  BY DEF Connect
<1>2. sockets \in [Ids -> Socket] /\ New \in Socket /\ New.alive /\ New.phase = "connecting"
  BY DEF Tended, Shapes, New, Socket, Phases
<1>3. /\ client' \in Client /\ client'.state = "connecting" /\ client'.ws = s
      /\ client'.reconnect = 0
  BY <1>1, IdsFacts DEF Client
<1>4. /\ sockets' \in [Ids -> Socket] /\ sockets'[s] = New
      /\ \A r \in Ids : r # s => sockets'[r] = sockets[r]
  BY <1>1, <1>2
<1>5. Shapes'
  BY <1>2, <1>3, <1>4 DEF Tended, Shapes
<1>6. OneTimer' /\ InUse'
  BY <1>2, <1>3, <1>4, IdsFacts DEF OneTimer, InUse, IsOpen
<1> QED BY <1>5, <1>6 DEF Tended

\* What scheduleReconnect leaves.
LEMMA GivenUp ==
  ASSUME Tended, client.state # "idle", NEW c \in Client,
         c.reconnect = client.reconnect, c.ws = client.ws, c.state = client.state,
         client' = Reconnecting(c)
  PROVE  client' \in Client /\ client'.ws = 0 /\ client'.reconnect = 1 /\ client'.state # "idle"
<1>1. client.reconnect = (IF client.ws = 0 THEN 1 ELSE 0) BY DEF Tended, OneTimer
<1>2. CASE c.reconnect > 0 BY <1>1, <1>2 DEF Reconnecting
<1>3. CASE c.reconnect = 0
  <2>1. client' = [c EXCEPT !.state = "reconnecting", !.ws = 0, !.liveness = FALSE,
                            !.pinging = FALSE, !.reconnect = 1]
    BY <1>3 DEF Reconnecting, StackedReconnect
  <2> QED BY <2>1, IdsFacts DEF Client
<1> QED BY <1>1, <1>2, <1>3

\* When a socket has left the phase open, the client gives its own up.
LEMMA GivesUp ==
  ASSUME Tended, client.state # "idle", UNCHANGED wanted,
         NEW c \in Client, c.reconnect = client.reconnect, c.ws = client.ws,
         c.state = client.state, client' = Reconnecting(c),
         sockets' \in [Ids -> Socket],
         \A s \in Ids : sockets'[s].phase = "connecting" => sockets'[s] = New,
         used' \in [faults : 0..MaxFaults, controls : Nat]
  PROVE  Tended'
<1>1. client' \in Client /\ client'.ws = 0 /\ client'.reconnect = 1 /\ client'.state # "idle"
  BY GivenUp
<1> QED BY <1>1, IdsFacts DEF Tended, Shapes, OneTimer, InUse, IsOpen

\* A frame on this.ws, when that is open, changes what it has been told and no more.
Told(tt, ss, added, removed) ==
  /\ tt \in [Ids -> Socket]
  /\ \A s \in Ids : tt[s].phase = ss[s].phase /\ tt[s].alive = ss[s].alive
  /\ \A s \in Ids : ss[s].phase # "open" => tt[s] = ss[s]
  /\ client.ws \in Ids /\ ss[client.ws].phase = "open"
       => tt[client.ws].told = (ss[client.ws].told \cup added) \ removed

LEMMA SentTells ==
  ASSUME client \in Client, NEW ss \in [Ids -> Socket],
         NEW added \in SUBSET Tokens, NEW removed \in SUBSET Tokens
  PROVE  Told(Sent(ss, added, removed), ss, added, removed)
BY DEF Told, Sent, Socket

LEMMA ControlTended ==
  ASSUME Tended, NEW ts \in SUBSET Tokens, Subscribe(ts) \/ Unsubscribe(ts)
  PROVE  Tended'
<1>1. /\ Shapes /\ sockets \in [Ids -> Socket] /\ client \in Client /\ wanted \in SUBSET Tokens
      /\ wanted' \in SUBSET Tokens /\ used' \in [faults : 0..MaxFaults, controls : Nat]
  BY DEF Tended, Shapes, Subscribe, Unsubscribe, Control
<1>2. CASE Subscribe(ts) /\ client.state = "idle"
  <2>1. client.reconnect = 0 /\ Connect(client)
    BY <1>2 DEF Subscribe, Tended, OneTimer
  <2> QED BY <1>1, <2>1, ConnectTended
<1>3. CASE ~(Subscribe(ts) /\ client.state = "idle")
  <2>1. PICK added \in SUBSET Tokens, removed \in SUBSET Tokens :
          /\ wanted' = (wanted \cup added) \ removed
          /\ sockets' = IF client.state = "connected" THEN Sent(sockets, added, removed) ELSE sockets
          /\ UNCHANGED client
    <3>1. CASE Subscribe(ts)
      <4>1. wanted' = (wanted \cup (ts \ wanted)) \ {} BY <3>1 DEF Subscribe
      <4> QED BY <4>1, <3>1, <1>3 DEF Subscribe
    <3>2. CASE Unsubscribe(ts)
      <4>1. wanted' = (wanted \cup {}) \ (ts \cap wanted) BY <3>2 DEF Unsubscribe
      <4> QED BY <4>1, <3>2 DEF Unsubscribe
    <3> QED BY <3>1, <3>2
  <2>2. CASE client.state = "connected"
    <3> DEFINE ss == Sent(sockets, added, removed)
    <3>1. /\ ss \in [Ids -> Socket]
          /\ \A s \in Ids : ss[s].phase = sockets[s].phase
          /\ \A s \in Ids : sockets[s].phase # "open" => ss[s] = sockets[s]
          /\ client.ws \in Ids /\ sockets[client.ws].phase = "open"
               => ss[client.ws].told = (sockets[client.ws].told \cup added) \ removed
      <4>1. Told(Sent(sockets, added, removed), sockets, added, removed) BY <1>1, SentTells
      <4> QED BY <4>1 DEF Told
    <3>2. sockets' = ss BY <2>1, <2>2
    <3> HIDE DEF ss
    <3>3. Shapes' BY <1>1, <2>1, <2>2, <3>1, <3>2 DEF Shapes
    <3>4. InUse' BY <1>1, <2>1, <3>1, <3>2, IdsFacts DEF Tended, InUse, IsOpen, Client
    <3> QED BY <2>1, <3>3, <3>4 DEF Tended, OneTimer
  <2>3. CASE client.state # "connected"
    <3>1. UNCHANGED <<sockets, client>> /\ ~IsOpen(client.ws)
      BY <2>1, <2>3 DEF Tended, InUse
    <3> QED BY <1>1, <3>1 DEF Tended, Shapes, OneTimer, InUse, IsOpen
  <2> QED BY <2>2, <2>3
<1> QED BY <1>2, <1>3

\* Whichever socket opens, this.ws is told what is wanted, if it is open.
LEMMA OpensTended == ASSUME Tended, NEW s \in Ids, Opens(s) PROVE Tended'
<1> DEFINE opened == [sockets EXCEPT ![s].phase = "open"]
           ss == Sent(opened, wanted, {})
<1>1. /\ Shapes /\ sockets \in [Ids -> Socket] /\ client \in Client /\ wanted \in SUBSET Tokens
      /\ sockets[s].phase = "connecting" /\ client.state # "idle" /\ UNCHANGED <<wanted, used>>
  BY DEF Tended, Shapes, Opens
<1>2. /\ opened \in [Ids -> Socket] /\ opened[s].phase = "open"
      /\ \A r \in Ids : r # s => opened[r] = sockets[r]
      /\ \A r \in Ids : opened[r].alive = sockets[r].alive /\ opened[r].told = sockets[r].told
  BY <1>1 DEF Socket, Phases
<1> HIDE DEF opened
<1>3. /\ ss \in [Ids -> Socket]
      /\ \A r \in Ids : ss[r].phase = opened[r].phase
      /\ \A r \in Ids : opened[r].phase # "open" => ss[r] = opened[r]
      /\ client.ws \in Ids /\ opened[client.ws].phase = "open"
           => ss[client.ws].told = (opened[client.ws].told \cup wanted) \ {}
  <2>1. Told(Sent(opened, wanted, {}), opened, wanted, {})
    <3>1. {} \in SUBSET Tokens OBVIOUS
    <3> QED BY <1>1, <1>2, <3>1, SentTells
  <2> QED BY <2>1 DEF Told
<1>4. sockets' = ss BY DEF Opens, Initial, opened
<1> HIDE DEF ss
<1>5. client' = [client EXCEPT !.state = "connected", !.pinging = TRUE, !.liveness = TRUE]
  BY DEF Opens, Watched
<1>6. /\ client' \in Client /\ client'.state = "connected" /\ client'.ws = client.ws
      /\ client'.pinging /\ client'.liveness /\ client'.reconnect = client.reconnect
  BY <1>1, <1>5 DEF Client
<1>7. Shapes' BY <1>1, <1>2, <1>3, <1>4, <1>6 DEF Shapes
<1>8. OneTimer' BY <1>1, <1>6 DEF Tended, OneTimer
<1>9. InUse'
  <2>1. client'.ws # 0 => sockets'[client'.ws].phase \in {"connecting", "open"}
    BY <1>1, <1>2, <1>3, <1>4, <1>6, IdsFacts DEF Tended, InUse, Client
  <2>2. ASSUME client.ws \in Ids, sockets'[client.ws].phase = "open"
        PROVE  sockets'[client.ws].told = wanted
    <3>1. sockets'[client.ws].told = opened[client.ws].told \cup wanted
      BY <1>3, <1>4, <2>2
    <3>2. CASE sockets[client.ws].phase = "open"
      <4>1. sockets[client.ws].told = wanted BY <2>2, <3>2 DEF Tended, InUse, IsOpen
      <4> QED BY <1>2, <2>2, <3>1, <4>1
    <3>3. CASE sockets[client.ws].phase # "open"
      <4>1. client.ws = s BY <1>2, <1>3, <1>4, <2>2, <3>3
      <4>2. sockets[s].told = {} BY <1>1 DEF Shapes, New
      <4> QED BY <1>2, <3>1, <4>1, <4>2
    <3> QED BY <3>2, <3>3
  <2> QED BY <1>1, <1>6, <2>1, <2>2 DEF InUse, IsOpen
<1> QED BY <1>7, <1>8, <1>9 DEF Tended

\* Errors and closes, of this.ws or of a socket that was cast off.
LEMMA LossTended ==
  ASSUME Tended, NEW s \in Ids,
         Refused(s) \/ Breaks(s) \/ Closed(s) \/ ServerCloses(s) \/ Dropped(s)
  PROVE  Tended'
<1>1. /\ sockets \in [Ids -> Socket] /\ client \in Client /\ UNCHANGED wanted
      /\ client.state # "idle" /\ client' = Reconnecting(client)
      /\ used' \in [faults : 0..MaxFaults, controls : Nat]
  BY IdsFacts DEF Tended, Shapes, Refused, Breaks, Closed, ServerCloses, Dropped, Ends, IsOpen, Fault
<1>2. \/ sockets' = [sockets EXCEPT ![s] = Gone]
      \/ sockets' = [sockets EXCEPT ![s].phase = "closing"]
  BY DEF Refused, Breaks, Closed, ServerCloses, Dropped, Ends
<1>3. /\ sockets' \in [Ids -> Socket] /\ sockets'[s].phase \in {"gone", "closing"}
      /\ \A r \in Ids : r # s => sockets'[r] = sockets[r]
  <2>1. Gone \in Socket /\ Gone.phase = "gone" BY DEF Socket, Phases, Gone
  <2>2. CASE sockets' = [sockets EXCEPT ![s] = Gone]
    BY <1>1, <2>1, <2>2
  <2>3. CASE sockets' = [sockets EXCEPT ![s].phase = "closing"]
    BY <1>1, <2>3 DEF Socket, Phases
  <2> QED BY <1>2, <2>2, <2>3
<1>4. \A r \in Ids : sockets'[r].phase = "connecting" => sockets'[r] = New
  BY <1>3 DEF Tended, Shapes
<1> QED BY <1>1, <1>3, <1>4, GivesUp

\* A watchdog gives this.ws up, or finds nothing to give up and stops.
LEMMA LivenessTended == ASSUME Tended, LivenessFires PROVE Tended'
<1> DEFINE c == [client EXCEPT !.liveness = FALSE]
<1>1. /\ Shapes /\ sockets \in [Ids -> Socket] /\ client \in Client /\ UNCHANGED <<wanted, used>>
  BY DEF LivenessFires, Tended, Shapes
<1>2. /\ c \in Client /\ c.reconnect = client.reconnect /\ c.ws = client.ws
      /\ c.state = client.state
  BY <1>1 DEF Client
<1>3. CASE client.state = "connected" /\ client.ws # 0
  <2>1. sockets' = [sockets EXCEPT ![client.ws] = Gone] /\ client' = Reconnecting(c)
    BY <1>3 DEF LivenessFires
  <2> HIDE DEF c
  <2>2. /\ sockets' \in [Ids -> Socket]
        /\ \A r \in Ids : sockets'[r].phase = "connecting" => sockets'[r] = New
    BY <1>1, <2>1 DEF Shapes, Socket, Phases, Gone
  <2>3. used' \in [faults : 0..MaxFaults, controls : Nat] /\ UNCHANGED wanted
    BY <1>1 DEF Shapes
  <2> QED BY <1>2, <1>3, <2>1, <2>2, <2>3, GivesUp
<1>4. CASE ~(client.state = "connected" /\ client.ws # 0)
  <2>1. client' = c /\ UNCHANGED sockets BY <1>4 DEF LivenessFires
  <2> HIDE DEF c
  <2>2. ~IsOpen(client.ws) BY <1>4, IdsFacts DEF Tended, InUse, IsOpen
  <2> QED BY <1>1, <1>2, <2>1, <2>2 DEF Tended, Shapes, OneTimer, InUse, IsOpen
<1> QED BY <1>3, <1>4

LEMMA ReconnectTended == ASSUME Tended, ReconnectFires PROVE Tended'
<1> DEFINE c == [client EXCEPT !.reconnect = @ - 1]
<1>1. client.reconnect = 1 /\ client \in Client /\ UNCHANGED <<wanted, used>>
  BY DEF Tended, Shapes, OneTimer, ReconnectFires
<1>2. c \in Client /\ c.reconnect = 0 BY <1>1 DEF Client
<1>3. Connect(c) BY DEF ReconnectFires
<1> HIDE DEF c
<1>4. wanted' \subseteq Tokens /\ used' \in [faults : 0..MaxFaults, controls : Nat]
  BY <1>1 DEF Tended, Shapes
<1> QED BY <1>2, <1>3, <1>4, ConnectTended

\* Traffic, and silence.
LEMMA TrafficTended ==
  ASSUME Tended, NEW s \in Ids, Message(s) \/ Silenced(s) PROVE Tended'
<1>1. Shapes /\ OneTimer /\ InUse /\ sockets \in [Ids -> Socket] /\ client \in Client
  BY DEF Tended, Shapes
<1>2. CASE Message(s)
  <2>1. /\ UNCHANGED <<sockets, wanted, used>> /\ client' \in Client
        /\ client'.liveness /\ client'.pinging = client.pinging /\ client'.ws = client.ws
        /\ client'.state = client.state /\ client'.reconnect = client.reconnect
    BY <1>1, <1>2 DEF Message, Client
  <2> QED BY <1>1, <2>1 DEF Tended, Shapes, OneTimer, InUse, IsOpen
<1>3. CASE Silenced(s)
  <2>1. /\ UNCHANGED <<client, wanted>> /\ sockets' \in [Ids -> Socket]
        /\ sockets[s].phase = "open"
        /\ \A r \in Ids : /\ sockets'[r].phase = sockets[r].phase
                          /\ sockets'[r].told = sockets[r].told
                          /\ r # s => sockets'[r] = sockets[r]
        /\ used' \in [faults : 0..MaxFaults, controls : Nat]
    <3>1. sockets' = [sockets EXCEPT ![s].alive = FALSE] /\ sockets[s].phase = "open" /\ Fault
      BY <1>3 DEF Silenced, IsOpen
    <3>2. used' \in [faults : 0..MaxFaults, controls : Nat]
      BY <1>1, <3>1, IdsFacts DEF Fault, Shapes
    <3>3. /\ sockets' \in [Ids -> Socket]
          /\ \A r \in Ids : /\ sockets'[r].phase = sockets[r].phase
                            /\ sockets'[r].told = sockets[r].told
                            /\ r # s => sockets'[r] = sockets[r]
      <4> DEFINE new == [sockets[s] EXCEPT !.alive = FALSE]
      <4>1. /\ sockets[s] \in Socket /\ new \in Socket
            /\ new.phase = sockets[s].phase /\ new.told = sockets[s].told
        BY <1>1 DEF Shapes, Socket
      <4>2. sockets' = [sockets EXCEPT ![s] = new] BY <3>1
      <4> HIDE DEF new
      <4> QED BY <1>1, <4>1, <4>2 DEF Shapes
    <3> QED BY <1>3, <3>1, <3>2, <3>3 DEF Silenced
  <2> QED BY <1>1, <2>1, IdsFacts DEF Tended, Shapes, OneTimer, InUse, IsOpen, Client
<1> QED BY <1>2, <1>3

LEMMA NextTended == ASSUME Tended, [Next]_vars PROVE Tended'
<1>1. CASE UNCHANGED vars
  BY <1>1 DEF vars, Tended, Shapes, OneTimer, InUse, IsOpen
<1>2. CASE Next
  BY <1>2, ControlTended, OpensTended, LossTended, LivenessTended, ReconnectTended, TrafficTended
  DEF Next, SocketEvent
<1> QED BY <1>1, <1>2

\* The handlers act on the client whatever socket they belong to: still, the socket in
\* use has been told exactly what is wanted now.
THEOREM SocketIsTold == Spec => []ToldWhatIsWanted
<1>1. Tended => ToldWhatIsWanted BY DEF Tended, InUse, ToldWhatIsWanted
<1> QED BY <1>1, InitTended, NextTended, PTL DEF Spec

\* The watchdog and the ping timer are one per client, and any socket's end stops both:
\* still, both run whenever a socket is in use.
THEOREM SocketIsWatched == Spec => []WatchdogArmed
<1>1. Tended => WatchdogArmed BY DEF Tended, InUse, WatchdogArmed
<1> QED BY <1>1, InitTended, NextTended, PTL DEF Spec

-----------------------------------------------------------------------------
(* The sockets cast off: a fault adds one at most, and the end of one casts  *)
(* another off at most.                                                      *)

\* Finite sets, and one member in the place of another.
LEMMA OneForAnother ==
  ASSUME NEW S, IsFiniteSet(S), NEW T, NEW x, NEW s
  PROVE  /\ T \subseteq S => Cardinality(T) <= Cardinality(S)
         /\ T \subseteq S \cup {x} => Cardinality(T) <= Cardinality(S) + 1
         /\ T \subseteq (S \ {s}) \cup {x} /\ s \in S => Cardinality(T) <= Cardinality(S)
<1>1. T \subseteq S => Cardinality(T) <= Cardinality(S) BY FS_Subset
<1>2. Cardinality(S) \in Nat BY FS_CardinalityType
<1>3. ASSUME NEW R, IsFiniteSet(R), T \subseteq R \cup {x}
      PROVE  Cardinality(T) <= Cardinality(R) + 1
  <2>1. IsFiniteSet(R \cup {x}) /\ Cardinality(R \cup {x}) <= Cardinality(R) + 1
    <3>1. Cardinality(R) \in Nat BY <1>3, FS_CardinalityType
    <3>2. /\ IsFiniteSet(R \cup {x})
          /\ Cardinality(R \cup {x}) = IF x \in R THEN Cardinality(R) ELSE Cardinality(R) + 1
      BY <1>3, FS_AddElement
    <3> QED BY <3>1, <3>2
  <2>2. Cardinality(T) <= Cardinality(R \cup {x}) /\ IsFiniteSet(T) BY <2>1, <1>3, FS_Subset
  <2>3. Cardinality(T) \in Nat /\ Cardinality(R) \in Nat /\ Cardinality(R \cup {x}) \in Nat
    BY <1>3, <2>1, <2>2, FS_CardinalityType
  <2> QED BY <2>1, <2>2, <2>3
<1>4. ASSUME s \in S
      PROVE  IsFiniteSet(S \ {s}) /\ Cardinality(S \ {s}) + 1 = Cardinality(S)
  <2>1. IsFiniteSet(S \ {s}) /\ Cardinality(S \ {s}) = Cardinality(S) - 1
    BY <1>4, FS_RemoveElement
  <2> QED BY <2>1, <1>2
<1>5. T \subseteq S \cup {x} => Cardinality(T) <= Cardinality(S) + 1 BY <1>3
<1>6. T \subseteq (S \ {s}) \cup {x} /\ s \in S => Cardinality(T) <= Cardinality(S)
  BY <1>3, <1>4
<1> QED BY <1>1, <1>5, <1>6

CastOffFinite == IsFiniteSet(CastOff) /\ Cardinality(CastOff) \in Nat

LEMMA CastOffIsFinite == CastOffFinite
<1>1. CastOff \in SUBSET Ids BY DEF CastOff
<1> QED BY <1>1, IdsFacts, FS_Subset, FS_CardinalityType DEF CastOffFinite

LEMMA CastOffStaysFinite == CastOffFinite'
<1>1. CastOff' \in SUBSET Ids BY DEF CastOff
<1> QED BY <1>1, IdsFacts, FS_Subset, FS_CardinalityType DEF CastOffFinite

\* No step casts a socket off but for a fault, or in the place of one that has ended.
Kept == used'.faults = used.faults /\ CastOff' \subseteq CastOff
Faulted == used'.faults = used.faults + 1 /\ CastOff' \subseteq CastOff \cup {client.ws}
HandedOn ==
  /\ used'.faults = used.faults
  /\ \E s \in CastOff : CastOff' \subseteq (CastOff \ {s}) \cup {client.ws}
FaultedAlone == used'.faults = used.faults + 1 /\ CastOff' \subseteq CastOff

\* A late close is of a socket cast off, and so is a drop: the one in use is pinged.
LEMMA LateEnd == ASSUME Tended, NEW s \in Ids, Closed(s) \/ Dropped(s) PROVE s \in CastOff
<1>1. CASE Closed(s)
  <2>1. sockets[s].phase = "closing" BY <1>1 DEF Closed
  <2>2. s # client.ws BY <2>1, IdsFacts DEF Tended, InUse
  <2> QED BY <2>1, <2>2 DEF CastOff
<1>2. CASE Dropped(s)
  <2>1. sockets[s].phase = "open" /\ ~Pinged(s) /\ IsOpen(s) BY <1>2 DEF Dropped, IsOpen
  <2>2. s # client.ws BY <2>1 DEF Pinged, Tended, InUse
  <2> QED BY <2>1, <2>2 DEF CastOff
<1> QED BY <1>1, <1>2

\* A subscription that opens no socket changes what the one in use is told, no more.
LEMMA AsksQuietly ==
  ASSUME Tended, NEW ts \in SUBSET Tokens, Subscribe(ts) \/ Unsubscribe(ts),
         ~(Subscribe(ts) /\ client.state = "idle")
  PROVE  /\ UNCHANGED client
         /\ \A s \in Ids : /\ sockets'[s].phase = sockets[s].phase
                           /\ sockets'[s].alive = sockets[s].alive
<1>1. sockets \in [Ids -> Socket] /\ client \in Client /\ wanted \in SUBSET Tokens
  BY DEF Tended, Shapes
<1>2. /\ UNCHANGED client
      /\ \/ sockets' = sockets
         \/ \E added, removed \in SUBSET Tokens : sockets' = Sent(sockets, added, removed)
  <2>1. /\ {} \in SUBSET Tokens /\ ts \ wanted \in SUBSET Tokens
        /\ ts \cap wanted \in SUBSET Tokens
    OBVIOUS
  <2> QED BY <2>1 DEF Subscribe, Unsubscribe
<1>3. ASSUME NEW added \in SUBSET Tokens, NEW removed \in SUBSET Tokens,
             sockets' = Sent(sockets, added, removed)
      PROVE  \A s \in Ids : /\ sockets'[s].phase = sockets[s].phase
                             /\ sockets'[s].alive = sockets[s].alive
  <2>1. Told(Sent(sockets, added, removed), sockets, added, removed) BY <1>1, SentTells
  <2> QED BY <1>3, <2>1 DEF Told
<1> QED BY <1>2, <1>3

\* A socket in use that ends, or one cast off.
LEMMA LossCasts ==
  ASSUME Tended, NEW s \in Ids,
         Refused(s) \/ Breaks(s) \/ Closed(s) \/ ServerCloses(s) \/ Dropped(s)
  PROVE  Faulted \/ HandedOn
<1>1. /\ sockets \in [Ids -> Socket] /\ client.state # "idle" /\ used \in [faults : 0..MaxFaults, controls : Nat]
      /\ client \in Client
  BY DEF Tended, Shapes, Refused, Breaks, Closed, ServerCloses, Dropped, IsOpen
<1>2. client'.ws = 0
  BY <1>1, GivenUp DEF Refused, Breaks, Closed, ServerCloses, Dropped, Ends
<1>3. \A r \in Ids : r # s => sockets'[r] = sockets[r]
  BY <1>1 DEF Refused, Breaks, Closed, ServerCloses, Dropped, Ends
<1>4. CASE Fault
  <2>1. used'.faults = used.faults + 1 BY <1>1, <1>4, IdsFacts DEF Fault
  <2>2. CastOff' \subseteq CastOff \cup {client.ws}
    <3>1. sockets[s].phase # "gone" BY DEF Refused, Breaks, Closed, ServerCloses, Dropped, IsOpen
    <3> QED BY <1>3, <3>1 DEF CastOff
  <2> QED BY <2>1, <2>2 DEF Faulted
<1>5. CASE Closed(s) \/ Dropped(s)
  <2>1. s \in CastOff BY <1>5, LateEnd
  <2>2. sockets'[s].phase = "gone" /\ used' = used
    BY <1>1, <1>5 DEF Closed, Dropped, Ends, Gone
  <2>3. CastOff' \subseteq (CastOff \ {s}) \cup {client.ws}
    BY <1>3, <2>2 DEF CastOff
  <2> QED BY <2>1, <2>2, <2>3 DEF HandedOn
<1> QED BY <1>4, <1>5 DEF Refused, Breaks, ServerCloses

\* A new socket is in use, and the rest are what they were.
LEMMA ConnectCasts ==
  ASSUME Tended, NEW c \in Client, client.ws = 0, Connect(c)
  PROVE  CastOff' \subseteq CastOff
<1>1. PICK s \in Ids : /\ sockets' = [sockets EXCEPT ![s] = New]
                       /\ client' = [c EXCEPT !.state = "connecting", !.ws = s]
  BY DEF Connect
<1>2. client'.ws = s BY <1>1 DEF Client
<1>3. \A r \in Ids : r # s => sockets'[r] = sockets[r] BY <1>1 DEF Tended, Shapes
<1> QED BY <1>2, <1>3, IdsFacts DEF CastOff

LEMMA StepCasts == ASSUME Tended, [Next]_vars PROVE Kept \/ Faulted \/ HandedOn \/ FaultedAlone
<1>1. /\ sockets \in [Ids -> Socket] /\ client \in Client /\ wanted \in SUBSET Tokens
      /\ used \in [faults : 0..MaxFaults, controls : Nat]
  BY DEF Tended, Shapes
<1>2. ASSUME client'.ws = client.ws, used'.faults = used.faults,
             \A s \in Ids : sockets'[s].phase = "gone" <=> sockets[s].phase = "gone"
      PROVE  Kept
  BY <1>2 DEF Kept, CastOff
<1>3. ASSUME NEW ts \in SUBSET Tokens, Subscribe(ts) \/ Unsubscribe(ts) PROVE Kept
  <2>1. used'.faults = used.faults BY <1>1, <1>3 DEF Subscribe, Unsubscribe, Control
  <2>2. CASE Subscribe(ts) /\ client.state = "idle"
    <3>1. Connect(client) /\ client.ws = 0 BY <2>2 DEF Subscribe, Tended, Shapes
    <3> QED BY <1>1, <2>1, <3>1, ConnectCasts DEF Kept
  <2>3. CASE ~(Subscribe(ts) /\ client.state = "idle")
    <3>1. /\ UNCHANGED client
          /\ \A s \in Ids : sockets'[s].phase = sockets[s].phase
      BY <1>3, <2>3, AsksQuietly
    <3> QED BY <1>2, <2>1, <3>1
  <2> QED BY <2>2, <2>3
<1>4. ASSUME NEW s \in Ids, Opens(s) PROVE Kept
  <2> DEFINE opened == [sockets EXCEPT ![s].phase = "open"]
  <2>1. /\ opened \in [Ids -> Socket] /\ sockets[s].phase = "connecting"
        /\ \A r \in Ids : opened[r].phase = IF r = s THEN "open" ELSE sockets[r].phase
    BY <1>1, <1>4 DEF Opens, Socket, Phases
  <2> HIDE DEF opened
  <2>2. Told(Sent(opened, wanted, {}), opened, wanted, {})
    <3>1. {} \in SUBSET Tokens OBVIOUS
    <3> QED BY <1>1, <2>1, <3>1, SentTells
  <2>3. \A r \in Ids : sockets'[r].phase = opened[r].phase
    BY <1>4, <2>2 DEF Told, Opens, Initial, opened
  <2>4. client'.ws = client.ws /\ used' = used
    BY <1>1, <1>4 DEF Opens, Watched, Client
  <2> QED BY <1>2, <2>1, <2>3, <2>4
<1>5. ASSUME NEW s \in Ids, Message(s) PROVE Kept
  BY <1>1, <1>2, <1>5 DEF Message, Client
<1>6. ASSUME NEW s \in Ids, Silenced(s) PROVE FaultedAlone
  <2>1. used'.faults = used.faults + 1 /\ UNCHANGED client
    BY <1>1, <1>6, IdsFacts DEF Silenced, Fault
  <2>2. \A r \in Ids : sockets'[r].phase = sockets[r].phase
    BY <1>1, <1>6 DEF Silenced, Socket
  <2> QED BY <2>1, <2>2 DEF FaultedAlone, CastOff
<1>7. ASSUME LivenessFires PROVE Kept
  <2> DEFINE c == [client EXCEPT !.liveness = FALSE]
  <2>1. c \in Client /\ c.reconnect = client.reconnect /\ c.ws = client.ws /\ c.state = client.state
    BY <1>1 DEF Client
  <2>2. used' = used BY <1>7 DEF LivenessFires
  <2>3. CASE client.state = "connected" /\ client.ws # 0
    <3>1. sockets' = [sockets EXCEPT ![client.ws] = Gone] /\ client' = Reconnecting(c)
      BY <1>7, <2>3 DEF LivenessFires
    <3> HIDE DEF c
    <3>2. client'.ws = 0 BY <2>1, <2>3, <3>1, GivenUp
    <3>3. client.ws \in Ids BY <1>1, <2>3, IdsFacts DEF Client
    <3>4. sockets'[client.ws].phase = "gone" /\ \A r \in Ids : r # client.ws => sockets'[r] = sockets[r]
      BY <1>1, <3>1, <3>3 DEF Gone
    <3> QED BY <2>2, <3>2, <3>4 DEF Kept, CastOff
  <2>4. CASE ~(client.state = "connected" /\ client.ws # 0)
    BY <1>2, <1>7, <2>1, <2>2, <2>4 DEF LivenessFires
  <2> QED BY <2>3, <2>4
<1>8. ASSUME ReconnectFires PROVE Kept
  <2> DEFINE c == [client EXCEPT !.reconnect = @ - 1]
  <2>1. client.reconnect = 1 /\ client.ws = 0 /\ used' = used
    BY <1>8 DEF Tended, Shapes, OneTimer, ReconnectFires, Client
  <2>2. c \in Client BY <1>1, <2>1 DEF Client
  <2>3. Connect(c) BY <1>8 DEF ReconnectFires
  <2> HIDE DEF c
  <2> QED BY <2>1, <2>2, <2>3, ConnectCasts DEF Kept
<1>9. CASE UNCHANGED vars BY <1>2, <1>9 DEF vars
<1> QED BY <1>3, <1>4, <1>5, <1>6, <1>7, <1>8, <1>9, LossCasts DEF Next, SocketEvent

\* What a step adds to the sockets cast off, it has used up as many faults for.
CastOffIsPaid == Cardinality(CastOff') + used.faults <= Cardinality(CastOff) + used'.faults

LEMMA StepPays == ASSUME Tended, [Next]_vars PROVE CastOffIsPaid
<1>1. IsFiniteSet(CastOff) /\ Cardinality(CastOff) \in Nat /\ Cardinality(CastOff') \in Nat
  BY CastOffIsFinite, CastOffStaysFinite DEF CastOffFinite
<1>2. used.faults \in Nat BY IdsFacts DEF Tended, Shapes
<1>3. \/ used'.faults = used.faults /\ Cardinality(CastOff') <= Cardinality(CastOff)
      \/ used'.faults = used.faults + 1 /\ Cardinality(CastOff') <= Cardinality(CastOff) + 1
  <2>1. Kept \/ Faulted \/ HandedOn \/ FaultedAlone BY StepCasts
  <2>2. Kept => Cardinality(CastOff') <= Cardinality(CastOff)
    BY <1>1, OneForAnother DEF Kept
  <2>3. Faulted => Cardinality(CastOff') <= Cardinality(CastOff) + 1
    BY <1>1, OneForAnother DEF Faulted
  <2>4. HandedOn => Cardinality(CastOff') <= Cardinality(CastOff)
    BY <1>1, OneForAnother DEF HandedOn
  <2>5. FaultedAlone => Cardinality(CastOff') <= Cardinality(CastOff)
    BY <1>1, OneForAnother DEF FaultedAlone
  <2> QED BY <1>1, <2>1, <2>2, <2>3, <2>4, <2>5 DEF Kept, Faulted, HandedOn, FaultedAlone
<1> QED BY <1>1, <1>2, <1>3 DEF CastOffIsPaid

FewCastOff == Cardinality(CastOff) <= used.faults

LEMMA InitFew == Init => FewCastOff
<1> SUFFICES ASSUME Init PROVE FewCastOff OBVIOUS
<1>1. CastOff = {} BY DEF Init, CastOff, Gone
<1> QED BY <1>1, FS_EmptySet DEF Init, FewCastOff

LEMMA StaysFew == ASSUME Tended, FewCastOff, [Next]_vars PROVE FewCastOff'
<1>1. Tended' BY NextTended
<1>2. CastOffIsPaid BY StepPays
<1>3. used.faults \in Nat /\ used'.faults \in Nat BY <1>1, IdsFacts DEF Tended, Shapes
<1>4. Cardinality(CastOff) \in Nat /\ Cardinality(CastOff') \in Nat
  BY CastOffIsFinite, CastOffStaysFinite DEF CastOffFinite
<1> QED BY <1>2, <1>3, <1>4 DEF CastOffIsPaid, FewCastOff

\* The types; one reconnect is scheduled, and only while there is no socket in use; and
\* never more sockets cast off than faults, whatever their late ends cast off.
THEOREM TypeCorrect == Spec => []TypeOK
<1>1. Tended /\ FewCastOff => TypeOK
  BY DEF Tended, Shapes, OneTimer, FewCastOff, TypeOK, Socket, Client
<1> QED BY <1>1, InitTended, NextTended, InitFew, StaysFew, PTL DEF Spec

\* The sockets cast off are handed on and never multiplied: only a fault adds one, and the
\* late close or the drop of one leaves another in its place at most.
THEOREM OnlyFaultsCastOff == Spec => [][CastOffIsPaid]_vars
<1>1. Tended /\ [Next]_vars => [CastOffIsPaid]_vars BY StepPays
<1> QED BY <1>1, InitTended, NextTended, PTL DEF Spec

-----------------------------------------------------------------------------
(* Recovery, but for the fairness: how far the next healthy socket is, which *)
(* steps bring it nearer, and what alone can set it back.                    *)

\* The steps to a healthy socket in use: none, its handshake, the reconnect before that,
\* the watchdog that finds it dead before that.
Distance ==
  CASE client.ws = 0 -> 2
    [] client.ws # 0 /\ sockets[client.ws].phase = "connecting" -> 1
    [] client.ws # 0 /\ sockets[client.ws].phase # "connecting" /\ sockets[client.ws].alive -> 0
    [] OTHER -> 3

DistanceTable ==
  /\ client.ws = 0 => Distance = 2
  /\ client.ws # 0 /\ sockets[client.ws].phase = "connecting" => Distance = 1
  /\ client.ws # 0 /\ sockets[client.ws].phase = "open" /\ sockets[client.ws].alive => Distance = 0
  /\ client.ws # 0 /\ sockets[client.ws].phase = "open" /\ ~sockets[client.ws].alive => Distance = 3
  /\ Distance \in 0..3

LEMMA DistanceValues == DistanceTable
BY DEF DistanceTable, Distance

LEMMA DistanceValuesAfter == DistanceTable'
BY DistanceValues, PTL

\* The late end of a socket that was cast off, and the watchdog that runs out on the
\* handshake of the next: only one that was cast off can have started it.
LateEvent ==
  \/ \E s \in CastOff : sockets'[s].phase = "gone"
  \/ LivenessFires /\ ~IsOpen(client.ws)

SetBackOnlyByOthers ==
  /\ \/ ReconnectFires
     \/ client.ws # 0 /\ Opens(client.ws)
     \/ LivenessFires /\ IsOpen(client.ws)
     => Distance' < Distance
  /\ Distance' > Distance => used'.faults > used.faults \/ LateEvent

\* Every reconnect, every handshake of the socket in use and every watchdog that finds it
\* dead brings the next healthy socket nearer, whatever is subscribed meanwhile; only a
\* fault or an event that a socket cast off has caused sets it back.
THEOREM RecoveryDescends == Spec => [][SetBackOnlyByOthers]_vars
<1>1. ASSUME Tended, [Next]_vars PROVE [SetBackOnlyByOthers]_vars
  <2>1. /\ sockets \in [Ids -> Socket] /\ client \in Client /\ wanted \in SUBSET Tokens
        /\ used \in [faults : 0..MaxFaults, controls : Nat]
        /\ \A s \in Ids : sockets[s].phase = "connecting" => sockets[s] = New
        /\ client.ws # 0 => client.ws \in Ids
    BY <1>1, IdsFacts DEF Tended, Shapes, Client
  <2>2. DistanceTable /\ DistanceTable' BY DistanceValues, DistanceValuesAfter
  <2>3. Distance \in 0..3 /\ Distance' \in 0..3 BY <2>2 DEF DistanceTable
  <2>4. ASSUME client'.ws = client.ws,
               client.ws # 0 => /\ sockets'[client.ws].phase = sockets[client.ws].phase
                                /\ sockets'[client.ws].alive = sockets[client.ws].alive
        PROVE  Distance' = Distance
    BY <1>1, <2>2, <2>4 DEF DistanceTable, Tended, InUse
  <2>5. ASSUME NEW c \in Client, client.ws = 0, Connect(c) PROVE Distance' < Distance
    <3>1. PICK s \in Ids : /\ sockets' = [sockets EXCEPT ![s] = New]
                           /\ client' = [c EXCEPT !.state = "connecting", !.ws = s]
      BY <2>5 DEF Connect
    <3>2. client'.ws = s /\ s # 0 /\ sockets'[s].phase = "connecting"
      BY <2>1, <3>1, IdsFacts DEF Client, New
    <3>3. Distance = 2 /\ Distance' = 1 BY <2>2, <2>5, <3>2 DEF DistanceTable
    <3> QED BY <3>3
  <2>6. ASSUME ReconnectFires PROVE Distance' < Distance
    <3> DEFINE c == [client EXCEPT !.reconnect = @ - 1]
    <3>1. client.reconnect = 1 /\ client.ws = 0
      BY <1>1, <2>6 DEF Tended, Shapes, OneTimer, ReconnectFires, Client
    <3>2. c \in Client BY <2>1, <3>1 DEF Client
    <3>3. Connect(c) BY <2>6 DEF ReconnectFires
    <3> HIDE DEF c
    <3> QED BY <2>5, <3>1, <3>2, <3>3
  <2>7. ASSUME NEW s \in Ids, Opens(s)
        PROVE  IF s = client.ws THEN Distance' < Distance ELSE Distance' = Distance
    <3> DEFINE opened == [sockets EXCEPT ![s].phase = "open"]
    <3>1. /\ opened \in [Ids -> Socket] /\ sockets[s].phase = "connecting" /\ sockets[s].alive
          /\ \A r \in Ids : /\ opened[r].phase = IF r = s THEN "open" ELSE sockets[r].phase
                            /\ opened[r].alive = sockets[r].alive
      BY <2>1, <2>7 DEF Opens, Socket, Phases, New
    <3> HIDE DEF opened
    <3>2. Told(Sent(opened, wanted, {}), opened, wanted, {})
      <4>1. {} \in SUBSET Tokens OBVIOUS
      <4> QED BY <2>1, <3>1, <4>1, SentTells
    <3>3. \A r \in Ids : sockets'[r].phase = opened[r].phase /\ sockets'[r].alive = opened[r].alive
      BY <2>7, <3>2 DEF Told, Opens, Initial, opened
    <3>4. client'.ws = client.ws BY <2>1, <2>7 DEF Opens, Watched, Client
    <3>5. CASE s = client.ws
      <4>1. Distance = 1 /\ Distance' = 0
        BY <2>2, <3>1, <3>3, <3>4, <3>5, IdsFacts DEF DistanceTable
      <4> QED BY <3>5, <4>1
    <3>6. CASE s # client.ws
      BY <2>1, <2>4, <3>1, <3>3, <3>4, <3>6
    <3> QED BY <3>5, <3>6
  <2>8. ASSUME LivenessFires
        PROVE  /\ IsOpen(client.ws) => Distance' < Distance
               /\ Distance' > Distance => ~IsOpen(client.ws)
    <3> DEFINE c == [client EXCEPT !.liveness = FALSE]
    <3>1. /\ c \in Client /\ c.reconnect = client.reconnect /\ c.ws = client.ws
          /\ c.state = client.state
      BY <2>1 DEF Client
    <3>2. CASE client.state = "connected" /\ client.ws # 0
      <4>1. client' = Reconnecting(c) BY <2>8, <3>2 DEF LivenessFires
      <4> HIDE DEF c
      <4>2. client'.ws = 0 BY <1>1, <3>1, <3>2, <4>1, GivenUp
      <4>3. Distance' = 2 BY <2>2, <4>2 DEF DistanceTable
      <4>4. IsOpen(client.ws) => Distance = 3
        BY <2>2, <2>8, <3>2 DEF LivenessFires, Healthy, IsOpen, DistanceTable
      <4> QED BY <2>3, <4>3, <4>4
    <3>3. CASE ~(client.state = "connected" /\ client.ws # 0)
      <4>1. UNCHANGED sockets /\ client' = c BY <2>8, <3>3 DEF LivenessFires
      <4> HIDE DEF c
      <4>2. Distance' = Distance BY <2>4, <3>1, <4>1
      <4>3. ~IsOpen(client.ws) BY <1>1, <3>3, IdsFacts DEF Tended, InUse, IsOpen
      <4> QED BY <4>2, <4>3, <2>3
    <3> QED BY <3>2, <3>3
  <2>9. ASSUME NEW s \in Ids,
               Refused(s) \/ Breaks(s) \/ Closed(s) \/ ServerCloses(s) \/ Dropped(s)
        PROVE  used'.faults > used.faults \/ \E r \in CastOff : sockets'[r].phase = "gone"
    <3>1. CASE Fault BY <2>1, <3>1, IdsFacts DEF Fault
    <3>2. CASE Closed(s) \/ Dropped(s)
      <4>1. sockets'[s].phase = "gone" BY <2>1, <3>2 DEF Closed, Dropped, Ends, Gone
      <4>2. s \in CastOff BY <1>1, <3>2, LateEnd
      <4> QED BY <4>1, <4>2
    <3> QED BY <2>9, <3>1, <3>2 DEF Refused, Breaks, ServerCloses
  <2>10. ASSUME NEW s \in Ids, Silenced(s) PROVE used'.faults > used.faults
    BY <2>1, <2>10, IdsFacts DEF Silenced, Fault
  <2>11. ASSUME NEW s \in Ids, Message(s) PROVE Distance' = Distance
    BY <2>1, <2>4, <2>11 DEF Message, Client
  <2>12. ASSUME NEW ts \in SUBSET Tokens, Subscribe(ts) \/ Unsubscribe(ts)
         PROVE  Distance' < Distance \/ Distance' = Distance
    <3>1. CASE Subscribe(ts) /\ client.state = "idle"
      BY <1>1, <2>1, <2>5, <3>1 DEF Subscribe, Tended, Shapes
    <3>2. CASE ~(Subscribe(ts) /\ client.state = "idle")
      BY <1>1, <2>1, <2>4, <2>12, <3>2, AsksQuietly
    <3> QED BY <3>1, <3>2
  <2>13. CASE UNCHANGED vars BY <2>13 DEF vars
  <2>14. CASE Next
    <3>1. \/ ReconnectFires
          \/ client.ws # 0 /\ Opens(client.ws)
          \/ LivenessFires /\ IsOpen(client.ws)
          => Distance' < Distance
      BY <2>1, <2>6, <2>7, <2>8
    <3>2. Distance' > Distance => used'.faults > used.faults \/ LateEvent
      BY <2>3, <2>6, <2>7, <2>8, <2>9, <2>10, <2>11, <2>12, <2>14
      DEF Next, SocketEvent, LateEvent
    <3> QED BY <3>1, <3>2 DEF SetBackOnlyByOthers
  <2> QED BY <1>1, <2>13, <2>14
<1> QED BY <1>1, InitTended, NextTended, PTL DEF Spec

\* A client whose recovery is over has a healthy socket that was told what is wanted.
WellAtRest ==
  client.state # "idle" /\ Distance = 0
    => Healthy /\ client.state = "connected" /\ sockets[client.ws].told = wanted

\* While it is not over, the reconnect is due and has an id to take, the handshake of the
\* socket in use is under way, or its watchdog runs: nobody waits for anybody else.
NeverStuck ==
  client.state # "idle" /\ Distance # 0
    => \/ client.reconnect > 0 /\ \E s \in Ids : sockets[s].phase = "gone"
       \/ client.ws \in Ids /\ sockets[client.ws].phase = "connecting"
       \/ client.liveness /\ IsOpen(client.ws) /\ ~Healthy

THEOREM RecoveryEnds == Spec => [](WellAtRest /\ NeverStuck)
<1>1. ASSUME Tended PROVE WellAtRest
  BY <1>1, IdsFacts DEF Tended, Shapes, Client, OneTimer, InUse, IsOpen, Healthy, Distance, WellAtRest
<1>2. ASSUME Tended, FewCastOff PROVE NeverStuck
  <2>1. CASE client.ws = 0 /\ client.state # "idle"
    <3>1. client.reconnect = 1 BY <1>2, <2>1 DEF Tended, OneTimer
    <3>2. \E s \in Ids : sockets[s].phase = "gone"
      <4> SUFFICES ASSUME \A s \in Ids : sockets[s].phase # "gone" PROVE FALSE OBVIOUS
      <4>1. CastOff = Ids BY <2>1, IdsFacts DEF CastOff
      <4>2. used.faults \in Nat /\ used.faults <= MaxFaults
        BY <1>2, IdsFacts DEF Tended, Shapes
      <4> QED BY <1>2, <4>1, <4>2, IdsFacts DEF FewCastOff
    <3> QED BY <3>1, <3>2 DEF NeverStuck
  <2>2. CASE client.ws # 0
    BY <1>2, <2>2, IdsFacts
    DEF Tended, Shapes, Client, InUse, IsOpen, Healthy, Distance, NeverStuck
  <2> QED BY <2>1, <2>2 DEF NeverStuck
<1> QED BY <1>1, <1>2, InitTended, NextTended, InitFew, StaysFew, PTL DEF Spec
=============================================================================
