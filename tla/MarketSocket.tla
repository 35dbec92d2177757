---------------------------- MODULE MarketSocket ----------------------------
(****************************************************************************)
(* The market-channel WebSocket client: its sockets, the set of tokens it   *)
(* has been asked for, the timers that watch a socket and open the next.    *)
(* The handlers are bound to the client and not to their socket, so events  *)
(* of a socket that was cast off, given up but not closed, still act on its *)
(* successor's state.  Only this.ws is pinged, and a server drops a socket  *)
(* that is not.  The messages' contents and close(), which ends the         *)
(* process's use of the client, are left out.                               *)
(****************************************************************************)
EXTENDS Naturals, FiniteSets

CONSTANTS
  Tokens,
  MaxFaults,    \* bound: sockets refused, broken, closed by the server or silenced
  MaxControls   \* bound: subscribes and unsubscribes

ASSUME SocketAssumption == MaxFaults \in Nat /\ MaxControls \in Nat

VARIABLES
  sockets,  \* the sockets; the id of one that is gone is used again
  client,   \* state, this.ws (0 is null), and the timers: reconnect counts them
  wanted,   \* subscribedIds
  used      \* faults and controls that have happened

vars == <<sockets, client, wanted, used>>

\* A fault leaves at most one socket cast off, so there is an id for the next.
Ids == 1..(MaxFaults + 1)

\* A closing socket has its close event still to come.
Phases == {"connecting", "open", "closing", "gone"}
New == [phase |-> "connecting", told |-> {}, alive |-> TRUE]
Gone == [phase |-> "gone", told |-> {}, alive |-> FALSE]

Init ==
  /\ sockets = [s \in Ids |-> Gone] /\ wanted = {}
  /\ client = [state |-> "idle", ws |-> 0, liveness |-> FALSE, pinging |-> FALSE,
               reconnect |-> 0]
  /\ used = [faults |-> 0, controls |-> 0]

IsOpen(s) == s \in Ids /\ sockets[s].phase = "open"
Fault == used.faults < MaxFaults /\ used' = [used EXCEPT !.faults = @ + 1]
Control == used.controls < MaxControls /\ used' = [used EXCEPT !.controls = @ + 1]

-----------------------------------------------------------------------------
(* The client's own functions.                                              *)

Connect(c) ==
  \E s \in Ids :
    /\ sockets[s].phase = "gone"
    /\ sockets' = [sockets EXCEPT ![s] = New]
    /\ client' = [c EXCEPT !.state = "connecting", !.ws = s]

StackedReconnect(c) ==
  [c EXCEPT !.state = "reconnecting", !.ws = 0, !.liveness = FALSE, !.pinging = FALSE,
            !.reconnect = @ + 1]
ReconnectingOnceOpen(c) ==
  IF c.reconnect > 0 \/ c.state = "connecting" THEN c ELSE StackedReconnect(c)
\* scheduleReconnect: one timer at a time.
Reconnecting(c) == IF c.reconnect > 0 THEN c ELSE StackedReconnect(c)

\* A frame goes out on this.ws, and only when that is open.
Sent(ss, added, removed) ==
  IF client.ws \in Ids /\ ss[client.ws].phase = "open"
  THEN [ss EXCEPT ![client.ws].told = (@ \cup added) \ removed] ELSE ss

-----------------------------------------------------------------------------
(* What the evaluator and the maker loop ask for.                           *)

Subscribe(ts) ==
  /\ Control
  /\ wanted' = wanted \cup ts
  /\ IF client.state = "idle" THEN Connect(client)
     ELSE /\ sockets' = IF client.state = "connected" THEN Sent(sockets, ts \ wanted, {})
                                                      ELSE sockets
          /\ UNCHANGED client

Unsubscribe(ts) ==
  /\ Control
  /\ wanted' = wanted \ ts
  /\ sockets' = IF client.state = "connected" THEN Sent(sockets, {}, ts \cap wanted) ELSE sockets
  /\ UNCHANGED client

-----------------------------------------------------------------------------
(* Events of a socket, this.ws or not.                                      *)

WatchedByTraffic(c) == [c EXCEPT !.state = "connected", !.pinging = TRUE]
Watched(c) == [c EXCEPT !.state = "connected", !.pinging = TRUE, !.liveness = TRUE]

ToldNothing(ss) == ss
\* sendInitialSubscribe, of the set as it is now.
Initial(ss) == Sent(ss, wanted, {})

Opens(s) ==
  /\ sockets[s].phase = "connecting"
  /\ sockets' = Initial([sockets EXCEPT ![s].phase = "open"])
  /\ client' = Watched(client)
  /\ UNCHANGED <<wanted, used>>

Message(s) ==
  /\ IsOpen(s) /\ sockets[s].alive
  /\ client' = [client EXCEPT !.liveness = TRUE]
  /\ UNCHANGED <<sockets, wanted, used>>

Ends(s) ==
  /\ sockets' = [sockets EXCEPT ![s] = Gone]
  /\ client' = Reconnecting(client)
  /\ UNCHANGED wanted

\* Error, and close at once.
Refused(s) == sockets[s].phase = "connecting" /\ Fault /\ Ends(s)

\* Error now, and close when the handshake is answered or has timed out.
Breaks(s) ==
  /\ IsOpen(s) /\ Fault
  /\ sockets' = [sockets EXCEPT ![s].phase = "closing"]
  /\ client' = Reconnecting(client)
  /\ UNCHANGED wanted

Closed(s) == sockets[s].phase = "closing" /\ Ends(s) /\ UNCHANGED used

\* The server may end any socket; one that it hears no ping from, it drops.
ServerCloses(s) == IsOpen(s) /\ Fault /\ Ends(s)

Pinged(s) == client.pinging /\ s = client.ws
Dropped(s) == IsOpen(s) /\ sockets[s].alive /\ ~Pinged(s) /\ Ends(s) /\ UNCHANGED used

\* The transport dies, and nobody says so.
Silenced(s) ==
  /\ IsOpen(s) /\ sockets[s].alive /\ Fault
  /\ sockets' = [sockets EXCEPT ![s].alive = FALSE]
  /\ UNCHANGED <<client, wanted>>

-----------------------------------------------------------------------------
(* Timers.  A socket that is alive and pinged has traffic within the        *)
(* threshold; the traffic of any socket starts the one watchdog again.      *)

Healthy == IsOpen(client.ws) /\ sockets[client.ws].alive
Silence == \A s \in Ids : ~(IsOpen(s) /\ sockets[s].alive)

\* terminate closes at once; its close event finds the reconnect scheduled.
LivenessFires ==
  /\ client.liveness /\ ~Healthy
  /\ IF client.state = "connected" /\ client.ws # 0
     THEN /\ sockets' = [sockets EXCEPT ![client.ws] = Gone]
          /\ client' = Reconnecting([client EXCEPT !.liveness = FALSE])
     ELSE client' = [client EXCEPT !.liveness = FALSE] /\ UNCHANGED sockets
  /\ UNCHANGED <<wanted, used>>

ReconnectFires ==
  /\ client.reconnect > 0
  /\ Connect([client EXCEPT !.reconnect = @ - 1])
  /\ UNCHANGED <<wanted, used>>

-----------------------------------------------------------------------------
SocketEvent(s) ==
  \/ Opens(s) \/ Message(s) \/ Refused(s) \/ Breaks(s) \/ Closed(s) \/ ServerCloses(s)
  \/ Dropped(s) \/ Silenced(s)

Next ==
  \/ \E ts \in SUBSET Tokens \ {{}} : Subscribe(ts) \/ Unsubscribe(ts)
  \/ \E s \in Ids : SocketEvent(s)
  \/ LivenessFires \/ ReconnectFires

Spec == Init /\ [][Next]_vars

\* The reconnect timer fires, and the watchdog once nothing restarts it.  A handshake
\* is answered, a closing one times out, a socket that is not pinged is dropped.  The
\* sockets cast off do not for ever end before the handshake of this.ws is answered.
FairSpec ==
  /\ Spec /\ WF_vars(ReconnectFires) /\ WF_vars(Silence /\ LivenessFires)
  /\ \A s \in Ids : WF_vars(Opens(s)) /\ WF_vars(Closed(s)) /\ WF_vars(Dropped(s))
  /\ SF_vars(client.ws # 0 /\ Opens(client.ws))
-----------------------------------------------------------------------------
\* A socket that was given up and has not ended.
CastOff == {s \in Ids : sockets[s].phase # "gone" /\ s # client.ws}

\* Types; at most one reconnect is scheduled, and none beside a socket in use; the
\* sockets cast off, whose late ends cast off others, never outnumber the faults.
TypeOK ==
  /\ sockets \in [Ids -> [phase : Phases, told : SUBSET Tokens, alive : BOOLEAN]]
  /\ client.state \in {"idle", "connecting", "connected", "reconnecting"}
  /\ client.ws \in 0..(MaxFaults + 1)
  /\ client.reconnect = (IF client.ws = 0 /\ client.state # "idle" THEN 1 ELSE 0)
  /\ Cardinality(CastOff) <= used.faults

\* The socket in use has been told exactly the tokens that are wanted, whatever was
\* subscribed while it connected and whichever socket opened last.
ToldWhatIsWanted == IsOpen(client.ws) => sockets[client.ws].told = wanted

\* A socket in use that dies in silence is noticed, and none is dropped for silence of
\* the client's: its watchdog is running, and it is pinged.
WatchdogArmed == IsOpen(client.ws) => client.liveness /\ client.pinging

\* Whatever the faults left behind, the client comes to a healthy socket that was told
\* what is wanted; it need not keep it, a socket cast off may end at any time.
FeedRecovers ==
  client.state # "idle"
    ~> Healthy /\ client.state = "connected" /\ sockets[client.ws].told = wanted
=============================================================================
