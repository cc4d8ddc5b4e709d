----------------------------- MODULE RelayClient -----------------------------
(***************************************************************************)
(* The uplink of a Reika Node: RelayClient                                 *)
(* (server/src/modules/uplink/relayClient.ts), the routes and the boot     *)
(* steps of main.ts that start and stop it, and, external, the WebSocket   *)
(* objects it makes.                                                       *)
(*                                                                         *)
(* The client is one object whose methods call each other, so each method  *)
(* is an operator from a state of the client to the next, and an action is *)
(* one event: a timer, an event of a socket, a request to the node.        *)
(* A timer may fire at any time once it is set.                            *)
(***************************************************************************)
EXTENDS Integers

CONSTANTS
  Sockets,        \* WebSocket objects, reused after their close event
  None,           \* "undefined"
  ReconnectMin,   \* reconnectMinMs
  ReconnectMax    \* reconnectMaxMs

ASSUME RelayClientAssumption ==
  /\ ReconnectMin \in Nat \ {0} /\ ReconnectMax \in Nat
  /\ ReconnectMin <= ReconnectMax
  /\ None \notin Sockets

VARIABLES
  client,     \* the fields of the RelayClient, and the sockets it has made
  booting,    \* "before" boot(), "pairing" while autoPairLocalRelay awaits the relay, "done"
  stopped     \* POST /uplink/disconnect was the last request to (dis)connect

vars == <<client, booting, stopped>>

----------------------------------------------------------------------------
(* The state of the client *)

ReadyState == {"unused", "connecting", "open", "closing", "closed"}

Frame == {"hello", "heartbeat", "snapshot", "response"}

\* relayUrl is "valid" if new WebSocket accepts it.  ready, failed and sent are
\* the socket's readyState, whether its error event is past, and the frames
\* that were sent on it.
Client == [enabled        : BOOLEAN,
           status         : {"disabled", "idle", "connecting", "connected", "disconnected", "error"},
           relayUrl       : {"valid", "malformed"},
           socket         : Sockets \cup {None},
           heartbeatTimer : BOOLEAN,
           reconnectTimer : BOOLEAN,
           watchdogTimer  : Sockets \cup {None},
           reconnectDelay : ReconnectMin..ReconnectMax,
           ready          : [Sockets -> ReadyState],
           failed         : [Sockets -> BOOLEAN],
           sent           : [Sockets -> SUBSET Frame]]

IsLive(c, s) == s # None /\ c.ready[s] \in {"connecting", "open"}

Init ==
  /\ \E enabled \in BOOLEAN, url \in {"valid", "malformed"} :
       client = [enabled        |-> enabled,
                 status         |-> IF enabled THEN "idle" ELSE "disabled",
                 relayUrl       |-> url,
                 socket         |-> None,
                 heartbeatTimer |-> FALSE,
                 reconnectTimer |-> FALSE,
                 watchdogTimer  |-> None,
                 reconnectDelay |-> ReconnectMin,
                 ready          |-> [s \in Sockets |-> "unused"],
                 failed         |-> [s \in Sockets |-> FALSE],
                 sent           |-> [s \in Sockets |-> {}]]
  /\ booting = "before"
  /\ stopped = FALSE

----------------------------------------------------------------------------
(* Methods *)

\* socket.close()
Close(c, s) == IF IsLive(c, s) THEN [c EXCEPT !.ready[s] = "closing"] ELSE c

Fail(c) == [c EXCEPT !.status = "error"]

\* The status once there is no socket.
WithoutSocket(c) ==
  [c EXCEPT !.socket = None, !.status = IF c.enabled THEN "disconnected" ELSE "disabled"]

ClearSocketTimers(c) == [c EXCEPT !.heartbeatTimer = FALSE, !.watchdogTimer = None]

DoubledDelay(d) == IF 2 * d <= ReconnectMax THEN 2 * d ELSE ReconnectMax

ScheduleReconnect(c) ==
  IF c.enabled THEN [c EXCEPT !.reconnectTimer = TRUE, !.reconnectDelay = DoubledDelay(@)]
  ELSE c

\* A failure of s, or of no socket in particular.  A live socket is closed, and
\* its close event schedules the reconnection.
HandleSocketFailure(c, s) ==
  LET failed == ClearSocketTimers(Fail(c))
      active == IF s # None THEN s ELSE c.socket
  IN  IF c.socket # None /\ s # None /\ c.socket # s THEN c
      ELSE IF IsLive(c, active) THEN Close(failed, active)
      ELSE ScheduleReconnect(IF c.socket = active THEN WithoutSocket(failed) ELSE failed)

BumpWatchdog(c, s) == IF c.socket = s /\ c.enabled THEN [c EXCEPT !.watchdogTimer = s] ELSE c

\* throws: socket.send throws.
Send(c, frame, throws) ==
  IF c.socket = None \/ c.ready[c.socket] # "open"
    THEN IF c.enabled /\ c.status = "connected" THEN HandleSocketFailure(c, c.socket) ELSE c
  ELSE IF throws THEN HandleSocketFailure(c, c.socket)
  ELSE BumpWatchdog([c EXCEPT !.sent[c.socket] = @ \cup {frame}], c.socket)

StartHeartbeatLoop(c, throws) ==
  [Send([c EXCEPT !.heartbeatTimer = FALSE], "heartbeat", throws) EXCEPT !.heartbeatTimer = TRUE]

\* Faulty: a client that is not enabled is not looked at, and no hello is sent.
OnOpen_NoHello(c, s, fails) ==
  IF c.socket # s THEN c
  ELSE StartHeartbeatLoop([c EXCEPT !.status = "connected", !.reconnectDelay = ReconnectMin],
                          fails = "heartbeat")

\* fails: the frame at which socket.send throws, if any.
OnOpen(c, s, fails) ==
  LET connected == [c EXCEPT !.status = "connected", !.reconnectDelay = ReconnectMin]
      looping   == StartHeartbeatLoop(connected, fails = "heartbeat")
      greeted   == Send(looping, "hello", fails = "hello")
  IN  IF c.socket # s THEN c
      ELSE IF ~c.enabled THEN Close(c, s)
      ELSE Send(greeted, "snapshot", fails = "snapshot")

\* Faulty: a failure that was reported is taken to have been handled.
OnClose_Reported(c, s) ==
  IF c.socket # s THEN c
  ELSE IF c.status = "error" THEN ClearSocketTimers(WithoutSocket(c))
  ELSE ScheduleReconnect(ClearSocketTimers(WithoutSocket(c)))

OnClose(c, s) ==
  IF c.socket # s THEN c ELSE ScheduleReconnect(ClearSocketTimers(WithoutSocket(c)))

\* s is the object that new WebSocket makes, unless the URL makes it throw.
Connect(c, s) ==
  LET connecting == [ClearSocketTimers(c) EXCEPT !.reconnectTimer = FALSE, !.status = "connecting"]
  IN  IF ~c.enabled \/ IsLive(c, c.socket) THEN c
      ELSE IF c.relayUrl = "malformed" THEN ScheduleReconnect(Fail(connecting))
      ELSE [connecting EXCEPT !.socket = s, !.ready[s] = "connecting",
                              !.failed[s] = FALSE, !.sent[s] = {}]

\* start(); the branch for an empty relayUrl is dead, as the configuration
\* never leaves it empty.
Start(c, s) == Connect(c, s)

\* Faulty: the socket is forgotten, not closed.
Stop_NotClosed(c, disableReconnect) ==
  WithoutSocket([ClearSocketTimers(c) EXCEPT !.reconnectTimer = FALSE,
                                             !.enabled = @ /\ ~disableReconnect])

Stop(c, disableReconnect) ==
  WithoutSocket(Close([ClearSocketTimers(c) EXCEPT !.reconnectTimer = FALSE,
                                                   !.enabled = @ /\ ~disableReconnect],
                      c.socket))

ConnectWith(c, url, s) ==
  Start([Stop(c, FALSE) EXCEPT !.enabled = TRUE, !.status = "idle", !.relayUrl = url], s)

----------------------------------------------------------------------------
(* Boot, and requests to the node *)

Unused(s) == client.ready[s] = "unused"

\* boot() of a node that the command line does not pair.
Boot(s) ==
  /\ booting = "before" /\ Unused(s)
  /\ client' = Start(client, s)
  /\ booting' = "pairing"
  /\ UNCHANGED stopped

\* boot() in pair mode.
BootToPair(s, url) ==
  /\ booting = "before" /\ Unused(s)
  /\ \E t \in Sockets :
       LET started == Start(client, s) IN
       /\ started.ready[t] = "unused"
       /\ client' = ConnectWith(started, url, t)
  /\ booting' = "done"
  /\ UNCHANGED stopped

\* The relay has answered autoPairLocalRelay; the URL was tested before.
AutoPaired(s) ==
  /\ booting = "pairing" /\ Unused(s)
  /\ client' = ConnectWith(client, "valid", s)
  /\ booting' = "done"
  /\ UNCHANGED stopped

\* The relay was not asked, or it could not be reached.
NotAutoPaired ==
  booting = "pairing" /\ booting' = "done" /\ UNCHANGED <<client, stopped>>

\* POST /uplink/connect
UplinkConnect(s, url) ==
  /\ booting # "before" /\ Unused(s)
  /\ client' = ConnectWith(client, url, s)
  /\ stopped' = FALSE
  /\ UNCHANGED booting

\* POST /uplink/disconnect
UplinkDisconnect ==
  /\ booting # "before"
  /\ client' = Stop(client, TRUE)
  /\ stopped' = TRUE
  /\ UNCHANGED booting

----------------------------------------------------------------------------
(* Timers and frames *)

ReconnectTimerFires(s) ==
  /\ client.reconnectTimer /\ Unused(s)
  /\ client' = Connect([client EXCEPT !.reconnectTimer = FALSE], s)
  /\ UNCHANGED <<booting, stopped>>

HeartbeatTimerFires ==
  /\ client.heartbeatTimer
  /\ \E throws \in BOOLEAN : client' = Send(client, "heartbeat", throws)
  /\ UNCHANGED <<booting, stopped>>

WatchdogTimerFires ==
  /\ client.watchdogTimer # None
  /\ client' = IF client.socket # client.watchdogTimer \/ ~client.enabled
               THEN [client EXCEPT !.watchdogTimer = None]
               ELSE HandleSocketFailure(client, client.watchdogTimer)
  /\ UNCHANGED <<booting, stopped>>

\* onMessage after the await, whatever became of the socket the request came
\* on, or a snapshot that the node has to send.
SendResponse ==
  /\ \E throws \in BOOLEAN : client' = Send(client, "response", throws)
  /\ UNCHANGED <<booting, stopped>>

----------------------------------------------------------------------------
(* The sockets *)

SocketOpens(s) ==
  /\ client.ready[s] = "connecting"
  /\ \E fails \in {"nothing", "heartbeat", "hello", "snapshot"} :
       client' = OnOpen([client EXCEPT !.ready[s] = "open"], s, fails)
  /\ UNCHANGED <<booting, stopped>>

\* The connection ends, or its end begins; the events are to come.
ConnectionEnds(s) ==
  /\ client.ready[s] \in {"connecting", "open", "closing"}
  /\ \/ client.ready[s] # "connecting" /\ client' = [client EXCEPT !.ready[s] = "closing"]
     \/ client' = [client EXCEPT !.ready[s] = "closed"]
  /\ UNCHANGED <<booting, stopped>>

ErrorEvent(s) ==
  /\ ~Unused(s) /\ ~client.failed[s]
  /\ client' = HandleSocketFailure([client EXCEPT !.failed[s] = TRUE], s)
  /\ UNCHANGED <<booting, stopped>>

CloseEvent(s) ==
  /\ client.ready[s] \in {"closing", "closed"}
  /\ client' = OnClose([client EXCEPT !.ready[s] = "unused", !.failed[s] = FALSE,
                                      !.sent[s] = {}], s)
  /\ UNCHANGED <<booting, stopped>>

Next ==
  \/ \E s \in Sockets :
       \/ Boot(s) \/ AutoPaired(s)
       \/ \E url \in {"valid", "malformed"} : BootToPair(s, url) \/ UplinkConnect(s, url)
       \/ ReconnectTimerFires(s)
       \/ SocketOpens(s) \/ ConnectionEnds(s) \/ ErrorEvent(s) \/ CloseEvent(s)
  \/ NotAutoPaired \/ UplinkDisconnect
  \/ HeartbeatTimerFires \/ WatchdogTimerFires \/ SendResponse

\* boot() runs, a timer that is set fires, and a socket that is no longer open
\* has its close event.
Fairness ==
  /\ WF_vars(\E s \in Sockets : Boot(s))
  /\ WF_vars(\E s \in Sockets : ReconnectTimerFires(s))
  /\ \A s \in Sockets : WF_vars(CloseEvent(s))

Spec == Init /\ [][Next]_vars /\ Fairness

----------------------------------------------------------------------------
(* Properties *)

\* Every variable has its type; a delay never leaves its limits.
TypeOK ==
  /\ client \in Client
  /\ booting \in {"before", "pairing", "done"}
  /\ stopped \in BOOLEAN

\* The relay never sees two connections of a node: a connection that is open
\* or being opened is the client's current one.
SingleConnection == \A s \in Sockets : IsLive(client, s) => client.socket = s

\* An enabled client always has a way on: a reconnection is scheduled, or its
\* socket is live or will report its end.
NeverStranded ==
  client.enabled /\ booting # "before" =>
    client.reconnectTimer \/ (client.socket # None /\ ~Unused(client.socket))

\* After stop() nothing goes on, whatever events the old sockets still have.
DisabledIsQuiet ==
  ~client.enabled =>
    /\ \A s \in Sockets : ~IsLive(client, s)
    /\ ~client.reconnectTimer /\ ~client.heartbeatTimer /\ client.watchdogTimer = None

\* A client that shows "connected" has said hello on its current socket, sends
\* heartbeats, and has the watchdog on that socket.
ConnectedIsGreeted ==
  client.status = "connected" =>
    /\ client.socket # None /\ "hello" \in client.sent[client.socket]
    /\ client.heartbeatTimer /\ client.watchdogTimer = client.socket

\* The status that a client shows is so: a disabled one is quiet, a connected
\* one has introduced itself.
StatusIsTrue == DisabledIsQuiet /\ ConnectedIsGreeted

\* Whatever fails, an enabled client tries again.
KeepsTrying ==
  (client.enabled /\ client.relayUrl = "valid")
    ~> (~client.enabled \/ client.relayUrl # "valid" \/ client.status \in {"connecting", "connected"})

\* The uplink remains disconnected until an explicit connect action.
StaysStopped == stopped => ~client.enabled
=============================================================================
