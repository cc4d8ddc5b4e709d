-------------------------- MODULE RelayClientProofs --------------------------
(***************************************************************************)
(* Proofs about the uplink of a Reika Node, for any number of WebSocket    *)
(* objects and any delays: type correctness, one connection at a time, a   *)
(* way on after every failure, silence after a stop, and that a client     *)
(* which shows "connected" has introduced itself.                          *)
(***************************************************************************)
EXTENDS RelayClient, TLAPS

\* What every method preserves of a client, in whatever state it calls
\* another: a socket that is live is the current one, the current one has not
\* been freed, and a client that is not enabled has nothing under way.
Sound(c) ==
  /\ c \in Client
  /\ \A s \in Sockets : IsLive(c, s) => c.socket = s
  /\ c.socket # None => c.ready[c.socket] # "unused"
  /\ ~c.enabled => /\ c.socket = None /\ c.status # "connected"
                   /\ ~c.reconnectTimer /\ ~c.heartbeatTimer /\ c.watchdogTimer = None

\* What holds between two events only: onOpen shows "connected" before it says
\* hello.
Greeted(c) ==
  c.status = "connected" =>
    /\ c.socket # None /\ "hello" \in c.sent[c.socket]
    /\ c.heartbeatTimer /\ c.watchdogTimer = c.socket

\* An enabled client has a reconnection scheduled or a socket.
WayOn(c) == c.enabled => c.reconnectTimer \/ c.socket # None

IInv ==
  /\ Sound(client) /\ Greeted(client)
  /\ booting # "before" => WayOn(client)
  /\ booting \in {"before", "pairing", "done"}
  /\ stopped \in BOOLEAN

----------------------------------------------------------------------------
(* The methods *)

LEMMA DelayStaysInRange ==
  ASSUME NEW d \in ReconnectMin..ReconnectMax
  PROVE  DoubledDelay(d) \in ReconnectMin..ReconnectMax
BY RelayClientAssumption DEF DoubledDelay

LEMMA CloseFacts ==
  ASSUME NEW c, Sound(c), NEW s \in Sockets \cup {None}
  PROVE  /\ Sound(Close(c, s))
         /\ ~IsLive(Close(c, s), s)
         /\ Close(c, s) = [c EXCEPT !.ready = Close(c, s).ready]
<1>1. CASE IsLive(c, s)
  BY <1>1 DEF Sound, Client, IsLive, Close, ReadyState
<1>2. CASE ~IsLive(c, s)
  BY <1>2 DEF Sound, Client, Close
<1> QED
  BY <1>1, <1>2

LEMMA ScheduleFacts ==
  ASSUME NEW c, Sound(c)
  PROVE  /\ Sound(ScheduleReconnect(c)) /\ WayOn(ScheduleReconnect(c))
         /\ ScheduleReconnect(c).enabled = c.enabled
         /\ ScheduleReconnect(c).status = c.status
         /\ ScheduleReconnect(c).socket = c.socket
<1>1. DoubledDelay(c.reconnectDelay) \in ReconnectMin..ReconnectMax
  BY DelayStaysInRange DEF Sound, Client
<1> QED
  BY <1>1 DEF Sound, Client, IsLive, ScheduleReconnect, WayOn

LEMMA FailFacts ==
  ASSUME NEW c, Sound(c)
  PROVE  Sound(ClearSocketTimers(Fail(c)))
BY DEF Sound, Client, IsLive, ClearSocketTimers, Fail

\* A socket that is forgotten must not be live.
LEMMA WithoutSocketFacts ==
  ASSUME NEW c, Sound(c), ~IsLive(c, c.socket)
  PROVE  /\ Sound(WithoutSocket(c))
         /\ \A s \in Sockets : ~IsLive(WithoutSocket(c), s)
         /\ WithoutSocket(c).status # "connected"
BY DEF Sound, Client, IsLive, WithoutSocket

\* A failure is ignored or shown, and leaves a way on.
LEMMA FailureFacts ==
  ASSUME NEW c, Sound(c), NEW s \in Sockets \cup {None}
  PROVE  /\ Sound(HandleSocketFailure(c, s))
         /\ WayOn(c) => WayOn(HandleSocketFailure(c, s))
         /\ HandleSocketFailure(c, s).enabled = c.enabled
         /\ \/ HandleSocketFailure(c, s) = c /\ c.socket # s
            \/ HandleSocketFailure(c, s).status # "connected"
<1> DEFINE failed == ClearSocketTimers(Fail(c))
           active == IF s # None THEN s ELSE c.socket
<1>1. /\ Sound(failed) /\ failed.status = "error" /\ failed.socket = c.socket
      /\ failed.enabled = c.enabled /\ failed.reconnectTimer = c.reconnectTimer
      /\ failed.ready = c.ready
  BY FailFacts DEF Sound, Client, ClearSocketTimers, Fail
<1>2. active \in Sockets \cup {None}
  BY DEF Sound, Client
<1>3. CASE c.socket # None /\ s # None /\ c.socket # s
  BY <1>3 DEF HandleSocketFailure
<1>4. CASE ~(c.socket # None /\ s # None /\ c.socket # s) /\ IsLive(c, active)
  <2>1. HandleSocketFailure(c, s) = Close(failed, active)
    BY <1>4 DEF HandleSocketFailure
  <2> HIDE DEF failed, active
  <2>2. Sound(Close(failed, active))
    BY <1>1, <1>2, CloseFacts
  <2>3. /\ Close(failed, active).status = "error"
        /\ Close(failed, active).enabled = c.enabled
        /\ Close(failed, active).reconnectTimer = c.reconnectTimer
        /\ Close(failed, active).socket = c.socket
    BY <1>1 DEF Close, Sound, Client
  <2> QED
    BY <2>1, <2>2, <2>3 DEF WayOn
<1>5. CASE ~(c.socket # None /\ s # None /\ c.socket # s) /\ ~IsLive(c, active)
  <2> DEFINE alone == IF c.socket = active THEN WithoutSocket(failed) ELSE failed
  <2>1. HandleSocketFailure(c, s) = ScheduleReconnect(alone)
    BY <1>5 DEF HandleSocketFailure
  <2>2. c.socket = active => ~IsLive(failed, failed.socket)
    BY <1>1, <1>5 DEF IsLive
  <2>3. Sound(alone) /\ alone.status # "connected" /\ alone.enabled = c.enabled
    <3> HIDE DEF failed, active
    <3>1. WithoutSocket(failed).enabled = c.enabled
      BY <1>1 DEF WithoutSocket, Sound, Client
    <3> QED
      BY <1>1, <2>2, <3>1, WithoutSocketFacts
  <2> HIDE DEF alone
  <2> QED
    BY <2>1, <2>3, ScheduleFacts
<1> QED
  BY <1>3, <1>4, <1>5

\* A frame is sent on the current socket, or the client no longer shows
\* "connected".
LEMMA SendFacts ==
  ASSUME NEW c, Sound(c), NEW frame \in Frame, NEW throws \in BOOLEAN
  PROVE  LET d == Send(c, frame, throws) IN
         /\ Sound(d) /\ d.enabled = c.enabled
         /\ WayOn(c) => WayOn(d)
         /\ d.status = "connected" =>
              /\ c.status = "connected" /\ d.socket = c.socket
              /\ d.socket # None /\ d.watchdogTimer = d.socket
              /\ c.heartbeatTimer => d.heartbeatTimer
              /\ c.sent[c.socket] \cup {frame} \subseteq d.sent[d.socket]
<1>1. c.socket \in Sockets \cup {None}
  BY DEF Sound, Client
<1>2. CASE c.socket = None \/ c.ready[c.socket] # "open"
  <2>1. CASE c.enabled /\ c.status = "connected"
    <3>1. Send(c, frame, throws) = HandleSocketFailure(c, c.socket)
      BY <1>2, <2>1 DEF Send
    <3> QED
      BY <1>1, <3>1, FailureFacts
  <2>2. CASE ~(c.enabled /\ c.status = "connected")
    <3>1. Send(c, frame, throws) = c
      BY <1>2, <2>2 DEF Send
    <3> QED
      BY <2>2, <3>1 DEF Sound
  <2> QED
    BY <2>1, <2>2
<1>3. CASE ~(c.socket = None \/ c.ready[c.socket] # "open") /\ throws
  <2>1. Send(c, frame, throws) = HandleSocketFailure(c, c.socket)
    BY <1>3 DEF Send
  <2> QED
    BY <1>1, <2>1, FailureFacts
<1>4. CASE ~(c.socket = None \/ c.ready[c.socket] # "open") /\ ~throws
  <2> DEFINE d == [c EXCEPT !.sent = [c.sent EXCEPT ![c.socket] = @ \cup {frame}],
                            !.watchdogTimer = c.socket]
  <2>1. c \in Client /\ c.enabled /\ c.socket \in Sockets
    BY <1>1, <1>4 DEF Sound
  <2>2. Send(c, frame, throws) = d
    BY <1>4, <2>1 DEF Send, BumpWatchdog, Client
  <2>3. d \in Client
    BY <2>1 DEF Client
  <2>4. Sound(d)
    BY <2>1, <2>3 DEF Sound, Client, IsLive
  <2>5. /\ d.enabled = c.enabled /\ d.status = c.status /\ d.socket = c.socket
        /\ d.reconnectTimer = c.reconnectTimer /\ d.heartbeatTimer = c.heartbeatTimer
        /\ d.watchdogTimer = c.socket
        /\ d.sent[c.socket] = c.sent[c.socket] \cup {frame}
    BY <2>1 DEF Client
  <2> HIDE DEF d
  <2>6. d.socket # None
    BY <1>4, <2>5
  <2> QED
    BY <2>2, <2>4, <2>5, <2>6 DEF WayOn
<1> QED
  BY <1>2, <1>3, <1>4

LEMMA HeartbeatLoopFacts ==
  ASSUME NEW c, Sound(c), c.enabled, NEW throws \in BOOLEAN
  PROVE  LET d == StartHeartbeatLoop(c, throws) IN
         /\ Sound(d) /\ d.enabled = c.enabled /\ d.heartbeatTimer
         /\ WayOn(c) => WayOn(d)
         /\ d.status = "connected" => d.socket # None /\ d.socket = c.socket
<1> DEFINE quiet == [c EXCEPT !.heartbeatTimer = FALSE]
           sent == Send(quiet, "heartbeat", throws)
<1>1. /\ Sound(quiet) /\ quiet.enabled /\ quiet.socket = c.socket
      /\ WayOn(c) => WayOn(quiet)
  BY DEF Sound, Client, IsLive, WayOn
<1>2. /\ Sound(sent) /\ sent.enabled
      /\ WayOn(c) => WayOn(sent)
      /\ sent.status = "connected" => sent.socket # None /\ sent.socket = c.socket
  <2> HIDE DEF quiet
  <2>1. "heartbeat" \in Frame
    BY DEF Frame
  <2> QED
    BY <1>1, <2>1, SendFacts
<1>3. StartHeartbeatLoop(c, throws) = [sent EXCEPT !.heartbeatTimer = TRUE]
  BY DEF StartHeartbeatLoop
<1> HIDE DEF sent
<1> QED
  BY <1>2, <1>3 DEF Sound, Client, IsLive, WayOn

\* A connection that opens has said hello when onOpen returns, or failed.
LEMMA OpenFacts ==
  ASSUME NEW c, Sound(c), Greeted(c), NEW s \in Sockets, c.socket = s,
         NEW fails \in {"nothing", "heartbeat", "hello", "snapshot"}
  PROVE  LET d == OnOpen(c, s, fails) IN Sound(d) /\ Greeted(d) /\ (WayOn(c) => WayOn(d))
<1> DEFINE connected == [c EXCEPT !.status = "connected", !.reconnectDelay = ReconnectMin]
           looping   == StartHeartbeatLoop(connected, fails = "heartbeat")
           greeted   == Send(looping, "hello", fails = "hello")
           told      == Send(greeted, "snapshot", fails = "snapshot")
<1>1. c.enabled
  BY RelayClientAssumption DEF Sound
<1>2. OnOpen(c, s, fails) = told
  BY <1>1 DEF OnOpen
<1>3. /\ Sound(connected) /\ connected.enabled
      /\ WayOn(c) => WayOn(connected)
  <2> ReconnectMin \in ReconnectMin..ReconnectMax
    BY RelayClientAssumption
  <2>1. connected \in Client
    BY DEF Sound, Client
  <2> QED
    BY <1>1, <2>1 DEF Sound, Client, IsLive, WayOn
<1>4. /\ Sound(looping) /\ looping.enabled /\ looping.heartbeatTimer
      /\ WayOn(c) => WayOn(looping)
      /\ looping.status = "connected" => looping.socket # None
  <2> HIDE DEF connected
  <2> QED
    BY <1>3, HeartbeatLoopFacts
<1>5. /\ Sound(greeted)
      /\ WayOn(c) => WayOn(greeted)
      /\ greeted.status = "connected" =>
           greeted.heartbeatTimer /\ "hello" \in greeted.sent[greeted.socket]
  <2> HIDE DEF looping
  <2>1. "hello" \in Frame
    BY DEF Frame
  <2> QED
    BY <1>4, <2>1, SendFacts
<1>6. Sound(told) /\ (WayOn(c) => WayOn(told)) /\ Greeted(told)
  <2> HIDE DEF greeted
  <2>1. "snapshot" \in Frame
    BY DEF Frame
  <2>2. Sound(told) /\ (WayOn(greeted) => WayOn(told))
    BY <1>5, <2>1, SendFacts
  <2>3. told.status = "connected" =>
          /\ told.socket # None /\ told.watchdogTimer = told.socket
          /\ told.heartbeatTimer /\ "hello" \in told.sent[told.socket]
    BY <1>5, <2>1, SendFacts
  <2> HIDE DEF told
  <2>4. Greeted(told)
    BY <2>3 DEF Greeted
  <2> QED
    BY <1>5, <2>2, <2>4
<1> QED
  BY <1>2, <1>6

\* Closing and forgetting go together, so nothing of an old socket stays.
LEMMA StopFacts ==
  ASSUME NEW c, Sound(c), NEW disableReconnect \in BOOLEAN
  PROVE  LET d == Stop(c, disableReconnect) IN
         /\ Sound(d) /\ d.status # "connected"
         /\ disableReconnect => ~d.enabled
         /\ \A s \in Sockets : ~IsLive(d, s)
         /\ d.socket = None /\ ~d.heartbeatTimer /\ d.watchdogTimer = None
<1> DEFINE quiet == [ClearSocketTimers(c) EXCEPT !.reconnectTimer = FALSE]
           closed == Close(quiet, c.socket)
<1>1. Sound(quiet) /\ quiet.socket = c.socket /\ quiet.enabled = c.enabled
      /\ ~quiet.heartbeatTimer /\ quiet.watchdogTimer = None /\ ~quiet.reconnectTimer
  BY DEF Sound, Client, IsLive, ClearSocketTimers
<1>2. c.socket \in Sockets \cup {None}
  BY DEF Sound, Client
<1>3. Sound(closed) /\ ~IsLive(closed, c.socket)
      /\ closed = [quiet EXCEPT !.ready = closed.ready]
  <2> HIDE DEF quiet
  <2> QED
    BY <1>1, <1>2, CloseFacts
<1>4. Stop(c, disableReconnect) =
        WithoutSocket([closed EXCEPT !.enabled = @ /\ ~disableReconnect])
  BY DEF Stop, Close, ClearSocketTimers, IsLive, Sound, Client
<1>5. /\ closed.socket = c.socket /\ ~closed.heartbeatTimer
      /\ closed.watchdogTimer = None /\ ~closed.reconnectTimer
      /\ closed.enabled = c.enabled
  <2> HIDE DEF closed, quiet
  <2> QED
    BY <1>1, <1>3 DEF Sound, Client
<1> HIDE DEF closed, quiet
<1> QED
  BY <1>3, <1>4, <1>5 DEF WithoutSocket, Sound, Client, IsLive

\* connect() leaves a way on, and keeps the socket it finds only if it is live.
LEMMA ConnectFacts ==
  ASSUME NEW c, Sound(c), Greeted(c), NEW s \in Sockets, c.ready[s] = "unused"
  PROVE  LET d == Connect(c, s) IN Sound(d) /\ Greeted(d) /\ WayOn(d)
<1> DEFINE connecting == [ClearSocketTimers(c) EXCEPT !.reconnectTimer = FALSE,
                                                      !.status = "connecting"]
<1>1. CASE ~c.enabled \/ IsLive(c, c.socket)
  BY <1>1 DEF Connect, IsLive, WayOn
<1>2. CASE ~(~c.enabled \/ IsLive(c, c.socket)) /\ c.relayUrl = "malformed"
  <2>1. Connect(c, s) = ScheduleReconnect(Fail(connecting))
    BY <1>2 DEF Connect
  <2>2. Sound(Fail(connecting)) /\ Fail(connecting).status = "error"
    BY <1>2 DEF Sound, Client, IsLive, Fail, ClearSocketTimers
  <2> HIDE DEF connecting
  <2> QED
    BY <2>1, <2>2, ScheduleFacts DEF Greeted
<1>3. CASE ~(~c.enabled \/ IsLive(c, c.socket)) /\ c.relayUrl # "malformed"
  BY <1>3, RelayClientAssumption, ZenonT(60)
     DEF Connect, ClearSocketTimers, Sound, Client, IsLive, ReadyState, WayOn, Greeted
<1> QED
  BY <1>1, <1>2, <1>3

LEMMA ConnectWithFacts ==
  ASSUME NEW c, Sound(c), NEW url \in {"valid", "malformed"},
         NEW s \in Sockets, c.ready[s] = "unused"
  PROVE  LET d == ConnectWith(c, url, s) IN Sound(d) /\ Greeted(d) /\ WayOn(d)
<1> DEFINE halted == Stop(c, FALSE)
           ready  == [halted EXCEPT !.enabled = TRUE, !.status = "idle", !.relayUrl = url]
<1>1. Sound(halted) /\ halted.socket = None
  BY StopFacts
<1>2. halted.ready[s] = "unused"
  BY DEF Stop, WithoutSocket, Close, ClearSocketTimers, IsLive, Sound, Client
<1>3. Sound(ready) /\ Greeted(ready) /\ ready.ready[s] = "unused"
  <2> HIDE DEF halted
  <2> QED
    BY <1>1, <1>2 DEF Sound, Client, IsLive, Greeted
<1>4. ConnectWith(c, url, s) = Connect(ready, s)
  BY DEF ConnectWith, Start
<1> HIDE DEF ready
<1> QED
  BY <1>3, <1>4, ConnectFacts

----------------------------------------------------------------------------
(* The events *)

LEMMA CloseEventFacts ==
  ASSUME Sound(client), Greeted(client), NEW s \in Sockets, CloseEvent(s)
  PROVE  Sound(client') /\ Greeted(client') /\ (WayOn(client) => WayOn(client'))
<1> DEFINE c == [client EXCEPT !.ready[s] = "unused", !.failed[s] = FALSE, !.sent[s] = {}]
           alone == ClearSocketTimers(WithoutSocket(c))
<1>1. client' = IF client.socket # s THEN c ELSE ScheduleReconnect(alone)
  BY DEF CloseEvent, OnClose, Sound, Client
<1>2. CASE client.socket # s
  <2>1. Sound(c)
    BY <1>2 DEF Sound, Client, IsLive, ReadyState
  <2>2. Greeted(c) /\ (WayOn(client) => WayOn(c))
    BY <1>2 DEF Greeted, WayOn, Sound, Client
  <2> QED
    BY <1>1, <1>2, <2>1, <2>2
<1>3. CASE client.socket = s
  <2>1. Sound(alone) /\ alone.status # "connected"
    BY <1>3 DEF CloseEvent, Sound, Client, IsLive, ReadyState, WithoutSocket, ClearSocketTimers
  <2> HIDE DEF alone
  <2> QED
    BY <1>1, <1>3, <2>1, ScheduleFacts DEF Greeted
<1> QED
  BY <1>2, <1>3

LEMMA InitIInv == Init => IInv
<1> SUFFICES ASSUME Init PROVE IInv
  OBVIOUS
<1>1. Sound(client) /\ Greeted(client)
  <2> ReconnectMin \in ReconnectMin..ReconnectMax
    BY RelayClientAssumption
  <2> QED
    BY DEF Init, Sound, Client, IsLive, ReadyState, Greeted
<1> QED
  BY <1>1 DEF Init, IInv

\* A failed send is what any other failure is.
LEMMA SendKeepsClient ==
  ASSUME Sound(client), Greeted(client), NEW frame \in Frame, NEW throws \in BOOLEAN
  PROVE  LET d == Send(client, frame, throws) IN
         Sound(d) /\ Greeted(d) /\ (WayOn(client) => WayOn(d))
BY SendFacts DEF Greeted

LEMMA NextIInv == IInv /\ [Next]_vars => IInv'
<1> SUFFICES ASSUME IInv, [Next]_vars PROVE IInv'
  OBVIOUS
<1> Sound(client) /\ Greeted(client)
  BY DEF IInv
<1>1. ASSUME NEW s \in Sockets, Boot(s) PROVE IInv'
  BY <1>1, ConnectFacts DEF IInv, Boot, Start, Unused
<1>2. ASSUME NEW s \in Sockets, NEW url \in {"valid", "malformed"}, BootToPair(s, url)
      PROVE  IInv'
  <2>1. PICK t \in Sockets : /\ Start(client, s).ready[t] = "unused"
                             /\ client' = ConnectWith(Start(client, s), url, t)
    BY <1>2 DEF BootToPair
  <2>2. Sound(Start(client, s))
    BY <1>2, ConnectFacts DEF BootToPair, Start, Unused
  <2>3. Sound(client') /\ Greeted(client') /\ WayOn(client')
    BY <2>1, <2>2, ConnectWithFacts
  <2> QED
    BY <1>2, <2>3 DEF IInv, BootToPair
<1>3. ASSUME NEW s \in Sockets, AutoPaired(s) PROVE IInv'
  <2>1. Sound(client') /\ Greeted(client') /\ WayOn(client')
    BY <1>3, ConnectWithFacts DEF AutoPaired, Unused
  <2> QED
    BY <1>3, <2>1 DEF IInv, AutoPaired
<1>4. ASSUME NEW s \in Sockets, NEW url \in {"valid", "malformed"}, UplinkConnect(s, url)
      PROVE  IInv'
  <2>1. Sound(client') /\ Greeted(client') /\ WayOn(client')
    BY <1>4, ConnectWithFacts DEF UplinkConnect, Unused
  <2> QED
    BY <1>4, <2>1 DEF IInv, UplinkConnect
<1>5. ASSUME NEW s \in Sockets, ReconnectTimerFires(s) PROVE IInv'
  <2> DEFINE c == [client EXCEPT !.reconnectTimer = FALSE]
  <2>1. Sound(c) /\ Greeted(c) /\ c.ready[s] = "unused"
    BY <1>5 DEF ReconnectTimerFires, Unused, Sound, Client, IsLive, Greeted
  <2>2. client' = Connect(c, s)
    BY <1>5 DEF ReconnectTimerFires
  <2> HIDE DEF c
  <2>3. Sound(client') /\ Greeted(client') /\ WayOn(client')
    BY <2>1, <2>2, ConnectFacts
  <2> QED
    BY <1>5, <2>3 DEF IInv, ReconnectTimerFires
<1>6. ASSUME NEW s \in Sockets, SocketOpens(s) PROVE IInv'
  <2> DEFINE c == [client EXCEPT !.ready[s] = "open"]
  <2>1. client.socket = s
    BY <1>6, RelayClientAssumption DEF SocketOpens, Sound, IsLive
  <2>2. Sound(c) /\ Greeted(c) /\ (WayOn(client) => WayOn(c)) /\ c.socket = s
    BY <1>6, <2>1 DEF SocketOpens, Sound, Client, IsLive, ReadyState, Greeted, WayOn
  <2>3. PICK fails \in {"nothing", "heartbeat", "hello", "snapshot"} :
          client' = OnOpen(c, s, fails)
    BY <1>6 DEF SocketOpens
  <2> HIDE DEF c
  <2>4. Sound(client') /\ Greeted(client') /\ (WayOn(client) => WayOn(client'))
    BY <2>2, <2>3, OpenFacts
  <2> QED
    BY <1>6, <2>4 DEF IInv, SocketOpens
<1>7. ASSUME NEW s \in Sockets, ConnectionEnds(s) PROVE IInv'
  <2>1. PICK ready \in {"closing", "closed"} : client' = [client EXCEPT !.ready[s] = ready]
    BY <1>7 DEF ConnectionEnds
  <2>2. Sound(client') /\ Greeted(client') /\ (WayOn(client) => WayOn(client'))
    BY <1>7, <2>1 DEF ConnectionEnds, Sound, Client, IsLive, ReadyState, Greeted, WayOn
  <2> QED
    BY <1>7, <2>2 DEF IInv, ConnectionEnds
<1>8. ASSUME NEW s \in Sockets, ErrorEvent(s) PROVE IInv'
  <2> DEFINE c == [client EXCEPT !.failed[s] = TRUE]
  <2>1. Sound(c) /\ Greeted(c) /\ (WayOn(client) => WayOn(c))
    BY DEF Sound, Client, IsLive, ReadyState, Greeted, WayOn
  <2>2. client' = HandleSocketFailure(c, s)
    BY <1>8 DEF ErrorEvent
  <2> HIDE DEF c
  <2>3. Sound(client') /\ Greeted(client') /\ (WayOn(client) => WayOn(client'))
    BY <2>1, <2>2, FailureFacts DEF Greeted
  <2> QED
    BY <1>8, <2>3 DEF IInv, ErrorEvent
<1>9. ASSUME NEW s \in Sockets, CloseEvent(s) PROVE IInv'
  BY <1>9, CloseEventFacts DEF IInv, CloseEvent
<1>10. CASE NotAutoPaired
  BY <1>10 DEF NotAutoPaired, IInv
<1>11. CASE UplinkDisconnect
  <2>1. Sound(client') /\ Greeted(client') /\ ~client'.enabled
    BY <1>11, StopFacts DEF UplinkDisconnect, Greeted
  <2> QED
    BY <1>11, <2>1 DEF IInv, UplinkDisconnect, WayOn
<1>12. CASE HeartbeatTimerFires
  <2>1. Sound(client') /\ Greeted(client') /\ (WayOn(client) => WayOn(client'))
    BY <1>12, SendKeepsClient DEF HeartbeatTimerFires, Frame
  <2> QED
    BY <1>12, <2>1 DEF IInv, HeartbeatTimerFires
<1>13. CASE WatchdogTimerFires
  <2> DEFINE c == [client EXCEPT !.watchdogTimer = None]
  <2>1. client.watchdogTimer \in Sockets
    BY <1>13 DEF WatchdogTimerFires, Sound, Client
  <2>2. CASE client.socket # client.watchdogTimer \/ ~client.enabled
    <3>1. Sound(c) /\ Greeted(c) /\ (WayOn(client) => WayOn(c))
      BY <2>2 DEF Sound, Client, IsLive, Greeted, WayOn
    <3> QED
      BY <1>13, <2>2, <3>1 DEF WatchdogTimerFires, IInv
  <2>3. CASE ~(client.socket # client.watchdogTimer \/ ~client.enabled)
    <3>1. client' = HandleSocketFailure(client, client.watchdogTimer)
      BY <1>13, <2>3 DEF WatchdogTimerFires
    <3>2. Sound(client') /\ Greeted(client') /\ (WayOn(client) => WayOn(client'))
      BY <2>1, <3>1, FailureFacts DEF Greeted
    <3> QED
      BY <1>13, <3>2 DEF IInv, WatchdogTimerFires
  <2> QED
    BY <2>2, <2>3
<1>14. CASE SendResponse
  <2>1. Sound(client') /\ Greeted(client') /\ (WayOn(client) => WayOn(client'))
    BY <1>14, SendKeepsClient DEF SendResponse, Frame
  <2> QED
    BY <1>14, <2>1 DEF IInv, SendResponse
<1>15. CASE UNCHANGED vars
  BY <1>15 DEF vars, IInv
<1> QED
  BY <1>1, <1>2, <1>3, <1>4, <1>5, <1>6, <1>7, <1>8, <1>9, <1>10, <1>11, <1>12, <1>13,
     <1>14, <1>15 DEF Next

----------------------------------------------------------------------------
(* The theorems *)

\* The invariant holds of every reachable client.
THEOREM Invariance == Spec => []IInv
BY InitIInv, NextIInv, PTL DEF Spec

\* Every variable has its type.
THEOREM TypeCorrect == Spec => []TypeOK
<1>1. IInv => TypeOK
  BY DEF IInv, Sound, TypeOK
<1> QED
  BY <1>1, Invariance, PTL

\* A node has one connection to its relay, however often it reconnects.
THEOREM OneConnection == Spec => []SingleConnection
<1>1. IInv => SingleConnection
  BY DEF IInv, Sound, SingleConnection
<1> QED
  BY <1>1, Invariance, PTL

\* No failure leaves an enabled client without a timer and without a socket
\* that will still report its end.
THEOREM AlwaysAWayOn == Spec => []NeverStranded
<1>1. IInv => NeverStranded
  BY DEF IInv, Sound, WayOn, NeverStranded, Unused
<1> QED
  BY <1>1, Invariance, PTL

\* A client that was stopped stays quiet while its old sockets report their end.
THEOREM StoppedIsQuiet == Spec => []DisabledIsQuiet
<1>1. IInv => DisabledIsQuiet
  BY RelayClientAssumption DEF IInv, Sound, DisabledIsQuiet, IsLive
<1> QED
  BY <1>1, Invariance, PTL

\* "connected" is shown only by a client that has introduced itself.
THEOREM GreetsWhenConnected == Spec => []ConnectedIsGreeted
<1>1. IInv => ConnectedIsGreeted
  BY DEF IInv, Greeted, ConnectedIsGreeted
<1> QED
  BY <1>1, Invariance, PTL

\* What the node shows of its uplink is so, whatever events come late.
THEOREM ShowsWhatIs == Spec => []StatusIsTrue
BY StoppedIsQuiet, GreetsWhenConnected, PTL DEF StatusIsTrue
=============================================================================
