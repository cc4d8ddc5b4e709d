------------------------------- MODULE Relay -------------------------------
(***************************************************************************)
(* The relay server (Relay/src/relay/server.ts): pairing sessions, the     *)
(* device registry, the device sockets, the offline queue of each device,  *)
(* the presence watchdog, and the JSON store that a restart reads back.    *)
(*                                                                         *)
(* The server is one Node.js process, so each handler is one atomic        *)
(* action; a crash inside a handler is visible only through the saves the  *)
(* handler has already made (CrashInFlush).  Instants are modelled by      *)
(* ages, which Tick increases up to the value past which they no longer    *)
(* matter, so that time needs no bound.                                    *)
(*                                                                         *)
(* A definition named X_Something, marked "Faulty", is X with a plausible  *)
(* mistake in it; the specification uses none of them (see the README).    *)
(***************************************************************************)
EXTENDS Integers, Sequences, FiniteSets

CONSTANTS
  Codes,            \* pairing codes
  DeviceIds,        \* identities that devices announce
  Sockets,          \* device connections, reused once closed
  Envelopes,        \* identities of application requests
  None,             \* "undefined": no record, no socket, no token, no time
  PairingTtl,       \* relayConfig.pairingTtlMs, in ticks
  QueueTtl,         \* relayConfig.offlineQueueTtlMs, in ticks
  QueueLimit,       \* relayConfig.offlineQueueLimit
  HeartbeatStale,   \* relayConfig.heartbeatStaleMs, in ticks
  HeartbeatLag,     \* how old a heartbeat's own timestamp can be on arrival
  MaxFlushCrashes   \* bound: crashes in the middle of a flush

ASSUME RelayAssumption ==
  /\ PairingTtl \in Nat /\ QueueTtl \in Nat \ {0} /\ QueueLimit \in Nat \ {0}
  /\ HeartbeatStale \in Nat /\ HeartbeatLag \in 0..HeartbeatStale
  /\ MaxFlushCrashes \in Nat

VARIABLES
  pairingSessions,  \* code -> session
  devices,          \* device id -> record, or None
  sockets,          \* socket -> its ready state and the closure of its handler
  store,            \* the file at relayConfig.storePath
  writes,           \* how often each envelope was written to a device socket
  flushCrashes      \* crashes in the middle of a flush so far

vars == <<pairingSessions, devices, sockets, store, writes, flushCrashes>>

----------------------------------------------------------------------------
(* Records *)

QueuedEnvelope == [envelope : Envelopes, age : 0..QueueTtl]

Age == 0..(HeartbeatStale + 1)

\* presence is the status in the device object the session holds.  After an
\* approval that object is the record's own ("shared"), until the record gets
\* another one.
PairingSession == [status   : {"absent", "created", "claimed", "approved"},
                   left     : -1..PairingTtl,
                   device   : DeviceIds \cup {None},
                   presence : {"online", "offline", "shared"}]

RelayDeviceRecord == [status          : {"online", "offline"},
                      socket          : Sockets \cup {None},
                      lastHeartbeatAt : Age \cup {None},
                      queue           : Seq(QueuedEnvelope)]

\* What a save keeps of a record: no socket, and no status that a load heeds.
StoredRecord == [lastHeartbeatAt : Age \cup {None}, queue : Seq(QueuedEnvelope)]

\* state is the ws ready state: "closing" after the relay called close()
\* (frames already under way still arrive), "closed" after the peer's close
\* frame with the close event still to come.  bound is the handler's deviceId.
Socket == [state  : {"free", "open", "closing", "closed"},
           device : DeviceIds \cup {None},
           token  : Codes \cup {None},
           bound  : DeviceIds \cup {None}]

NoSession == [status |-> "absent", left |-> -1, device |-> None, presence |-> "offline"]

FreeSocket == [state |-> "free", device |-> None, token |-> None, bound |-> None]

NewRecord == [status |-> "offline", socket |-> None,
              lastHeartbeatAt |-> None, queue |-> <<>>]

ASSUME NoneAssumption ==
  /\ None \notin Codes \cup DeviceIds \cup Sockets \cup Age \cup 0..QueueTtl
  /\ None \notin RelayDeviceRecord \cup StoredRecord

IsOpen(s) == s # None /\ sockets[s].state = "open"

----------------------------------------------------------------------------
(* The offline queue *)

\* Items are appended with one and the same time to live, so the expired ones
\* are a prefix (QueueOldestFirst) and filtering them out drops that prefix.
Unexpired(q) ==
  SubSeq(q, Cardinality({i \in DOMAIN q : q[i].age >= QueueTtl}) + 1, Len(q))

\* Array.prototype.slice(-n): the last n items, but the whole array for n = 0.
SliceLast(q, n) == IF n = 0 \/ n >= Len(q) THEN q ELSE SubSeq(q, Len(q) - n + 1, Len(q))

\* Faulty: the slice is forgotten.
QueueOfflineEnvelope_NoSlice(q, e) == Append(Unexpired(q), [envelope |-> e, age |-> 0])

QueueOfflineEnvelope(q, e) ==
  Append(SliceLast(Unexpired(q), QueueLimit - 1), [envelope |-> e, age |-> 0])

\* Faulty: the queue is sent but not emptied.
QueueAfterFlush_Kept(q) == Unexpired(q)

QueueAfterFlush(q) == <<>>

Queued(q) == {q[i].envelope : i \in DOMAIN q}

\* One write for every item of q.
Written(q) ==
  [e \in Envelopes |-> writes[e] + Cardinality({i \in DOMAIN q : q[i].envelope = e})]

----------------------------------------------------------------------------
(* The store *)

Stored(r) == IF r = None THEN None
             ELSE [lastHeartbeatAt |-> r.lastHeartbeatAt, queue |-> r.queue]

\* The sessions once the records of these devices have got other objects.
Unshared(sessions, registry, ids) ==
  [c \in Codes |->
     IF sessions[c].presence = "shared" /\ sessions[c].device \in ids
     THEN [sessions[c] EXCEPT !.presence = registry[sessions[c].device].status]
     ELSE sessions[c]]

SaveRelayStore(sessions, registry) ==
  [sessions |-> Unshared(sessions, registry, DeviceIds),
   devices  |-> [d \in DeviceIds |-> Stored(registry[d])]]

\* Faulty: the queues are not read back.
LoadRelayStore_NoQueues(file) ==
  [d \in DeviceIds |->
     IF file.devices[d] = None THEN None
     ELSE [NewRecord EXCEPT !.lastHeartbeatAt = file.devices[d].lastHeartbeatAt]]

LoadRelayStore(file) ==
  [d \in DeviceIds |->
     IF file.devices[d] = None THEN None
     ELSE [NewRecord EXCEPT !.lastHeartbeatAt = file.devices[d].lastHeartbeatAt,
                            !.queue = file.devices[d].queue]]

Save == store' = SaveRelayStore(pairingSessions', devices')

Init ==
  /\ pairingSessions = [c \in Codes |-> NoSession]
  /\ devices = [d \in DeviceIds |-> None]
  /\ sockets = [s \in Sockets |-> FreeSocket]
  /\ store = SaveRelayStore(pairingSessions, devices)
  /\ writes = [e \in Envelopes |-> 0]
  /\ flushCrashes = 0

----------------------------------------------------------------------------
(* Pairing over HTTP *)

CreatePairingSession(c) ==
  /\ pairingSessions[c].status = "absent"
  /\ pairingSessions' = [pairingSessions EXCEPT ![c].status = "created", ![c].left = PairingTtl]
  /\ UNCHANGED <<devices, sockets, writes, flushCrashes>>
  /\ Save

\* findValidPairingSession
IsValid(c) == pairingSessions[c].status # "absent" /\ pairingSessions[c].left >= 0

Claimed(session, d) ==
  [session EXCEPT !.status = "claimed", !.device = d, !.presence = "offline"]

ClaimPairingSession(c, d) ==
  /\ IsValid(c) /\ pairingSessions[c].status # "approved"
  /\ pairingSessions' = [pairingSessions EXCEPT ![c] = Claimed(@, d)]
  /\ UNCHANGED <<devices, sockets, writes, flushCrashes>>
  /\ Save

\* The record keeps its socket, its queue and its last heartbeat.
UpsertDevice(r, status) ==
  IF r = None THEN [NewRecord EXCEPT !.status = status]
  ELSE [r EXCEPT !.status = IF IsOpen(r.socket) THEN "online" ELSE status]

ApprovePairingSession(c) ==
  LET d        == pairingSessions[c].device
      presence == pairingSessions[c].presence
  IN
  /\ IsValid(c) /\ d # None
  /\ pairingSessions' = [Unshared(pairingSessions, devices, {d}) EXCEPT
                           ![c].status = "approved", ![c].presence = "shared"]
  /\ devices' = [devices EXCEPT ![d] =
                   UpsertDevice(@, IF presence = "shared" THEN devices[d].status ELSE presence)]
  /\ UNCHANGED <<sockets, writes, flushCrashes>>
  /\ Save

----------------------------------------------------------------------------
(* The device sockets *)

Connect(s, d, t) ==
  /\ sockets[s].state = "free"
  /\ sockets' = [sockets EXCEPT ![s] = [state |-> "open", device |-> d, token |-> t, bound |-> None]]
  /\ UNCHANGED <<pairingSessions, devices, store, writes, flushCrashes>>

\* resolveHelloDevice answers a device at all.
IsResolved(s) ==
  IF sockets[s].token = None THEN devices[sockets[s].device] # None
  ELSE pairingSessions[sockets[s].token].status # "absent"

\* The record that devices.delete removes when an approved code moves.
IsReplaced(s, d) ==
  /\ sockets[s].token # None /\ d # sockets[s].device
  /\ pairingSessions[sockets[s].token].status = "approved"
  /\ pairingSessions[sockets[s].token].device = d

\* A code that is not approved yet is claimed by the device; an approved one
\* moves to the identity the device announces now.
SessionsAfterHello(s) ==
  LET d        == sockets[s].device
      t        == sockets[s].token
      sessions == Unshared(pairingSessions, devices, {x \in DeviceIds : x = d \/ IsReplaced(s, x)})
  IN  IF t = None THEN sessions
      ELSE [sessions EXCEPT ![t] = IF @.status = "approved" THEN [@ EXCEPT !.device = d]
                                   ELSE Claimed(@, d)]

QueueOf(d) == IF devices[d] = None THEN <<>> ELSE devices[d].queue

\* The registry once the hello on s is accepted, the device's queue being q.
DevicesAfterHello(s, q) ==
  [d \in DeviceIds |->
     IF d = sockets[s].device
       THEN [UpsertDevice(devices[d], "offline") EXCEPT
               !.socket = s, !.status = "online", !.queue = q]
     ELSE IF IsReplaced(s, d) THEN None
     ELSE devices[d]]

IsHello(s) == sockets[s].state = "open" /\ sockets[s].bound = None /\ IsResolved(s)

\* Faulty: flushQueuedEnvelopes does not save.
HelloStore_NotSaved(s) ==
  SaveRelayStore(SessionsAfterHello(s), DevicesAfterHello(s, QueueOf(sockets[s].device)))

\* flushQueuedEnvelopes saves again only if it wrote something.
HelloStore(s) ==
  LET q == QueueOf(sockets[s].device)
  IN  SaveRelayStore(SessionsAfterHello(s),
                     DevicesAfterHello(s, IF Unexpired(q) = <<>> THEN q ELSE QueueAfterFlush(q)))

Hello(s) ==
  LET q == QueueOf(sockets[s].device) IN
  /\ IsHello(s)
  /\ pairingSessions' = SessionsAfterHello(s)
  /\ devices' = DevicesAfterHello(s, QueueAfterFlush(q))
  /\ sockets' = [sockets EXCEPT ![s].bound = sockets[s].device]
  /\ writes' = Written(Unexpired(q))
  /\ store' = HelloStore(s)
  /\ UNCHANGED flushCrashes

\* A message of a socket whose hello was accepted.  A closing one still counts.
IsBound(s) == sockets[s].state \in {"open", "closing"} /\ sockets[s].bound # None

\* The time of the last heartbeat is the sender's timestamp.
Heartbeat(s) ==
  /\ IsBound(s)
  /\ \E lag \in 0..HeartbeatLag :
       devices' = [devices EXCEPT ![sockets[s].bound] =
                     IF @ = None THEN None
                     ELSE [@ EXCEPT !.lastHeartbeatAt = lag, !.status = "online"]]
  /\ UNCHANGED <<pairingSessions, sockets, writes, flushCrashes>>
  /\ Save

\* updateProviderSnapshot
ProviderSnapshot(s) ==
  /\ IsBound(s)
  /\ devices' = [devices EXCEPT ![sockets[s].bound] =
                   IF @ = None THEN None ELSE [@ EXCEPT !.status = "online"]]
  /\ UNCHANGED <<pairingSessions, sockets, writes, flushCrashes>>
  /\ Save

\* The peer's close frame: the ready state changes, the close event is to come.
PeerClose(s) ==
  /\ sockets[s].state = "open"
  /\ sockets' = [sockets EXCEPT ![s].state = "closed"]
  /\ UNCHANGED <<pairingSessions, devices, store, writes, flushCrashes>>

\* Faulty: any socket's close detaches its device.
Detached_AnySocket(s, r) ==
  IF r = None THEN r ELSE [r EXCEPT !.socket = None, !.status = "offline"]

\* Faulty: the socket is not cleared.
Detached_SocketKept(s, r) ==
  IF r = None THEN r ELSE IF r.socket = s THEN [r EXCEPT !.status = "offline"] ELSE r

Detached(s, r) ==
  IF r = None THEN r
  ELSE IF r.socket = s THEN [r EXCEPT !.socket = None, !.status = "offline"]
  ELSE r

SocketClosed(s) ==
  LET d == sockets[s].bound IN
  /\ sockets[s].state # "free"
  /\ sockets' = [sockets EXCEPT ![s] = FreeSocket]
  /\ devices' = IF d = None THEN devices ELSE [devices EXCEPT ![d] = Detached(s, @)]
  /\ UNCHANGED <<pairingSessions, writes, flushCrashes>>
  /\ IF devices' = devices THEN UNCHANGED store ELSE Save

----------------------------------------------------------------------------
(* Application requests *)

\* A request's identity is fresh when the application sends it.
IsFresh(e) ==
  /\ writes[e] = 0
  /\ \A d \in DeviceIds :
       /\ e \notin Queued(QueueOf(d))
       /\ store.devices[d] # None => e \notin Queued(store.devices[d].queue)

SendToSocket(d, e) ==
  /\ IsFresh(e) /\ devices[d] # None /\ IsOpen(devices[d].socket)
  /\ writes' = [writes EXCEPT ![e] = @ + 1]
  /\ UNCHANGED <<pairingSessions, devices, sockets, store, flushCrashes>>

QueueForDevice(d, e) ==
  /\ IsFresh(e) /\ devices[d] # None /\ ~IsOpen(devices[d].socket)
  /\ devices' = [devices EXCEPT ![d].queue = QueueOfflineEnvelope(@, e)]
  /\ UNCHANGED <<pairingSessions, sockets, writes, flushCrashes>>
  /\ Save

\* A request for a device without a record is rejected and changes nothing.
RouteAppRequest(d, e) == SendToSocket(d, e) \/ QueueForDevice(d, e)

----------------------------------------------------------------------------
(* Presence, time and restarts *)

\* Faulty: records without a socket are skipped.
IsStale_Attached(d) ==
  /\ devices[d] # None /\ devices[d].status # "offline" /\ devices[d].socket # None
  /\ devices[d].lastHeartbeatAt # None /\ devices[d].lastHeartbeatAt > HeartbeatStale

IsStale(d) ==
  /\ devices[d] # None /\ devices[d].status # "offline"
  /\ devices[d].lastHeartbeatAt # None /\ devices[d].lastHeartbeatAt > HeartbeatStale

PresenceWatchdog ==
  /\ \E d \in DeviceIds : IsStale(d)
  /\ devices' = [d \in DeviceIds |->
                   IF IsStale(d) THEN [devices[d] EXCEPT !.status = "offline", !.socket = None]
                   ELSE devices[d]]
  /\ sockets' = [s \in Sockets |->
                   IF IsOpen(s) /\ \E d \in DeviceIds : IsStale(d) /\ devices[d].socket = s
                   THEN [sockets[s] EXCEPT !.state = "closing"]
                   ELSE sockets[s]]
  /\ UNCHANGED <<pairingSessions, writes, flushCrashes>>
  /\ Save

Older(age, last) == IF age = None \/ age >= last THEN age ELSE age + 1

OlderQueue(q) == [i \in DOMAIN q |-> [q[i] EXCEPT !.age = Older(@, QueueTtl)]]

OlderRecord(r) ==
  IF r = None THEN None
  ELSE [r EXCEPT !.lastHeartbeatAt = Older(@, HeartbeatStale + 1), !.queue = OlderQueue(@)]

OlderSessions(sessions) ==
  [c \in Codes |-> [sessions[c] EXCEPT !.left = IF @ < 0 THEN @ ELSE @ - 1]]

\* The instants in memory and in the store grow older alike.
Tick ==
  /\ devices' = [d \in DeviceIds |-> OlderRecord(devices[d])]
  /\ pairingSessions' = OlderSessions(pairingSessions)
  /\ store' = [sessions |-> OlderSessions(store.sessions),
               devices  |-> [d \in DeviceIds |-> OlderRecord(store.devices[d])]]
  /\ UNCHANGED <<sockets, writes, flushCrashes>>

\* The process ends and starts again with what file holds.
RestartWith(file) ==
  /\ store' = file
  /\ pairingSessions' = file.sessions
  /\ devices' = LoadRelayStore(file)
  /\ sockets' = [s \in Sockets |-> FreeSocket]

Restart == RestartWith(store) /\ UNCHANGED <<writes, flushCrashes>>

\* A crash in a hello, after some of the queue was written to the socket and
\* before the save that follows: the store still holds the whole queue.
CrashInFlush(s) ==
  LET q == QueueOf(sockets[s].device) IN
  /\ IsHello(s) /\ flushCrashes < MaxFlushCrashes
  /\ \E n \in 1..Len(Unexpired(q)) : writes' = Written(SubSeq(Unexpired(q), 1, n))
  /\ RestartWith(SaveRelayStore(SessionsAfterHello(s), DevicesAfterHello(s, q)))
  /\ flushCrashes' = flushCrashes + 1

Next ==
  \/ \E c \in Codes : CreatePairingSession(c) \/ ApprovePairingSession(c)
  \/ \E c \in Codes, d \in DeviceIds : ClaimPairingSession(c, d)
  \/ \E s \in Sockets, d \in DeviceIds, t \in Codes \cup {None} : Connect(s, d, t)
  \/ \E s \in Sockets : \/ Hello(s) \/ Heartbeat(s) \/ ProviderSnapshot(s)
                        \/ PeerClose(s) \/ SocketClosed(s) \/ CrashInFlush(s)
  \/ \E d \in DeviceIds, e \in Envelopes : RouteAppRequest(d, e)
  \/ PresenceWatchdog \/ Tick \/ Restart

\* setInterval keeps calling the watchdog.
Fairness == WF_vars(PresenceWatchdog)

Spec == Init /\ [][Next]_vars /\ Fairness

----------------------------------------------------------------------------
(* Properties *)

\* Every variable has its type; in particular the store is readable.
TypeOK ==
  /\ pairingSessions \in [Codes -> PairingSession]
  /\ devices \in [DeviceIds -> RelayDeviceRecord \cup {None}]
  /\ sockets \in [Sockets -> Socket]
  /\ store \in [sessions : [Codes -> PairingSession],
                devices : [DeviceIds -> StoredRecord \cup {None}]]
  /\ writes \in [Envelopes -> Nat]
  /\ flushCrashes \in 0..MaxFlushCrashes

\* routeAppRequest: no device has more than offlineQueueLimit envelopes
\* waiting, in memory or in the store.
QueueBounded ==
  \A d \in DeviceIds :
    /\ devices[d] # None => Len(devices[d].queue) <= QueueLimit
    /\ store.devices[d] # None => Len(store.devices[d].queue) <= QueueLimit

\* flushQueuedEnvelopes: no request waits in the queue of a device whose
\* socket is open, so none is overtaken by a request routed later.
ConnectedQueueEmpty ==
  \A d \in DeviceIds : devices[d] # None /\ IsOpen(devices[d].socket) => devices[d].queue = <<>>

\* The socket of a record is a connection of that very device, and its handler
\* answers for that device: no request is routed to another one.
SocketOwnership ==
  \A d \in DeviceIds :
    devices[d] # None /\ devices[d].socket # None =>
      /\ sockets[devices[d].socket].state # "free"
      /\ sockets[devices[d].socket].device = d
      /\ sockets[devices[d].socket].bound = d

\* A device that is shown offline is not connected.
OfflineMeansDetached ==
  \A d \in DeviceIds :
    devices[d] # None /\ devices[d].status = "offline" => ~IsOpen(devices[d].socket)

\* A restart between two handlers loses nothing: the store holds the sessions,
\* the records and every accepted envelope that has not expired.
StoreCurrent ==
  /\ store.sessions = Unshared(pairingSessions, devices, DeviceIds)
  /\ \A d \in DeviceIds :
       IF devices[d] = None THEN store.devices[d] = None
       ELSE /\ store.devices[d] # None
            /\ store.devices[d].lastHeartbeatAt = devices[d].lastHeartbeatAt
            /\ Unexpired(store.devices[d].queue) = Unexpired(devices[d].queue)

\* Queues are in order of age, the oldest first: the expired items that
\* queueOfflineEnvelope and flushQueuedEnvelopes filter out are a prefix.
QueueOldestFirst ==
  \A d \in DeviceIds :
    \A i, j \in 1..Len(QueueOf(d)) : i <= j => QueueOf(d)[i].age >= QueueOf(d)[j].age

\* What waits for a device waits in order, and survives a restart.
QueueIsKept == StoreCurrent /\ QueueOldestFirst

\* An accepted request leaves the queue of its device because it was written
\* to the device, expired, was displaced at the limit, or the record was
\* replaced by one of another identity; never by a restart or a disconnection.
QueueLeftOnlyForCause ==
  [][\A d \in DeviceIds : \A i \in 1..Len(QueueOf(d)) :
       LET item == QueueOf(d)[i] IN
       item.envelope \in Queued(QueueOf(d)') \/ item.age >= QueueTtl \/ devices'[d] = None
       \/ writes'[item.envelope] > writes[item.envelope]
       \/ Len(QueueOf(d)') = QueueLimit]_vars

\* The close of an old connection does not detach the connection that has
\* replaced it: an attached socket that stays open stays attached, or is
\* replaced by a newer one, as long as the record exists.
AttachedStays ==
  [][\A d \in DeviceIds :
       devices[d] # None /\ IsOpen(devices[d].socket) /\ sockets'[devices[d].socket].state = "open"
         => devices'[d] = None \/ devices'[d].socket # None]_vars

\* presenceWatchdog: a device whose heartbeats have stopped is not shown
\* online for ever, even if its connection has never reported a close.
StaleIsNotKeptOnline ==
  \A d \in DeviceIds :
    []<>(\/ devices[d] = None
         \/ devices[d].status = "offline"
         \/ devices[d].lastHeartbeatAt = None
         \/ devices[d].lastHeartbeatAt <= HeartbeatStale)
=============================================================================
