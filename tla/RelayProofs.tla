---------------------------- MODULE RelayProofs ----------------------------
(***************************************************************************)
(* Proofs about the relay, for any number of devices, sockets, codes and   *)
(* envelopes and any time constants: type correctness, the invariants of   *)
(* the sockets and of the queues, that the store is as a restart needs it, *)
(* and what a queue may lose a request for.                                *)
(***************************************************************************)
EXTENDS Relay, SequenceTheorems, FiniteSetTheorems, TLAPS

Queues == Seq(QueuedEnvelope)

Sessions == [Codes -> PairingSession]

Registry == [DeviceIds -> RelayDeviceRecord \cup {None}]

Files == [sessions : Sessions, devices : [DeviceIds -> StoredRecord \cup {None}]]

\* A session that shares its device object with a record names that record.
SharesRecord(sessions, registry) ==
  \A c \in Codes : sessions[c].presence = "shared" =>
    /\ sessions[c].device \in DeviceIds
    /\ registry[sessions[c].device] # None

WithinLimit(records) ==
  QueueLimit >= 2 =>
    \A d \in DeviceIds : records[d] # None => Len(records[d].queue) <= QueueLimit

----------------------------------------------------------------------------
(* The queue operators *)

\* Any part of a queue is a queue.
LEMMA PartOfQueue ==
  ASSUME NEW q \in Queues, NEW m \in Nat \ {0}
  PROVE  /\ SubSeq(q, m, Len(q)) \in Queues
         /\ Len(SubSeq(q, m, Len(q))) = IF m <= Len(q) THEN Len(q) - m + 1 ELSE 0
<1>1. Len(q) \in Nat /\ \A i \in 1..Len(q) : q[i] \in QueuedEnvelope
  BY LenProperties, ElementOfSeq DEF Queues
<1>2. \A i \in m..Len(q) : q[i] \in QueuedEnvelope
  BY <1>1
<1> QED
  BY <1>1, <1>2, SubSeqProperties DEF Queues

\* Dropping the expired items of a queue gives a queue that is no longer.
LEMMA UnexpiredIsQueue ==
  ASSUME NEW q \in Queues
  PROVE  Unexpired(q) \in Queues /\ Len(Unexpired(q)) <= Len(q)
<1> DEFINE old == {i \in DOMAIN q : q[i].age >= QueueTtl}
<1>1. DOMAIN q = 1..Len(q) /\ Len(q) \in Nat
  BY LenProperties DEF Queues
<1>2. IsFiniteSet(1..Len(q)) /\ old \in SUBSET (1..Len(q))
  BY <1>1, FS_Interval
<1>3. Cardinality(old) \in Nat
  BY <1>2, FS_Subset, FS_CardinalityType
<1>4. Cardinality(old) + 1 \in Nat \ {0}
  BY <1>3
<1> HIDE DEF old
<1>5. /\ SubSeq(q, Cardinality(old) + 1, Len(q)) \in Queues
      /\ Len(SubSeq(q, Cardinality(old) + 1, Len(q))) <= Len(q)
  BY <1>1, <1>3, <1>4, PartOfQueue
<1> QED
  BY <1>5 DEF Unexpired, old

\* slice(-n) returns a queue; for n > 0 it has at most n items.
LEMMA SliceLastIsQueue ==
  ASSUME NEW q \in Queues, NEW n \in Nat
  PROVE  /\ SliceLast(q, n) \in Queues
         /\ n > 0 => Len(SliceLast(q, n)) <= n
<1>1. Len(q) \in Nat
  BY LenProperties DEF Queues
<1>2. CASE n = 0 \/ n >= Len(q)
  BY <1>2, <1>1 DEF SliceLast
<1>3. CASE n > 0 /\ n < Len(q)
  <2>1. Len(q) - n + 1 \in Nat \ {0}
    BY <1>1, <1>3
  <2>2. /\ SubSeq(q, Len(q) - n + 1, Len(q)) \in Queues
        /\ Len(SubSeq(q, Len(q) - n + 1, Len(q))) = n
    BY <2>1, <1>1, <1>3, PartOfQueue
  <2> QED
    BY <2>2, <1>1, <1>3 DEF SliceLast
<1> QED
  BY <1>1, <1>2, <1>3

\* The queue after queueOfflineEnvelope is a queue, and within the limit if
\* the limit is at least 2.
LEMMA QueueOfflineEnvelopeBounded ==
  ASSUME NEW q \in Queues, NEW e \in Envelopes
  PROVE  /\ QueueOfflineEnvelope(q, e) \in Queues
         /\ QueueLimit >= 2 => Len(QueueOfflineEnvelope(q, e)) <= QueueLimit
<1> DEFINE kept == SliceLast(Unexpired(q), QueueLimit - 1)
           item == [envelope |-> e, age |-> 0]
<1>1. QueueLimit \in Nat \ {0} /\ QueueTtl \in Nat
  BY RelayAssumption
<1>2. item \in QueuedEnvelope
  BY <1>1 DEF QueuedEnvelope
<1>3. Unexpired(q) \in Queues
  BY UnexpiredIsQueue
<1>4. QueueLimit - 1 \in Nat
  BY <1>1
<1>5. /\ kept \in Queues
      /\ QueueLimit - 1 > 0 => Len(kept) <= QueueLimit - 1
  BY <1>3, <1>4, SliceLastIsQueue
<1>6. Append(kept, item) \in Queues /\ Len(Append(kept, item)) = Len(kept) + 1
  BY <1>2, <1>5, AppendProperties DEF Queues
<1>7. Len(kept) \in Nat
  BY <1>5, LenProperties DEF Queues
<1> QED
  BY <1>1, <1>5, <1>6, <1>7 DEF QueueOfflineEnvelope

----------------------------------------------------------------------------
(* The operators on records, on the registry and on the store *)

\* Replacing the device objects of some records keeps the sessions' type.
LEMMA UnsharedIsSessions ==
  ASSUME NEW sessions \in Sessions, NEW registry \in Registry, NEW ids,
         SharesRecord(sessions, registry)
  PROVE  /\ Unshared(sessions, registry, ids) \in Sessions
         /\ \A c \in Codes :
              /\ Unshared(sessions, registry, ids)[c].device = sessions[c].device
              /\ Unshared(sessions, registry, ids)[c].status = sessions[c].status
              /\ Unshared(sessions, registry, ids)[c].presence = "shared" =>
                   sessions[c].presence = "shared" /\ sessions[c].device \notin ids
<1> DEFINE new(c) ==
      IF sessions[c].presence = "shared" /\ sessions[c].device \in ids
      THEN [sessions[c] EXCEPT !.presence = registry[sessions[c].device].status]
      ELSE sessions[c]
<1>1. ASSUME NEW c \in Codes
      PROVE  /\ new(c) \in PairingSession
             /\ new(c).device = sessions[c].device
             /\ new(c).status = sessions[c].status
             /\ new(c).presence = "shared" =>
                  sessions[c].presence = "shared" /\ sessions[c].device \notin ids
  <2>1. CASE sessions[c].presence = "shared" /\ sessions[c].device \in ids
    <3>1. registry[sessions[c].device] \in RelayDeviceRecord
      BY <2>1 DEF SharesRecord, Registry
    <3>2. registry[sessions[c].device].status \in {"online", "offline"}
      BY <3>1 DEF RelayDeviceRecord
    <3>3. sessions[c] \in PairingSession
      BY DEF Sessions
    <3> QED
      BY <2>1, <3>2, <3>3 DEF PairingSession
  <2>2. CASE ~(sessions[c].presence = "shared" /\ sessions[c].device \in ids)
    BY <2>2 DEF Sessions
  <2> QED
    BY <2>1, <2>2
<1> HIDE DEF new
<1>2. Unshared(sessions, registry, ids) = [c \in Codes |-> new(c)]
  BY DEF Unshared, new
<1> QED
  BY <1>1, <1>2 DEF Sessions

\* A record that upsertDevice makes or keeps.
LEMMA UpsertDeviceIsRecord ==
  ASSUME NEW r \in RelayDeviceRecord \cup {None}, NEW status \in {"online", "offline"}
  PROVE  /\ UpsertDevice(r, status) \in RelayDeviceRecord
         /\ r # None => /\ UpsertDevice(r, status).socket = r.socket
                        /\ UpsertDevice(r, status).queue = r.queue
                        /\ IsOpen(r.socket) => UpsertDevice(r, status).status = "online"
         /\ r = None => /\ UpsertDevice(r, status).socket = None
                        /\ UpsertDevice(r, status).queue = <<>>
<1>1. <<>> \in Queues
  BY EmptySeq DEF Queues
<1>2. NewRecord \in RelayDeviceRecord
  BY <1>1 DEF NewRecord, RelayDeviceRecord, Queues
<1> QED
  BY <1>2 DEF UpsertDevice, RelayDeviceRecord, NewRecord

\* What a save writes is a store that can be read, no session of it shares
\* an object, and its queues are those of the registry.
LEMMA SaveIsFile ==
  ASSUME NEW sessions \in Sessions, NEW registry \in Registry,
         SharesRecord(sessions, registry), WithinLimit(registry)
  PROVE  LET file == SaveRelayStore(sessions, registry) IN
         /\ file \in Files
         /\ \A c \in Codes : file.sessions[c].presence # "shared"
         /\ WithinLimit(file.devices)
<1> DEFINE file == SaveRelayStore(sessions, registry)
<1>1. /\ file.sessions \in Sessions
      /\ \A c \in Codes : file.sessions[c].presence # "shared"
  BY UnsharedIsSessions DEF SaveRelayStore, SharesRecord
<1>2. ASSUME NEW d \in DeviceIds
      PROVE  /\ Stored(registry[d]) \in StoredRecord \cup {None}
             /\ Stored(registry[d]) # None =>
                  registry[d] # None /\ Stored(registry[d]).queue = registry[d].queue
  <2>1. registry[d] \in RelayDeviceRecord \cup {None}
    BY DEF Registry
  <2> QED
    BY <2>1 DEF Stored, RelayDeviceRecord, StoredRecord
<1>3. file.devices \in [DeviceIds -> StoredRecord \cup {None}]
  BY <1>2 DEF SaveRelayStore
<1>4. WithinLimit(file.devices)
  BY <1>2 DEF SaveRelayStore, WithinLimit
<1>5. file \in Files
  BY <1>1, <1>3 DEF SaveRelayStore, Files
<1> QED
  BY <1>1, <1>4, <1>5

\* What a start reads back is a registry without sockets, all offline.
LEMMA LoadIsRegistry ==
  ASSUME NEW file \in Files, WithinLimit(file.devices)
  PROVE  /\ LoadRelayStore(file) \in Registry
         /\ WithinLimit(LoadRelayStore(file))
         /\ \A d \in DeviceIds : LoadRelayStore(file)[d] # None =>
              LoadRelayStore(file)[d].socket = None
<1> DEFINE new(d) ==
      IF file.devices[d] = None THEN None
      ELSE [NewRecord EXCEPT !.lastHeartbeatAt = file.devices[d].lastHeartbeatAt,
                             !.queue = file.devices[d].queue]
<1>1. ASSUME NEW d \in DeviceIds
      PROVE  /\ new(d) \in RelayDeviceRecord \cup {None}
             /\ new(d) # None => /\ new(d).socket = None
                                 /\ file.devices[d] # None
                                 /\ new(d).queue = file.devices[d].queue
  <2>1. file.devices[d] \in StoredRecord \cup {None}
    BY DEF Files
  <2> QED
    BY <2>1 DEF StoredRecord, RelayDeviceRecord, NewRecord
<1> HIDE DEF new
<1>2. LoadRelayStore(file) = [d \in DeviceIds |-> new(d)]
  BY DEF LoadRelayStore, new
<1> QED
  BY <1>1, <1>2 DEF Registry, WithinLimit

----------------------------------------------------------------------------
(* The inductive invariant *)

\* The types, with the queues within the limit, and no session sharing the
\* object of a record that does not exist.
DataInv ==
  /\ pairingSessions \in Sessions
  /\ devices \in Registry
  /\ SharesRecord(pairingSessions, devices)
  /\ WithinLimit(devices)

FileInv(file) ==
  /\ file \in Files
  /\ \A c \in Codes : file.sessions[c].presence # "shared"
  /\ WithinLimit(file.devices)

\* What SocketOwnership, OfflineMeansDetached and ConnectedQueueEmpty say of d.
SoundRecord(d) ==
  devices[d] # None =>
    /\ devices[d].socket # None =>
         /\ sockets[devices[d].socket].state # "free"
         /\ sockets[devices[d].socket].device = d
         /\ sockets[devices[d].socket].bound = d
    /\ IsOpen(devices[d].socket) => devices[d].status # "offline" /\ devices[d].queue = <<>>

SocketInv == \A d \in DeviceIds : SoundRecord(d)

\* A connection is one of some device.
ConnectionInv ==
  /\ sockets \in [Sockets -> Socket]
  /\ \A s \in Sockets : sockets[s].state # "free" => sockets[s].device # None

IInv ==
  /\ DataInv
  /\ FileInv(store)
  /\ ConnectionInv
  /\ SocketInv
  /\ writes \in [Envelopes -> Nat]
  /\ flushCrashes \in 0..MaxFlushCrashes

\* A step that saves leaves a good file if it leaves good data.
LEMMA SaveStep ==
  ASSUME DataInv', Save
  PROVE  FileInv(store)'
BY SaveIsFile DEF DataInv, FileInv, Save

LEMMA InitIInv == Init => IInv
<1> SUFFICES ASSUME Init PROVE IInv
  OBVIOUS
<1>1. NoSession \in PairingSession
  BY RelayAssumption DEF NoSession, PairingSession
<1>2. DataInv
  BY <1>1 DEF Init, DataInv, Sessions, Registry, SharesRecord, WithinLimit, NoSession
<1>3. FileInv(store)
  BY <1>2, SaveIsFile DEF Init, DataInv, FileInv
<1>4. ConnectionInv
  BY DEF Init, ConnectionInv, FreeSocket, Socket
<1>5. SocketInv
  BY DEF Init, SocketInv, SoundRecord
<1> QED
  BY <1>2, <1>3, <1>4, <1>5, RelayAssumption DEF Init, IInv

----------------------------------------------------------------------------
(* Pairing *)

LEMMA CreateKeepsIInv ==
  ASSUME IInv, NEW c \in Codes, CreatePairingSession(c)
  PROVE  IInv'
<1>1. DataInv'
  <2>1. /\ pairingSessions[c] \in PairingSession
        /\ PairingTtl \in -1..PairingTtl
    BY RelayAssumption DEF IInv, DataInv, Sessions
  <2>2. pairingSessions' \in Sessions
    BY <2>1 DEF IInv, DataInv, Sessions, PairingSession, CreatePairingSession
  <2> QED
    BY <2>2 DEF IInv, DataInv, Sessions, SharesRecord, CreatePairingSession, WithinLimit
<1>2. FileInv(store)'
  BY <1>1, SaveStep DEF CreatePairingSession
<1>3. SocketInv'
  BY DEF IInv, SocketInv, SoundRecord, IsOpen, CreatePairingSession
<1> QED
  BY <1>1, <1>2, <1>3 DEF IInv, ConnectionInv, CreatePairingSession

LEMMA ClaimKeepsIInv ==
  ASSUME IInv, NEW c \in Codes, NEW d \in DeviceIds, ClaimPairingSession(c, d)
  PROVE  IInv'
<1>1. DataInv'
  <2>1. pairingSessions[c] \in PairingSession
    BY DEF IInv, DataInv, Sessions
  <2>2. pairingSessions' \in Sessions
    BY <2>1 DEF IInv, DataInv, Sessions, PairingSession, ClaimPairingSession, Claimed
  <2> QED
    BY <2>2 DEF IInv, DataInv, Sessions, PairingSession, SharesRecord, ClaimPairingSession,
                Claimed, WithinLimit
<1>2. FileInv(store)'
  BY <1>1, SaveStep DEF ClaimPairingSession
<1>3. SocketInv'
  BY DEF IInv, SocketInv, SoundRecord, IsOpen, ClaimPairingSession
<1> QED
  BY <1>1, <1>2, <1>3 DEF IInv, ConnectionInv, ClaimPairingSession

LEMMA ApproveKeepsIInv ==
  ASSUME IInv, NEW c \in Codes, ApprovePairingSession(c)
  PROVE  IInv'
<1> DEFINE d        == pairingSessions[c].device
           presence == pairingSessions[c].presence
           status   == IF presence = "shared" THEN devices[d].status ELSE presence
           unshared == Unshared(pairingSessions, devices, {d})
<1>1. pairingSessions[c] \in PairingSession /\ d \in DeviceIds
  BY DEF IInv, DataInv, Sessions, PairingSession, ApprovePairingSession
<1>2. devices[d] \in RelayDeviceRecord \cup {None} /\ status \in {"online", "offline"}
  BY <1>1 DEF IInv, DataInv, SharesRecord, PairingSession, RelayDeviceRecord, Registry
<1>3. /\ UpsertDevice(devices[d], status) \in RelayDeviceRecord
      /\ devices' = [devices EXCEPT ![d] = UpsertDevice(devices[d], status)]
  BY <1>1, <1>2, UpsertDeviceIsRecord DEF ApprovePairingSession, IInv, DataInv, Registry
<1>4. devices' \in Registry /\ devices'[d] # None
  BY <1>1, <1>3, NoneAssumption DEF IInv, DataInv, Registry
<1>5. /\ unshared \in Sessions
      /\ \A x \in Codes : /\ unshared[x].device = pairingSessions[x].device
                          /\ unshared[x].presence = "shared" =>
                               pairingSessions[x].presence = "shared"
  BY UnsharedIsSessions DEF IInv, DataInv
<1>6. pairingSessions' = [unshared EXCEPT ![c].status = "approved", ![c].presence = "shared"]
  BY DEF ApprovePairingSession
<1> HIDE DEF unshared
<1>7. pairingSessions' \in Sessions
  BY <1>5, <1>6, ZenonT(60) DEF Sessions, PairingSession
<1>8. SharesRecord(pairingSessions', devices')
  BY <1>1, <1>3, <1>4, <1>5, <1>6, NoneAssumption
    DEF SharesRecord, IInv, DataInv, Sessions, Registry, PairingSession
<1>9. WithinLimit(devices')
  <2>1. Len(<<>>) = 0
    BY EmptySeq
  <2> QED
    BY <1>1, <1>2, <1>3, <2>1, RelayAssumption, UpsertDeviceIsRecord
      DEF WithinLimit, IInv, DataInv, Registry
<1>10. DataInv'
  BY <1>4, <1>7, <1>8, <1>9 DEF DataInv
<1>11. FileInv(store)'
  BY <1>10, SaveStep DEF ApprovePairingSession
<1>12. SocketInv'
  <2> HIDE DEF status
  <2> SUFFICES ASSUME NEW x \in DeviceIds PROVE SoundRecord(x)'
    BY DEF SocketInv
  <2>1. SoundRecord(x) /\ sockets' = sockets
    BY DEF IInv, SocketInv, ApprovePairingSession
  <2>2. CASE x # d
    <3>1. devices'[x] = devices[x]
      BY <1>3, <2>2 DEF IInv, DataInv, Registry
    <3> QED
      BY <2>1, <3>1 DEF SoundRecord, IsOpen
  <2>3. CASE x = d
    <3>1. devices'[x] = UpsertDevice(devices[x], status)
      BY <1>3, <2>3 DEF IInv, DataInv, Registry
    <3>2. CASE devices[x] = None
      BY <1>2, <2>1, <2>3, <3>1, <3>2, UpsertDeviceIsRecord DEF SoundRecord, IsOpen
    <3>3. CASE devices[x] # None
      BY <1>2, <2>1, <2>3, <3>1, <3>3, UpsertDeviceIsRecord DEF SoundRecord, IsOpen
    <3> QED
      BY <3>2, <3>3
  <2> QED
    BY <2>2, <2>3
<1> QED
  BY <1>10, <1>11, <1>12 DEF IInv, ConnectionInv, ApprovePairingSession

----------------------------------------------------------------------------
(* The device sockets *)

LEMMA ConnectKeepsIInv ==
  ASSUME IInv, NEW s \in Sockets, NEW d \in DeviceIds, NEW t \in Codes \cup {None},
         Connect(s, d, t)
  PROVE  IInv'
<1>1. DataInv' /\ FileInv(store)'
  BY DEF IInv, DataInv, FileInv, Connect
<1>2. ConnectionInv'
  BY NoneAssumption DEF IInv, ConnectionInv, Socket, Connect
<1>3. SocketInv'
  <2> SUFFICES ASSUME NEW x \in DeviceIds PROVE SoundRecord(x)'
    BY DEF SocketInv
  <2>1. SoundRecord(x) /\ devices[x] \in RelayDeviceRecord \cup {None}
    BY DEF IInv, DataInv, SocketInv, Registry
  <2>2. devices[x] # None => devices[x].socket \in Sockets \cup {None} /\ devices[x].socket # s
    BY <2>1, NoneAssumption DEF SoundRecord, RelayDeviceRecord, Connect
  <2> QED
    BY <2>1, <2>2 DEF SoundRecord, IsOpen, Connect, IInv, ConnectionInv
<1> QED
  BY <1>1, <1>2, <1>3 DEF IInv, Connect

\* One write per item of a queue.
LEMMA WrittenIsCount ==
  ASSUME writes \in [Envelopes -> Nat], NEW q \in Queues
  PROVE  Written(q) \in [Envelopes -> Nat]
<1> DEFINE same(e) == {i \in DOMAIN q : q[i].envelope = e}
<1>1. DOMAIN q = 1..Len(q) /\ Len(q) \in Nat
  BY LenProperties DEF Queues
<1>2. IsFiniteSet(1..Len(q))
  BY <1>1, FS_Interval
<1>3. ASSUME NEW e \in Envelopes PROVE writes[e] + Cardinality(same(e)) \in Nat
  <2>1. same(e) \in SUBSET (1..Len(q))
    BY <1>1
  <2>2. Cardinality(same(e)) \in Nat
    BY <1>2, <2>1, FS_Subset, FS_CardinalityType
  <2> QED
    BY <2>2
<1> QED
  BY <1>3 DEF Written

\* The data once a hello is accepted, with any queue that is within the limit.
LEMMA HelloData ==
  ASSUME IInv, NEW s \in Sockets, IsHello(s), NEW q \in Queues,
         QueueLimit >= 2 => Len(q) <= QueueLimit
  PROVE  /\ SessionsAfterHello(s) \in Sessions
         /\ DevicesAfterHello(s, q) \in Registry
         /\ SharesRecord(SessionsAfterHello(s), DevicesAfterHello(s, q))
         /\ WithinLimit(DevicesAfterHello(s, q))
<1> DEFINE d        == sockets[s].device
           t        == sockets[s].token
           ids      == {x \in DeviceIds : x = d \/ IsReplaced(s, x)}
           unshared == Unshared(pairingSessions, devices, ids)
           upsert   == [UpsertDevice(devices[d], "offline") EXCEPT
                          !.socket = s, !.status = "online", !.queue = q]
<1>1. /\ sockets[s] \in Socket /\ t \in Codes \cup {None}
      /\ pairingSessions \in Sessions /\ devices \in Registry
      /\ SharesRecord(pairingSessions, devices) /\ WithinLimit(devices)
  BY DEF IInv, DataInv, ConnectionInv, Socket
<1>2. d \in DeviceIds
  BY <1>1 DEF IsHello, Socket, IInv, ConnectionInv
<1>3. upsert \in RelayDeviceRecord /\ upsert.queue = q
  <2>1. devices[d] \in RelayDeviceRecord \cup {None}
    BY <1>1, <1>2 DEF Registry
  <2>2. UpsertDevice(devices[d], "offline") \in RelayDeviceRecord
    BY <2>1, UpsertDeviceIsRecord
  <2> QED
    BY <2>2 DEF RelayDeviceRecord, Queues
<1>4. ASSUME NEW x \in DeviceIds
      PROVE  DevicesAfterHello(s, q)[x] =
               IF x = d THEN upsert ELSE IF IsReplaced(s, x) THEN None ELSE devices[x]
  BY DEF DevicesAfterHello
<1>5. DevicesAfterHello(s, q) \in Registry
  <2>1. ASSUME NEW x \in DeviceIds
        PROVE  DevicesAfterHello(s, q)[x] \in RelayDeviceRecord \cup {None}
    BY <1>1, <1>3, <1>4 DEF Registry
  <2> QED
    BY <2>1 DEF DevicesAfterHello, Registry
<1>6. WithinLimit(DevicesAfterHello(s, q))
  BY <1>1, <1>3, <1>4 DEF WithinLimit
<1>7. /\ unshared \in Sessions
      /\ \A c \in Codes : /\ unshared[c].device = pairingSessions[c].device
                          /\ unshared[c].status = pairingSessions[c].status
                          /\ unshared[c].presence = "shared" =>
                               /\ pairingSessions[c].presence = "shared"
                               /\ pairingSessions[c].device \notin ids
  BY <1>1, UnsharedIsSessions
<1>8. SessionsAfterHello(s) =
        IF t = None THEN unshared
        ELSE [unshared EXCEPT ![t] = IF @.status = "approved" THEN [@ EXCEPT !.device = d]
                                     ELSE Claimed(@, d)]
  BY DEF SessionsAfterHello
<1> HIDE DEF unshared, upsert
<1>9. SessionsAfterHello(s) \in Sessions
  <2>1. CASE t = None
    BY <1>7, <1>8, <2>1
  <2>2. CASE t \in Codes
    <3> DEFINE new == IF unshared[t].status = "approved" THEN [unshared[t] EXCEPT !.device = d]
                      ELSE Claimed(unshared[t], d)
    <3>1. unshared[t] \in PairingSession
      BY <1>7, <2>2 DEF Sessions
    <3>2. new \in PairingSession
      BY <1>2, <3>1 DEF PairingSession, Claimed
    <3>3. SessionsAfterHello(s) = [unshared EXCEPT ![t] = new]
      BY <1>8, <2>2, NoneAssumption
    <3> QED
      BY <1>7, <3>2, <3>3 DEF Sessions
  <2> QED
    BY <1>1, <2>1, <2>2
<1>10. SharesRecord(SessionsAfterHello(s), DevicesAfterHello(s, q))
  <2> SUFFICES ASSUME NEW c \in Codes, SessionsAfterHello(s)[c].presence = "shared"
               PROVE  /\ SessionsAfterHello(s)[c].device \in DeviceIds
                      /\ DevicesAfterHello(s, q)[SessionsAfterHello(s)[c].device] # None
    BY DEF SharesRecord
  <2>1. c # t
    <3> SUFFICES ASSUME c = t PROVE FALSE
      OBVIOUS
    <3>1. t \in Codes /\ t # None
      BY NoneAssumption
    <3>2. CASE unshared[t].status = "approved"
      <4>1. unshared[t].presence = "shared"
        BY <1>7, <1>8, <3>1, <3>2 DEF Sessions, PairingSession
      <4>2. /\ pairingSessions[t].status = "approved"
            /\ pairingSessions[t].presence = "shared"
            /\ pairingSessions[t].device \notin ids
        BY <1>7, <3>1, <3>2, <4>1
      <4>3. pairingSessions[t].device \in DeviceIds
        BY <1>1, <3>1, <4>2 DEF SharesRecord
      <4> QED
        BY <3>1, <4>2, <4>3 DEF IsReplaced
    <3>3. CASE unshared[t].status # "approved"
      BY <1>7, <1>8, <3>1, <3>3 DEF Sessions, PairingSession, Claimed
    <3> QED
      BY <3>2, <3>3
  <2>2. SessionsAfterHello(s)[c] = unshared[c]
    BY <1>7, <1>8, <2>1 DEF Sessions
  <2>3. /\ pairingSessions[c].presence = "shared"
        /\ pairingSessions[c].device \in DeviceIds \ ids
        /\ devices[pairingSessions[c].device] # None
    BY <1>1, <1>7, <2>2 DEF SharesRecord
  <2>4. DevicesAfterHello(s, q)[pairingSessions[c].device] = devices[pairingSessions[c].device]
    BY <1>4, <2>3
  <2> QED
    BY <1>7, <2>2, <2>3, <2>4
<1> QED
  BY <1>5, <1>6, <1>9, <1>10

\* The queue that a hello flushes.
LEMMA QueueOfIsQueue ==
  ASSUME IInv, NEW d \in DeviceIds
  PROVE  /\ QueueOf(d) \in Queues /\ Len(<<>>) = 0 /\ <<>> \in Queues
         /\ QueueLimit >= 2 => Len(QueueOf(d)) <= QueueLimit
<1>1. devices[d] \in RelayDeviceRecord \cup {None}
  BY DEF IInv, DataInv, Registry
<1>2. <<>> \in Queues /\ Len(<<>>) = 0
  BY EmptySeq DEF Queues
<1> QED
  BY <1>1, <1>2, RelayAssumption
    DEF QueueOf, RelayDeviceRecord, Queues, IInv, DataInv, WithinLimit

LEMMA HelloKeepsIInv ==
  ASSUME IInv, NEW s \in Sockets, Hello(s)
  PROVE  IInv'
<1> DEFINE d == sockets[s].device
           q == QueueOf(d)
           stored == IF Unexpired(q) = <<>> THEN q ELSE QueueAfterFlush(q)
<1>1. IsHello(s) /\ sockets[s] \in Socket
  BY DEF Hello, IInv, ConnectionInv
<1>2. d \in DeviceIds /\ d # None
  BY <1>1, NoneAssumption DEF IsHello, Socket, IInv, ConnectionInv
<1>3. /\ q \in Queues /\ <<>> \in Queues /\ Len(<<>>) = 0
      /\ QueueLimit >= 2 => Len(q) <= QueueLimit
  BY <1>2, QueueOfIsQueue
<1> HIDE DEF q
<1>4. DataInv'
  <2>1. QueueLimit >= 2 => Len(<<>>) <= QueueLimit
    BY <1>3, RelayAssumption
  <2> QED
    BY <1>1, <1>3, <2>1, HelloData DEF DataInv, Hello, QueueAfterFlush
<1>5. FileInv(store)'
  <2>1. stored \in Queues /\ (QueueLimit >= 2 => Len(stored) <= QueueLimit)
    BY <1>3, RelayAssumption DEF QueueAfterFlush
  <2>2. store' = SaveRelayStore(SessionsAfterHello(s), DevicesAfterHello(s, stored))
    BY DEF Hello, HelloStore, q
  <2> HIDE DEF stored
  <2>3. FileInv(SaveRelayStore(SessionsAfterHello(s), DevicesAfterHello(s, stored)))
    BY <1>1, <2>1, HelloData, SaveIsFile DEF FileInv
  <2> QED
    BY <2>2, <2>3 DEF FileInv
<1>6. ConnectionInv' /\ sockets' = [sockets EXCEPT ![s].bound = d]
  BY <1>2 DEF Hello, IInv, ConnectionInv, Socket
<1>7. SocketInv'
  <2> SUFFICES ASSUME NEW x \in DeviceIds PROVE SoundRecord(x)'
    BY DEF SocketInv
  <2>1. /\ SoundRecord(x) /\ devices[x] \in RelayDeviceRecord \cup {None}
        /\ devices' = DevicesAfterHello(s, <<>>)
    BY DEF IInv, SocketInv, DataInv, Registry, Hello, QueueAfterFlush
  <2>2. CASE x = d
    <3>1. UpsertDevice(devices[d], "offline") \in RelayDeviceRecord
      BY <2>1, <2>2, UpsertDeviceIsRecord
    <3>2. /\ devices'[x].socket = s /\ devices'[x].status = "online"
          /\ devices'[x].queue = <<>>
      BY <2>1, <2>2, <3>1 DEF DevicesAfterHello, RelayDeviceRecord
    <3>3. sockets'[s].state = "open" /\ sockets'[s].device = d /\ sockets'[s].bound = d
      BY <1>1, <1>6 DEF IInv, ConnectionInv, Socket, IsHello
    <3> QED
      BY <2>2, <3>2, <3>3 DEF SoundRecord
  <2>3. CASE x # d /\ ~IsReplaced(s, x)
    <3>1. devices'[x] = devices[x]
      BY <2>1, <2>3 DEF DevicesAfterHello
    <3>2. devices[x] # None => devices[x].socket \in (Sockets \cup {None}) \ {s}
      BY <1>1, <2>1, NoneAssumption DEF SoundRecord, IsHello, RelayDeviceRecord
    <3> QED
      BY <1>6, <2>1, <3>1, <3>2 DEF SoundRecord, IsOpen, IInv, ConnectionInv
  <2>4. CASE x # d /\ IsReplaced(s, x)
    BY <2>1, <2>4 DEF DevicesAfterHello, SoundRecord
  <2> QED
    BY <2>2, <2>3, <2>4
<1>8. writes' \in [Envelopes -> Nat]
  <2>1. Unexpired(q) \in Queues
    BY <1>3, UnexpiredIsQueue
  <2> QED
    BY <2>1, WrittenIsCount DEF Hello, IInv, q
<1> QED
  BY <1>4, <1>5, <1>6, <1>7, <1>8 DEF IInv, Hello

\* A step that changes records in their place keeps the data's invariant.
LEMMA RecordsInPlace ==
  ASSUME IInv, devices' \in Registry, UNCHANGED pairingSessions, WithinLimit(devices'),
         \A x \in DeviceIds : devices[x] # None => devices'[x] # None
  PROVE  DataInv'
BY DEF IInv, DataInv, SharesRecord

\* A record that keeps its socket and its queue, and is not set offline, stays
\* sound.
LEMMA SoundRecordKept ==
  ASSUME IInv, NEW x \in DeviceIds, UNCHANGED sockets,
         devices'[x] = devices[x] \/
         (/\ devices[x] # None
          /\ devices'[x].socket = devices[x].socket
          /\ devices'[x].queue = devices[x].queue
          /\ devices'[x].status # "offline")
  PROVE  SoundRecord(x)'
<1>1. SoundRecord(x)
  BY DEF IInv, SocketInv
<1> QED
  BY <1>1 DEF SoundRecord, IsOpen

\* A message of the device whose hello the socket's handler accepted.
LEMMA MessageKeepsIInv ==
  ASSUME IInv, NEW s \in Sockets, IsBound(s), NEW beat \in Age \cup {None},
         NEW r, r = devices[sockets[s].bound],
         devices' = [devices EXCEPT ![sockets[s].bound] =
                       IF r = None THEN None
                       ELSE [r EXCEPT !.lastHeartbeatAt = beat, !.status = "online"]],
         UNCHANGED <<pairingSessions, sockets, writes, flushCrashes>>, Save
  PROVE  IInv'
<1> DEFINE d == sockets[s].bound
           new == [r EXCEPT !.lastHeartbeatAt = beat, !.status = "online"]
<1>1. d \in DeviceIds
  BY DEF IInv, ConnectionInv, Socket, IsBound
<1>2. r \in RelayDeviceRecord \cup {None} /\ devices \in Registry
  BY <1>1 DEF IInv, DataInv, Registry
<1>3. r # None =>
        /\ new \in RelayDeviceRecord
        /\ new.queue = r.queue /\ new.socket = r.socket /\ new.status = "online"
  BY <1>2 DEF RelayDeviceRecord
<1>4. /\ devices'[d] = IF r = None THEN None ELSE new
      /\ \A x \in DeviceIds \ {d} : devices'[x] = devices[x]
  BY <1>1, <1>2 DEF Registry
<1> HIDE DEF new
<1>5. devices' \in Registry
  BY <1>1, <1>2, <1>3 DEF Registry, new
<1>6. WithinLimit(devices')
  BY <1>1, <1>3, <1>4 DEF WithinLimit, IInv, DataInv
<1>7. DataInv'
  BY <1>1, <1>3, <1>4, <1>5, <1>6, NoneAssumption, RecordsInPlace
<1>8. FileInv(store)'
  BY <1>7, SaveStep
<1>9. SocketInv'
  <2> SUFFICES ASSUME NEW x \in DeviceIds PROVE SoundRecord(x)'
    BY DEF SocketInv
  <2> QED
    BY <1>3, <1>4, SoundRecordKept
<1> QED
  BY <1>7, <1>8, <1>9 DEF IInv, ConnectionInv

LEMMA HeartbeatKeepsIInv ==
  ASSUME IInv, NEW s \in Sockets, Heartbeat(s)
  PROVE  IInv'
<1>1. PICK lag \in 0..HeartbeatLag :
        devices' = [devices EXCEPT ![sockets[s].bound] =
                      IF @ = None THEN None
                      ELSE [@ EXCEPT !.lastHeartbeatAt = lag, !.status = "online"]]
  BY DEF Heartbeat
<1>2. lag \in Age \cup {None}
  BY RelayAssumption DEF Age
<1> QED
  BY <1>1, <1>2, MessageKeepsIInv DEF Heartbeat

LEMMA ProviderSnapshotKeepsIInv ==
  ASSUME IInv, NEW s \in Sockets, ProviderSnapshot(s)
  PROVE  IInv'
<1> DEFINE r    == devices[sockets[s].bound]
           beat == IF r = None THEN None ELSE r.lastHeartbeatAt
<1>1. sockets[s].bound \in DeviceIds
  BY DEF IInv, ConnectionInv, Socket, IsBound, ProviderSnapshot
<1>2. r \in RelayDeviceRecord \cup {None}
  BY <1>1 DEF IInv, DataInv, Registry
<1>3. beat \in Age \cup {None}
  BY <1>2 DEF RelayDeviceRecord
<1>4. r # None => [r EXCEPT !.lastHeartbeatAt = beat, !.status = "online"]
                    = [r EXCEPT !.status = "online"]
  BY <1>2 DEF RelayDeviceRecord
<1> QED
  BY <1>3, <1>4, MessageKeepsIInv DEF ProviderSnapshot

LEMMA PeerCloseKeepsIInv ==
  ASSUME IInv, NEW s \in Sockets, PeerClose(s)
  PROVE  IInv'
<1>1. ConnectionInv'
  BY DEF IInv, ConnectionInv, Socket, PeerClose
<1>2. SocketInv'
  <2> SUFFICES ASSUME NEW x \in DeviceIds PROVE SoundRecord(x)'
    BY DEF SocketInv
  <2>1. SoundRecord(x) /\ devices[x] \in RelayDeviceRecord \cup {None}
    BY DEF IInv, SocketInv, DataInv, Registry
  <2> QED
    BY <2>1 DEF SoundRecord, RelayDeviceRecord, IsOpen, PeerClose, IInv, ConnectionInv
<1> QED
  BY <1>1, <1>2 DEF IInv, DataInv, FileInv, PeerClose

LEMMA SocketClosedKeepsIInv ==
  ASSUME IInv, NEW s \in Sockets, SocketClosed(s)
  PROVE  IInv'
<1> DEFINE d == sockets[s].bound
<1>1. d \in DeviceIds \cup {None} /\ devices \in Registry
  BY DEF IInv, ConnectionInv, Socket, DataInv
<1>2. ASSUME NEW x \in DeviceIds
      PROVE  /\ devices'[x] = IF x = d THEN Detached(s, devices[x]) ELSE devices[x]
             /\ devices[x] \in RelayDeviceRecord \cup {None}
             /\ Detached(s, devices[x]) \in RelayDeviceRecord \cup {None}
             /\ devices[x] # None =>
                  /\ Detached(s, devices[x]) # None
                  /\ Detached(s, devices[x]).queue = devices[x].queue
  BY <1>1, NoneAssumption DEF SocketClosed, Registry, Detached, RelayDeviceRecord
<1>3. devices' \in Registry
  BY <1>1, <1>2 DEF SocketClosed, Registry
<1>4. WithinLimit(devices')
  <2>1. ASSUME NEW x \in DeviceIds, devices'[x] # None
        PROVE  devices[x] # None /\ devices'[x].queue = devices[x].queue
    BY <1>2, <2>1 DEF Detached
  <2> QED
    BY <2>1 DEF WithinLimit, IInv, DataInv
<1>5. DataInv'
  BY <1>2, <1>3, <1>4, RecordsInPlace DEF SocketClosed
<1>6. FileInv(store)'
  BY <1>5, SaveStep DEF SocketClosed, IInv, FileInv
<1>7. ConnectionInv'
  BY DEF IInv, ConnectionInv, Socket, FreeSocket, SocketClosed
<1>8. SocketInv'
  <2> SUFFICES ASSUME NEW x \in DeviceIds, devices'[x] # None PROVE SoundRecord(x)'
    BY DEF SocketInv, SoundRecord
  <2>1. SoundRecord(x) /\ devices[x] # None /\ devices[x] \in RelayDeviceRecord
    BY <1>2 DEF IInv, SocketInv, Detached
  <2>2. CASE devices[x].socket = s
    <3>1. x = d
      BY <2>1, <2>2, NoneAssumption DEF SoundRecord
    <3>2. devices'[x].socket = None
      BY <1>2, <2>1, <2>2, <3>1 DEF Detached, RelayDeviceRecord
    <3> QED
      BY <3>2 DEF SoundRecord, IsOpen
  <2>3. CASE devices[x].socket # s
    <3>1. devices'[x] = devices[x]
      BY <1>2, <2>1, <2>3 DEF Detached
    <3>2. devices[x].socket \in (Sockets \cup {None}) \ {s}
      BY <2>1, <2>3 DEF RelayDeviceRecord
    <3> QED
      BY <2>1, <3>1, <3>2 DEF SoundRecord, IsOpen, SocketClosed, IInv, ConnectionInv
  <2> QED
    BY <2>2, <2>3
<1> QED
  BY <1>5, <1>6, <1>7, <1>8 DEF IInv, SocketClosed

----------------------------------------------------------------------------
(* Application requests *)

LEMMA SendToSocketKeepsIInv ==
  ASSUME IInv, NEW d \in DeviceIds, NEW e \in Envelopes, SendToSocket(d, e)
  PROVE  IInv'
<1>1. SocketInv'
  BY DEF IInv, SocketInv, SoundRecord, IsOpen, SendToSocket
<1> QED
  BY <1>1 DEF IInv, DataInv, FileInv, ConnectionInv, SendToSocket

LEMMA QueueForDeviceKeepsIInv ==
  ASSUME IInv, NEW d \in DeviceIds, NEW e \in Envelopes, QueueForDevice(d, e)
  PROVE  IInv'
<1> DEFINE q == QueueOfflineEnvelope(devices[d].queue, e)
           new == [devices[d] EXCEPT !.queue = q]
<1>1. devices[d] \in RelayDeviceRecord /\ devices \in Registry
  BY DEF QueueForDevice, IInv, DataInv, Registry
<1>2. q \in Queues /\ (QueueLimit >= 2 => Len(q) <= QueueLimit)
  BY <1>1, QueueOfflineEnvelopeBounded DEF RelayDeviceRecord, Queues
<1> HIDE DEF q
<1>3. /\ new \in RelayDeviceRecord
      /\ new.queue = q /\ new.socket = devices[d].socket
  BY <1>1, <1>2 DEF RelayDeviceRecord, Queues
<1> HIDE DEF new
<1>4. /\ devices'[d] = new
      /\ \A x \in DeviceIds \ {d} : devices'[x] = devices[x]
      /\ devices' = [devices EXCEPT ![d] = new]
  BY <1>1 DEF QueueForDevice, Registry, new, q
<1>5. devices' \in Registry
  BY <1>1, <1>3, <1>4 DEF Registry
<1>6. WithinLimit(devices')
  BY <1>2, <1>3, <1>4 DEF WithinLimit, IInv, DataInv
<1>7. DataInv'
  BY <1>3, <1>4, <1>5, <1>6, NoneAssumption, RecordsInPlace DEF QueueForDevice
<1>8. FileInv(store)'
  BY <1>7, SaveStep DEF QueueForDevice
<1>9. SocketInv'
  <2> SUFFICES ASSUME NEW x \in DeviceIds PROVE SoundRecord(x)'
    BY DEF SocketInv
  <2>1. CASE x = d
    BY <1>3, <1>4, <2>1 DEF IInv, SocketInv, SoundRecord, IsOpen, QueueForDevice
  <2>2. CASE x # d
    BY <1>4, <2>2, SoundRecordKept DEF QueueForDevice
  <2> QED
    BY <2>1, <2>2
<1> QED
  BY <1>7, <1>8, <1>9 DEF IInv, ConnectionInv, QueueForDevice

----------------------------------------------------------------------------
(* Presence, time and restarts *)

LEMMA PresenceWatchdogKeepsIInv ==
  ASSUME IInv, PresenceWatchdog
  PROVE  IInv'
<1> DEFINE expired(x) == [devices[x] EXCEPT !.status = "offline", !.socket = None]
<1>1. ASSUME NEW x \in DeviceIds
      PROVE  /\ devices'[x] = IF IsStale(x) THEN expired(x) ELSE devices[x]
             /\ devices[x] \in RelayDeviceRecord \cup {None}
             /\ IsStale(x) => /\ devices[x] # None /\ expired(x) \in RelayDeviceRecord
                              /\ expired(x).queue = devices[x].queue
                              /\ expired(x).socket = None
  BY DEF PresenceWatchdog, IInv, DataInv, Registry, RelayDeviceRecord, IsStale
<1>2. devices' \in Registry
  <2>1. ASSUME NEW x \in DeviceIds
        PROVE  (IF IsStale(x) THEN expired(x) ELSE devices[x]) \in RelayDeviceRecord \cup {None}
    BY <1>1
  <2> QED
    BY <2>1 DEF PresenceWatchdog, Registry
<1> HIDE DEF expired
<1>3. WithinLimit(devices')
  BY <1>1 DEF WithinLimit, IInv, DataInv
<1>4. DataInv'
  BY <1>1, <1>2, <1>3, NoneAssumption, RecordsInPlace DEF PresenceWatchdog
<1>5. FileInv(store)'
  BY <1>4, SaveStep DEF PresenceWatchdog
<1>6. ASSUME NEW s \in Sockets
      PROVE  /\ sockets'[s] \in Socket
             /\ sockets'[s].state = sockets[s].state \/ sockets'[s].state = "closing"
             /\ sockets[s].state = "free" => sockets'[s].state = "free"
             /\ sockets'[s].device = sockets[s].device
             /\ sockets'[s].bound = sockets[s].bound
  <2> DEFINE closes == IsOpen(s) /\ \E d \in DeviceIds : IsStale(d) /\ devices[d].socket = s
  <2>1. sockets[s] \in Socket /\ (closes => sockets[s].state = "open")
    BY DEF IInv, ConnectionInv, IsOpen
  <2>2. sockets'[s] = IF closes THEN [sockets[s] EXCEPT !.state = "closing"] ELSE sockets[s]
    BY DEF PresenceWatchdog
  <2> HIDE DEF closes
  <2> QED
    BY <2>1, <2>2 DEF Socket
<1>7. ConnectionInv'
  <2>1. ASSUME NEW s \in Sockets
        PROVE  sockets'[s] \in Socket /\ (sockets'[s].state # "free" => sockets'[s].device # None)
    BY <1>6 DEF IInv, ConnectionInv
  <2>2. sockets' = [s \in Sockets |-> sockets'[s]]
    BY DEF PresenceWatchdog
  <2> QED
    BY <2>1, <2>2 DEF ConnectionInv
<1>8. SocketInv'
  <2> SUFFICES ASSUME NEW x \in DeviceIds, devices'[x] # None PROVE SoundRecord(x)'
    BY DEF SocketInv, SoundRecord
  <2>1. CASE IsStale(x)
    BY <1>1, <2>1 DEF SoundRecord, IsOpen
  <2>2. CASE ~IsStale(x)
    <3>1. SoundRecord(x) /\ devices'[x] = devices[x] /\ devices[x] \in RelayDeviceRecord
      BY <1>1, <2>2 DEF IInv, SocketInv
    <3>2. CASE devices[x].socket = None
      BY <3>1, <3>2 DEF SoundRecord, IsOpen
    <3>3. CASE devices[x].socket \in Sockets
      BY <1>6, <3>1, <3>3 DEF SoundRecord, IsOpen
    <3> QED
      BY <3>1, <3>2, <3>3 DEF RelayDeviceRecord
  <2> QED
    BY <2>1, <2>2
<1> QED
  BY <1>4, <1>5, <1>7, <1>8 DEF IInv, PresenceWatchdog

\* An age stays in its range.
LEMMA OlderIsAge ==
  ASSUME NEW last \in Nat, NEW age \in (0..last) \cup {None}
  PROVE  /\ Older(age, last) \in (0..last) \cup {None}
         /\ age # None => Older(age, last) \in 0..last
BY DEF Older

\* An older queue is a queue of the same length.
LEMMA OlderQueueIsQueue ==
  ASSUME NEW q \in Queues
  PROVE  OlderQueue(q) \in Queues /\ Len(OlderQueue(q)) = Len(q)
<1> DEFINE n == Len(q)
<1>1. n \in Nat /\ q \in [1..n -> QueuedEnvelope] /\ DOMAIN q = 1..n
  BY LenProperties DEF Queues
<1>2. ASSUME NEW i \in 1..n
      PROVE  [q[i] EXCEPT !.age = Older(@, QueueTtl)] \in QueuedEnvelope
  <2>1. q[i] \in QueuedEnvelope
    BY <1>1
  <2>2. Older(q[i].age, QueueTtl) \in 0..QueueTtl
    BY <2>1, RelayAssumption DEF Older, QueuedEnvelope
  <2> QED
    BY <2>1, <2>2 DEF QueuedEnvelope
<1>3. OlderQueue(q) \in [1..n -> QueuedEnvelope]
  BY <1>1, <1>2 DEF OlderQueue
<1>4. OlderQueue(q) \in Seq(QueuedEnvelope)
  BY <1>1, <1>3, SeqDef
<1> QED
  BY <1>1, <1>3, <1>4, LenProperties DEF Queues

LEMMA OlderSessionsIsSessions ==
  ASSUME NEW sessions \in Sessions
  PROVE  /\ OlderSessions(sessions) \in Sessions
         /\ \A c \in Codes : /\ OlderSessions(sessions)[c].presence = sessions[c].presence
                             /\ OlderSessions(sessions)[c].device = sessions[c].device
<1> DEFINE new(c) == [sessions[c] EXCEPT !.left = IF @ < 0 THEN @ ELSE @ - 1]
<1>1. ASSUME NEW c \in Codes
      PROVE  /\ new(c) \in PairingSession
             /\ new(c).presence = sessions[c].presence
             /\ new(c).device = sessions[c].device
  <2>1. sessions[c] \in PairingSession
    BY DEF Sessions
  <2>2. (IF sessions[c].left < 0 THEN sessions[c].left ELSE sessions[c].left - 1)
          \in -1..PairingTtl
    BY <2>1, RelayAssumption DEF PairingSession
  <2> QED
    BY <2>1, <2>2 DEF PairingSession
<1> HIDE DEF new
<1>2. OlderSessions(sessions) = [c \in Codes |-> new(c)]
  BY DEF OlderSessions, new
<1> QED
  BY <1>1, <1>2 DEF Sessions

\* An older record, in memory or in the store, differs in its instants only.
LEMMA OlderRecordIsRecord ==
  /\ \A r \in RelayDeviceRecord :
       /\ OlderRecord(r) \in RelayDeviceRecord
       /\ OlderRecord(r).socket = r.socket /\ OlderRecord(r).status = r.status
       /\ OlderRecord(r).queue = OlderQueue(r.queue)
  /\ \A r \in StoredRecord :
       /\ OlderRecord(r) \in StoredRecord
       /\ OlderRecord(r).queue = OlderQueue(r.queue)
<1>1. HeartbeatStale + 1 \in Nat
  BY RelayAssumption
<1>2. \A age \in Age \cup {None} : Older(age, HeartbeatStale + 1) \in Age \cup {None}
  BY <1>1, OlderIsAge DEF Age
<1>3. \A q \in Seq(QueuedEnvelope) : OlderQueue(q) \in Seq(QueuedEnvelope)
  BY OlderQueueIsQueue DEF Queues
<1>4. ASSUME NEW r \in RelayDeviceRecord
      PROVE  /\ OlderRecord(r) \in RelayDeviceRecord
             /\ OlderRecord(r).socket = r.socket /\ OlderRecord(r).status = r.status
             /\ OlderRecord(r).queue = OlderQueue(r.queue)
  BY <1>2, <1>3, NoneAssumption DEF OlderRecord, RelayDeviceRecord
<1>5. ASSUME NEW r \in StoredRecord
      PROVE  /\ OlderRecord(r) \in StoredRecord
             /\ OlderRecord(r).queue = OlderQueue(r.queue)
  BY <1>2, <1>3, NoneAssumption DEF OlderRecord, StoredRecord
<1> QED
  BY <1>4, <1>5

LEMMA TickKeepsIInv ==
  ASSUME IInv, Tick
  PROVE  IInv'
<1>1. ASSUME NEW x \in DeviceIds
      PROVE  /\ devices'[x] = OlderRecord(devices[x])
             /\ devices'[x] \in RelayDeviceRecord \cup {None}
             /\ devices'[x] # None <=> devices[x] # None
             /\ devices[x] # None =>
                  /\ devices'[x].socket = devices[x].socket
                  /\ devices'[x].status = devices[x].status
                  /\ devices'[x].queue = OlderQueue(devices[x].queue)
                  /\ Len(devices'[x].queue) = Len(devices[x].queue)
                  /\ devices[x].queue \in Queues
  <2>1. devices[x] \in RelayDeviceRecord \cup {None} /\ devices'[x] = OlderRecord(devices[x])
    BY DEF IInv, DataInv, Registry, Tick
  <2>2. CASE devices[x] = None
    BY <2>1, <2>2 DEF OlderRecord
  <2>3. CASE devices[x] \in RelayDeviceRecord
    <3>1. devices[x].queue \in Queues
      BY <2>3 DEF RelayDeviceRecord, Queues
    <3> QED
      BY <2>1, <2>3, <3>1, OlderRecordIsRecord, OlderQueueIsQueue, NoneAssumption
  <2> QED
    BY <2>1, <2>2, <2>3
<1>2. devices' \in Registry
  BY <1>1 DEF Tick, Registry
<1>3. WithinLimit(devices')
  BY <1>1 DEF WithinLimit, IInv, DataInv
<1>4. DataInv'
  <2>1. /\ pairingSessions' \in Sessions
        /\ \A c \in Codes : /\ pairingSessions'[c].presence = pairingSessions[c].presence
                            /\ pairingSessions'[c].device = pairingSessions[c].device
    BY OlderSessionsIsSessions DEF Tick, IInv, DataInv
  <2> QED
    BY <1>1, <1>2, <1>3, <2>1 DEF IInv, DataInv, SharesRecord
<1>5. FileInv(store)'
  <2>1. store \in Files /\ WithinLimit(store.devices)
    BY DEF IInv, FileInv
  <2>2. store.sessions \in Sessions
    BY <2>1 DEF Files
  <2>3. /\ store'.sessions \in Sessions
        /\ \A c \in Codes : store'.sessions[c].presence # "shared"
    BY <2>2, OlderSessionsIsSessions DEF Tick, IInv, FileInv
  <2>4. ASSUME NEW x \in DeviceIds
        PROVE  /\ OlderRecord(store.devices[x]) \in StoredRecord \cup {None}
               /\ OlderRecord(store.devices[x]) # None =>
                    /\ store.devices[x] # None
                    /\ Len(OlderRecord(store.devices[x]).queue) = Len(store.devices[x].queue)
    <3>1. CASE store.devices[x] = None
      BY <3>1 DEF OlderRecord
    <3>2. CASE store.devices[x] \in StoredRecord
      <4>1. store.devices[x].queue \in Queues
        BY <3>2 DEF StoredRecord, Queues
      <4> QED
        BY <3>2, <4>1, OlderRecordIsRecord, OlderQueueIsQueue, NoneAssumption
    <3> QED
      BY <2>1, <3>1, <3>2 DEF Files
  <2>5. store'.devices = [x \in DeviceIds |-> OlderRecord(store.devices[x])]
    BY DEF Tick
  <2>6. WithinLimit(store'.devices)
    BY <2>1, <2>4, <2>5 DEF WithinLimit
  <2>7. store' \in Files
    <3>1. store'.devices \in [DeviceIds -> StoredRecord \cup {None}]
      BY <2>4, <2>5
    <3> QED
      BY <2>3, <3>1 DEF Tick, Files
  <2> QED
    BY <2>3, <2>6, <2>7 DEF FileInv
<1>6. SocketInv'
  <2> SUFFICES ASSUME NEW x \in DeviceIds, devices'[x] # None PROVE SoundRecord(x)'
    BY DEF SocketInv, SoundRecord
  <2>1. SoundRecord(x) /\ devices[x] # None /\ sockets' = sockets
    BY <1>1 DEF IInv, SocketInv, Tick
  <2>2. devices[x].queue = <<>> => devices'[x].queue = <<>>
    <3>1. Len(<<>>) = 0
      BY EmptySeq
    <3>2. devices'[x].queue \in Queues
      BY <1>1, <2>1 DEF RelayDeviceRecord, Queues
    <3> QED
      BY <1>1, <2>1, <3>1, <3>2, EmptySeq DEF Queues
  <2> QED
    BY <1>1, <2>1, <2>2 DEF SoundRecord, IsOpen
<1> QED
  BY <1>4, <1>5, <1>6 DEF IInv, ConnectionInv, Tick

\* A start from a good file establishes what it loads.
LEMMA RestartKeepsIInv ==
  ASSUME NEW file, FileInv(file), RestartWith(file)
  PROVE  DataInv' /\ FileInv(store)' /\ ConnectionInv' /\ SocketInv'
<1>1. /\ devices' \in Registry /\ WithinLimit(devices')
      /\ \A x \in DeviceIds : devices'[x] # None => devices'[x].socket = None
  BY LoadIsRegistry DEF FileInv, RestartWith
<1>2. /\ pairingSessions' \in Sessions
      /\ \A c \in Codes : pairingSessions'[c].presence # "shared"
  BY DEF FileInv, Files, RestartWith
<1>3. DataInv'
  BY <1>1, <1>2 DEF DataInv, SharesRecord
<1>4. ConnectionInv'
  BY DEF RestartWith, ConnectionInv, FreeSocket, Socket
<1>5. SocketInv'
  BY <1>1 DEF SocketInv, SoundRecord, IsOpen
<1> QED
  BY <1>3, <1>4, <1>5 DEF FileInv, RestartWith

LEMMA CrashInFlushKeepsIInv ==
  ASSUME IInv, NEW s \in Sockets, CrashInFlush(s)
  PROVE  IInv'
<1> DEFINE q == QueueOf(sockets[s].device)
           unsent == SaveRelayStore(SessionsAfterHello(s), DevicesAfterHello(s, q))
<1>1. IsHello(s) /\ sockets[s].device \in DeviceIds
  BY DEF CrashInFlush, IsHello, IInv, ConnectionInv, Socket
<1>2. q \in Queues /\ (QueueLimit >= 2 => Len(q) <= QueueLimit)
  BY <1>1, QueueOfIsQueue
<1> HIDE DEF q
<1>3. FileInv(unsent)
  BY <1>1, <1>2, HelloData, SaveIsFile DEF FileInv
<1>4. RestartWith(unsent)
  BY DEF CrashInFlush, q
<1> HIDE DEF unsent
<1>5. DataInv' /\ FileInv(store)' /\ ConnectionInv' /\ SocketInv'
  BY <1>3, <1>4, RestartKeepsIInv
<1>6. writes' \in [Envelopes -> Nat]
  <2>1. Unexpired(q) \in Queues
    BY <1>2, UnexpiredIsQueue
  <2>2. PICK n \in 1..Len(Unexpired(q)) : writes' = Written(SubSeq(Unexpired(q), 1, n))
    BY DEF CrashInFlush, q
  <2> DEFINE sent == SubSeq(Unexpired(q), 1, n)
  <2>3. sent \in Queues
    <3>1. Len(Unexpired(q)) \in Nat
      BY <2>1, LenProperties DEF Queues
    <3>2. \A i \in 1..n : Unexpired(q)[i] \in QueuedEnvelope
      BY <2>1, <2>2, <3>1, ElementOfSeq DEF Queues
    <3> QED
      BY <2>2, <3>1, <3>2, SubSeqProperties DEF Queues
  <2> HIDE DEF sent
  <2> QED
    BY <2>2, <2>3, WrittenIsCount DEF IInv, sent
<1>7. flushCrashes' \in 0..MaxFlushCrashes
  BY RelayAssumption DEF CrashInFlush, IInv
<1> QED
  BY <1>5, <1>6, <1>7 DEF IInv

----------------------------------------------------------------------------
(* The theorems *)

LEMMA NextIInv == IInv /\ [Next]_vars => IInv'
<1> SUFFICES ASSUME IInv, [Next]_vars PROVE IInv'
  OBVIOUS
<1>1. CASE UNCHANGED vars
  BY <1>1 DEF vars, IInv, DataInv, FileInv, ConnectionInv, SocketInv, SoundRecord, IsOpen
<1>2. CASE \E c \in Codes : CreatePairingSession(c) \/ ApprovePairingSession(c)
  BY <1>2, CreateKeepsIInv, ApproveKeepsIInv
<1>3. CASE \E c \in Codes, d \in DeviceIds : ClaimPairingSession(c, d)
  BY <1>3, ClaimKeepsIInv
<1>4. CASE \E s \in Sockets, d \in DeviceIds, t \in Codes \cup {None} : Connect(s, d, t)
  BY <1>4, ConnectKeepsIInv
<1>5. ASSUME NEW s \in Sockets,
             \/ Hello(s) \/ Heartbeat(s) \/ ProviderSnapshot(s)
             \/ PeerClose(s) \/ SocketClosed(s) \/ CrashInFlush(s)
      PROVE  IInv'
  BY <1>5, HelloKeepsIInv, HeartbeatKeepsIInv, ProviderSnapshotKeepsIInv,
     PeerCloseKeepsIInv, SocketClosedKeepsIInv, CrashInFlushKeepsIInv
<1>6. ASSUME NEW d \in DeviceIds, NEW e \in Envelopes, RouteAppRequest(d, e)
      PROVE  IInv'
  BY <1>6, SendToSocketKeepsIInv, QueueForDeviceKeepsIInv DEF RouteAppRequest
<1>7. CASE PresenceWatchdog \/ Tick
  BY <1>7, PresenceWatchdogKeepsIInv, TickKeepsIInv
<1>8. CASE Restart
  BY <1>8, RestartKeepsIInv DEF IInv, Restart
<1> QED
  BY <1>1, <1>2, <1>3, <1>4, <1>5, <1>6, <1>7, <1>8 DEF Next

THEOREM Invariance == Spec => []IInv
BY InitIInv, NextIInv, PTL DEF Spec

\* Type correctness: whatever the handlers do, every variable of the relay has
\* its type, and the store that a start reads is well formed.
THEOREM TypeCorrect == Spec => []TypeOK
<1>1. IInv => TypeOK
  BY DEF IInv, DataInv, FileInv, ConnectionInv, Sessions, Registry, Files, TypeOK
<1> QED
  BY <1>1, Invariance, PTL

\* routeAppRequest sends a request to no device but the one it is for: the
\* socket in a record is a live connection of that device.
THEOREM SocketsAreOwned == Spec => []SocketOwnership
<1>1. IInv => SocketOwnership
  BY DEF IInv, SocketInv, SoundRecord, SocketOwnership
<1> QED
  BY <1>1, Invariance, PTL

\* flushQueuedEnvelopes: a connected device has no request waiting, and a
\* device that is shown offline is not connected.
THEOREM ConnectedIsFlushed == Spec => [](ConnectedQueueEmpty /\ OfflineMeansDetached)
<1>1. IInv => ConnectedQueueEmpty /\ OfflineMeansDetached
  BY DEF IInv, SocketInv, SoundRecord, ConnectedQueueEmpty, OfflineMeansDetached
<1> QED
  BY <1>1, Invariance, PTL

\* The offline queue stays within REIKA_RELAY_OFFLINE_QUEUE_LIMIT, in memory and
\* in the store, if that limit is at least 2.  For 1 it does not: slice(-0) is
\* the whole queue.
THEOREM QueuesAreBounded == ASSUME QueueLimit >= 2 PROVE Spec => []QueueBounded
<1>1. IInv => QueueBounded
  BY DEF IInv, DataInv, FileInv, WithinLimit, QueueBounded
<1> QED
  BY <1>1, Invariance, PTL

\* What a step leaves of the attachment of d.
StaysAttached(d) ==
  devices[d] # None /\ IsOpen(devices[d].socket) /\ sockets'[devices[d].socket].state = "open"
    => devices'[d] = None \/ devices'[d].socket # None

\* A step that leaves the record of d on its socket, or replaces it there.
LEMMA SameSocketStays ==
  ASSUME NEW d \in DeviceIds,
         devices[d] # None => \/ devices'[d] = None
                              \/ devices'[d].socket = devices[d].socket
                              \/ devices'[d].socket # None
  PROVE  StaysAttached(d)
BY DEF StaysAttached, IsOpen

LEMMA NextStaysAttached ==
  ASSUME IInv, [Next]_vars, NEW d \in DeviceIds
  PROVE  StaysAttached(d)
<1> SUFFICES ASSUME devices[d] # None, IsOpen(devices[d].socket) PROVE StaysAttached(d)
  BY DEF StaysAttached
<1>1. /\ devices \in Registry /\ devices[d] \in RelayDeviceRecord
      /\ devices[d].socket \in Sockets /\ SoundRecord(d)
  BY DEF IInv, DataInv, Registry, RelayDeviceRecord, IsOpen, SocketInv
<1>2. CASE devices' = devices
  BY <1>2, SameSocketStays
<1>3. ASSUME NEW c \in Codes, ApprovePairingSession(c) PROVE StaysAttached(d)
  <2>1. \/ devices'[d] = devices[d]
        \/ \E status : devices'[d] = [devices[d] EXCEPT
                                        !.status = IF IsOpen(@.socket) THEN "online" ELSE status]
    BY <1>1, <1>3 DEF ApprovePairingSession, Registry, UpsertDevice
  <2> QED
    BY <1>1, <2>1, SameSocketStays DEF RelayDeviceRecord
<1>4. ASSUME NEW s \in Sockets, Hello(s) PROVE StaysAttached(d)
  <2>1. UpsertDevice(devices[d], "offline") \in RelayDeviceRecord
    BY <1>1, UpsertDeviceIsRecord
  <2>2. \/ devices'[d] = [UpsertDevice(devices[d], "offline") EXCEPT
                            !.socket = s, !.status = "online", !.queue = <<>>]
        \/ devices'[d] = None \/ devices'[d] = devices[d]
    BY <1>4 DEF Hello, DevicesAfterHello, QueueAfterFlush
  <2> QED
    BY <2>1, <2>2, NoneAssumption, SameSocketStays DEF RelayDeviceRecord
<1>5. ASSUME NEW s \in Sockets, Heartbeat(s) \/ ProviderSnapshot(s) PROVE StaysAttached(d)
  <2>1. sockets[s].bound \in DeviceIds
    BY <1>5 DEF Heartbeat, ProviderSnapshot, IsBound, IInv, ConnectionInv, Socket
  <2>2. \/ devices'[d] = devices[d]
        \/ devices'[d] = [devices[d] EXCEPT !.status = "online"]
        \/ \E lag \in 0..HeartbeatLag :
             devices'[d] = [devices[d] EXCEPT !.lastHeartbeatAt = lag, !.status = "online"]
    BY <1>1, <1>5, <2>1 DEF Heartbeat, ProviderSnapshot, Registry
  <2> QED
    BY <1>1, <2>2, SameSocketStays DEF RelayDeviceRecord
<1>6. ASSUME NEW s \in Sockets, SocketClosed(s) PROVE StaysAttached(d)
  <2>1. CASE devices[d].socket = s
    <3>1. sockets'[s].state # "open"
      BY <1>6 DEF SocketClosed, FreeSocket, IInv, ConnectionInv
    <3> QED
      BY <2>1, <3>1 DEF StaysAttached
  <2>2. CASE devices[d].socket # s
    <3>1. devices'[d] = devices[d]
      BY <1>1, <1>6, <2>2 DEF SocketClosed, Detached, Registry
    <3> QED
      BY <3>1, SameSocketStays
  <2> QED
    BY <2>1, <2>2
<1>7. CASE PresenceWatchdog
  <2>1. CASE IsStale(d)
    <3>1. sockets'[devices[d].socket].state = "closing"
      BY <1>1, <1>7, <2>1 DEF PresenceWatchdog, IInv, ConnectionInv, Socket
    <3> QED
      BY <3>1 DEF StaysAttached
  <2>2. CASE ~IsStale(d)
    BY <1>7, <2>2, SameSocketStays DEF PresenceWatchdog
  <2> QED
    BY <2>1, <2>2
<1>8. ASSUME NEW x \in DeviceIds, NEW e \in Envelopes, QueueForDevice(x, e)
      PROVE  StaysAttached(d)
  <2>1. \/ devices'[d] = devices[d]
        \/ \E q : devices'[d] = [devices[d] EXCEPT !.queue = q]
    BY <1>1, <1>8 DEF QueueForDevice, Registry
  <2> QED
    BY <1>1, <2>1, SameSocketStays DEF RelayDeviceRecord
<1>9. CASE Tick
  <2>1. devices'[d] = OlderRecord(devices[d])
    BY <1>9 DEF Tick
  <2> QED
    BY <1>1, <2>1, OlderRecordIsRecord, SameSocketStays
<1>10. ASSUME NEW file, RestartWith(file) PROVE StaysAttached(d)
  BY <1>1, <1>10 DEF RestartWith, FreeSocket, StaysAttached
<1>11. CASE UNCHANGED vars
  BY <1>2, <1>11 DEF vars
<1>12. CASE \/ \E c \in Codes : CreatePairingSession(c) \/ ApprovePairingSession(c)
            \/ \E c \in Codes, x \in DeviceIds : ClaimPairingSession(c, x)
            \/ \E s \in Sockets, x \in DeviceIds, t \in Codes \cup {None} : Connect(s, x, t)
            \/ \E x \in DeviceIds, e \in Envelopes : RouteAppRequest(x, e)
  BY <1>2, <1>3, <1>8, <1>12
    DEF CreatePairingSession, ClaimPairingSession, Connect, RouteAppRequest, SendToSocket
<1>13. CASE \E s \in Sockets : \/ Hello(s) \/ Heartbeat(s) \/ ProviderSnapshot(s)
                               \/ PeerClose(s) \/ SocketClosed(s) \/ CrashInFlush(s)
  BY <1>2, <1>4, <1>5, <1>6, <1>10, <1>13 DEF PeerClose, CrashInFlush
<1> QED
  BY <1>7, <1>9, <1>10, <1>11, <1>12, <1>13 DEF Next, Restart

\* The close event of an old connection, which comes after the hello of the new
\* one, does not detach the new one; nor does any other step.
THEOREM ReplacedStaysAttached == Spec => AttachedStays
<1>1. IInv /\ [Next]_vars => \A d \in DeviceIds : StaysAttached(d)
  BY NextStaysAttached
<1> QED
  BY <1>1, Invariance, PTL DEF Spec, AttachedStays, StaysAttached

----------------------------------------------------------------------------
(* The store and the requests that wait in a queue *)

OldestFirst(q) == \A i, j \in 1..Len(q) : i <= j => q[i].age >= q[j].age

AllExpired(q) == \A i \in 1..Len(q) : q[i].age >= QueueTtl

\* A stored record is what a restart needs of the record: its queue is the
\* same, or a hello dropped the expired items of it without a save.
HoldsRecord(stored, r) ==
  IF r = None THEN stored = None
  ELSE /\ stored # None
       /\ stored.lastHeartbeatAt = r.lastHeartbeatAt
       /\ stored.queue = r.queue \/ (r.queue = <<>> /\ AllExpired(stored.queue))

\* The file is what a restart needs of the sessions and of the registry.
Holds(file, sessions, registry) ==
  /\ file.sessions = Unshared(sessions, registry, DeviceIds)
  /\ \A d \in DeviceIds : HoldsRecord(file.devices[d], registry[d])

StoreInv == Holds(store, pairingSessions, devices)

KeptInv == StoreInv /\ QueueOldestFirst

----------------------------------------------------------------------------
(* The queue operators *)

LEMMA ItemsOfQueue ==
  ASSUME NEW q \in Queues
  PROVE  /\ Len(q) \in Nat /\ DOMAIN q = 1..Len(q)
         /\ \A i \in 1..Len(q) :
              q[i] \in QueuedEnvelope /\ q[i].envelope \in Envelopes /\ q[i].age \in 0..QueueTtl
<1>1. Len(q) \in Nat /\ DOMAIN q = 1..Len(q)
  BY LenProperties DEF Queues
<1>2. \A i \in 1..Len(q) : q[i] \in QueuedEnvelope
  BY ElementOfSeq DEF Queues
<1> QED
  BY <1>1, <1>2 DEF QueuedEnvelope

\* The items of the rest of a queue, one by one.
LEMMA RestOfQueue ==
  ASSUME NEW q \in Queues, NEW m \in 1..(Len(q) + 1)
  PROVE  /\ SubSeq(q, m, Len(q)) \in Queues
         /\ Len(SubSeq(q, m, Len(q))) = Len(q) - m + 1
         /\ \A i \in 1..(Len(q) - m + 1) : SubSeq(q, m, Len(q))[i] = q[m + i - 1]
<1>1. Len(q) \in Nat /\ \A i \in 1..Len(q) : q[i] \in QueuedEnvelope
  BY LenProperties, ElementOfSeq DEF Queues
<1>2. \A i \in m..Len(q) : q[i] \in QueuedEnvelope
  BY <1>1
<1>3. m \in Int /\ Len(q) \in Int
  BY <1>1
<1> QED
  BY <1>1, <1>2, <1>3, SubSeqProperties DEF Queues

\* How many items of a queue are expired.
Expired(q) == Cardinality({i \in DOMAIN q : q[i].age >= QueueTtl})

LEMMA ExpiredCount ==
  ASSUME NEW q \in Queues
  PROVE  /\ Len(q) \in Nat /\ Expired(q) \in 0..Len(q)
         /\ Expired(q) = Len(q) <=> AllExpired(q)
         /\ OldestFirst(q) =>
              \A i \in 1..Len(q) : q[i].age < QueueTtl => Expired(q) < i
<1>1. /\ DOMAIN q = 1..Len(q) /\ Len(q) \in Nat /\ QueueTtl \in Nat
      /\ \A i \in 1..Len(q) : q[i].age \in Int
  BY ItemsOfQueue, RelayAssumption
<1>2. PICK old : old = {i \in 1..Len(q) : q[i].age >= QueueTtl}
  OBVIOUS
<1>3. Expired(q) = Cardinality(old)
  BY <1>1, <1>2 DEF Expired
<1>4. old \in SUBSET (1..Len(q)) /\ IsFiniteSet(1..Len(q)) /\ Cardinality(1..Len(q)) = Len(q)
  BY <1>1, <1>2, FS_Interval
<1>5. IsFiniteSet(old) /\ Cardinality(old) \in Nat
  BY <1>4, FS_Subset, FS_CardinalityType
<1>6. Cardinality(old) <= Len(q) /\ (Cardinality(old) = Len(q) => old = 1..Len(q))
  BY <1>4, FS_Subset
<1>7. old = 1..Len(q) <=> AllExpired(q)
  BY <1>2 DEF AllExpired
<1>8. ASSUME OldestFirst(q), NEW i \in 1..Len(q), q[i].age < QueueTtl
      PROVE  Expired(q) < i
  <2>1. \A k \in old : k <= i - 1
    BY <1>1, <1>2, <1>8 DEF OldestFirst
  <2>2. old \in SUBSET (1..(i - 1)) /\ i - 1 \in Nat
    BY <1>1, <1>4, <2>1
  <2>3. IsFiniteSet(1..(i - 1)) /\ Cardinality(1..(i - 1)) = i - 1
    BY <2>2, FS_Interval
  <2>4. Cardinality(old) <= i - 1
    BY <2>2, <2>3, FS_Subset
  <2> QED
    BY <1>3, <1>5, <2>2, <2>4
<1> QED
  BY <1>1, <1>3, <1>4, <1>5, <1>6, <1>7, <1>8

\* What Unexpired returns: the items after the expired ones.
LEMMA UnexpiredIsRest ==
  ASSUME NEW q \in Queues
  PROVE  /\ Unexpired(q) \in Queues
         /\ Len(Unexpired(q)) = Len(q) - Expired(q)
         /\ \A i \in 1..(Len(q) - Expired(q)) : Unexpired(q)[i] = q[Expired(q) + i]
<1>1. Len(q) \in Nat /\ Expired(q) \in 0..Len(q)
  BY ExpiredCount
<1>2. Expired(q) + 1 \in 1..(Len(q) + 1)
  BY <1>1
<1>3. Unexpired(q) = SubSeq(q, Expired(q) + 1, Len(q))
  BY DEF Unexpired, Expired
<1>4. Len(q) - (Expired(q) + 1) + 1 = Len(q) - Expired(q)
  BY <1>1
<1>5. \A i \in 1..(Len(q) - Expired(q)) : (Expired(q) + 1) + i - 1 = Expired(q) + i
  BY <1>1
<1> QED
  BY <1>2, <1>3, <1>4, <1>5, RestOfQueue

\* Nothing is left of a queue if and only if all of it is expired.
LEMMA UnexpiredIsEmpty ==
  ASSUME NEW q \in Queues
  PROVE  Unexpired(q) = <<>> <=> AllExpired(q)
<1>1. /\ Unexpired(q) \in Queues /\ Len(Unexpired(q)) = Len(q) - Expired(q)
      /\ Len(q) \in Nat /\ Expired(q) \in 0..Len(q)
      /\ Expired(q) = Len(q) <=> AllExpired(q)
  BY UnexpiredIsRest, ExpiredCount
<1>2. Unexpired(q) = <<>> <=> Len(Unexpired(q)) = 0
  BY <1>1, EmptySeq DEF Queues
<1> QED
  BY <1>1, <1>2

\* In a queue that has its oldest items first, Unexpired drops no other.
LEMMA UnexpiredKeeps ==
  ASSUME NEW q \in Queues, OldestFirst(q), NEW i \in 1..Len(q), q[i].age < QueueTtl
  PROVE  \E j \in 1..Len(Unexpired(q)) : Unexpired(q)[j] = q[i]
<1>1. Len(q) \in Nat /\ Expired(q) \in 0..Len(q) /\ Expired(q) < i
  BY ExpiredCount
<1>2. /\ i - Expired(q) \in 1..(Len(q) - Expired(q))
      /\ Expired(q) + (i - Expired(q)) = i
  BY <1>1
<1> QED
  BY <1>2, UnexpiredIsRest

\* The rest of a queue has its oldest items first if the queue has.
LEMMA RestIsOldestFirst ==
  ASSUME NEW q \in Queues, OldestFirst(q), NEW m \in 1..(Len(q) + 1)
  PROVE  OldestFirst(SubSeq(q, m, Len(q)))
<1> DEFINE rest == SubSeq(q, m, Len(q))
<1>1. /\ Len(q) \in Nat /\ Len(rest) = Len(q) - m + 1
      /\ \A i \in 1..(Len(q) - m + 1) : rest[i] = q[m + i - 1]
  BY RestOfQueue, LenProperties DEF Queues
<1> HIDE DEF rest
<1>2. ASSUME NEW i \in 1..Len(rest), NEW j \in 1..Len(rest), i <= j
      PROVE  rest[i].age >= rest[j].age
  <2>1. /\ m + i - 1 \in 1..Len(q) /\ m + j - 1 \in 1..Len(q)
        /\ m + i - 1 <= m + j - 1
    BY <1>1, <1>2
  <2>2. rest[i] = q[m + i - 1] /\ rest[j] = q[m + j - 1]
    BY <1>1
  <2> QED
    BY <2>1, <2>2 DEF OldestFirst
<1> QED
  BY <1>2 DEF OldestFirst, rest

LEMMA SliceLastIsRest ==
  ASSUME NEW q \in Queues, NEW n \in Nat
  PROVE  \E m \in 1..(Len(q) + 1) :
           /\ SliceLast(q, n) = SubSeq(q, m, Len(q))
           /\ m = 1 \/ Len(SliceLast(q, n)) = n
<1>1. Len(q) \in Nat
  BY ItemsOfQueue
<1>2. CASE n = 0 \/ n >= Len(q)
  <2>1. SubSeq(q, 1, Len(q)) = q
    BY SubSeqFull DEF Queues
  <2>2. SliceLast(q, n) = SubSeq(q, 1, Len(q)) /\ 1 \in 1..(Len(q) + 1)
    BY <1>1, <1>2, <2>1 DEF SliceLast
  <2> QED
    BY <2>2
<1>3. CASE n # 0 /\ n < Len(q)
  <2>1. Len(q) - n + 1 \in 1..(Len(q) + 1) /\ Len(q) - (Len(q) - n + 1) + 1 = n
    BY <1>1, <1>3
  <2>2. SliceLast(q, n) = SubSeq(q, Len(q) - n + 1, Len(q))
    BY <1>1, <1>3 DEF SliceLast
  <2>3. Len(SubSeq(q, Len(q) - n + 1, Len(q))) = n
    BY <2>1, RestOfQueue
  <2> QED
    BY <2>1, <2>2, <2>3
<1> QED
  BY <1>1, <1>2, <1>3

\* queueOfflineEnvelope: the queue keeps its order, and loses an item that is
\* not expired only at the limit.
LEMMA QueueOfflineEnvelopeKeeps ==
  ASSUME NEW q \in Queues, NEW e \in Envelopes, OldestFirst(q)
  PROVE  /\ OldestFirst(QueueOfflineEnvelope(q, e))
         /\ \A i \in 1..Len(q) :
              \/ q[i].age >= QueueTtl
              \/ q[i].envelope \in Queued(QueueOfflineEnvelope(q, e))
              \/ Len(QueueOfflineEnvelope(q, e)) = QueueLimit
<1> DEFINE fresh == [envelope |-> e, age |-> 0]
<1>1. QueueLimit \in Nat \ {0} /\ QueueTtl \in Nat /\ QueueLimit - 1 \in Nat
  BY RelayAssumption
<1>2. PICK u \in Queues : u = Unexpired(q) /\ OldestFirst(u)
  <2>1. Expired(q) + 1 \in 1..(Len(q) + 1)
    BY ExpiredCount
  <2>2. Unexpired(q) = SubSeq(q, Expired(q) + 1, Len(q))
    BY DEF Unexpired, Expired
  <2> QED
    BY <2>1, <2>2, RestIsOldestFirst, UnexpiredIsRest
<1>3. PICK m \in 1..(Len(u) + 1) :
        /\ SliceLast(u, QueueLimit - 1) = SubSeq(u, m, Len(u))
        /\ m = 1 \/ Len(SliceLast(u, QueueLimit - 1)) = QueueLimit - 1
  BY <1>1, SliceLastIsRest
<1>4. PICK k \in Queues :
        /\ k = SubSeq(u, m, Len(u)) /\ OldestFirst(k)
        /\ m = 1 => k = u
        /\ m = 1 \/ Len(k) = QueueLimit - 1
  <2>1. m = 1 => SubSeq(u, m, Len(u)) = u
    BY SubSeqFull DEF Queues
  <2> QED
    BY <1>2, <1>3, <2>1, RestIsOldestFirst, RestOfQueue
<1>5. fresh \in QueuedEnvelope
  BY <1>1 DEF QueuedEnvelope
<1>6. PICK new \in Queues :
        /\ new = QueueOfflineEnvelope(q, e)
        /\ Len(new) = Len(k) + 1 /\ Len(k) \in Nat
        /\ \A i \in 1..Len(k) : new[i] = k[i]
        /\ new[Len(k) + 1] = fresh
  <2>1. QueueOfflineEnvelope(q, e) = Append(k, fresh)
    BY <1>2, <1>3, <1>4 DEF QueueOfflineEnvelope
  <2> HIDE DEF fresh
  <2> QED
    BY <1>5, <2>1, AppendProperties, ItemsOfQueue DEF Queues
<1>7. OldestFirst(new)
  <2>1. ASSUME NEW i \in 1..Len(new), NEW j \in 1..Len(new), i <= j
        PROVE  new[i].age >= new[j].age
    <3>1. new[i].age \in 0..QueueTtl
      BY ItemsOfQueue
    <3>2. CASE j = Len(k) + 1
      BY <1>1, <1>6, <3>1, <3>2
    <3>3. CASE j # Len(k) + 1
      <4>1. i \in 1..Len(k) /\ j \in 1..Len(k)
        BY <1>6, <2>1, <3>3
      <4> QED
        BY <1>4, <1>6, <2>1, <4>1 DEF OldestFirst
    <3> QED
      BY <3>2, <3>3
  <2> QED
    BY <2>1 DEF OldestFirst
<1>8. ASSUME NEW i \in 1..Len(q), q[i].age < QueueTtl, Len(new) # QueueLimit
      PROVE  q[i].envelope \in Queued(new)
  <2>1. m = 1
    BY <1>1, <1>4, <1>6, <1>8
  <2>2. PICK j \in 1..Len(u) : u[j] = q[i]
    BY <1>2, <1>8, UnexpiredKeeps
  <2>3. j \in 1..Len(new) /\ new[j] = q[i]
    BY <1>4, <1>6, <2>1, <2>2
  <2> QED
    BY <2>3, ItemsOfQueue DEF Queued
<1>9. \A i \in 1..Len(q) : q[i].age \in Int
  BY ItemsOfQueue
<1> QED
  BY <1>1, <1>6, <1>7, <1>8, <1>9

\* Time changes the ages only, and not their order.
LEMMA OlderQueueKeeps ==
  ASSUME NEW q \in Queues
  PROVE  /\ OlderQueue(q) \in Queues /\ Len(OlderQueue(q)) = Len(q)
         /\ OldestFirst(q) => OldestFirst(OlderQueue(q))
         /\ AllExpired(q) => AllExpired(OlderQueue(q))
         /\ Queued(OlderQueue(q)) = Queued(q)
<1>1. /\ Len(q) \in Nat /\ DOMAIN q = 1..Len(q) /\ QueueTtl \in Nat
      /\ \A i \in 1..Len(q) : q[i] \in QueuedEnvelope /\ q[i].age \in 0..QueueTtl
  BY ItemsOfQueue, RelayAssumption
<1>2. OlderQueue(q) \in Queues /\ Len(OlderQueue(q)) = Len(q)
  BY OlderQueueIsQueue
<1>3. ASSUME NEW i \in 1..Len(q)
      PROVE  /\ OlderQueue(q)[i].envelope = q[i].envelope
             /\ OlderQueue(q)[i].age = IF q[i].age >= QueueTtl THEN q[i].age ELSE q[i].age + 1
  <2>1. OlderQueue(q)[i] = [q[i] EXCEPT !.age = Older(q[i].age, QueueTtl)]
    BY <1>1 DEF OlderQueue
  <2>2. q[i].age # None
    BY <1>1, NoneAssumption
  <2> QED
    BY <1>1, <2>1, <2>2 DEF QueuedEnvelope, Older
<1>4. OldestFirst(q) => OldestFirst(OlderQueue(q))
  BY <1>1, <1>2, <1>3, SMTT(40) DEF OldestFirst
<1>5. AllExpired(q) => AllExpired(OlderQueue(q))
  BY <1>1, <1>2, <1>3 DEF AllExpired
<1>6. Queued(OlderQueue(q)) = Queued(q)
  <2>1. DOMAIN OlderQueue(q) = 1..Len(q)
    BY <1>2, ItemsOfQueue
  <2> QED
    BY <1>1, <1>3, <2>1 DEF Queued
<1> QED
  BY <1>2, <1>4, <1>5, <1>6

\* An item of a queue that is written to a socket counts as written.
LEMMA WrittenCounts ==
  ASSUME writes \in [Envelopes -> Nat], NEW q \in Queues, NEW i \in 1..Len(q)
  PROVE  Written(q)[q[i].envelope] > writes[q[i].envelope]
<1>1. Len(q) \in Nat /\ DOMAIN q = 1..Len(q) /\ q[i].envelope \in Envelopes
  BY ItemsOfQueue
<1>2. PICK e \in Envelopes : e = q[i].envelope
  BY <1>1
<1>3. PICK same : same = {j \in 1..Len(q) : q[j].envelope = e}
  OBVIOUS
<1>4. Written(q)[e] = writes[e] + Cardinality(same)
  BY <1>1, <1>3 DEF Written
<1>5. IsFiniteSet(1..Len(q)) /\ same \in SUBSET (1..Len(q)) /\ i \in same
  BY <1>1, <1>2, <1>3, FS_Interval
<1>6. IsFiniteSet(same)
  BY <1>5, FS_Subset
<1>7. Cardinality(same) \in Nat /\ Cardinality(same) # 0
  BY <1>5, <1>6, FS_CardinalityType, FS_EmptySet
<1> QED
  BY <1>2, <1>4, <1>7

----------------------------------------------------------------------------
(* The store holds what a restart needs *)

LEMMA SaveHolds ==
  ASSUME NEW sessions \in Sessions, NEW registry \in Registry
  PROVE  Holds(SaveRelayStore(sessions, registry), sessions, registry)
<1>1. ASSUME NEW d \in DeviceIds PROVE HoldsRecord(Stored(registry[d]), registry[d])
  <2>1. registry[d] \in RelayDeviceRecord \cup {None}
    BY DEF Registry
  <2>2. registry[d] # None =>
          /\ Stored(registry[d]) \in StoredRecord
          /\ Stored(registry[d]).lastHeartbeatAt = registry[d].lastHeartbeatAt
          /\ Stored(registry[d]).queue = registry[d].queue
    BY <2>1 DEF Stored, RelayDeviceRecord, StoredRecord
  <2> QED
    BY <2>2, NoneAssumption DEF HoldsRecord, Stored
<1> QED
  BY <1>1 DEF Holds, SaveRelayStore

LEMMA SavedHolds ==
  ASSUME IInv', Save
  PROVE  StoreInv'
BY SaveHolds DEF IInv, DataInv, Save, StoreInv

\* What a start has read back is what the file holds.
LEMMA LoadHolds ==
  ASSUME NEW file, FileInv(file)
  PROVE  Holds(file, file.sessions, LoadRelayStore(file))
<1>1. /\ file \in Files /\ file.sessions \in Sessions
      /\ \A c \in Codes : file.sessions[c].presence # "shared"
  BY DEF FileInv, Files
<1>2. Unshared(file.sessions, LoadRelayStore(file), DeviceIds) = file.sessions
  BY <1>1 DEF Unshared, Sessions
<1>3. ASSUME NEW d \in DeviceIds
      PROVE  HoldsRecord(file.devices[d], LoadRelayStore(file)[d])
  <2>1. file.devices[d] \in StoredRecord \cup {None}
    BY <1>1 DEF Files
  <2>2. CASE file.devices[d] = None
    BY <2>2 DEF LoadRelayStore, HoldsRecord
  <2>3. CASE file.devices[d] \in StoredRecord
    <3>1. LoadRelayStore(file)[d]
            = [NewRecord EXCEPT !.lastHeartbeatAt = file.devices[d].lastHeartbeatAt,
                                !.queue = file.devices[d].queue]
      BY <2>3, NoneAssumption DEF LoadRelayStore
    <3>2. /\ LoadRelayStore(file)[d] \in RelayDeviceRecord
          /\ LoadRelayStore(file)[d].lastHeartbeatAt = file.devices[d].lastHeartbeatAt
          /\ LoadRelayStore(file)[d].queue = file.devices[d].queue
      BY <2>3, <3>1 DEF NewRecord, RelayDeviceRecord, StoredRecord
    <3> QED
      BY <2>3, <3>2, NoneAssumption DEF HoldsRecord
  <2> QED
    BY <2>1, <2>2, <2>3
<1> QED
  BY <1>2, <1>3 DEF Holds

LEMMA RestartHolds ==
  ASSUME NEW file, FileInv(file), RestartWith(file)
  PROVE  StoreInv'
BY LoadHolds DEF RestartWith, StoreInv

\* A hello that finds only expired items drops them without a save.
LEMMA HelloHolds ==
  ASSUME IInv, NEW s \in Sockets, Hello(s)
  PROVE  StoreInv'
<1>1. IsHello(s) /\ sockets[s] \in Socket
  BY DEF Hello, IInv, ConnectionInv
<1>2. PICK d \in DeviceIds : d = sockets[s].device
  BY <1>1, NoneAssumption DEF IsHello, Socket, IInv, ConnectionInv
<1>3. PICK q \in Queues : q = QueueOf(d) /\ (QueueLimit >= 2 => Len(q) <= QueueLimit)
  BY <1>2, QueueOfIsQueue
<1>4. PICK saved \in Queues :
        /\ saved = IF Unexpired(q) = <<>> THEN q ELSE <<>>
        /\ QueueLimit >= 2 => Len(saved) <= QueueLimit
  BY <1>2, <1>3, QueueOfIsQueue, RelayAssumption
<1>5. /\ store' = SaveRelayStore(SessionsAfterHello(s), DevicesAfterHello(s, saved))
      /\ devices' = DevicesAfterHello(s, <<>>) /\ pairingSessions' = SessionsAfterHello(s)
  BY <1>2, <1>3, <1>4 DEF Hello, HelloStore, QueueAfterFlush
<1>6. Holds(store', SessionsAfterHello(s), DevicesAfterHello(s, saved))
  BY <1>1, <1>4, <1>5, SaveHolds, HelloData
<1>7. UpsertDevice(devices[d], "offline") \in RelayDeviceRecord
  <2>1. devices[d] \in RelayDeviceRecord \cup {None}
    BY DEF IInv, DataInv, Registry
  <2> QED
    BY <2>1, UpsertDeviceIsRecord
<1>8. ASSUME NEW queue \in Queues
      PROVE  /\ DevicesAfterHello(s, queue)[d] # None
             /\ DevicesAfterHello(s, queue)[d].status = "online"
             /\ DevicesAfterHello(s, queue)[d].queue = queue
             /\ DevicesAfterHello(s, queue)[d].lastHeartbeatAt
                  = UpsertDevice(devices[d], "offline").lastHeartbeatAt
             /\ \A x \in DeviceIds \ {d} :
                  DevicesAfterHello(s, queue)[x] = DevicesAfterHello(s, <<>>)[x]
  <2>1. DevicesAfterHello(s, queue)[d]
          = [UpsertDevice(devices[d], "offline") EXCEPT
               !.socket = s, !.status = "online", !.queue = queue]
    BY <1>2 DEF DevicesAfterHello
  <2>2. DevicesAfterHello(s, queue)[d] \in RelayDeviceRecord
    BY <1>7, <2>1 DEF RelayDeviceRecord, Queues
  <2>3. DevicesAfterHello(s, queue)[d] # None
    BY <2>2, NoneAssumption
  <2>4. \A x \in DeviceIds \ {d} :
          DevicesAfterHello(s, queue)[x] = DevicesAfterHello(s, <<>>)[x]
    BY <1>2 DEF DevicesAfterHello
  <2> QED
    BY <1>7, <2>1, <2>3, <2>4 DEF RelayDeviceRecord
<1>9. <<>> \in Queues
  BY EmptySeq DEF Queues
<1>10. PICK before, after :
         before = DevicesAfterHello(s, saved) /\ after = DevicesAfterHello(s, <<>>)
  OBVIOUS
<1>11. /\ before[d].status = after[d].status
       /\ before[d].lastHeartbeatAt = after[d].lastHeartbeatAt
       /\ before[d] # None /\ after[d] # None
       /\ before[d].queue = saved /\ after[d].queue = <<>>
       /\ \A x \in DeviceIds \ {d} : before[x] = after[x]
  BY <1>8, <1>9, <1>10
<1>12. \A sessions : Unshared(sessions, before, DeviceIds) = Unshared(sessions, after, DeviceIds)
  BY <1>11 DEF Unshared
<1>13. ASSUME NEW x \in DeviceIds PROVE HoldsRecord(store'.devices[x], after[x])
  <2>1. HoldsRecord(store'.devices[x], before[x])
    BY <1>6, <1>10 DEF Holds
  <2>2. saved = <<>> \/ AllExpired(saved)
    BY <1>3, <1>4, UnexpiredIsEmpty
  <2> QED
    BY <1>11, <2>1, <2>2 DEF HoldsRecord
<1> QED
  BY <1>5, <1>6, <1>10, <1>12, <1>13 DEF Holds, StoreInv

\* Time passes in the store as in memory.
LEMMA TickHolds ==
  ASSUME IInv, StoreInv, Tick
  PROVE  StoreInv'
<1>1. /\ pairingSessions \in Sessions /\ devices \in Registry /\ store \in Files
      /\ SharesRecord(pairingSessions, devices)
  BY DEF IInv, DataInv, FileInv
<1>2. ASSUME NEW d \in DeviceIds
      PROVE  /\ devices'[d] = OlderRecord(devices[d])
             /\ store'.devices[d] = OlderRecord(store.devices[d])
             /\ devices[d] \in RelayDeviceRecord \cup {None}
             /\ store.devices[d] \in StoredRecord \cup {None}
             /\ HoldsRecord(store.devices[d], devices[d])
  BY <1>1 DEF Tick, Registry, Files, StoreInv, Holds
<1>3. ASSUME NEW d \in DeviceIds PROVE HoldsRecord(store'.devices[d], devices'[d])
  <2>1. CASE devices[d] = None
    BY <1>2, <2>1 DEF HoldsRecord, OlderRecord
  <2>2. CASE devices[d] # None
    <3>1. /\ devices[d] \in RelayDeviceRecord /\ store.devices[d] \in StoredRecord
          /\ store.devices[d] # None
      BY <1>2, <2>2 DEF HoldsRecord
    <3>2. /\ devices'[d].queue = OlderQueue(devices[d].queue)
          /\ store'.devices[d].queue = OlderQueue(store.devices[d].queue)
          /\ devices'[d] # None /\ store'.devices[d] # None
      BY <1>2, <3>1, OlderRecordIsRecord, NoneAssumption
    <3>3. devices'[d].lastHeartbeatAt = store'.devices[d].lastHeartbeatAt
      <4>1. devices[d].lastHeartbeatAt = store.devices[d].lastHeartbeatAt
        BY <1>2, <2>2 DEF HoldsRecord
      <4>2. devices'[d].lastHeartbeatAt = Older(devices[d].lastHeartbeatAt, HeartbeatStale + 1)
        BY <1>2, <2>2, <3>1 DEF OlderRecord, RelayDeviceRecord
      <4>3. store'.devices[d].lastHeartbeatAt
              = Older(store.devices[d].lastHeartbeatAt, HeartbeatStale + 1)
        BY <1>2, <3>1 DEF OlderRecord, StoredRecord
      <4> QED
        BY <4>1, <4>2, <4>3
    <3>4. OlderQueue(<<>>) = <<>>
      BY EmptySeq, OlderQueueIsQueue DEF Queues
    <3>5. store.devices[d].queue \in Queues
      BY <3>1 DEF StoredRecord, Queues
    <3>6. AllExpired(store.devices[d].queue) => AllExpired(store'.devices[d].queue)
      BY <3>2, <3>5, OlderQueueKeeps
    <3> QED
      BY <1>2, <2>2, <3>2, <3>3, <3>4, <3>6 DEF HoldsRecord
  <2> QED
    BY <2>1, <2>2, SMTT(40)
<1>4. store'.sessions = Unshared(pairingSessions', devices', DeviceIds)
  <2>1. /\ store'.sessions = OlderSessions(Unshared(pairingSessions, devices, DeviceIds))
        /\ pairingSessions' = OlderSessions(pairingSessions)
    BY DEF Tick, StoreInv, Holds
  <2>2. ASSUME NEW c \in Codes
        PROVE  OlderSessions(Unshared(pairingSessions, devices, DeviceIds))[c]
                 = Unshared(OlderSessions(pairingSessions), devices', DeviceIds)[c]
    <3> DEFINE session == pairingSessions[c]
               older == [session EXCEPT !.left = IF @ < 0 THEN @ ELSE @ - 1]
    <3>1. session \in PairingSession /\ OlderSessions(pairingSessions)[c] = older
      BY <1>1 DEF Sessions, OlderSessions
    <3>2. older.presence = session.presence /\ older.device = session.device
      BY <3>1 DEF PairingSession
    <3>3. CASE session.presence = "shared" /\ session.device \in DeviceIds
      <4>1. PICK d \in DeviceIds : d = session.device
        BY <3>3
      <4>2. devices[d] # None
        BY <1>1, <3>3, <4>1 DEF SharesRecord
      <4>3. devices'[d].status = devices[d].status
        BY <1>2, <4>2, OlderRecordIsRecord
      <4>4. Unshared(pairingSessions, devices, DeviceIds)[c]
              = [session EXCEPT !.presence = devices[d].status]
        BY <3>3, <4>1 DEF Unshared
      <4>5. OlderSessions(Unshared(pairingSessions, devices, DeviceIds))[c]
              = [older EXCEPT !.presence = devices[d].status]
        BY <3>1, <4>4 DEF OlderSessions, PairingSession
      <4>6. Unshared(OlderSessions(pairingSessions), devices', DeviceIds)[c]
              = [older EXCEPT !.presence = devices'[d].status]
        BY <3>1, <3>2, <3>3, <4>1 DEF Unshared
      <4> QED
        BY <4>3, <4>5, <4>6
    <3>4. CASE ~(session.presence = "shared" /\ session.device \in DeviceIds)
      <4>1. Unshared(pairingSessions, devices, DeviceIds)[c] = session
        BY <3>4 DEF Unshared
      <4>2. OlderSessions(Unshared(pairingSessions, devices, DeviceIds))[c] = older
        BY <4>1 DEF OlderSessions
      <4>3. Unshared(OlderSessions(pairingSessions), devices', DeviceIds)[c] = older
        BY <3>1, <3>2, <3>4 DEF Unshared
      <4> QED
        BY <4>2, <4>3
    <3> QED
      BY <3>3, <3>4
  <2>3. ASSUME NEW sessions, NEW registry
        PROVE  /\ OlderSessions(sessions) = [c \in Codes |-> OlderSessions(sessions)[c]]
               /\ Unshared(sessions, registry, DeviceIds)
                    = [c \in Codes |-> Unshared(sessions, registry, DeviceIds)[c]]
    BY DEF OlderSessions, Unshared
  <2>4. OlderSessions(Unshared(pairingSessions, devices, DeviceIds))
          = Unshared(OlderSessions(pairingSessions), devices', DeviceIds)
    <3>1. OlderSessions(Unshared(pairingSessions, devices, DeviceIds))
            = [c \in Codes |-> OlderSessions(Unshared(pairingSessions, devices, DeviceIds))[c]]
      BY <2>3
    <3>2. Unshared(OlderSessions(pairingSessions), devices', DeviceIds)
            = [c \in Codes |-> Unshared(OlderSessions(pairingSessions), devices', DeviceIds)[c]]
      BY <2>3
    <3> QED
      BY <2>2, <3>1, <3>2, Zenon
  <2> QED
    BY <2>1, <2>4
<1> QED
  BY <1>3, <1>4 DEF Holds, StoreInv

----------------------------------------------------------------------------
(* What a queue may lose a request for *)

\* What QueueLeftOnlyForCause says of the queue of d.
LeftForCause(d) ==
  \A i \in 1..Len(QueueOf(d)) :
    LET item == QueueOf(d)[i] IN
    item.envelope \in Queued(QueueOf(d)') \/ item.age >= QueueTtl \/ devices'[d] = None
    \/ writes'[item.envelope] > writes[item.envelope]
    \/ Len(QueueOf(d)') = QueueLimit

QueueStep(d) == OldestFirst(QueueOf(d))' /\ LeftForCause(d)

\* A step that leaves the queue of d alone, or removes its record.
LEMMA SameQueue ==
  ASSUME IInv, QueueOldestFirst, NEW d \in DeviceIds,
         devices'[d] = None \/ QueueOf(d)' = QueueOf(d)
  PROVE  QueueStep(d)
<1>1. OldestFirst(QueueOf(d)) /\ QueueOf(d) \in Queues
  BY QueueOfIsQueue DEF QueueOldestFirst, OldestFirst
<1>2. CASE devices'[d] = None
  <2>1. QueueOf(d)' = <<>> /\ Len(<<>>) = 0
    BY <1>2, EmptySeq DEF QueueOf
  <2> QED
    BY <1>2, <2>1 DEF QueueStep, LeftForCause, OldestFirst
<1>3. CASE QueueOf(d)' = QueueOf(d)
  <2>1. \A i \in 1..Len(QueueOf(d)) : QueueOf(d)[i].envelope \in Queued(QueueOf(d))
    BY <1>1, ItemsOfQueue DEF Queued
  <2> QED
    BY <1>1, <1>3, <2>1 DEF QueueStep, LeftForCause, OldestFirst
<1> QED
  BY <1>2, <1>3

LEMMA HelloQueues ==
  ASSUME IInv, QueueOldestFirst, NEW s \in Sockets, Hello(s), NEW d \in DeviceIds
  PROVE  QueueStep(d)
<1>1. devices' = DevicesAfterHello(s, <<>>)
  BY DEF Hello, QueueAfterFlush
<1>2. CASE d # sockets[s].device
  BY <1>1, <1>2, SameQueue DEF DevicesAfterHello, QueueOf
<1>3. CASE d = sockets[s].device
  <2>1. PICK q \in Queues : q = QueueOf(d) /\ OldestFirst(q)
    BY QueueOfIsQueue DEF QueueOldestFirst, OldestFirst
  <2>2. /\ writes \in [Envelopes -> Nat] /\ Unexpired(q) \in Queues
        /\ writes' = Written(Unexpired(q))
    BY <1>3, <2>1, UnexpiredIsQueue DEF Hello, IInv
  <2>3. ASSUME NEW i \in 1..Len(q), q[i].age < QueueTtl
        PROVE  writes'[q[i].envelope] > writes[q[i].envelope]
    BY <2>1, <2>2, <2>3, UnexpiredKeeps, WrittenCounts
  <2>4. \A i \in 1..Len(q) : q[i].age \in Int
    BY ItemsOfQueue
  <2>5. LeftForCause(d)
    BY <2>1, <2>3, <2>4, RelayAssumption DEF LeftForCause
  <2>6. QueueOf(d)' = <<>> /\ Len(<<>>) = 0
    <3>1. devices[d] \in RelayDeviceRecord \cup {None}
      BY DEF IInv, DataInv, Registry
    <3>2. UpsertDevice(devices[d], "offline") \in RelayDeviceRecord
      BY <3>1, UpsertDeviceIsRecord
    <3>3. devices'[d].queue = <<>>
      BY <1>1, <1>3, <3>2 DEF DevicesAfterHello, RelayDeviceRecord
    <3> QED
      BY <3>3, EmptySeq DEF QueueOf
  <2> QED
    BY <2>5, <2>6 DEF QueueStep, OldestFirst
<1> QED
  BY <1>2, <1>3

LEMMA QueueForDeviceQueues ==
  ASSUME IInv, QueueOldestFirst, NEW x \in DeviceIds, NEW e \in Envelopes,
         QueueForDevice(x, e), NEW d \in DeviceIds
  PROVE  QueueStep(d)
<1>1. devices \in Registry /\ devices[x] \in RelayDeviceRecord
  BY DEF QueueForDevice, IInv, DataInv, Registry
<1>2. CASE d # x
  BY <1>1, <1>2, SameQueue DEF QueueForDevice, QueueOf, Registry
<1>3. CASE d = x
  <2>1. PICK q \in Queues : q = QueueOf(d) /\ q = devices[d].queue /\ OldestFirst(q)
    BY <1>1, <1>3, NoneAssumption, QueueOfIsQueue DEF QueueOldestFirst, OldestFirst, QueueOf
  <2>2. PICK new \in Queues : new = QueueOfflineEnvelope(q, e)
    BY QueueOfflineEnvelopeBounded
  <2>3. QueueOf(d)' = new
    <3>1. devices'[d] = [devices[d] EXCEPT !.queue = new]
      BY <1>1, <1>3, <2>1, <2>2 DEF QueueForDevice, Registry
    <3>2. devices'[d] \in RelayDeviceRecord /\ devices'[d].queue = new
      BY <1>1, <1>3, <3>1 DEF RelayDeviceRecord, Queues
    <3> QED
      BY <3>2, NoneAssumption DEF QueueOf
  <2> QED
    BY <2>1, <2>2, <2>3, QueueOfflineEnvelopeKeeps DEF QueueStep, LeftForCause, OldestFirst
<1> QED
  BY <1>2, <1>3

LEMMA TickQueues ==
  ASSUME IInv, QueueOldestFirst, Tick, NEW d \in DeviceIds
  PROVE  QueueStep(d)
<1>1. PICK q \in Queues : q = QueueOf(d) /\ OldestFirst(q)
  BY QueueOfIsQueue DEF QueueOldestFirst, OldestFirst
<1>2. QueueOf(d)' = OlderQueue(q)
  <2>1. devices'[d] = OlderRecord(devices[d]) /\ devices[d] \in RelayDeviceRecord \cup {None}
    BY DEF Tick, IInv, DataInv, Registry
  <2>2. CASE devices[d] = None
    <3>1. OlderQueue(<<>>) = <<>>
      BY EmptySeq, OlderQueueIsQueue DEF Queues
    <3> QED
      BY <1>1, <2>1, <2>2, <3>1 DEF OlderRecord, QueueOf
  <2>3. CASE devices[d] \in RelayDeviceRecord
    BY <1>1, <2>1, <2>3, OlderRecordIsRecord, NoneAssumption DEF QueueOf
  <2> QED
    BY <2>1, <2>2, <2>3
<1>3. \A i \in 1..Len(q) : q[i].envelope \in Queued(OlderQueue(q))
  BY OlderQueueKeeps, ItemsOfQueue DEF Queued
<1>4. OldestFirst(OlderQueue(q))
  BY <1>1, OlderQueueKeeps
<1> QED
  BY <1>1, <1>2, <1>3, <1>4 DEF QueueStep, LeftForCause, OldestFirst

\* A start finds in the store what waited in memory, or expired items.
LEMMA RestartQueues ==
  ASSUME IInv, StoreInv, QueueOldestFirst, Restart, NEW d \in DeviceIds
  PROVE  QueueStep(d)
<1>1. /\ devices'[d] = IF store.devices[d] = None THEN None
                       ELSE [NewRecord EXCEPT
                               !.lastHeartbeatAt = store.devices[d].lastHeartbeatAt,
                               !.queue = store.devices[d].queue]
      /\ HoldsRecord(store.devices[d], devices[d])
      /\ store.devices[d] \in StoredRecord \cup {None}
  BY DEF Restart, RestartWith, LoadRelayStore, StoreInv, Holds, IInv, FileInv, Files
<1>2. CASE store.devices[d] = None
  BY <1>1, <1>2, SameQueue
<1>3. CASE store.devices[d] \in StoredRecord
  <2>1. PICK q \in Queues : q = store.devices[d].queue
    BY <1>3 DEF StoredRecord, Queues
  <2>2. devices'[d] \in RelayDeviceRecord /\ devices'[d].queue = q
    BY <1>1, <1>3, <2>1, NoneAssumption DEF NewRecord, RelayDeviceRecord, StoredRecord, Queues
  <2>3. QueueOf(d)' = q /\ devices[d] # None
    BY <1>1, <1>3, <2>2, NoneAssumption DEF QueueOf, HoldsRecord
  <2>4. CASE QueueOf(d) = q
    BY <2>3, <2>4, SameQueue
  <2>5. CASE QueueOf(d) # q
    <3>1. AllExpired(q) /\ QueueOf(d) = <<>> /\ Len(<<>>) = 0
      BY <1>1, <2>1, <2>3, <2>5, EmptySeq DEF HoldsRecord, QueueOf
    <3>2. \A i \in 1..Len(q) : q[i].age = QueueTtl
      BY <3>1, ItemsOfQueue, RelayAssumption DEF AllExpired
    <3>3. OldestFirst(q)
      BY <3>2, RelayAssumption DEF OldestFirst
    <3> QED
      BY <2>3, <3>1, <3>3 DEF QueueStep, LeftForCause, OldestFirst
  <2> QED
    BY <2>4, <2>5
<1> QED
  BY <1>1, <1>2, <1>3

\* So it does after a crash in the middle of a flush: the whole queue.
LEMMA CrashInFlushStep ==
  ASSUME IInv, QueueOldestFirst, NEW s \in Sockets, CrashInFlush(s)
  PROVE  StoreInv' /\ \A d \in DeviceIds : QueueStep(d)
<1>1. IsHello(s) /\ sockets[s] \in Socket
  BY DEF CrashInFlush, IInv, ConnectionInv
<1>2. PICK x \in DeviceIds : x = sockets[s].device
  BY <1>1, NoneAssumption DEF IsHello, Socket, IInv, ConnectionInv
<1>3. PICK q \in Queues : q = QueueOf(x) /\ (QueueLimit >= 2 => Len(q) <= QueueLimit)
  BY <1>2, QueueOfIsQueue
<1>4. PICK registry \in Registry :
        /\ registry = DevicesAfterHello(s, q)
        /\ SharesRecord(SessionsAfterHello(s), registry) /\ WithinLimit(registry)
        /\ SessionsAfterHello(s) \in Sessions
  BY <1>1, <1>3, HelloData
<1>5. PICK file : /\ file = SaveRelayStore(SessionsAfterHello(s), registry)
                  /\ FileInv(file) /\ RestartWith(file)
  <2>1. FileInv(SaveRelayStore(SessionsAfterHello(s), registry))
    BY <1>4, SaveIsFile DEF FileInv
  <2>2. RestartWith(SaveRelayStore(SessionsAfterHello(s), registry))
    BY <1>2, <1>3, <1>4 DEF CrashInFlush
  <2> QED
    BY <2>1, <2>2
<1>6. StoreInv'
  BY <1>5, RestartHolds
<1>7. ASSUME NEW d \in DeviceIds PROVE devices'[d] = None \/ QueueOf(d)' = QueueOf(d)
  <2>1. /\ file.devices[d] = Stored(registry[d]) /\ file.devices[d] \in StoredRecord \cup {None}
        /\ registry[d] \in RelayDeviceRecord \cup {None}
        /\ devices'[d] = IF file.devices[d] = None THEN None
                         ELSE [NewRecord EXCEPT
                                 !.lastHeartbeatAt = file.devices[d].lastHeartbeatAt,
                                 !.queue = file.devices[d].queue]
    BY <1>4, <1>5 DEF SaveRelayStore, FileInv, Files, Registry, RestartWith, LoadRelayStore
  <2>2. CASE file.devices[d] = None
    BY <2>1, <2>2
  <2>3. CASE file.devices[d] \in StoredRecord
    <3>1. devices'[d] \in RelayDeviceRecord /\ devices'[d].queue = file.devices[d].queue
      BY <2>1, <2>3, NoneAssumption DEF NewRecord, RelayDeviceRecord, StoredRecord
    <3>2. registry[d] # None /\ file.devices[d].queue = registry[d].queue
      BY <2>1, <2>3, NoneAssumption DEF Stored
    <3>3. registry[d].queue = QueueOf(d)
      <4>1. CASE d = x
        <5>1. devices[x] \in RelayDeviceRecord \cup {None}
          BY DEF IInv, DataInv, Registry
        <5>2. UpsertDevice(devices[x], "offline") \in RelayDeviceRecord
          BY <5>1, UpsertDeviceIsRecord
        <5> QED
          BY <1>2, <1>3, <1>4, <4>1, <5>2 DEF DevicesAfterHello, RelayDeviceRecord
      <4>2. CASE d # x
        BY <1>2, <1>4, <3>2, <4>2 DEF DevicesAfterHello, QueueOf
      <4> QED
        BY <4>1, <4>2
    <3> QED
      BY <3>1, <3>2, <3>3, NoneAssumption DEF QueueOf
  <2> QED
    BY <2>1, <2>2, <2>3
<1> QED
  BY <1>6, <1>7, SameQueue

\* The handlers that change no queue: those over HTTP, those of a socket but
\* for the hello, and the watchdog.
LEMMA OtherQueues ==
  ASSUME IInv, QueueOldestFirst, NEW d \in DeviceIds,
         \/ \E c \in Codes : CreatePairingSession(c) \/ ApprovePairingSession(c)
         \/ \E c \in Codes, x \in DeviceIds : ClaimPairingSession(c, x)
         \/ \E s \in Sockets, x \in DeviceIds, t \in Codes \cup {None} : Connect(s, x, t)
         \/ \E s \in Sockets : \/ Heartbeat(s) \/ ProviderSnapshot(s)
                               \/ PeerClose(s) \/ SocketClosed(s)
         \/ \E x \in DeviceIds, e \in Envelopes : SendToSocket(x, e)
         \/ PresenceWatchdog \/ UNCHANGED vars
  PROVE  QueueStep(d)
<1>1. devices[d] \in RelayDeviceRecord \cup {None} /\ devices \in Registry
  BY DEF IInv, DataInv, Registry
<1>2. ASSUME NEW r \in RelayDeviceRecord, devices[d] # None, devices'[d] = r,
             r.queue = devices[d].queue
      PROVE  QueueOf(d)' = QueueOf(d)
  BY <1>2, NoneAssumption DEF QueueOf
<1>3. ASSUME NEW c \in Codes, ApprovePairingSession(c) PROVE QueueOf(d)' = QueueOf(d)
  <2>1. /\ pairingSessions[c] \in PairingSession
        /\ SharesRecord(pairingSessions, devices)
        /\ pairingSessions[c].device \in DeviceIds
    BY <1>3 DEF ApprovePairingSession, IInv, DataInv, Sessions, PairingSession
  <2>2. PICK x \in DeviceIds, status \in {"online", "offline"} :
          devices' = [devices EXCEPT ![x] = UpsertDevice(devices[x], status)]
    <3> DEFINE x == pairingSessions[c].device
               presence == pairingSessions[c].presence
    <3>1. presence = "shared" => devices[x].status \in {"online", "offline"}
      BY <1>1, <2>1 DEF SharesRecord, Registry, RelayDeviceRecord
    <3>2. presence # "shared" => presence \in {"online", "offline"}
      BY <2>1 DEF PairingSession
    <3>3. devices' = [devices EXCEPT ![x] =
                        UpsertDevice(devices[x],
                                     IF presence = "shared" THEN devices[x].status ELSE presence)]
      BY <1>3 DEF ApprovePairingSession
    <3> QED
      BY <2>1, <3>1, <3>2, <3>3
  <2>3. CASE d # x
    BY <1>1, <2>2, <2>3 DEF QueueOf, Registry
  <2>4. CASE d = x
    <3>1. devices'[d] = UpsertDevice(devices[d], status)
      BY <1>1, <2>2, <2>4 DEF Registry
    <3>2. CASE devices[d] = None
      BY <3>1, <3>2, UpsertDeviceIsRecord DEF QueueOf
    <3>3. CASE devices[d] # None
      BY <1>1, <1>2, <3>1, <3>3, UpsertDeviceIsRecord
    <3> QED
      BY <3>2, <3>3
  <2> QED
    BY <2>3, <2>4
<1>4. ASSUME NEW s \in Sockets, Heartbeat(s) \/ ProviderSnapshot(s)
      PROVE  QueueOf(d)' = QueueOf(d)
  <2>1. sockets[s].bound \in DeviceIds
    BY <1>4 DEF Heartbeat, ProviderSnapshot, IsBound, IInv, ConnectionInv, Socket
  <2>2. CASE devices[d] = None \/ d # sockets[s].bound
    <3>1. devices'[d] = devices[d]
      BY <1>1, <1>4, <2>1, <2>2 DEF Heartbeat, ProviderSnapshot, Registry
    <3> QED
      BY <3>1, SMTT(40) DEF QueueOf
  <2>3. CASE devices[d] # None /\ d = sockets[s].bound
    <3>1. \/ devices'[d] = [devices[d] EXCEPT !.status = "online"]
          \/ \E lag \in 0..HeartbeatLag :
               devices'[d] = [devices[d] EXCEPT !.lastHeartbeatAt = lag, !.status = "online"]
      BY <1>1, <1>4, <2>1, <2>3 DEF Heartbeat, ProviderSnapshot, Registry
    <3>2. \A lag \in 0..HeartbeatLag : lag \in Age
      BY RelayAssumption DEF Age
    <3>3. devices[d] \in RelayDeviceRecord
      BY <1>1, <2>3
    <3>4. devices'[d] \in RelayDeviceRecord /\ devices'[d].queue = devices[d].queue
      BY <3>1, <3>2, <3>3 DEF RelayDeviceRecord
    <3> QED
      BY <1>2, <2>3, <3>4, SMTT(40)
  <2> QED
    BY <2>2, <2>3, SMTT(40)
<1>5. ASSUME NEW s \in Sockets, SocketClosed(s) PROVE QueueOf(d)' = QueueOf(d)
  <2>1. \/ devices'[d] = devices[d]
        \/ /\ devices[d] # None
           /\ devices'[d] = [devices[d] EXCEPT !.socket = None, !.status = "offline"]
    BY <1>1, <1>5 DEF SocketClosed, Registry, Detached
  <2>2. CASE devices'[d] = devices[d]
    BY <2>2 DEF QueueOf
  <2>3. CASE devices'[d] # devices[d]
    <3>1. /\ devices[d] # None
          /\ devices'[d] \in RelayDeviceRecord /\ devices'[d].queue = devices[d].queue
      BY <1>1, <2>1, <2>3 DEF RelayDeviceRecord
    <3> QED
      BY <1>2, <3>1
  <2> QED
    BY <2>2, <2>3
<1>6. CASE PresenceWatchdog
  <2>1. CASE IsStale(d)
    <3>1. devices'[d] = [devices[d] EXCEPT !.status = "offline", !.socket = None]
      BY <1>6, <2>1 DEF PresenceWatchdog
    <3>2. /\ devices[d] # None
          /\ devices'[d] \in RelayDeviceRecord /\ devices'[d].queue = devices[d].queue
      BY <1>1, <2>1, <3>1 DEF IsStale, RelayDeviceRecord
    <3> QED
      BY <1>2, <3>2, SameQueue
  <2>2. CASE ~IsStale(d)
    BY <1>6, <2>2, SameQueue DEF PresenceWatchdog, QueueOf
  <2> QED
    BY <2>1, <2>2
<1>7. CASE devices' = devices
  BY <1>7, SameQueue DEF QueueOf
<1> QED
  BY <1>3, <1>4, <1>5, <1>6, <1>7, SameQueue
    DEF CreatePairingSession, ClaimPairingSession, Connect, PeerClose, SendToSocket, vars

----------------------------------------------------------------------------
(* The theorems *)

LEMMA NextQueues ==
  IInv /\ KeptInv /\ [Next]_vars => KeptInv' /\ \A d \in DeviceIds : LeftForCause(d)
<1> SUFFICES ASSUME IInv, KeptInv, [Next]_vars
             PROVE  StoreInv' /\ \A d \in DeviceIds : QueueStep(d)
  BY DEF KeptInv, QueueStep, QueueOldestFirst, OldestFirst
<1>1. IInv' /\ StoreInv /\ QueueOldestFirst
  BY NextIInv DEF KeptInv
<1>2. CASE UNCHANGED vars
  BY <1>1, <1>2, OtherQueues DEF vars, StoreInv
<1>3. CASE \E c \in Codes : CreatePairingSession(c) \/ ApprovePairingSession(c)
  BY <1>1, <1>3, OtherQueues, SavedHolds DEF CreatePairingSession, ApprovePairingSession
<1>4. CASE \E c \in Codes, d \in DeviceIds : ClaimPairingSession(c, d)
  BY <1>1, <1>4, OtherQueues, SavedHolds DEF ClaimPairingSession
<1>5. CASE \E s \in Sockets, d \in DeviceIds, t \in Codes \cup {None} : Connect(s, d, t)
  BY <1>1, <1>5, OtherQueues DEF Connect, StoreInv
<1>6. ASSUME NEW s \in Sockets, Hello(s)
      PROVE  StoreInv' /\ \A d \in DeviceIds : QueueStep(d)
  BY <1>1, <1>6, HelloHolds, HelloQueues
<1>7. ASSUME NEW s \in Sockets, Heartbeat(s) \/ ProviderSnapshot(s)
      PROVE  StoreInv' /\ \A d \in DeviceIds : QueueStep(d)
  BY <1>1, <1>7, OtherQueues, SavedHolds DEF Heartbeat, ProviderSnapshot
<1>8. ASSUME NEW s \in Sockets, PeerClose(s)
      PROVE  StoreInv' /\ \A d \in DeviceIds : QueueStep(d)
  BY <1>1, <1>8, OtherQueues DEF PeerClose, StoreInv
<1>9. ASSUME NEW s \in Sockets, SocketClosed(s)
      PROVE  StoreInv' /\ \A d \in DeviceIds : QueueStep(d)
  BY <1>1, <1>9, OtherQueues, SavedHolds DEF SocketClosed, StoreInv
<1>10. ASSUME NEW s \in Sockets, CrashInFlush(s)
       PROVE  StoreInv' /\ \A d \in DeviceIds : QueueStep(d)
  BY <1>1, <1>10, CrashInFlushStep
<1>11. ASSUME NEW d \in DeviceIds, NEW e \in Envelopes, RouteAppRequest(d, e)
       PROVE  StoreInv' /\ \A x \in DeviceIds : QueueStep(x)
  <2>1. CASE SendToSocket(d, e)
    BY <1>1, <2>1, OtherQueues DEF SendToSocket, StoreInv
  <2>2. CASE QueueForDevice(d, e)
    BY <1>1, <2>2, QueueForDeviceQueues, SavedHolds DEF QueueForDevice
  <2> QED
    BY <1>11, <2>1, <2>2 DEF RouteAppRequest
<1>12. CASE PresenceWatchdog
  BY <1>1, <1>12, OtherQueues, SavedHolds DEF PresenceWatchdog
<1>13. CASE Tick
  BY <1>1, <1>13, TickHolds, TickQueues
<1>14. CASE Restart
  BY <1>1, <1>14, RestartQueues, RestartHolds DEF Restart, IInv
<1> QED
  BY <1>2, <1>3, <1>4, <1>5, <1>6, <1>7, <1>8, <1>9, <1>10, <1>11, <1>12, <1>13, <1>14
    DEF Next

LEMMA InitKept == Init => KeptInv
<1> SUFFICES ASSUME Init PROVE KeptInv
  OBVIOUS
<1>1. IInv /\ store = SaveRelayStore(pairingSessions, devices)
  BY InitIInv DEF Init
<1>2. StoreInv
  BY <1>1, SaveHolds DEF IInv, DataInv, StoreInv
<1>3. QueueOldestFirst
  BY EmptySeq DEF Init, QueueOldestFirst, QueueOf
<1> QED
  BY <1>2, <1>3 DEF KeptInv

THEOREM KeptInvariance == Spec => [](IInv /\ KeptInv)
BY InitIInv, NextIInv, InitKept, NextQueues, PTL DEF Spec

\* A restart between two handlers of the relay finds all it needs in the store:
\* the sessions, the records and every waiting envelope that has not expired;
\* and the queues have the oldest items first, as the filters of
\* queueOfflineEnvelope and flushQueuedEnvelopes are modelled.
THEOREM QueuesAreKept == Spec => []QueueIsKept
<1>1. IInv /\ KeptInv => QueueIsKept
  <2> SUFFICES ASSUME IInv, KeptInv PROVE StoreCurrent
    BY DEF KeptInv, QueueIsKept
  <2>1. ASSUME NEW d \in DeviceIds, devices[d] # None
        PROVE  Unexpired(store.devices[d].queue) = Unexpired(devices[d].queue)
    <3>1. /\ devices[d] \in RelayDeviceRecord /\ store.devices[d] \in StoredRecord \cup {None}
          /\ HoldsRecord(store.devices[d], devices[d])
      BY <2>1 DEF IInv, DataInv, Registry, FileInv, Files, KeptInv, StoreInv, Holds
    <3>2. devices[d].queue \in Queues /\ store.devices[d].queue \in Queues
      BY <2>1, <3>1 DEF HoldsRecord, RelayDeviceRecord, StoredRecord, Queues
    <3>3. AllExpired(<<>>)
      BY EmptySeq DEF AllExpired
    <3> QED
      BY <2>1, <3>1, <3>2, <3>3, UnexpiredIsEmpty DEF HoldsRecord
  <2> QED
    BY <2>1 DEF KeptInv, StoreInv, Holds, HoldsRecord, StoreCurrent
<1> QED
  BY <1>1, KeptInvariance, PTL

\* The relay loses no accepted request without a cause, on any step: not on a
\* restart, a disconnection, a hello of another device or a passing of time.
THEOREM RequestsLeaveForCause == Spec => QueueLeftOnlyForCause
<1>1. IInv /\ KeptInv /\ [Next]_vars => \A d \in DeviceIds : LeftForCause(d)
  BY NextQueues
<1> QED
  BY <1>1, KeptInvariance, PTL DEF Spec, QueueLeftOnlyForCause, LeftForCause

=============================================================================
