---------------------------- MODULE MeshRegistry ----------------------------
(***************************************************************************)
(* The registry of agents of a node's Memory Mesh                          *)
(* (syncLocalStateToMemoryMesh, syncMemoryMeshDiscovery and the PATCH of   *)
(* an agent in server/src/main.ts, registerAgent of memoryMeshStore.ts).   *)
(* A sync writes what the node itself detected, waits for the scan of the  *)
(* projects and for the relay's list of devices, and writes what that list *)
(* says of the agents of every device, the node's own included.  A PATCH   *)
(* reads the row, waits for the rest of its request, and writes the row.   *)
(*                                                                         *)
(* Rows of devices are registered in the same steps as those of their      *)
(* agents and left out; so are capabilities, and how long ago an agent was *)
(* seen.  A provider's status stands for that of its agents.               *)
(***************************************************************************)
EXTENDS Integers

CONSTANTS
  Local,            \* the node's own device
  Remotes,          \* other devices
  Names,            \* the native ids of agents, which devices may share
  Syncs, Patches,   \* the calls that may be under way at the same time
  MaxChanges,       \* bound: changes of the world
  MaxPatches,       \* bound: PATCHes
  None

VARIABLES
  enabled,          \* the settings enable discovery, so that the timer is set
  detected,         \* what the node detected of its agents
  listed,           \* the relay's records of the devices
  rows,             \* the registry
  syncs, patches,
  world, made       \* how many changes and PATCHes there were

vars == <<enabled, detected, listed, rows, syncs, patches, world, made>>

Device == {Local} \cup Remotes
Status == {"online", "offline"}

\* What a device's providers say of its agents; None for one they do not have.
Roster == [Names -> Status \cup {None}]

\* The relay has a record of the device, and a connection to it.
Record == [known : BOOLEAN, connected : BOOLEAN, roster : Roster]

Nobody == [n \in Names |-> None]

Id == Device \X Names

Row == [device : Device, status : Status, permissions : {"discovered", "configured"}]

\* A sync scans, asks the relay, or has its list.
Sync == [stage : {"none", "scan", "fetch", "answer"}, list : {None} \cup [Device -> Record]]

NoSync == [stage |-> "none", list |-> None]

\* The timer's sync; the others are those of the boot and of requests.
Timer == CHOOSE s \in Syncs : TRUE

Init ==
  /\ enabled \in BOOLEAN
  /\ detected \in Roster
  /\ listed = [d \in Device |-> [known |-> FALSE, connected |-> FALSE, roster |-> Nobody]]
  /\ rows = [i \in Id |-> None]
  /\ syncs = [s \in Syncs |-> NoSync] /\ patches = [p \in Patches |-> None]
  /\ world = 0 /\ made = 0

----------------------------------------------------------------------------
(* The world *)

\* The node detects its providers anew; a device connects to the relay and
\* tells its agents, loses its connection, or is deleted there.
Change ==
  /\ world < MaxChanges /\ world' = world + 1
  /\ \/ detected' \in Roster /\ UNCHANGED listed
     \/ /\ \E d \in Device, r \in Roster :
             listed' = [listed EXCEPT ![d] = [known |-> TRUE, connected |-> TRUE, roster |-> r]]
        /\ UNCHANGED detected
     \/ /\ \E d \in Device : listed[d].known /\ \E k \in BOOLEAN :
             listed' = [listed EXCEPT ![d].known = k, ![d].connected = FALSE]
        /\ UNCHANGED detected
  /\ UNCHANGED <<enabled, rows, syncs, patches, made>>

----------------------------------------------------------------------------
(* A sync *)

DiscoveredAgentId_Native(d, n) == <<Local, n>>

DiscoveredAgentId(d, n) == <<d, n>>

\* How the registry shows an agent that a record has.
Shown(record, n) == IF record.connected THEN record.roster[n] ELSE "offline"

\* The registry after the agents of a list were registered; agents that no
\* record has any more keep their rows.
Registered(list) ==
  [i \in Id |->
     LET hosts == {d \in Device : /\ list[d].known /\ list[d].roster[i[2]] # None
                                  /\ DiscoveredAgentId(d, i[2]) = i}
         d == CHOOSE h \in hosts : TRUE
     IN IF hosts = {} THEN rows[i]
        ELSE [device |-> d, status |-> Shown(list[d], i[2]), permissions |-> "discovered"]]

\* What syncLocalStateToMemoryMesh registers.
Own ==
  [d \in Device |-> [known |-> d = Local, connected |-> TRUE,
                     roster |-> IF d = Local THEN detected ELSE Nobody]]

\* syncMemoryMeshDiscovery begins with what the node knows itself.
Begin(s) ==
  /\ syncs[s].stage = "none" /\ (s = Timer => enabled)
  /\ rows' = Registered(Own)
  /\ syncs' = [syncs EXCEPT ![s].stage = "scan"]
  /\ UNCHANGED <<enabled, detected, listed, patches, world, made>>

\* The boot registers it too.
Boot ==
  /\ rows' = Registered(Own)
  /\ UNCHANGED <<enabled, detected, listed, syncs, patches, world, made>>

\* The scan of the projects ends or fails (see ProjectDiscovery).
Scanned(s) ==
  /\ syncs[s].stage = "scan"
  /\ syncs' = [syncs EXCEPT ![s].stage = "fetch"]
  /\ UNCHANGED <<enabled, detected, listed, rows, patches, world, made>>

\* The relay answers with its devices; the answer takes a while to arrive.
Answered(s) ==
  /\ syncs[s].stage = "fetch"
  /\ syncs' = [syncs EXCEPT ![s] = [stage |-> "answer", list |-> listed]]
  /\ UNCHANGED <<enabled, detected, listed, rows, patches, world, made>>

Apply(s) ==
  /\ syncs[s].stage = "answer"
  /\ rows' = Registered(syncs[s].list)
  /\ syncs' = [syncs EXCEPT ![s] = NoSync]
  /\ UNCHANGED <<enabled, detected, listed, patches, world, made>>

\* The scan, or the request of the relay, fails.
Fail(s) ==
  /\ syncs[s].stage # "none"
  /\ syncs' = [syncs EXCEPT ![s] = NoSync]
  /\ UNCHANGED <<enabled, detected, listed, rows, patches, world, made>>

----------------------------------------------------------------------------
(* A PATCH of an agent *)

\* The handler reads the row and waits for the body of the request.
Read(p) ==
  /\ patches[p] = None /\ made < MaxPatches
  /\ \E i \in Id : rows[i] # None /\ patches' = [patches EXCEPT ![p] = [id |-> i, row |-> rows[i]]]
  /\ made' = made + 1
  /\ UNCHANGED <<enabled, detected, listed, rows, syncs, world>>

\* It registers the row it read, but for the fields of the body.
Write(p) ==
  /\ patches[p] # None
  /\ \E status \in Status \cup {patches[p].row.status},
        permissions \in {"configured", patches[p].row.permissions} :
       rows' = [rows EXCEPT ![patches[p].id] =
                  [patches[p].row EXCEPT !.status = status, !.permissions = permissions]]
  /\ patches' = [patches EXCEPT ![p] = None]
  /\ UNCHANGED <<enabled, detected, listed, syncs, world, made>>

Next ==
  \/ Change \/ Boot
  \/ \E s \in Syncs : Begin(s) \/ Scanned(s) \/ Answered(s) \/ Apply(s) \/ Fail(s)
  \/ \E p \in Patches : Read(p) \/ Write(p)

\* The timer comes round while discovery is enabled, a scan ends by its
\* deadline, an answer is worked off, and the relay answers again and again.
Fairness ==
  /\ WF_vars(Begin(Timer)) /\ SF_vars(Scanned(Timer)) /\ SF_vars(Answered(Timer))
  /\ \A s \in Syncs : WF_vars(Apply(s) \/ Fail(s)) /\ SF_vars(Apply(s))

Spec == Init /\ [][Next]_vars /\ Fairness

----------------------------------------------------------------------------

TypeOK ==
  /\ enabled \in BOOLEAN /\ detected \in Roster /\ listed \in [Device -> Record]
  /\ rows \in [Id -> {None} \cup Row]
  /\ syncs \in [Syncs -> Sync]
  /\ patches \in [Patches -> {None} \cup [id : Id, row : Row]]
  /\ world \in 0..MaxChanges /\ made \in 0..MaxPatches

\* The status that the sources give an agent; None when there is none, or when
\* the relay has something else to say of the node's own agent than the node.
Truth(d, n) ==
  IF listed[d].known /\ listed[d].roster[n] # None
  THEN IF d # Local \/ detected[n] \in {None, Shown(listed[d], n)}
       THEN Shown(listed[d], n) ELSE None
  ELSE IF d = Local THEN detected[n] ELSE None

\* With discovery enabled the registry comes to show every agent that some
\* device has as it is, whatever older answers and PATCHes have written in the
\* meantime.
RegistryCatchesUp ==
  \A d \in Device, n \in Names :
    <>[](enabled /\ Truth(d, n) # None =>
           rows[<<d, n>>] # None /\ rows[<<d, n>>].status = Truth(d, n))
=============================================================================
