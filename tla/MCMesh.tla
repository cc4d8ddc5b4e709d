------------------------------- MODULE MCMesh -------------------------------
(***************************************************************************)
(* The Memory Mesh of a node for TLC: its routed tasks (MemoryMeshTasks),  *)
(* its project discovery (ProjectDiscovery) with a root that holds two     *)
(* directories, one of which holds another one, or the choice of an agent  *)
(* (Routing).                                                              *)
(* They share nothing that the models keep, so a behaviour has one of them *)
(* at work and the others at rest.                                         *)
(***************************************************************************)
EXTENDS MemoryMeshTasks, TLC

CONSTANTS
  top, middle, side, bottom, Remote, Repo, Manual, BatchSize, MaxProjects, MaxChanges,
  here, there,
  MeshAgents, MeshDevices, Registries, MeshProjects, Currents

VARIABLES
  part,             \* the part that is at work
  disk, config, scan, waiting, fetching, timer, snapshot, projects, paths, hidden, changes,
  registry, project, decision

Dir == {top, middle, side, bottom}

Parent ==
  [d \in Dir |-> CASE d = top -> None [] d \in {middle, side} -> top [] d = bottom -> middle]

DirKinds ==
  [d \in Dir |-> CASE d = top -> {"plain", "git"}
                   [] d = middle -> {"plain", "marker", "unreadable"}
                   [] d = side -> {"plain", "marker"}
                   [] d = bottom -> {"git", "absent"}]

UserPaths == {<<Manual, bottom>>}

Disabled == [enabled |-> FALSE, roots |-> {top}, maxDepth |-> 2]

Configs ==
  {Disabled,
   [enabled |-> TRUE, roots |-> {top}, maxDepth |-> 2],
   [enabled |-> TRUE, roots |-> {top, middle}, maxDepth |-> 1]}

Discovery == INSTANCE ProjectDiscovery WITH Kinds <- DirKinds

discoveryVars ==
  <<disk, config, scan, waiting, fetching, timer, snapshot, projects, paths, hidden, changes>>

Node == {here, there}

\* An owner and a helper, of whom the one is checked in every respect and the
\* other one in those in which it can beat the first.
OwnerAndHelper ==
  {[agents |-> <<first, second>>, devices |-> (here :> status @@ there :> "online")] :
    first \in [device : Node, online : BOOLEAN, capable : BOOLEAN, approval : {FALSE}],
    second \in [device : Node, online : {TRUE}, capable : {TRUE}, approval : {TRUE}],
    status \in {"online", "offline", "missing"}}

SharedProjects ==
  {[agents |-> <<first, second>>, paths |-> p, primaryAgent |-> a, primaryDevice |-> d,
    approval |-> FALSE] :
    first \in [owner : BOOLEAN, writes : BOOLEAN],
    second \in {None} \cup [owner : BOOLEAN, writes : {TRUE}],
    p \in {Node, {there}}, a \in {None, 1}, d \in {None, here}}

Origins == {None, <<1, here>>, <<2, there>>, <<2, here>>}

Choice == INSTANCE Routing
  WITH Agent <- MeshAgents, Device <- MeshDevices, Projects <- MeshProjects,
       Current <- Currents

ASSUME ChoiceAssumption == Choice!RoutingAssumption

routingVars == <<registry, project, decision>>

meshVars == <<part, vars, discoveryVars, routingVars>>

\* Discovery is at rest when the settings disable it and no call is under way.
AtRest ==
  /\ disk = [d \in Dir |-> "plain"] /\ config = Disabled
  /\ scan = Discovery!NoScan /\ waiting = {} /\ fetching = {} /\ timer = FALSE
  /\ snapshot = {} /\ projects = [p \in Discovery!Project |-> None]
  /\ paths = [k \in Discovery!Key |-> None] /\ hidden = {} /\ changes = 0

NoChoice == registry = 0 /\ project = 0 /\ decision = None

MeshInit ==
  /\ Init
  /\ \/ part = "tasks" /\ AtRest /\ NoChoice
     \/ part = "discovery" /\ Discovery!Init /\ NoChoice
     \/ part = "routing" /\ AtRest /\ Choice!Init

MeshNext ==
  \/ part = "tasks" /\ Next /\ UNCHANGED <<part, discoveryVars, routingVars>>
  \/ part = "discovery" /\ Discovery!Next /\ UNCHANGED <<part, vars, routingVars>>
  \/ part = "routing" /\ Choice!Next /\ UNCHANGED <<part, vars, discoveryVars>>

MeshSpec == MeshInit /\ [][MeshNext]_meshVars /\ Fairness /\ Discovery!Fairness

\* Routing: ownership before the primary device before the place of the request.
StrongestReasonDecides == part = "routing" => Choice!StrongestReasonDecides

\* ProjectDiscovery: what the scanner could see all the time does not go
\* stale, and settings that stay are scanned with.
DiscoveryKeepsUp == Discovery!SeenStaysActive /\ Discovery!SettingsAreScanned
=============================================================================
