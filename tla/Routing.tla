------------------------------ MODULE Routing ------------------------------
(***************************************************************************)
(* The choice of an agent for a routed task: routeTask and the first state *)
(* of the task in createRoutingTask (memoryMesh/memoryMeshStore.ts), for a *)
(* project that was found.  The registry it reads may hold anything that   *)
(* the sync of agents and devices and the /mesh routes put there.          *)
(***************************************************************************)
EXTENDS Integers

CONSTANTS
  Agent,            \* agents, as numbers in the order of their ids
  Device,
  Registries,       \* what the registry may hold
  Projects,         \* what may be known of the project
  Current,          \* the agent and the device that a task may come from
  None

VARIABLES
  registry,         \* the agents and devices
  project,          \* its agents, paths and preferences
  decision          \* what was decided, for a task that comes from where

vars == <<registry, project, decision>>

\* capable: has every capability that the task requires.
AgentRecord == [device : Device, online : BOOLEAN, capable : BOOLEAN, approval : BOOLEAN]
Registry == [agents : [Agent -> AgentRecord],
             devices : [Device -> {"online", "offline", "missing"}]]
Assignment == [owner : BOOLEAN, writes : BOOLEAN]
Project == [agents : [Agent -> Assignment \cup {None}], paths : SUBSET Device,
            primaryAgent : Agent \cup {None}, primaryDevice : Device \cup {None},
            approval : BOOLEAN]

\* The registry and the project are what their tables hold.
RoutingAssumption ==
  /\ Agent \subseteq Nat /\ Registries \subseteq Registry /\ Projects \subseteq Project

Assigned == {a \in Agent : project.agents[a] # None}
IsOwner(a) == project.agents[a].owner \/ project.primaryAgent = a
OnPrimaryDevice(a) == project.primaryDevice = registry.agents[a].device
IsCurrent(a, current) == current = <<a, registry.agents[a].device>>

\* Assignments are read primary ones first, then by the agents' ids.
ReadBefore(a, b) ==
  IF project.agents[a].owner = project.agents[b].owner THEN a < b ELSE project.agents[a].owner

Points(holds, n) == IF holds THEN n ELSE 0

\* Faulty: local execution counts for more than the primary device.
Score_LocalFirst(a, current) ==
  Points(IsOwner(a), 100) + Points(OnPrimaryDevice(a), 25) + Points(IsCurrent(a, current), 85)

\* The points that eligible agents do not share.
Score(a, current) ==
  Points(IsOwner(a), 100) + Points(OnPrimaryDevice(a), 25) + Points(IsCurrent(a, current), 15)

IsEligible(a) ==
  LET agent == registry.agents[a] IN
  /\ agent.capable /\ agent.online /\ registry.devices[agent.device] = "online"
  /\ agent.device \in project.paths /\ project.agents[a].writes

Unavailable == [status |-> "unavailable", agent |-> None, locally |-> FALSE]

Eligible == {a \in Assigned : IsEligible(a)}

\* The first of the eligible agents with the most points.
Wins(a, current) ==
  /\ a \in Eligible
  /\ \A b \in Eligible \ {a} :
       \/ Score(b, current) < Score(a, current)
       \/ Score(b, current) = Score(a, current) /\ ReadBefore(a, b)

\* The task is the winner's, and the user may be asked first.
Selected(a, current) ==
  [status |-> IF project.approval \/ registry.agents[a].approval
              THEN "awaiting_approval" ELSE "queued",
   agent |-> a,
   locally |-> current # None /\ current[2] = registry.agents[a].device]

Init ==
  /\ registry \in Registries /\ project \in Projects
  /\ decision = None

Route(current) ==
  /\ decision = None
  /\ \/ Eligible = {} /\ decision' = [made |-> Unavailable, current |-> current]
     \/ \E a \in Assigned :
          Wins(a, current) /\ decision' = [made |-> Selected(a, current), current |-> current]
  /\ UNCHANGED <<registry, project>>

Next == \E current \in Current : Route(current)

Spec == Init /\ [][Next]_vars

TypeOK ==
  /\ registry \in Registry /\ project \in Project
  /\ decision # None =>
       decision.made.agent \in Assigned \cup {None} /\ decision.current \in Current

\* The points order the eligible agents by ownership first, then by the primary
\* device, then by where the task came from, and equals as they were assigned:
\* no sum of weaker reasons outweighs a stronger one, and an agent that cannot
\* do the task is never chosen.
StrongestReasonDecides ==
  decision # None =>
    LET Prefer(set, Reason(_)) ==
          IF \E a \in set : Reason(a) THEN {a \in set : Reason(a)} ELSE set
        best == Prefer(Prefer(Prefer(Eligible, IsOwner), OnPrimaryDevice),
                       LAMBDA a : IsCurrent(a, decision.current))
    IN IF Eligible = {} THEN decision.made = Unavailable
       ELSE /\ decision.made.agent \in best
            /\ \A a \in best : project.agents[decision.made.agent].owner
                                 \/ (~project.agents[a].owner /\ decision.made.agent <= a)
=============================================================================
