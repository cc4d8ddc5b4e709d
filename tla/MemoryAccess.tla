---------------------------- MODULE MemoryAccess ----------------------------
(***************************************************************************)
(* Who may read and change the memories of a node's Memory Mesh            *)
(* (server/src/modules/memoryMesh/memoryMeshStore.ts, toolRuntime.ts and   *)
(* the /memory-mesh routes of server/src/main.ts).  SQLite calls are       *)
(* synchronous, so that every request is one step.                         *)
(*                                                                         *)
(* There is one project; every agent has a device of its own, named after  *)
(* it, and names it in its requests.  Contents, sources, tags, scores and  *)
(* versions are left out.  So is the expiry of a note, which keeps it out  *)
(* of searches but can still be promoted.                                  *)
(***************************************************************************)
EXTENDS Integers

CONSTANTS
  Agents,
  Memories,         \* bound: ids of memories
  None

VARIABLES
  memory,           \* mesh_memories
  project,          \* whether the project exists
  assigned,         \* mesh_project_agents: the access that agents were assigned
  writers,          \* the agents with the permission memory:global:write
  note              \* whose session note a memory still is (a history variable)

vars == <<memory, project, assigned, writers, note>>

User == "user"
Actor == Agents \cup {User}
Owner == Agents \cup {None}

Scope == {"global", "agent", "project", "device", "session"}
Visibility == {"global", "private_agent", "private_device", "project", "user_only"}
Access == {"read_only", "read_write"}

Memory ==
  [scope : Scope, agent : Owner, device : Owner, project : BOOLEAN,
   visibility : Visibility, access : Access]

\* A request may leave the visibility to the node.
Request ==
  [scope : Scope, agent : Owner, device : Owner, project : BOOLEAN,
   visibility : Visibility \cup {None}, access : Access]

\* The scope and the ids that a promotion gives, keeps or clears.
Target == [scope : Scope \ {"session"}, agent : Owner, device : Owner, project : BOOLEAN]

\* No agent is the user, and nobody is neither.
AccessAssumption ==
  /\ User \notin Agents /\ None \notin Actor /\ None \notin Visibility /\ None \notin Memory

TypeOK ==
  /\ memory \in [Memories -> Memory \cup {None}]
  /\ project \in BOOLEAN /\ assigned \in [Agents -> Access \cup {None}]
  /\ writers \subseteq Agents
  /\ note \in [Memories -> Actor \cup {None}]

Init ==
  /\ memory = [id \in Memories |-> None] /\ note = [id \in Memories |-> None]
  /\ project = FALSE /\ assigned = [a \in Agents |-> None] /\ writers = {}

----------------------------------------------------------------------------
(* Permissions *)

IsAssigned(who, access) == who \in Agents /\ assigned[who] \in access

CanReadMemory(m, who) ==
  \/ who = User
  \/ m.visibility = "global"
  \/ m.visibility = "private_agent" /\ m.agent = who
  \/ m.visibility = "private_device" /\ m.device = who
  \/ m.visibility = "project" /\ m.project /\ IsAssigned(who, Access)

CanWriteMemory(m, who) ==
  \/ who = User
  \/ /\ m.access = "read_write"
     /\ \/ m.visibility = "global" /\ who \in writers
        \/ m.visibility = "private_agent" /\ m.agent = who
        \/ m.visibility = "private_device" /\ m.device = who
        \/ m.visibility = "project" /\ m.project /\ IsAssigned(who, {"read_write"})

DefaultVisibility(scope) ==
  CASE scope \in {"agent", "session"} -> "private_agent"
    [] scope = "device" -> "private_device"
    [] OTHER -> scope

NormalizePermission(visibility, scope) ==
  IF visibility = None THEN DefaultVisibility(scope) ELSE visibility

\* What a row is read back with (mapMemory).
ParsePermission(visibility) == NormalizePermission(visibility, "global")

\* The visibility is the one that is written, which may be missing.
ValidateMemory(m) ==
  /\ (m.scope = "agent" \/ m.visibility = "private_agent") => m.agent # None
  /\ (m.scope = "device" \/ m.visibility = "private_device") => m.device # None
  /\ (m.scope = "project" \/ m.visibility = "project") => m.project

----------------------------------------------------------------------------
(* Requests about memories *)

AddedVisibility_Requested(who, m) == NormalizePermission(m.visibility, m.scope)

\* A session note is its author's, whatever the request says.
AddedVisibility(who, m) ==
  IF m.scope = "session" THEN IF who = User THEN "user_only" ELSE "private_agent"
  ELSE NormalizePermission(m.visibility, m.scope)

AddMemory(id, who, m) ==
  LET record == [m EXCEPT !.visibility = AddedVisibility(who, m),
                          !.agent = IF @ = None /\ m.scope = "session" /\ who # User
                                    THEN who ELSE @]
  IN /\ ValidateMemory(record) /\ (record.project => project)
     /\ CanWriteMemory(record, who)
     /\ memory' = [memory EXCEPT ![id] = record]
     /\ note' = [note EXCEPT ![id] = IF m.scope = "session" THEN who ELSE None]
     /\ UNCHANGED <<project, assigned, writers>>

\* What a search, and the context of a task, give an actor.
SearchMemory(who) == {id \in Memories : memory[id] # None /\ CanReadMemory(memory[id], who)}

\* getMemory and the checks of updateMemory and deleteMemory.
Writable(id, who) == id \in SearchMemory(who) /\ CanWriteMemory(memory[id], who)

\* Who may write a session note, its author or the user, lets go of it with another
\* scope or visibility, and hands it over with another agent.
NoteAfter(id, next) ==
  IF next.scope = memory[id].scope /\ next.visibility = memory[id].visibility
  THEN IF note[id] \in Agents THEN next.agent ELSE note[id]
  ELSE None

\* What the request says of the permissions goes to the database as it is.
UpdateMemory(id, who, next) ==
  /\ Writable(id, who) /\ ValidateMemory(next) /\ (next.project => project)
  /\ memory' = [memory EXCEPT ![id] = [next EXCEPT !.visibility = ParsePermission(@)]]
  /\ note' = [note EXCEPT ![id] = NoteAfter(id, next)]
  /\ UNCHANGED <<project, assigned, writers>>

\* PATCH: another content, other permissions, of which the visibility may be
\* missing, another scope, or another id or none.  A request that gives several
\* leaves what one after the other leave.
PatchMemory(id, who) ==
  memory[id] # None /\
    \/ UpdateMemory(id, who, memory[id])
    \/ \E v \in Visibility \cup {None}, access \in Access :
         UpdateMemory(id, who, [memory[id] EXCEPT !.visibility = v, !.access = access])
    \/ \E scope \in Scope : UpdateMemory(id, who, [memory[id] EXCEPT !.scope = scope])
    \/ \E a \in Owner : UpdateMemory(id, who, [memory[id] EXCEPT !.agent = a])
    \/ \E d \in Owner : UpdateMemory(id, who, [memory[id] EXCEPT !.device = d])
    \/ \E p \in BOOLEAN : UpdateMemory(id, who, [memory[id] EXCEPT !.project = p])

\* A request of the route keeps the ids that it does not give; that of a tool
\* clears them.
PromoteSessionMemory(id, who, t) ==
  /\ memory[id] # None /\ memory[id].scope = "session"
  /\ UpdateMemory(id, who,
       [scope |-> t.scope, access |-> "read_write", agent |-> t.agent, device |-> t.device,
        project |-> t.project, visibility |-> NormalizePermission(None, t.scope)])

DeleteMemory(id, who) ==
  /\ Writable(id, who)
  /\ memory' = [memory EXCEPT ![id] = None] /\ note' = [note EXCEPT ![id] = None]
  /\ UNCHANGED <<project, assigned, writers>>

\* The tools of an agent: they give a visibility, and change a content only.
ExecuteTool(a) ==
  \E id \in Memories :
    \/ memory[id] = None /\ \E m \in Request :
         AddMemory(id, a, [m EXCEPT !.visibility = NormalizePermission(@, m.scope)])
    \/ memory[id] # None /\ UpdateMemory(id, a, memory[id])
    \/ \E t \in Target : PromoteSessionMemory(id, a, t)

----------------------------------------------------------------------------
(* Requests about the project and the agents *)

CreateProject ==
  /\ ~project /\ project' = TRUE
  /\ UNCHANGED <<memory, assigned, writers, note>>

\* ON DELETE CASCADE
DeleteProject ==
  /\ project /\ project' = FALSE
  /\ assigned' = [a \in Agents |-> None]
  /\ LET gone == {id \in Memories : memory[id] # None /\ memory[id].project}
     IN /\ memory' = [id \in Memories |-> IF id \in gone THEN None ELSE memory[id]]
        /\ note' = [id \in Memories |-> IF id \in gone THEN None ELSE note[id]]
  /\ UNCHANGED writers

AssignAgentToProject(a, access) ==
  /\ project /\ assigned' = [assigned EXCEPT ![a] = access]
  /\ UNCHANGED <<memory, project, writers, note>>

UnassignAgentFromProject(a) ==
  /\ assigned' = [assigned EXCEPT ![a] = None]
  /\ UNCHANGED <<memory, project, writers, note>>

\* registerAgent writes the permissions that a request, or a sync, gives.
RegisterAgent(a) ==
  /\ writers' \in {writers \cup {a}, writers \ {a}}
  /\ UNCHANGED <<memory, project, assigned, note>>

----------------------------------------------------------------------------

Next ==
  \/ \E id \in Memories, who \in Actor :
       \/ memory[id] = None /\ \E m \in Request : AddMemory(id, who, m)
       \/ PatchMemory(id, who)
       \/ \E t \in Target : PromoteSessionMemory(id, who, t)
       \/ DeleteMemory(id, who)
  \/ CreateProject \/ DeleteProject
  \/ \E a \in Agents :
       \/ \E access \in Access : AssignAgentToProject(a, access)
       \/ UnassignAgentFromProject(a) \/ RegisterAgent(a) \/ ExecuteTool(a)

Spec == Init /\ [][Next]_vars

----------------------------------------------------------------------------

\* A session note is read by its author and by the user, until one of them
\* promotes it, changes its scope or visibility, or hands it to another agent,
\* whose alone it is then: whatever others promote and patch, and whatever they
\* are assigned to.
NotesStayPrivate ==
  \A id \in Memories, a \in Agents :
    memory[id] # None /\ note[id] \notin {None, a} => id \notin SearchMemory(a)
=============================================================================
