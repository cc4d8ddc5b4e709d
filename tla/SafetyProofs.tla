---------------------------- MODULE SafetyProofs ----------------------------
(***************************************************************************)
(* Proofs about the parts that the run of MCSafety puts together, each for *)
(* any values of its constants: that a session note is read by its author  *)
(* and the user alone, that conversations stay apart, that the nodes of the *)
(* application and of the backend in development are known, that the art   *)
(* page, the settings page and the pairing wizard show what the node and the *)
(* relay hold, and that all of these and the relay are type correct.       *)
(***************************************************************************)
EXTENDS MCSafety, RelayProofs, TLAPS

----------------------------------------------------------------------------
(* Who reads memories (MemoryAccess) *)

\* A session note of the user is visible to the user only, one of an agent to
\* the agent that it names: its author.
NoteIsOwn(id) ==
  memory[id] # None /\ note[id] # None =>
    IF note[id] = Notes!User THEN memory[id].visibility = "user_only"
    ELSE memory[id].visibility = "private_agent" /\ memory[id].agent = note[id]

NotesInv == Notes!TypeOK /\ \A id \in Memories : NoteIsOwn(id)

LEMMA InitNotesInv == Notes!Init => NotesInv
BY DEF Notes!Init, NotesInv, Notes!TypeOK, NoteIsOwn

\* What is read back is a visibility, and what was given one keeps it.
LEMMA NormalizedFacts ==
  ASSUME NEW v \in Notes!Visibility \cup {None}, NEW scope \in Notes!Scope
  PROVE  /\ Notes!NormalizePermission(v, scope) \in Notes!Visibility
         /\ Notes!ParsePermission(v) \in Notes!Visibility
         /\ v \in Notes!Visibility => Notes!ParsePermission(v) = v
<1>1. \A s \in Notes!Scope : Notes!DefaultVisibility(s) \in Notes!Visibility
  BY DEF Notes!DefaultVisibility, Notes!Scope, Notes!Visibility
<1>2. "global" \in Notes!Scope
  BY DEF Notes!Scope
<1> QED
  BY <1>1, <1>2, NotesAssumption
  DEF Notes!NormalizePermission, Notes!ParsePermission, Notes!AccessAssumption

\* A memory that is changed in one step, by one request.
LEMMA OneMemoryChanges ==
  ASSUME NotesInv, NEW id \in Memories,
         NEW m \in Notes!Memory \cup {None}, NEW w \in Notes!Actor \cup {None},
         memory' = [memory EXCEPT ![id] = m], note' = [note EXCEPT ![id] = w],
         UNCHANGED <<project, assigned, writers>>,
         m # None /\ w # None =>
           IF w = Notes!User THEN m.visibility = "user_only"
           ELSE m.visibility = "private_agent" /\ m.agent = w
  PROVE  NotesInv'
<1>1. Notes!TypeOK'
  BY DEF NotesInv, Notes!TypeOK
<1>2. \A other \in Memories : NoteIsOwn(other)'
  BY DEF NotesInv, Notes!TypeOK, NoteIsOwn
<1> QED
  BY <1>1, <1>2 DEF NotesInv

LEMMA AddMemoryKeepsNotes ==
  ASSUME NotesInv, NEW id \in Memories, NEW who \in Notes!Actor,
         NEW m \in Notes!Request,
         Notes!AddMemory(id, who, m)
  PROVE  NotesInv'
<1> DEFINE record == [m EXCEPT !.visibility = Notes!AddedVisibility(who, m),
                               !.agent = IF @ = None /\ m.scope = "session" /\ who # Notes!User
                                         THEN who ELSE @]
           author == IF m.scope = "session" THEN who ELSE None
<1>1. /\ Notes!CanWriteMemory(record, who)
      /\ memory' = [memory EXCEPT ![id] = record] /\ note' = [note EXCEPT ![id] = author]
      /\ UNCHANGED <<project, assigned, writers>>
  BY DEF Notes!AddMemory
<1>2. /\ m.scope \in Notes!Scope /\ m.visibility \in Notes!Visibility \cup {None}
      /\ m.agent \in Notes!Owner
  BY DEF Notes!Request
<1>3. Notes!AddedVisibility(who, m) \in Notes!Visibility
  BY <1>2, NormalizedFacts DEF Notes!AddedVisibility, Notes!Visibility
<1>4. /\ record \in Notes!Memory
      /\ record.visibility = Notes!AddedVisibility(who, m)
      /\ m.scope = "session" =>
           record.agent = IF m.agent = None /\ who # Notes!User THEN who ELSE m.agent
  BY <1>2, <1>3 DEF Notes!Request, Notes!Memory, Notes!Actor, Notes!Owner
<1>5. author \in Notes!Actor \cup {None}
  OBVIOUS
<1>6. ASSUME m.scope = "session"
      PROVE  IF who = Notes!User THEN record.visibility = "user_only"
             ELSE record.visibility = "private_agent" /\ record.agent = who
  <2>1. record.visibility = IF who = Notes!User THEN "user_only" ELSE "private_agent"
    BY <1>4, <1>6 DEF Notes!AddedVisibility
  <2> HIDE DEF record
  <2>2. who # Notes!User => record.agent = who
    BY <1>1, <2>1 DEF Notes!CanWriteMemory
  <2> QED
    BY <2>1, <2>2
<1> HIDE DEF record
<1> QED
  BY <1>1, <1>4, <1>5, <1>6, OneMemoryChanges, NotesAssumption DEF Notes!AccessAssumption

\* An update keeps the note of a memory whose scope and visibility it keeps, as the
\* note of the agent that the memory names then.
LEMMA UpdateMemoryKeepsNotes ==
  ASSUME NotesInv, NEW id \in Memories, NEW who \in Notes!Actor, NEW next,
         Notes!UpdateMemory(id, who, next), memory[id] # None,
         next \in Notes!Request
  PROVE  NotesInv'
<1> DEFINE m == [next EXCEPT !.visibility = Notes!ParsePermission(@)]
           w == Notes!NoteAfter(id, next)
<1>1. /\ memory' = [memory EXCEPT ![id] = m] /\ note' = [note EXCEPT ![id] = w]
      /\ UNCHANGED <<project, assigned, writers>> /\ Notes!ValidateMemory(next)
  BY DEF Notes!UpdateMemory, NotesInv, Notes!TypeOK
<1>2. Notes!ParsePermission(next.visibility) \in Notes!Visibility
  BY NormalizedFacts DEF Notes!Request
<1>3. /\ m \in Notes!Memory /\ m.agent = next.agent
      /\ m.visibility = Notes!ParsePermission(next.visibility)
  BY <1>2 DEF Notes!Request, Notes!Memory
<1>4. /\ note[id] \in Notes!Actor \cup {None} /\ memory[id] \in Notes!Memory /\ NoteIsOwn(id)
      /\ next.agent \in Notes!Owner
  BY DEF NotesInv, Notes!TypeOK, Notes!Request
<1>5. w \in Notes!Actor \cup {None}
  BY <1>4 DEF Notes!NoteAfter, Notes!Actor, Notes!Owner
<1>6. ASSUME w # None
      PROVE  IF w = Notes!User THEN m.visibility = "user_only"
             ELSE m.visibility = "private_agent" /\ m.agent = w
  <2>1. /\ next.visibility = memory[id].visibility /\ note[id] # None
        /\ w = IF note[id] \in MeshAgents THEN next.agent ELSE note[id]
    BY <1>6, NotesAssumption DEF Notes!NoteAfter, Notes!AccessAssumption, Notes!Actor
  <2>2. m.visibility = memory[id].visibility
    BY <1>3, <1>4, <2>1, NormalizedFacts DEF Notes!Memory
  <2>3. CASE note[id] \in MeshAgents
    <3>1. note[id] # Notes!User /\ m.visibility = "private_agent"
      BY <1>4, <2>1, <2>2, <2>3, NotesAssumption DEF NoteIsOwn, Notes!AccessAssumption
    <3>2. w = next.agent /\ w \in MeshAgents
      BY <1>4, <1>6, <2>1, <2>3 DEF Notes!Owner
    <3> QED
      BY <1>3, <3>1, <3>2, NotesAssumption DEF Notes!AccessAssumption
  <2>4. CASE note[id] \notin MeshAgents
    BY <1>4, <2>1, <2>2, <2>4 DEF NoteIsOwn, Notes!Actor
  <2> QED
    BY <2>3, <2>4
<1> HIDE DEF m, w
<1> QED
  BY <1>1, <1>3, <1>5, <1>6, OneMemoryChanges

\* Another content, other permissions, another scope or another id.
LEMMA PatchMemoryKeepsNotes ==
  ASSUME NotesInv, NEW id \in Memories, NEW who \in Notes!Actor, Notes!PatchMemory(id, who)
  PROVE  NotesInv'
<1>1. /\ memory[id] # None /\ memory[id] \in Notes!Memory
      /\ \E next \in Notes!Request : Notes!UpdateMemory(id, who, next)
  <2> DEFINE Patched(next) == Notes!UpdateMemory(id, who, next)
  <2>0. /\ memory[id] # None
        /\ \/ Patched(memory[id])
           \/ \E v \in Notes!Visibility \cup {None}, access \in Notes!Access :
                Patched([memory[id] EXCEPT !.visibility = v, !.access = access])
           \/ \E scope \in Notes!Scope : Patched([memory[id] EXCEPT !.scope = scope])
           \/ \E a \in Notes!Owner : Patched([memory[id] EXCEPT !.agent = a])
           \/ \E d \in Notes!Owner : Patched([memory[id] EXCEPT !.device = d])
           \/ \E p \in BOOLEAN : Patched([memory[id] EXCEPT !.project = p])
    BY Zenon DEF Notes!PatchMemory
  <2> HIDE DEF Patched
  <2>1. memory[id] # None /\ memory[id] \in Notes!Memory
    <3>1. memory[id] # None
      BY <2>0, Zenon
    <3> QED
      BY <3>1 DEF NotesInv, Notes!TypeOK
  <2>2. memory[id] \in Notes!Request
    BY <2>1 DEF Notes!Request, Notes!Memory
  <2>3. \A v \in Notes!Visibility \cup {None}, access \in Notes!Access :
          [memory[id] EXCEPT !.visibility = v, !.access = access] \in Notes!Request
    BY <2>2 DEF Notes!Request
  <2>4. \A scope \in Notes!Scope : [memory[id] EXCEPT !.scope = scope] \in Notes!Request
    BY <2>2 DEF Notes!Request
  <2>5. \A a \in Notes!Owner : /\ [memory[id] EXCEPT !.agent = a] \in Notes!Request
                               /\ [memory[id] EXCEPT !.device = a] \in Notes!Request
    BY <2>2 DEF Notes!Request
  <2>6. \A p \in BOOLEAN : [memory[id] EXCEPT !.project = p] \in Notes!Request
    BY <2>2 DEF Notes!Request
  <2>7. \E next \in Notes!Request : Patched(next)
    BY <2>0, <2>2, <2>3, <2>4, <2>5, <2>6, Zenon
  <2> QED
    BY <2>1, <2>7 DEF Patched
<1> QED
  BY <1>1, UpdateMemoryKeepsNotes

\* A promoted note is a memory that a patch can leave, too.
LEMMA PromoteSessionMemoryKeepsNotes ==
  ASSUME NotesInv, NEW id \in Memories, NEW who \in Notes!Actor, NEW t \in Notes!Target,
         Notes!PromoteSessionMemory(id, who, t)
  PROVE  NotesInv'
<1> DEFINE next ==
      [scope |-> t.scope, access |-> "read_write", agent |-> t.agent, device |-> t.device,
       project |-> t.project, visibility |-> Notes!NormalizePermission(None, t.scope)]
<1>1. memory[id] # None /\ Notes!UpdateMemory(id, who, next)
  BY DEF Notes!PromoteSessionMemory
<1>2. Notes!NormalizePermission(None, t.scope) \in Notes!Visibility
  BY NormalizedFacts DEF Notes!Target
<1>3. next \in Notes!Request
  BY <1>2 DEF Notes!Request, Notes!Target, Notes!Access
<1> HIDE DEF next
<1> QED
  BY <1>1, <1>3, UpdateMemoryKeepsNotes

LEMMA DeletionKeepsNotes ==
  ASSUME NotesInv,
         Notes!DeleteProject \/ \E id \in Memories, who \in Notes!Actor : Notes!DeleteMemory(id, who)
  PROVE  NotesInv'
<1>1. ASSUME NEW id \in Memories, NEW who \in Notes!Actor, Notes!DeleteMemory(id, who)
      PROVE  NotesInv'
  BY <1>1, OneMemoryChanges DEF Notes!DeleteMemory
<1>2. CASE Notes!DeleteProject
  <2>1. Notes!TypeOK'
    BY <1>2 DEF Notes!DeleteProject, NotesInv, Notes!TypeOK
  <2>2. \A id \in Memories : NoteIsOwn(id)'
    BY <1>2 DEF Notes!DeleteProject, NotesInv, NoteIsOwn
  <2> QED
    BY <2>1, <2>2 DEF NotesInv
<1> QED
  BY <1>1, <1>2

\* A tool changes memories as requests do.
LEMMA ExecuteToolKeepsNotes ==
  ASSUME NotesInv, NEW a \in MeshAgents, Notes!ExecuteTool(a)
  PROVE  NotesInv'
<1>1. a \in Notes!Actor
  BY DEF Notes!Actor
<1>2. ASSUME NEW id \in Memories, NEW m \in Notes!Request,
             Notes!AddMemory(
               id, a, [m EXCEPT !.visibility = Notes!NormalizePermission(@, m.scope)])
      PROVE  NotesInv'
  <2> DEFINE request == [m EXCEPT !.visibility = Notes!NormalizePermission(@, m.scope)]
  <2>1. Notes!NormalizePermission(m.visibility, m.scope) \in Notes!Visibility
    BY NormalizedFacts DEF Notes!Request
  <2>2. request \in Notes!Request /\ Notes!AddMemory(id, a, request)
    BY <1>2, <2>1 DEF Notes!Request
  <2> HIDE DEF request
  <2> QED
    BY <1>1, <2>2, AddMemoryKeepsNotes
<1>3. ASSUME NEW id \in Memories, memory[id] # None, Notes!UpdateMemory(id, a, memory[id])
      PROVE  NotesInv'
  <2>1. memory[id] \in Notes!Request
    BY <1>3 DEF NotesInv, Notes!TypeOK, Notes!Request, Notes!Memory
  <2> QED
    BY <1>1, <1>3, <2>1, UpdateMemoryKeepsNotes
<1>4. ASSUME NEW id \in Memories, NEW t \in Notes!Target, Notes!PromoteSessionMemory(id, a, t)
      PROVE  NotesInv'
  BY <1>1, <1>4, PromoteSessionMemoryKeepsNotes
<1> QED
  BY <1>2, <1>3, <1>4 DEF Notes!ExecuteTool

LEMMA NextNotesInv ==
  ASSUME NotesInv, [Notes!Next]_memoryVars
  PROVE  NotesInv'
<1>1. ASSUME NEW id \in Memories, NEW who \in Notes!Actor, NEW m \in Notes!Request,
             Notes!AddMemory(id, who, m)
      PROVE  NotesInv'
  BY <1>1, AddMemoryKeepsNotes
<1>2. ASSUME NEW id \in Memories, NEW who \in Notes!Actor, Notes!PatchMemory(id, who)
      PROVE  NotesInv'
  BY <1>2, PatchMemoryKeepsNotes
<1>3. ASSUME NEW id \in Memories, NEW who \in Notes!Actor, NEW t \in Notes!Target,
             Notes!PromoteSessionMemory(id, who, t)
      PROVE  NotesInv'
  BY <1>3, PromoteSessionMemoryKeepsNotes
<1>4. ASSUME NEW id \in Memories, NEW who \in Notes!Actor, Notes!DeleteMemory(id, who)
      PROVE  NotesInv'
  BY <1>4, DeletionKeepsNotes
<1>5. CASE Notes!DeleteProject
  BY <1>5, DeletionKeepsNotes
<1>6. CASE Notes!CreateProject
  BY <1>6 DEF Notes!CreateProject, NotesInv, Notes!TypeOK, NoteIsOwn
<1>7. ASSUME NEW a \in MeshAgents, NEW access \in Notes!Access,
             Notes!AssignAgentToProject(a, access)
      PROVE  NotesInv'
  BY <1>7 DEF Notes!AssignAgentToProject, NotesInv, Notes!TypeOK, NoteIsOwn
<1>8. ASSUME NEW a \in MeshAgents, Notes!UnassignAgentFromProject(a)
      PROVE  NotesInv'
  BY <1>8 DEF Notes!UnassignAgentFromProject, NotesInv, Notes!TypeOK, NoteIsOwn
<1>9. ASSUME NEW a \in MeshAgents, Notes!RegisterAgent(a)
      PROVE  NotesInv'
  BY <1>9 DEF Notes!RegisterAgent, NotesInv, Notes!TypeOK, NoteIsOwn
<1>10. ASSUME NEW a \in MeshAgents, Notes!ExecuteTool(a)
       PROVE  NotesInv'
  BY <1>10, ExecuteToolKeepsNotes
<1>11. CASE UNCHANGED memoryVars
  BY <1>11 DEF memoryVars, NotesInv, Notes!TypeOK, NoteIsOwn
<1> QED
  BY <1>1, <1>2, <1>3, <1>4, <1>5, <1>6, <1>7, <1>8, <1>9, <1>10, <1>11 DEF Notes!Next

\* The memories of the run: they change by steps of theirs only.
LEMMA NotesInvariance == SafetySpec => []NotesInv
<1>1. SafetyInit => NotesInv
  BY InitNotesInv DEF SafetyInit
<1>2. NotesInv /\ [SafetyNext]_safetyVars => NotesInv'
  <2>1. [SafetyNext]_safetyVars => [Notes!Next]_memoryVars
    BY DEF SafetyNext, safetyVars, memoryVars
  <2> QED
    BY <2>1, NextNotesInv
<1> QED
  BY <1>1, <1>2, PTL DEF SafetySpec

\* No agent finds the session note of another one or of the user, whatever
\* the others are assigned to, patch, promote and delete; one that is handed to
\* another agent is then that agent's alone.
THEOREM NotesArePrivate == SafetySpec => []NotesStayPrivate
<1>1. NotesInv => NotesStayPrivate
  <2> SUFFICES ASSUME NotesInv, NEW id \in Memories, NEW a \in MeshAgents,
                      memory[id] # None, note[id] \notin {None, a}
               PROVE  ~Notes!CanReadMemory(memory[id], a)
    BY DEF NotesStayPrivate, Notes!NotesStayPrivate, Notes!SearchMemory
  <2>1. NoteIsOwn(id) /\ a # Notes!User
    BY NotesAssumption DEF NotesInv, Notes!AccessAssumption
  <2> QED
    BY <2>1 DEF NoteIsOwn, Notes!CanReadMemory
<1> QED
  BY <1>1, NotesInvariance, PTL

----------------------------------------------------------------------------
(* The conversations of the application (Conversation) *)

Conv ==
  [owner : Agents \cup {None}, messages : Seq(Talk!Message),
   provider : Talk!Sessions \cup {None}]

TalkTypes ==
  /\ agent \in Agents
  /\ selected \in Talk!Sessions \cup {None} /\ provider \in Talk!Sessions \cup {None}
  /\ suppressed \in Talk!Sessions \cup {None}
  /\ shown \in Seq(Talk!Message)
  /\ busy \in BOOLEAN /\ crossed \in BOOLEAN /\ failed \in BOOLEAN /\ doubled \in BOOLEAN
  /\ kept \in [Talk!Sessions -> Conv]
  /\ \A s \in Talk!Sessions :
       kept[s].owner \notin LocalAgents => Len(kept[s].messages) <= MaxMessages
  /\ loads \in [Loads -> Talk!Sessions \cup {None}]
  /\ turns \in [Talk!Turns -> Talk!Turn]
  /\ created \in Agents \cup {None, "listing", "scanning"}

Begun == {"creating", "appending", "asking", "storing", "streaming", "refreshing", "listing"}
Going == Begun \cup {"stopping"}

\* What a turn holds between its awaits: the conversation that was selected, the
\* one it is about, and an agent that takes it by way of the relay or as a stream.
TurnOk(n) ==
  /\ n.at \in Going => n.agent \in Agents
  /\ n.chosen # None => kept[n.chosen].owner # None
  /\ n.session # None => kept[n.session].owner # None
  /\ n.at \in {"stopping", "streaming"} => n.session = n.chosen
  /\ n.at = "creating" => n.chosen = None
  /\ n.at = "appending" => n.session # None /\ n.chosen \in {None, n.session}
  /\ n.at \in {"asking", "storing", "refreshing", "listing"} => n.session # None
  /\ n.at = "streaming" => n.agent \in LocalAgents
  /\ n.at \in {"creating", "appending", "asking", "storing"} => n.agent \notin LocalAgents

PlaceInv ==
  /\ selected # None => kept[selected].owner # None
  /\ \A s \in Talk!Sessions :
       kept[s].owner = None => kept[s].messages = << >> /\ kept[s].provider = None
  /\ \A t \in Talk!Turns : TurnOk(turns[t])

\* One thing is under way at a time, as busy says, apart from loads.
AloneInv ==
  ~doubled =>
    /\ \A t, u \in Talk!Turns : turns[t].at \in Going /\ turns[u].at \in Going => t = u
    /\ created # None => \A t \in Talk!Turns : turns[t].at \notin Going
    /\ ~busy => created = None /\ \A t \in Talk!Turns : turns[t].at \notin Begun
    /\ (\A t \in Talk!Turns : turns[t].at \notin Begun) => suppressed = None
    /\ \A t \in Talk!Turns : turns[t].at = "appending" => suppressed = turns[t].session

\* An answer comes after its question.
Paired(m) ==
  \A i \in DOMAIN m : m[i].by = "agent" => i > 1 /\ m[i - 1] = Talk!Said(m[i].turn, "user")

EndsWith(m, x) == m # << >> /\ m[Len(m)] = x

\* The question of a turn that waits for its answer is the last of its conversation.
AnswerInv ==
  ~doubled =>
    /\ \A s \in Talk!Sessions : Paired(kept[s].messages)
    /\ \A t \in Talk!Turns : turns[t].at \in {"asking", "storing"} =>
         EndsWith(kept[turns[t].session].messages, Talk!Said(t, "user"))

\* What a turn relies on, while the user waits for it.
CalmTurn(n) ==
  /\ n.agent = agent
  /\ n.at \in {"stopping", "creating", "streaming", "appending"} => selected = n.chosen
  /\ n.at \in {"asking", "storing", "refreshing", "listing"} => selected = n.session
  /\ n.at = "appending" => kept[n.session].owner = agent
  /\ n.at \in {"asking", "storing"} => n.provider = provider

\* While the user waits, the selected conversation is one of the agent, loads are of
\* it, and the provider's session is its own, or that which it keeps.
CalmInv ==
  ~doubled /\ ~crossed =>
    /\ selected = None => provider = None
    /\ selected # None => kept[selected].owner = agent
    /\ \A l \in Loads : loads[l] \in {None, selected}
    /\ (\E l \in Loads : loads[l] # None) =>
         \A t \in Talk!Turns : turns[t].at \in Going => turns[t].at \in {"refreshing", "listing"}
    /\ created \in Agents => created = agent /\ \A l \in Loads : loads[l] = None
    /\ (\A l \in Loads : loads[l] = None) /\ agent \notin LocalAgents /\ selected # None =>
         provider \in {None, selected, kept[selected].provider}
    /\ \A t \in Talk!Turns : turns[t].at \in Going => CalmTurn(turns[t])

StoredIn(s) == IF s = None THEN << >> ELSE kept[s].messages

\* What is shown while a turn is at one of its steps.
ShownOk(n, t) ==
  /\ n.at = "stopping" => shown = StoredIn(selected)
  /\ n.at = "creating" => shown = <<Talk!Said(t, "user")>>
  /\ n.at = "appending" => shown = Append(kept[n.session].messages, Talk!Said(t, "user"))
  /\ n.at = "asking" => shown = kept[n.session].messages
  /\ n.at = "storing" => shown = Append(kept[n.session].messages, Talk!Said(t, "agent"))
  /\ n.at = "listing" /\ (\A l \in Loads : loads[l] = None) => shown = kept[selected].messages

ShownInv ==
  ~doubled /\ ~crossed /\ ~failed =>
    /\ (\A t \in Talk!Turns : turns[t].at \notin Going) /\ (\A l \in Loads : loads[l] = None)
         => shown = StoredIn(selected)
    /\ \A t \in Talk!Turns : ShownOk(turns[t], t)

TalkInv ==
  TalkTypes /\ PlaceInv /\ AloneInv /\ AnswerInv /\ CalmInv /\ ShownInv

LEMMA TalkAssumed ==
  /\ LocalAgents \subseteq Agents /\ Agents # {} /\ MaxMessages \in Nat
  /\ None \notin Talk!Sessions /\ None \notin Agents
  /\ None \notin {"listing", "scanning"} /\ {"listing", "scanning"} \cap Agents = {}
BY TalkAssumption DEF Talk!ConversationAssumption

LEMMA SaidIsMessage ==
  ASSUME NEW t \in Talk!Turns
  PROVE  /\ Talk!Said(t, "user") \in Talk!Message /\ Talk!Said(t, "agent") \in Talk!Message
         /\ Talk!Said(t, "user").by # "agent" /\ Talk!Said(t, "agent").turn = t
BY DEF Talk!Said, Talk!Message

\* A question is added, or an answer to the question that is the last one.
LEMMA AddedIsPaired ==
  ASSUME NEW m \in Seq(Talk!Message), NEW x \in Talk!Message, Paired(m),
         x.by = "agent" => EndsWith(m, Talk!Said(x.turn, "user"))
  PROVE  /\ Append(m, x) \in Seq(Talk!Message) /\ Len(Append(m, x)) = Len(m) + 1
         /\ Paired(Append(m, x)) /\ EndsWith(Append(m, x), x)
<1> DEFINE n == Append(m, x)
<1>1. /\ n \in Seq(Talk!Message) /\ Len(n) = Len(m) + 1 /\ n[Len(n)] = x
      /\ \A i \in 1..Len(m) : n[i] = m[i]
      /\ DOMAIN m = 1..Len(m) /\ DOMAIN n = 1..Len(n) /\ Len(m) \in Nat
  OBVIOUS
<1>2. m # << >> => Len(m) > 0
  OBVIOUS
<1>3. n # << >>
  BY <1>1
<1> HIDE DEF n
<1>4. ASSUME NEW i \in DOMAIN n, n[i].by = "agent"
      PROVE  i > 1 /\ n[i - 1] = Talk!Said(n[i].turn, "user")
  <2>1. CASE i = Len(n)
    <3>1. EndsWith(m, Talk!Said(x.turn, "user")) /\ n[i] = x
      BY <1>1, <1>4, <2>1
    <3>2. Len(m) > 0 /\ i - 1 = Len(m) /\ i > 1 /\ i - 1 \in 1..Len(m)
      BY <1>1, <1>2, <2>1, <3>1 DEF EndsWith
    <3> QED
      BY <1>1, <3>1, <3>2 DEF EndsWith
  <2>2. CASE i # Len(n)
    <3>1. i \in 1..Len(m) /\ i \in DOMAIN m /\ m[i].by = "agent" /\ n[i] = m[i]
      BY <1>1, <1>4, <2>2
    <3>2. i > 1 /\ m[i - 1] = Talk!Said(m[i].turn, "user")
      BY <3>1 DEF Paired
    <3>3. i - 1 \in 1..Len(m)
      BY <1>1, <3>1, <3>2
    <3> QED
      BY <1>1, <3>1, <3>2, <3>3
  <2> QED
    BY <2>1, <2>2
<1>5. Paired(n) /\ EndsWith(n, x)
  BY <1>1, <1>3, <1>4 DEF Paired, EndsWith
<1> QED
  BY <1>1, <1>5 DEF n

\* One turn takes a step.
LEMMA TurnSteps ==
  ASSUME TalkTypes, NEW t \in Talk!Turns, NEW n \in Talk!Turn,
         turns' = [turns EXCEPT ![t] = n]
  PROVE  /\ turns' \in [Talk!Turns -> Talk!Turn] /\ turns'[t] = n
         /\ \A u \in Talk!Turns : u # t => turns'[u] = turns[u]
BY DEF TalkTypes

LEMMA InitTalkInv == Talk!Init => TalkInv
<1> SUFFICES ASSUME Talk!Init PROVE TalkInv
  OBVIOUS
<1>1. agent \in Agents
  BY TalkAssumed DEF Talk!Init
<1>2. Talk!NewTurn \in Talk!Turn /\ Talk!NewTurn.at = "new"
      /\ Talk!NewTurn.chosen = None /\ Talk!NewTurn.session = None
  BY DEF Talk!NewTurn, Talk!Turn
<1>3. Talk!NoConversation \in Conv /\ Talk!NoConversation.messages = << >>
      /\ Talk!NoConversation.owner = None /\ Talk!NoConversation.provider = None
  BY DEF Talk!NoConversation, Conv
<1>4. /\ \A t \in Talk!Turns : turns[t] = Talk!NewTurn
      /\ \A s \in Talk!Sessions : kept[s] = Talk!NoConversation
  BY DEF Talk!Init
<1>5. TalkTypes
  <2>1. kept \in [Talk!Sessions -> Conv] /\ turns \in [Talk!Turns -> Talk!Turn]
    BY <1>2, <1>3 DEF Talk!Init
  <2>2. \A s \in Talk!Sessions : Len(kept[s].messages) <= MaxMessages
    BY <1>3, <1>4, TalkAssumed
  <2>3. shown \in Seq(Talk!Message)
    BY DEF Talk!Init
  <2> QED
    BY <1>1, <2>1, <2>2, <2>3, TalkAssumed DEF Talk!Init, TalkTypes
<1>6. PlaceInv
  BY <1>2, <1>3, <1>4, TalkAssumed DEF Talk!Init, PlaceInv, TurnOk, Going, Begun
<1>7. AloneInv
  BY <1>2, <1>4 DEF Talk!Init, AloneInv, Going, Begun
<1>8. AnswerInv
  BY <1>2, <1>3, <1>4 DEF AnswerInv, Paired
<1>9. CalmInv
  BY <1>2, <1>4, TalkAssumed DEF Talk!Init, CalmInv, Going, Begun
<1>10. ShownInv
  BY <1>2, <1>4 DEF Talk!Init, ShownInv, ShownOk, StoredIn
<1> QED
  BY <1>5, <1>6, <1>7, <1>8, <1>9, <1>10 DEF TalkInv


LEMMA SelectKeepsTalk ==
  ASSUME TalkInv, NEW s \in Talk!Sessions, Talk!Select(s)
  PROVE  TalkInv'
<1>1. /\ kept[s].owner # None /\ s # selected /\ selected' = s
      /\ IF s = selected \/ Talk!IsSuppressed(s, suppressed, agent) THEN UNCHANGED loads ELSE Talk!Load(s)
      /\ crossed' = (Talk!SomethingIsUnderWay \/ kept[s].owner # agent)
      /\ failed' = (failed /\ Talk!SomethingIsUnderWay)
      /\ UNCHANGED <<agent, shown, provider, suppressed, busy, kept, turns, created, doubled>>
  BY DEF Talk!Select, Talk!SelectionShown
<1>2. s # None
  BY TalkAssumed
<1>3. TalkTypes'
  BY <1>1 DEF TalkInv, TalkTypes, Talk!Load
<1>4. PlaceInv' /\ AloneInv' /\ AnswerInv'
  BY <1>1 DEF TalkInv, PlaceInv, TurnOk, AloneInv, AnswerInv
<1>5. ASSUME ~doubled', ~crossed'
      PROVE  /\ \A t \in Talk!Turns : turns[t].at \notin Going
             /\ \A l \in Loads : loads[l] = None
             /\ created = None /\ kept[s].owner = agent
             /\ (\E l \in Loads : loads'[l] = s) /\ \A l \in Loads : loads'[l] \in {None, s}
  <2>1. /\ \A t \in Talk!Turns : turns[t].at \notin Going
        /\ \A l \in Loads : loads[l] = None
        /\ created = None /\ kept[s].owner = agent
    BY <1>1, <1>5 DEF Talk!SomethingIsUnderWay, Talk!Running, Talk!Loading, TalkInv, TalkTypes,
      Talk!Turn, Going, Begun
  <2>2. suppressed = None
    BY <1>1, <1>5, <2>1 DEF TalkInv, AloneInv, Going
  <2>3. Talk!Load(s)
    BY <1>1, <1>2, <2>2 DEF Talk!IsSuppressed
  <2> QED
    BY <2>1, <2>3 DEF Talk!Load, TalkInv, TalkTypes
<1>6. CalmInv'
  BY <1>1, <1>2, <1>5, TalkAssumed DEF CalmInv
<1>7. ShownInv'
  BY <1>1, <1>2, <1>5 DEF ShownInv, ShownOk, Going, Begun
<1> QED
  BY <1>3, <1>4, <1>6, <1>7 DEF TalkInv

LEMMA ChangeAgentKeepsTalk ==
  ASSUME TalkInv, NEW a \in Agents, Talk!ChangeAgent(a)
  PROVE  TalkInv'
<1>1. /\ agent' = a /\ selected' = None /\ shown' = << >>
      /\ provider' \in {provider, None} /\ (selected # None => provider' = None)
      /\ crossed' = (Talk!SomethingIsUnderWay \/ (crossed /\ selected = None))
      /\ failed' = FALSE
      /\ UNCHANGED <<suppressed, busy, kept, loads, turns, created, doubled>>
  BY DEF Talk!ChangeAgent, Talk!NothingSelected
<1>2. TalkTypes'
  <2>1. shown' \in Seq(Talk!Message) /\ provider' \in Talk!Sessions \cup {None}
    BY <1>1 DEF TalkInv, TalkTypes
  <2>2. crossed' \in BOOLEAN /\ failed' \in BOOLEAN
    BY <1>1 DEF TalkInv, TalkTypes
  <2> QED
    BY <1>1, <2>1, <2>2 DEF TalkInv, TalkTypes
<1>3. PlaceInv' /\ AloneInv' /\ AnswerInv'
  BY <1>1 DEF TalkInv, PlaceInv, TurnOk, AloneInv, AnswerInv
<1>4. ASSUME ~doubled', ~crossed'
      PROVE  /\ \A t \in Talk!Turns : turns[t].at \notin Going
             /\ \A l \in Loads : loads[l] = None
             /\ created = None /\ provider' = None
  <2>1. /\ \A t \in Talk!Turns : turns[t].at \notin Going
        /\ \A l \in Loads : loads[l] = None
        /\ created = None /\ (crossed => selected # None)
    BY <1>1, <1>4 DEF Talk!SomethingIsUnderWay, Talk!Running, Talk!Loading, TalkInv, TalkTypes,
      Talk!Turn, Going, Begun
  <2> QED
    BY <1>1, <1>4, <2>1 DEF TalkInv, CalmInv
<1>5. CalmInv'
  BY <1>1, <1>4, TalkAssumed DEF CalmInv
<1>6. ShownInv'
  BY <1>1, <1>4 DEF ShownInv, ShownOk, StoredIn, Going, Begun
<1> QED
  BY <1>2, <1>3, <1>5, <1>6 DEF TalkInv

\* The roster moves the agent, before or as a scan for providers ends.
LEMMA MovedKeepsTalk ==
  ASSUME TalkInv, NEW a \in Agents, Talk!RosterMoves(a) \/ Talk!Refreshes(a)
  PROVE  TalkInv'
<1>1. /\ agent' = a
      /\ crossed' = (crossed \/ Talk!SomethingIsUnderWay \/ selected # None \/ provider # None)
      /\ \/ shown' = << >> /\ provider' = None /\ selected = None
         \/ UNCHANGED <<shown, provider>>
      /\ \/ selected # None /\ Talk!Load(selected)
         \/ UNCHANGED loads
      /\ UNCHANGED <<selected, suppressed, kept, turns, failed, doubled>>
      /\ \/ UNCHANGED <<busy, created>>
         \/ created # None /\ created' = None /\ busy' = FALSE
  BY TalkAssumed DEF Talk!RosterMoves, Talk!Refreshes, Talk!MovedTo
<1>2. TalkTypes'
  <2>1. loads' \in [Loads -> Talk!Sessions \cup {None}]
    <3>1. loads \in [Loads -> Talk!Sessions \cup {None}] /\ selected \in Talk!Sessions \cup {None}
      BY DEF TalkInv, TalkTypes
    <3>2. CASE UNCHANGED loads
      BY <3>1, <3>2
    <3>3. CASE Talk!Load(selected)
      BY <3>1, <3>3 DEF Talk!Load
    <3> QED
      BY <1>1, <3>2, <3>3
  <2>2. /\ provider' \in Talk!Sessions \cup {None}
        /\ busy' \in BOOLEAN /\ created' \in Agents \cup {None, "listing", "scanning"}
    BY <1>1 DEF TalkInv, TalkTypes
  <2>4. shown' \in Seq(Talk!Message)
    <3>1. << >> \in Seq(Talk!Message) /\ shown \in Seq(Talk!Message)
      BY DEF TalkInv, TalkTypes
    <3> QED
      BY <1>1, <3>1
  <2>3. crossed' \in BOOLEAN
    BY <1>1 DEF TalkInv, TalkTypes
  <2> QED
    BY <1>1, <2>1, <2>2, <2>3, <2>4 DEF TalkInv, TalkTypes
<1>3. PlaceInv' /\ AnswerInv'
  BY <1>1 DEF TalkInv, PlaceInv, TurnOk, AnswerInv
<1>4. AloneInv'
  BY <1>1 DEF TalkInv, AloneInv, Going
<1>5. ASSUME ~doubled', ~crossed'
      PROVE  /\ ~doubled /\ ~crossed /\ selected = None /\ provider' = None
             /\ \A t \in Talk!Turns : turns[t].at \notin Going
             /\ \A l \in Loads : loads[l] = None
             /\ created = None /\ created' = None /\ UNCHANGED loads
  BY <1>1, <1>5 DEF Talk!SomethingIsUnderWay, Talk!Running, Talk!Loading, TalkInv, TalkTypes,
    Talk!Turn, Going, Begun
<1>6. CalmInv'
  BY <1>1, <1>5, TalkAssumed DEF CalmInv
<1>7. ShownInv'
  BY <1>1, <1>5 DEF TalkInv, ShownInv, ShownOk, StoredIn, Going, Begun
<1> QED
  BY <1>2, <1>3, <1>4, <1>6, <1>7 DEF TalkInv

LEMMA LoadEndsKeepsTalk ==
  ASSUME TalkInv, NEW l \in Loads, Talk!LoadArrives(l) \/ Talk!LoadFails(l)
  PROVE  TalkInv'
<1>1. /\ loads[l] # None /\ loads' = [loads EXCEPT ![l] = None]
      /\ UNCHANGED <<agent, selected, suppressed, busy, kept, turns, created, doubled>>
      /\ \/ /\ shown' = kept[loads[l]].messages /\ UNCHANGED <<crossed, failed>>
            /\ provider' = IF kept[loads[l]].owner \in LocalAgents THEN provider
                           ELSE kept[loads[l]].provider
         \/ crossed' = TRUE /\ UNCHANGED <<shown, provider, failed>>
  BY DEF Talk!LoadArrives, Talk!LoadFails, Talk!history
<1>2. /\ loads[l] \in Talk!Sessions /\ kept[loads[l]] \in Conv
      /\ loads' \in [Loads -> Talk!Sessions \cup {None}] /\ loads'[l] = None
      /\ \A k \in Loads : k # l => loads'[k] = loads[k]
  BY <1>1 DEF TalkInv, TalkTypes
<1>3. TalkTypes'
  BY <1>1, <1>2 DEF TalkInv, TalkTypes, Conv
<1>4. PlaceInv' /\ AloneInv' /\ AnswerInv'
  BY <1>1 DEF TalkInv, PlaceInv, TurnOk, AloneInv, AnswerInv
<1>5. ASSUME ~doubled', ~crossed'
      PROVE  /\ ~doubled /\ ~crossed /\ loads[l] = selected
             /\ kept[selected].owner = agent
             /\ shown' = kept[selected].messages /\ failed' = failed
             /\ provider' = IF agent \in LocalAgents THEN provider ELSE kept[selected].provider
             /\ \A t \in Talk!Turns :
                  turns[t].at \in Going => turns[t].at \in {"refreshing", "listing"}
             /\ created \notin Agents
  BY <1>1, <1>2, <1>5 DEF TalkInv, CalmInv
<1>6. CalmInv'
  BY <1>1, <1>2, <1>5 DEF TalkInv, CalmInv, CalmTurn, Going, Begun
<1>7. ShownInv'
  BY <1>1, <1>2, <1>5, TalkAssumed DEF ShownInv, ShownOk, StoredIn, Going, Begun
<1> QED
  BY <1>3, <1>4, <1>6, <1>7 DEF TalkInv

LEMMA NewSessionKeepsTalk ==
  ASSUME TalkInv, Talk!NewSession \/ Talk!Refresh
  PROVE  TalkInv'
<1>1. /\ ~busy /\ busy' = TRUE /\ created' \in {agent, "scanning"}
      /\ crossed' = (crossed \/ Talk!SomethingIsUnderWay)
      /\ doubled' = (doubled \/ \E t \in Talk!Turns : turns[t].at = "stopping")
      /\ UNCHANGED <<agent, selected, shown, provider, suppressed, kept, loads, turns, failed>>
  BY DEF Talk!NewSession, Talk!Refresh, Talk!IsAboutToBegin
<1>2. TalkTypes'
  BY <1>1 DEF TalkInv, TalkTypes
<1>3. PlaceInv' /\ AnswerInv'
  BY <1>1 DEF TalkInv, PlaceInv, TurnOk, AnswerInv
<1>4. AloneInv'
  BY <1>1 DEF TalkInv, AloneInv, Going
<1>5. ~crossed' => ~crossed /\ \A l \in Loads : loads[l] = None
  BY <1>1 DEF Talk!SomethingIsUnderWay, Talk!Loading
<1>6. CalmInv'
  BY <1>1, <1>5, TalkAssumed DEF TalkInv, CalmInv, CalmTurn
<1>7. ShownInv'
  BY <1>1, <1>5 DEF TalkInv, ShownInv, ShownOk, StoredIn
<1> QED
  BY <1>2, <1>3, <1>4, <1>6, <1>7 DEF TalkInv

LEMMA NewSessionEndsKeepsTalk ==
  ASSUME TalkInv, Talk!NewSessionEnds
  PROVE  TalkInv'
<1>1. /\ created # None /\ created' = None /\ busy' = FALSE
      /\ UNCHANGED <<agent, selected, shown, provider, suppressed, kept, loads, turns,
                     crossed, failed, doubled>>
  BY DEF Talk!NewSessionEnds, Talk!history
<1>2. TalkTypes'
  BY <1>1 DEF TalkInv, TalkTypes
<1>3. PlaceInv' /\ AnswerInv'
  BY <1>1 DEF TalkInv, PlaceInv, TurnOk, AnswerInv
<1>4. AloneInv'
  BY <1>1 DEF TalkInv, AloneInv, Going
<1>5. CalmInv'
  BY <1>1, TalkAssumed DEF TalkInv, CalmInv, CalmTurn
<1>6. ShownInv'
  BY <1>1 DEF TalkInv, ShownInv, ShownOk, StoredIn
<1> QED
  BY <1>2, <1>3, <1>4, <1>5, <1>6 DEF TalkInv


\* A conversation gets its owner; nothing is in it.
LEMMA CreatedFacts ==
  ASSUME TalkInv, NEW s \in Talk!Sessions, NEW a \in Agents, Talk!Created(s, a)
  PROVE  /\ kept[s].owner = None /\ kept'[s].owner = a /\ a # None /\ s # None /\ s # selected
         /\ kept[s].messages = << >> /\ kept'[s].messages = << >> /\ kept'[s].provider = None
         /\ \A r \in Talk!Sessions : r # s => kept'[r] = kept[r]
         /\ kept' \in [Talk!Sessions -> Conv]
         /\ \A r \in Talk!Sessions : /\ kept[r].owner # None => kept'[r] = kept[r]
                                     /\ kept'[r].messages = kept[r].messages
                                     /\ kept'[r].provider = kept[r].provider
                                     /\ kept'[r].owner = None => kept[r].owner = None
<1>1. kept[s].owner = None /\ kept' = [kept EXCEPT ![s].owner = a]
  BY DEF Talk!Created
<1>2. kept[s] \in Conv /\ kept[s].messages = << >> /\ kept[s].provider = None
  BY <1>1 DEF TalkInv, TalkTypes, PlaceInv
<1>3. PICK c \in Conv : /\ c = [kept[s] EXCEPT !.owner = a]
                        /\ c.owner = a /\ c.messages = << >> /\ c.provider = None
  <2> DEFINE c == [kept[s] EXCEPT !.owner = a]
  <2>1. c \in Conv /\ c.owner = a /\ c.messages = << >> /\ c.provider = None
    BY <1>2 DEF Conv
  <2> QED
    BY <2>1
<1>4. kept' = [kept EXCEPT ![s] = c]
  BY <1>1, <1>3
<1>5. /\ kept'[s] = c /\ kept' \in [Talk!Sessions -> Conv]
      /\ \A r \in Talk!Sessions : r # s => kept'[r] = kept[r]
  BY <1>4 DEF TalkInv, TalkTypes
<1> QED
  BY <1>1, <1>2, <1>3, <1>5, TalkAssumed DEF TalkInv, PlaceInv

\* What a turn may hold stays possible when a conversation is created.
LEMMA CreatedKeepsPlaces ==
  ASSUME TalkInv, NEW s \in Talk!Sessions, NEW a \in Agents, Talk!Created(s, a)
  PROVE  /\ \A r \in Talk!Sessions :
              kept'[r].owner \notin LocalAgents => Len(kept'[r].messages) <= MaxMessages
         /\ \A r \in Talk!Sessions :
              kept'[r].owner = None => kept'[r].messages = << >> /\ kept'[r].provider = None
         /\ \A t \in Talk!Turns : turns'[t] = turns[t] => TurnOk(turns[t])'
<1>1. \A r \in Talk!Sessions :
        kept'[r].owner \notin LocalAgents => Len(kept'[r].messages) <= MaxMessages
  <2> SUFFICES ASSUME NEW r \in Talk!Sessions, kept'[r].owner \notin LocalAgents
               PROVE  Len(kept'[r].messages) <= MaxMessages
    OBVIOUS
  <2>1. CASE r = s
    BY <2>1, CreatedFacts, TalkAssumed
  <2>2. CASE r # s
    BY <2>2, CreatedFacts DEF TalkInv, TalkTypes
  <2> QED
    BY <2>1, <2>2
<1>2. \A r \in Talk!Sessions :
        kept'[r].owner = None => kept'[r].messages = << >> /\ kept'[r].provider = None
  BY CreatedFacts DEF TalkInv, PlaceInv
<1>3. ASSUME NEW t \in Talk!Turns, turns'[t] = turns[t]
      PROVE  TurnOk(turns[t])'
  <2>1. TurnOk(turns[t]) /\ turns[t] \in Talk!Turn
    BY DEF TalkInv, TalkTypes, PlaceInv
  <2>2. turns[t].chosen \in Talk!Sessions \cup {None} /\ turns[t].session \in Talk!Sessions \cup {None}
    BY <2>1 DEF Talk!Turn
  <2> QED
    BY <1>3, <2>1, <2>2, CreatedFacts DEF TurnOk
<1> QED
  BY <1>1, <1>2, <1>3

LEMMA SessionCreatedKeepsTalk ==
  ASSUME TalkInv, NEW s \in Talk!Sessions, Talk!SessionCreated(s)
  PROVE  TalkInv'
<1>1. /\ created \in Agents /\ Talk!Created(s, created) /\ created' = "listing"
      /\ selected' = s /\ shown' = << >>
      /\ IF s = selected \/ Talk!IsSuppressed(s, suppressed, agent) THEN UNCHANGED loads ELSE Talk!Load(s)
      /\ UNCHANGED <<agent, provider, suppressed, busy, turns, crossed, failed, doubled>>
  BY DEF Talk!SessionCreated, Talk!SelectionShown, Talk!history
<1>2. PICK a \in Agents : created = a /\ Talk!Created(s, a)
  BY <1>1
<1>3. TalkTypes'
  <2>1. shown' \in Seq(Talk!Message) /\ loads' \in [Loads -> Talk!Sessions \cup {None}]
    BY <1>1 DEF TalkInv, TalkTypes, Talk!Load
  <2> QED
    BY <1>1, <1>2, <2>1, CreatedFacts, CreatedKeepsPlaces DEF TalkInv, TalkTypes
<1>4. PlaceInv'
  <2>1. \A t \in Talk!Turns : TurnOk(turns[t])'
    BY <1>1, <1>2, CreatedKeepsPlaces
  <2>2. selected' # None => kept'[selected'].owner # None
    BY <1>1, <1>2, CreatedFacts
  <2> QED
    BY <1>2, <2>1, <2>2, CreatedKeepsPlaces DEF PlaceInv
<1>5. AloneInv'
  BY <1>1, TalkAssumed DEF TalkInv, AloneInv
<1>6. AnswerInv'
  BY <1>1, <1>2, CreatedFacts DEF TalkInv, AnswerInv, TalkTypes, Talk!Turn, PlaceInv, TurnOk
<1>7. ASSUME ~doubled', ~crossed'
      PROVE  /\ \A t \in Talk!Turns : turns[t].at \notin Going
             /\ created = agent
             /\ (\E l \in Loads : loads'[l] = s) /\ \A l \in Loads : loads'[l] \in {None, s}
  <2>1. /\ \A t \in Talk!Turns : turns[t].at \notin Going
        /\ created = agent /\ \A l \in Loads : loads[l] = None
    BY <1>1, <1>7, TalkAssumed DEF TalkInv, AloneInv, CalmInv
  <2>2. suppressed = None
    BY <1>1, <1>7, <2>1 DEF TalkInv, AloneInv, Going
  <2>3. Talk!Load(s)
    BY <1>1, <1>2, <2>2, CreatedFacts DEF Talk!IsSuppressed
  <2> QED
    BY <2>1, <2>3 DEF Talk!Load, TalkInv, TalkTypes
<1>8. CalmInv'
  BY <1>1, <1>2, <1>7, CreatedFacts, TalkAssumed DEF CalmInv
<1>9. ShownInv'
  BY <1>1, <1>2, <1>7, CreatedFacts DEF ShownInv, ShownOk, Going, Begun
<1> QED
  BY <1>3, <1>4, <1>5, <1>6, <1>8, <1>9 DEF TalkInv

LEMMA SendKeepsTalk ==
  ASSUME TalkInv, NEW t \in Talk!Turns, Talk!Send(t)
  PROVE  TalkInv'
<1>1. /\ ~busy /\ turns[t].at = "new"
      /\ turns' = [turns EXCEPT ![t] = [Talk!NewTurn EXCEPT !.at = "stopping", !.agent = agent,
                                               !.chosen = selected, !.session = selected]]
      /\ crossed' = (crossed \/ Talk!Loading \/ created # None)
      /\ doubled' = (doubled \/ \E u \in Talk!Turns : turns[u].at = "stopping")
      /\ UNCHANGED <<agent, selected, shown, provider, suppressed, busy, kept, loads, created,
                     failed>>
  BY DEF Talk!Send, Talk!IsAboutToBegin
<1>2. PICK n \in Talk!Turn :
        /\ n.at = "stopping" /\ n.agent = agent /\ n.chosen = selected /\ n.session = selected
        /\ turns' = [turns EXCEPT ![t] = n]
  BY <1>1 DEF Talk!NewTurn, Talk!Turn, TalkInv, TalkTypes
<1>3. /\ turns' \in [Talk!Turns -> Talk!Turn] /\ turns'[t] = n
      /\ \A u \in Talk!Turns : u # t => turns'[u] = turns[u]
  BY <1>2, TurnSteps DEF TalkInv
<1>4. TalkTypes'
  BY <1>1, <1>3 DEF TalkInv, TalkTypes
<1>5. TurnOk(n)
  BY <1>2 DEF TurnOk, TalkInv, PlaceInv, TalkTypes
<1>6. PlaceInv'
  BY <1>1, <1>3, <1>5 DEF TalkInv, PlaceInv, TurnOk
<1>7. AloneInv'
  BY <1>1, <1>2, <1>3, ZenonT(60) DEF TalkInv, AloneInv, Going, Begun
<1>8. AnswerInv'
  BY <1>1, <1>2, <1>3 DEF TalkInv, AnswerInv
<1>9. ~crossed' => ~crossed /\ created = None /\ \A l \in Loads : loads[l] = None
  BY <1>1 DEF Talk!Loading
<1>10. ~doubled' => ~doubled /\ \A u \in Talk!Turns : turns[u].at \notin Going
  BY <1>1 DEF TalkInv, AloneInv, Going
<1>11. CalmInv'
  BY <1>1, <1>2, <1>3, <1>9, <1>10, TalkAssumed DEF TalkInv, CalmInv, CalmTurn
<1>12. ShownInv'
  BY <1>1, <1>2, <1>3, <1>9, <1>10 DEF TalkInv, ShownInv, ShownOk, StoredIn, Going, Begun
<1> QED
  BY <1>4, <1>6, <1>7, <1>8, <1>11, <1>12 DEF TalkInv

LEMMA BeginKeepsTalk ==
  ASSUME TalkInv, NEW t \in Talk!Turns, Talk!Begin(t)
  PROVE  TalkInv'
<1>1. PICK at : /\ at = IF turns[t].agent \in LocalAgents THEN "streaming"
                        ELSE IF turns[t].chosen = None THEN "creating" ELSE "appending"
                /\ turns[t].at = "stopping" /\ turns' = [turns EXCEPT ![t].at = at]
                /\ suppressed' = IF at = "appending" THEN turns[t].chosen ELSE suppressed
                /\ busy' = TRUE /\ shown' = Append(shown, Talk!Said(t, "user"))
                /\ UNCHANGED <<agent, selected, provider, kept, loads, created, crossed, failed,
                               doubled>>
  BY DEF Talk!Begin, Talk!IsBusy, Talk!history
<1>2. turns[t] \in Talk!Turn /\ TurnOk(turns[t])
  BY DEF TalkInv, TalkTypes, PlaceInv
<1>3. PICK n \in Talk!Turn :
        /\ n = [turns[t] EXCEPT !.at = at]
        /\ n.at = at /\ n.agent = turns[t].agent /\ n.chosen = turns[t].chosen
        /\ n.session = turns[t].session
  <2> DEFINE n == [turns[t] EXCEPT !.at = at]
  <2>1. /\ n \in Talk!Turn /\ n.at = at /\ n.agent = turns[t].agent
        /\ n.chosen = turns[t].chosen /\ n.session = turns[t].session
    BY <1>1, <1>2 DEF Talk!Turn
  <2> QED
    BY <2>1
<1>4. turns' = [turns EXCEPT ![t] = n]
  BY <1>1, <1>3
<1>5. /\ turns' \in [Talk!Turns -> Talk!Turn] /\ turns'[t] = n
      /\ \A u \in Talk!Turns : u # t => turns'[u] = turns[u]
  BY <1>4, TurnSteps DEF TalkInv
<1>6. at \in {"streaming", "creating", "appending"} /\ n.session = n.chosen
  BY <1>1, <1>2, <1>3 DEF TurnOk
<1>7. TalkTypes'
  <2>1. shown' \in Seq(Talk!Message)
    BY <1>1, SaidIsMessage DEF TalkInv, TalkTypes
  <2>2. suppressed' \in Talk!Sessions \cup {None}
    BY <1>1, <1>2 DEF TalkInv, TalkTypes, Talk!Turn
  <2> QED
    BY <1>1, <1>5, <2>1, <2>2 DEF TalkInv, TalkTypes
<1>8. TurnOk(n)
  BY <1>1, <1>2, <1>3, <1>6 DEF TurnOk, Going, Begun
<1>9. PlaceInv'
  BY <1>1, <1>5, <1>8 DEF TalkInv, PlaceInv, TurnOk
<1>10. ~doubled => \A u \in Talk!Turns : u # t => turns[u].at \notin Going
  BY <1>1 DEF TalkInv, AloneInv, Going
<1>11. AloneInv'
  BY <1>1, <1>3, <1>5, <1>6, <1>10 DEF TalkInv, AloneInv, Going, Begun
<1>12. AnswerInv'
  BY <1>1, <1>3, <1>5, <1>6 DEF TalkInv, AnswerInv
<1>13. ASSUME ~doubled, ~crossed
       PROVE  CalmTurn(turns[t]) /\ \A l \in Loads : loads[l] = None
  BY <1>1, <1>13 DEF TalkInv, TalkTypes, CalmInv, Going
<1>14. CalmInv'
  BY <1>1, <1>2, <1>3, <1>5, <1>6, <1>10, <1>13 DEF TalkInv, CalmInv, CalmTurn, Going, Begun
<1>15. ASSUME ~doubled, ~crossed, ~failed
       PROVE  ShownOk(n, t)'
  <2>1. shown = StoredIn(selected) /\ selected = n.chosen
    BY <1>1, <1>3, <1>13, <1>15 DEF TalkInv, ShownInv, ShownOk, CalmTurn
  <2>2. ASSUME at = "creating"
        PROVE  shown' = <<Talk!Said(t, "user")>>
    <3>1. shown = << >>
      BY <1>2, <1>3, <1>8, <2>1, <2>2, SMTT(40) DEF StoredIn, TurnOk
    <3> QED
      BY <1>1, <3>1
  <2> QED
    BY <1>1, <1>3, <1>6, <2>1, <2>2 DEF ShownOk, StoredIn, TurnOk
<1>16. ShownInv'
  BY <1>1, <1>3, <1>5, <1>6, <1>10, <1>15 DEF TalkInv, ShownInv, ShownOk, StoredIn, Going, Begun
<1> QED
  BY <1>7, <1>9, <1>11, <1>12, <1>14, <1>16 DEF TalkInv


\* A turn ends, with an error or without.
LEMMA EndedKeepsTalk ==
  ASSUME TalkInv, NEW t \in Talk!Turns, Talk!Fails(t) \/ Talk!Finish(t)
  PROVE  TalkInv'
<1>1. /\ turns[t].at \in Going \ {"stopping"} /\ busy' = FALSE /\ suppressed' = None
      /\ turns' = [turns EXCEPT ![t] = [Talk!NewTurn EXCEPT !.at = "over"]]
      /\ failed' = TRUE \/ (failed' = failed /\ turns[t].at = "listing")
      /\ UNCHANGED <<agent, selected, shown, provider, kept, loads, created, crossed, doubled>>
  BY DEF Talk!Fails, Talk!Finish, Talk!Ended, Talk!history, TalkInv, TalkTypes, Talk!Turn, Going,
    Begun
<1>2. PICK n \in Talk!Turn : /\ n.at = "over" /\ n.chosen = None /\ n.session = None
                             /\ turns' = [turns EXCEPT ![t] = n]
  BY <1>1 DEF Talk!NewTurn, Talk!Turn
<1>3. /\ turns' \in [Talk!Turns -> Talk!Turn] /\ turns'[t] = n
      /\ \A u \in Talk!Turns : u # t => turns'[u] = turns[u]
  BY <1>2, TurnSteps DEF TalkInv
<1>4. TalkTypes'
  BY <1>1, <1>3 DEF TalkInv, TalkTypes
<1>5. PlaceInv'
  BY <1>1, <1>2, <1>3, ZenonT(60) DEF TalkInv, PlaceInv, TurnOk, Going, Begun
<1>6. ~doubled => created = None /\ \A u \in Talk!Turns : turns'[u].at \notin Going
  BY <1>1, <1>2, <1>3 DEF TalkInv, AloneInv, Going, Begun
<1>7. AloneInv'
  BY <1>1, <1>6 DEF AloneInv, Going, Begun
<1>8. AnswerInv'
  BY <1>1, <1>2, <1>3 DEF TalkInv, AnswerInv
<1>9. CalmInv'
  BY <1>1, <1>6 DEF TalkInv, CalmInv
<1>10. ShownInv'
  <2>1. ASSUME ~doubled, ~crossed, ~failed', \A l \in Loads : loads[l] = None
        PROVE  shown = StoredIn(selected)
    <3>1. CalmTurn(turns[t]) /\ turns[t].session # None /\ shown = kept[selected].messages
      BY <1>1, <2>1 DEF TalkInv, CalmInv, ShownInv, ShownOk, PlaceInv, TurnOk
    <3> QED
      BY <1>1, <2>1, <3>1 DEF CalmTurn, StoredIn
  <2> QED
    BY <1>1, <1>6, <2>1 DEF ShownInv, ShownOk, StoredIn, Going, Begun
<1> QED
  BY <1>4, <1>5, <1>7, <1>8, <1>9, <1>10 DEF TalkInv

LEMMA CreateForTurnKeepsTalk ==
  ASSUME TalkInv, NEW t \in Talk!Turns, NEW s \in Talk!Sessions, Talk!CreateForTurn(t, s)
  PROVE  TalkInv'
<1>1. /\ turns[t].at = "creating" /\ Talk!Created(s, turns[t].agent) /\ suppressed' = s
      /\ turns' = [turns EXCEPT ![t].at = "appending", ![t].session = s]
      /\ UNCHANGED <<agent, selected, shown, provider, busy, loads, created, crossed, failed,
                     doubled>>
  BY DEF Talk!CreateForTurn, Talk!history
<1>2. /\ turns[t] \in Talk!Turn /\ TurnOk(turns[t]) /\ turns[t].chosen = None
      /\ turns[t].agent \notin LocalAgents
  BY <1>1 DEF TalkInv, TalkTypes, PlaceInv, TurnOk
<1>3. PICK a \in Agents : turns[t].agent = a /\ Talk!Created(s, a)
  BY <1>1, <1>2 DEF TurnOk, Going, Begun
<1>4. PICK n \in Talk!Turn : /\ n.at = "appending" /\ n.session = s /\ n.agent = a
                             /\ n.chosen = None /\ turns' = [turns EXCEPT ![t] = n]
  <2> DEFINE n == [turns[t] EXCEPT !.at = "appending", !.session = s]
  <2>1. /\ n \in Talk!Turn /\ n.at = "appending" /\ n.session = s /\ n.agent = a
        /\ n.chosen = None
    BY <1>2, <1>3 DEF Talk!Turn
  <2>2. turns' = [turns EXCEPT ![t] = n]
    BY <1>1 DEF TalkInv, TalkTypes
  <2> QED
    BY <2>1, <2>2
<1>5. /\ turns' \in [Talk!Turns -> Talk!Turn] /\ turns'[t] = n
      /\ \A u \in Talk!Turns : u # t => turns'[u] = turns[u]
  BY <1>4, TurnSteps DEF TalkInv
<1>6. TalkTypes'
  BY <1>1, <1>3, <1>5, CreatedFacts, CreatedKeepsPlaces DEF TalkInv, TalkTypes
<1>7. PlaceInv'
  <2>1. ASSUME NEW u \in Talk!Turns, u # t
        PROVE  TurnOk(turns[u])'
    BY <1>3, <1>5, <2>1, CreatedKeepsPlaces
  <2>2. TurnOk(turns[t])'
    BY <1>2, <1>3, <1>4, <1>5, CreatedFacts DEF TurnOk
  <2>3. selected' # None => kept'[selected'].owner # None
    BY <1>1, <1>3, CreatedFacts DEF TalkInv, TalkTypes, PlaceInv
  <2> QED
    BY <1>3, <2>1, <2>2, <2>3, CreatedKeepsPlaces DEF PlaceInv
<1>8. ~doubled => created = None /\ \A u \in Talk!Turns : u # t => turns[u].at \notin Going
  BY <1>1 DEF TalkInv, AloneInv, Going, Begun
<1>9. AloneInv'
  BY <1>1, <1>4, <1>5, <1>8 DEF TalkInv, AloneInv, Going, Begun
<1>10. AnswerInv'
  <2> SUFFICES ASSUME ~doubled PROVE AnswerInv'
    BY <1>1 DEF AnswerInv
  <2>1. \A u \in Talk!Turns : turns'[u].at \notin {"asking", "storing"}
    BY <1>4, <1>5, <1>8 DEF Going, Begun
  <2>2. \A r \in Talk!Sessions : Paired(kept[r].messages)'
    BY <1>3, CreatedFacts DEF TalkInv, AnswerInv, Paired
  <2> QED
    BY <2>1, <2>2 DEF AnswerInv
<1>11. ASSUME ~doubled, ~crossed
       PROVE  agent = a /\ selected = None /\ \A l \in Loads : loads[l] = None
  BY <1>1, <1>2, <1>3, <1>11 DEF TalkInv, CalmInv, CalmTurn, TalkTypes, Going, Begun
<1>12. CalmInv'
  BY <1>1, <1>3, <1>4, <1>5, <1>8, <1>11, CreatedFacts
  DEF TalkInv, CalmInv, CalmTurn, Going, Begun
<1>13. ShownInv'
  <2> SUFFICES ASSUME ~doubled, ~crossed, ~failed PROVE ShownInv'
    BY <1>1 DEF ShownInv
  <2>1. shown = <<Talk!Said(t, "user")>>
    BY <1>1 DEF TalkInv, ShownInv, ShownOk
  <2>2. shown' = Append(kept'[s].messages, Talk!Said(t, "user"))
    <3>1. kept'[s].messages = << >>
      BY <1>3, CreatedFacts
    <3> QED
      BY <1>1, <2>1, <3>1
  <2> QED
    BY <1>4, <1>5, <1>8, <2>2 DEF ShownInv, ShownOk, Going, Begun
<1> QED
  BY <1>6, <1>7, <1>9, <1>10, <1>12, <1>13 DEF TalkInv

LEMMA AnsweredKeepsTalk ==
  ASSUME TalkInv, NEW t \in Talk!Turns, Talk!Answered(t)
  PROVE  TalkInv'
<1>1. PICK p : /\ p = IF turns[t].provider = None THEN turns[t].session ELSE turns[t].provider
               /\ turns[t].at = "asking" /\ provider' = p
               /\ turns' = [turns EXCEPT ![t].at = "storing", ![t].provider = p]
               /\ shown' = Append(shown, Talk!Said(t, "agent"))
               /\ UNCHANGED <<agent, selected, suppressed, busy, kept, loads, created, crossed,
                              failed, doubled>>
  BY DEF Talk!Answered, Talk!history
<1>2. /\ turns[t] \in Talk!Turn /\ TurnOk(turns[t]) /\ turns[t].session # None
      /\ p \in Talk!Sessions
  BY <1>1, TalkAssumed DEF TalkInv, TalkTypes, PlaceInv, TurnOk, Talk!Turn
<1>3. PICK n \in Talk!Turn :
        /\ n.at = "storing" /\ n.provider = p /\ n.agent = turns[t].agent
        /\ n.chosen = turns[t].chosen /\ n.session = turns[t].session
        /\ turns' = [turns EXCEPT ![t] = n]
  <2> DEFINE n == [turns[t] EXCEPT !.at = "storing", !.provider = p]
  <2>1. /\ n \in Talk!Turn /\ n.at = "storing" /\ n.provider = p /\ n.agent = turns[t].agent
        /\ n.chosen = turns[t].chosen /\ n.session = turns[t].session
    BY <1>2 DEF Talk!Turn
  <2>2. turns' = [turns EXCEPT ![t] = n]
    BY <1>1 DEF TalkInv, TalkTypes
  <2> QED
    BY <2>1, <2>2
<1>4. /\ turns' \in [Talk!Turns -> Talk!Turn] /\ turns'[t] = n
      /\ \A u \in Talk!Turns : u # t => turns'[u] = turns[u]
  BY <1>3, TurnSteps DEF TalkInv
<1>5. TalkTypes'
  <2>1. shown' \in Seq(Talk!Message)
    BY <1>1, SaidIsMessage DEF TalkInv, TalkTypes
  <2> QED
    BY <1>1, <1>2, <1>4, <2>1 DEF TalkInv, TalkTypes
<1>6. PlaceInv'
  <2>1. TurnOk(n)
    BY <1>1, <1>2, <1>3 DEF TurnOk, Going, Begun
  <2> QED
    BY <1>1, <1>4, <2>1 DEF TalkInv, PlaceInv, TurnOk
<1>7. ~doubled => created = None /\ \A u \in Talk!Turns : u # t => turns[u].at \notin Going
  BY <1>1 DEF TalkInv, AloneInv, Going, Begun
<1>8. AloneInv'
  BY <1>1, <1>3, <1>4, <1>7 DEF TalkInv, AloneInv, Going, Begun
<1>9. AnswerInv'
  BY <1>1, <1>3, <1>4 DEF TalkInv, AnswerInv
<1>10. ASSUME ~doubled, ~crossed
       PROVE  /\ CalmTurn(turns[t]) /\ selected = turns[t].session /\ agent \notin LocalAgents
              /\ kept[selected].owner = agent /\ \A l \in Loads : loads[l] = None
              /\ p \in {selected, kept[selected].provider}
  <2>1. /\ CalmTurn(turns[t]) /\ selected = turns[t].session /\ agent \notin LocalAgents
        /\ kept[selected].owner = agent /\ \A l \in Loads : loads[l] = None
    BY <1>1, <1>2, <1>10 DEF TalkInv, TalkTypes, CalmInv, CalmTurn, TurnOk, Going, Begun
  <2>2. provider \in {None, selected, kept[selected].provider} /\ turns[t].provider = provider
    BY <1>1, <1>2, <1>10, <2>1 DEF TalkInv, CalmInv, CalmTurn
  <2> QED
    BY <1>1, <2>1, <2>2
<1>11. CalmInv'
  BY <1>1, <1>2, <1>3, <1>4, <1>7, <1>10, SMTT(40) DEF TalkInv, CalmInv, CalmTurn, Going, Begun
<1>12. ShownInv'
  <2> SUFFICES ASSUME ~doubled, ~crossed, ~failed PROVE ShownInv'
    BY <1>1 DEF ShownInv
  <2>1. shown = kept[n.session].messages
    BY <1>1, <1>3 DEF TalkInv, ShownInv, ShownOk
  <2> QED
    BY <1>1, <1>3, <1>4, <1>7, <2>1, ZenonT(60) DEF ShownInv, ShownOk, Going, Begun
<1> QED
  BY <1>5, <1>6, <1>8, <1>9, <1>11, <1>12 DEF TalkInv

LEMMA RefreshedKeepsTalk ==
  ASSUME TalkInv, NEW t \in Talk!Turns, Talk!Refreshed(t)
  PROVE  TalkInv'
<1>1. /\ turns[t].at = "refreshing" /\ shown' = kept[turns[t].session].messages
      /\ turns' = [turns EXCEPT ![t].at = "listing"]
      /\ UNCHANGED <<agent, selected, provider, suppressed, busy, kept, loads, created, crossed,
                     failed, doubled>>
  BY DEF Talk!Refreshed, Talk!history
<1>2. /\ turns[t] \in Talk!Turn /\ TurnOk(turns[t]) /\ turns[t].session \in Talk!Sessions
  BY <1>1 DEF TalkInv, TalkTypes, PlaceInv, TurnOk, Talk!Turn
<1>3. PICK n \in Talk!Turn :
        /\ n.at = "listing" /\ n.agent = turns[t].agent
        /\ n.chosen = turns[t].chosen /\ n.session = turns[t].session
        /\ turns' = [turns EXCEPT ![t] = n]
  <2> DEFINE n == [turns[t] EXCEPT !.at = "listing"]
  <2>1. /\ n \in Talk!Turn /\ n.at = "listing" /\ n.agent = turns[t].agent
        /\ n.chosen = turns[t].chosen /\ n.session = turns[t].session
    BY <1>2 DEF Talk!Turn
  <2>2. turns' = [turns EXCEPT ![t] = n]
    BY <1>1 DEF TalkInv, TalkTypes
  <2> QED
    BY <2>1, <2>2
<1>4. /\ turns' \in [Talk!Turns -> Talk!Turn] /\ turns'[t] = n
      /\ \A u \in Talk!Turns : u # t => turns'[u] = turns[u]
  BY <1>3, TurnSteps DEF TalkInv
<1>5. TalkTypes'
  BY <1>1, <1>2, <1>4 DEF TalkInv, TalkTypes, Conv
<1>6. PlaceInv'
  <2>1. TurnOk(n)
    BY <1>1, <1>2, <1>3 DEF TurnOk, Going, Begun
  <2> QED
    BY <1>1, <1>4, <2>1 DEF TalkInv, PlaceInv, TurnOk
<1>7. ~doubled => created = None /\ \A u \in Talk!Turns : u # t => turns[u].at \notin Going
  BY <1>1 DEF TalkInv, AloneInv, Going, Begun
<1>8. AloneInv'
  BY <1>1, <1>3, <1>4, <1>7 DEF TalkInv, AloneInv, Going, Begun
<1>9. AnswerInv'
  BY <1>1, <1>3, <1>4 DEF TalkInv, AnswerInv
<1>10. ~doubled /\ ~crossed => CalmTurn(turns[t]) /\ selected = turns[t].session
  BY <1>1 DEF TalkInv, CalmInv, CalmTurn, Going, Begun
<1>11. CalmInv'
  BY <1>1, <1>2, <1>3, <1>4, <1>7, <1>10, SMTT(40) DEF TalkInv, CalmInv, CalmTurn, Going, Begun
<1>12. ShownInv'
  BY <1>1, <1>3, <1>4, <1>7, <1>10 DEF ShownInv, ShownOk, Going, Begun
<1> QED
  BY <1>5, <1>6, <1>8, <1>9, <1>11, <1>12 DEF TalkInv


\* Messages are added to a conversation, which may get its owner with them.
LEMMA AddedFacts ==
  ASSUME TalkInv, NEW s \in Talk!Sessions, NEW c \in Conv, c.owner # None,
         kept[s].owner # None \/ c.owner \in LocalAgents,
         c.owner \notin LocalAgents => Len(c.messages) <= MaxMessages,
         kept' = [kept EXCEPT ![s] = c]
  PROVE  /\ kept' \in [Talk!Sessions -> Conv] /\ kept'[s] = c
         /\ \A r \in Talk!Sessions : r # s => kept'[r] = kept[r]
         /\ \A r \in Talk!Sessions :
              kept'[r].owner \notin LocalAgents => Len(kept'[r].messages) <= MaxMessages
         /\ \A r \in Talk!Sessions :
              kept'[r].owner = None => kept'[r].messages = << >> /\ kept'[r].provider = None
         /\ \A r \in Talk!Sessions : kept[r].owner # None => kept'[r].owner # None
         /\ \A n \in Talk!Turn : TurnOk(n) /\ UNCHANGED agent =>
              /\ n.chosen # None => kept'[n.chosen].owner # None
              /\ n.session # None => kept'[n.session].owner # None
<1>1. /\ kept' \in [Talk!Sessions -> Conv] /\ kept'[s] = c
      /\ \A r \in Talk!Sessions : r # s => kept'[r] = kept[r]
  BY DEF TalkInv, TalkTypes
<1>2. \A r \in Talk!Sessions :
        kept'[r].owner \notin LocalAgents => Len(kept'[r].messages) <= MaxMessages
  <2> SUFFICES ASSUME NEW r \in Talk!Sessions, kept'[r].owner \notin LocalAgents
               PROVE  Len(kept'[r].messages) <= MaxMessages
    OBVIOUS
  <2> QED
    BY <1>1 DEF TalkInv, TalkTypes
<1>3. \A r \in Talk!Sessions : kept[r].owner # None => kept'[r].owner # None
  BY <1>1
<1>4. \A r \in Talk!Sessions :
        kept'[r].owner = None => kept'[r].messages = << >> /\ kept'[r].provider = None
  BY <1>1 DEF TalkInv, PlaceInv
<1>5. ASSUME NEW n \in Talk!Turn, TurnOk(n)
      PROVE  /\ n.chosen # None => kept'[n.chosen].owner # None
             /\ n.session # None => kept'[n.session].owner # None
  BY <1>3, <1>5 DEF TurnOk, Talk!Turn
<1> QED
  BY <1>1, <1>2, <1>3, <1>4, <1>5

\* A message is appended to the conversation of a turn at the relay.
LEMMA AppendedFacts ==
  ASSUME TalkInv, NEW t \in Talk!Turns, NEW s \in Talk!Sessions, NEW by \in {"user", "agent"},
         turns[t].session = s, Talk!HasRoom(s), kept' = Talk!Appended(s, t, by)
  PROVE  \E c \in Conv :
           /\ kept' = [kept EXCEPT ![s] = c]
           /\ c.owner = kept[s].owner /\ c.owner # None
           /\ c.messages = Append(kept[s].messages, Talk!Said(t, by))
           /\ c.provider = IF by = "agent" THEN turns[t].provider ELSE kept[s].provider
           /\ Len(c.messages) <= MaxMessages
<1>1. /\ kept[s] \in Conv /\ kept[s].owner # None /\ turns[t].provider \in Talk!Sessions \cup {None}
      /\ Len(kept[s].messages) < MaxMessages /\ Talk!Said(t, by) \in Talk!Message
  BY SaidIsMessage, TalkAssumed
  DEF TalkInv, TalkTypes, PlaceInv, TurnOk, Talk!Turn, Talk!HasRoom
<1>2. PICK p : p = IF by = "agent" THEN turns[t].provider ELSE kept[s].provider
  OBVIOUS
<1>3. PICK m : m = Append(kept[s].messages, Talk!Said(t, by))
  OBVIOUS
<1>4. /\ p \in Talk!Sessions \cup {None} /\ kept[s].messages \in Seq(Talk!Message)
      /\ m \in Seq(Talk!Message) /\ Len(m) = Len(kept[s].messages) + 1
      /\ Len(kept[s].messages) \in Nat
  BY <1>1, <1>2, <1>3 DEF Conv
<1> DEFINE c == [kept[s] EXCEPT !.messages = m, !.provider = p]
<1>5. /\ c \in Conv /\ c.owner = kept[s].owner /\ c.messages = m /\ c.provider = p
  BY <1>1, <1>4 DEF Conv
<1>6. kept' = [kept EXCEPT ![s] = c]
  BY <1>2, <1>3 DEF Talk!Appended, TalkInv, TalkTypes
<1>7. Len(m) <= MaxMessages
  BY <1>1, <1>4, TalkAssumed
<1> QED
  BY <1>1, <1>2, <1>3, <1>5, <1>6, <1>7

LEMMA AppendQuestionKeepsTalk ==
  ASSUME TalkInv, NEW t \in Talk!Turns, Talk!AppendQuestion(t)
  PROVE  TalkInv'
<1>1. /\ turns[t] \in Talk!Turn /\ TurnOk(turns[t]) /\ turns[t].session \in Talk!Sessions
      /\ turns[t].at = "appending" /\ turns[t].agent \notin LocalAgents
      /\ turns[t].chosen \in {None, turns[t].session}
  BY DEF Talk!AppendQuestion, TalkInv, TalkTypes, PlaceInv, TurnOk, Talk!Turn
<1>2. PICK s \in Talk!Sessions : s = turns[t].session
  BY <1>1
<1>3. /\ Talk!HasRoom(s) /\ kept' = Talk!Appended(s, t, "user")
      /\ IF turns[t].chosen = None THEN Talk!SelectionShown(s, suppressed)
         ELSE UNCHANGED <<selected, loads>>
      /\ turns' = [turns EXCEPT ![t].at = "asking", ![t].provider = provider]
  BY <1>2 DEF Talk!AppendQuestion, Talk!history
<1>0. UNCHANGED <<agent, shown, provider, suppressed, busy, created, crossed, failed, doubled>>
  BY DEF Talk!AppendQuestion, Talk!history
<1>4. PICK c \in Conv :
        /\ kept' = [kept EXCEPT ![s] = c] /\ c.owner = kept[s].owner /\ c.owner # None
        /\ c.messages = Append(kept[s].messages, Talk!Said(t, "user"))
        /\ c.provider = kept[s].provider /\ Len(c.messages) <= MaxMessages
  BY <1>2, <1>3, AppendedFacts
<1>5. PICK n \in Talk!Turn :
        /\ n.at = "asking" /\ n.provider = provider /\ n.agent = turns[t].agent
        /\ n.chosen = turns[t].chosen /\ n.session = s
        /\ turns' = [turns EXCEPT ![t] = n]
  <2> DEFINE n == [turns[t] EXCEPT !.at = "asking", !.provider = provider]
  <2>1. /\ n \in Talk!Turn /\ n.at = "asking" /\ n.provider = provider
        /\ n.agent = turns[t].agent /\ n.chosen = turns[t].chosen /\ n.session = s
    BY <1>1, <1>2 DEF Talk!Turn, TalkInv, TalkTypes
  <2>2. turns' = [turns EXCEPT ![t] = n]
    BY <1>3 DEF TalkInv, TalkTypes
  <2> QED
    BY <2>1, <2>2
<1>6. /\ turns' \in [Talk!Turns -> Talk!Turn] /\ turns'[t] = n
      /\ \A u \in Talk!Turns : u # t => turns'[u] = turns[u]
  BY <1>5, TurnSteps DEF TalkInv
<1>7. /\ kept' \in [Talk!Sessions -> Conv] /\ kept'[s] = c
      /\ \A r \in Talk!Sessions : r # s => kept'[r] = kept[r]
      /\ \A r \in Talk!Sessions :
           kept'[r].owner \notin LocalAgents => Len(kept'[r].messages) <= MaxMessages
      /\ \A r \in Talk!Sessions :
           kept'[r].owner = None => kept'[r].messages = << >> /\ kept'[r].provider = None
      /\ \A r \in Talk!Sessions : kept[r].owner # None => kept'[r].owner # None
      /\ \A m \in Talk!Turn : TurnOk(m) =>
           /\ m.chosen # None => kept'[m.chosen].owner # None
           /\ m.session # None => kept'[m.session].owner # None
  BY <1>0, <1>3, <1>4, AddedFacts
<1>8. selected' \in {selected, s} /\ loads' \in [Loads -> Talk!Sessions \cup {None}]
  BY <1>3 DEF Talk!SelectionShown, Talk!Load, TalkInv, TalkTypes
<1>9. TalkTypes'
  BY <1>0, <1>6, <1>7, <1>8 DEF TalkInv, TalkTypes
<1>10. PlaceInv'
  <2>1. TurnOk(n)
    BY <1>1, <1>2, <1>5 DEF TurnOk, Going, Begun
  <2>2. \A u \in Talk!Turns : turns'[u] \in Talk!Turn /\ TurnOk(turns'[u])
    BY <1>6, <2>1 DEF TalkInv, PlaceInv
  <2>3. \A u \in Talk!Turns : TurnOk(turns[u])'
    BY <1>7, <2>2 DEF TurnOk
  <2>4. selected' # None => kept'[selected'].owner # None
    BY <1>4, <1>7, <1>8 DEF TalkInv, TalkTypes, PlaceInv
  <2> QED
    BY <1>7, <2>3, <2>4 DEF PlaceInv
<1>11. ~doubled => /\ created = None /\ suppressed = s
                   /\ \A u \in Talk!Turns : u # t => turns[u].at \notin Going
  BY <1>1, <1>2 DEF TalkInv, AloneInv, Going, Begun
<1>12. AloneInv'
  <2> SUFFICES ASSUME ~doubled PROVE AloneInv'
    BY <1>0 DEF AloneInv
  <2>1. busy
    BY <1>1 DEF TalkInv, AloneInv, TalkTypes, Begun
  <2>2. \A u \in Talk!Turns : turns'[u].at \in Going => u = t
    BY <1>6, <1>11
  <2>3. turns'[t].at = "asking"
    BY <1>5, <1>6
  <2> QED
    BY <1>0, <1>11, <2>1, <2>2, <2>3 DEF AloneInv, Going, Begun
<1>13. AnswerInv'
  <2> SUFFICES ASSUME ~doubled PROVE AnswerInv'
    BY <1>0 DEF AnswerInv
  <2>1. Paired(kept[s].messages) /\ kept[s].messages \in Seq(Talk!Message)
    BY DEF TalkInv, AnswerInv, TalkTypes, Conv
  <2>2. Paired(c.messages) /\ EndsWith(c.messages, Talk!Said(t, "user"))
    BY <1>4, <2>1, SaidIsMessage, AddedIsPaired
  <2>3. \A r \in Talk!Sessions : Paired(kept'[r].messages)
    BY <1>7, <2>2 DEF TalkInv, AnswerInv
  <2>4. \A u \in Talk!Turns : u # t => turns'[u].at \notin {"asking", "storing"}
    BY <1>6, <1>11 DEF Going, Begun
  <2> QED
    BY <1>5, <1>6, <1>7, <2>2, <2>3, <2>4 DEF AnswerInv, Paired, EndsWith
<1>14. ASSUME ~doubled, ~crossed
       PROVE  /\ CalmTurn(turns[t]) /\ selected = turns[t].chosen /\ kept[s].owner = agent
              /\ agent \notin LocalAgents /\ \A l \in Loads : loads[l] = None
              /\ selected' = s /\ UNCHANGED loads
              /\ provider \in {None, s, kept[s].provider}
  <2>1. CalmTurn(turns[t]) /\ \A l \in Loads : loads[l] = None
    BY <1>1, <1>14 DEF TalkInv, TalkTypes, CalmInv, Going, Begun
  <2>2. selected = turns[t].chosen /\ kept[s].owner = agent /\ agent \notin LocalAgents
    BY <1>1, <1>2, <2>1 DEF CalmTurn
  <2>3. selected' = s /\ UNCHANGED loads
    BY <1>1, <1>2, <1>3, <1>11, <1>14, <2>2 DEF Talk!SelectionShown, Talk!IsSuppressed
  <2>4. provider \in {None, s, kept[s].provider}
    BY <1>1, <1>2, <1>14, <2>1, <2>2 DEF TalkInv, CalmInv
  <2> QED
    BY <2>1, <2>2, <2>3, <2>4
<1>15. CalmInv'
  <2> SUFFICES ASSUME ~doubled, ~crossed PROVE CalmInv'
    BY <1>0 DEF CalmInv
  <2> QED
    BY <1>0, <1>4, <1>5, <1>6, <1>7, <1>11, <1>14, TalkAssumed
    DEF CalmInv, CalmTurn, Going, Begun
<1>16. ShownInv'
  <2> SUFFICES ASSUME ~doubled, ~crossed, ~failed PROVE ShownInv'
    BY <1>0 DEF ShownInv
  <2>1. shown = c.messages
    BY <1>1, <1>2, <1>4 DEF TalkInv, ShownInv, ShownOk
  <2> QED
    BY <1>0, <1>5, <1>6, <1>7, <1>11, <2>1 DEF ShownInv, ShownOk, Going, Begun
<1> QED
  BY <1>9, <1>10, <1>12, <1>13, <1>15, <1>16 DEF TalkInv


LEMMA StoreAnswerKeepsTalk ==
  ASSUME TalkInv, NEW t \in Talk!Turns, Talk!StoreAnswer(t)
  PROVE  TalkInv'
<1>1. /\ turns[t] \in Talk!Turn /\ TurnOk(turns[t]) /\ turns[t].session \in Talk!Sessions
      /\ turns[t].at = "storing" /\ turns[t].agent \notin LocalAgents
  BY DEF Talk!StoreAnswer, TalkInv, TalkTypes, PlaceInv, TurnOk, Talk!Turn
<1>2. PICK s \in Talk!Sessions : s = turns[t].session
  BY <1>1
<1>3. /\ Talk!HasRoom(s) /\ kept' = Talk!Appended(s, t, "agent")
      /\ turns' = [turns EXCEPT ![t].at = "listing"]
  BY <1>2 DEF Talk!StoreAnswer
<1>0. UNCHANGED <<agent, selected, shown, provider, suppressed, busy, loads, created, crossed,
                  failed, doubled>>
  BY DEF Talk!StoreAnswer, Talk!history
<1>4. PICK c \in Conv :
        /\ kept' = [kept EXCEPT ![s] = c] /\ c.owner = kept[s].owner /\ c.owner # None
        /\ c.messages = Append(kept[s].messages, Talk!Said(t, "agent"))
        /\ c.provider = turns[t].provider /\ Len(c.messages) <= MaxMessages
  BY <1>2, <1>3, AppendedFacts
<1>5. PICK n \in Talk!Turn :
        /\ n.at = "listing" /\ n.agent = turns[t].agent
        /\ n.chosen = turns[t].chosen /\ n.session = s
        /\ turns' = [turns EXCEPT ![t] = n]
  <2> DEFINE n == [turns[t] EXCEPT !.at = "listing"]
  <2>1. /\ n \in Talk!Turn /\ n.at = "listing"
        /\ n.agent = turns[t].agent /\ n.chosen = turns[t].chosen /\ n.session = s
    BY <1>1, <1>2 DEF Talk!Turn
  <2>2. turns' = [turns EXCEPT ![t] = n]
    BY <1>3 DEF TalkInv, TalkTypes
  <2> QED
    BY <2>1, <2>2
<1>6. /\ turns' \in [Talk!Turns -> Talk!Turn] /\ turns'[t] = n
      /\ \A u \in Talk!Turns : u # t => turns'[u] = turns[u]
  BY <1>5, TurnSteps DEF TalkInv
<1>7. /\ kept' \in [Talk!Sessions -> Conv] /\ kept'[s] = c
      /\ \A r \in Talk!Sessions : r # s => kept'[r] = kept[r]
      /\ \A r \in Talk!Sessions :
           kept'[r].owner \notin LocalAgents => Len(kept'[r].messages) <= MaxMessages
      /\ \A r \in Talk!Sessions :
           kept'[r].owner = None => kept'[r].messages = << >> /\ kept'[r].provider = None
      /\ \A r \in Talk!Sessions : kept[r].owner # None => kept'[r].owner # None
      /\ \A m \in Talk!Turn : TurnOk(m) =>
           /\ m.chosen # None => kept'[m.chosen].owner # None
           /\ m.session # None => kept'[m.session].owner # None
  BY <1>0, <1>4, AddedFacts
<1>8. TalkTypes'
  BY <1>0, <1>6, <1>7 DEF TalkInv, TalkTypes
<1>9. PlaceInv'
  <2>1. TurnOk(n)
    BY <1>1, <1>2, <1>5, TalkAssumed DEF TurnOk, Going, Begun
  <2>2. \A u \in Talk!Turns : turns'[u] \in Talk!Turn /\ TurnOk(turns'[u])
    BY <1>6, <2>1 DEF TalkInv, PlaceInv
  <2>3. \A u \in Talk!Turns : TurnOk(turns[u])'
    BY <1>7, <2>2 DEF TurnOk
  <2>4. selected' # None => kept'[selected'].owner # None
    BY <1>0, <1>7 DEF TalkInv, TalkTypes, PlaceInv
  <2> QED
    BY <1>7, <2>3, <2>4 DEF PlaceInv
<1>10. ~doubled => busy /\ created = None /\ \A u \in Talk!Turns : turns'[u].at \in Going => u = t
  BY <1>1, <1>6 DEF TalkInv, AloneInv, TalkTypes, Going, Begun
<1>11. AloneInv'
  <2>1. turns'[t].at = "listing"
    BY <1>5, <1>6
  <2> QED
    BY <1>0, <1>10, <2>1 DEF AloneInv, Going, Begun
<1>12. AnswerInv'
  <2> SUFFICES ASSUME ~doubled PROVE AnswerInv'
    BY <1>0 DEF AnswerInv
  <2>1. /\ Paired(kept[s].messages) /\ kept[s].messages \in Seq(Talk!Message)
        /\ EndsWith(kept[s].messages, Talk!Said(t, "user"))
    BY <1>1, <1>2 DEF TalkInv, AnswerInv, TalkTypes, Conv
  <2>2. Talk!Said(t, "agent").turn = t
    BY DEF Talk!Said
  <2>3. Paired(c.messages)
    BY <1>4, <2>1, <2>2, SaidIsMessage, AddedIsPaired
  <2>4. \A r \in Talk!Sessions : Paired(kept'[r].messages)
    BY <1>7, <2>3 DEF TalkInv, AnswerInv
  <2>5. \A u \in Talk!Turns : turns'[u].at \notin {"asking", "storing"}
    BY <1>5, <1>6, <1>10 DEF Going, Begun
  <2> QED
    BY <2>4, <2>5 DEF AnswerInv, Paired
<1>13. ASSUME ~doubled, ~crossed
       PROVE  /\ selected = s /\ kept[s].owner = agent /\ turns[t].agent = agent
              /\ turns[t].provider = provider /\ \A l \in Loads : loads[l] = None
  <2>1. CalmTurn(turns[t]) /\ \A l \in Loads : loads[l] = None
    BY <1>1, <1>13 DEF TalkInv, TalkTypes, CalmInv, Going, Begun
  <2>2. selected = s /\ turns[t].agent = agent /\ turns[t].provider = provider
    BY <1>1, <1>2, <2>1 DEF CalmTurn
  <2> QED
    BY <1>13, <2>1, <2>2, TalkAssumed DEF TalkInv, CalmInv
<1>14. CalmInv'
  <2> SUFFICES ASSUME ~doubled, ~crossed PROVE CalmInv'
    BY <1>0 DEF CalmInv
  <2> QED
    BY <1>0, <1>4, <1>5, <1>6, <1>7, <1>10, <1>13, TalkAssumed DEF CalmInv, CalmTurn, Going, Begun
<1>15. ShownInv'
  <2> SUFFICES ASSUME ~doubled, ~crossed, ~failed PROVE ShownInv'
    BY <1>0 DEF ShownInv
  <2>1. shown = c.messages
    BY <1>1, <1>2, <1>4 DEF TalkInv, ShownInv, ShownOk
  <2> QED
    BY <1>0, <1>5, <1>6, <1>7, <1>10, <1>13, <2>1 DEF ShownInv, ShownOk, Going, Begun
<1> QED
  BY <1>8, <1>9, <1>11, <1>12, <1>14, <1>15 DEF TalkInv

\* A node adds a question and its answer at once.
LEMMA BothAreAdded ==
  ASSUME NEW m \in Seq(Talk!Message), NEW t \in Talk!Turns, NEW n,
         n = m \o <<Talk!Said(t, "user"), Talk!Said(t, "agent")>>
  PROVE  n \in Seq(Talk!Message) /\ (Paired(m) => Paired(n))
<1>1. PICK o : o = Append(m, Talk!Said(t, "user"))
  OBVIOUS
<1>2. n = Append(o, Talk!Said(t, "agent"))
  BY <1>1, SaidIsMessage
<1>3. Talk!Said(t, "agent").turn = t
  BY DEF Talk!Said
<1>4. o \in Seq(Talk!Message) /\ n \in Seq(Talk!Message)
  BY <1>1, <1>2, SaidIsMessage
<1>5. ASSUME Paired(m) PROVE Paired(n)
  <2>1. Paired(o) /\ EndsWith(o, Talk!Said(t, "user"))
    BY <1>1, <1>5, SaidIsMessage, AddedIsPaired
  <2> QED
    BY <1>2, <1>3, <1>4, <2>1, SaidIsMessage, AddedIsPaired
<1> QED
  BY <1>4, <1>5

LEMMA StreamedKeepsTalk ==
  ASSUME TalkInv, NEW t \in Talk!Turns, Talk!Streamed(t)
  PROVE  TalkInv'
<1>1. /\ turns[t] \in Talk!Turn /\ TurnOk(turns[t]) /\ turns[t].at = "streaming"
      /\ turns[t].agent \in LocalAgents
  BY DEF Talk!Streamed, TalkInv, TalkTypes, PlaceInv, TurnOk
<1>0. UNCHANGED <<agent, shown, provider, suppressed, busy, created, crossed, failed, doubled>>
  BY DEF Talk!Streamed, Talk!history
<1>2. PICK s \in Talk!Sessions :
        /\ turns[t].chosen = s \/ (turns[t].chosen = None /\ kept[s].owner = None)
        /\ kept' = [kept EXCEPT ![s].owner = turns[t].agent,
                      ![s].messages = @ \o <<Talk!Said(t, "user"), Talk!Said(t, "agent")>>]
        /\ Talk!SelectionShown(s, suppressed)
        /\ turns' = [turns EXCEPT ![t].at = "refreshing", ![t].session = s]
  BY DEF Talk!Streamed
<1>3. PICK m : m = kept[s].messages \o <<Talk!Said(t, "user"), Talk!Said(t, "agent")>>
  OBVIOUS
<1>4. kept[s] \in Conv /\ kept[s].messages \in Seq(Talk!Message) /\ m \in Seq(Talk!Message)
  BY <1>3, BothAreAdded DEF TalkInv, TalkTypes, Conv
<1>5. PICK c \in Conv :
        /\ c.owner = turns[t].agent /\ c.messages = m /\ kept' = [kept EXCEPT ![s] = c]
  <2> DEFINE c == [kept[s] EXCEPT !.owner = turns[t].agent, !.messages = m]
  <2>1. c \in Conv /\ c.owner = turns[t].agent /\ c.messages = m
    BY <1>1, <1>4, TalkAssumed DEF Conv
  <2>2. kept' = [kept EXCEPT ![s] = c]
    BY <1>2, <1>3 DEF TalkInv, TalkTypes
  <2> QED
    BY <2>1, <2>2
<1>6. PICK n \in Talk!Turn :
        /\ n.at = "refreshing" /\ n.agent = turns[t].agent
        /\ n.chosen = turns[t].chosen /\ n.session = s
        /\ turns' = [turns EXCEPT ![t] = n]
  <2> DEFINE n == [turns[t] EXCEPT !.at = "refreshing", !.session = s]
  <2>1. /\ n \in Talk!Turn /\ n.at = "refreshing"
        /\ n.agent = turns[t].agent /\ n.chosen = turns[t].chosen /\ n.session = s
    BY <1>1 DEF Talk!Turn
  <2>2. turns' = [turns EXCEPT ![t] = n]
    BY <1>2 DEF TalkInv, TalkTypes
  <2> QED
    BY <2>1, <2>2
<1>7. /\ turns' \in [Talk!Turns -> Talk!Turn] /\ turns'[t] = n
      /\ \A u \in Talk!Turns : u # t => turns'[u] = turns[u]
  BY <1>6, TurnSteps DEF TalkInv
<1>8. /\ kept' \in [Talk!Sessions -> Conv] /\ kept'[s] = c
      /\ \A r \in Talk!Sessions : r # s => kept'[r] = kept[r]
      /\ \A r \in Talk!Sessions :
           kept'[r].owner \notin LocalAgents => Len(kept'[r].messages) <= MaxMessages
      /\ \A r \in Talk!Sessions :
           kept'[r].owner = None => kept'[r].messages = << >> /\ kept'[r].provider = None
      /\ \A r \in Talk!Sessions : kept[r].owner # None => kept'[r].owner # None
      /\ \A q \in Talk!Turn : TurnOk(q) =>
           /\ q.chosen # None => kept'[q.chosen].owner # None
           /\ q.session # None => kept'[q.session].owner # None
  BY <1>0, <1>1, <1>5, TalkAssumed, AddedFacts
<1>9. /\ selected' = s /\ loads' \in [Loads -> Talk!Sessions \cup {None}]
      /\ (s = selected => UNCHANGED loads)
      /\ \A l \in Loads : loads'[l] \in {loads[l], s}
  BY <1>2 DEF Talk!SelectionShown, Talk!Load, TalkInv, TalkTypes
<1>10. kept'[s].owner # None /\ kept'[s].owner = turns[t].agent
  BY <1>1, <1>5, <1>8, TalkAssumed
<1>11. TalkTypes'
  BY <1>0, <1>7, <1>8, <1>9 DEF TalkInv, TalkTypes
<1>12. PlaceInv'
  <2>1. TurnOk(n)' /\ turns'[t] = n
    <3>1. /\ n.at \in Going => n.agent \in Agents
          /\ n.chosen # None => kept'[n.chosen].owner # None
          /\ n.session # None => kept'[n.session].owner # None /\ n.at = "refreshing"
          /\ n.session # None
      BY <1>1, <1>6, <1>8, <1>10, TalkAssumed
    <3> QED
      BY <1>6, <1>7, <3>1 DEF TurnOk
  <2>2. \A u \in Talk!Turns : u # t => TurnOk(turns[u])'
    <3>1. \A u \in Talk!Turns : turns[u] \in Talk!Turn /\ TurnOk(turns[u])
      BY DEF TalkInv, TalkTypes, PlaceInv
    <3> QED
      BY <1>7, <1>8, <3>1 DEF TurnOk
  <2>3. \A u \in Talk!Turns : TurnOk(turns[u])'
    BY <2>1, <2>2 DEF TurnOk
  <2> QED
    BY <1>8, <1>9, <1>10, <2>3 DEF PlaceInv
<1>13. ~doubled => busy /\ created = None /\ \A u \in Talk!Turns : turns'[u].at \in Going => u = t
  BY <1>1, <1>7 DEF TalkInv, AloneInv, TalkTypes, Going, Begun
<1>14. AloneInv'
  <2>1. turns'[t].at = "refreshing"
    BY <1>6, <1>7
  <2> QED
    BY <1>0, <1>13, <2>1 DEF AloneInv, Going, Begun
<1>15. AnswerInv'
  <2> SUFFICES ASSUME ~doubled PROVE AnswerInv'
    BY <1>0 DEF AnswerInv
  <2>1. Paired(m)
    <3>1. Paired(kept[s].messages)
      BY DEF TalkInv, AnswerInv
    <3> QED
      BY <1>3, <1>4, <3>1, BothAreAdded
  <2>2. \A r \in Talk!Sessions : Paired(kept'[r].messages)
    BY <1>5, <1>8, <2>1 DEF TalkInv, AnswerInv
  <2>3. \A u \in Talk!Turns : turns'[u].at \notin {"asking", "storing"}
    BY <1>6, <1>7, <1>13 DEF Going, Begun
  <2> QED
    BY <2>2, <2>3 DEF AnswerInv, Paired
<1>16. ASSUME ~doubled, ~crossed
       PROVE  turns[t].agent = agent /\ \A l \in Loads : loads[l] = None
  BY <1>1, <1>16 DEF TalkInv, TalkTypes, CalmInv, CalmTurn, Going, Begun
<1>17. CalmInv'
  <2> SUFFICES ASSUME ~doubled, ~crossed PROVE CalmInv'
    BY <1>0 DEF CalmInv
  <2> QED
    BY <1>0, <1>1, <1>6, <1>7, <1>9, <1>10, <1>13, <1>16, TalkAssumed
    DEF CalmInv, CalmTurn, Going, Begun
<1>18. ShownInv'
  <2>1. turns'[t].at = "refreshing"
    BY <1>6, <1>7
  <2> QED
    BY <1>0, <1>13, <2>1 DEF ShownInv, ShownOk, Going, Begun
<1> QED
  BY <1>11, <1>12, <1>14, <1>15, <1>17, <1>18 DEF TalkInv

LEMMA NextTalkInv == TalkInv /\ [Talk!Next]_talkVars => TalkInv'
<1> SUFFICES ASSUME TalkInv, [Talk!Next]_talkVars PROVE TalkInv'
  OBVIOUS
<1>1. ASSUME NEW s \in Talk!Sessions, Talk!Select(s) \/ Talk!SessionCreated(s)
      PROVE  TalkInv'
  BY <1>1, SelectKeepsTalk, SessionCreatedKeepsTalk
<1>2. ASSUME NEW a \in Agents, Talk!ChangeAgent(a) \/ Talk!RosterMoves(a) \/ Talk!Refreshes(a)
      PROVE  TalkInv'
  BY <1>2, ChangeAgentKeepsTalk, MovedKeepsTalk
<1>3. ASSUME NEW l \in Loads, Talk!LoadArrives(l) \/ Talk!LoadFails(l)
      PROVE  TalkInv'
  BY <1>3, LoadEndsKeepsTalk
<1>4. CASE Talk!NewSession \/ Talk!Refresh \/ Talk!NewSessionEnds
  BY <1>4, NewSessionKeepsTalk, NewSessionEndsKeepsTalk
<1>5. ASSUME NEW t \in Talk!Turns,
             \/ Talk!Send(t) \/ Talk!Begin(t) \/ Talk!Fails(t) \/ Talk!AppendQuestion(t)
             \/ Talk!Answered(t) \/ Talk!StoreAnswer(t) \/ Talk!Streamed(t) \/ Talk!Refreshed(t)
             \/ Talk!Finish(t)
      PROVE  TalkInv'
  BY <1>5, SendKeepsTalk, BeginKeepsTalk, EndedKeepsTalk, AppendQuestionKeepsTalk,
    AnsweredKeepsTalk, StoreAnswerKeepsTalk, StreamedKeepsTalk, RefreshedKeepsTalk
<1>6. ASSUME NEW t \in Talk!Turns, NEW s \in Talk!Sessions, Talk!CreateForTurn(t, s)
      PROVE  TalkInv'
  BY <1>6, CreateForTurnKeepsTalk
<1>7. CASE UNCHANGED talkVars
  BY <1>7 DEF talkVars, TalkInv, TalkTypes, PlaceInv, TurnOk, AloneInv, AnswerInv, CalmInv,
    CalmTurn, ShownInv, ShownOk, StoredIn
<1> QED
  BY <1>1, <1>2, <1>3, <1>4, <1>5, <1>6, <1>7 DEF Talk!Next

\* The conversations of the run: they change by steps of theirs only.
LEMMA TalkInvariance == SafetySpec => []TalkInv
<1>1. SafetyInit => TalkInv
  BY InitTalkInv DEF SafetyInit
<1>2. TalkInv /\ [SafetyNext]_safetyVars => TalkInv'
  <2>1. [SafetyNext]_safetyVars => [Talk!Next]_talkVars
    BY DEF SafetyNext, safetyVars, talkVars
  <2> QED
    BY <2>1, NextTalkInv
<1> QED
  BY <1>1, <1>2, PTL DEF SafetySpec

\* Whatever the user and the roster do while something is under way: an answer is stored
\* after its question; and until the user goes on before it has ended, or the roster
\* changes the agent beneath the conversation, the agent is asked in its own conversation
\* with its provider's session, and that conversation is shown.
THEOREM ConversationsAreApart == SafetySpec => []ConversationsStayApart
<1>1. TalkInv => ConversationsStayApart
  <2> SUFFICES ASSUME TalkInv PROVE ConversationsStayApart
    OBVIOUS
  <2>1. Talk!OwnProviderSession
    <3> SUFFICES ASSUME ~crossed, ~doubled, NEW t \in Talk!Turns, turns[t].at = "asking"
                 PROVE  /\ kept[turns[t].session].owner = turns[t].agent
                        /\ turns[t].provider \in
                             {None, turns[t].session, kept[turns[t].session].provider}
      BY DEF Talk!OwnProviderSession
    <3>1. /\ CalmTurn(turns[t]) /\ \A l \in Loads : loads[l] = None
          /\ turns[t].session # None /\ turns[t].agent \notin LocalAgents
      BY DEF TalkInv, TalkTypes, PlaceInv, TurnOk, CalmInv, Going, Begun
    <3> QED
      BY <3>1 DEF TalkInv, CalmInv, CalmTurn
  <2>2. Talk!ShownIsStored
    <3> SUFFICES ASSUME ~Talk!SomethingIsUnderWay, ~crossed, ~failed, ~doubled
                 PROVE  shown = StoredIn(selected)
      BY DEF Talk!ShownIsStored, StoredIn
    <3>1. \A t \in Talk!Turns : turns[t].at \notin Going
      BY DEF Talk!SomethingIsUnderWay, Talk!Running, Going, Begun
    <3>2. \A l \in Loads : loads[l] = None
      BY DEF Talk!SomethingIsUnderWay, Talk!Loading
    <3> QED
      BY <3>1, <3>2 DEF TalkInv, ShownInv
  <2>3. Talk!AnswerFollowsQuestion
    BY DEF TalkInv, AnswerInv, Paired, Talk!AnswerFollowsQuestion
  <2> QED
    BY <2>1, <2>2, <2>3 DEF ConversationsStayApart
<1> QED
  BY <1>1, TalkInvariance, PTL

----------------------------------------------------------------------------
(* The node that the application runs (LocalAgent) *)

\* Whether some call waits for a node that it started.
SomeWait == \E u \in Node!Users : calls[u] = "waiting"

\* The launch ends with an answer, and a quit ends every call.
ShellInv ==
  /\ shell \in {"commandCenter", "running"} => started \in BOOLEAN
  /\ shell = "quit" => \A u \in Node!Users : calls[u] = "idle"

\* Unless a call ran into another, one call at most is under way, and a process that
\* the application started is its child: one that a call waits for, or one that
\* counts as started while no call is about to start another.
KnownInv ==
  ~overlapped =>
    /\ \A u, v \in Node!Users : calls[u] # "idle" /\ calls[v] # "idle" => u = v
    /\ \A p \in Procs : Node!IsAlive(p) =>
         /\ child = p /\ shell # "quit"
         /\ SomeWait \/ (started = TRUE /\ \A u \in Node!Users : calls[u] \in {"idle", "checking"})

\* The executable is replaced while no process runs, and never back.
BuildInv ==
  /\ exe = "new" => \A p \in Procs : procs[p].at # "gone" => procs[p].build = "new"
  /\ rebuilt => exe = "new"
  /\ told = "success" => exe = "new"

NodeInv == Node!TypeOK /\ ShellInv /\ KnownInv /\ BuildInv

LEMMA InitNodeInv == Node!Init => NodeInv
<1> SUFFICES ASSUME Node!Init PROVE NodeInv
  OBVIOUS
<1>1. Node!TypeOK
  BY DEF Node!Init, Node!TypeOK, Node!Gone, Node!Process, Node!Build, Node!Users
<1>2. ShellInv /\ KnownInv /\ BuildInv
  BY DEF Node!Init, ShellInv, KnownInv, BuildInv, Node!Gone, Node!IsAlive, Node!Users
<1> QED
  BY <1>1, <1>2 DEF NodeInv

\* What a kill leaves
LEMMA KilledFacts ==
  ASSUME Node!TypeOK, NEW p \in Procs \cup {None}
  PROVE  /\ Node!Killed(p) \in [Procs \cup {Outside} -> Node!Process]
         /\ \A q \in Procs : Node!Killed(p)[q].at \in {"starting", "serving"} =>
              q # p /\ Node!IsAlive(q)
         /\ \A q \in Procs : /\ Node!Killed(p)[q].build = procs[q].build
                             /\ Node!Killed(p)[q].at # "gone" => procs[q].at # "gone"
<1> DEFINE killed == [procs EXCEPT ![p].at = "killed"]
<1>1. CASE p = None \/ ~Node!IsAlive(p)
  BY <1>1, NodeAssumption DEF Node!Killed, Node!TypeOK, Node!LocalAgentAssumption, Node!IsAlive
<1>2. CASE ~(p = None \/ ~Node!IsAlive(p))
  <2>1. p \in Procs /\ Node!Killed(p) = killed /\ procs[p] \in Node!Process
    BY <1>2 DEF Node!Killed, Node!TypeOK
  <2>2. killed \in [Procs \cup {Outside} -> Node!Process]
    BY <2>1 DEF Node!TypeOK, Node!Process
  <2>3. \A q \in Procs : IF q = p THEN killed[q].at = "killed" /\ killed[q].build = procs[q].build
                         ELSE killed[q] = procs[q]
    BY <2>1 DEF Node!TypeOK, Node!Process
  <2>4. procs[p].at # "gone"
    BY <1>2 DEF Node!IsAlive
  <2> QED
    BY <2>1, <2>2, <2>3, <2>4 DEF Node!IsAlive
<1> QED
  BY <1>1, <1>2

\* What processes do by themselves, and what is asked of no process
LEMMA ProcessesKeepInv ==
  ASSUME NodeInv,
         \/ \E p \in Procs : Node!Listen(p)
         \/ \E p \in DOMAIN procs : Node!Exit(p)
         \/ Node!StartOutside
  PROVE  NodeInv'
<1>1. /\ UNCHANGED <<child, started, calls, stopping, exe, rebuilt, shell, told, overlapped>>
      /\ NodeInv
  BY DEF Node!Listen, Node!Exit, Node!StartOutside
<1>2. /\ procs' \in [Procs \cup {Outside} -> Node!Process]
      /\ \A q \in Procs : /\ procs'[q].at \in {"starting", "serving"} => Node!IsAlive(q)
                          /\ procs'[q].at # "gone" =>
                               procs[q].at # "gone" /\ procs'[q].build = procs[q].build
  <2>1. CASE \E p \in Procs : Node!Listen(p)
    <3>1. PICK p \in Procs : Node!Listen(p)
      BY <2>1
    <3>2. /\ procs[p].at = "starting"
          /\ \/ procs' = [procs EXCEPT ![p].at = "serving"]
             \/ procs' = [procs EXCEPT ![p] = Node!Gone]
      BY <3>1 DEF Node!Listen
    <3> QED
      BY <1>1, <3>2 DEF NodeInv, Node!TypeOK, Node!Process, Node!Build, Node!Gone, Node!IsAlive
  <2>2. CASE \E p \in DOMAIN procs : Node!Exit(p)
    <3>1. PICK p \in Procs \cup {Outside} : procs' = [procs EXCEPT ![p] = Node!Gone]
      BY <1>1, <2>2 DEF Node!Exit, NodeInv, Node!TypeOK
    <3> QED
      BY <1>1, <3>1 DEF NodeInv, Node!TypeOK, Node!Process, Node!Build, Node!Gone, Node!IsAlive
  <2>3. CASE Node!StartOutside
    <3>1. procs' = [procs EXCEPT ![Outside].at = "serving"]
      BY <2>3 DEF Node!StartOutside
    <3>2. Outside \notin Procs
      BY NodeAssumption DEF Node!LocalAgentAssumption
    <3> QED
      BY <1>1, <3>1, <3>2 DEF NodeInv, Node!TypeOK, Node!Process, Node!Build, Node!IsAlive
  <2> QED
    BY <2>1, <2>2, <2>3
<1>3. Node!TypeOK' /\ ShellInv' /\ BuildInv'
  BY <1>1, <1>2 DEF NodeInv, Node!TypeOK, ShellInv, BuildInv
<1>4. KnownInv'
  BY <1>1, <1>2 DEF NodeInv, KnownInv, Node!IsAlive, SomeWait
<1> QED
  BY <1>3, <1>4 DEF NodeInv

\* A call that goes on, or ends, by itself
LEMMA CallMoves ==
  ASSUME Node!TypeOK, NEW u \in Node!Users,
         NEW at \in {"idle", "probing", "waiting", "stopping", "building", "checking"},
         calls' = [calls EXCEPT ![u] = at]
  PROVE  /\ calls' \in
              [Node!Users -> {"idle", "probing", "waiting", "stopping", "building", "checking"}]
         /\ calls'[u] = at /\ \A v \in Node!Users : v # u => calls'[v] = calls[v]
BY DEF Node!TypeOK

\* No process of the application is alive while a call probes, stops or builds; unless
\* another call ran into it.
LEMMA NoneAliveMeanwhile ==
  ASSUME NodeInv, ~overlapped, NEW u \in Node!Users,
         calls[u] \in {"probing", "stopping", "building"}, NEW p \in Procs
  PROVE  ~Node!IsAlive(p)
BY DEF NodeInv, KnownInv, SomeWait

LEMMA EnsuredKeepsInv ==
  ASSUME NodeInv, NEW u \in Node!Users, Node!ProbeAnswered(u) \/ Node!WaitEnds(u)
  PROVE  NodeInv'
<1>1. /\ UNCHANGED <<procs, child, stopping, exe, rebuilt, told, overlapped>>
      /\ NodeInv /\ calls[u] # "idle"
      /\ shell' = IF u = Node!Launch THEN "commandCenter" ELSE shell
      /\ started' \in BOOLEAN
  BY DEF Node!ProbeAnswered, Node!WaitEnds, Node!Ensured
<1>2. PICK at \in {"idle", "checking"} : calls' = [calls EXCEPT ![u] = at]
  BY DEF Node!ProbeAnswered, Node!WaitEnds, Node!Ensured
<1>3. /\ calls' \in
           [Node!Users -> {"idle", "probing", "waiting", "stopping", "building", "checking"}]
      /\ calls'[u] = at /\ \A v \in Node!Users : v # u => calls'[v] = calls[v]
  <2>1. at \in {"idle", "probing", "waiting", "stopping", "building", "checking"}
    BY <1>2
  <2> QED
    BY <1>1, <1>2, <2>1, CallMoves DEF NodeInv
<1>4. Node!TypeOK'
  BY <1>1, <1>3 DEF NodeInv, Node!TypeOK
<1>5. ShellInv' /\ BuildInv'
  <2>1. shell # "quit"
    BY <1>1 DEF NodeInv, ShellInv
  <2> QED
    BY <1>1, <2>1 DEF NodeInv, ShellInv, BuildInv
<1>6. KnownInv'
  <2> SUFFICES ASSUME ~overlapped PROVE KnownInv'
    BY <1>1 DEF KnownInv
  <2>1. ASSUME NEW v \in Node!Users, NEW w \in Node!Users, calls'[v] # "idle", calls'[w] # "idle"
        PROVE  v = w
    BY <1>1, <1>3, <2>1 DEF NodeInv, KnownInv
  <2>2. ASSUME NEW p \in Procs, procs'[p].at \in {"starting", "serving"}
        PROVE  /\ child' = p /\ shell' # "quit"
               /\ started' = TRUE /\ \A v \in Node!Users : calls'[v] \in {"idle", "checking"}
    <3>1. Node!IsAlive(p)
      BY <1>1, <2>2 DEF Node!IsAlive
    <3>2. child = p /\ shell # "quit" /\ calls[u] # "probing"
      BY <1>1, <3>1, NoneAliveMeanwhile DEF NodeInv, KnownInv
    <3>3. started' = TRUE
      BY <3>2 DEF Node!ProbeAnswered, Node!WaitEnds, Node!Ensured
    <3>4. \A v \in Node!Users : v # u => calls'[v] = "idle"
      BY <1>1, <1>3 DEF NodeInv, KnownInv
    <3> QED
      BY <1>1, <1>2, <1>3, <3>2, <3>3, <3>4
  <2> QED
    BY <2>1, <2>2 DEF KnownInv, Node!IsAlive
<1> QED
  BY <1>4, <1>5, <1>6 DEF NodeInv

LEMMA ProbeFailedKeepsInv ==
  ASSUME NodeInv, NEW u \in Node!Users, Node!ProbeFailed(u)
  PROVE  NodeInv'
<1>1. /\ UNCHANGED <<started, stopping, exe, rebuilt, shell, told, overlapped>>
      /\ NodeInv /\ calls[u] = "probing" /\ calls' = [calls EXCEPT ![u] = "waiting"]
  BY DEF Node!ProbeFailed
<1>2. PICK p \in Procs : /\ procs' = [procs EXCEPT ![p] = [at |-> "starting", build |-> exe]]
                         /\ child' = p
  BY DEF Node!ProbeFailed
<1>3. /\ calls' \in
           [Node!Users -> {"idle", "probing", "waiting", "stopping", "building", "checking"}]
      /\ calls'[u] = "waiting" /\ \A v \in Node!Users : v # u => calls'[v] = calls[v]
  BY <1>1, CallMoves DEF NodeInv
<1>4. /\ procs' \in [Procs \cup {Outside} -> Node!Process]
      /\ procs'[p].build = exe /\ \A q \in Procs : q # p => procs'[q] = procs[q]
  BY <1>1, <1>2 DEF NodeInv, Node!TypeOK, Node!Process
<1>5. Node!TypeOK' /\ BuildInv'
  BY <1>1, <1>2, <1>3, <1>4 DEF NodeInv, Node!TypeOK, BuildInv
<1>6. shell # "quit"
  BY <1>1 DEF NodeInv, ShellInv
<1>7. KnownInv'
  <2> SUFFICES ASSUME ~overlapped PROVE KnownInv'
    BY <1>1 DEF KnownInv
  <2>1. \A q \in Procs : q # p => procs'[q].at \notin {"starting", "serving"}
    BY <1>1, <1>4, NoneAliveMeanwhile DEF Node!IsAlive
  <2>2. \A v, w \in Node!Users : calls'[v] # "idle" /\ calls'[w] # "idle" => v = w
    BY <1>1, <1>3 DEF NodeInv, KnownInv
  <2> QED
    BY <1>1, <1>2, <1>3, <1>6, <2>1, <2>2 DEF KnownInv, Node!IsAlive, SomeWait
<1> QED
  BY <1>1, <1>5, <1>6, <1>7 DEF NodeInv, ShellInv

\* What is left of the processes when the child is stopped if it counts as started
LEMMA StopFacts ==
  ASSUME Node!TypeOK,
         \/ started = TRUE /\ procs' = Node!Killed(child) /\ child' = None
         \/ started # TRUE /\ UNCHANGED <<procs, child>>
  PROVE  /\ procs' \in [Procs \cup {Outside} -> Node!Process] /\ child' \in Procs \cup {None}
         /\ \A q \in Procs : /\ procs'[q].build = procs[q].build
                             /\ procs'[q].at # "gone" => procs[q].at # "gone"
         /\ \A q \in Procs : procs'[q].at \in {"starting", "serving"} =>
              Node!IsAlive(q) /\ (started = TRUE => q # child)
<1>1. CASE started = TRUE /\ procs' = Node!Killed(child) /\ child' = None
  <2>1. child \in Procs \cup {None}
    BY DEF Node!TypeOK
  <2> QED
    BY <1>1, <2>1, KilledFacts
<1>2. CASE started # TRUE /\ UNCHANGED <<procs, child>>
  BY <1>2 DEF Node!TypeOK, Node!IsAlive
<1> QED
  BY <1>1, <1>2

\* A call that begins while no other is under way, and what it stops, leave no process
\* of the application alive.
LEMMA BeginKeepsInv ==
  ASSUME NodeInv, NEW u \in Node!Users, NEW at \in {"probing", "stopping"},
         shell = "running", calls[u] = "idle", Node!Begin(u, at),
         \/ started = TRUE /\ procs' = Node!Killed(child) /\ child' = None
         \/ started # TRUE /\ UNCHANGED <<procs, child>>,
         stopping' \in Procs \cup {None},
         UNCHANGED <<started, exe, rebuilt, shell, told>>
  PROVE  NodeInv'
<1>1. /\ calls' = [calls EXCEPT ![u] = at] /\ NodeInv
      /\ overlapped' \in BOOLEAN
      /\ ~overlapped' => ~overlapped /\ \A v \in Node!Users \ {u} : calls[v] = "idle"
  BY DEF Node!Begin, NodeInv, Node!TypeOK
<1>2. /\ calls' \in
           [Node!Users -> {"idle", "probing", "waiting", "stopping", "building", "checking"}]
      /\ calls'[u] = at /\ \A v \in Node!Users : v # u => calls'[v] = calls[v]
  <2>1. at \in {"idle", "probing", "waiting", "stopping", "building", "checking"}
    OBVIOUS
  <2> QED
    BY <1>1, <2>1, CallMoves DEF NodeInv
<1>3. /\ procs' \in [Procs \cup {Outside} -> Node!Process] /\ child' \in Procs \cup {None}
      /\ \A q \in Procs : /\ procs'[q].build = procs[q].build
                          /\ procs'[q].at # "gone" => procs[q].at # "gone"
      /\ \A q \in Procs : procs'[q].at \in {"starting", "serving"} =>
           Node!IsAlive(q) /\ (started = TRUE => q # child)
  BY <1>1, StopFacts DEF NodeInv
<1>4. Node!TypeOK' /\ ShellInv' /\ BuildInv'
  BY <1>1, <1>2, <1>3 DEF NodeInv, Node!TypeOK, ShellInv, BuildInv
<1>5. KnownInv'
  <2> SUFFICES ASSUME ~overlapped' PROVE KnownInv'
    BY DEF KnownInv
  <2>1. ~overlapped /\ \A v \in Node!Users : calls[v] = "idle"
    BY <1>1
  <2>2. ASSUME NEW p \in Procs, procs'[p].at \in {"starting", "serving"} PROVE FALSE
    BY <1>1, <1>3, <2>1, <2>2 DEF NodeInv, KnownInv, SomeWait
  <2> QED
    BY <1>2, <2>1, <2>2 DEF KnownInv, Node!IsAlive
<1> QED
  BY <1>4, <1>5 DEF NodeInv

LEMMA RequestFailsKeepsInv ==
  ASSUME NodeInv, NEW r \in Callers, Node!RequestFails(r)
  PROVE  NodeInv'
<1>1. /\ r \in Node!Users /\ "probing" \in {"probing", "stopping"}
      /\ shell = "running" /\ calls[r] = "idle" /\ Node!Begin(r, "probing")
      /\ UNCHANGED <<started, stopping, exe, rebuilt, shell, told>>
  BY DEF Node!RequestFails, Node!Users
<1>2. started \in BOOLEAN /\ stopping \in Procs \cup {None}
  BY <1>1 DEF NodeInv, ShellInv, Node!TypeOK
<1>3. \/ started = TRUE /\ procs' = Node!Killed(child) /\ child' = None
      \/ started # TRUE /\ UNCHANGED <<procs, child>>
  BY <1>2 DEF Node!RequestFails, Node!StopLocalAgent
<1> QED
  BY <1>1, <1>2, <1>3, BeginKeepsInv

\* One step of the rebuild
LEMMA MaintenanceStep ==
  ASSUME NodeInv, NEW at \in {"idle", "probing", "building"},
         calls[Node!Maintenance] \in {"stopping", "building", "checking"},
         calls' = [calls EXCEPT ![Node!Maintenance] = at],
         at = "building" => calls[Node!Maintenance] = "stopping",
         at = "probing" => calls[Node!Maintenance] = "building",
         stopping' \in Procs \cup {None}, BuildInv', exe' \in Node!Build,
         rebuilt' \in BOOLEAN,
         told' \in {"nothing", "success", "previous", "failed", "outside"},
         UNCHANGED <<procs, child, started, shell, overlapped>>
  PROVE  NodeInv'
<1> DEFINE u == Node!Maintenance
<1>1. u \in Node!Users /\ NodeInv
  BY DEF Node!Users
<1>2. /\ calls' \in
           [Node!Users -> {"idle", "probing", "waiting", "stopping", "building", "checking"}]
      /\ calls'[u] = at /\ \A v \in Node!Users : v # u => calls'[v] = calls[v]
  <2>1. at \in {"idle", "probing", "waiting", "stopping", "building", "checking"}
    OBVIOUS
  <2> QED
    BY <1>1, <2>1, CallMoves DEF NodeInv
<1>3. Node!TypeOK'
  BY <1>2 DEF NodeInv, Node!TypeOK
<1>4. ShellInv'
  BY <1>1, <1>2 DEF NodeInv, ShellInv
<1>5. KnownInv'
  <2> SUFFICES ASSUME ~overlapped PROVE KnownInv'
    BY DEF KnownInv
  <2>1. \A v, w \in Node!Users : calls'[v] # "idle" /\ calls'[w] # "idle" => v = w
    BY <1>1, <1>2 DEF NodeInv, KnownInv
  <2>2. ASSUME NEW p \in Procs, procs'[p].at \in {"starting", "serving"}
        PROVE  /\ child' = p /\ shell' # "quit" /\ started' = TRUE
               /\ \A v \in Node!Users : calls'[v] \in {"idle", "checking"}
    <3>1. Node!IsAlive(p)
      BY <2>2 DEF Node!IsAlive
    <3>2. calls[u] = "checking"
      BY <1>1, <3>1, NoneAliveMeanwhile
    <3>3. at = "idle"
      BY <3>2
    <3>4. \A v \in Node!Users : v # u => calls[v] = "idle"
      BY <1>1, <3>2 DEF NodeInv, KnownInv
    <3>5. child = p /\ shell # "quit" /\ (SomeWait \/ started = TRUE)
      BY <1>1, <3>1 DEF NodeInv, KnownInv
    <3>6. ~SomeWait
      BY <3>2, <3>4 DEF SomeWait
    <3> QED
      BY <1>2, <3>3, <3>4, <3>5, <3>6
  <2> QED
    BY <2>1, <2>2 DEF KnownInv, Node!IsAlive
<1> QED
  BY <1>3, <1>4, <1>5 DEF NodeInv

LEMMA MaintenanceKeepsInv ==
  ASSUME NodeInv,
         Node!StartMaintenance \/ Node!Stopped \/ Node!Rebuilt \/ Node!Checked
  PROVE  NodeInv'
<1>1. CASE Node!StartMaintenance
  <2>1. /\ shell = "running" /\ calls[Node!Maintenance] = "idle"
        /\ UNCHANGED <<started, exe, rebuilt, shell>>
    BY <1>1 DEF Node!StartMaintenance
  <2>2. started \in BOOLEAN /\ NodeInv
    BY <2>1 DEF NodeInv, ShellInv
  <2>3. CASE started = FALSE
    <3>1. told' = "outside" /\ UNCHANGED <<procs, child, calls, stopping, overlapped>>
      BY <1>1, <2>3 DEF Node!StartMaintenance, Node!Tell
    <3> QED
      BY <2>1, <2>2, <3>1
      DEF NodeInv, Node!TypeOK, ShellInv, KnownInv, BuildInv, Node!IsAlive, SomeWait
  <2>4. CASE started = TRUE
    <3>1. /\ Node!Begin(Node!Maintenance, "stopping") /\ procs' = Node!Killed(child)
          /\ child' = None /\ stopping' = child /\ UNCHANGED told
      BY <1>1, <2>4 DEF Node!StartMaintenance
    <3>2. /\ Node!Maintenance \in Node!Users /\ "stopping" \in {"probing", "stopping"}
          /\ stopping' \in Procs \cup {None}
      BY <2>2, <3>1 DEF Node!Users, NodeInv, Node!TypeOK
    <3> QED
      BY <2>1, <2>2, <2>4, <3>1, <3>2, BeginKeepsInv
  <2> QED
    BY <2>2, <2>3, <2>4
<1>2. CASE Node!Stopped
  <2>1. /\ calls[Node!Maintenance] = "stopping" /\ stopping' = None
        /\ UNCHANGED <<procs, child, started, exe, rebuilt, shell, overlapped>>
    BY <1>2 DEF Node!Stopped
  <2>2. PICK at \in {"idle", "building"} :
             calls' = [calls EXCEPT ![Node!Maintenance] = at] /\ told' \in {told, "failed"}
    BY <1>2 DEF Node!Stopped, Node!Tell
  <2>3. BuildInv' /\ exe' \in Node!Build /\ rebuilt' \in BOOLEAN
        /\ told' \in {"nothing", "success", "previous", "failed", "outside"}
    BY <2>1, <2>2 DEF NodeInv, BuildInv, Node!TypeOK
  <2> QED
    BY <2>1, <2>2, <2>3, MaintenanceStep
<1>3. CASE Node!Rebuilt
  <2>1. /\ calls[Node!Maintenance] = "building"
        /\ calls' = [calls EXCEPT ![Node!Maintenance] = "probing"]
        /\ UNCHANGED <<procs, child, started, stopping, shell, told, overlapped>>
        /\ \/ ~Node!InUse /\ exe' = "new" /\ rebuilt' = TRUE
           \/ rebuilt' = FALSE /\ UNCHANGED exe
    BY <1>3 DEF Node!Rebuilt
  <2>2. /\ BuildInv' /\ exe' \in Node!Build /\ rebuilt' \in BOOLEAN
        /\ told' \in {"nothing", "success", "previous", "failed", "outside"}
        /\ stopping' \in Procs \cup {None}
    BY <2>1 DEF NodeInv, BuildInv, Node!TypeOK, Node!InUse, Node!Build
  <2> QED
    BY <2>1, <2>2, MaintenanceStep
<1>4. CASE Node!Checked
  <2>1. /\ calls[Node!Maintenance] = "checking"
        /\ calls' = [calls EXCEPT ![Node!Maintenance] = "idle"]
        /\ UNCHANGED <<procs, child, started, stopping, exe, rebuilt, shell, overlapped>>
        /\ told' \in {Node!Outcome, "failed"}
    BY <1>4 DEF Node!Checked, Node!Tell
  <2>2. /\ BuildInv' /\ exe' \in Node!Build /\ rebuilt' \in BOOLEAN
        /\ told' \in {"nothing", "success", "previous", "failed", "outside"}
        /\ stopping' \in Procs \cup {None}
    BY <2>1 DEF NodeInv, BuildInv, Node!TypeOK, Node!Outcome
  <2> QED
    BY <2>1, <2>2, MaintenanceStep
<1> QED
  BY <1>1, <1>2, <1>3, <1>4

LEMMA ShellKeepsInv ==
  ASSUME NodeInv, Node!ServerStarts \/ Node!Quit
  PROVE  NodeInv'
<1>1. CASE Node!ServerStarts
  BY <1>1 DEF Node!ServerStarts, NodeInv, Node!TypeOK, ShellInv, KnownInv, BuildInv,
     Node!IsAlive, SomeWait
<1>2. CASE Node!Quit
  <2>1. /\ shell # "quit" /\ shell' = "quit" /\ stopping' = None
        /\ calls' = [u \in Node!Users |-> "idle"]
        /\ UNCHANGED <<started, exe, rebuilt, told>> /\ NodeInv
        /\ overlapped' \in BOOLEAN
        /\ ~overlapped' => ~overlapped /\ \A u \in Node!Users : calls[u] = "idle"
    BY <1>2 DEF Node!Quit, NodeInv, Node!TypeOK
  <2>2. \/ started = TRUE /\ procs' = Node!Killed(child) /\ child' = None
        \/ started # TRUE /\ UNCHANGED <<procs, child>>
    BY <1>2 DEF Node!Quit, Node!StopLocalAgent
  <2>3. /\ procs' \in [Procs \cup {Outside} -> Node!Process] /\ child' \in Procs \cup {None}
        /\ \A q \in Procs : /\ procs'[q].build = procs[q].build
                            /\ procs'[q].at # "gone" => procs[q].at # "gone"
        /\ \A q \in Procs : procs'[q].at \in {"starting", "serving"} =>
             Node!IsAlive(q) /\ (started = TRUE => q # child)
    BY <2>1, <2>2, StopFacts DEF NodeInv
  <2>4. Node!TypeOK' /\ ShellInv' /\ BuildInv'
    BY <2>1, <2>3 DEF NodeInv, Node!TypeOK, ShellInv, BuildInv
  <2>5. KnownInv'
    <3> SUFFICES ASSUME ~overlapped' PROVE KnownInv'
      BY DEF KnownInv
    <3>1. ASSUME NEW p \in Procs, procs'[p].at \in {"starting", "serving"} PROVE FALSE
      BY <2>1, <2>3, <3>1 DEF NodeInv, KnownInv, SomeWait
    <3> QED
      BY <2>1, <3>1 DEF KnownInv, Node!IsAlive
  <2> QED
    BY <2>4, <2>5 DEF NodeInv
<1> QED
  BY <1>1, <1>2

LEMMA NextNodeInv ==
  ASSUME NodeInv, Node!Next PROVE NodeInv'
<1>1. CASE \E u \in Node!Users :
             Node!ProbeAnswered(u) \/ Node!ProbeFailed(u) \/ Node!WaitEnds(u)
  BY <1>1, EnsuredKeepsInv, ProbeFailedKeepsInv
<1>2. CASE \E r \in Callers : Node!RequestFails(r)
  BY <1>2, RequestFailsKeepsInv
<1>3. CASE Node!StartMaintenance \/ Node!Stopped \/ Node!Rebuilt \/ Node!Checked
  BY <1>3, MaintenanceKeepsInv
<1>4. CASE Node!ServerStarts \/ Node!Quit
  BY <1>4, ShellKeepsInv
<1>5. CASE \/ \E p \in Procs : Node!Listen(p)
           \/ \E p \in DOMAIN procs : Node!Exit(p)
           \/ Node!StartOutside
  BY <1>5, ProcessesKeepInv
<1> QED
  BY <1>1, <1>2, <1>3, <1>4, <1>5 DEF Node!Next

LEMMA NodeInvariance == SafetySpec => []NodeInv
<1>1. SafetyInit => NodeInv
  BY InitNodeInv DEF SafetyInit
<1>2. NodeInv /\ [SafetyNext]_safetyVars => NodeInv'
  <2> SUFFICES ASSUME NodeInv, [SafetyNext]_safetyVars PROVE NodeInv'
    OBVIOUS
  <2>1. Node!Next \/ UNCHANGED nodeVars
    BY DEF SafetyNext, safetyVars
  <2>2. CASE UNCHANGED nodeVars
    BY <2>2 DEF nodeVars, NodeInv, Node!TypeOK, ShellInv, KnownInv, BuildInv, SomeWait,
       Node!IsAlive
  <2> QED
    BY <2>1, <2>2, NextNodeInv
<1> QED
  BY <1>1, <1>2, PTL DEF SafetySpec

\* The last step
LEMMA NodeIsKnown == NodeInv => Node!OwnAgentIsKnown /\ Node!SuccessMeansNewBuild
<1> SUFFICES ASSUME NodeInv PROVE Node!OwnAgentIsKnown /\ Node!SuccessMeansNewBuild
  OBVIOUS
<1>1. Node!OwnAgentIsKnown
  BY DEF NodeInv, KnownInv, SomeWait, Node!OwnAgentIsKnown
<1>2. Node!SuccessMeansNewBuild
  BY DEF NodeInv, BuildInv, Node!SuccessMeansNewBuild
<1> QED
  BY <1>1, <1>2

----------------------------------------------------------------------------
(* The backend in development (AgentHub) *)

\* While the backend runs, its registry is what its file holds.
HubFileInv == IF up THEN hub = file ELSE hub = Hub!Empty

\* The id of a device names its machine, and a token is one of the machine of its
\* device, which is known.
MachineInv(registry) ==
  /\ \A d \in Hub!DeviceId :
       registry.devices[d] # None => registry.devices[d].machine = d.machine
  /\ \A t \in registry.tokens : t.device.machine = t.machine /\ registry.devices[t.device] # None

\* A machine that named one account has one device in each account.
EachInv(registry) ==
  \A d, e \in Hub!DeviceId :
    /\ registry.devices[d] # None /\ registry.devices[e] # None
    /\ d.machine = e.machine /\ d.machine \notin mixed
    /\ registry.devices[d].account = registry.devices[e].account
    => d = e

\* A token that a machine was answered is in the file.
HeldInv ==
  ~lost => \A m \in Machines : \A id \in holds[m] :
             \E t \in file.tokens : t.id = id /\ t.machine = m

\* A code is claimed by the one registration that it was good for.
PairsOnceInv ==
  \A c \in HubCodes : uses[c] <= 1 /\ (codes[c].state # "dead" => uses[c] = 0)

\* Reports are of devices that the file knows, which has the last one unless it is
\* under way.
DeviceReports(d) ==
  IF file.devices[d] = None
  THEN /\ reported[d] = 0 /\ Hub!UnderWay(d) = {}
       /\ scanning # d /\ \A m \in Machines : socket[m] # d
  ELSE d \notin missed =>
         \/ Hub!UnderWay(d) = {} /\ file.devices[d].providers = reported[d]
         \/ \E r \in reports : Hub!UnderWay(d) = {r} /\ r.number = reported[d]

ReportsInv == ~lost => \A d \in Hub!DeviceId : DeviceReports(d)

HubInv ==
  /\ Hub!TypeOK /\ HubFileInv /\ MachineInv(file) /\ EachInv(file) /\ HeldInv /\ PairsOnceInv
  /\ ReportsInv

LEMMA EmptyFacts ==
  /\ Hub!Empty \in Hub!Registry /\ MachineInv(Hub!Empty) /\ EachInv(Hub!Empty)
  /\ \A d \in Hub!DeviceId : Hub!Empty.devices[d] = None
BY DEF Hub!Empty, Hub!Registry, MachineInv, EachInv

LEMMA InitHubInv == Hub!Init => HubInv
<1> SUFFICES ASSUME Hub!Init PROVE HubInv
  OBVIOUS
<1>1. hub = Hub!Empty /\ file = Hub!Empty /\ up = FALSE /\ lost = FALSE /\ mixed = {}
  BY DEF Hub!Init
<1>2. Hub!TypeOK
  <2>1. /\ codes \in [HubCodes -> Hub!Code] /\ holds \in [Machines -> SUBSET (1..MaxTokens)]
        /\ socket \in [Machines -> Hub!DeviceId \cup {None}]
        /\ scanning \in Hub!DeviceId \cup {None} /\ reports \subseteq Hub!Report
    BY HubAssumption DEF Hub!Init, Hub!Code, Hub!AgentHubAssumption
  <2>2. /\ tokens \in 0..MaxTokens /\ numbers \in 0..MaxReports
        /\ registered \in 0..MaxRegistered /\ crashes \in 0..MaxHubCrashes
        /\ reported \in [Hub!DeviceId -> 0..MaxReports] /\ missed \subseteq Hub!DeviceId
        /\ uses \in [HubCodes -> 0..MaxRegistered]
    BY HubAssumption DEF Hub!Init, Hub!AgentHubAssumption
  <2> QED
    BY <1>1, <2>1, <2>2, EmptyFacts DEF Hub!TypeOK
<1>3. HubFileInv /\ MachineInv(file) /\ EachInv(file)
  BY <1>1, EmptyFacts DEF HubFileInv
<1>4. HeldInv /\ PairsOnceInv
  BY DEF Hub!Init, HeldInv, PairsOnceInv
<1>5. ReportsInv
  <2>1. /\ reported = [d \in Hub!DeviceId |-> 0] /\ reports = {} /\ scanning = None
        /\ socket = [m \in Machines |-> None]
    BY DEF Hub!Init
  <2>2. None \notin Hub!DeviceId
    BY HubAssumption DEF Hub!AgentHubAssumption, Hub!DeviceId
  <2> QED
    BY <1>1, <2>1, <2>2, EmptyFacts DEF ReportsInv, DeviceReports, Hub!UnderWay
<1> QED
  BY <1>2, <1>3, <1>4, <1>5 DEF HubInv

\* What a registration does to the registry
LEMMA RegisterFacts ==
  ASSUME HubInv, NEW m \in Machines, NEW name \in Names, NEW wanted \in Accounts, NEW token,
         NEW c \in HubCodes \cup {None}, NEW id \in Hub!DeviceId,
         Hub!RegisterDevice(m, name, wanted, token, c, id)
  PROVE  \E account \in Accounts :
           /\ id.machine = m
           /\ hub'.devices =
                [file.devices EXCEPT ![id] =
                   [account |-> account, machine |-> m, providers |-> Hub!Kept(id)]]
           /\ file.devices[id] = None /\ account = wanted =>
                \A d \in Hub!DeviceId : file.devices[d] # None /\ d.machine = m =>
                  file.devices[d].account # account
           /\ \/ m \in mixed'
              \/ /\ account = wanted
                 /\ file.devices[id] # None => file.devices[id].account = account
           /\ \/ hub'.tokens = file.tokens /\ UNCHANGED <<tokens, holds>>
              \/ /\ tokens < MaxTokens /\ tokens' = tokens + 1
                 /\ hub'.tokens = file.tokens \cup
                      {[id |-> tokens + 1, account |-> account, device |-> id, machine |-> m]}
                 /\ holds' \in {holds, [holds EXCEPT ![m] = @ \cup {tokens + 1}]}
<1> DEFINE byToken == Hub!ByToken(m, token)
           byFingerprint == Hub!ByFingerprint(m, wanted)
           claimed == c # None /\ codes[c].state = "open"
           account == IF claimed THEN codes[c].account ELSE wanted
           issued == byToken = {} /\ (byFingerprint = {} \/ claimed)
           new == [id |-> tokens + 1, account |-> account, device |-> id, machine |-> m]
<1>1. /\ up /\ hub = file /\ HubInv
      /\ id \in IF byToken # {} THEN {t.device : t \in byToken}
               ELSE IF byFingerprint # {} THEN byFingerprint ELSE {[name |-> name, machine |-> m]}
      /\ mixed' = IF \/ account # wanted \/ \E t \in byToken : t.account # wanted
                     \/ hub.devices[id] # None /\ hub.devices[id].account # account
                  THEN mixed \cup {m} ELSE mixed
  BY DEF HubInv, HubFileInv, Hub!RegisterDevice
<1>2. account \in Accounts
  BY DEF HubInv, Hub!TypeOK, Hub!Code
<1>3. /\ hub'.devices =
           [hub.devices EXCEPT ![id] =
              [account |-> account, machine |-> m, providers |-> Hub!Kept(id)]]
      /\ hub'.tokens = hub.tokens \cup IF issued THEN {new} ELSE {}
  BY DEF Hub!RegisterDevice
<1>4. /\ issued => tokens < MaxTokens
      /\ tokens' = IF issued THEN tokens + 1 ELSE tokens
      /\ holds' \in {holds, IF issued THEN [holds EXCEPT ![m] = @ \cup {tokens + 1}] ELSE holds}
  BY DEF Hub!RegisterDevice
<1>5. /\ \A t \in byToken : t \in file.tokens /\ t.machine = m
      /\ \A d \in byFingerprint : file.devices[d] # None /\ file.devices[d].machine = m
      /\ \A d \in Hub!DeviceId : file.devices[d] # None /\ d.machine = m
                               /\ file.devices[d].account = wanted => d \in byFingerprint
  BY <1>1 DEF Hub!ByToken, Hub!ByFingerprint, HubInv, MachineInv
<1>6. /\ id.machine = m
      /\ file.devices[id] = None /\ account = wanted =>
           \A d \in Hub!DeviceId : file.devices[d] # None /\ d.machine = m =>
             file.devices[d].account # account
  <2>1. CASE byToken # {}
    BY <1>1, <1>5, <2>1 DEF HubInv, MachineInv
  <2>2. CASE byToken = {} /\ byFingerprint # {}
    BY <1>1, <1>5, <2>2 DEF HubInv, MachineInv
  <2>3. CASE byToken = {} /\ byFingerprint = {}
    BY <1>1, <1>5, <2>3
  <2> QED
    BY <2>1, <2>2, <2>3
<1>7. \/ m \in mixed'
      \/ /\ account = wanted
         /\ file.devices[id] # None => file.devices[id].account = account
  BY <1>1
<1>8. \/ hub'.tokens = file.tokens /\ UNCHANGED <<tokens, holds>>
      \/ /\ tokens < MaxTokens /\ tokens' = tokens + 1
         /\ hub'.tokens = file.tokens \cup {new}
         /\ holds' \in {holds, [holds EXCEPT ![m] = @ \cup {tokens + 1}]}
  BY <1>1, <1>3, <1>4
<1>9. hub'.devices = [file.devices EXCEPT ![id] =
                        [account |-> account, machine |-> m, providers |-> Hub!Kept(id)]]
  BY <1>1, <1>3
<1> HIDE DEF account
<1> QED
  BY <1>2, <1>6, <1>7, <1>8, <1>9

LEMMA RegisterKeepsInv ==
  ASSUME HubInv, NEW m \in Machines, NEW name \in Names, NEW wanted \in Accounts, NEW token,
         NEW c \in HubCodes \cup {None}, NEW id \in Hub!DeviceId,
         Hub!RegisterDevice(m, name, wanted, token, c, id),
         socket' \in [Machines -> Hub!DeviceId \cup {None}],
         \A x \in Machines : socket'[x] \in {socket[x], id},
         scanning' \in {scanning, id}
  PROVE  HubInv'
<1>1. /\ up /\ hub = file /\ file' = hub' /\ HubInv /\ hub \in Hub!Registry
      /\ file \in Hub!Registry
      /\ UNCHANGED <<up, reports, numbers, crashes, reported, missed, lost>>
      /\ mixed' \in {mixed, mixed \cup {m}}
      /\ registered < MaxRegistered /\ registered' = registered + 1
  BY DEF HubInv, HubFileInv, Hub!RegisterDevice, Hub!TypeOK
<1>2. PICK account \in Accounts :
           /\ id.machine = m
           /\ hub'.devices =
                [file.devices EXCEPT ![id] =
                   [account |-> account, machine |-> m, providers |-> Hub!Kept(id)]]
           /\ file.devices[id] = None /\ account = wanted =>
                \A d \in Hub!DeviceId : file.devices[d] # None /\ d.machine = m =>
                  file.devices[d].account # account
           /\ \/ m \in mixed'
              \/ /\ account = wanted
                 /\ file.devices[id] # None => file.devices[id].account = account
           /\ \/ hub'.tokens = file.tokens /\ UNCHANGED <<tokens, holds>>
              \/ /\ tokens < MaxTokens /\ tokens' = tokens + 1
                 /\ hub'.tokens = file.tokens \cup
                      {[id |-> tokens + 1, account |-> account, device |-> id, machine |-> m]}
                 /\ holds' \in {holds, [holds EXCEPT ![m] = @ \cup {tokens + 1}]}
  BY RegisterFacts
<1> DEFINE row == [account |-> account, machine |-> m, providers |-> Hub!Kept(id)]
           new == [id |-> tokens + 1, account |-> account, device |-> id, machine |-> m]
<1>3. /\ file.devices \in [Hub!DeviceId -> Hub!Device \cup {None}]
      /\ file.tokens \subseteq Hub!Token
  BY <1>1 DEF Hub!Registry
<1>4. /\ Hub!Kept(id) \in 0..MaxReports
      /\ file.devices[id] = None => Hub!Kept(id) = 0
      /\ file.devices[id] # None => Hub!Kept(id) = file.devices[id].providers
  BY <1>1, <1>3, HubAssumption DEF Hub!Kept, Hub!Device, Hub!AgentHubAssumption
<1>5. /\ row \in Hub!Device /\ row # None
      /\ row.account = account /\ row.machine = m /\ row.providers = Hub!Kept(id)
  BY <1>4, HubAssumption DEF Hub!Device, Hub!AgentHubAssumption
<1>6. /\ file'.devices \in [Hub!DeviceId -> Hub!Device \cup {None}]
      /\ file'.devices[id] = row
      /\ \A d \in Hub!DeviceId : d # id => file'.devices[d] = file.devices[d]
  BY <1>1, <1>2, <1>3, <1>5
<1>7. tokens \in 0..MaxTokens /\ holds \in [Machines -> SUBSET (1..MaxTokens)]
      /\ MaxTokens \in Nat /\ MaxRegistered \in Nat /\ registered \in 0..MaxRegistered
  BY <1>1, HubAssumption DEF HubInv, Hub!TypeOK, Hub!AgentHubAssumption
<1>8. /\ file.tokens \subseteq file'.tokens /\ file'.tokens \subseteq file.tokens \cup {new}
      /\ tokens' \in 0..MaxTokens /\ holds' \in [Machines -> SUBSET (1..MaxTokens)]
      /\ file'.tokens \subseteq Hub!Token
      /\ \A x \in Machines : \A i \in holds'[x] :
           i \in holds[x] \/ (new \in file'.tokens /\ i = tokens + 1 /\ x = m)
  <2>1. CASE hub'.tokens = file.tokens /\ UNCHANGED <<tokens, holds>>
    BY <1>1, <1>3, <1>7, <2>1
  <2>2. CASE /\ tokens < MaxTokens /\ tokens' = tokens + 1
             /\ hub'.tokens = file.tokens \cup {new}
             /\ holds' \in {holds, [holds EXCEPT ![m] = @ \cup {tokens + 1}]}
    <3>1. new \in Hub!Token /\ tokens + 1 \in 1..MaxTokens
      BY <1>7, <2>2 DEF Hub!Token
    <3>2. /\ holds' \in [Machines -> SUBSET (1..MaxTokens)]
          /\ \A x \in Machines : \A i \in holds'[x] : i \in holds[x] \/ (i = tokens + 1 /\ x = m)
      BY <1>7, <2>2, <3>1
    <3> QED
      BY <1>1, <1>3, <1>7, <2>2, <3>1, <3>2
  <2> QED
    BY <1>2, <2>1, <2>2
<1>9. file' \in Hub!Registry /\ hub' \in Hub!Registry
  <2>1. hub' = [devices |-> hub'.devices, tokens |-> hub'.tokens]
    BY DEF Hub!RegisterDevice
  <2> QED
    BY <1>1, <1>6, <1>8, <2>1 DEF Hub!Registry
<1>10. /\ codes' \in [HubCodes -> Hub!Code] /\ uses' \in [HubCodes -> 0..MaxRegistered]
       /\ PairsOnceInv'
  <2>1. \/ UNCHANGED <<codes, uses>>
        \/ /\ c \in HubCodes /\ codes[c].state = "open"
           /\ codes' = [codes EXCEPT ![c].state = "dead"]
           /\ uses' = [uses EXCEPT ![c] = @ + 1]
    BY DEF Hub!RegisterDevice, Hub!ClaimPairingCode
  <2>2. codes \in [HubCodes -> Hub!Code] /\ uses \in [HubCodes -> 0..MaxRegistered]
    BY <1>1 DEF HubInv, Hub!TypeOK
  <2>3. CASE UNCHANGED <<codes, uses>>
    BY <1>1, <2>2, <2>3 DEF HubInv, PairsOnceInv
  <2>4. CASE /\ c \in HubCodes /\ codes[c].state = "open"
             /\ codes' = [codes EXCEPT ![c].state = "dead"]
             /\ uses' = [uses EXCEPT ![c] = @ + 1]
    <3>1. uses[c] = 0
      BY <1>1, <2>4 DEF HubInv, PairsOnceInv
    <3>2. codes' \in [HubCodes -> Hub!Code] /\ codes'[c].state = "dead"
          /\ \A k \in HubCodes : k # c => codes'[k] = codes[k]
      BY <2>2, <2>4 DEF Hub!Code
    <3>3. /\ uses' \in [HubCodes -> 0..MaxRegistered] /\ uses'[c] = 1
          /\ \A k \in HubCodes : k # c => uses'[k] = uses[k]
      BY <1>1, <1>7, <2>2, <2>4, <3>1
    <3> QED
      BY <1>1, <3>2, <3>3 DEF HubInv, PairsOnceInv
  <2> QED
    BY <2>1, <2>3, <2>4
<1>11. Hub!TypeOK'
  <2>1. registered' \in 0..MaxRegistered
    BY <1>1, <1>7
  <2>2. scanning' \in Hub!DeviceId \cup {None}
    BY <1>1 DEF HubInv, Hub!TypeOK
  <2>3. mixed' \subseteq Machines
    BY <1>1 DEF HubInv, Hub!TypeOK
  <2> QED
    BY <1>1, <1>8, <1>9, <1>10, <2>1, <2>2, <2>3 DEF HubInv, Hub!TypeOK
<1>12. HubFileInv'
  BY <1>1 DEF HubFileInv
<1>13. MachineInv(file)'
  <2>1. MachineInv(file)
    BY <1>1 DEF HubInv
  <2>2. \A d \in Hub!DeviceId : file'.devices[d] # None => file'.devices[d].machine = d.machine
    BY <1>2, <1>5, <1>6, <2>1 DEF MachineInv
  <2>3. \A t \in file'.tokens : t.device.machine = t.machine /\ file'.devices[t.device] # None
    <3> SUFFICES ASSUME NEW t \in file'.tokens
                 PROVE  t.device.machine = t.machine /\ file'.devices[t.device] # None
      OBVIOUS
    <3>1. CASE t \in file.tokens
      <4>1. t.device \in Hub!DeviceId
        BY <1>3, <3>1 DEF Hub!Token
      <4> QED
        BY <1>5, <1>6, <2>1, <3>1, <4>1 DEF MachineInv
    <3>2. CASE t = new
      BY <1>2, <1>5, <1>6, <3>2
    <3> QED
      BY <1>8, <3>1, <3>2
  <2> QED
    BY <2>2, <2>3 DEF MachineInv
<1>14. EachInv(file)'
  <2> SUFFICES ASSUME NEW d \in Hub!DeviceId, NEW e \in Hub!DeviceId,
                      file'.devices[d] # None, file'.devices[e] # None,
                      d.machine = e.machine, d.machine \notin mixed',
                      file'.devices[d].account = file'.devices[e].account
               PROVE  d = e
    BY DEF EachInv
  <2>1. EachInv(file) /\ d.machine \notin mixed
    BY <1>1 DEF HubInv
  <2>2. CASE d.machine # m
    BY <1>2, <1>6, <2>1, <2>2 DEF EachInv
  <2>3. CASE d.machine = m
    <3>1. /\ account = wanted
          /\ file.devices[id] # None => file.devices[id].account = account
      BY <1>2, <2>3
    <3>2. CASE file.devices[id] # None
      BY <1>5, <1>6, <2>1, <3>1, <3>2 DEF EachInv
    <3>3. CASE file.devices[id] = None
      <4>1. \A x \in Hub!DeviceId : file.devices[x] # None /\ x.machine = m =>
              file.devices[x].account # account
        BY <1>2, <3>1, <3>3
      <4> QED
        BY <1>5, <1>6, <2>1, <2>3, <4>1 DEF EachInv
    <3> QED
      BY <3>2, <3>3
  <2> QED
    BY <2>2, <2>3
<1>15. HeldInv'
  <2> SUFFICES ASSUME ~lost, NEW x \in Machines, NEW i \in holds'[x]
               PROVE  \E t \in file'.tokens : t.id = i /\ t.machine = x
    BY <1>1 DEF HeldInv
  <2>1. CASE i \in holds[x]
    BY <1>1, <1>8, <2>1 DEF HubInv, HeldInv
  <2>2. CASE new \in file'.tokens /\ i = tokens + 1 /\ x = m
    BY <2>2
  <2> QED
    BY <1>8, <2>1, <2>2
<1>16. ReportsInv'
  <2> SUFFICES ASSUME ~lost, NEW d \in Hub!DeviceId PROVE DeviceReports(d)'
    BY <1>1 DEF ReportsInv
  <2>1. DeviceReports(d) /\ Hub!UnderWay(d)' = Hub!UnderWay(d)
    BY <1>1 DEF HubInv, ReportsInv, Hub!UnderWay
  <2>2. CASE d = id
    <3>1. /\ file'.devices[d] # None /\ file'.devices[d].providers = Hub!Kept(id)
      BY <1>5, <1>6, <2>2
    <3> QED
      BY <1>1, <1>4, <2>1, <2>2, <3>1 DEF DeviceReports
  <2>3. CASE d # id
    <3>1. file'.devices[d] = file.devices[d]
      BY <1>6, <2>3
    <3> QED
      BY <1>1, <2>1, <2>3, <3>1 DEF DeviceReports
  <2> QED
    BY <2>2, <2>3
<1> QED
  BY <1>10, <1>11, <1>12, <1>13, <1>14, <1>15, <1>16 DEF HubInv

LEMMA RegistersKeepInv ==
  ASSUME HubInv, (\E m \in Machines : Hub!Register(m)) \/ Hub!Scan
  PROVE  HubInv'
<1>1. CASE \E m \in Machines : Hub!Register(m)
  <2>1. PICK m \in Machines : Hub!Register(m)
    BY <1>1
  <2>2. PICK name \in Names, wanted \in Accounts, token \in holds[m] \cup {0},
             c \in HubCodes \cup {None}, id \in Hub!DeviceId :
             /\ Hub!RegisterDevice(m, name, wanted, token, c, id)
             /\ socket' \in {socket, [socket EXCEPT ![m] = id]}
             /\ UNCHANGED scanning
    BY <2>1 DEF Hub!Register
  <2>3. /\ socket' \in [Machines -> Hub!DeviceId \cup {None}]
        /\ \A x \in Machines : socket'[x] \in {socket[x], id}
    BY <2>2 DEF HubInv, Hub!TypeOK
  <2> QED
    BY <2>2, <2>3, RegisterKeepsInv
<1>2. CASE Hub!Scan
  <2>1. PICK name \in Names, id \in Hub!DeviceId :
             /\ scanning' = id
             /\ Hub!RegisterDevice(Local, name, Default, 0, None, id)
             /\ UNCHANGED socket
    BY <1>2 DEF Hub!Scan
  <2>2. /\ socket' \in [Machines -> Hub!DeviceId \cup {None}]
        /\ \A x \in Machines : socket'[x] \in {socket[x], id}
        /\ Local \in Machines /\ Default \in Accounts /\ None \in HubCodes \cup {None}
    BY <2>1, HubAssumption DEF HubInv, Hub!TypeOK, Hub!AgentHubAssumption
  <2> QED
    BY <2>1, <2>2, RegisterKeepsInv
<1> QED
  BY <1>1, <1>2

\* What leaves the registry alone
LEMMA RegistryStays ==
  ASSUME HubInv, UNCHANGED <<hub, file, up, holds, mixed, lost>>
  PROVE  /\ HubFileInv' /\ MachineInv(file)' /\ EachInv(file)' /\ HeldInv'
         /\ file' \in Hub!Registry /\ hub' \in Hub!Registry
BY DEF HubInv, HubFileInv, MachineInv, EachInv, HeldInv, Hub!TypeOK

LEMMA ReportedKeepsInv ==
  ASSUME HubInv, NEW d \in Hub!DeviceId, NEW token \in 0..MaxTokens, Hub!Reported(d, token),
         ~lost => file.devices[d] # None, scanning' \in {scanning, None}
  PROVE  HubInv'
<1> DEFINE new == [device |-> d, number |-> numbers + 1, token |-> token]
<1>1. /\ numbers < MaxReports /\ numbers' = numbers + 1
      /\ reports' = reports \cup {new}
      /\ reported' = [reported EXCEPT ![d] = numbers + 1]
      /\ missed' = IF Hub!UnderWay(d) = {} THEN missed \ {d} ELSE missed \cup {d}
      /\ UNCHANGED <<codes, holds, tokens, registered, uses, mixed, up, hub, file, socket,
                     crashes, lost>>
      /\ HubInv
  BY DEF Hub!Reported, Hub!Registering
<1>2. numbers \in 0..MaxReports /\ MaxReports \in Nat
  BY <1>1, HubAssumption DEF HubInv, Hub!TypeOK, Hub!AgentHubAssumption
<1>3. /\ new \in Hub!Report /\ new.device = d /\ new.number = numbers + 1
      /\ numbers + 1 \in 0..MaxReports
  BY <1>1, <1>2 DEF Hub!Report
<1>4. /\ reported' \in [Hub!DeviceId -> 0..MaxReports] /\ reported'[d] = numbers + 1
      /\ \A e \in Hub!DeviceId : e # d => reported'[e] = reported[e]
  BY <1>1, <1>3 DEF HubInv, Hub!TypeOK
<1>5. scanning' \in Hub!DeviceId \cup {None} /\ missed' \subseteq Hub!DeviceId
  BY <1>1 DEF HubInv, Hub!TypeOK
<1>6. Hub!TypeOK'
  BY <1>1, <1>3, <1>4, <1>5, RegistryStays DEF HubInv, Hub!TypeOK
<1>7. PairsOnceInv'
  BY <1>1 DEF HubInv, PairsOnceInv
<1>8. ReportsInv'
  <2> SUFFICES ASSUME ~lost, NEW e \in Hub!DeviceId PROVE DeviceReports(e)'
    BY <1>1 DEF ReportsInv
  <2>1. /\ DeviceReports(e) /\ file' = file
    BY <1>1 DEF HubInv, ReportsInv
  <2>2. None \notin Hub!DeviceId
    BY HubAssumption DEF Hub!AgentHubAssumption, Hub!DeviceId
  <2>3. CASE e # d
    <3>1. /\ Hub!UnderWay(e)' = Hub!UnderWay(e) /\ (e \in missed' <=> e \in missed)
          /\ reported'[e] = reported[e] /\ socket' = socket
      BY <1>1, <1>3, <1>4, <2>3 DEF Hub!UnderWay
    <3>2. CASE file.devices[e] = None
      BY <2>1, <2>2, <3>1, <3>2 DEF DeviceReports
    <3>3. CASE file.devices[e] # None
      <4>1. e \notin missed =>
              \/ Hub!UnderWay(e) = {} /\ file.devices[e].providers = reported[e]
              \/ \E r \in reports : Hub!UnderWay(e) = {r} /\ r.number = reported[e]
        BY <2>1, <3>3 DEF DeviceReports
      <4> QED
        BY <1>1, <2>1, <3>1, <3>3, <4>1 DEF DeviceReports
    <3> QED
      BY <3>2, <3>3
  <2>4. CASE e = d
    <3>1. file'.devices[e] # None
      BY <2>1, <2>4
    <3>2. ASSUME e \notin missed' PROVE Hub!UnderWay(e)' = {new}
      <4>1. Hub!UnderWay(d) = {}
        BY <1>1, <2>4, <3>2
      <4> QED
        BY <1>1, <1>3, <2>4, <4>1 DEF Hub!UnderWay
    <3> QED
      BY <1>1, <1>3, <1>4, <2>4, <3>1, <3>2 DEF DeviceReports
  <2> QED
    BY <2>3, <2>4
<1> QED
  BY <1>1, <1>6, <1>7, <1>8, RegistryStays DEF HubInv

LEMMA ReportsKeepInv ==
  ASSUME HubInv, (\E m \in Machines : Hub!SendReport(m)) \/ Hub!Scanned
  PROVE  HubInv'
<1>1. MaxTokens \in Nat /\ None \notin Hub!DeviceId
  BY HubAssumption DEF Hub!AgentHubAssumption, Hub!DeviceId
<1>2. CASE \E m \in Machines : Hub!SendReport(m)
  <2>1. PICK m \in Machines : Hub!SendReport(m)
    BY <1>2
  <2>2. UNCHANGED scanning
    BY <2>1 DEF Hub!SendReport
  <2>3. CASE \E t \in hub.tokens : t.id \in holds[m] /\ Hub!Reported(t.device, t.id)
    <3>1. PICK t \in hub.tokens : Hub!Reported(t.device, t.id)
      BY <2>3
    <3>2. up
      BY DEF HubInv, HubFileInv, Hub!Empty
    <3>3. t \in file.tokens /\ t \in Hub!Token
      BY <3>2 DEF HubInv, HubFileInv, Hub!TypeOK, Hub!Registry
    <3>4. t.device \in Hub!DeviceId /\ t.id \in 0..MaxTokens
      BY <1>1, <3>3 DEF Hub!Token
    <3>5. file.devices[t.device] # None
      BY <3>3 DEF HubInv, MachineInv
    <3> QED
      BY <2>2, <3>1, <3>4, <3>5, ReportedKeepsInv
  <2>4. CASE up /\ socket[m] # None /\ Hub!Reported(socket[m], 0)
    <3>1. socket[m] \in Hub!DeviceId /\ 0 \in 0..MaxTokens
      BY <1>1, <2>4 DEF HubInv, Hub!TypeOK
    <3>2. ~lost => file.devices[socket[m]] # None
      BY <3>1 DEF HubInv, ReportsInv, DeviceReports
    <3> QED
      BY <2>2, <2>4, <3>1, <3>2, ReportedKeepsInv
  <2> QED
    BY <2>1, <2>3, <2>4 DEF Hub!SendReport
<1>3. CASE Hub!Scanned
  <2>1. scanning # None /\ scanning' = None /\ Hub!Reported(scanning, 0)
    BY <1>3 DEF Hub!Scanned
  <2>2. scanning \in Hub!DeviceId /\ 0 \in 0..MaxTokens
    BY <1>1, <2>1 DEF HubInv, Hub!TypeOK
  <2>3. ~lost => file.devices[scanning] # None
    BY <2>2 DEF HubInv, ReportsInv, DeviceReports
  <2> QED
    BY <2>1, <2>2, <2>3, ReportedKeepsInv
<1> QED
  BY <1>2, <1>3

LEMMA UpsertKeepsInv ==
  ASSUME HubInv, NEW r \in reports, Hub!UpsertProviderSnapshot(r)
  PROVE  HubInv'
<1>1. /\ up /\ hub = file /\ file' = hub' /\ HubInv /\ file.devices[r.device] # None
      /\ hub' = [file EXCEPT !.devices[r.device].providers = r.number]
      /\ reports' = reports \ {r}
      /\ UNCHANGED <<codes, holds, tokens, registered, uses, mixed, up, socket, scanning,
                     numbers, crashes, reported, missed, lost>>
  BY DEF Hub!UpsertProviderSnapshot, Hub!Registering, HubInv, HubFileInv
<1>2. /\ r.device \in Hub!DeviceId /\ r.number \in 0..MaxReports
      /\ file \in Hub!Registry /\ MaxReports \in Nat
  BY <1>1, HubAssumption DEF HubInv, Hub!TypeOK, Hub!Report, Hub!AgentHubAssumption
<1> DEFINE row == [file.devices[r.device] EXCEPT !.providers = r.number]
<1>3. /\ file.devices \in [Hub!DeviceId -> Hub!Device \cup {None}]
      /\ file.devices[r.device] \in Hub!Device
  BY <1>1, <1>2 DEF Hub!Registry
<1>4. /\ row \in Hub!Device /\ row # None /\ row.account = file.devices[r.device].account
      /\ row.machine = file.devices[r.device].machine /\ row.providers = r.number
  BY <1>2, <1>3, HubAssumption DEF Hub!Device, Hub!AgentHubAssumption
<1>5. hub'.devices = [file.devices EXCEPT ![r.device] = row] /\ hub'.tokens = file.tokens
  BY <1>1, <1>2 DEF Hub!Registry
<1>6. /\ file'.devices \in [Hub!DeviceId -> Hub!Device \cup {None}]
      /\ file'.devices[r.device] = row
      /\ \A d \in Hub!DeviceId : d # r.device => file'.devices[d] = file.devices[d]
      /\ file'.tokens = file.tokens
  BY <1>1, <1>2, <1>3, <1>4, <1>5
<1>7. file' \in Hub!Registry /\ hub' \in Hub!Registry
  <2>1. hub' = [devices |-> hub'.devices, tokens |-> hub'.tokens]
    BY <1>1, <1>2 DEF Hub!Registry
  <2>2. file.tokens \subseteq Hub!Token
    BY <1>2 DEF Hub!Registry
  <2> QED
    BY <1>1, <1>6, <2>1, <2>2 DEF Hub!Registry
<1>8. Hub!TypeOK' /\ HubFileInv' /\ HeldInv' /\ PairsOnceInv'
  <2>1. Hub!TypeOK'
    BY <1>1, <1>7 DEF HubInv, Hub!TypeOK
  <2> QED
    BY <1>1, <1>6, <2>1 DEF HubInv, HubFileInv, HeldInv, PairsOnceInv
<1>9. MachineInv(file)' /\ EachInv(file)'
  <2>1. MachineInv(file) /\ EachInv(file)
    BY <1>1 DEF HubInv
  <2>2. \A d \in Hub!DeviceId :
          /\ file'.devices[d] # None <=> file.devices[d] # None
          /\ file'.devices[d] # None => /\ file'.devices[d].machine = file.devices[d].machine
                                       /\ file'.devices[d].account = file.devices[d].account
    BY <1>1, <1>4, <1>6
  <2>3. \A t \in file.tokens : t.device \in Hub!DeviceId
    BY <1>2 DEF Hub!Registry, Hub!Token
  <2>4. MachineInv(file)'
    BY <1>6, <2>1, <2>2, <2>3 DEF MachineInv
  <2>5. EachInv(file)'
    BY <1>1, <2>1, <2>2 DEF EachInv
  <2> QED
    BY <2>4, <2>5
<1>10. ReportsInv'
  <2> SUFFICES ASSUME ~lost, NEW d \in Hub!DeviceId PROVE DeviceReports(d)'
    BY <1>1 DEF ReportsInv
  <2>1. DeviceReports(d)
    BY <1>1 DEF HubInv, ReportsInv
  <2>2. CASE d = r.device
    <3>1. r \in Hub!UnderWay(d)
      BY <2>2 DEF Hub!UnderWay
    <3>2. ASSUME d \notin missed
          PROVE  Hub!UnderWay(d)' = {} /\ file'.devices[d].providers = reported[d]
      <4>1. PICK s \in reports : Hub!UnderWay(d) = {s} /\ s.number = reported[d]
        BY <1>1, <2>1, <2>2, <3>1, <3>2 DEF DeviceReports
      <4>2. s = r
        BY <3>1, <4>1
      <4>3. Hub!UnderWay(d)' = {}
        BY <1>1, <4>1, <4>2 DEF Hub!UnderWay
      <4> QED
        BY <1>4, <1>6, <2>2, <4>1, <4>2, <4>3
    <3>3. file'.devices[d] # None
      BY <1>4, <1>6, <2>2
    <3> QED
      BY <1>1, <3>2, <3>3 DEF DeviceReports
  <2>3. CASE d # r.device
    <3>1. /\ Hub!UnderWay(d)' = Hub!UnderWay(d) /\ file'.devices[d] = file.devices[d]
          /\ \A s \in Hub!UnderWay(d) : s \in reports'
      BY <1>1, <1>6, <2>3 DEF Hub!UnderWay
    <3> QED
      BY <1>1, <2>1, <3>1 DEF DeviceReports
  <2> QED
    BY <2>2, <2>3
<1> QED
  BY <1>8, <1>9, <1>10 DEF HubInv

\* Fewer reports are under way, and what went missing is known to have.
LEMMA FewerReports ==
  ASSUME HubInv, UNCHANGED <<file, reported, lost>>,
         reports' \subseteq reports, missed \subseteq missed',
         \A r \in reports \ reports' : r.device \in missed',
         \A m \in Machines : socket'[m] \in {socket[m], None},
         scanning' \in {scanning, None}
  PROVE  ReportsInv'
<1> SUFFICES ASSUME ~lost, NEW d \in Hub!DeviceId PROVE DeviceReports(d)'
  BY DEF ReportsInv
<1>1. DeviceReports(d)
  BY DEF HubInv, ReportsInv
<1>2. None \notin Hub!DeviceId
  BY HubAssumption DEF Hub!AgentHubAssumption, Hub!DeviceId
<1>3. CASE file.devices[d] = None
  <2>1. Hub!UnderWay(d)' = {}
    BY <1>1, <1>3 DEF DeviceReports, Hub!UnderWay
  <2> QED
    BY <1>1, <1>2, <1>3, <2>1 DEF DeviceReports
<1>4. CASE file.devices[d] # None
  <2> SUFFICES ASSUME d \notin missed'
               PROVE  \/ Hub!UnderWay(d)' = {} /\ file.devices[d].providers = reported[d]
                      \/ \E r \in reports' : Hub!UnderWay(d)' = {r} /\ r.number = reported[d]
    BY <1>4 DEF DeviceReports
  <2>1. Hub!UnderWay(d)' = Hub!UnderWay(d) /\ d \notin missed
    BY DEF Hub!UnderWay
  <2>2. \A r \in Hub!UnderWay(d) : r \in reports'
    BY DEF Hub!UnderWay
  <2> QED
    BY <1>1, <1>4, <2>1, <2>2 DEF DeviceReports
<1> QED
  BY <1>3, <1>4

LEMMA DroppedKeepsInv ==
  ASSUME HubInv, NEW r \in reports, Hub!Dropped(r)
  PROVE  HubInv'
<1>1. /\ reports' = reports \ {r} /\ missed' = missed \cup {r.device} /\ HubInv
      /\ UNCHANGED <<codes, holds, tokens, registered, uses, mixed, up, hub, file, socket,
                     scanning, numbers, crashes, reported, lost>>
  BY DEF Hub!Dropped, Hub!Registering
<1>2. r.device \in Hub!DeviceId
  BY DEF HubInv, Hub!TypeOK, Hub!Report
<1>3. Hub!TypeOK' /\ PairsOnceInv'
  BY <1>1, <1>2 DEF HubInv, Hub!TypeOK, PairsOnceInv
<1>4. ReportsInv'
  BY <1>1, FewerReports
<1> QED
  BY <1>1, <1>3, <1>4, RegistryStays DEF HubInv

LEMMA StartKeepsInv ==
  ASSUME HubInv, Hub!Start
  PROVE  HubInv'
<1>1. /\ up' = TRUE /\ hub' = file /\ HubInv
      /\ UNCHANGED <<codes, holds, tokens, registered, uses, mixed, file, socket, scanning,
                     reports, numbers, crashes, reported, missed, lost>>
  BY DEF Hub!Start, Hub!Registering
<1>2. Hub!TypeOK' /\ HubFileInv' /\ MachineInv(file)' /\ EachInv(file)' /\ HeldInv'
  BY <1>1 DEF HubInv, Hub!TypeOK, HubFileInv, MachineInv, EachInv, HeldInv
<1>3. PairsOnceInv' /\ ReportsInv'
  <2>1. UNCHANGED <<file, reported, lost, reports, missed, socket, scanning>>
    BY <1>1
  <2> QED
    BY <1>1, <2>1 DEF HubInv, PairsOnceInv, ReportsInv, DeviceReports, Hub!UnderWay
<1> QED
  BY <1>2, <1>3 DEF HubInv

LEMMA CrashKeepsInv ==
  ASSUME HubInv, Hub!Crash
  PROVE  HubInv'
<1> DEFINE gone == {r \in reports : r.token = 0}
<1>1. /\ up' = FALSE /\ hub' = Hub!Empty /\ HubInv
      /\ crashes < MaxHubCrashes /\ crashes' = crashes + 1
      /\ \/ UNCHANGED <<file, lost>>
         \/ file' = Hub!Empty /\ lost' = TRUE
      /\ codes' = [c \in HubCodes |->
           IF codes[c].state = "open" THEN [codes[c] EXCEPT !.state = "dead"] ELSE codes[c]]
      /\ socket' = [m \in Machines |-> None] /\ scanning' = None
      /\ reports' = reports \ gone
      /\ missed' = missed \cup {r.device : r \in gone}
      /\ UNCHANGED <<holds, tokens, registered, uses, mixed, numbers, reported>>
  BY DEF Hub!Crash
<1>2. codes' \in [HubCodes -> Hub!Code]
      /\ \A c \in HubCodes : codes'[c].state # "dead" => codes[c].state # "dead"
  <2>1. codes \in [HubCodes -> Hub!Code]
    BY <1>1 DEF HubInv, Hub!TypeOK
  <2>2. \A c \in HubCodes : [codes[c] EXCEPT !.state = "dead"] \in Hub!Code
                            /\ [codes[c] EXCEPT !.state = "dead"].state = "dead"
    BY <2>1 DEF Hub!Code
  <2> QED
    BY <1>1, <2>1, <2>2
<1>3. crashes' \in 0..MaxHubCrashes
  BY <1>1, HubAssumption DEF HubInv, Hub!TypeOK, Hub!AgentHubAssumption
<1>4. missed' \subseteq Hub!DeviceId
  <2>1. \A r \in reports : r.device \in Hub!DeviceId
    BY <1>1 DEF HubInv, Hub!TypeOK, Hub!Report
  <2> QED
    BY <1>1, <2>1 DEF HubInv, Hub!TypeOK
<1>5. file' \in Hub!Registry /\ MachineInv(file)' /\ EachInv(file)' /\ HeldInv'
  <2>1. CASE UNCHANGED <<file, lost>>
    BY <1>1, <2>1 DEF HubInv, Hub!TypeOK, MachineInv, EachInv, HeldInv
  <2>2. CASE file' = Hub!Empty /\ lost' = TRUE
    BY <1>1, <2>2, EmptyFacts DEF MachineInv, EachInv, HeldInv
  <2> QED
    BY <1>1, <2>1, <2>2
<1>6. Hub!TypeOK'
  <2>1. socket' \in [Machines -> Hub!DeviceId \cup {None}]
    BY <1>1
  <2>2. lost' \in BOOLEAN /\ reports' \subseteq Hub!Report /\ up' \in BOOLEAN
    BY <1>1 DEF HubInv, Hub!TypeOK
  <2> QED
    BY <1>1, <1>2, <1>3, <1>4, <1>5, <2>1, <2>2, EmptyFacts DEF HubInv, Hub!TypeOK
<1>7. HubFileInv'
  BY <1>1 DEF HubFileInv
<1>8. PairsOnceInv'
  BY <1>1, <1>2 DEF HubInv, PairsOnceInv
<1>9. ReportsInv'
  <2>1. CASE UNCHANGED <<file, lost>>
    <3>1. /\ UNCHANGED <<file, reported, lost>> /\ reports' \subseteq reports
          /\ missed \subseteq missed' /\ \A r \in reports \ reports' : r.device \in missed'
          /\ \A m \in Machines : socket'[m] \in {socket[m], None}
          /\ scanning' \in {scanning, None}
      BY <1>1, <2>1
    <3> QED
      BY <1>1, <3>1, FewerReports
  <2>2. CASE file' = Hub!Empty /\ lost' = TRUE
    BY <2>2 DEF ReportsInv
  <2> QED
    BY <1>1, <2>1, <2>2
<1> QED
  BY <1>5, <1>6, <1>7, <1>8, <1>9 DEF HubInv

LEMMA CodesKeepInv ==
  ASSUME HubInv, NEW c \in HubCodes, Hub!CreatePairingCode(c) \/ Hub!Expire(c)
  PROVE  HubInv'
<1>1. /\ UNCHANGED <<up, hub, file, holds, socket, scanning, reports, tokens, numbers, registered,
                     crashes, reported, missed, uses, mixed, lost>>
      /\ HubInv
  BY DEF Hub!CreatePairingCode, Hub!Expire
<1>2. PICK row \in Hub!Code : codes' = [codes EXCEPT ![c] = row]
  <2>1. CASE Hub!CreatePairingCode(c)
    <3>1. PICK account \in Accounts :
               codes' = [codes EXCEPT ![c] = [state |-> "open", account |-> account]]
      BY <2>1 DEF Hub!CreatePairingCode
    <3>2. [state |-> "open", account |-> account] \in Hub!Code
      BY DEF Hub!Code
    <3> QED
      BY <3>1, <3>2
  <2>2. CASE Hub!Expire(c)
    <3>1. codes' = [codes EXCEPT ![c] = [codes[c] EXCEPT !.state = "dead"]]
      BY <1>1, <2>2 DEF Hub!Expire, HubInv, Hub!TypeOK
    <3>2. [codes[c] EXCEPT !.state = "dead"] \in Hub!Code
      BY <1>1 DEF HubInv, Hub!TypeOK, Hub!Code
    <3> QED
      BY <3>1, <3>2
  <2> QED
    BY <2>1, <2>2
<1>3. codes[c].state # "dead"
  BY DEF Hub!CreatePairingCode, Hub!Expire
<1>4. codes' \in [HubCodes -> Hub!Code] /\ \A k \in HubCodes : k # c => codes'[k] = codes[k]
  BY <1>1, <1>2 DEF HubInv, Hub!TypeOK
<1>5. Hub!TypeOK' /\ PairsOnceInv'
  BY <1>1, <1>3, <1>4 DEF HubInv, Hub!TypeOK, PairsOnceInv
<1>6. ReportsInv'
  BY <1>1 DEF HubInv, ReportsInv, DeviceReports, Hub!UnderWay
<1> QED
  BY <1>1, <1>5, <1>6, RegistryStays DEF HubInv

LEMMA NextHubInv ==
  ASSUME HubInv, Hub!Next PROVE HubInv'
<1>1. CASE (\E m \in Machines : Hub!Register(m)) \/ Hub!Scan
  BY <1>1, RegistersKeepInv
<1>2. CASE (\E m \in Machines : Hub!SendReport(m)) \/ Hub!Scanned
  BY <1>2, ReportsKeepInv
<1>3. CASE \E r \in reports : Hub!UpsertProviderSnapshot(r) \/ Hub!Dropped(r)
  BY <1>3, UpsertKeepsInv, DroppedKeepsInv
<1>4. CASE Hub!Start \/ Hub!Crash
  BY <1>4, StartKeepsInv, CrashKeepsInv
<1>5. CASE \E c \in HubCodes : Hub!CreatePairingCode(c) \/ Hub!Expire(c)
  BY <1>5, CodesKeepInv
<1> QED
  BY <1>1, <1>2, <1>3, <1>4, <1>5 DEF Hub!Next

LEMMA HubInvariance == SafetySpec => []HubInv
<1>1. SafetyInit => HubInv
  BY InitHubInv DEF SafetyInit
<1>2. HubInv /\ [SafetyNext]_safetyVars => HubInv'
  <2> SUFFICES ASSUME HubInv, [SafetyNext]_safetyVars PROVE HubInv'
    OBVIOUS
  <2>1. Hub!Next \/ UNCHANGED hubVars
    BY DEF SafetyNext, safetyVars
  <2>2. CASE UNCHANGED hubVars
    <3>1. HubInv /\ UNCHANGED hubVars
      BY <2>2
    <3>2. Hub!TypeOK' /\ PairsOnceInv'
      BY <3>1 DEF hubVars, HubInv, Hub!TypeOK, PairsOnceInv
    <3>3. ReportsInv'
      BY <3>1 DEF hubVars, HubInv, ReportsInv, DeviceReports, Hub!UnderWay
    <3> QED
      BY <3>1, <3>2, <3>3, RegistryStays DEF hubVars, HubInv
  <2> QED
    BY <2>1, <2>2, NextHubInv
<1> QED
  BY <1>1, <1>2, PTL DEF SafetySpec

LEMMA HubIsKnown ==
  HubInv => Hub!OneDeviceEach /\ Hub!TokensAreKept /\ Hub!CodesPairOnce /\ Hub!ReportsArrive
<1> SUFFICES ASSUME HubInv
             PROVE  /\ Hub!OneDeviceEach /\ Hub!TokensAreKept
                    /\ Hub!CodesPairOnce /\ Hub!ReportsArrive
  OBVIOUS
<1>1. ASSUME up
      PROVE  hub = file /\ hub \in Hub!Registry
  BY <1>1 DEF HubInv, HubFileInv, Hub!TypeOK
<1>2. Hub!OneDeviceEach
  <2>1. CASE up
    BY <1>1, <2>1 DEF HubInv, MachineInv, EachInv, Hub!OneDeviceEach, Hub!Known
  <2>2. CASE ~up
    BY <2>2, EmptyFacts DEF HubInv, HubFileInv, Hub!OneDeviceEach, Hub!Known
  <2> QED
    BY <2>1, <2>2
<1>3. Hub!TokensAreKept
  <2> SUFFICES ASSUME up, ~lost, NEW m \in Machines, NEW i \in holds[m]
               PROVE  \E t \in hub.tokens :
                        t.id = i /\ t.machine = m /\ t.device \in Hub!Known
    BY DEF Hub!TokensAreKept
  <2>1. PICK t \in file.tokens : t.id = i /\ t.machine = m
    BY DEF HubInv, HeldInv
  <2>2. t.device \in Hub!DeviceId /\ file.devices[t.device] # None
    BY <1>1 DEF HubInv, MachineInv, Hub!Registry, Hub!Token
  <2> QED
    BY <1>1, <2>1, <2>2 DEF Hub!Known
<1>4. Hub!CodesPairOnce
  BY DEF HubInv, PairsOnceInv, Hub!CodesPairOnce
<1>5. Hub!ReportsArrive
  BY <1>1 DEF HubInv, ReportsInv, DeviceReports, Hub!ReportsArrive, Hub!Known
<1> QED
  BY <1>2, <1>3, <1>4, <1>5

\* While no call of the desktop application runs into another, the node that it
\* started is the one it knows and ends with it; a rebuild that is told to have
\* succeeded leaves no older process.  The backend in development has one device of
\* each machine that names one account, with every token that it was answered and
\* the last providers it reported, and a pairing code registers once.
THEOREM NodesStayKnown == SafetySpec => []NodesAreKnown
<1>1. NodeInv /\ HubInv => NodesAreKnown
  BY NodeIsKnown, HubIsKnown DEF NodesAreKnown
<1> QED
  BY <1>1, NodeInvariance, HubInvariance, PTL

----------------------------------------------------------------------------
(* The wizard that pairs a device (PairingWizard) *)

\* The one device that claimed a code
ClaimedBy(c, d) == c \in reclaimed \/ atRelay[c].device = d

\* What was answered of a code is no further than the code is, and names the device
\* that claimed it.
StatusOk(p) ==
  LET at == atRelay[p.code].state IN
  /\ p.status \in {"claimed", "approved"} =>
       p.device # None /\ ClaimedBy(p.code, p.device) /\ at \notin {"free", "created"}
  /\ p.status = "approved" => at \in {"approved", "expired"}

\* An approval names the device that claimed the code.
PollOk(r) ==
  /\ r.does # "create" => r.code \in WizardCodes
  /\ r.does = "approve" => r.seen # None /\ ClaimedBy(r.code, r.seen)
  /\ r.stage = "done" => r.answer # None /\ StatusOk(r.answer)

PollsInv == \A s \in Slots : \A r \in Wizard!Request : polls[s] = r /\ r # None => PollOk(r)

PairingInv ==
  \A p \in Wizard!Pairing : pairing = p /\ p # None => StatusOk(p) /\ named = p.device

\* A code that was approved has a device, and it is the one that was shown.
CodeInv ==
  \A c \in WizardCodes :
    /\ atRelay[c].state \in {"claimed", "approved"} => atRelay[c].device # None
    /\ atRelay[c].state = "approved" => atRelay[c].approver # None
    /\ atRelay[c].approver # None =>
         atRelay[c].device # None /\ ClaimedBy(c, atRelay[c].approver)

WizardInv == Wizard!TypeOK /\ PollsInv /\ PairingInv /\ CodeInv

LEMMA InitWizardInv == Wizard!Init => WizardInv
<1> SUFFICES ASSUME Wizard!Init PROVE WizardInv
  OBVIOUS
<1>1. Wizard!TypeOK
  <2>1. /\ atRelay \in [WizardCodes -> Wizard!Session] /\ rows \subseteq WizardDevices
        /\ pairing \in Wizard!Pairing \cup {None}
        /\ polls \in [Slots -> Wizard!Request \cup {None}]
    BY DEF Wizard!Init, Wizard!Session, Wizard!Maybe
  <2>2. asked \in 0..MaxAsks /\ errors \in 0..MaxErrors
    BY PairingAssumption DEF Wizard!Init, Wizard!WizardAssumption
  <2>3. /\ url \in Relays /\ named \in Wizard!Maybe /\ picked \in Wizard!Maybe
        /\ verified \in Wizard!Maybe /\ reclaimed \subseteq WizardCodes
        /\ open \in BOOLEAN /\ existing \in BOOLEAN
        /\ step \in {"platform", "pairing", "verify", "ready"}
    BY DEF Wizard!Init, Wizard!Maybe
  <2> QED
    BY <2>1, <2>2, <2>3 DEF Wizard!TypeOK
<1>2. PairingInv /\ CodeInv /\ PollsInv
  BY DEF Wizard!Init, PairingInv, CodeInv, PollsInv
<1> QED
  BY <1>1, <1>2 DEF WizardInv

\* Requests of the page, while no code changes: what is asked is in order, and what
\* is forgotten or left is no more than it was.
LEMMA PollsStep ==
  ASSUME WizardInv, UNCHANGED <<atRelay, reclaimed>>,
         polls' \in [Slots -> Wizard!Request \cup {None}],
         \A s \in Slots :
           \/ polls'[s] \in {None, polls[s]}
           \/ \E r \in Wizard!Request : polls'[s] = r /\ PollOk(r)
           \/ /\ polls[s] # None
              /\ polls'[s] = [polls[s] EXCEPT !.gone = TRUE]
  PROVE  PollsInv' /\ CodeInv'
<1>1. CodeInv'
  BY DEF WizardInv, CodeInv, ClaimedBy
<1>2. \A r \in Wizard!Request : PollOk(r)' <=> PollOk(r)
  BY DEF PollOk, StatusOk, ClaimedBy
<1>3. \A r \in Wizard!Request :
        PollOk(r) => PollOk([r EXCEPT !.gone = TRUE])
  BY DEF PollOk, Wizard!Request
<1>4. PollsInv'
  <2> SUFFICES ASSUME NEW s \in Slots, NEW r \in Wizard!Request, polls'[s] = r, r # None
               PROVE  PollOk(r)
    BY <1>2 DEF PollsInv
  <2>1. polls[s] \in Wizard!Request \cup {None}
    BY DEF WizardInv, Wizard!TypeOK
  <2>2. polls[s] # None => PollOk(polls[s])
    BY <2>1 DEF WizardInv, PollsInv
  <2>3. polls[s] # None => PollOk([polls[s] EXCEPT !.gone = TRUE])
    BY <1>3, <2>1, <2>2
  <2> QED
    BY <2>2, <2>3
<1> QED
  BY <1>1, <1>4

\* A step of the page that asks nothing, but may forget polls
LEMMA QuietStep ==
  ASSUME WizardInv, UNCHANGED <<atRelay, reclaimed, errors>>,
         polls' \in {polls, Wizard!Uncancelled}, asked' \in 0..MaxAsks,
         url' \in Relays, rows' \subseteq WizardDevices,
         \/ UNCHANGED <<pairing, named>>
         \/ pairing' = None /\ named' \in {named, None},
         open' \in BOOLEAN, step' \in {"platform", "pairing", "verify", "ready"},
         existing' \in BOOLEAN, picked' \in Wizard!Maybe, verified' \in Wizard!Maybe
  PROVE  WizardInv'
<1>1. polls \in [Slots -> Wizard!Request \cup {None}]
  BY DEF WizardInv, Wizard!TypeOK
<1>2. /\ polls' \in [Slots -> Wizard!Request \cup {None}]
      /\ \A s \in Slots : polls'[s] \in {None, polls[s]}
  BY <1>1 DEF Wizard!Uncancelled
<1>3. PollsInv' /\ CodeInv'
  BY <1>2, PollsStep
<1>4. PairingInv'
  BY DEF WizardInv, PairingInv, StatusOk, ClaimedBy
<1>5. Wizard!TypeOK'
  BY <1>2 DEF WizardInv, Wizard!TypeOK, Wizard!Maybe
<1> QED
  BY <1>3, <1>4, <1>5 DEF WizardInv

LEMMA SelectedFacts ==
  ASSUME Wizard!TypeOK
  PROVE  /\ \A d \in rows : d \in WizardDevices
         /\ rows # {} => (CHOOSE d \in rows : TRUE) \in WizardDevices
BY DEF Wizard!TypeOK

LEMMA PageKeepsInv ==
  ASSUME WizardInv,
         \/ Wizard!OpenOrClose \/ Wizard!ChoosePlatform \/ Wizard!Ready \/ Wizard!ChangeRelay
         \/ Wizard!RefreshRelayDevices \/ Wizard!SelectFirst \/ Wizard!AfterApproval
         \/ \E d \in WizardDevices : Wizard!SelectExistingDevice(d)
  PROVE  WizardInv'
<1>1. /\ asked \in 0..MaxAsks /\ MaxAsks \in Nat /\ url \in Relays /\ rows \subseteq WizardDevices
      /\ open \in BOOLEAN /\ step \in {"platform", "pairing", "verify", "ready"}
      /\ existing \in BOOLEAN /\ picked \in Wizard!Maybe /\ verified \in Wizard!Maybe
      /\ WizardInv /\ WizardDevices \subseteq Wizard!Maybe
  BY PairingAssumption DEF WizardInv, Wizard!TypeOK, Wizard!WizardAssumption, Wizard!Maybe
<1>2. CASE Wizard!OpenOrClose
  <2>1. /\ UNCHANGED <<atRelay, reclaimed, errors, pairing, named>>
        /\ polls' = Wizard!Uncancelled /\ open' = ~open
        /\ UNCHANGED <<asked, url, rows, step, existing, picked, verified>>
    BY <1>2 DEF Wizard!OpenOrClose, Wizard!wizard
  <2> QED
    BY <1>1, <2>1, QuietStep
<1>3. CASE Wizard!ChoosePlatform
  <2>1. /\ UNCHANGED <<atRelay, reclaimed, errors, pairing, named>>
        /\ existing' = ~existing
        /\ UNCHANGED <<polls, asked, url, rows, open, step, picked, verified>>
    BY <1>3 DEF Wizard!ChoosePlatform
  <2> QED
    BY <1>1, <2>1, QuietStep
<1>4. CASE Wizard!Ready
  <2>1. /\ UNCHANGED <<atRelay, reclaimed, errors, pairing, named>>
        /\ step' = "ready"
        /\ UNCHANGED <<polls, asked, url, rows, open, existing, picked, verified>>
    BY <1>4 DEF Wizard!Ready
  <2> QED
    BY <1>1, <2>1, QuietStep
<1>5. CASE Wizard!ChangeRelay
  <2>1. /\ UNCHANGED <<atRelay, reclaimed, errors, named>> /\ pairing' = None
        /\ polls' = Wizard!Uncancelled /\ url' \in Relays /\ rows' = {}
        /\ asked < MaxAsks /\ asked' = asked + 1
        /\ UNCHANGED <<open, step, existing, picked, verified>>
    BY <1>5 DEF Wizard!ChangeRelay, Wizard!wizard, Wizard!Asks
  <2>2. asked' \in 0..MaxAsks
    BY <1>1, <2>1
  <2> QED
    BY <1>1, <2>1, <2>2, QuietStep
<1>6. CASE Wizard!RefreshRelayDevices
  <2>1. /\ UNCHANGED <<atRelay, reclaimed, errors, pairing, named>>
        /\ rows' = {atRelay[c].device : c \in {k \in WizardCodes : atRelay[k].at = url
                                                       /\ atRelay[k].approver # None}}
        /\ UNCHANGED <<polls, asked, url, open, step, existing, picked, verified>>
    BY <1>6 DEF Wizard!RefreshRelayDevices, Wizard!wizard
  <2>2. \A c \in WizardCodes : atRelay[c].approver # None => atRelay[c].device \in WizardDevices
    BY <1>1 DEF WizardInv, CodeInv, Wizard!TypeOK, Wizard!Session, Wizard!Maybe
  <2>3. rows' \subseteq WizardDevices
    BY <2>1, <2>2
  <2> QED
    BY <1>1, <2>1, <2>3, QuietStep
<1>7. CASE Wizard!SelectFirst
  <2>1. /\ UNCHANGED <<atRelay, reclaimed, errors, pairing, named>>
        /\ picked' = CHOOSE d \in rows : TRUE
        /\ rows # {}
        /\ UNCHANGED <<polls, asked, url, rows, open, step, existing, verified>>
    BY <1>7 DEF Wizard!SelectFirst
  <2>2. picked' \in Wizard!Maybe
    BY <1>1, <2>1, SelectedFacts DEF WizardInv
  <2> QED
    BY <1>1, <2>1, <2>2, QuietStep
<1>8. CASE Wizard!AfterApproval
  <2>1. /\ UNCHANGED <<atRelay, reclaimed, errors, pairing, named>>
        /\ pairing # None /\ verified' = pairing.device /\ picked' = pairing.device
        /\ step' = "verify"
        /\ UNCHANGED <<polls, asked, url, rows, open, existing>>
    BY <1>8 DEF Wizard!AfterApproval, Wizard!Approved
  <2>2. pairing.device \in Wizard!Maybe
    BY <1>1, <2>1 DEF WizardInv, Wizard!TypeOK, Wizard!Pairing
  <2> QED
    BY <1>1, <2>1, <2>2, QuietStep
<1>9. CASE \E d \in WizardDevices : Wizard!SelectExistingDevice(d)
  <2>1. PICK d \in WizardDevices : Wizard!SelectExistingDevice(d)
    BY <1>9
  <2>2. /\ UNCHANGED <<atRelay, reclaimed, errors, pairing, named>>
        /\ existing' = TRUE /\ picked' = d /\ step' = "verify"
        /\ UNCHANGED <<polls, asked, url, rows, open, verified>>
    BY <2>1 DEF Wizard!SelectExistingDevice
  <2> QED
    BY <1>1, <2>2, QuietStep
<1> QED
  BY <1>2, <1>3, <1>4, <1>5, <1>6, <1>7, <1>8, <1>9

LEMMA SentKeepsInv ==
  ASSUME WizardInv, NEW does \in {"create", "poll", "approve", "claim"},
         NEW code \in WizardCodes \cup {None}, NEW onScreen \in Wizard!Maybe,
         Wizard!Sent(does, code, onScreen),
         does # "create" => code \in WizardCodes,
         does = "approve" => onScreen # None /\ ClaimedBy(code, onScreen),
         UNCHANGED <<atRelay, reclaimed, errors, url, rows, pairing, named, open, existing, picked,
                     verified>>,
         asked' \in 0..MaxAsks, step' \in {"platform", "pairing", "verify", "ready"}
  PROVE  WizardInv'
<1> DEFINE r == [does |-> does, at |-> url, code |-> code, seen |-> onScreen, stage |-> "sent",
                 answer |-> None, gone |-> FALSE]
<1>1. PICK s \in Slots : polls' = [polls EXCEPT ![s] = r]
  BY DEF Wizard!Sent, Wizard!Free
<1>2. r \in Wizard!Request /\ PollOk(r)
  <2>1. url \in Relays
    BY DEF WizardInv, Wizard!TypeOK
  <2> QED
    BY <2>1 DEF Wizard!Request, PollOk
<1>3. /\ polls' \in [Slots -> Wizard!Request \cup {None}]
      /\ \A t \in Slots : polls'[t] \in {None, polls[t]}
                          \/ \E q \in Wizard!Request : polls'[t] = q /\ PollOk(q)
  <2>1. polls \in [Slots -> Wizard!Request \cup {None}]
    BY DEF WizardInv, Wizard!TypeOK
  <2> HIDE DEF r
  <2> QED
    BY <1>1, <1>2, <2>1
<1>4. PollsInv' /\ CodeInv'
  BY <1>3, PollsStep
<1>5. PairingInv'
  BY DEF WizardInv, PairingInv, StatusOk, ClaimedBy
<1>6. Wizard!TypeOK'
  BY <1>3 DEF WizardInv, Wizard!TypeOK
<1> QED
  BY <1>4, <1>5, <1>6 DEF WizardInv

LEMMA AsksKeepInv ==
  ASSUME WizardInv,
         Wizard!CreateCode \/ Wizard!Approve \/ Wizard!DevClaim \/ Wizard!Poll
  PROVE  WizardInv'
<1>1. /\ asked \in 0..MaxAsks /\ MaxAsks \in Nat /\ step \in {"platform", "pairing", "verify", "ready"}
      /\ pairing \in Wizard!Pairing \cup {None} /\ None \in Wizard!Maybe /\ WizardInv
  BY PairingAssumption DEF WizardInv, Wizard!TypeOK, Wizard!WizardAssumption, Wizard!Maybe
<1>2. CASE Wizard!CreateCode
  <2>1. /\ UNCHANGED <<atRelay, reclaimed, errors, url, rows, pairing, named, open, existing, picked,
                       verified>>
        /\ asked < MaxAsks /\ asked' = asked + 1 /\ step' = "pairing"
        /\ Wizard!Sent("create", None, None)
    BY <1>2 DEF Wizard!CreateCode, Wizard!Asks
  <2>2. asked' \in 0..MaxAsks
    BY <1>1, <2>1
  <2> QED
    BY <1>1, <2>1, <2>2, SentKeepsInv
<1>3. CASE Wizard!Approve
  <2>1. /\ UNCHANGED <<atRelay, reclaimed, errors, url, rows, pairing, named, open, existing, picked,
                       verified, step>>
        /\ asked < MaxAsks /\ asked' = asked + 1
        /\ pairing # None /\ pairing.status = "claimed"
        /\ Wizard!Sent("approve", pairing.code, named)
    BY <1>3 DEF Wizard!Approve, Wizard!Asks, Wizard!CanApprove, Wizard!page, Wizard!wizard
  <2>2. asked' \in 0..MaxAsks
    BY <1>1, <2>1
  <2>3. /\ pairing.code \in WizardCodes /\ named \in Wizard!Maybe
        /\ named # None /\ ClaimedBy(pairing.code, named)
    BY <1>1, <2>1 DEF WizardInv, PairingInv, StatusOk, Wizard!Pairing
  <2> QED
    BY <1>1, <2>1, <2>2, <2>3, SentKeepsInv
<1>4. CASE Wizard!DevClaim
  <2>1. /\ UNCHANGED <<atRelay, reclaimed, errors, url, rows, pairing, named, open, existing, picked,
                       verified, step>>
        /\ asked < MaxAsks /\ asked' = asked + 1 /\ pairing # None
        /\ Wizard!Sent("claim", pairing.code, None)
    BY <1>4 DEF Wizard!DevClaim, Wizard!Asks, Wizard!page, Wizard!wizard
  <2>2. asked' \in 0..MaxAsks /\ pairing.code \in WizardCodes
    BY <1>1, <2>1 DEF Wizard!Pairing
  <2> QED
    BY <1>1, <2>1, <2>2, SentKeepsInv
<1>5. CASE Wizard!Poll
  <2>1. /\ UNCHANGED <<atRelay, reclaimed, errors, url, rows, pairing, named, open, existing, picked,
                       verified, step, asked>>
        /\ pairing # None
        /\ Wizard!Sent("poll", pairing.code, None)
    BY <1>5 DEF Wizard!Poll, Wizard!page, Wizard!wizard
  <2>2. pairing.code \in WizardCodes
    BY <1>1, <2>1 DEF Wizard!Pairing
  <2> QED
    BY <1>1, <2>1, <2>2, SentKeepsInv
<1> QED
  BY <1>2, <1>3, <1>4, <1>5

LEMMA AnswersKeepInv ==
  ASSUME WizardInv,
         \/ Wizard!Leave
         \/ \E s \in Slots : Wizard!Fail(s) \/ Wizard!Answered(s) \/ Wizard!NotHeard(s)
  PROVE  WizardInv'
<1>1. /\ polls \in [Slots -> Wizard!Request \cup {None}] /\ WizardInv
      /\ None \in Wizard!Maybe
  BY DEF WizardInv, Wizard!TypeOK, Wizard!Maybe
<1>2. CASE Wizard!Leave
  <2>1. /\ UNCHANGED <<atRelay, reclaimed, errors, url, rows, asked>>
        /\ pairing' = None /\ named' = None /\ open' = FALSE
        /\ step' = "platform" /\ existing' = FALSE /\ picked' = None /\ verified' = None
        /\ polls' = [s \in Slots |-> IF Wizard!Uncancelled[s] = None THEN None
                                     ELSE [polls[s] EXCEPT !.gone = TRUE]]
    BY <1>2 DEF Wizard!Leave
  <2>2. \A s \in Slots : Wizard!Uncancelled[s] \in {None, polls[s]}
    BY DEF Wizard!Uncancelled
  <2>3. \A r \in Wizard!Request : [r EXCEPT !.gone = TRUE] \in Wizard!Request
    BY DEF Wizard!Request
  <2>4. \A s \in Slots : \/ polls'[s] = None
                         \/ polls[s] # None /\ polls'[s] = [polls[s] EXCEPT !.gone = TRUE]
    BY <2>1, <2>2
  <2>5. polls' \in [Slots -> Wizard!Request \cup {None}]
    BY <1>1, <2>1, <2>3, <2>4
  <2>6. PollsInv' /\ CodeInv'
    BY <1>1, <2>1, <2>4, <2>5, PollsStep
  <2>7. PairingInv'
    BY <2>1 DEF PairingInv
  <2>8. Wizard!TypeOK'
    BY <1>1, <2>1, <2>5 DEF WizardInv, Wizard!TypeOK
  <2> QED
    BY <2>6, <2>7, <2>8 DEF WizardInv
<1>3. ASSUME NEW s \in Slots, Wizard!Fail(s) PROVE WizardInv'
  <2>1. /\ UNCHANGED <<atRelay, reclaimed, asked, url, rows, pairing, named, open, step, existing,
                       picked, verified>>
        /\ polls[s] # None /\ errors < MaxErrors /\ errors' = errors + 1
        /\ polls' = [polls EXCEPT ![s].stage = "failed"]
    BY <1>3 DEF Wizard!Fail, Wizard!page, Wizard!wizard
  <2>2. /\ [polls[s] EXCEPT !.stage = "failed"] \in Wizard!Request
        /\ PollOk([polls[s] EXCEPT !.stage = "failed"])
    <3>1. polls[s] \in Wizard!Request /\ PollOk(polls[s])
      BY <1>1, <2>1 DEF WizardInv, PollsInv
    <3> QED
      BY <3>1 DEF Wizard!Request, PollOk
  <2>3. PICK r \in Wizard!Request : polls' = [polls EXCEPT ![s] = r] /\ PollOk(r)
    BY <1>1, <2>1, <2>2
  <2>4. polls' \in [Slots -> Wizard!Request \cup {None}]
    BY <1>1, <2>3
  <2>5. PollsInv' /\ CodeInv'
    BY <1>1, <2>1, <2>3, <2>4, PollsStep
  <2>6. PairingInv'
    BY <1>1, <2>1 DEF WizardInv, PairingInv, StatusOk, ClaimedBy
  <2>7. errors' \in 0..MaxErrors
    BY <1>1, <2>1, PairingAssumption DEF WizardInv, Wizard!TypeOK, Wizard!WizardAssumption
  <2>8. Wizard!TypeOK'
    BY <1>1, <2>1, <2>4, <2>7 DEF WizardInv, Wizard!TypeOK
  <2> QED
    BY <2>5, <2>6, <2>8 DEF WizardInv
<1>4. ASSUME NEW s \in Slots, Wizard!Answered(s) PROVE WizardInv'
  <2>1. PICK left \in {polls, Wizard!Uncancelled} :
             /\ polls[s] # None /\ polls[s].stage = "done"
             /\ pairing' = polls[s].answer /\ named' = polls[s].answer.device
             /\ polls' = [left EXCEPT ![s] = None]
             /\ UNCHANGED <<atRelay, url, rows, open, step, existing, picked, verified, asked, errors,
                            reclaimed>>
    BY <1>4 DEF Wizard!Answered, Wizard!NameOf, Wizard!wizard
  <2>2. /\ left \in [Slots -> Wizard!Request \cup {None}]
        /\ \A t \in Slots : left[t] \in {None, polls[t]}
    BY <1>1 DEF Wizard!Uncancelled
  <2>3. /\ polls' \in [Slots -> Wizard!Request \cup {None}]
        /\ \A t \in Slots : polls'[t] \in {None, polls[t]}
    BY <2>1, <2>2
  <2>4. PollsInv' /\ CodeInv'
    BY <1>1, <2>1, <2>3, PollsStep
  <2>5. /\ polls[s].answer \in Wizard!Pairing \cup {None}
        /\ polls[s].answer # None /\ StatusOk(polls[s].answer)
    BY <1>1, <2>1 DEF WizardInv, PollsInv, PollOk, Wizard!Request
  <2>6. PICK p \in Wizard!Pairing : p = polls[s].answer /\ StatusOk(p)
    BY <2>5
  <2>7. PairingInv'
    BY <2>1, <2>6 DEF PairingInv, StatusOk, ClaimedBy
  <2>8. pairing' \in Wizard!Pairing /\ named' \in Wizard!Maybe
    BY <2>1, <2>6 DEF Wizard!Pairing
  <2>9. Wizard!TypeOK'
    BY <1>1, <2>1, <2>3, <2>8 DEF WizardInv, Wizard!TypeOK
  <2> QED
    BY <2>4, <2>7, <2>9 DEF WizardInv
<1>5. ASSUME NEW s \in Slots, Wizard!NotHeard(s) PROVE WizardInv'
  <2>1. /\ UNCHANGED <<atRelay, reclaimed, asked, errors, url, rows, pairing, named, open, step,
                       existing, picked, verified>>
        /\ polls' = [polls EXCEPT ![s] = None]
    BY <1>5 DEF Wizard!NotHeard, Wizard!page, Wizard!wizard
  <2>2. /\ polls' \in [Slots -> Wizard!Request \cup {None}]
        /\ \A t \in Slots : polls'[t] \in {None, polls[t]}
    BY <1>1, <2>1
  <2>3. PollsInv' /\ CodeInv'
    BY <1>1, <2>1, <2>2, PollsStep
  <2>4. PairingInv'
    BY <1>1, <2>1 DEF WizardInv, PairingInv, StatusOk, ClaimedBy
  <2>5. Wizard!TypeOK'
    BY <1>1, <2>1, <2>2 DEF WizardInv, Wizard!TypeOK
  <2> QED
    BY <2>3, <2>4, <2>5 DEF WizardInv
<1> QED
  BY <1>2, <1>3, <1>4, <1>5

\* A code goes on, and keeps the one device that claimed it.
Onward(c) ==
  /\ c \in reclaimed => c \in reclaimed'
  /\ atRelay[c].state \notin {"free", "created"} => atRelay'[c].state \notin {"free", "created"}
  /\ atRelay[c].state \in {"approved", "expired"} => atRelay'[c].state \in {"approved", "expired"}
  /\ atRelay[c].device # None =>
       atRelay'[c].device = atRelay[c].device \/ c \in reclaimed'

LEMMA OnwardFacts ==
  ASSUME WizardInv, \A c \in WizardCodes : Onward(c)
  PROVE  /\ \A p \in Wizard!Pairing : StatusOk(p) => StatusOk(p)'
         /\ \A c \in WizardCodes, d \in WizardDevices : ClaimedBy(c, d) => ClaimedBy(c, d)'
<1>1. \A c \in WizardCodes, d \in WizardDevices : ClaimedBy(c, d) => ClaimedBy(c, d)'
  BY PairingAssumption DEF ClaimedBy, Onward, Wizard!WizardAssumption
<1>2. ASSUME NEW p \in Wizard!Pairing, StatusOk(p) PROVE StatusOk(p)'
  <2>1. p.code \in WizardCodes /\ p.device \in WizardDevices \cup {None}
    BY DEF Wizard!Pairing, Wizard!Maybe
  <2>2. p.device # None /\ ClaimedBy(p.code, p.device) => ClaimedBy(p.code, p.device)'
    BY <1>1, <2>1
  <2> QED
    BY <1>2, <2>1, <2>2 DEF StatusOk, Onward
<1> QED
  BY <1>1, <1>2

\* A step of one code, which may be answered
LEMMA CodeStep ==
  ASSUME WizardInv, NEW c \in WizardCodes, NEW new \in Wizard!Session,
         atRelay' = [atRelay EXCEPT ![c] = new],
         reclaimed' \in {reclaimed, reclaimed \cup {c}},
         Onward(c),
         /\ new.state \in {"claimed", "approved"} => new.device # None
         /\ new.state = "approved" => new.approver # None
         /\ new.approver # None => new.device # None /\ (c \in reclaimed' \/ new.device = new.approver),
         polls' \in [Slots -> Wizard!Request \cup {None}],
         \A s \in Slots : \/ polls'[s] = polls[s]
                          \/ \E r \in Wizard!Request : polls'[s] = r /\ PollOk(r)',
         UNCHANGED <<url, rows, pairing, named, open, step, existing, picked, verified, asked,
                     errors>>
  PROVE  WizardInv'
<1>1. /\ atRelay' \in [WizardCodes -> Wizard!Session] /\ atRelay'[c] = new
      /\ \A k \in WizardCodes : k # c => atRelay'[k] = atRelay[k]
  BY DEF WizardInv, Wizard!TypeOK
<1>2. \A k \in WizardCodes : Onward(k)
  BY <1>1 DEF Onward
<1>3. PairingInv'
  BY <1>2, OnwardFacts DEF WizardInv, PairingInv
<1>4. CodeInv'
  <2> SUFFICES ASSUME NEW k \in WizardCodes
               PROVE  /\ atRelay'[k].state \in {"claimed", "approved"} => atRelay'[k].device # None
                      /\ atRelay'[k].state = "approved" => atRelay'[k].approver # None
                      /\ atRelay'[k].approver # None =>
                           /\ atRelay'[k].device # None
                           /\ k \in reclaimed' \/ atRelay'[k].device = atRelay'[k].approver
    BY DEF CodeInv, ClaimedBy
  <2>1. CASE k = c
    BY <1>1, <2>1
  <2>2. CASE k # c
    BY <1>1, <2>2 DEF WizardInv, CodeInv, ClaimedBy
  <2> QED
    BY <2>1, <2>2
<1>5. PollsInv'
  <2> SUFFICES ASSUME NEW s \in Slots, NEW r \in Wizard!Request, polls'[s] = r, r # None,
                      polls[s] = r
               PROVE  PollOk(r)'
    BY DEF PollsInv
  <2>1. PollOk(r)
    BY DEF WizardInv, PollsInv
  <2>2. r.seen # None => r.seen \in WizardDevices
    BY DEF Wizard!Request, Wizard!Maybe
  <2>3. r.answer # None => r.answer \in Wizard!Pairing
    BY DEF Wizard!Request
  <2>4. /\ r.does = "approve" => ClaimedBy(r.code, r.seen)'
        /\ r.stage = "done" => StatusOk(r.answer)'
    BY <1>2, <2>1, <2>2, <2>3, OnwardFacts DEF PollOk
  <2> QED
    BY <2>1, <2>4 DEF PollOk
<1>6. Wizard!TypeOK'
  BY <1>1 DEF WizardInv, Wizard!TypeOK
<1> QED
  BY <1>3, <1>4, <1>5, <1>6 DEF WizardInv

LEMMA CodesMoveOn ==
  ASSUME WizardInv, NEW c \in WizardCodes,
         Wizard!Expire(c) \/ \E d \in WizardDevices : Wizard!NodeClaims(c, d)
  PROVE  WizardInv'
<1>1. /\ atRelay \in [WizardCodes -> Wizard!Session] /\ atRelay[c] \in Wizard!Session /\ WizardInv
      /\ polls \in [Slots -> Wizard!Request \cup {None}]
  BY DEF WizardInv, Wizard!TypeOK
<1>2. CASE Wizard!Expire(c)
  <2> DEFINE new == [atRelay[c] EXCEPT !.state = "expired"]
  <2>1. /\ atRelay' = [atRelay EXCEPT ![c] = new] /\ reclaimed' = reclaimed /\ polls' = polls
        /\ UNCHANGED <<url, rows, pairing, named, open, step, existing, picked, verified, asked,
                       errors>>
    BY <1>1, <1>2 DEF Wizard!Expire, Wizard!page, Wizard!wizard
  <2>2. /\ new \in Wizard!Session /\ new.state = "expired" /\ new.device = atRelay[c].device
        /\ new.approver = atRelay[c].approver
    BY <1>1 DEF Wizard!Session
  <2> HIDE DEF new
  <2>3. Onward(c)
    BY <1>1, <2>1, <2>2 DEF Onward
  <2>4. new.approver # None =>
          new.device # None /\ (c \in reclaimed' \/ new.device = new.approver)
    BY <1>1, <2>1, <2>2 DEF WizardInv, CodeInv, ClaimedBy
  <2> QED
    BY <1>1, <2>1, <2>2, <2>3, <2>4, CodeStep
<1>3. ASSUME NEW d \in WizardDevices, Wizard!NodeClaims(c, d) PROVE WizardInv'
  <2> DEFINE new == [[atRelay[c] EXCEPT !.state = "claimed"] EXCEPT !.device = d]
  <2>1. /\ atRelay' = [atRelay EXCEPT ![c] = new] /\ polls' = polls
        /\ reclaimed' = IF atRelay[c].device \in {None, d} THEN reclaimed ELSE reclaimed \cup {c}
        /\ atRelay[c].state \in {"created", "claimed"}
        /\ UNCHANGED <<url, rows, pairing, named, open, step, existing, picked, verified, asked,
                       errors>>
    BY <1>1, <1>3 DEF Wizard!NodeClaims, Wizard!ClaimPairingSession, Wizard!Claimable, Wizard!page,
       Wizard!wizard, Wizard!Session
  <2>2. /\ new \in Wizard!Session /\ new.state = "claimed" /\ new.device = d
        /\ new.approver = atRelay[c].approver /\ d # None
    BY <1>1, PairingAssumption DEF Wizard!Session, Wizard!Maybe, Wizard!WizardAssumption
  <2> HIDE DEF new
  <2>3. Onward(c)
    BY <1>1, <2>1, <2>2 DEF Onward
  <2>4. new.approver # None =>
          new.device # None /\ (c \in reclaimed' \/ new.device = new.approver)
    BY <1>1, <2>1, <2>2 DEF WizardInv, CodeInv, ClaimedBy
  <2>5. reclaimed' \in {reclaimed, reclaimed \cup {c}}
    BY <2>1
  <2> QED
    BY <1>1, <2>1, <2>2, <2>3, <2>4, <2>5, CodeStep
<1> QED
  BY <1>2, <1>3

LEMMA ReplyFacts ==
  ASSUME Wizard!TypeOK, NEW s \in Slots, polls[s] # None,
         NEW answer \in Wizard!Pairing \cup {None}, Wizard!Replies(s, answer)
  PROVE  \E r \in Wizard!Request :
           /\ polls' = [polls EXCEPT ![s] = r]
           /\ r.does = polls[s].does /\ r.code = polls[s].code /\ r.seen = polls[s].seen
           /\ r.answer = answer /\ (r.stage = "done" => answer # None)
<1> DEFINE stage == IF answer = None THEN "failed" ELSE "done"
           r == [[polls[s] EXCEPT !.stage = stage] EXCEPT !.answer = answer]
<1>1. polls[s] \in Wizard!Request /\ polls \in [Slots -> Wizard!Request \cup {None}]
  BY DEF Wizard!TypeOK
<1>2. stage \in {"failed", "done"} /\ (stage = "done" => answer # None)
  OBVIOUS
<1>3. polls' = [polls EXCEPT ![s].stage = stage, ![s].answer = answer]
  BY DEF Wizard!Replies
<1> HIDE DEF stage
<1>4. /\ r \in Wizard!Request
      /\ r.does = polls[s].does /\ r.code = polls[s].code /\ r.seen = polls[s].seen
      /\ r.answer = answer /\ r.stage = stage
  BY <1>1, <1>2 DEF Wizard!Request
<1>5. polls' = [polls EXCEPT ![s] = r]
  BY <1>1, <1>3 DEF Wizard!Request
<1> QED
  BY <1>2, <1>4, <1>5

\* A request that is answered while no code changes
LEMMA AnswerStep ==
  ASSUME WizardInv, NEW s \in Slots, NEW r \in Wizard!Request,
         polls' = [polls EXCEPT ![s] = r], PollOk(r),
         UNCHANGED <<atRelay, reclaimed, url, rows, pairing, named, open, step, existing, picked,
                     verified, asked, errors>>
  PROVE  WizardInv'
<1>1. /\ polls' \in [Slots -> Wizard!Request \cup {None}]
      /\ \A t \in Slots : polls'[t] \in {None, polls[t]}
                          \/ \E q \in Wizard!Request : polls'[t] = q /\ PollOk(q)
  <2>1. polls \in [Slots -> Wizard!Request \cup {None}]
    BY DEF WizardInv, Wizard!TypeOK
  <2> QED
    BY <2>1
<1>2. PollsInv' /\ CodeInv'
  BY <1>1, PollsStep
<1>3. PairingInv'
  BY DEF WizardInv, PairingInv, StatusOk, ClaimedBy
<1>4. Wizard!TypeOK'
  BY <1>1 DEF WizardInv, Wizard!TypeOK
<1> QED
  BY <1>2, <1>3, <1>4 DEF WizardInv

\* A request that changes one code, and is answered what became of it
LEMMA ChangeStep ==
  ASSUME WizardInv, NEW s \in Slots, polls[s] # None,
         NEW c \in WizardCodes, NEW new \in Wizard!Session,
         atRelay' = [atRelay EXCEPT ![c] = new],
         reclaimed' \in {reclaimed, reclaimed \cup {c}},
         Onward(c), new.state \in {"created", "claimed", "approved"},
         /\ new.state \in {"claimed", "approved"} => new.device # None
         /\ new.state = "approved" => new.approver # None
         /\ new.approver # None => new.device # None /\ (c \in reclaimed' \/ new.device = new.approver),
         Wizard!Replies(s, Wizard!Public(c, new)),
         UNCHANGED <<url, rows, pairing, named, open, step, existing, picked, verified, asked,
                     errors>>
  PROVE  WizardInv'
<1> DEFINE answer == Wizard!Public(c, new)
<1>1. /\ WizardInv /\ polls[s] \in Wizard!Request
      /\ polls \in [Slots -> Wizard!Request \cup {None}]
      /\ atRelay \in [WizardCodes -> Wizard!Session] /\ atRelay'[c] = new
      /\ \A k \in WizardCodes : k # c => Onward(k)
  BY DEF WizardInv, Wizard!TypeOK, Onward
<1>2. /\ answer \in Wizard!Pairing
      /\ answer.code = c /\ answer.status = new.state /\ answer.device = new.device
  BY DEF Wizard!Public, Wizard!Pairing, Wizard!Session
<1> HIDE DEF answer
<1>3. StatusOk(answer)'
  <2>1. answer' = answer
    BY DEF answer, Wizard!Public
  <2> QED
    BY <1>1, <1>2, <2>1 DEF StatusOk, ClaimedBy
<1>4. PICK r \in Wizard!Request :
           /\ polls' = [polls EXCEPT ![s] = r]
           /\ r.does = polls[s].does /\ r.code = polls[s].code /\ r.seen = polls[s].seen
           /\ r.answer = answer /\ (r.stage = "done" => answer # None)
  BY <1>1, <1>2, ReplyFacts DEF answer, WizardInv
<1>5. PollOk(r)'
  <2>1. PollOk(polls[s])
    BY <1>1 DEF WizardInv, PollsInv
  <2>2. r.does = "approve" => r.seen # None /\ r.seen \in WizardDevices /\ r.code \in WizardCodes
    BY <1>1, <1>4, <2>1 DEF PollOk, Wizard!Request, Wizard!Maybe
  <2>3. r.does = "approve" => ClaimedBy(r.code, r.seen)'
    BY <1>1, <1>4, <2>1, <2>2, OnwardFacts DEF PollOk
  <2>4. r.stage = "done" => r.answer # None /\ StatusOk(r.answer)'
    BY <1>3, <1>4 DEF answer, StatusOk, ClaimedBy, Wizard!Public
  <2>5. r.does # "create" => r.code \in WizardCodes
    BY <1>4, <2>1 DEF PollOk
  <2> QED
    BY <2>2, <2>3, <2>4, <2>5 DEF PollOk
<1>6. /\ polls' \in [Slots -> Wizard!Request \cup {None}]
      /\ \A t \in Slots : \/ polls'[t] = polls[t]
                          \/ \E q \in Wizard!Request : polls'[t] = q /\ PollOk(q)'
  BY <1>1, <1>4, <1>5
<1> QED
  BY <1>6, CodeStep

LEMMA ServeKeepsInv ==
  ASSUME WizardInv, NEW s \in Slots, Wizard!Serve(s)
  PROVE  WizardInv'
<1> DEFINE r == polls[s]
<1>1. /\ r # None /\ r \in Wizard!Request /\ PollOk(r) /\ WizardInv
      /\ atRelay \in [WizardCodes -> Wizard!Session]
      /\ UNCHANGED <<url, rows, pairing, named, open, step, existing, picked, verified, asked,
                     errors>>
  BY DEF Wizard!Serve, Wizard!page, Wizard!wizard, WizardInv, Wizard!TypeOK, PollsInv
<1>2. CASE /\ r.does = "create"
           /\ \E c \in WizardCodes :
                /\ atRelay[c].state = "free"
                /\ atRelay' = [atRelay EXCEPT ![c].at = r.at, ![c].state = "created"]
                /\ Wizard!Replies(s, Wizard!Public(c, atRelay'[c]))
           /\ UNCHANGED reclaimed
  <2>1. PICK c \in WizardCodes :
               /\ atRelay[c].state = "free"
               /\ atRelay' = [atRelay EXCEPT ![c].at = r.at, ![c].state = "created"]
               /\ Wizard!Replies(s, Wizard!Public(c, atRelay'[c]))
    BY <1>2
  <2> DEFINE new == [[atRelay[c] EXCEPT !.at = r.at] EXCEPT !.state = "created"]
  <2>2. /\ new \in Wizard!Session /\ new.state = "created" /\ new.device = atRelay[c].device
        /\ new.approver = atRelay[c].approver
    BY <1>1 DEF Wizard!Session, Wizard!Request
  <2>3. atRelay' = [atRelay EXCEPT ![c] = new] /\ atRelay'[c] = new
    BY <1>1, <2>1 DEF Wizard!Session
  <2> HIDE DEF new
  <2>4. Onward(c)
    BY <1>2, <2>1, <2>2, <2>3 DEF Onward
  <2>5. new.approver # None =>
          new.device # None /\ (c \in reclaimed' \/ new.device = new.approver)
    BY <1>1, <1>2, <2>2 DEF WizardInv, CodeInv, ClaimedBy
  <2>6. Wizard!Replies(s, Wizard!Public(c, new))
    BY <2>1, <2>3
  <2> QED
    BY <1>1, <1>2, <2>2, <2>3, <2>4, <2>5, <2>6, ChangeStep
<1>3. CASE /\ r.does = "poll"
           /\ Wizard!Replies(s, IF Wizard!Known(r) THEN Wizard!Public(r.code, atRelay[r.code])
                                ELSE None)
           /\ UNCHANGED <<atRelay, reclaimed>>
  <2>1. PICK a \in Wizard!Pairing \cup {None} :
               Wizard!Replies(s, a) /\ (a # None => StatusOk(a))
    <3>1. CASE Wizard!Known(r)
      <4> DEFINE p == Wizard!Public(r.code, atRelay[r.code])
      <4>1. r.code \in WizardCodes /\ Wizard!Valid(r.code)
        BY <1>1, <1>3, <3>1 DEF PollOk, Wizard!Known
      <4>2. p \in Wizard!Pairing /\ StatusOk(p)
        BY <1>1, <4>1 DEF Wizard!Public, Wizard!Pairing, Wizard!Session, Wizard!Valid, WizardInv,
           CodeInv, StatusOk, ClaimedBy
      <4>3. Wizard!Replies(s, p)
        BY <1>3, <3>1
      <4> QED
        BY <4>2, <4>3
    <3>2. CASE ~Wizard!Known(r)
      BY <1>3, <3>2
    <3> QED
      BY <3>1, <3>2
  <2>2. PICK q \in Wizard!Request :
             /\ polls' = [polls EXCEPT ![s] = q]
             /\ q.does = r.does /\ q.code = r.code /\ q.seen = r.seen
             /\ q.answer = a /\ (q.stage = "done" => a # None)
    BY <1>1, <2>1, ReplyFacts DEF WizardInv
  <2>3. PollOk(q)
    BY <1>1, <1>3, <2>1, <2>2 DEF PollOk
  <2> QED
    BY <1>1, <1>3, <2>2, <2>3, AnswerStep
<1>4. CASE /\ r.does = "approve" /\ Wizard!Known(r) /\ atRelay[r.code].device # None
           /\ atRelay' = [atRelay EXCEPT ![r.code].state = "approved",
                                         ![r.code].approver = IF @ = None THEN r.seen ELSE @]
           /\ Wizard!Replies(s, Wizard!Public(r.code, atRelay'[r.code]))
           /\ UNCHANGED reclaimed
  <2> DEFINE c == r.code
             by == IF atRelay[c].approver = None THEN r.seen ELSE atRelay[c].approver
             new == [[atRelay[c] EXCEPT !.state = "approved"] EXCEPT !.approver = by]
  <2>1. /\ c \in WizardCodes /\ r.seen # None /\ ClaimedBy(c, r.seen)
        /\ atRelay[c].state \in {"created", "claimed", "approved"} /\ atRelay[c] \in Wizard!Session
    BY <1>1, <1>4 DEF PollOk, Wizard!Known, Wizard!Valid
  <2>2. by \in Wizard!Maybe /\ by # None /\ ClaimedBy(c, by)
    BY <1>1, <2>1 DEF Wizard!Session, Wizard!Request, WizardInv, CodeInv
  <2>3. atRelay' = [atRelay EXCEPT ![c] = new] /\ atRelay'[c] = new
    BY <1>1, <1>4, <2>1 DEF Wizard!Session
  <2> HIDE DEF by
  <2>4. /\ new \in Wizard!Session /\ new.state = "approved" /\ new.device = atRelay[c].device
        /\ new.approver = by
    BY <2>1, <2>2 DEF Wizard!Session
  <2> HIDE DEF new
  <2>5. Onward(c)
    BY <1>4, <2>1, <2>3, <2>4 DEF Onward
  <2>6. new.device # None /\ (c \in reclaimed' \/ new.device = new.approver)
    BY <1>4, <2>2, <2>4 DEF ClaimedBy
  <2>7. Wizard!Replies(s, Wizard!Public(c, new))
    BY <1>4, <2>3
  <2> QED
    BY <1>1, <1>4, <2>1, <2>2, <2>3, <2>4, <2>5, <2>6, <2>7, ChangeStep
<1>5. CASE /\ r.does = "claim" /\ Wizard!Known(r) /\ Wizard!Claimable(r.code)
           /\ Wizard!ClaimPairingSession(r.code, Preview)
           /\ Wizard!Replies(s, Wizard!Public(r.code, atRelay'[r.code]))
  <2> DEFINE c == r.code
             new == [[atRelay[c] EXCEPT !.state = "claimed"] EXCEPT !.device = Preview]
  <2>1. /\ c \in WizardCodes /\ atRelay[c].state \in {"created", "claimed"}
        /\ atRelay[c] \in Wizard!Session
        /\ atRelay' = [atRelay EXCEPT ![c].state = "claimed", ![c].device = Preview]
        /\ reclaimed' = IF atRelay[c].device \in {None, Preview} THEN reclaimed
                        ELSE reclaimed \cup {c}
    BY <1>1, <1>5 DEF PollOk, Wizard!Claimable, Wizard!ClaimPairingSession
  <2>2. /\ new \in Wizard!Session /\ new.state = "claimed" /\ new.device = Preview
        /\ new.approver = atRelay[c].approver /\ Preview # None
    BY <2>1, PairingAssumption DEF Wizard!Session, Wizard!Maybe, Wizard!WizardAssumption
  <2>3. atRelay' = [atRelay EXCEPT ![c] = new] /\ atRelay'[c] = new
    BY <1>1, <2>1 DEF Wizard!Session
  <2> HIDE DEF new
  <2>4. Onward(c)
    BY <2>1, <2>2, <2>3 DEF Onward
  <2>5. new.approver # None =>
          new.device # None /\ (c \in reclaimed' \/ new.device = new.approver)
    BY <1>1, <2>1, <2>2 DEF WizardInv, CodeInv, ClaimedBy
  <2>6. Wizard!Replies(s, Wizard!Public(c, new))
    BY <1>5, <2>3
  <2>7. reclaimed' \in {reclaimed, reclaimed \cup {c}}
    BY <2>1
  <2> QED
    BY <1>1, <2>1, <2>2, <2>3, <2>4, <2>5, <2>6, <2>7, ChangeStep
<1>6. CASE Wizard!Replies(s, None) /\ UNCHANGED <<atRelay, reclaimed>>
  <2>1. PICK q \in Wizard!Request :
             /\ polls' = [polls EXCEPT ![s] = q]
             /\ q.does = r.does /\ q.code = r.code /\ q.seen = r.seen
             /\ q.stage # "done"
    BY <1>1, <1>6, ReplyFacts DEF WizardInv
  <2>2. PollOk(q)
    BY <1>1, <2>1 DEF PollOk
  <2> QED
    BY <1>1, <1>6, <2>1, <2>2, AnswerStep
<1> QED
  BY <1>1, <1>2, <1>3, <1>4, <1>5, <1>6 DEF Wizard!Serve

LEMMA NextWizardInv ==
  ASSUME WizardInv, Wizard!Next PROVE WizardInv'
<1>1. CASE \/ Wizard!OpenOrClose \/ Wizard!ChoosePlatform \/ Wizard!Ready \/ Wizard!ChangeRelay
           \/ Wizard!RefreshRelayDevices \/ Wizard!SelectFirst \/ Wizard!AfterApproval
           \/ \E d \in WizardDevices : Wizard!SelectExistingDevice(d)
  BY <1>1, PageKeepsInv
<1>2. CASE Wizard!CreateCode \/ Wizard!Approve \/ Wizard!DevClaim \/ Wizard!Poll
  BY <1>2, AsksKeepInv
<1>3. CASE \/ Wizard!Leave
           \/ \E s \in Slots : Wizard!Fail(s) \/ Wizard!Answered(s) \/ Wizard!NotHeard(s)
  BY <1>3, AnswersKeepInv
<1>4. CASE \E c \in WizardCodes :
             Wizard!Expire(c) \/ \E d \in WizardDevices : Wizard!NodeClaims(c, d)
  BY <1>4, CodesMoveOn
<1>5. CASE \E s \in Slots : Wizard!Serve(s)
  BY <1>5, ServeKeepsInv
<1> QED
  BY <1>1, <1>2, <1>3, <1>4, <1>5 DEF Wizard!Next

LEMMA WizardInvariance == SafetySpec => []WizardInv
<1>1. SafetyInit => WizardInv
  BY InitWizardInv DEF SafetyInit
<1>2. WizardInv /\ [SafetyNext]_safetyVars => WizardInv'
  <2> SUFFICES ASSUME WizardInv, [SafetyNext]_safetyVars PROVE WizardInv'
    OBVIOUS
  <2>1. Wizard!Next \/ UNCHANGED wizardVars
    BY DEF SafetyNext, safetyVars
  <2>2. CASE UNCHANGED wizardVars
    BY <2>2 DEF wizardVars, WizardInv, Wizard!TypeOK, PollsInv, PollOk, PairingInv, CodeInv,
       StatusOk, ClaimedBy
  <2> QED
    BY <2>1, <2>2, NextWizardInv
<1> QED
  BY <1>1, <1>2, PTL DEF SafetySpec

LEMMA WizardShows ==
  WizardInv => Wizard!ShownTogether /\ Wizard!NotAheadOfRelay /\ Wizard!ApprovedAsShown
<1> SUFFICES ASSUME WizardInv
             PROVE  Wizard!ShownTogether /\ Wizard!NotAheadOfRelay /\ Wizard!ApprovedAsShown
  OBVIOUS
<1>1. pairing # None => StatusOk(pairing) /\ named = pairing.device
  BY DEF WizardInv, Wizard!TypeOK, PairingInv
<1>2. Wizard!ShownTogether /\ Wizard!NotAheadOfRelay
  BY <1>1 DEF Wizard!ShownTogether, Wizard!NotAheadOfRelay, StatusOk
<1>3. Wizard!ApprovedAsShown
  BY DEF WizardInv, CodeInv, ClaimedBy, Wizard!ApprovedAsShown
<1> QED
  BY <1>2, <1>3

----------------------------------------------------------------------------
(* The settings of a node, and the page of them (Settings) *)

\* What a request is made of
RequestOk(r) ==
  /\ r.does = "relay" => r.stage = "detecting" /\ r.alone = FALSE
  /\ r.stage = "detecting" => r.does # "other"
  /\ IF r.does = "patch" THEN r.key \in Page!Key \cup {Page!Whole} /\ r.value \subseteq Page!Changed(r.key)
     ELSE r.key = None
  /\ r.does = "patch" /\ r.stage \in {"detecting", "done"} => r.answer # None
  /\ r.does = "refresh" => (r.answer = None <=> r.stage \in {"sent", "detecting"})
                           \/ r.stage = "failed"

\* A request that has its answer
HasAnswer(r) ==
  \/ r.does = "patch" /\ r.stage \in {"detecting", "done"}
  \/ r.does = "refresh" /\ r.stage = "done"

RequestsInv == \A s \in Page!Pending : RequestOk(sent[s])

\* A request that is alone has none but the relay's beside it, and its answer is what
\* the node has.
SoleInv ==
  \A s \in Page!Pending : sent[s].alone =>
    /\ \A t \in Page!Pending : t # s => sent[t].does = "relay"
    /\ HasAnswer(sent[s]) => sent[s].answer = stored

\* Unless there is doubt, every request of the application is alone, and what is shown
\* is what the node has until a change of it is answered.
SureInv ==
  /\ unsure => unsured
  /\ failures # 0 => unsured
  /\ \A s \in Page!Pending : sent[s].stage = "failed" => unsure
  /\ ~unsure =>
       /\ \A s \in Page!Pending : sent[s].does # "relay" => sent[s].alone
       /\ (\A s \in Page!Pending : sent[s].does = "patch" => sent[s].stage = "sent") =>
            seen = stored

\* Requests that the node has yet to serve
Waiting(k) ==
  {s \in Page!Pending : sent[s].does = "patch" /\ sent[s].key = k /\ sent[s].stage = "sent"}

ChosenInv ==
  failures = 0 =>
    \A k \in Page!Key \ twice :
      /\ \A s \in Waiting(k) : k \in sent[s].value <=> k \in chosen
      /\ Waiting(k) = {} => (k \in stored <=> k \in chosen)

OnceInv ==
  \A k \in Page!Key \ twice : \A s, t \in Page!Pending :
    sent[s].key = k /\ sent[t].key = k => s = t

MembersInv ==
  ~unsured =>
    /\ \A s \in Waiting(Page!Whole) : sent[s].value = chosen \cap Members
    /\ Waiting(Page!Whole) = {} => stored \cap Members = chosen \cap Members

\* The latest detection, unless it overlapped another, looks for what the setting
\* allows, and so does what it leaves.
MockInv ==
  ~overlap =>
    /\ \A s, t \in Page!Detecting : s = t
    /\ \A s \in Page!Detecting :
         /\ sent[s].mock = mockEnabled
         /\ sent[s].does # "relay" => (mockEnabled <=> Page!Mock \in stored)
    /\ Page!Detecting = {} /\ ~unasked =>
         (mockListed <=> Page!Mock \in stored) /\ (active = Page!Mock => Page!Mock \in stored)

PageInv ==
  /\ Page!TypeOK /\ RequestsInv /\ SoleInv /\ SureInv /\ ChosenInv /\ OnceInv /\ MembersInv
  /\ MockInv

LEMMA InitPageInv == Page!Init => PageInv
<1> SUFFICES ASSUME Page!Init PROVE PageInv
  OBVIOUS
<1>1. Page!Pending = {} /\ Page!Detecting = {}
  BY DEF Page!Init, Page!Pending, Page!Detecting
<1>2. Page!TypeOK
  <2>1. /\ changes \in 0..MaxSettings /\ failures \in 0..MaxFailures
        /\ relayed \in 0..MaxRelayed
    BY PageAssumption DEF Page!Init, Page!SettingsAssumption
  <2>2. /\ stored \in Page!Settings /\ seen \in Page!Settings /\ chosen \in Page!Settings
        /\ busySetting \in Page!Busy /\ sent \in [Slots -> Page!Request \cup {None}]
        /\ active \in {Page!Mock, "live", None} /\ twice \subseteq Page!Key \cup {Page!Whole}
    BY DEF Page!Init, Page!Settings, Page!Busy
  <2> QED
    BY <2>1, <2>2 DEF Page!Init, Page!TypeOK
<1>3. RequestsInv /\ SoleInv /\ SureInv /\ ChosenInv /\ OnceInv /\ MembersInv
  BY <1>1 DEF Page!Init, RequestsInv, SoleInv, SureInv, ChosenInv, OnceInv, MembersInv, Waiting
<1>4. MockInv
  BY <1>1 DEF Page!Init, MockInv, Page!Key
<1> QED
  BY <1>2, <1>3, <1>4 DEF PageInv

\* Slot s gets a request, and none that was there remains alone.
Gets(s, does, key, value) ==
  /\ sent' \in [Slots -> Page!Request \cup {None}]
  /\ Page!Pending' = Page!Pending \cup {s} /\ Page!Detecting' = Page!Detecting
  /\ sent'[s].does = does /\ sent'[s].key = key /\ sent'[s].value = value
  /\ sent'[s].stage = "sent" /\ sent'[s].answer = None
  /\ sent'[s].alone = (Page!Pending = {})
  /\ \A t \in Page!Pending :
       /\ sent'[t].does = sent[t].does /\ sent'[t].key = sent[t].key
       /\ sent'[t].value = sent[t].value /\ sent'[t].stage = sent[t].stage
       /\ sent'[t].mock = sent[t].mock /\ sent'[t].answer = sent[t].answer
       /\ sent'[t].alone = FALSE

\* A request that the application makes
LEMMA AsksFacts ==
  ASSUME PageInv, NEW does \in {"patch", "refresh", "scan", "other"},
         NEW key \in Page!Key \cup {Page!Whole, None}, NEW value \in Page!Settings,
         Page!Sent(does, key, value)
  PROVE  \E s \in Slots \ Page!Pending : Gets(s, does, key, value)
<1>1. PICK s \in Slots \ Page!Pending :
           sent' = [t \in Slots |->
             IF t = s THEN [does |-> does, key |-> key, value |-> value, stage |-> "sent",
                            mock |-> FALSE, answer |-> None, alone |-> Page!Pending = {}]
             ELSE IF t \in Page!Pending THEN [sent[t] EXCEPT !.alone = FALSE] ELSE None]
  BY DEF Page!Sent
<1>2. PICK b \in BOOLEAN : b = (Page!Pending = {})
  OBVIOUS
<1> DEFINE new == [does |-> does, key |-> key, value |-> value, stage |-> "sent",
                   mock |-> FALSE, answer |-> None, alone |-> b]
<1>3. /\ new \in Page!Request /\ new # None
      /\ new.does = does /\ new.key = key /\ new.value = value /\ new.stage = "sent"
      /\ new.answer = None /\ new.alone = b
  <2>1. new \in Page!Request
    BY DEF Page!Request
  <2> QED
    BY <2>1, PageAssumption DEF Page!SettingsAssumption
<1>4. \A r \in Page!Request :
        /\ [r EXCEPT !.alone = FALSE] \in Page!Request
        /\ [r EXCEPT !.alone = FALSE] # None
        /\ [r EXCEPT !.alone = FALSE].does = r.does /\ [r EXCEPT !.alone = FALSE].key = r.key
        /\ [r EXCEPT !.alone = FALSE].value = r.value
        /\ [r EXCEPT !.alone = FALSE].stage = r.stage
        /\ [r EXCEPT !.alone = FALSE].mock = r.mock
        /\ [r EXCEPT !.alone = FALSE].answer = r.answer
        /\ [r EXCEPT !.alone = FALSE].alone = FALSE
  <2> SUFFICES ASSUME NEW r \in Page!Request
               PROVE  /\ [r EXCEPT !.alone = FALSE] \in Page!Request
                      /\ [r EXCEPT !.alone = FALSE].does = r.does
                      /\ [r EXCEPT !.alone = FALSE].key = r.key
                      /\ [r EXCEPT !.alone = FALSE].value = r.value
                      /\ [r EXCEPT !.alone = FALSE].stage = r.stage
                      /\ [r EXCEPT !.alone = FALSE].mock = r.mock
                      /\ [r EXCEPT !.alone = FALSE].answer = r.answer
                      /\ [r EXCEPT !.alone = FALSE].alone = FALSE
    BY PageAssumption DEF Page!SettingsAssumption
  <2> QED
    BY DEF Page!Request
<1>5. \A t \in Page!Pending : sent[t] \in Page!Request
  BY DEF PageInv, Page!TypeOK, Page!Pending
<1>6. sent' = [t \in Slots |-> IF t = s THEN new
                               ELSE IF t \in Page!Pending THEN [sent[t] EXCEPT !.alone = FALSE]
                               ELSE None]
  BY <1>1, <1>2
<1> HIDE DEF new
<1>7. /\ sent'[s] = new
      /\ \A t \in Page!Pending : sent'[t] = [sent[t] EXCEPT !.alone = FALSE]
      /\ \A t \in Slots : t # s /\ t \notin Page!Pending => sent'[t] = None
  BY <1>6 DEF Page!Pending
<1>8. \A t \in Page!Pending :
        /\ sent'[t] # None
        /\ sent'[t].does = sent[t].does /\ sent'[t].key = sent[t].key
        /\ sent'[t].value = sent[t].value /\ sent'[t].stage = sent[t].stage
        /\ sent'[t].mock = sent[t].mock /\ sent'[t].answer = sent[t].answer
        /\ sent'[t].alone = FALSE
  <2> TAKE t \in Page!Pending
  <2>1. PICK r \in Page!Request : r = sent[t]
    BY <1>5
  <2>2. sent'[t] = [r EXCEPT !.alone = FALSE]
    BY <1>7, <2>1
  <2> QED
    BY <1>4, <2>1, <2>2
<1>9. sent' \in [Slots -> Page!Request \cup {None}]
  BY <1>3, <1>4, <1>5, <1>6
<1>10. Page!Pending' = Page!Pending \cup {s}
  <2>1. Page!Pending' = {t \in Slots : sent'[t] # None}
    BY DEF Page!Pending
  <2>2. \A t \in Page!Pending : t \in Slots
    BY DEF Page!Pending
  <2> QED
    BY <1>3, <1>7, <1>8, <2>1, <2>2
<1>11. Page!Detecting' = Page!Detecting
  <2>1. Page!Detecting' = {t \in Page!Pending' : sent'[t].stage = "detecting"}
    BY DEF Page!Detecting
  <2> QED
    BY <1>3, <1>7, <1>8, <1>10, <2>1 DEF Page!Detecting
<1>12. /\ sent'[s].does = does /\ sent'[s].key = key /\ sent'[s].value = value
       /\ sent'[s].stage = "sent" /\ sent'[s].answer = None
       /\ sent'[s].alone = (Page!Pending = {})
  BY <1>2, <1>3, <1>7
<1> QED
  BY <1>8, <1>9, <1>10, <1>11, <1>12 DEF Gets

\* A request with what the user chose by it
Chooses(does, key, value) ==
  /\ Page!Asks(does, key, value)
  /\ IF does = "patch" THEN key \in Page!Key \cup {Page!Whole} /\ value \subseteq Page!Changed(key)
     ELSE key = None
  /\ chosen' \in Page!Settings /\ busySetting' \in Page!Busy
  /\ \A k \in Page!Key : IF k = key THEN k \in chosen' <=> k \in value
                         ELSE k \in chosen' <=> k \in chosen
  /\ IF key = Page!Whole
     THEN seen \cap Members = chosen \cap Members => chosen' \cap Members = value
     ELSE chosen' \cap Members = chosen \cap Members

LEMMA AskKeepsInv ==
  ASSUME PageInv, NEW does \in {"patch", "refresh", "scan", "other"},
         NEW key \in Page!Key \cup {Page!Whole, None}, NEW value \in Page!Settings,
         Chooses(does, key, value)
  PROVE  PageInv'
<1>0. Page!Sent(does, key, value)
  BY DEF Chooses, Page!Asks
<1>0a. PICK s \in Slots \ Page!Pending : Gets(s, does, key, value)
  BY <1>0, AsksFacts
<1>1. /\ sent' \in [Slots -> Page!Request \cup {None}]
      /\ Page!Pending' = Page!Pending \cup {s} /\ Page!Detecting' = Page!Detecting
      /\ sent'[s].does = does /\ sent'[s].key = key /\ sent'[s].value = value
      /\ sent'[s].stage = "sent" /\ sent'[s].answer = None
      /\ sent'[s].alone = (Page!Pending = {})
      /\ \A t \in Page!Pending :
           /\ sent'[t].does = sent[t].does /\ sent'[t].key = sent[t].key
           /\ sent'[t].value = sent[t].value /\ sent'[t].stage = sent[t].stage
           /\ sent'[t].mock = sent[t].mock /\ sent'[t].answer = sent[t].answer
           /\ sent'[t].alone = FALSE
  BY <1>0a DEF Gets
<1>2. /\ changes < MaxSettings /\ changes' = changes + 1
      /\ unsure' = (unsure \/ Page!Pending # {}) /\ unsured' = (unsured \/ Page!Pending # {})
      /\ twice' = twice \cup (({key} \ {None}) \cap {sent[t].key : t \in Page!Pending})
      /\ UNCHANGED <<stored, mockEnabled, mockListed, active, overlap, unasked, seen, failures,
                     relayed>>
      /\ PageInv
  BY DEF Chooses, Page!Asks, Page!nodeVars
<1>2a. /\ IF does = "patch" THEN /\ key \in Page!Key \cup {Page!Whole}
                                /\ value \subseteq Page!Changed(key)
         ELSE key = None
       /\ chosen' \in Page!Settings /\ busySetting' \in Page!Busy
       /\ \A k \in Page!Key : IF k = key THEN k \in chosen' <=> k \in value
                              ELSE k \in chosen' <=> k \in chosen
       /\ IF key = Page!Whole
          THEN seen \cap Members = chosen \cap Members => chosen' \cap Members = value
          ELSE chosen' \cap Members = chosen \cap Members
  BY DEF Chooses
<1> USE <1>2a DEF PageInv
<1>3. \A t \in Page!Pending : t # s
  BY <1>1
<1>4. Page!TypeOK'
  <2>1. changes' \in 0..MaxSettings
    BY <1>2, PageAssumption DEF Page!TypeOK, Page!SettingsAssumption
  <2>2. unsure' \in BOOLEAN /\ unsured' \in BOOLEAN /\ twice' \subseteq Page!Key \cup {Page!Whole}
    BY <1>2 DEF Page!TypeOK
  <2> QED
    BY <1>1, <1>2, <2>1, <2>2 DEF Page!TypeOK
<1>5. RequestsInv'
  <2> SUFFICES ASSUME NEW t \in Page!Pending' PROVE RequestOk(sent'[t])
    BY DEF RequestsInv, RequestOk
  <2>1. CASE t = s
    BY <1>1, <2>1 DEF RequestOk
  <2>2. CASE t \in Page!Pending
    BY <1>1, <1>2, <2>2 DEF RequestsInv, RequestOk
  <2> QED
    BY <1>1, <2>1, <2>2
<1>6. SoleInv'
  <2> SUFFICES ASSUME NEW t \in Page!Pending', sent'[t].alone
               PROVE  /\ \A x \in Page!Pending' : x # t => sent'[x].does = "relay"
                      /\ HasAnswer(sent'[t]) => sent'[t].answer = stored
    BY <1>2 DEF SoleInv, HasAnswer
  <2>1. t = s /\ Page!Pending = {}
    BY <1>1
  <2> QED
    BY <1>1, <2>1 DEF HasAnswer
<1>7. SureInv'
  <2>1. /\ unsure' => unsured'
        /\ failures' # 0 => unsured'
    BY <1>2 DEF SureInv
  <2>2. \A t \in Page!Pending' : sent'[t].stage = "failed" => unsure'
    BY <1>1, <1>2 DEF SureInv
  <2>3. ASSUME ~unsure'
        PROVE  /\ \A t \in Page!Pending' : sent'[t].does # "relay" => sent'[t].alone
               /\ (\A t \in Page!Pending' : sent'[t].does = "patch" => sent'[t].stage = "sent") =>
                    seen' = stored'
    <3>1. ~unsure /\ Page!Pending = {}
      BY <1>2, <2>3
    <3> QED
      BY <1>1, <1>2, <3>1 DEF SureInv
  <2> QED
    BY <2>1, <2>2, <2>3 DEF SureInv
<1>8. ASSUME NEW k \in Page!Key \cup {Page!Whole}
      PROVE  Waiting(k)' = IF does = "patch" /\ k = key THEN Waiting(k) \cup {s} ELSE Waiting(k)
  BY <1>1 DEF Waiting
<1>9. ASSUME NEW k \in Page!Key, k \notin twice'
      PROVE  /\ k \notin twice
             /\ k = key => \A t \in Page!Pending : sent[t].key # k
  BY <1>2, <1>9, PageAssumption DEF Page!SettingsAssumption
<1>10. OnceInv'
  BY <1>1, <1>9 DEF OnceInv
<1>11. ChosenInv'
  <2> SUFFICES ASSUME failures = 0, NEW k \in Page!Key, k \notin twice'
               PROVE  /\ \A t \in Waiting(k)' : k \in sent'[t].value <=> k \in chosen'
                      /\ Waiting(k)' = {} => (k \in stored <=> k \in chosen')
    BY <1>2 DEF ChosenInv
  <2>1. k \notin twice
    BY <1>9
  <2>2. CASE k = key
    <3>1. does = "patch"
      BY <2>2, PageAssumption DEF Page!SettingsAssumption
    <3>2. Waiting(k) = {}
      BY <1>9, <2>2 DEF Waiting
    <3>3. Waiting(k)' = {s}
      BY <1>8, <2>2, <3>1, <3>2
    <3> QED
      BY <1>1, <2>2, <3>3
  <2>3. CASE k # key
    <3>1. Waiting(k)' = Waiting(k) /\ \A t \in Waiting(k) : sent'[t].value = sent[t].value
      BY <1>1, <1>8, <2>3 DEF Waiting
    <3> QED
      BY <2>1, <2>3, <3>1 DEF ChosenInv
  <2> QED
    BY <2>2, <2>3
<1>12. MembersInv'
  <2> SUFFICES ASSUME ~unsured'
               PROVE  /\ \A t \in Waiting(Page!Whole)' : sent'[t].value = chosen' \cap Members
                      /\ Waiting(Page!Whole)' = {} => stored \cap Members = chosen' \cap Members
    BY <1>2 DEF MembersInv
  <2>1. ~unsured /\ ~unsure /\ Page!Pending = {}
    BY <1>2 DEF SureInv
  <2>2. Waiting(Page!Whole) = {} /\ seen = stored
    BY <2>1 DEF Waiting, SureInv
  <2>3. stored \cap Members = chosen \cap Members
    BY <2>1, <2>2 DEF MembersInv
  <2>4. CASE key = Page!Whole
    <3>1. does = "patch" /\ Waiting(Page!Whole)' = {s}
      BY <1>8, <2>2, <2>4, PageAssumption DEF Page!SettingsAssumption
    <3>2. chosen' \cap Members = value
      BY <2>2, <2>3, <2>4
    <3> QED
      BY <1>1, <3>1, <3>2
  <2>5. CASE key # Page!Whole
    BY <1>8, <2>2, <2>3, <2>5
  <2> QED
    BY <2>4, <2>5
<1>13. MockInv'
  <2>1. \A t \in Page!Detecting : sent'[t].mock = sent[t].mock /\ sent'[t].does = sent[t].does
    BY <1>1 DEF Page!Detecting
  <2> QED
    BY <1>1, <1>2, <2>1 DEF MockInv
<1> QED
  BY <1>4, <1>5, <1>6, <1>7, <1>10, <1>11, <1>12, <1>13

LEMMA PageAsksKeepInv ==
  ASSUME PageInv,
         \/ \E k \in Page!Key : Page!UpdateSetting(k)
         \/ \E m \in Members : Page!UpdateMember(m)
         \/ Page!RunProviderRefresh \/ Page!Other \/ Page!HandleScanProviders
  PROVE  PageInv'
<1>1. /\ seen \in Page!Settings /\ chosen \in Page!Settings /\ busySetting \in Page!Busy /\ PageInv
      /\ {Page!Mock, Page!Whole} \cap Keys = {} /\ Page!Key \cap Members = {}
      /\ Page!Whole \notin Page!Key /\ None \notin Page!Key \cup {Page!Whole}
      /\ {} \in Page!Settings
  <2>1. seen \in Page!Settings /\ chosen \in Page!Settings /\ busySetting \in Page!Busy
    BY DEF PageInv, Page!TypeOK
  <2>2. /\ {Page!Mock, Page!Whole} \cap Keys = {} /\ Page!Key \cap Members = {}
        /\ None \notin Page!Key \cup {Page!Whole}
    BY PageAssumption DEF Page!SettingsAssumption
  <2>3. Page!Whole \notin Page!Key
    BY <2>2 DEF Page!Key, Page!Mock, Page!Whole
  <2>4. {} \in Page!Settings
    BY DEF Page!Settings
  <2> QED
    BY <2>1, <2>2, <2>3, <2>4
<1>2. ASSUME NEW k \in Page!Key, Page!UpdateSetting(k) PROVE PageInv'
  <2> DEFINE value == {k} \ seen
  <2>1. /\ Page!Asks("patch", k, value) /\ busySetting' = k
        /\ chosen' = (chosen \ {k}) \cup value
    BY <1>2 DEF Page!UpdateSetting
  <2>2. value \in Page!Settings /\ value \subseteq Page!Changed(k) /\ value \subseteq {k}
    BY <1>1 DEF Page!Settings, Page!Changed
  <2> HIDE DEF value
  <2>3. chosen' \in Page!Settings /\ busySetting' \in Page!Busy
    BY <1>1, <2>1, <2>2 DEF Page!Settings, Page!Busy
  <2>4. \A j \in Page!Key : IF j = k THEN j \in chosen' <=> j \in value
                            ELSE j \in chosen' <=> j \in chosen
    BY <2>1, <2>2
  <2>5. k # Page!Whole /\ chosen' \cap Members = chosen \cap Members
    BY <1>1, <2>1, <2>2
  <2>6. k \in Page!Key \cup {Page!Whole, None} /\ k \in Page!Key \cup {Page!Whole}
    OBVIOUS
  <2>7. Chooses("patch", k, value)
    BY <1>1, <2>1, <2>2, <2>3, <2>4, <2>5 DEF Chooses
  <2> QED
    BY <1>1, <2>2, <2>6, <2>7, AskKeepsInv
<1>3. ASSUME NEW m \in Members, Page!UpdateMember(m) PROVE PageInv'
  <2> DEFINE value == Page!WithMember(m)
  <2>1. /\ Page!Asks("patch", Page!Whole, value) /\ busySetting' = Page!Whole
        /\ chosen' = (chosen \ {m}) \cup ({m} \ seen)
    BY <1>3 DEF Page!UpdateMember
  <2>2. /\ value \in Page!Settings /\ value \subseteq Page!Changed(Page!Whole)
        /\ value = ((seen \cap Members) \ {m}) \cup ({m} \ seen)
    BY <1>1 DEF Page!Settings, Page!Changed, Page!WithMember
  <2> HIDE DEF value
  <2>3. chosen' \in Page!Settings /\ busySetting' \in Page!Busy
    BY <1>1, <2>1 DEF Page!Settings, Page!Busy
  <2>4. \A j \in Page!Key : IF j = Page!Whole THEN j \in chosen' <=> j \in value
                            ELSE j \in chosen' <=> j \in chosen
    BY <1>1, <2>1
  <2>5. seen \cap Members = chosen \cap Members => chosen' \cap Members = value
    BY <2>1, <2>2
  <2>6. /\ Page!Whole \in Page!Key \cup {Page!Whole, None}
        /\ Page!Whole \in Page!Key \cup {Page!Whole}
    OBVIOUS
  <2>7. Chooses("patch", Page!Whole, value)
    BY <2>1, <2>2, <2>3, <2>4, <2>5, <2>6 DEF Chooses
  <2> QED
    BY <1>1, <2>2, <2>6, <2>7, AskKeepsInv
<1>4. CASE Page!RunProviderRefresh \/ Page!Other \/ Page!HandleScanProviders
  <2>1. PICK does \in {"refresh", "scan", "other"} :
               Page!Asks(does, None, {}) /\ UNCHANGED chosen /\ busySetting' \in Page!Busy
    BY <1>1, <1>4 DEF Page!RunProviderRefresh, Page!Other, Page!HandleScanProviders, Page!Busy
  <2>2. /\ does \in {"patch", "refresh", "scan", "other"} /\ does # "patch"
        /\ None \in Page!Key \cup {Page!Whole, None} /\ None # Page!Whole
        /\ \A k \in Page!Key : k # None
    BY <1>1
  <2>3. /\ \A k \in Page!Key : IF k = None THEN k \in chosen' <=> k \in {}
                               ELSE k \in chosen' <=> k \in chosen
        /\ chosen' \cap Members = chosen \cap Members /\ chosen' \in Page!Settings
    BY <1>1, <2>1, <2>2
  <2>4. Chooses(does, None, {})
    BY <2>1, <2>2, <2>3 DEF Chooses
  <2> QED
    BY <1>1, <2>2, <2>4, AskKeepsInv
<1> QED
  BY <1>2, <1>3, <1>4

\* The request of slot s becomes q, and the others remain.
Turned(s, q) ==
  /\ sent' \in [Slots -> Page!Request \cup {None}]
  /\ sent'[s] = q /\ Page!Pending' = Page!Pending \cup {s}
  /\ \A t \in Page!Pending : t # s => sent'[t] = sent[t]
  /\ Page!Detecting' =
       IF q.stage = "detecting" THEN Page!Detecting \cup {s} ELSE Page!Detecting \ {s}

\* The request of slot s has ended, and the others remain.
Ended(s) ==
  /\ sent' \in [Slots -> Page!Request \cup {None}]
  /\ Page!Pending' = Page!Pending \ {s} /\ Page!Detecting' = Page!Detecting \ {s}
  /\ \A t \in Page!Pending : t # s => sent'[t] = sent[t]

LEMMA TurnFacts ==
  ASSUME PageInv, NEW s \in Slots, NEW q \in Page!Request, Page!Becomes(s, q)
  PROVE  Turned(s, q)
<1>1. sent \in [Slots -> Page!Request \cup {None}] /\ None \notin Page!Request
  BY PageAssumption DEF PageInv, Page!TypeOK, Page!SettingsAssumption
<1>2. /\ sent' \in [Slots -> Page!Request \cup {None}] /\ sent'[s] = q
      /\ \A t \in Slots : t # s => sent'[t] = sent[t]
  BY <1>1 DEF Page!Becomes
<1>3. Page!Pending' = Page!Pending \cup {s}
  <2>1. Page!Pending' = {t \in Slots : sent'[t] # None}
    BY DEF Page!Pending
  <2> QED
    BY <1>1, <1>2, <2>1 DEF Page!Pending
<1>4. \A t \in Page!Pending : t # s => sent'[t] = sent[t]
  BY <1>2 DEF Page!Pending
<1>5. Page!Detecting' =
        IF q.stage = "detecting" THEN Page!Detecting \cup {s} ELSE Page!Detecting \ {s}
  <2>1. Page!Detecting' = {t \in Page!Pending' : sent'[t].stage = "detecting"}
    BY DEF Page!Detecting
  <2> QED
    BY <1>2, <1>3, <1>4, <2>1 DEF Page!Detecting
<1> QED
  BY <1>2, <1>3, <1>4, <1>5 DEF Turned

LEMMA EndFacts ==
  ASSUME PageInv, NEW s \in Slots, Page!Becomes(s, None)
  PROVE  Ended(s)
<1>1. sent \in [Slots -> Page!Request \cup {None}]
  BY DEF PageInv, Page!TypeOK
<1>2. /\ sent' \in [Slots -> Page!Request \cup {None}] /\ sent'[s] = None
      /\ \A t \in Slots : t # s => sent'[t] = sent[t]
  BY <1>1 DEF Page!Becomes
<1>3. Page!Pending' = Page!Pending \ {s}
  <2>1. Page!Pending' = {t \in Slots : sent'[t] # None}
    BY DEF Page!Pending
  <2> QED
    BY <1>1, <1>2, <2>1 DEF Page!Pending
<1>4. \A t \in Page!Pending : t # s => sent'[t] = sent[t]
  BY <1>2 DEF Page!Pending
<1>5. Page!Detecting' = Page!Detecting \ {s}
  <2>1. Page!Detecting' = {t \in Page!Pending' : sent'[t].stage = "detecting"}
    BY DEF Page!Detecting
  <2> QED
    BY <1>2, <1>3, <1>4, <2>1 DEF Page!Detecting
<1> QED
  BY <1>2, <1>3, <1>4, <1>5 DEF Ended

\* No two requests of the application are alone.
OthersRelayed ==
  \A s \in Page!Pending : sent[s].alone =>
    \A t \in Page!Pending : t # s => sent[t].does = "relay"

\* What a request keeps while the node serves it
SameRequest(q, r) ==
  q.does = r.does /\ q.key = r.key /\ q.value = r.value /\ q.alone = r.alone

LEMMA TurnKeeps ==
  ASSUME PageInv, NEW s \in Page!Pending, NEW q \in Page!Request, Turned(s, q),
         SameRequest(q, sent[s]), RequestOk(q), q.stage # "sent", UNCHANGED twice
  PROVE  /\ RequestsInv' /\ OnceInv' /\ OthersRelayed' /\ Page!Pending' = Page!Pending
         /\ \A k \in Page!Key \cup {Page!Whole} : Waiting(k)' = Waiting(k) \ {s}
         /\ \A t \in Page!Pending : /\ sent'[t].does = sent[t].does
                                    /\ sent'[t].key = sent[t].key
                                    /\ sent'[t].value = sent[t].value
                                    /\ sent'[t].alone = sent[t].alone
<1>1. /\ Page!Pending' = Page!Pending /\ sent'[s] = q
      /\ \A t \in Page!Pending : t # s => sent'[t] = sent[t]
  BY DEF Turned
<1>2. \A t \in Page!Pending : /\ sent'[t].does = sent[t].does /\ sent'[t].key = sent[t].key
                              /\ sent'[t].value = sent[t].value
                              /\ sent'[t].alone = sent[t].alone
  BY <1>1 DEF SameRequest
<1>3. RequestsInv'
  <2> SUFFICES ASSUME NEW t \in Page!Pending' PROVE RequestOk(sent'[t])
    BY DEF RequestsInv, RequestOk
  <2>1. CASE t = s
    BY <1>1, <2>1
  <2>2. CASE t # s
    BY <1>1, <2>2 DEF PageInv, RequestsInv
  <2> QED
    BY <2>1, <2>2
<1>4. OnceInv'
  BY <1>1, <1>2 DEF PageInv, OnceInv
<1>5. OthersRelayed'
  BY <1>1, <1>2 DEF PageInv, SoleInv, OthersRelayed
<1>6. ASSUME NEW k \in Page!Key \cup {Page!Whole} PROVE Waiting(k)' = Waiting(k) \ {s}
  <2>1. Waiting(k)' = {t \in Page!Pending' : /\ sent'[t].does = "patch" /\ sent'[t].key = k
                                             /\ sent'[t].stage = "sent"}
    BY DEF Waiting
  <2> QED
    BY <1>1, <1>2, <2>1 DEF Waiting
<1> QED
  BY <1>1, <1>2, <1>3, <1>4, <1>5, <1>6

LEMMA EndKeeps ==
  ASSUME PageInv, NEW s \in Page!Pending, Ended(s), sent[s].stage # "sent",
         UNCHANGED twice
  PROVE  /\ RequestsInv' /\ OnceInv' /\ OthersRelayed' /\ Page!Pending' = Page!Pending \ {s}
         /\ \A k \in Page!Key \cup {Page!Whole} : Waiting(k)' = Waiting(k)
         /\ \A t \in Page!Pending' : t \in Page!Pending /\ sent'[t] = sent[t]
<1>1. /\ Page!Pending' = Page!Pending \ {s}
      /\ \A t \in Page!Pending' : t \in Page!Pending /\ sent'[t] = sent[t]
  BY DEF Ended
<1>2. RequestsInv'
  <2> SUFFICES ASSUME NEW t \in Page!Pending' PROVE RequestOk(sent'[t])
    BY DEF RequestsInv, RequestOk
  <2> QED
    BY <1>1 DEF PageInv, RequestsInv
<1>3. OnceInv'
  BY <1>1 DEF PageInv, OnceInv
<1>4. OthersRelayed'
  BY <1>1 DEF PageInv, SoleInv, OthersRelayed
<1>5. ASSUME NEW k \in Page!Key \cup {Page!Whole} PROVE Waiting(k)' = Waiting(k)
  <2>1. Waiting(k)' = {t \in Page!Pending' : /\ sent'[t].does = "patch" /\ sent'[t].key = k
                                             /\ sent'[t].stage = "sent"}
    BY DEF Waiting
  <2> QED
    BY <1>1, <2>1 DEF Waiting
<1> QED
  BY <1>1, <1>2, <1>3, <1>4, <1>5

\* All parts of the invariant but those on the constants' sets and on the detection
TalkOfPage == RequestsInv /\ SoleInv /\ SureInv /\ ChosenInv /\ OnceInv /\ MembersInv

\* A request that the node serves, and that changes no setting
LEMMA ServedKeeps ==
  ASSUME PageInv, NEW s \in Page!Pending, NEW q \in Page!Request, Turned(s, q),
         SameRequest(q, sent[s]), RequestOk(q), q.stage \notin {"sent", "failed"},
         ~(sent[s].does = "patch" /\ sent[s].stage = "sent"),
         HasAnswer(q) => (HasAnswer(sent[s]) /\ q.answer = sent[s].answer) \/ q.answer = stored,
         UNCHANGED <<stored, seen, chosen, twice, failures, unsure, unsured>>
  PROVE  TalkOfPage'
<1>1. /\ RequestsInv' /\ OnceInv' /\ OthersRelayed' /\ Page!Pending' = Page!Pending
      /\ \A k \in Page!Key \cup {Page!Whole} : Waiting(k)' = Waiting(k) \ {s}
      /\ \A t \in Page!Pending : /\ sent'[t].does = sent[t].does /\ sent'[t].key = sent[t].key
                                 /\ sent'[t].value = sent[t].value
                                 /\ sent'[t].alone = sent[t].alone
  BY TurnKeeps
<1>2. sent'[s] = q /\ \A t \in Page!Pending : t # s => sent'[t] = sent[t]
  BY DEF Turned
<1>3. \A k \in Page!Key \cup {Page!Whole} : Waiting(k)' = Waiting(k)
  BY <1>1 DEF Waiting
<1>4. SoleInv'
  <2> SUFFICES ASSUME NEW t \in Page!Pending', sent'[t].alone
               PROVE  /\ \A x \in Page!Pending' : x # t => sent'[x].does = "relay"
                      /\ HasAnswer(sent'[t]) => sent'[t].answer = stored
    BY DEF SoleInv, HasAnswer
  <2>1. \A x \in Page!Pending' : x # t => sent'[x].does = "relay"
    BY <1>1 DEF OthersRelayed
  <2>2. sent[t].alone /\ (HasAnswer(sent[t]) => sent[t].answer = stored)
    BY <1>1 DEF PageInv, SoleInv
  <2>3. HasAnswer(sent'[t]) => sent'[t].answer = stored
    BY <1>1, <1>2, <2>2
  <2> QED
    BY <2>1, <2>3
<1>5. SureInv'
  <2>1. /\ unsure' => unsured'
        /\ failures' # 0 => unsured'
    BY DEF PageInv, SureInv
  <2>2. \A t \in Page!Pending' : sent'[t].stage = "failed" => unsure'
    BY <1>1, <1>2 DEF PageInv, SureInv
  <2>3. ASSUME ~unsure'
        PROVE  /\ \A t \in Page!Pending' : sent'[t].does # "relay" => sent'[t].alone
               /\ (\A t \in Page!Pending' : sent'[t].does = "patch" => sent'[t].stage = "sent") =>
                    seen' = stored'
    BY <1>1, <1>2, <2>3 DEF PageInv, SureInv
  <2> QED
    BY <2>1, <2>2, <2>3 DEF SureInv
<1>6. \A k \in Page!Key \cup {Page!Whole} :
        \A t \in Waiting(k) : t \in Page!Pending /\ sent'[t].value = sent[t].value
  BY <1>1 DEF Waiting
<1>7. ChosenInv'
  <2> SUFFICES ASSUME failures = 0, NEW k \in Page!Key \ twice
               PROVE  /\ \A t \in Waiting(k)' : k \in sent'[t].value <=> k \in chosen
                      /\ Waiting(k)' = {} => (k \in stored <=> k \in chosen)
    BY DEF ChosenInv
  <2> QED
    BY <1>3, <1>6 DEF PageInv, ChosenInv
<1>8. MembersInv'
  <2> SUFFICES ASSUME ~unsured
               PROVE  /\ \A t \in Waiting(Page!Whole)' : sent'[t].value = chosen \cap Members
                      /\ Waiting(Page!Whole)' = {} => stored \cap Members = chosen \cap Members
    BY DEF MembersInv
  <2> QED
    BY <1>3, <1>6 DEF PageInv, MembersInv
<1> QED
  BY <1>1, <1>4, <1>5, <1>7, <1>8 DEF TalkOfPage

\* A request that has ended, and that changes no setting
LEMMA EndedKeeps ==
  ASSUME PageInv, NEW s \in Page!Pending, Ended(s), sent[s].stage # "sent",
         unsure' => unsure,
         ~unsure' =>
           /\ \A t \in Page!Pending \ {s} : sent[t].does # "relay" => sent[t].alone
           /\ (\A t \in Page!Pending \ {s} : sent[t].does = "patch" => sent[t].stage = "sent") =>
                seen' = stored,
         \A t \in Page!Pending \ {s} : sent[t].stage = "failed" => unsure',
         UNCHANGED <<stored, chosen, twice, failures, unsured>>
  PROVE  TalkOfPage'
<1>1. /\ RequestsInv' /\ OnceInv' /\ OthersRelayed' /\ Page!Pending' = Page!Pending \ {s}
      /\ \A k \in Page!Key \cup {Page!Whole} : Waiting(k)' = Waiting(k)
      /\ \A t \in Page!Pending' : t \in Page!Pending /\ sent'[t] = sent[t]
  BY EndKeeps
<1>2. SoleInv'
  <2> SUFFICES ASSUME NEW t \in Page!Pending', sent'[t].alone
               PROVE  /\ \A x \in Page!Pending' : x # t => sent'[x].does = "relay"
                      /\ HasAnswer(sent'[t]) => sent'[t].answer = stored
    BY DEF SoleInv, HasAnswer
  <2> QED
    BY <1>1 DEF PageInv, SoleInv, OthersRelayed
<1>3. SureInv'
  <2>1. /\ unsure' => unsured'
        /\ failures' # 0 => unsured'
    BY DEF PageInv, SureInv
  <2>2. \A t \in Page!Pending' : sent'[t].stage = "failed" => unsure'
    BY <1>1
  <2>3. ASSUME ~unsure'
        PROVE  /\ \A t \in Page!Pending' : sent'[t].does # "relay" => sent'[t].alone
               /\ (\A t \in Page!Pending' : sent'[t].does = "patch" => sent'[t].stage = "sent") =>
                    seen' = stored'
    BY <1>1, <2>3
  <2> QED
    BY <2>1, <2>2, <2>3 DEF SureInv
<1>4. \A k \in Page!Key \cup {Page!Whole} : \A t \in Waiting(k) : sent'[t] = sent[t]
  <2> SUFFICES ASSUME NEW k \in Page!Key \cup {Page!Whole}, NEW t \in Waiting(k)
               PROVE  sent'[t] = sent[t]
    OBVIOUS
  <2>1. t \in Page!Pending /\ sent[t].stage = "sent"
    BY DEF Waiting
  <2> QED
    BY <1>1, <2>1
<1>5. ChosenInv'
  <2> SUFFICES ASSUME failures = 0, NEW k \in Page!Key \ twice
               PROVE  /\ \A t \in Waiting(k)' : k \in sent'[t].value <=> k \in chosen
                      /\ Waiting(k)' = {} => (k \in stored <=> k \in chosen)
    BY DEF ChosenInv
  <2> QED
    BY <1>1, <1>4 DEF PageInv, ChosenInv
<1>6. MembersInv'
  <2> SUFFICES ASSUME ~unsured
               PROVE  /\ \A t \in Waiting(Page!Whole)' : sent'[t].value = chosen \cap Members
                      /\ Waiting(Page!Whole)' = {} => stored \cap Members = chosen \cap Members
    BY DEF MembersInv
  <2> QED
    BY <1>1, <1>4 DEF PageInv, MembersInv
<1> QED
  BY <1>1, <1>2, <1>3, <1>5, <1>6 DEF TalkOfPage

\* What is known of the constants
LEMMA PageConstants ==
  /\ Page!Whole \notin Page!Key /\ Page!Key \cap Members = {} /\ Page!Mock \in Page!Key
  /\ Page!Mock # None /\ None \notin Page!Key \cup {Page!Whole}
  /\ "live" # Page!Mock /\ \A value \in Page!Settings : value # None
  /\ None \notin Page!Request
<1>1. /\ {Page!Mock, Page!Whole} \cap Keys = {} /\ Page!Key \cap Members = {}
      /\ None \notin Page!Key \cup {Page!Whole} /\ None \notin Page!Request
      /\ \A value \in Page!Settings : value # None
  BY PageAssumption DEF Page!SettingsAssumption
<1> QED
  BY <1>1 DEF Page!Key, Page!Mock, Page!Whole

\* What is known of a request under way
LEMMA RequestFacts ==
  ASSUME PageInv, NEW s \in Slots, sent[s] # None
  PROVE  s \in Page!Pending /\ sent[s] \in Page!Request /\ RequestOk(sent[s])
<1>1. s \in Page!Pending
  BY DEF Page!Pending
<1> QED
  BY <1>1 DEF PageInv, Page!TypeOK, RequestsInv

LEMMA RefreshKeepsInv ==
  ASSUME PageInv, NEW s \in Slots, Page!Refresh(s)
  PROVE  PageInv'
<1>1. PICK r \in Page!Request : r = sent[s] /\ RequestOk(r) /\ s \in Page!Pending
  BY RequestFacts DEF Page!Refresh
<1>2. /\ r.stage = "sent" /\ r.does \in {"refresh", "scan"}
      /\ Page!Detect(s, r, Page!Mock \in stored)
      /\ UNCHANGED <<stored, failures, relayed, seen, busySetting, changes, chosen, unsure,
                     unsured, twice>>
  BY <1>1 DEF Page!Refresh, Page!Rest
<1>3. PICK b \in BOOLEAN : b = (Page!Mock \in stored)
  <2>1. CASE Page!Mock \in stored
    BY <2>1, TRUE = (Page!Mock \in stored), TRUE \in BOOLEAN, Zenon
  <2>2. CASE Page!Mock \notin stored
    BY <2>2, FALSE = (Page!Mock \in stored), FALSE \in BOOLEAN, Zenon
  <2> QED
    BY <2>1, <2>2
<1> DEFINE q == [r EXCEPT !.stage = "detecting", !.mock = b]
<1>4. /\ mockEnabled' = b /\ Page!Becomes(s, q) /\ overlap' = (Page!Detecting # {})
      /\ UNCHANGED <<mockListed, active, unasked>>
  BY <1>2, <1>3 DEF Page!Detect
<1>5. /\ q \in Page!Request /\ SameRequest(q, r) /\ q.stage = "detecting" /\ q.mock = b
      /\ q.answer = r.answer
  BY DEF Page!Request, SameRequest
<1> HIDE DEF q
<1>6. RequestOk(q) /\ ~HasAnswer(q)
  BY <1>1, <1>2, <1>5 DEF RequestOk, SameRequest, HasAnswer
<1>7. Turned(s, q)
  BY <1>4, <1>5, TurnFacts
<1>8. TalkOfPage'
  BY <1>1, <1>2, <1>5, <1>6, <1>7, ServedKeeps
<1>9. Page!TypeOK'
  BY <1>2, <1>4, <1>7 DEF PageInv, Page!TypeOK, Turned
<1>10. MockInv'
  <2> SUFFICES ASSUME Page!Detecting = {}
               PROVE  /\ \A x, t \in Page!Detecting' : x = t
                      /\ \A x \in Page!Detecting' :
                           /\ sent'[x].mock = mockEnabled'
                           /\ sent'[x].does # "relay" => (mockEnabled' <=> Page!Mock \in stored)
                      /\ Page!Detecting' # {}
    BY <1>2, <1>4 DEF MockInv
  <2>1. Page!Detecting' = {s} /\ sent'[s] = q
    BY <1>5, <1>7 DEF Turned
  <2> QED
    BY <1>3, <1>4, <1>5, <2>1
<1> QED
  BY <1>8, <1>9, <1>10 DEF PageInv, TalkOfPage

LEMMA OtherDoneKeepsInv ==
  ASSUME PageInv, NEW s \in Slots, Page!OtherDone(s)
  PROVE  PageInv'
<1>1. PICK r \in Page!Request : r = sent[s] /\ RequestOk(r) /\ s \in Page!Pending
  BY RequestFacts DEF Page!OtherDone
<1> DEFINE q == [r EXCEPT !.stage = "done"]
<1>2. /\ r.stage = "sent" /\ r.does = "other" /\ Page!Becomes(s, q)
      /\ UNCHANGED <<stored, failures, relayed, seen, busySetting, changes, chosen, unsure,
                     unsured, twice, mockEnabled, mockListed, active, overlap, unasked>>
  BY <1>1 DEF Page!OtherDone, Page!Rest, Page!NoDetection
<1>3. /\ q \in Page!Request /\ SameRequest(q, r) /\ q.stage = "done" /\ q.answer = r.answer
  BY DEF Page!Request, SameRequest
<1> HIDE DEF q
<1>4. RequestOk(q) /\ ~HasAnswer(q)
  BY <1>1, <1>2, <1>3 DEF RequestOk, SameRequest, HasAnswer
<1>5. Turned(s, q)
  BY <1>2, <1>3, TurnFacts
<1>6. TalkOfPage'
  BY <1>1, <1>2, <1>3, <1>4, <1>5, ServedKeeps
<1>7. Page!TypeOK'
  BY <1>2, <1>5 DEF PageInv, Page!TypeOK, Turned
<1>8. Page!Detecting' = Page!Detecting /\ \A t \in Page!Detecting : sent'[t] = sent[t]
  BY <1>1, <1>2, <1>3, <1>5 DEF Turned, Page!Detecting
<1>9. MockInv'
  BY <1>2, <1>8 DEF PageInv, MockInv
<1> QED
  BY <1>6, <1>7, <1>9 DEF PageInv, TalkOfPage

\* What a detection leaves
LEMMA DetectedMock ==
  ASSUME PageInv, NEW s \in Page!Detecting, Page!Detecting' = Page!Detecting \ {s},
         mockListed' = sent[s].mock, unasked' = (sent[s].does = "relay"),
         NEW live \in BOOLEAN,
         active' = IF live THEN "live"
                   ELSE IF sent[s].mock \/ mockEnabled THEN Page!Mock ELSE None,
         UNCHANGED <<stored, mockEnabled, overlap>>
  PROVE  MockInv'
<1> SUFFICES ASSUME ~overlap
             PROVE  /\ Page!Detecting' = {}
                    /\ ~unasked' => /\ mockListed' <=> Page!Mock \in stored
                                    /\ active' = Page!Mock => Page!Mock \in stored
  BY DEF MockInv
<1>1. /\ Page!Detecting = {s} /\ sent[s].mock = mockEnabled
      /\ sent[s].does # "relay" => (mockEnabled <=> Page!Mock \in stored)
  BY DEF PageInv, MockInv
<1>2. active' = Page!Mock => mockEnabled
  BY <1>1, PageConstants
<1> QED
  BY <1>1, <1>2

LEMMA DetectedKeepsInv ==
  ASSUME PageInv, NEW s \in Slots, Page!Detected(s)
  PROVE  PageInv'
<1>1. PICK r \in Page!Request : r = sent[s] /\ RequestOk(r) /\ s \in Page!Pending
  BY RequestFacts DEF Page!Detected
<1>2. /\ r.stage = "detecting" /\ mockListed' = r.mock /\ unasked' = (r.does = "relay")
      /\ \E live \in BOOLEAN :
           active' = IF live THEN "live" ELSE IF r.mock \/ mockEnabled THEN Page!Mock ELSE None
      /\ UNCHANGED <<stored, mockEnabled, failures, relayed, overlap, seen, busySetting, changes,
                     chosen, unsure, unsured, twice>>
  BY <1>1 DEF Page!Detected, Page!Rest
<1>3. s \in Page!Detecting
  BY <1>1, <1>2 DEF Page!Detecting
<1>4. ASSUME sent' \in [Slots -> Page!Request \cup {None}] PROVE Page!TypeOK'
  <2>1. mockListed' \in BOOLEAN /\ unasked' \in BOOLEAN /\ active' \in {Page!Mock, "live", None}
    BY <1>2 DEF Page!Request
  <2> QED
    BY <1>2, <1>4, <2>1 DEF PageInv, Page!TypeOK
<1>5. ASSUME Page!Detecting' = Page!Detecting \ {s} PROVE MockInv'
  BY <1>1, <1>2, <1>3, <1>5, DetectedMock
<1>6. CASE r.does = "relay"
  <2>1. Page!Becomes(s, None)
    BY <1>1, <1>6 DEF Page!Detected
  <2>2. Ended(s)
    BY <2>1, EndFacts
  <2>3. ~unsure =>
          /\ \A t \in Page!Pending \ {s} : sent[t].does # "relay" => sent[t].alone
          /\ (\A t \in Page!Pending \ {s} : sent[t].does = "patch" => sent[t].stage = "sent") =>
               seen = stored
    BY <1>1, <1>6 DEF PageInv, SureInv
  <2>4. \A t \in Page!Pending \ {s} : sent[t].stage = "failed" => unsure
    BY DEF PageInv, SureInv
  <2>5. TalkOfPage'
    BY <1>1, <1>2, <2>2, <2>3, <2>4, EndedKeeps
  <2> QED
    BY <1>4, <1>5, <2>2, <2>5 DEF PageInv, TalkOfPage, Ended
<1>7. CASE r.does # "relay"
  <2> DEFINE q == [r EXCEPT !.stage = "done", !.answer = IF r.answer = None THEN stored
                                                         ELSE r.answer]
  <2>1. Page!Becomes(s, q)
    BY <1>1, <1>7 DEF Page!Detected
  <2>2. /\ q \in Page!Request /\ SameRequest(q, r) /\ q.stage = "done"
        /\ q.answer = IF r.answer = None THEN stored ELSE r.answer
    <3>1. stored \in Page!Settings
      BY DEF PageInv, Page!TypeOK
    <3> QED
      BY <3>1 DEF Page!Request, SameRequest
  <2> HIDE DEF q
  <2>3. q.answer # None
    BY <2>2, PageConstants DEF PageInv, Page!TypeOK
  <2>4. RequestOk(q)
    BY <1>1, <1>2, <1>7, <2>2, <2>3 DEF RequestOk, SameRequest
  <2>5. HasAnswer(q) => (HasAnswer(r) /\ q.answer = r.answer) \/ q.answer = stored
    BY <1>1, <1>2, <2>2 DEF HasAnswer, SameRequest, RequestOk
  <2>6. Turned(s, q)
    BY <2>1, <2>2, TurnFacts
  <2>7. TalkOfPage'
    BY <1>1, <1>2, <2>2, <2>4, <2>5, <2>6, ServedKeeps
  <2>8. Page!Detecting' = Page!Detecting \ {s}
    BY <2>2, <2>6 DEF Turned
  <2> QED
    BY <1>4, <1>5, <2>6, <2>7, <2>8 DEF PageInv, TalkOfPage, Turned
<1> QED
  BY <1>6, <1>7

LEMMA FailKeepsInv ==
  ASSUME PageInv, NEW s \in Slots, Page!Fail(s)
  PROVE  PageInv'
<1>1. PICK r \in Page!Request : r = sent[s] /\ RequestOk(r) /\ s \in Page!Pending
  BY RequestFacts DEF Page!Fail
<1> DEFINE q == [r EXCEPT !.stage = "failed"]
<1>2. /\ r.stage \in {"sent", "done"} /\ Page!Becomes(s, q)
      /\ failures < MaxFailures /\ failures' = failures + 1
      /\ unsure' = TRUE /\ unsured' = TRUE
      /\ UNCHANGED <<stored, relayed, seen, busySetting, changes, chosen, twice, mockEnabled,
                     mockListed, active, overlap, unasked>>
  BY <1>1 DEF Page!Fail, Page!nodeVars
<1>3. /\ q \in Page!Request /\ SameRequest(q, r) /\ q.stage = "failed" /\ q.answer = r.answer
  BY DEF Page!Request, SameRequest
<1> HIDE DEF q
<1>4. RequestOk(q) /\ ~HasAnswer(q)
  BY <1>1, <1>2, <1>3 DEF RequestOk, SameRequest, HasAnswer
<1>5. Turned(s, q)
  BY <1>2, <1>3, TurnFacts
<1>6. /\ RequestsInv' /\ OnceInv' /\ OthersRelayed' /\ Page!Pending' = Page!Pending
      /\ \A t \in Page!Pending : sent'[t].alone = sent[t].alone
  BY <1>1, <1>2, <1>3, <1>4, <1>5, TurnKeeps
<1>7. sent'[s] = q /\ \A t \in Page!Pending : t # s => sent'[t] = sent[t]
  BY <1>5 DEF Turned
<1>8. failures' \in 0..MaxFailures /\ failures' # 0
  BY <1>2, PageAssumption DEF PageInv, Page!TypeOK, Page!SettingsAssumption
<1>9. Page!TypeOK'
  BY <1>2, <1>5, <1>8 DEF PageInv, Page!TypeOK, Turned
<1>10. SoleInv'
  <2> SUFFICES ASSUME NEW t \in Page!Pending', sent'[t].alone
               PROVE  /\ \A x \in Page!Pending' : x # t => sent'[x].does = "relay"
                      /\ HasAnswer(sent'[t]) => sent'[t].answer = stored
    BY <1>2 DEF SoleInv, HasAnswer
  <2> QED
    BY <1>4, <1>6, <1>7 DEF PageInv, SoleInv, OthersRelayed
<1>11. SureInv' /\ ChosenInv' /\ MembersInv'
  BY <1>2, <1>8 DEF SureInv, ChosenInv, MembersInv
<1>12. Page!Detecting' = Page!Detecting /\ \A t \in Page!Detecting : sent'[t] = sent[t]
  BY <1>1, <1>2, <1>3, <1>5 DEF Turned, Page!Detecting
<1>13. MockInv'
  BY <1>2, <1>12 DEF PageInv, MockInv
<1> QED
  BY <1>6, <1>9, <1>10, <1>11, <1>13 DEF PageInv

LEMMA AnsweredKeepsInv ==
  ASSUME PageInv, NEW s \in Slots, Page!Answered(s)
  PROVE  PageInv'
<1>1. PICK r \in Page!Request : r = sent[s] /\ RequestOk(r) /\ s \in Page!Pending
  BY RequestFacts DEF Page!Answered
<1>2. /\ r.stage = "done" /\ Page!Becomes(s, None)
      /\ seen' = IF r.does \in {"patch", "refresh"} THEN r.answer ELSE seen
      /\ busySetting' \in {busySetting, None}
      /\ unsure' = (unsure /\ ~(r.alone /\ r.does \in {"patch", "refresh"}))
      /\ UNCHANGED <<stored, failures, relayed, changes, chosen, unsured, twice, mockEnabled,
                     mockListed, active, overlap, unasked>>
  BY <1>1 DEF Page!Answered, Page!nodeVars
<1>3. Ended(s)
  BY <1>2, EndFacts
<1>4. r.does # "relay"
  BY <1>1, <1>2 DEF RequestOk
<1>5. r.does \in {"patch", "refresh"} => HasAnswer(r) /\ r.answer # None
  BY <1>1, <1>2 DEF HasAnswer, RequestOk
<1>6. CASE r.alone
  <2>1. /\ \A t \in Page!Pending \ {s} : sent[t].does = "relay"
        /\ r.does \in {"patch", "refresh"} => r.answer = stored
    BY <1>1, <1>5, <1>6 DEF PageInv, SoleInv
  <2>2. \A t \in Page!Pending \ {s} : sent[t].stage # "failed"
    BY <2>1 DEF PageInv, RequestsInv, RequestOk
  <2>3. ~unsure' => seen' = stored
    <3>1. CASE r.does \in {"patch", "refresh"}
      BY <1>2, <2>1, <3>1
    <3>2. CASE r.does \notin {"patch", "refresh"}
      <4>1. (\A t \in Page!Pending : sent[t].does = "patch" => sent[t].stage = "sent")
        BY <1>1, <2>1, <3>2
      <4> QED
        BY <1>2, <3>2, <4>1 DEF PageInv, SureInv
    <3> QED
      BY <3>1, <3>2
  <2>4. TalkOfPage'
    BY <1>1, <1>2, <1>3, <2>1, <2>2, <2>3, EndedKeeps
  <2> QED
    <3>1. Page!TypeOK'
      BY <1>2, <1>3, <1>5, <2>1 DEF PageInv, Page!TypeOK, Page!Busy, Ended
    <3>2. Page!Detecting' = Page!Detecting /\ \A t \in Page!Detecting : sent'[t] = sent[t]
      BY <1>1, <1>2, <1>3 DEF Ended, Page!Detecting
    <3>3. MockInv'
      BY <1>2, <3>2 DEF PageInv, MockInv
    <3> QED
      BY <2>4, <3>1, <3>3 DEF PageInv, TalkOfPage
<1>7. CASE ~r.alone
  <2>1. unsure /\ (unsure' <=> unsure)
    BY <1>1, <1>2, <1>4, <1>7 DEF PageInv, SureInv, Page!TypeOK
  <2>2. TalkOfPage'
    BY <1>1, <1>2, <1>3, <2>1, EndedKeeps
  <2>3. seen' \in Page!Settings
    BY <1>2, <1>5 DEF PageInv, Page!TypeOK, Page!Request
  <2>4. Page!TypeOK'
    BY <1>2, <1>3, <2>3 DEF PageInv, Page!TypeOK, Page!Busy, Ended
  <2>5. Page!Detecting' = Page!Detecting /\ \A t \in Page!Detecting : sent'[t] = sent[t]
    BY <1>1, <1>2, <1>3 DEF Ended, Page!Detecting
  <2>6. MockInv'
    BY <1>2, <2>5 DEF PageInv, MockInv
  <2> QED
    BY <2>2, <2>4, <2>6 DEF PageInv, TalkOfPage
<1> QED
  BY <1>6, <1>7 DEF Page!Request

LEMMA FailedKeepsInv ==
  ASSUME PageInv, NEW s \in Slots, Page!Failed(s)
  PROVE  PageInv'
<1>1. PICK r \in Page!Request : r = sent[s] /\ RequestOk(r) /\ s \in Page!Pending
  BY RequestFacts DEF Page!Failed
<1>2. /\ r.stage = "failed" /\ Page!Becomes(s, None) /\ busySetting' \in {busySetting, None}
      /\ UNCHANGED <<stored, failures, relayed, changes, chosen, unsured, twice, mockEnabled,
                     mockListed, active, overlap, unasked, seen, unsure>>
  BY <1>1 DEF Page!Failed, Page!nodeVars
<1>3. Ended(s)
  BY <1>2, EndFacts
<1>4. unsure
  BY <1>1, <1>2 DEF PageInv, SureInv
<1>5. TalkOfPage'
  BY <1>1, <1>2, <1>3, <1>4, EndedKeeps
<1>6. Page!TypeOK'
  BY <1>2, <1>3 DEF PageInv, Page!TypeOK, Page!Busy, Ended
<1>7. Page!Detecting' = Page!Detecting /\ \A t \in Page!Detecting : sent'[t] = sent[t]
  BY <1>1, <1>2, <1>3 DEF Ended, Page!Detecting
<1>8. MockInv'
  BY <1>2, <1>7 DEF PageInv, MockInv
<1> QED
  BY <1>5, <1>6, <1>8 DEF PageInv, TalkOfPage

LEMMA ReopenKeepsInv ==
  ASSUME PageInv, Page!Reopen
  PROVE  PageInv'
<1>1. busySetting' = None /\ UNCHANGED <<stored, failures, relayed, changes, chosen, unsured,
        twice, mockEnabled, mockListed, active, overlap, unasked, seen, unsure, sent>>
  BY DEF Page!Reopen, Page!nodeVars
<1>2. Page!TypeOK'
  BY <1>1 DEF PageInv, Page!TypeOK, Page!Busy
<1>3. Page!Pending' = Page!Pending /\ Page!Detecting' = Page!Detecting
      /\ \A k : Waiting(k)' = Waiting(k)
  BY <1>1 DEF Page!Pending, Page!Detecting, Waiting
<1>4. RequestsInv' /\ SoleInv' /\ SureInv' /\ OnceInv' /\ MockInv'
  BY <1>1, <1>3 DEF PageInv, RequestsInv, RequestOk, SoleInv, HasAnswer, SureInv, OnceInv, MockInv
<1>5. ChosenInv' /\ MembersInv'
  BY <1>1, <1>3 DEF PageInv, ChosenInv, MembersInv
<1> QED
  BY <1>2, <1>4, <1>5 DEF PageInv

LEMMA CommandKeepsInv ==
  ASSUME PageInv, Page!Command
  PROVE  PageInv'
<1>1. PICK s \in Slots \ Page!Pending :
           Page!Detect(s, [does |-> "relay", key |-> None, value |-> {}, stage |-> "sent",
                           mock |-> FALSE, answer |-> None, alone |-> FALSE], TRUE)
  BY DEF Page!Command
<1>2. /\ relayed < MaxRelayed /\ relayed' = relayed + 1
      /\ UNCHANGED <<stored, failures, seen, busySetting, changes, chosen, unsure, unsured, twice>>
  BY DEF Page!Command, Page!Rest
<1> DEFINE new == [does |-> "relay", key |-> None, value |-> {}, stage |-> "sent",
                   mock |-> FALSE, answer |-> None, alone |-> FALSE]
<1>2a. /\ new \in Page!Request /\ new.does = "relay" /\ new.key = None /\ new.alone = FALSE
       /\ Page!Detect(s, new, TRUE)
  BY <1>1 DEF Page!Request, Page!Settings
<1> HIDE DEF new
<1> DEFINE q == [new EXCEPT !.stage = "detecting", !.mock = TRUE]
<1>3. /\ mockEnabled' = TRUE /\ Page!Becomes(s, q) /\ overlap' = (Page!Detecting # {})
      /\ UNCHANGED <<mockListed, active, unasked>>
  BY <1>2a DEF Page!Detect
<1>4. /\ q \in Page!Request /\ q.does = "relay" /\ q.key = None /\ q.stage = "detecting"
      /\ q.alone = FALSE /\ q.mock = TRUE
  BY <1>2a DEF Page!Request
<1> HIDE DEF q
<1>5. RequestOk(q) /\ ~HasAnswer(q)
  BY <1>4 DEF RequestOk, HasAnswer
<1>6. Turned(s, q)
  BY <1>3, <1>4, TurnFacts
<1>7. /\ Page!Pending' = Page!Pending \cup {s} /\ sent'[s] = q
      /\ \A t \in Page!Pending : t # s /\ sent'[t] = sent[t]
  BY <1>6 DEF Turned
<1>8. Page!TypeOK'
  <2>1. relayed' \in 0..MaxRelayed
    BY <1>2, PageAssumption DEF PageInv, Page!TypeOK, Page!SettingsAssumption
  <2> QED
    BY <1>2, <1>3, <1>6, <2>1 DEF PageInv, Page!TypeOK, Turned
<1>9. RequestsInv'
  <2> SUFFICES ASSUME NEW t \in Page!Pending' PROVE RequestOk(sent'[t])
    BY DEF RequestsInv, RequestOk
  <2> QED
    BY <1>5, <1>7 DEF PageInv, RequestsInv
<1>10. SoleInv'
  <2> SUFFICES ASSUME NEW t \in Page!Pending', sent'[t].alone
               PROVE  /\ \A x \in Page!Pending' : x # t => sent'[x].does = "relay"
                      /\ HasAnswer(sent'[t]) => sent'[t].answer = stored
    BY <1>2 DEF SoleInv, HasAnswer
  <2> QED
    BY <1>4, <1>7 DEF PageInv, SoleInv
<1>11. SureInv'
  <2>1. /\ unsure' => unsured'
        /\ failures' # 0 => unsured'
    BY <1>2 DEF PageInv, SureInv
  <2>2. \A t \in Page!Pending' : sent'[t].stage = "failed" => unsure'
    BY <1>2, <1>4, <1>7 DEF PageInv, SureInv
  <2>3. ASSUME ~unsure'
        PROVE  /\ \A t \in Page!Pending' : sent'[t].does # "relay" => sent'[t].alone
               /\ (\A t \in Page!Pending' : sent'[t].does = "patch" => sent'[t].stage = "sent") =>
                    seen' = stored'
    BY <1>2, <1>4, <1>7, <2>3 DEF PageInv, SureInv
  <2> QED
    BY <2>1, <2>2, <2>3 DEF SureInv
<1>12. OnceInv'
  <2> SUFFICES ASSUME NEW k \in Page!Key \ twice, NEW x \in Page!Pending', NEW t \in Page!Pending',
                      sent'[x].key = k, sent'[t].key = k
               PROVE  x = t
    BY <1>2 DEF OnceInv
  <2>1. k # None
    BY PageConstants
  <2> QED
    BY <1>4, <1>7, <2>1 DEF PageInv, OnceInv
<1>13. ASSUME NEW k \in Page!Key \cup {Page!Whole}
       PROVE  Waiting(k)' = Waiting(k) /\ \A t \in Waiting(k) : sent'[t] = sent[t]
  <2>1. Waiting(k)' = {t \in Page!Pending' : /\ sent'[t].does = "patch" /\ sent'[t].key = k
                                             /\ sent'[t].stage = "sent"}
    BY DEF Waiting
  <2> QED
    BY <1>4, <1>7, <2>1 DEF Waiting
<1>14. ChosenInv'
  <2> SUFFICES ASSUME failures = 0, NEW k \in Page!Key \ twice
               PROVE  /\ \A t \in Waiting(k)' : k \in sent'[t].value <=> k \in chosen
                      /\ Waiting(k)' = {} => (k \in stored <=> k \in chosen)
    BY <1>2 DEF ChosenInv
  <2> QED
    BY <1>13 DEF PageInv, ChosenInv
<1>15. MembersInv'
  <2> SUFFICES ASSUME ~unsured
               PROVE  /\ \A t \in Waiting(Page!Whole)' : sent'[t].value = chosen \cap Members
                      /\ Waiting(Page!Whole)' = {} => stored \cap Members = chosen \cap Members
    BY <1>2 DEF MembersInv
  <2> QED
    BY <1>13 DEF PageInv, MembersInv
<1>16. MockInv'
  <2> SUFFICES ASSUME Page!Detecting = {}
               PROVE  /\ \A x, t \in Page!Detecting' : x = t
                      /\ \A x \in Page!Detecting' :
                           /\ sent'[x].mock = mockEnabled'
                           /\ sent'[x].does # "relay" => (mockEnabled' <=> Page!Mock \in stored)
                      /\ Page!Detecting' # {}
    BY <1>2, <1>3 DEF MockInv
  <2>1. Page!Detecting' = {s}
    BY <1>4, <1>6 DEF Turned
  <2> QED
    BY <1>3, <1>4, <1>7, <2>1
<1> QED
  BY <1>8, <1>9, <1>10, <1>11, <1>12, <1>14, <1>15, <1>16 DEF PageInv

\* A change of settings reaches the node: all parts but those on the sets of the constants
\* and on the detection
LEMMA PatchedTalk ==
  ASSUME PageInv, NEW s \in Page!Pending, NEW q \in Page!Request, Turned(s, q),
         SameRequest(q, sent[s]), sent[s].does = "patch", sent[s].stage = "sent",
         q.stage \in {"detecting", "done"}, q.answer = stored', q.answer # None,
         stored' = (stored \ Page!Changed(sent[s].key)) \cup sent[s].value,
         UNCHANGED <<seen, chosen, twice, failures, unsure, unsured>>
  PROVE  TalkOfPage'
<1>1. RequestOk(sent[s])
  BY DEF PageInv, RequestsInv
<1>2. RequestOk(q)
  BY <1>1 DEF RequestOk, SameRequest
<1>3. /\ RequestsInv' /\ OnceInv' /\ OthersRelayed' /\ Page!Pending' = Page!Pending
      /\ \A k \in Page!Key \cup {Page!Whole} : Waiting(k)' = Waiting(k) \ {s}
      /\ \A t \in Page!Pending : /\ sent'[t].does = sent[t].does /\ sent'[t].key = sent[t].key
                                 /\ sent'[t].value = sent[t].value
                                 /\ sent'[t].alone = sent[t].alone
  BY <1>2, TurnKeeps
<1>4. sent'[s] = q /\ \A t \in Page!Pending : t # s => sent'[t] = sent[t]
  BY DEF Turned
<1>5. SoleInv'
  <2> SUFFICES ASSUME NEW t \in Page!Pending', sent'[t].alone
               PROVE  /\ \A x \in Page!Pending' : x # t => sent'[x].does = "relay"
                      /\ HasAnswer(sent'[t]) => sent'[t].answer = stored'
    BY DEF SoleInv, HasAnswer
  <2>1. \A x \in Page!Pending' : x # t => sent'[x].does = "relay"
    BY <1>3 DEF OthersRelayed
  <2>2. t = s
    BY <1>3, <2>1
  <2> QED
    BY <1>4, <2>1, <2>2
<1>6. SureInv'
  <2>1. /\ unsure' => unsured'
        /\ failures' # 0 => unsured'
    BY DEF PageInv, SureInv
  <2>2. \A t \in Page!Pending' : sent'[t].stage = "failed" => unsure'
    BY <1>3, <1>4 DEF PageInv, SureInv
  <2>3. ASSUME ~unsure'
        PROVE  /\ \A t \in Page!Pending' : sent'[t].does # "relay" => sent'[t].alone
               /\ (\A t \in Page!Pending' : sent'[t].does = "patch" => sent'[t].stage = "sent") =>
                    seen' = stored'
    <3>1. \A t \in Page!Pending' : sent'[t].does # "relay" => sent'[t].alone
      BY <1>3, <2>3 DEF PageInv, SureInv
    <3>2. sent'[s].does = "patch" /\ sent'[s].stage # "sent" /\ s \in Page!Pending'
      BY <1>3, <1>4
    <3> QED
      BY <3>1, <3>2
  <2> QED
    BY <2>1, <2>2, <2>3 DEF SureInv
<1>7. /\ sent[s].key \in Page!Key \cup {Page!Whole}
      /\ sent[s].value \subseteq Page!Changed(sent[s].key)
      /\ s \in Waiting(sent[s].key)
  BY <1>1 DEF RequestOk, Waiting
<1>8. ChosenInv'
  <2> SUFFICES ASSUME failures = 0, NEW k \in Page!Key \ twice
               PROVE  /\ \A t \in Waiting(k)' : k \in sent'[t].value <=> k \in chosen
                      /\ Waiting(k)' = {} => (k \in stored' <=> k \in chosen)
    BY DEF ChosenInv
  <2>1. /\ \A t \in Waiting(k) : k \in sent[t].value <=> k \in chosen
        /\ Waiting(k) = {} => (k \in stored <=> k \in chosen)
    BY DEF PageInv, ChosenInv
  <2>2. CASE sent[s].key = k
    <3>1. \A t \in Waiting(k) : t = s
      BY <2>2 DEF PageInv, OnceInv, Waiting
    <3>2. Waiting(k)' = {}
      BY <1>3, <3>1
    <3>3. k \in stored' <=> k \in sent[s].value
      BY <2>2, PageConstants DEF Page!Changed
    <3> QED
      BY <1>7, <2>1, <2>2, <3>2, <3>3
  <2>3. CASE sent[s].key # k
    <3>1. Waiting(k)' = Waiting(k) /\ \A t \in Waiting(k) : sent'[t].value = sent[t].value
      BY <1>3, <2>3 DEF Waiting
    <3>2. k \notin Page!Changed(sent[s].key)
      BY <1>7, <2>3, PageConstants DEF Page!Changed
    <3>3. k \in stored' <=> k \in stored
      BY <1>7, <3>2
    <3> QED
      BY <2>1, <3>1, <3>3
  <2> QED
    BY <2>2, <2>3
<1>9. MembersInv'
  <2> SUFFICES ASSUME ~unsured
               PROVE  /\ \A t \in Waiting(Page!Whole)' : sent'[t].value = chosen \cap Members
                      /\ Waiting(Page!Whole)' = {} => stored' \cap Members = chosen \cap Members
    BY DEF MembersInv
  <2>1. sent[s].alone
    BY DEF PageInv, SureInv
  <2>2. \A k \in Page!Key \cup {Page!Whole} : \A t \in Waiting(k) : t = s
    BY <2>1 DEF PageInv, SoleInv, Waiting
  <2>3. Waiting(Page!Whole)' = {}
    BY <1>3, <2>2
  <2>4. CASE sent[s].key = Page!Whole
    <3>1. sent[s].value = chosen \cap Members
      BY <1>7, <2>4 DEF PageInv, MembersInv
    <3>2. stored' \cap Members = sent[s].value
      BY <1>7, <2>4 DEF Page!Changed
    <3> QED
      BY <2>3, <3>1, <3>2
  <2>5. CASE sent[s].key # Page!Whole
    <3>1. Waiting(Page!Whole) = {}
      BY <2>2, <2>5 DEF Waiting
    <3>2. stored \cap Members = chosen \cap Members
      BY <3>1 DEF PageInv, MembersInv
    <3>3. Page!Changed(sent[s].key) \cap Members = {}
      BY <1>7, <2>5, PageConstants DEF Page!Changed
    <3> QED
      BY <1>7, <2>3, <3>2, <3>3
  <2> QED
    BY <2>4, <2>5
<1> QED
  BY <1>3, <1>5, <1>6, <1>8, <1>9 DEF TalkOfPage

LEMMA PatchKeepsInv ==
  ASSUME PageInv, NEW s \in Slots, Page!Patch(s)
  PROVE  PageInv'
<1>1. PICK r \in Page!Request : r = sent[s] /\ RequestOk(r) /\ s \in Page!Pending
  BY RequestFacts DEF Page!Patch
<1> DEFINE next == (stored \ Page!Changed(r.key)) \cup r.value
<1>2. /\ r.stage = "sent" /\ r.does = "patch" /\ stored' = next
      /\ IF (Page!Mock \in next) # (Page!Mock \in stored)
         THEN Page!Detect(s, [r EXCEPT !.answer = next], Page!Mock \in next)
         ELSE /\ Page!Becomes(s, [r EXCEPT !.stage = "done", !.answer = next])
              /\ Page!NoDetection
      /\ UNCHANGED <<failures, relayed, seen, busySetting, changes, chosen, unsure, unsured,
                     twice>>
  BY <1>1 DEF Page!Patch, Page!Updated, Page!Rest
<1>3. stored' \in Page!Settings /\ stored' # None
  <2>1. stored \in Page!Settings /\ r.value \in Page!Settings
    BY DEF PageInv, Page!TypeOK, Page!Request
  <2>2. next \in Page!Settings
    BY <2>1 DEF Page!Settings
  <2> QED
    BY <1>2, <2>2, PageConstants
<1> HIDE DEF next
<1>4. CASE (Page!Mock \in next) # (Page!Mock \in stored)
  <2>1. PICK b \in BOOLEAN : b = (Page!Mock \in next)
    <3>1. CASE Page!Mock \in next
      BY <3>1, TRUE = (Page!Mock \in next), TRUE \in BOOLEAN, Zenon
    <3>2. CASE Page!Mock \notin next
      BY <3>2, FALSE = (Page!Mock \in next), FALSE \in BOOLEAN, Zenon
    <3> QED
      BY <3>1, <3>2
  <2> DEFINE q == [[r EXCEPT !.answer = next] EXCEPT !.stage = "detecting", !.mock = b]
  <2>2. /\ mockEnabled' = b /\ Page!Becomes(s, q) /\ overlap' = (Page!Detecting # {})
        /\ UNCHANGED <<mockListed, active, unasked>>
    BY <1>2, <1>4, <2>1 DEF Page!Detect
  <2>3. /\ q \in Page!Request /\ SameRequest(q, r) /\ q.stage = "detecting" /\ q.mock = b
        /\ q.answer = next
    BY <1>2, <1>3 DEF Page!Request, SameRequest
  <2> HIDE DEF q
  <2>4. Turned(s, q)
    BY <2>2, <2>3, TurnFacts
  <2>5. TalkOfPage'
    BY <1>1, <1>2, <1>3, <2>3, <2>4, PatchedTalk DEF next
  <2>6. Page!TypeOK'
    BY <1>2, <1>3, <2>2, <2>4 DEF PageInv, Page!TypeOK, Turned
  <2>7. MockInv'
    <3> SUFFICES ASSUME Page!Detecting = {}
                 PROVE  /\ \A x, t \in Page!Detecting' : x = t
                        /\ \A x \in Page!Detecting' :
                             /\ sent'[x].mock = mockEnabled'
                             /\ sent'[x].does # "relay" =>
                                  (mockEnabled' <=> Page!Mock \in stored')
                        /\ Page!Detecting' # {}
      BY <2>2 DEF MockInv
    <3>1. Page!Detecting' = {s} /\ sent'[s] = q
      BY <2>3, <2>4 DEF Turned
    <3> QED
      BY <1>2, <2>1, <2>2, <2>3, <3>1
  <2> QED
    BY <2>5, <2>6, <2>7 DEF PageInv, TalkOfPage
<1>5. CASE (Page!Mock \in next) = (Page!Mock \in stored)
  <2> DEFINE q == [r EXCEPT !.stage = "done", !.answer = next]
  <2>1. Page!Becomes(s, q) /\ UNCHANGED <<mockEnabled, mockListed, active, overlap, unasked>>
    BY <1>2, <1>5 DEF Page!NoDetection
  <2>2. q \in Page!Request /\ SameRequest(q, r) /\ q.stage = "done" /\ q.answer = next
    BY <1>2, <1>3 DEF Page!Request, SameRequest
  <2> HIDE DEF q
  <2>3. Turned(s, q)
    BY <2>1, <2>2, TurnFacts
  <2>4. TalkOfPage'
    BY <1>1, <1>2, <1>3, <2>2, <2>3, PatchedTalk DEF next
  <2>5. Page!TypeOK'
    BY <1>2, <1>3, <2>1, <2>3 DEF PageInv, Page!TypeOK, Turned
  <2>6. Page!Detecting' = Page!Detecting /\ \A t \in Page!Detecting : sent'[t] = sent[t]
    BY <1>1, <1>2, <2>2, <2>3 DEF Turned, Page!Detecting
  <2>7. MockInv'
    BY <1>2, <1>5, <2>1, <2>6 DEF PageInv, MockInv
  <2> QED
    BY <2>4, <2>5, <2>7 DEF PageInv, TalkOfPage
<1> QED
  BY <1>4, <1>5

LEMMA NextPageInv == PageInv /\ (Page!Next \/ UNCHANGED pageVars) => PageInv'
<1> SUFFICES ASSUME PageInv, Page!Next \/ UNCHANGED pageVars PROVE PageInv'
  OBVIOUS
<1>1. CASE \/ \E k \in Page!Key : Page!UpdateSetting(k)
           \/ \E m \in Members : Page!UpdateMember(m)
           \/ Page!RunProviderRefresh \/ Page!Other \/ Page!HandleScanProviders
  BY <1>1, PageAsksKeepInv
<1>2. CASE Page!Reopen \/ Page!Command
  BY <1>2, ReopenKeepsInv, CommandKeepsInv
<1>3. ASSUME NEW s \in Slots,
             \/ Page!Patch(s) \/ Page!Refresh(s) \/ Page!Detected(s) \/ Page!OtherDone(s)
             \/ Page!Fail(s) \/ Page!Answered(s) \/ Page!Failed(s)
      PROVE  PageInv'
  BY <1>3, PatchKeepsInv, RefreshKeepsInv, DetectedKeepsInv, OtherDoneKeepsInv, FailKeepsInv,
     AnsweredKeepsInv, FailedKeepsInv
<1>4. CASE UNCHANGED pageVars
  <2>1. UNCHANGED <<stored, failures, relayed, changes, chosen, unsured, twice, mockEnabled,
                    mockListed, active, overlap, unasked, seen, unsure, sent, busySetting>>
    BY <1>4 DEF pageVars
  <2>2. Page!TypeOK'
    BY <2>1 DEF PageInv, Page!TypeOK
  <2>3. /\ Page!Pending' = Page!Pending /\ Page!Detecting' = Page!Detecting
        /\ \A k : Waiting(k)' = Waiting(k)
    BY <2>1 DEF Page!Pending, Page!Detecting, Waiting
  <2>4. RequestsInv' /\ SoleInv' /\ SureInv' /\ OnceInv' /\ MockInv'
    BY <2>1, <2>3
    DEF PageInv, RequestsInv, RequestOk, SoleInv, HasAnswer, SureInv, OnceInv, MockInv
  <2>5. ChosenInv' /\ MembersInv'
    BY <2>1, <2>3 DEF PageInv, ChosenInv, MembersInv
  <2> QED
    BY <2>2, <2>4, <2>5 DEF PageInv
<1> QED
  BY <1>1, <1>2, <1>3, <1>4 DEF Page!Next

LEMMA PageInvariance == SafetySpec => []PageInv
<1>1. SafetyInit => PageInv
  BY InitPageInv DEF SafetyInit
<1>2. PageInv /\ [SafetyNext]_safetyVars => PageInv'
  <2> SUFFICES ASSUME PageInv, [SafetyNext]_safetyVars PROVE PageInv'
    OBVIOUS
  <2>1. Page!Next \/ UNCHANGED pageVars
    BY DEF SafetyNext, safetyVars
  <2> QED
    BY <2>1, NextPageInv
<1> QED
  BY <1>1, <1>2, PTL DEF SafetySpec

\* The parts of the page's promises follow from its invariant.
LEMMA PageShows ==
  PageInv => Page!ShowsSettings /\ Page!ChoicesAreKept /\ Page!MockFollowsSetting
<1> SUFFICES ASSUME PageInv
             PROVE  Page!ShowsSettings /\ Page!ChoicesAreKept /\ Page!MockFollowsSetting
  OBVIOUS
<1>1. Page!ShowsSettings
  BY DEF PageInv, SureInv, Page!ShowsSettings, Page!Idle
<1>2. Page!ChoicesAreKept
  <2>1. Page!Idle => \A k : Waiting(k) = {}
    BY DEF Page!Idle, Waiting
  <2> QED
    BY <2>1 DEF PageInv, ChosenInv, MembersInv, Page!ChoicesAreKept
<1>3. Page!MockFollowsSetting
  <2>1. Page!Idle => Page!Detecting = {}
    BY DEF Page!Idle, Page!Detecting
  <2> QED
    BY <2>1 DEF PageInv, MockInv, Page!MockFollowsSetting
<1> QED
  BY <1>1, <1>2, <1>3

----------------------------------------------------------------------------
(* The library of a node, and the studio that shows it (ArtStudio) *)

\* What a request is made of
AskOk(r) ==
  /\ r.does = "clear" => r.to \in SUBSET Assets
  /\ r.does = "pass" => r.what \in Studio!Category
  /\ r.does = "place" => r.what \in Assets
  /\ r.stage = "done" /\ r.does # "auth" => r.answer # None

\* A request that is alone is the only one, and its answer is the library of the node.
LoneAsksInv ==
  \A s \in Studio!Pending :
    /\ AskOk(asks[s])
    /\ asks[s].alone =>
         /\ \A t \in Studio!Pending : t = s
         /\ asks[s].does # "auth" /\ asks[s].answer # None => asks[s].answer = artStored

\* A pass that has deleted something, which is not shown yet
HalfDone(r) == r.does = "clear" /\ r.answer # None

\* Unless there is doubt, a request is alone, and the library that is shown is that of
\* the node until the answer to a request that changed it has come.
ShownInvOfArt ==
  ~doubt =>
    /\ \A s \in Studio!Pending :
         /\ asks[s].alone
         /\ asks[s].does = "auth" => asks[s].answer = artShown
         /\ artShown # None /\ ~HalfDone(asks[s]) /\ (asks[s].stage = "done" => asks[s].does = "auth")
              => artShown = artStored
    /\ Studio!Pending = {} /\ artShown # None => artShown = artStored

\* A placement that was drawn for the asset it is of
Drawn(lib) == \A m \in Assets : lib.placed[m] \in {None, m}

\* The draft is of the asset that is shown, and so is a drag, unless another came to be
\* shown under it.
DrawnInv ==
  /\ draft.asset = Studio!Reset(artShown).asset
  /\ ~moved =>
       /\ Drawn(artStored) /\ (artShown # None => Drawn(artShown))
       /\ draft.to \in {None, draft.asset} /\ drag \in {None, draft.asset}
       /\ \A s \in Studio!Pending :
            /\ asks[s].does = "place" => asks[s].to \in {None, asks[s].what}
            /\ asks[s].answer # None => Drawn(asks[s].answer)

StudioInv == Studio!TypeOK /\ LoneAsksInv /\ ShownInvOfArt /\ DrawnInv

\* What is known of the constants
LEMMA StudioConstants ==
  /\ Seeds \subseteq Assets /\ Seeds # {} /\ NumCategories \in Nat \ {0}
  /\ None \notin Assets /\ None \notin Studio!Library /\ None \notin Studio!Request
  /\ MaxClicks \in Nat /\ MaxCopies \in Nat /\ MaxFailures \in Nat
BY StudioAssumption DEF Studio!ArtStudioAssumption

\* What a library's draft is
LEMMA ResetFacts ==
  ASSUME NEW lib \in Studio!Library \cup {None}
  PROVE  /\ Studio!Reset(lib) \in [asset : Assets \cup {None}, to : Studio!Placement]
         /\ lib # None => Studio!Reset(lib).asset = lib.chosen
         /\ lib = None => Studio!Reset(lib).asset = None
         /\ lib # None /\ Drawn(lib) =>
              Studio!Reset(lib).to \in {None, Studio!Reset(lib).asset}
<1>1. CASE lib = None \/ lib.chosen = None
  <2>1. Studio!Reset(lib) = [asset |-> None, to |-> None]
    BY <1>1 DEF Studio!Reset, Studio!Draft
  <2> QED
    BY <1>1, <2>1 DEF Studio!Placement
<1>2. CASE lib # None /\ lib.chosen # None
  <2>1. /\ Studio!Reset(lib) = [asset |-> lib.chosen, to |-> lib.placed[lib.chosen]]
        /\ lib \in Studio!Library
    BY <1>2 DEF Studio!Reset, Studio!Draft
  <2>2. /\ lib.chosen \in Assets /\ lib.placed \in [Assets -> Studio!Placement]
    BY <1>2, <2>1 DEF Studio!Library
  <2> QED
    BY <1>2, <2>1, <2>2 DEF Drawn
<1> QED
  BY <1>1, <1>2

LEMMA InitStudioInv == Studio!Init => StudioInv
<1> SUFFICES ASSUME Studio!Init PROVE StudioInv
  OBVIOUS
<1>1. Studio!Pending = {}
  BY DEF Studio!Init, Studio!Pending
<1>2. (CHOOSE m \in Seeds : TRUE) \in Assets
  BY StudioConstants
<1>3. artStored \in Studio!Library /\ Drawn(artStored)
  <2> DEFINE first == CHOOSE m \in Seeds : TRUE
  <2>1. artStored = [profiles |-> [a \in StudioAgents |-> 0], assets |-> Seeds,
                     chosen |-> first, references |-> {}, placed |-> [m \in Assets |-> None]]
    BY DEF Studio!Init
  <2> HIDE DEF first
  <2>2. first \in Assets
    BY <1>2 DEF first
  <2>3. [a \in StudioAgents |-> 0] \in [StudioAgents -> 0..MaxCopies]
    BY StudioConstants
  <2>4. [m \in Assets |-> None] \in [Assets -> Studio!Placement]
    BY DEF Studio!Placement
  <2>5. artStored \in Studio!Library
    BY <2>1, <2>2, <2>3, <2>4, StudioConstants DEF Studio!Library
  <2> QED
    BY <2>1, <2>5 DEF Drawn
<1>4. artShown \in {artStored, None} /\ draft = Studio!Reset(artShown)
  BY DEF Studio!Init
<1>5. /\ draft \in [asset : Assets \cup {None}, to : Studio!Placement]
      /\ artShown # None => draft.to \in {None, draft.asset}
      /\ artShown = None => draft.to = None
  BY <1>3, <1>4, ResetFacts DEF Studio!Reset, Studio!Draft
<1>6. Studio!TypeOK
  <2>1. clicks \in 0..MaxClicks /\ losses \in 0..MaxFailures
    BY StudioConstants DEF Studio!Init
  <2> QED
    BY <1>3, <1>4, <1>5, <2>1 DEF Studio!Init, Studio!TypeOK
<1>7. LoneAsksInv /\ ShownInvOfArt
  BY <1>1, <1>4 DEF LoneAsksInv, ShownInvOfArt
<1>8. DrawnInv
  BY <1>1, <1>3, <1>4, <1>5 DEF Studio!Init, DrawnInv
<1> QED
  BY <1>6, <1>7, <1>8 DEF StudioInv

\* Slot s gets a request, and none that was there remains alone.
Begins(s, does, what, to) ==
  /\ asks' \in [Slots -> Studio!Request \cup {None}]
  /\ Studio!Pending' = Studio!Pending \cup {s}
  /\ asks'[s].does = does /\ asks'[s].what = what /\ asks'[s].to = to
  /\ asks'[s].stage = "sent" /\ asks'[s].answer = (IF does = "auth" THEN artShown ELSE None)
  /\ asks'[s].alone = (Studio!Pending = {})
  /\ \A t \in Studio!Pending :
       /\ asks'[t].does = asks[t].does /\ asks'[t].what = asks[t].what
       /\ asks'[t].to = asks[t].to /\ asks'[t].stage = asks[t].stage
       /\ asks'[t].answer = asks[t].answer /\ asks'[t].alone = FALSE

LEMMA BeginFacts ==
  ASSUME StudioInv, NEW does \in Studio!Does,
         NEW what \in StudioAgents \cup Assets \cup Studio!Category \cup {None},
         NEW to \in (SUBSET Assets) \cup Studio!Placement,
         Studio!RunAction(does, what, to)
  PROVE  \E s \in Slots \ Studio!Pending : Begins(s, does, what, to)
<1>1. PICK s \in Slots \ Studio!Pending :
        asks' = [t \in Slots |->
          IF t = s
          THEN [does |-> does, what |-> what, to |-> to, stage |-> "sent",
                answer |-> IF does = "auth" THEN artShown ELSE None, made |-> TRUE,
                alone |-> Studio!Pending = {}]
          ELSE IF t \in Studio!Pending THEN [asks[t] EXCEPT !.alone = FALSE] ELSE None]
  BY DEF Studio!RunAction
<1>2. PICK b \in BOOLEAN : b = (Studio!Pending = {})
  OBVIOUS
<1>3. PICK a \in Studio!Library \cup {None} : a = IF does = "auth" THEN artShown ELSE None
  BY DEF StudioInv, Studio!TypeOK
<1> DEFINE new == [does |-> does, what |-> what, to |-> to, stage |-> "sent",
                   answer |-> a, made |-> TRUE, alone |-> b]
<1>4. /\ new \in Studio!Request /\ new # None
      /\ new.does = does /\ new.what = what /\ new.to = to /\ new.stage = "sent"
      /\ new.answer = a /\ new.alone = b
  <2>1. new \in Studio!Request
    BY DEF Studio!Request
  <2> QED
    BY <2>1, StudioConstants
<1>5. \A r \in Studio!Request :
        /\ [r EXCEPT !.alone = FALSE] \in Studio!Request
        /\ [r EXCEPT !.alone = FALSE] # None
        /\ [r EXCEPT !.alone = FALSE].does = r.does
        /\ [r EXCEPT !.alone = FALSE].what = r.what
        /\ [r EXCEPT !.alone = FALSE].to = r.to
        /\ [r EXCEPT !.alone = FALSE].stage = r.stage
        /\ [r EXCEPT !.alone = FALSE].answer = r.answer
        /\ [r EXCEPT !.alone = FALSE].alone = FALSE
  <2> SUFFICES ASSUME NEW r \in Studio!Request
               PROVE  /\ [r EXCEPT !.alone = FALSE] \in Studio!Request
                      /\ [r EXCEPT !.alone = FALSE].does = r.does
                      /\ [r EXCEPT !.alone = FALSE].what = r.what
                      /\ [r EXCEPT !.alone = FALSE].to = r.to
                      /\ [r EXCEPT !.alone = FALSE].stage = r.stage
                      /\ [r EXCEPT !.alone = FALSE].answer = r.answer
                      /\ [r EXCEPT !.alone = FALSE].alone = FALSE
    BY StudioConstants
  <2> QED
    BY DEF Studio!Request
<1>6. \A t \in Studio!Pending : asks[t] \in Studio!Request
  BY DEF StudioInv, Studio!TypeOK, Studio!Pending
<1>7. asks' = [t \in Slots |-> IF t = s THEN new
                               ELSE IF t \in Studio!Pending THEN [asks[t] EXCEPT !.alone = FALSE]
                               ELSE None]
  BY <1>1, <1>2, <1>3
<1> HIDE DEF new
<1>8. /\ asks'[s] = new
      /\ \A t \in Studio!Pending : asks'[t] = [asks[t] EXCEPT !.alone = FALSE]
      /\ \A t \in Slots : t # s /\ t \notin Studio!Pending => asks'[t] = None
  BY <1>7 DEF Studio!Pending
<1>9. \A t \in Studio!Pending :
        /\ asks'[t] # None
        /\ asks'[t].does = asks[t].does /\ asks'[t].what = asks[t].what
        /\ asks'[t].to = asks[t].to /\ asks'[t].stage = asks[t].stage
        /\ asks'[t].answer = asks[t].answer /\ asks'[t].alone = FALSE
  <2> TAKE t \in Studio!Pending
  <2>1. PICK r \in Studio!Request : r = asks[t]
    BY <1>6
  <2>2. asks'[t] = [r EXCEPT !.alone = FALSE]
    BY <1>8, <2>1
  <2> QED
    BY <1>5, <2>1, <2>2
<1>10. asks' \in [Slots -> Studio!Request \cup {None}]
  BY <1>4, <1>5, <1>6, <1>7
<1>11. Studio!Pending' = Studio!Pending \cup {s}
  <2>1. Studio!Pending' = {t \in Slots : asks'[t] # None}
    BY DEF Studio!Pending
  <2>2. \A t \in Studio!Pending : t \in Slots
    BY DEF Studio!Pending
  <2> QED
    BY <1>4, <1>8, <1>9, <2>1, <2>2
<1>12. /\ asks'[s].does = does /\ asks'[s].what = what /\ asks'[s].to = to
       /\ asks'[s].stage = "sent" /\ asks'[s].answer = a
       /\ asks'[s].alone = (Studio!Pending = {})
  BY <1>2, <1>4, <1>8
<1> QED
  BY <1>3, <1>9, <1>10, <1>11, <1>12 DEF Begins

\* The request of slot s becomes q, and the others remain.
AskTurned(s, q) ==
  /\ asks' \in [Slots -> Studio!Request \cup {None}]
  /\ asks'[s] = q /\ Studio!Pending' = Studio!Pending \cup {s}
  /\ \A t \in Studio!Pending : t # s => asks'[t] = asks[t]

LEMMA AskTurnFacts ==
  ASSUME StudioInv, NEW s \in Slots, NEW q \in Studio!Request, asks' = [asks EXCEPT ![s] = q]
  PROVE  AskTurned(s, q)
<1>1. asks \in [Slots -> Studio!Request \cup {None}] /\ None \notin Studio!Request
  BY StudioConstants DEF StudioInv, Studio!TypeOK
<1>2. /\ asks' \in [Slots -> Studio!Request \cup {None}] /\ asks'[s] = q
      /\ \A t \in Slots : t # s => asks'[t] = asks[t]
  BY <1>1
<1>3. Studio!Pending' = {t \in Slots : asks'[t] # None}
  BY DEF Studio!Pending
<1> QED
  BY <1>1, <1>2, <1>3 DEF AskTurned, Studio!Pending

\* The request of slot s has ended, and the others remain.
AskEnded(s) ==
  /\ asks' \in [Slots -> Studio!Request \cup {None}]
  /\ Studio!Pending' = Studio!Pending \ {s}
  /\ \A t \in Studio!Pending : t # s => asks'[t] = asks[t]

LEMMA AskEndFacts ==
  ASSUME StudioInv, NEW s \in Slots, asks' = [asks EXCEPT ![s] = None]
  PROVE  AskEnded(s)
<1>1. asks \in [Slots -> Studio!Request \cup {None}]
  BY DEF StudioInv, Studio!TypeOK
<1>2. /\ asks' \in [Slots -> Studio!Request \cup {None}] /\ asks'[s] = None
      /\ \A t \in Slots : t # s => asks'[t] = asks[t]
  BY <1>1
<1>3. Studio!Pending' = {t \in Slots : asks'[t] # None}
  BY DEF Studio!Pending
<1> QED
  BY <1>1, <1>2, <1>3 DEF AskEnded, Studio!Pending

\* What is known of a request under way
LEMMA AskFacts ==
  ASSUME StudioInv, NEW s \in Slots, asks[s] # None
  PROVE  s \in Studio!Pending /\ asks[s] \in Studio!Request /\ AskOk(asks[s])
<1>1. s \in Studio!Pending
  BY DEF Studio!Pending
<1> QED
  BY <1>1 DEF StudioInv, Studio!TypeOK, LoneAsksInv

\* A request as the studio makes it
Wants(does, what, to) ==
  /\ Studio!RunAction(does, what, to)
  /\ does = "clear" => to \in SUBSET Assets
  /\ does = "pass" => what \in Studio!Category
  /\ does = "place" => what \in Assets /\ (~moved => to \in {None, what})
  /\ clicks' \in 0..MaxClicks /\ editor' \in {"closed", "open", "asking"}
  /\ UNCHANGED <<artStored, artShown, offered, draft, drag, losses, moved>>

LEMMA WantKeepsInv ==
  ASSUME StudioInv, NEW does \in Studio!Does,
         NEW what \in StudioAgents \cup Assets \cup Studio!Category \cup {None},
         NEW to \in (SUBSET Assets) \cup Studio!Placement,
         Wants(does, what, to)
  PROVE  StudioInv'
<1>1. /\ Studio!RunAction(does, what, to)
      /\ does = "clear" => to \in SUBSET Assets
      /\ does = "pass" => what \in Studio!Category
      /\ does = "place" => what \in Assets /\ (~moved => to \in {None, what})
      /\ clicks' \in 0..MaxClicks /\ editor' \in {"closed", "open", "asking"}
      /\ UNCHANGED <<artStored, artShown, offered, draft, drag, losses, moved>>
  BY DEF Wants
<1>2. PICK s \in Slots \ Studio!Pending : Begins(s, does, what, to)
  BY <1>1, BeginFacts
<1>3. /\ asks' \in [Slots -> Studio!Request \cup {None}]
      /\ Studio!Pending' = Studio!Pending \cup {s}
      /\ asks'[s].does = does /\ asks'[s].what = what /\ asks'[s].to = to
      /\ asks'[s].stage = "sent" /\ asks'[s].answer = (IF does = "auth" THEN artShown ELSE None)
      /\ asks'[s].alone = (Studio!Pending = {})
      /\ \A t \in Studio!Pending :
           /\ asks'[t].does = asks[t].does /\ asks'[t].what = asks[t].what
           /\ asks'[t].to = asks[t].to /\ asks'[t].stage = asks[t].stage
           /\ asks'[t].answer = asks[t].answer /\ asks'[t].alone = FALSE
  BY <1>2 DEF Begins
<1>4. /\ working' = TRUE
      /\ doubt' = (doubt \/ Studio!Pending # {}) /\ doubted' = (doubted \/ Studio!Pending # {})
  BY <1>1 DEF Studio!RunAction, Studio!Doubt
<1>5. Studio!TypeOK'
  <2>1. doubt' \in BOOLEAN /\ doubted' \in BOOLEAN
    BY <1>4 DEF StudioInv, Studio!TypeOK
  <2> QED
    BY <1>1, <1>3, <1>4, <2>1 DEF StudioInv, Studio!TypeOK
<1>6. LoneAsksInv'
  <2> SUFFICES ASSUME NEW t \in Studio!Pending'
               PROVE  /\ AskOk(asks'[t])
                      /\ asks'[t].alone =>
                           /\ \A x \in Studio!Pending' : x = t
                           /\ asks'[t].does # "auth" /\ asks'[t].answer # None =>
                                asks'[t].answer = artStored
    BY <1>1 DEF LoneAsksInv, AskOk
  <2>1. CASE t = s
    BY <1>1, <1>3, <2>1 DEF AskOk
  <2>2. CASE t \in Studio!Pending
    BY <1>3, <2>2 DEF StudioInv, LoneAsksInv, AskOk
  <2> QED
    BY <1>3, <2>1, <2>2
<1>7. ShownInvOfArt'
  <2> SUFFICES ASSUME ~doubt'
               PROVE  /\ \A t \in Studio!Pending' :
                           /\ asks'[t].alone
                           /\ asks'[t].does = "auth" => asks'[t].answer = artShown
                           /\ artShown # None => artShown = artStored
                      /\ Studio!Pending' # {}
    BY <1>1 DEF ShownInvOfArt
  <2>1. Studio!Pending = {} /\ ~doubt
    BY <1>4
  <2> QED
    BY <1>3, <2>1 DEF StudioInv, ShownInvOfArt
<1>8. DrawnInv'
  <2>1. draft'.asset = Studio!Reset(artShown').asset
    BY <1>1 DEF StudioInv, DrawnInv
  <2>2. ASSUME ~moved
        PROVE  /\ Drawn(artStored) /\ (artShown # None => Drawn(artShown))
               /\ draft.to \in {None, draft.asset} /\ drag \in {None, draft.asset}
               /\ \A t \in Studio!Pending' :
                    /\ asks'[t].does = "place" => asks'[t].to \in {None, asks'[t].what}
                    /\ asks'[t].answer # None => Drawn(asks'[t].answer)
    BY <1>1, <1>3, <2>2 DEF StudioInv, DrawnInv
  <2> QED
    BY <1>1, <2>1, <2>2 DEF DrawnInv, Drawn
<1> QED
  BY <1>5, <1>6, <1>7, <1>8 DEF StudioInv

LEMMA StudioAsksKeepInv ==
  ASSUME StudioInv,
         \/ Studio!ClickAsset \/ Studio!LoadLibrary \/ Studio!ChangeOther
         \/ Studio!RemoveProfile \/ Studio!UploadAsset \/ Studio!Authorize
         \/ Studio!ClearProfileDefaults \/ Studio!GenerateMore \/ Studio!GenerateAllCategories
         \/ Studio!SyncAgentProfile \/ Studio!SavePlacement
  PROVE  StudioInv'
<1>1. /\ clicks \in 0..MaxClicks /\ editor \in {"closed", "open", "asking"}
      /\ artShown \in Studio!Library \cup {None} /\ None \notin Assets
      /\ MaxClicks \in Nat /\ 1 \in Studio!Category
      /\ Seeds \subseteq Assets
  BY StudioConstants DEF StudioInv, Studio!TypeOK, Studio!Category
<1>2. ASSUME artShown # None
      PROVE  /\ artShown.assets \subseteq Assets /\ artShown.references \subseteq Assets
             /\ artShown.chosen \in Assets \cup {None}
             /\ draft.asset = artShown.chosen
  BY <1>1, <1>2, ResetFacts DEF Studio!Library, StudioInv, DrawnInv
<1>3. ASSUME NEW does \in Studio!Does,
             NEW what \in StudioAgents \cup Assets \cup Studio!Category \cup {None},
             NEW to \in (SUBSET Assets) \cup Studio!Placement,
             does = "clear" => to \in SUBSET Assets,
             does = "pass" => what \in Studio!Category,
             does = "place" => what \in Assets /\ (~moved => to \in {None, what}),
             Studio!UserRuns(does, what, to), UNCHANGED draft,
             editor' \in {"closed", "open", "asking"}
      PROVE  StudioInv'
  <2>1. clicks' \in 0..MaxClicks
    BY <1>1, <1>3 DEF Studio!UserRuns
  <2>2. Wants(does, what, to)
    BY <1>3, <2>1 DEF Wants, Studio!UserRuns
  <2> QED
    BY <2>2, WantKeepsInv
<1>4. CASE Studio!ClickAsset
  <2>1. UNCHANGED draft /\ editor' \in {"closed", "open", "asking"} /\ artShown # None
    BY <1>1, <1>4 DEF Studio!ClickAsset
  <2>2. PICK m \in artShown.assets :
           \/ Studio!UserRuns("choose", m, None)
           \/ Studio!UserRuns("toggle", m, Studio!Toggled(artShown, m))
           \/ Studio!UserRuns("delete", m, None)
    BY <1>4 DEF Studio!ClickAsset
  <2>3. /\ m \in StudioAgents \cup Assets \cup Studio!Category \cup {None}
        /\ None \in (SUBSET Assets) \cup Studio!Placement
        /\ Studio!Toggled(artShown, m) \in (SUBSET Assets) \cup Studio!Placement
    BY <1>2, <2>1 DEF Studio!Toggled, Studio!Placement
  <2>4. "choose" \in Studio!Does /\ "toggle" \in Studio!Does /\ "delete" \in Studio!Does
    BY DEF Studio!Does
  <2> QED
    BY <1>3, <2>1, <2>2, <2>3, <2>4
<1>5. CASE \/ Studio!LoadLibrary \/ Studio!ChangeOther \/ Studio!RemoveProfile
           \/ Studio!UploadAsset \/ Studio!Authorize \/ Studio!GenerateMore
           \/ Studio!GenerateAllCategories
  <2>1. UNCHANGED draft /\ editor' \in {"closed", "open", "asking"}
    BY <1>1, <1>5 DEF Studio!LoadLibrary, Studio!ChangeOther, Studio!RemoveProfile,
       Studio!UploadAsset, Studio!Authorize, Studio!GenerateMore, Studio!GenerateAllCategories
  <2>2. PICK does \in {"load", "remove", "generate", "auth", "pass"},
             what \in StudioAgents \cup {1, None} :
          /\ Studio!UserRuns(does, what, None)
          /\ does = "pass" => what = 1
    BY <1>5 DEF Studio!LoadLibrary, Studio!ChangeOther, Studio!RemoveProfile,
       Studio!UploadAsset, Studio!Authorize, Studio!GenerateMore, Studio!GenerateAllCategories
  <2>3. /\ does \in Studio!Does /\ does # "clear" /\ does # "place"
        /\ what \in StudioAgents \cup Assets \cup Studio!Category \cup {None}
        /\ None \in (SUBSET Assets) \cup Studio!Placement
    BY <1>1 DEF Studio!Does, Studio!Placement
  <2> QED
    BY <1>1, <1>3, <2>1, <2>2, <2>3
<1>6. CASE Studio!ClearProfileDefaults
  <2> DEFINE seeds == artShown.assets \cap Seeds
  <2>1. /\ UNCHANGED draft /\ editor' \in {"closed", "open", "asking"}
        /\ \E first \in seeds : Studio!UserRuns("clear", first, seeds \ {first})
    BY <1>1, <1>6 DEF Studio!ClearProfileDefaults
  <2> HIDE DEF seeds
  <2>2. seeds \subseteq Assets
    BY <1>1 DEF seeds
  <2>3. PICK first \in seeds : Studio!UserRuns("clear", first, seeds \ {first})
    BY <2>1
  <2>4. /\ "clear" \in Studio!Does /\ seeds \ {first} \in SUBSET Assets
        /\ first \in StudioAgents \cup Assets \cup Studio!Category \cup {None}
    BY <2>2 DEF Studio!Does
  <2> QED
    BY <1>3, <2>1, <2>3, <2>4
<1>7. CASE Studio!SyncAgentProfile
  <2>1. PICK a \in StudioAgents : Studio!RunAction("sync", a, None)
    BY <1>7 DEF StudioInv, Studio!TypeOK, Studio!SyncAgentProfile, Studio!Missing
  <2>2. /\ "sync" \in Studio!Does /\ None \in (SUBSET Assets) \cup Studio!Placement
        /\ a \in StudioAgents \cup Assets \cup Studio!Category \cup {None}
    BY DEF Studio!Does, Studio!Placement
  <2>3. Wants("sync", a, None)
    BY <1>1, <1>7, <2>1 DEF Wants, Studio!SyncAgentProfile
  <2> QED
    BY <2>2, <2>3, WantKeepsInv
<1>8. CASE Studio!SavePlacement
  <2>1. /\ Studio!UserRuns("place", artShown.chosen, draft.to) /\ UNCHANGED draft
        /\ editor' = "closed" /\ artShown # None /\ artShown.chosen # None
    BY <1>8 DEF Studio!SavePlacement
  <2>2. /\ "place" \in Studio!Does /\ draft.to \in (SUBSET Assets) \cup Studio!Placement
        /\ artShown.chosen \in Assets
        /\ artShown.chosen \in StudioAgents \cup Assets \cup Studio!Category \cup {None}
        /\ ~moved => draft.to \in {None, artShown.chosen}
    BY <1>2, <2>1 DEF Studio!Does, StudioInv, Studio!TypeOK, DrawnInv
  <2> QED
    BY <1>3, <2>1, <2>2
<1> QED
  BY <1>4, <1>5, <1>6, <1>7, <1>8

\* The libraries that a request can leave
LEMMA DoneFacts ==
  ASSUME NEW r \in Studio!Request, AskOk(r), NEW lib \in Studio!Done(artStored, r),
         artStored \in Studio!Library, lib \in Studio!Library
  PROVE  /\ r.does = "auth" => lib = artStored
         /\ Drawn(artStored) /\ (r.does = "place" => r.to \in {None, r.what}) => Drawn(lib)
<1>1. r.does \in Studio!Does
  BY DEF Studio!Request
<1>2. r.does = "auth" => lib = artStored
  BY DEF Studio!Done
<1>3. r.does = "place" =>
        /\ lib.placed = [artStored.placed EXCEPT ![r.what] = r.to]
        /\ r.what \in Assets
  BY DEF Studio!Done, Studio!Library, AskOk
<1>4. CASE r.does \in {"sync", "remove", "choose", "toggle"}
  BY <1>4 DEF Studio!Done, Studio!Library, Drawn
<1>5. CASE r.does \in {"delete", "clear"}
  BY <1>5 DEF Studio!Done, Studio!Without, Studio!Library, Drawn
<1>6. CASE r.does \in {"generate", "pass", "load", "auth"}
  <2>1. CASE r.does \in {"generate", "pass"} /\ r.what = 1
    <3>1. PICK m \in Assets : lib = [artStored EXCEPT !.assets = artStored.assets \cup {m},
                                                     !.chosen = m]
      BY <2>1 DEF Studio!Done
    <3>2. lib.placed = artStored.placed
      BY <3>1 DEF Studio!Library
    <3> QED
      BY <2>1, <3>2 DEF Drawn
  <2>2. CASE ~(r.does \in {"generate", "pass"} /\ r.what = 1)
    <3>1. lib = artStored
      BY <1>6, <2>2 DEF Studio!Done
    <3> QED
      BY <3>1
  <2> QED
    BY <2>1, <2>2
<1>7. CASE r.does = "place"
  BY <1>3, <1>7 DEF Studio!Library, Drawn
<1> QED
  BY <1>1, <1>2, <1>4, <1>5, <1>6, <1>7 DEF Studio!Does

\* What a request keeps while the node serves it
SameAsk(q, r) == q.does = r.does /\ q.what = r.what /\ q.to = r.to /\ q.alone = r.alone

\* Parts of the invariant that no answer changes
LEMMA NodeKeepsAsks ==
  ASSUME StudioInv, NEW s \in Studio!Pending, NEW q \in Studio!Request, AskTurned(s, q),
         SameAsk(q, asks[s]), AskOk(q),
         q.does # "auth" /\ q.answer # None => q.answer = artStored' \/ ~q.alone,
         asks[s].alone \/ artStored' = artStored \/ \A t \in Studio!Pending : ~asks[t].alone,
         ~moved => Drawn(artStored') /\ (q.answer # None => Drawn(q.answer)),
         UNCHANGED <<artShown, draft, drag, moved>>
  PROVE  LoneAsksInv' /\ DrawnInv' /\ Studio!Pending' = Studio!Pending
<1>1. /\ Studio!Pending' = Studio!Pending /\ asks'[s] = q
      /\ \A t \in Studio!Pending : t # s => asks'[t] = asks[t]
  BY DEF AskTurned
<1>2. LoneAsksInv'
  <2> SUFFICES ASSUME NEW t \in Studio!Pending'
               PROVE  /\ AskOk(asks'[t])
                      /\ asks'[t].alone =>
                           /\ \A x \in Studio!Pending' : x = t
                           /\ asks'[t].does # "auth" /\ asks'[t].answer # None =>
                                asks'[t].answer = artStored'
    BY DEF LoneAsksInv, AskOk
  <2>1. CASE t = s
    BY <1>1, <2>1 DEF StudioInv, LoneAsksInv, SameAsk
  <2>2. CASE t # s
    BY <1>1, <2>2 DEF StudioInv, LoneAsksInv
  <2> QED
    BY <2>1, <2>2
<1>3. DrawnInv'
  <2>1. draft'.asset = Studio!Reset(artShown').asset
    BY DEF StudioInv, DrawnInv
  <2>2. ASSUME ~moved
        PROVE  /\ Drawn(artStored') /\ (artShown # None => Drawn(artShown))
               /\ draft.to \in {None, draft.asset} /\ drag \in {None, draft.asset}
               /\ \A t \in Studio!Pending' :
                    /\ asks'[t].does = "place" => asks'[t].to \in {None, asks'[t].what}
                    /\ asks'[t].answer # None => Drawn(asks'[t].answer)
    BY <1>1, <2>2 DEF StudioInv, DrawnInv, SameAsk
  <2> QED
    BY <2>1, <2>2 DEF DrawnInv, Drawn
<1> QED
  BY <1>1, <1>2, <1>3

LEMMA PerformKeepsInv ==
  ASSUME StudioInv, NEW s \in Slots, Studio!Perform(s)
  PROVE  StudioInv'
<1>1. PICK r \in Studio!Request : r = asks[s] /\ AskOk(r) /\ s \in Studio!Pending
  BY AskFacts DEF Studio!Perform
<1>2. /\ r.stage = "sent"
      /\ UNCHANGED <<losses, doubt, doubted, artShown, offered, working, editor, draft, drag,
                     clicks, moved>>
  BY <1>1 DEF Studio!Perform, Studio!Unchanged
<1>3. PICK lib \in Studio!Done(artStored, r) :
        /\ lib \in Studio!Library /\ artStored' = lib
        /\ asks' = [asks EXCEPT ![s] =
             [r EXCEPT !.stage = "done", !.answer = IF r.does = "auth" THEN r.answer ELSE lib]]
  BY <1>1 DEF Studio!Perform
<1> DEFINE q == [r EXCEPT !.stage = "done",
                          !.answer = IF r.does = "auth" THEN r.answer ELSE lib]
<1>4. /\ q \in Studio!Request /\ SameAsk(q, r) /\ q.stage = "done"
      /\ q.answer = IF r.does = "auth" THEN r.answer ELSE lib
  BY <1>3 DEF Studio!Request, SameAsk
<1>5. asks' = [asks EXCEPT ![s] = q]
  BY <1>3
<1> HIDE DEF q
<1>6. AskTurned(s, q)
  BY <1>4, <1>5, AskTurnFacts
<1>7. lib # None /\ artStored \in Studio!Library
  BY <1>3, StudioConstants DEF StudioInv, Studio!TypeOK
<1>8. AskOk(q)
  BY <1>1, <1>4, <1>7 DEF AskOk, SameAsk
<1>9. /\ r.does = "auth" => lib = artStored
      /\ ~moved => Drawn(lib) /\ (q.answer # None => Drawn(q.answer))
  BY <1>1, <1>3, <1>4, <1>7, DoneFacts DEF StudioInv, DrawnInv
<1>10. r.alone \/ artStored' = artStored \/ \A t \in Studio!Pending : ~asks[t].alone
  BY <1>1 DEF StudioInv, LoneAsksInv
<1>11. LoneAsksInv' /\ DrawnInv' /\ Studio!Pending' = Studio!Pending
  <2>1. q.does # "auth" /\ q.answer # None => q.answer = artStored'
    BY <1>3, <1>4 DEF SameAsk
  <2> QED
    BY <1>1, <1>2, <1>3, <1>4, <1>6, <1>8, <1>9, <1>10, <2>1, NodeKeepsAsks
<1>12. ShownInvOfArt'
  <2> SUFFICES ASSUME ~doubt
               PROVE  /\ \A t \in Studio!Pending' :
                           /\ asks'[t].alone
                           /\ asks'[t].does = "auth" => asks'[t].answer = artShown
                           /\ /\ artShown # None /\ ~HalfDone(asks'[t])
                              /\ asks'[t].stage = "done" => asks'[t].does = "auth"
                              => artShown = artStored'
                      /\ Studio!Pending' # {}
    BY <1>2 DEF ShownInvOfArt, HalfDone
  <2>1. /\ r.alone /\ (r.does = "auth" => r.answer = artShown)
        /\ artShown # None /\ ~HalfDone(r) => artShown = artStored
        /\ \A t \in Studio!Pending : t = s
    BY <1>1, <1>2 DEF StudioInv, ShownInvOfArt, LoneAsksInv
  <2>2. \A t \in Studio!Pending' : t = s /\ asks'[t] = q
    BY <1>6, <1>11, <2>1 DEF AskTurned
  <2>3. q.does = "auth" => ~HalfDone(r) /\ artStored' = artStored
    BY <1>3, <1>4, <1>9 DEF HalfDone, SameAsk
  <2>4. s \in Studio!Pending'
    BY <1>1, <1>11
  <2> QED
    BY <1>4, <2>1, <2>2, <2>3, <2>4 DEF SameAsk
<1>13. Studio!TypeOK'
  BY <1>2, <1>3, <1>6 DEF StudioInv, Studio!TypeOK, AskTurned
<1> QED
  BY <1>11, <1>12, <1>13 DEF StudioInv

LEMMA PerformNotKeepsInv ==
  ASSUME StudioInv, NEW s \in Slots, Studio!PerformNot(s)
  PROVE  StudioInv'
<1>1. PICK r \in Studio!Request : r = asks[s] /\ AskOk(r) /\ s \in Studio!Pending
  BY AskFacts DEF Studio!PerformNot
<1> DEFINE q == [r EXCEPT !.stage = "done", !.answer = artStored, !.made = FALSE]
<1>2. /\ r.stage = "sent" /\ r.does \in {"generate", "pass"}
      /\ asks' = [asks EXCEPT ![s] = q]
      /\ UNCHANGED <<artStored, losses, doubt, doubted, artShown, offered, working, editor, draft,
                     drag, clicks, moved>>
  BY <1>1 DEF Studio!PerformNot, Studio!Unchanged
<1>3. artStored \in Studio!Library /\ artStored # None
  BY StudioConstants DEF StudioInv, Studio!TypeOK
<1>4. q \in Studio!Request /\ SameAsk(q, r) /\ q.stage = "done" /\ q.answer = artStored
  BY <1>3 DEF Studio!Request, SameAsk
<1> HIDE DEF q
<1>5. AskTurned(s, q)
  BY <1>2, <1>4, AskTurnFacts
<1>6. AskOk(q)
  BY <1>1, <1>3, <1>4 DEF AskOk, SameAsk
<1>7. LoneAsksInv' /\ DrawnInv' /\ Studio!Pending' = Studio!Pending
  <2>1. ~moved => Drawn(artStored)
    BY DEF StudioInv, DrawnInv
  <2> QED
    BY <1>1, <1>2, <1>4, <1>5, <1>6, <2>1, NodeKeepsAsks
<1>8. ShownInvOfArt'
  <2> SUFFICES ASSUME ~doubt
               PROVE  /\ \A t \in Studio!Pending' :
                           /\ asks'[t].alone
                           /\ asks'[t].does # "auth" /\ asks'[t].stage = "done"
                      /\ Studio!Pending' # {}
    BY <1>2 DEF ShownInvOfArt
  <2>1. r.alone /\ \A t \in Studio!Pending : t = s
    BY <1>1, <1>2 DEF StudioInv, ShownInvOfArt, LoneAsksInv
  <2> QED
    BY <1>1, <1>2, <1>4, <1>5, <1>7, <2>1 DEF AskTurned, SameAsk
<1>9. Studio!TypeOK'
  BY <1>2, <1>5 DEF StudioInv, Studio!TypeOK, AskTurned
<1> QED
  BY <1>7, <1>8, <1>9 DEF StudioInv

LEMMA LossKeepsInv ==
  ASSUME StudioInv, NEW s \in Slots, Studio!Fail(s)
  PROVE  StudioInv'
<1>1. PICK r \in Studio!Request : r = asks[s] /\ AskOk(r) /\ s \in Studio!Pending
  BY AskFacts DEF Studio!Fail
<1> DEFINE q == [r EXCEPT !.stage = "failed"]
<1>2. /\ r.stage # "failed" /\ asks' = [asks EXCEPT ![s] = q]
      /\ UNCHANGED <<artStored, artShown, offered, working, editor, draft, drag, clicks, moved>>
  BY <1>1 DEF Studio!Fail, Studio!Unchanged
<1>3. /\ losses' \in 0..MaxFailures /\ doubt' \in BOOLEAN /\ doubted' \in BOOLEAN
      /\ ~doubt' => ~doubt /\ (r.stage = "done" => r.answer = artShown)
  <2>1. CASE /\ losses < MaxFailures /\ losses' = losses + 1
             /\ Studio!Doubt(r.stage = "done" /\ r.answer # artShown)
    <3>1. losses' \in 0..MaxFailures
      BY <2>1, StudioConstants DEF StudioInv, Studio!TypeOK
    <3>2. /\ doubt' = (doubt \/ (r.stage = "done" /\ r.answer # artShown))
          /\ doubted' = (doubted \/ (r.stage = "done" /\ r.answer # artShown))
      BY <2>1 DEF Studio!Doubt
    <3>3. doubt' \in BOOLEAN /\ doubted' \in BOOLEAN
      BY <3>2
    <3>4. ~doubt' => ~doubt /\ (r.stage = "done" => r.answer = artShown)
      BY <3>2
    <3> QED
      BY <3>1, <3>3, <3>4
  <2>2. CASE r.stage = "sent" /\ UNCHANGED <<losses, doubt, doubted>>
    BY <2>2 DEF StudioInv, Studio!TypeOK
  <2> QED
    BY <1>1, <2>1, <2>2 DEF Studio!Fail
<1>4. q \in Studio!Request /\ SameAsk(q, r) /\ q.stage = "failed" /\ q.answer = r.answer
  BY DEF Studio!Request, SameAsk
<1> HIDE DEF q
<1>5. AskTurned(s, q)
  BY <1>2, <1>4, AskTurnFacts
<1>6. AskOk(q)
  BY <1>1, <1>4 DEF AskOk, SameAsk
<1>7. LoneAsksInv' /\ DrawnInv' /\ Studio!Pending' = Studio!Pending
  <2>1. ~moved => Drawn(artStored) /\ (q.answer # None => Drawn(q.answer))
    BY <1>1, <1>4 DEF StudioInv, DrawnInv
  <2>2. q.does # "auth" /\ q.answer # None => q.answer = artStored \/ ~q.alone
    BY <1>1, <1>4 DEF StudioInv, LoneAsksInv, SameAsk
  <2> QED
    BY <1>1, <1>2, <1>4, <1>5, <1>6, <2>1, <2>2, NodeKeepsAsks
<1>8. ShownInvOfArt'
  <2> SUFFICES ASSUME ~doubt'
               PROVE  /\ \A t \in Studio!Pending' :
                           /\ asks'[t].alone
                           /\ asks'[t].does = "auth" => asks'[t].answer = artShown
                           /\ artShown # None /\ ~HalfDone(asks'[t]) => artShown = artStored
                      /\ Studio!Pending' # {}
    BY <1>2 DEF ShownInvOfArt, HalfDone
  <2>1. /\ r.alone /\ (r.does = "auth" => r.answer = artShown)
        /\ artShown # None /\ ~HalfDone(r) /\ (r.stage = "done" => r.does = "auth") =>
             artShown = artStored
        /\ \A t \in Studio!Pending : t = s
        /\ r.does # "auth" /\ r.answer # None => r.answer = artStored
    BY <1>1, <1>3 DEF StudioInv, ShownInvOfArt, LoneAsksInv
  <2>2. r.stage = "done" /\ r.does # "auth" => artShown = artStored
    BY <1>1, <1>3, <2>1 DEF AskOk
  <2>3. (HalfDone(q) <=> HalfDone(r)) /\ (q.does = "auth" <=> r.does = "auth")
    BY <1>4 DEF HalfDone, SameAsk
  <2>4. \A t \in Studio!Pending' : asks'[t] = q
    BY <1>5, <1>7, <2>1 DEF AskTurned
  <2>5. q.alone /\ q.answer = r.answer /\ s \in Studio!Pending'
    BY <1>1, <1>4, <1>7, <2>1 DEF SameAsk
  <2> QED
    BY <2>1, <2>2, <2>3, <2>4, <2>5
<1>9. Studio!TypeOK'
  BY <1>2, <1>3, <1>5 DEF StudioInv, Studio!TypeOK, AskTurned
<1> QED
  BY <1>7, <1>8, <1>9 DEF StudioInv

\* What an answer leaves in the studio
LEMMA ApplyFacts ==
  ASSUME StudioInv, NEW lib \in Studio!Library \cup {None}, Studio!ApplyLibrary(lib),
         ~moved /\ lib # None => Drawn(lib), UNCHANGED <<artStored, drag>>
  PROVE  /\ artShown' = lib /\ moved' \in BOOLEAN
         /\ draft' \in [asset : Assets \cup {None}, to : Studio!Placement]
         /\ draft'.asset = Studio!Reset(artShown').asset
         /\ ~moved' =>
              /\ ~moved /\ (artShown' # None => Drawn(artShown'))
              /\ draft'.to \in {None, draft'.asset} /\ drag' \in {None, draft'.asset}
<1>1. /\ artShown' = lib
      /\ draft' = IF Studio!Reset(lib).asset = draft.asset THEN draft ELSE Studio!Reset(lib)
      /\ moved' = (moved \/ (drag # None /\ draft' # draft))
  BY DEF Studio!ApplyLibrary
<1>2. /\ Studio!Reset(lib) \in [asset : Assets \cup {None}, to : Studio!Placement]
      /\ ~moved => Studio!Reset(lib).to \in {None, Studio!Reset(lib).asset}
  <2>1. Studio!Reset(None).to = None
    BY DEF Studio!Reset, Studio!Draft
  <2> QED
    BY <2>1, ResetFacts
<1>3. draft \in [asset : Assets \cup {None}, to : Studio!Placement] /\ moved \in BOOLEAN
  BY DEF StudioInv, Studio!TypeOK
<1>4. /\ draft' \in [asset : Assets \cup {None}, to : Studio!Placement]
      /\ draft'.asset = Studio!Reset(lib).asset
  BY <1>1, <1>2, <1>3
<1>5. draft'.asset = Studio!Reset(artShown').asset
  BY <1>1, <1>4
<1>6. moved' \in BOOLEAN
  BY <1>1
<1>7. ~moved' => ~moved /\ (drag = None \/ draft' = draft)
  BY <1>1
<1>8. ASSUME ~moved'
      PROVE  /\ artShown' # None => Drawn(lib)
             /\ draft'.to \in {None, draft'.asset} /\ drag' \in {None, draft'.asset}
  <2>1. draft.to \in {None, draft.asset} /\ drag \in {None, draft.asset}
    BY <1>7, <1>8 DEF StudioInv, DrawnInv
  <2> QED
    BY <1>1, <1>2, <1>7, <1>8, <2>1
<1> QED
  BY <1>1, <1>4, <1>5, <1>6, <1>7, <1>8 DEF Drawn

\* The parts of the invariant that are about requests, when one of them has ended
LEMMA EndKeepsAsks ==
  ASSUME StudioInv, NEW s \in Studio!Pending, AskEnded(s), UNCHANGED artStored
  PROVE  /\ LoneAsksInv' /\ Studio!Pending' = Studio!Pending \ {s}
         /\ \A t \in Studio!Pending' : t \in Studio!Pending /\ asks'[t] = asks[t]
<1>1. /\ Studio!Pending' = Studio!Pending \ {s}
      /\ \A t \in Studio!Pending' : t \in Studio!Pending /\ asks'[t] = asks[t]
  BY DEF AskEnded
<1>2. LoneAsksInv'
  <2> SUFFICES ASSUME NEW t \in Studio!Pending'
               PROVE  /\ AskOk(asks'[t])
                      /\ asks'[t].alone =>
                           /\ \A x \in Studio!Pending' : x = t
                           /\ asks'[t].does # "auth" /\ asks'[t].answer # None =>
                                asks'[t].answer = artStored
    BY DEF LoneAsksInv, AskOk
  <2> QED
    BY <1>1 DEF StudioInv, LoneAsksInv
<1> QED
  BY <1>1, <1>2

LEMMA FailedAskKeepsInv ==
  ASSUME StudioInv, NEW s \in Slots, Studio!Failed(s)
  PROVE  StudioInv'
<1>1. PICK r \in Studio!Request : r = asks[s] /\ AskOk(r) /\ s \in Studio!Pending
  BY AskFacts DEF Studio!Failed
<1>2. /\ r.stage = "failed" /\ asks' = [asks EXCEPT ![s] = None] /\ working' = FALSE
      /\ doubt' = (doubt \/ HalfDone(r)) /\ doubted' = (doubted \/ HalfDone(r))
      /\ UNCHANGED <<artStored, artShown, offered, editor, draft, drag, clicks, losses, moved>>
  BY <1>1 DEF Studio!Failed, Studio!Ends, Studio!Doubt, HalfDone
<1>3. AskEnded(s)
  BY <1>2, AskEndFacts
<1>4. /\ LoneAsksInv' /\ Studio!Pending' = Studio!Pending \ {s}
      /\ \A t \in Studio!Pending' : t \in Studio!Pending /\ asks'[t] = asks[t]
  BY <1>1, <1>2, <1>3, EndKeepsAsks
<1>5. doubt' \in BOOLEAN /\ doubted' \in BOOLEAN
  BY <1>2 DEF HalfDone
<1>6. Studio!TypeOK'
  BY <1>2, <1>3, <1>5 DEF StudioInv, Studio!TypeOK, AskEnded
<1>7. ShownInvOfArt'
  <2> SUFFICES ASSUME ~doubt'
               PROVE  Studio!Pending' = {} /\ (artShown # None => artShown = artStored)
    BY <1>2 DEF ShownInvOfArt
  <2>1. ~doubt /\ ~HalfDone(r)
    BY <1>2
  <2>2. \A t \in Studio!Pending : t = s
    BY <1>1, <2>1 DEF StudioInv, ShownInvOfArt, LoneAsksInv
  <2> QED
    BY <1>1, <1>2, <1>4, <2>1, <2>2 DEF StudioInv, ShownInvOfArt
<1>8. DrawnInv'
  <2>1. draft'.asset = Studio!Reset(artShown').asset
    BY <1>2 DEF StudioInv, DrawnInv
  <2>2. ASSUME ~moved
        PROVE  /\ Drawn(artStored) /\ (artShown # None => Drawn(artShown))
               /\ draft.to \in {None, draft.asset} /\ drag \in {None, draft.asset}
               /\ \A t \in Studio!Pending' :
                    /\ asks'[t].does = "place" => asks'[t].to \in {None, asks'[t].what}
                    /\ asks'[t].answer # None => Drawn(asks'[t].answer)
    BY <1>4, <2>2 DEF StudioInv, DrawnInv
  <2> QED
    BY <1>2, <2>1, <2>2 DEF DrawnInv, Drawn
<1> QED
  BY <1>4, <1>6, <1>7, <1>8 DEF StudioInv

LEMMA AnsweredAskKeepsInv ==
  ASSUME StudioInv, NEW s \in Slots, Studio!Answered(s)
  PROVE  StudioInv'
<1>1. PICK r \in Studio!Request : r = asks[s] /\ AskOk(r) /\ s \in Studio!Pending
  BY AskFacts DEF Studio!Answered
<1>2. PICK next \in Studio!Following(r) :
        /\ asks' = [asks EXCEPT ![s] = next]
        /\ IF next = None THEN working' = FALSE ELSE UNCHANGED working
        /\ IF r.does = "clear" /\ next # None
           THEN UNCHANGED <<artShown, draft, moved, doubt, doubted>>
           ELSE Studio!ApplyLibrary(r.answer) /\ Studio!Certain(r)
  BY <1>1 DEF Studio!Answered
<1>3. /\ r.stage = "done"
      /\ UNCHANGED <<artStored, offered, editor, drag, clicks, losses>>
  BY <1>1 DEF Studio!Answered
<1>4. /\ r.answer \in Studio!Library \cup {None}
      /\ r.does # "auth" => r.answer # None
      /\ ~moved /\ r.answer # None => Drawn(r.answer)
  BY <1>1, <1>3 DEF Studio!Request, AskOk, StudioInv, DrawnInv
<1>5. /\ r.alone => (\A t \in Studio!Pending : t = s)
      /\ r.alone /\ r.does # "auth" => r.answer = artStored
      /\ ~doubt => r.alone /\ (r.does = "auth" => r.answer = artShown)
      /\ ~doubt /\ r.does = "auth" /\ artShown # None => artShown = artStored
  <2>1. ~HalfDone(r) \/ r.does = "clear"
    BY DEF HalfDone
  <2> QED
    BY <1>1, <1>4, <2>1 DEF StudioInv, LoneAsksInv, ShownInvOfArt
<1>6. Studio!Certain(r) => /\ doubt' \in BOOLEAN /\ doubted' = doubted
                           /\ ~doubt' => ~doubt \/ (r.alone /\ r.does # "auth")
  <2> SUFFICES ASSUME Studio!Certain(r)
               PROVE  /\ doubt' \in BOOLEAN /\ doubted' = doubted
                      /\ ~doubt' => ~doubt \/ (r.alone /\ r.does # "auth")
    OBVIOUS
  <2>1. doubt' = (doubt /\ (r.does = "auth" \/ ~r.alone)) /\ doubted' = doubted
    BY DEF Studio!Certain
  <2>2. doubt' \in BOOLEAN
    BY <2>1
  <2> QED
    BY <2>1, <2>2
<1>7. CASE next = None
  <2>1. /\ AskEnded(s) /\ working' = FALSE
        /\ Studio!ApplyLibrary(r.answer) /\ Studio!Certain(r)
    BY <1>2, <1>7, AskEndFacts
  <2>2. /\ LoneAsksInv' /\ Studio!Pending' = Studio!Pending \ {s}
        /\ \A t \in Studio!Pending' : t \in Studio!Pending /\ asks'[t] = asks[t]
    BY <1>1, <1>3, <2>1, EndKeepsAsks
  <2>3. /\ artShown' = r.answer /\ moved' \in BOOLEAN
        /\ draft' \in [asset : Assets \cup {None}, to : Studio!Placement]
        /\ draft'.asset = Studio!Reset(artShown').asset
        /\ ~moved' =>
             /\ ~moved /\ (artShown' # None => Drawn(artShown'))
             /\ draft'.to \in {None, draft'.asset} /\ drag' \in {None, draft'.asset}
    BY <1>3, <1>4, <2>1, ApplyFacts
  <2>4. Studio!TypeOK'
    BY <1>3, <1>4, <1>6, <2>1, <2>3 DEF StudioInv, Studio!TypeOK, AskEnded
  <2>5. ShownInvOfArt'
    <3> SUFFICES ASSUME ~doubt'
                 PROVE  Studio!Pending' = {} /\ (artShown' # None => artShown' = artStored)
      BY <1>3 DEF ShownInvOfArt
    <3> QED
      BY <1>5, <1>6, <2>1, <2>2, <2>3
  <2>6. DrawnInv'
    <3>1. ASSUME ~moved'
          PROVE  /\ Drawn(artStored)
                 /\ \A t \in Studio!Pending' :
                      /\ asks'[t].does = "place" => asks'[t].to \in {None, asks'[t].what}
                      /\ asks'[t].answer # None => Drawn(asks'[t].answer)
      BY <2>2, <2>3, <3>1 DEF StudioInv, DrawnInv
    <3> QED
      BY <1>3, <2>3, <3>1 DEF DrawnInv, Drawn
  <2> QED
    BY <2>2, <2>4, <2>5, <2>6 DEF StudioInv
<1>8. CASE r.does = "clear" /\ next # None
  <2>1. PICK m \in r.to : next = [r EXCEPT !.what = m, !.to = r.to \ {m}, !.stage = "sent"]
    BY <1>2, <1>8 DEF Studio!Following
  <2>2. r.to \in SUBSET Assets /\ m \in Assets
    BY <1>1, <1>8, <2>1 DEF AskOk
  <2>3. /\ next \in Studio!Request /\ next.does = "clear" /\ next.to \in SUBSET Assets
        /\ next.stage = "sent" /\ next.answer = r.answer /\ next.alone = r.alone
    BY <1>8, <2>1, <2>2 DEF Studio!Request
  <2>4. AskTurned(s, next)
    BY <1>2, <2>3, AskTurnFacts
  <2>5. /\ Studio!Pending' = Studio!Pending /\ asks'[s] = next
        /\ \A t \in Studio!Pending : t # s => asks'[t] = asks[t]
    BY <1>1, <2>4 DEF AskTurned
  <2>6. AskOk(next)
    BY <2>3 DEF AskOk
  <2>7. UNCHANGED <<artShown, draft, moved, doubt, doubted, working>>
    BY <1>2, <1>8
  <2>8. LoneAsksInv'
    <3> SUFFICES ASSUME NEW t \in Studio!Pending'
                 PROVE  /\ AskOk(asks'[t])
                        /\ asks'[t].alone =>
                             /\ \A x \in Studio!Pending' : x = t
                             /\ asks'[t].does # "auth" /\ asks'[t].answer # None =>
                                  asks'[t].answer = artStored
      BY <1>3 DEF LoneAsksInv, AskOk
    <3> QED
      BY <1>5, <1>8, <2>3, <2>5, <2>6 DEF StudioInv, LoneAsksInv
  <2>9. ShownInvOfArt'
    <3> SUFFICES ASSUME ~doubt
                 PROVE  /\ \A t \in Studio!Pending' :
                             asks'[t].alone /\ asks'[t].does # "auth" /\ HalfDone(asks'[t])
                        /\ Studio!Pending' # {}
      BY <2>7 DEF ShownInvOfArt, HalfDone
    <3>1. HalfDone(next)
      BY <1>4, <1>8, <2>3 DEF HalfDone
    <3> QED
      BY <1>1, <1>5, <2>3, <2>5, <3>1
  <2>10. DrawnInv'
    <3>1. ASSUME ~moved
          PROVE  /\ Drawn(artStored) /\ (artShown # None => Drawn(artShown))
                 /\ draft.to \in {None, draft.asset} /\ drag \in {None, draft.asset}
                 /\ \A t \in Studio!Pending' :
                      /\ asks'[t].does = "place" => asks'[t].to \in {None, asks'[t].what}
                      /\ asks'[t].answer # None => Drawn(asks'[t].answer)
      BY <1>4, <2>3, <2>5, <3>1 DEF StudioInv, DrawnInv
    <3>2. draft'.asset = Studio!Reset(artShown').asset
      BY <2>7 DEF StudioInv, DrawnInv
    <3> QED
      BY <1>3, <2>7, <3>1, <3>2 DEF DrawnInv, Drawn
  <2>11. Studio!TypeOK'
    BY <1>3, <2>4, <2>7 DEF StudioInv, Studio!TypeOK, AskTurned
  <2> QED
    BY <2>8, <2>9, <2>10, <2>11 DEF StudioInv
<1>9. CASE r.does # "clear" /\ next # None
  <2>1. /\ r.does = "pass" /\ r.what < NumCategories
        /\ next = [r EXCEPT !.what = r.what + 1, !.stage = "sent", !.answer = None]
    BY <1>2, <1>9 DEF Studio!Following
  <2>2. r.what + 1 \in Studio!Category
    BY <1>1, <2>1, StudioConstants DEF AskOk, Studio!Category
  <2>3. /\ next \in Studio!Request /\ next.does = "pass" /\ next.what \in Studio!Category
        /\ next.stage = "sent" /\ next.answer = None /\ next.alone = r.alone
    BY <2>1, <2>2 DEF Studio!Request
  <2>4. AskTurned(s, next)
    BY <1>2, <2>3, AskTurnFacts
  <2>5. /\ Studio!Pending' = Studio!Pending /\ asks'[s] = next
        /\ \A t \in Studio!Pending : t # s => asks'[t] = asks[t]
    BY <1>1, <2>4 DEF AskTurned
  <2>6. AskOk(next)
    BY <2>3 DEF AskOk
  <2>7. Studio!ApplyLibrary(r.answer) /\ Studio!Certain(r) /\ UNCHANGED working
    BY <1>2, <1>9
  <2>8. /\ artShown' = r.answer /\ moved' \in BOOLEAN
        /\ draft' \in [asset : Assets \cup {None}, to : Studio!Placement]
        /\ draft'.asset = Studio!Reset(artShown').asset
        /\ ~moved' =>
             /\ ~moved /\ (artShown' # None => Drawn(artShown'))
             /\ draft'.to \in {None, draft'.asset} /\ drag' \in {None, draft'.asset}
    BY <1>3, <1>4, <2>7, ApplyFacts
  <2>9. LoneAsksInv'
    <3> SUFFICES ASSUME NEW t \in Studio!Pending'
                 PROVE  /\ AskOk(asks'[t])
                        /\ asks'[t].alone =>
                             /\ \A x \in Studio!Pending' : x = t
                             /\ asks'[t].does # "auth" /\ asks'[t].answer # None =>
                                  asks'[t].answer = artStored
      BY <1>3 DEF LoneAsksInv, AskOk
    <3> QED
      BY <1>5, <2>3, <2>5, <2>6 DEF StudioInv, LoneAsksInv
  <2>10. ShownInvOfArt'
    <3> SUFFICES ASSUME ~doubt'
                 PROVE  /\ \A t \in Studio!Pending' :
                             asks'[t].alone /\ asks'[t].does # "auth"
                        /\ Studio!Pending' # {} /\ artShown' = artStored
      BY <1>3 DEF ShownInvOfArt
    <3>1. r.alone
      BY <1>5, <1>6, <2>7
    <3> QED
      BY <1>1, <1>5, <2>1, <2>3, <2>5, <2>8, <3>1
  <2>11. DrawnInv'
    <3>1. ASSUME ~moved'
          PROVE  /\ Drawn(artStored)
                 /\ \A t \in Studio!Pending' :
                      /\ asks'[t].does = "place" => asks'[t].to \in {None, asks'[t].what}
                      /\ asks'[t].answer # None => Drawn(asks'[t].answer)
      BY <2>3, <2>5, <2>8, <3>1 DEF StudioInv, DrawnInv
    <3> QED
      BY <1>3, <2>8, <3>1 DEF DrawnInv, Drawn
  <2>12. Studio!TypeOK'
    BY <1>3, <1>4, <1>6, <2>4, <2>7, <2>8 DEF StudioInv, Studio!TypeOK, AskTurned
  <2> QED
    BY <2>9, <2>10, <2>11, <2>12 DEF StudioInv
<1> QED
  BY <1>7, <1>8, <1>9

\* The position editor, and the devices
LEMMA EditorKeepsInv ==
  ASSUME StudioInv,
         \/ Studio!OpenPositionEditor \/ Studio!NudgePlacement \/ Studio!StartPlacementDrag
         \/ Studio!MovePlacementDrag \/ Studio!StopPlacementDrag
         \/ Studio!RequestClosePositionEditor \/ Studio!DiscardPlacement \/ Studio!AgentsChange
  PROVE  StudioInv'
<1>1. /\ draft \in [asset : Assets \cup {None}, to : Studio!Placement]
      /\ drag \in Assets \cup {None} /\ moved \in BOOLEAN
      /\ artShown \in Studio!Library \cup {None} /\ offered \subseteq StudioAgents
      /\ editor \in {"closed", "open", "asking"}
      /\ draft.asset = Studio!Reset(artShown).asset
      /\ ~moved => /\ draft.to \in {None, draft.asset} /\ drag \in {None, draft.asset}
                   /\ artShown # None => Drawn(artShown)
  BY DEF StudioInv, Studio!TypeOK, DrawnInv
<1>2. /\ Studio!Reset(artShown) \in [asset : Assets \cup {None}, to : Studio!Placement]
      /\ ~moved => Studio!Reset(artShown).to \in {None, Studio!Reset(artShown).asset}
  <2>1. artShown = None => Studio!Reset(artShown).to = None
    BY DEF Studio!Reset, Studio!Draft
  <2> QED
    BY <1>1, <2>1, ResetFacts
<1>3. UNCHANGED <<artStored, artShown, working, asks, clicks, losses, doubt, doubted, moved>>
  BY DEF Studio!OpenPositionEditor, Studio!NudgePlacement, Studio!StartPlacementDrag,
     Studio!MovePlacementDrag, Studio!StopPlacementDrag, Studio!RequestClosePositionEditor,
     Studio!DiscardPlacement, Studio!AgentsChange, Studio!EditorOnly
<1>4. offered' \subseteq StudioAgents /\ editor' \in {"closed", "open", "asking"}
  BY <1>1
  DEF Studio!OpenPositionEditor, Studio!NudgePlacement, Studio!StartPlacementDrag,
     Studio!MovePlacementDrag, Studio!StopPlacementDrag, Studio!RequestClosePositionEditor,
     Studio!DiscardPlacement, Studio!AgentsChange, Studio!EditorOnly
<1>5. drag' \in {drag, None, draft.asset}
  BY DEF Studio!OpenPositionEditor, Studio!NudgePlacement, Studio!StartPlacementDrag,
     Studio!MovePlacementDrag, Studio!StopPlacementDrag, Studio!RequestClosePositionEditor,
     Studio!DiscardPlacement, Studio!AgentsChange, Studio!EditorOnly
<1>6. \/ draft' = draft \/ draft' = Studio!Reset(artShown)
      \/ \E to \in {None, draft.asset} : draft' = [asset |-> draft.asset, to |-> to]
      \/ drag # None /\ draft' = [asset |-> draft.asset, to |-> drag]
  BY DEF Studio!OpenPositionEditor, Studio!NudgePlacement, Studio!StartPlacementDrag,
     Studio!MovePlacementDrag, Studio!StopPlacementDrag, Studio!RequestClosePositionEditor,
     Studio!DiscardPlacement, Studio!AgentsChange, Studio!EditorOnly, Studio!Draft
<1>7. /\ draft' \in [asset : Assets \cup {None}, to : Studio!Placement]
      /\ draft'.asset = draft.asset
      /\ ~moved => draft'.to \in {None, draft.asset}
  BY <1>1, <1>2, <1>6 DEF Studio!Placement
<1>8. Studio!TypeOK'
  BY <1>1, <1>3, <1>4, <1>5, <1>7 DEF StudioInv, Studio!TypeOK
<1>9. Studio!Pending' = Studio!Pending
  BY <1>3 DEF Studio!Pending
<1>10. LoneAsksInv' /\ ShownInvOfArt'
  BY <1>3, <1>9 DEF StudioInv, LoneAsksInv, ShownInvOfArt, AskOk, HalfDone
<1>11. DrawnInv'
  <2>1. draft'.asset = Studio!Reset(artShown').asset
    BY <1>1, <1>3, <1>7
  <2>2. ASSUME ~moved
        PROVE  /\ Drawn(artStored) /\ (artShown # None => Drawn(artShown))
               /\ draft'.to \in {None, draft'.asset} /\ drag' \in {None, draft'.asset}
               /\ \A t \in Studio!Pending' :
                    /\ asks[t].does = "place" => asks[t].to \in {None, asks[t].what}
                    /\ asks[t].answer # None => Drawn(asks[t].answer)
    BY <1>1, <1>5, <1>7, <1>9, <2>2 DEF StudioInv, DrawnInv
  <2> QED
    BY <1>3, <2>1, <2>2 DEF DrawnInv, Drawn
<1> QED
  BY <1>8, <1>10, <1>11 DEF StudioInv

LEMMA NextStudioInv == StudioInv /\ (Studio!Next \/ UNCHANGED studioVars) => StudioInv'
<1> SUFFICES ASSUME StudioInv, Studio!Next \/ UNCHANGED studioVars PROVE StudioInv'
  OBVIOUS
<1>1. CASE \/ Studio!ClickAsset \/ Studio!LoadLibrary \/ Studio!ChangeOther
           \/ Studio!RemoveProfile \/ Studio!UploadAsset \/ Studio!Authorize
           \/ Studio!ClearProfileDefaults \/ Studio!GenerateMore
           \/ Studio!GenerateAllCategories \/ Studio!SyncAgentProfile \/ Studio!SavePlacement
  BY <1>1, StudioAsksKeepInv
<1>2. CASE \/ Studio!OpenPositionEditor \/ Studio!NudgePlacement \/ Studio!StartPlacementDrag
           \/ Studio!MovePlacementDrag \/ Studio!StopPlacementDrag
           \/ Studio!RequestClosePositionEditor \/ Studio!DiscardPlacement
           \/ Studio!AgentsChange
  BY <1>2, EditorKeepsInv
<1>3. ASSUME NEW s \in Slots,
             \/ Studio!Perform(s) \/ Studio!PerformNot(s) \/ Studio!Fail(s)
             \/ Studio!Answered(s) \/ Studio!Failed(s)
      PROVE  StudioInv'
  BY <1>3, PerformKeepsInv, PerformNotKeepsInv, LossKeepsInv, AnsweredAskKeepsInv,
     FailedAskKeepsInv
<1>4. CASE UNCHANGED studioVars
  <2>1. UNCHANGED <<artStored, artShown, offered, working, asks, editor, draft, drag, clicks,
                    losses, doubt, doubted, moved>>
    BY <1>4 DEF studioVars
  <2>2. Studio!TypeOK' /\ Studio!Pending' = Studio!Pending
    BY <2>1 DEF StudioInv, Studio!TypeOK, Studio!Pending
  <2>3. LoneAsksInv' /\ ShownInvOfArt'
    BY <2>1, <2>2 DEF StudioInv, LoneAsksInv, ShownInvOfArt, AskOk, HalfDone
  <2>4. DrawnInv'
    <3>1. draft'.asset = Studio!Reset(artShown').asset
      BY <2>1 DEF StudioInv, DrawnInv
    <3> QED
      BY <2>1, <2>2, <3>1 DEF StudioInv, DrawnInv, Drawn
  <2> QED
    BY <2>2, <2>3, <2>4 DEF StudioInv
<1> QED
  BY <1>1, <1>2, <1>3, <1>4 DEF Studio!Next

LEMMA StudioInvariance == SafetySpec => []StudioInv
<1>1. SafetyInit => StudioInv
  BY InitStudioInv DEF SafetyInit
<1>2. StudioInv /\ [SafetyNext]_safetyVars => StudioInv'
  <2> SUFFICES ASSUME StudioInv, [SafetyNext]_safetyVars PROVE StudioInv'
    OBVIOUS
  <2>1. Studio!Next \/ UNCHANGED studioVars
    BY DEF SafetyNext, safetyVars
  <2> QED
    BY <2>1, NextStudioInv
<1> QED
  BY <1>1, <1>2, PTL DEF SafetySpec

\* The parts of the studio's promises follow from its invariant.
LEMMA StudioShows == StudioInv => Studio!ShowsLibrary /\ Studio!PlacedAsDrawn
BY DEF StudioInv, ShownInvOfArt, DrawnInv, Drawn, Studio!ShowsLibrary, Studio!Idle,
   Studio!PlacedAsDrawn

\* The studio shows the library of the node and saves a placement for the asset it was drawn
\* for; the page of settings shows the settings of the node, which are those that the user
\* chose; and the pairing wizard shows the relay and the code that it asks of
\* (AgentArtStudio.tsx, SettingsView.tsx, AgentConnectionWizard.tsx): whatever requests cross,
\* with the exceptions that the properties name.
THEOREM PagesAreTrue == SafetySpec => []PagesShowTheNode
<1>1. StudioInv /\ PageInv /\ WizardInv => PagesShowTheNode
  BY StudioShows, PageShows, WizardShows DEF PagesShowTheNode
<1> QED
  BY <1>1, StudioInvariance, PageInvariance, WizardInvariance, PTL

\* Unless requests have crossed or answers went missing, an agent has one profile at most,
\* and none while one is asked for.
SyncingInv ==
  /\ doubt => doubted
  /\ ~doubted =>
       /\ \A a \in StudioAgents : artStored.profiles[a] <= 1
       /\ \A s \in Studio!Pending : asks[s].does = "sync" /\ asks[s].stage = "sent" =>
            asks[s].what \in StudioAgents /\ artStored.profiles[asks[s].what] = 0

LEMMA AskKeepsProfiles ==
  ASSUME StudioInv, SyncingInv, NEW does, NEW what, NEW to, Studio!RunAction(does, what, to),
         UNCHANGED artStored,
         does = "sync" =>
           what \in StudioAgents /\ artShown # None /\ artShown.profiles[what] = 0
  PROVE  SyncingInv'
<1>1. /\ doubt' = (doubt \/ Studio!Pending # {})
      /\ doubted' = (doubted \/ Studio!Pending # {})
  BY DEF Studio!RunAction, Studio!Doubt
<1>2. ASSUME ~doubted'
      PROVE  /\ \A a \in StudioAgents : artStored'.profiles[a] <= 1
             /\ \A s \in Studio!Pending' : asks'[s].does = "sync" /\ asks'[s].stage = "sent" =>
                  asks'[s].what \in StudioAgents /\ artStored'.profiles[asks'[s].what] = 0
  <2>1. Studio!Pending = {} /\ ~doubted /\ ~doubt
    BY <1>1, <1>2 DEF SyncingInv
  <2>2. artShown # None => artShown = artStored
    BY <2>1 DEF StudioInv, ShownInvOfArt
  <2>3. PICK s \in Slots :
          asks' = [t \in Slots |->
            IF t = s
            THEN [does |-> does, what |-> what, to |-> to, stage |-> "sent",
                  answer |-> IF does = "auth" THEN artShown ELSE None, made |-> TRUE,
                  alone |-> TRUE]
            ELSE None]
    BY <2>1 DEF Studio!RunAction
  <2>4. \A t \in Studio!Pending' : t = s
    BY <2>3 DEF Studio!Pending
  <2>5. asks'[s].does = does /\ asks'[s].what = what
    BY <2>3
  <2> QED
    BY <2>1, <2>2, <2>4, <2>5 DEF SyncingInv
<1> QED
  BY <1>1, <1>2 DEF SyncingInv

LEMMA StudioAsksKeepProfiles ==
  ASSUME StudioInv, SyncingInv,
         \/ Studio!ClickAsset \/ Studio!LoadLibrary \/ Studio!ChangeOther
         \/ Studio!RemoveProfile \/ Studio!UploadAsset \/ Studio!Authorize
         \/ Studio!ClearProfileDefaults \/ Studio!GenerateMore \/ Studio!GenerateAllCategories
         \/ Studio!SyncAgentProfile \/ Studio!SavePlacement
  PROVE  SyncingInv'
<1>1. ASSUME NEW does, NEW what, NEW to, does # "sync", Studio!UserRuns(does, what, to)
      PROVE  SyncingInv'
  BY <1>1, AskKeepsProfiles DEF Studio!UserRuns
<1>2. CASE \/ Studio!ClickAsset \/ Studio!LoadLibrary \/ Studio!ChangeOther
  BY <1>1, <1>2 DEF Studio!ClickAsset, Studio!LoadLibrary, Studio!ChangeOther
<1>3. CASE Studio!RemoveProfile \/ Studio!UploadAsset \/ Studio!Authorize
  BY <1>1, <1>3 DEF Studio!RemoveProfile, Studio!UploadAsset, Studio!Authorize
<1>4. CASE \/ Studio!ClearProfileDefaults \/ Studio!GenerateMore
           \/ Studio!GenerateAllCategories \/ Studio!SavePlacement
  BY <1>1, <1>4 DEF Studio!ClearProfileDefaults, Studio!GenerateMore,
     Studio!GenerateAllCategories, Studio!SavePlacement
<1>5. CASE Studio!SyncAgentProfile
  <2>1. PICK a \in Studio!Missing(artShown) : Studio!RunAction("sync", a, None)
    BY <1>5 DEF Studio!SyncAgentProfile
  <2>2. a \in StudioAgents /\ artShown # None /\ artShown.profiles[a] = 0 /\ UNCHANGED artStored
    BY <1>5 DEF Studio!SyncAgentProfile, Studio!Missing, StudioInv, Studio!TypeOK
  <2> QED
    BY <2>1, <2>2, AskKeepsProfiles
<1> QED
  BY <1>2, <1>3, <1>4, <1>5

\* What a request leaves of the profiles
LEMMA DoneProfiles ==
  ASSUME NEW r \in Studio!Request, NEW lib \in Studio!Done(artStored, r),
         artStored \in Studio!Library, MaxCopies \in Nat,
         \A a \in StudioAgents : artStored.profiles[a] <= 1,
         r.does = "sync" => r.what \in StudioAgents /\ artStored.profiles[r.what] = 0
  PROVE  \A a \in StudioAgents : lib.profiles[a] <= 1
<1>1. /\ artStored.profiles \in [StudioAgents -> 0..MaxCopies]
      /\ r.does \in Studio!Does
  BY DEF Studio!Library, Studio!Request
<1>2. CASE r.does = "sync"
  <2>1. lib = [artStored EXCEPT !.profiles[r.what] = IF @ < MaxCopies THEN @ + 1 ELSE @]
    BY <1>2 DEF Studio!Done
  <2>2. lib.profiles = [artStored.profiles EXCEPT ![r.what] =
                          IF @ < MaxCopies THEN @ + 1 ELSE @]
    BY <2>1 DEF Studio!Library
  <2> QED
    BY <1>1, <1>2, <2>2
<1>3. CASE r.does = "remove"
  <2>1. lib = [artStored EXCEPT !.profiles[r.what] = @ - 1]
    BY <1>3 DEF Studio!Done
  <2>2. lib.profiles = [artStored.profiles EXCEPT ![r.what] = @ - 1]
    BY <2>1 DEF Studio!Library
  <2> QED
    BY <1>1, <2>2
<1>4. CASE r.does \notin {"sync", "remove"}
  <2>1. lib.profiles = artStored.profiles
    <3>1. CASE r.does \in {"choose", "toggle"}
      BY <3>1 DEF Studio!Done, Studio!Library
    <3>2. CASE r.does \in {"delete", "clear"}
      BY <3>2 DEF Studio!Done, Studio!Without, Studio!Library
    <3>3. CASE r.does = "place"
      BY <3>3 DEF Studio!Done, Studio!Library
    <3>4. CASE r.does \in {"generate", "pass"} /\ r.what = 1
      <4>1. PICK m \in Assets : lib = [artStored EXCEPT !.assets = artStored.assets \cup {m},
                                                       !.chosen = m]
        BY <3>4 DEF Studio!Done
      <4> QED
        BY <4>1 DEF Studio!Library
    <3>5. CASE r.does \in {"load", "auth"} \/ (r.does \in {"generate", "pass"} /\ r.what # 1)
      <4>1. lib = artStored
        BY <3>5 DEF Studio!Done
      <4> QED
        BY <4>1
    <3> QED
      BY <1>1, <1>4, <3>1, <3>2, <3>3, <3>4, <3>5 DEF Studio!Does
  <2> QED
    BY <2>1
<1> QED
  BY <1>2, <1>3, <1>4

LEMMA PerformKeepsProfiles ==
  ASSUME StudioInv, SyncingInv, NEW s \in Slots, Studio!Perform(s)
  PROVE  SyncingInv'
<1>1. PICK r \in Studio!Request : r = asks[s] /\ AskOk(r) /\ s \in Studio!Pending
  BY AskFacts DEF Studio!Perform
<1>2. r.stage = "sent" /\ UNCHANGED <<doubt, doubted>>
  BY <1>1 DEF Studio!Perform
<1>3. PICK lib \in Studio!Done(artStored, r) :
        /\ lib \in Studio!Library /\ artStored' = lib
        /\ asks' = [asks EXCEPT ![s] =
             [r EXCEPT !.stage = "done", !.answer = IF r.does = "auth" THEN r.answer ELSE lib]]
  BY <1>1 DEF Studio!Perform
<1> DEFINE q == [r EXCEPT !.stage = "done",
                          !.answer = IF r.does = "auth" THEN r.answer ELSE lib]
<1>4. q \in Studio!Request /\ q.stage = "done"
  BY <1>3 DEF Studio!Request
<1>5. asks' = [asks EXCEPT ![s] = q]
  BY <1>3
<1> HIDE DEF q
<1>6. AskTurned(s, q)
  BY <1>4, <1>5, AskTurnFacts
<1>7. artStored \in Studio!Library /\ MaxCopies \in Nat
  BY StudioConstants DEF StudioInv, Studio!TypeOK
<1>8. ASSUME ~doubted
      PROVE  /\ \A a \in StudioAgents : lib.profiles[a] <= 1
             /\ \A t \in Studio!Pending' : asks'[t].stage = "done"
  <2>1. \A t \in Studio!Pending : t = s
    BY <1>1, <1>8 DEF SyncingInv, StudioInv, ShownInvOfArt, LoneAsksInv
  <2>2. /\ \A a \in StudioAgents : artStored.profiles[a] <= 1
        /\ r.does = "sync" => r.what \in StudioAgents /\ artStored.profiles[r.what] = 0
    BY <1>1, <1>2, <1>8 DEF SyncingInv
  <2>3. \A a \in StudioAgents : lib.profiles[a] <= 1
    BY <1>3, <1>7, <2>2, DoneProfiles
  <2> QED
    BY <1>1, <1>4, <1>6, <2>1, <2>3 DEF AskTurned
<1> QED
  BY <1>2, <1>3, <1>8 DEF SyncingInv

\* Steps that leave the library alone, and no request to be done that was none.
LEMMA SameProfiles ==
  ASSUME SyncingInv, UNCHANGED artStored, doubt' => doubted', ~doubted' => ~doubted,
         \A t \in Studio!Pending' : asks'[t].does = "sync" /\ asks'[t].stage = "sent" =>
           t \in Studio!Pending /\ asks'[t] = asks[t]
  PROVE  SyncingInv'
BY DEF SyncingInv

LEMMA PerformNotKeepsProfiles ==
  ASSUME StudioInv, SyncingInv, NEW s \in Slots, Studio!PerformNot(s)
  PROVE  SyncingInv'
<1>1. PICK r \in Studio!Request : r = asks[s] /\ AskOk(r) /\ s \in Studio!Pending
  BY AskFacts DEF Studio!PerformNot
<1> DEFINE q == [r EXCEPT !.stage = "done", !.answer = artStored, !.made = FALSE]
<1>2. asks' = [asks EXCEPT ![s] = q] /\ UNCHANGED <<artStored, doubt, doubted>>
  BY <1>1 DEF Studio!PerformNot
<1>3. q \in Studio!Request /\ q.stage = "done"
  BY DEF StudioInv, Studio!TypeOK, Studio!Request
<1> HIDE DEF q
<1>4. AskTurned(s, q)
  BY <1>2, <1>3, AskTurnFacts
<1>5. doubt' => doubted'
  BY <1>2 DEF SyncingInv
<1> QED
  BY <1>1, <1>2, <1>3, <1>4, <1>5, SameProfiles DEF AskTurned

LEMMA LossKeepsProfiles ==
  ASSUME StudioInv, SyncingInv, NEW s \in Slots, Studio!Fail(s)
  PROVE  SyncingInv'
<1>1. PICK r \in Studio!Request : r = asks[s] /\ AskOk(r) /\ s \in Studio!Pending
  BY AskFacts DEF Studio!Fail
<1> DEFINE q == [r EXCEPT !.stage = "failed"]
<1>2. asks' = [asks EXCEPT ![s] = q] /\ UNCHANGED artStored
  BY <1>1 DEF Studio!Fail
<1>3. q \in Studio!Request /\ q.stage = "failed"
  BY DEF Studio!Request
<1> HIDE DEF q
<1>4. AskTurned(s, q)
  BY <1>2, <1>3, AskTurnFacts
<1>5. (doubt' => doubted') /\ (~doubted' => ~doubted)
  <2>1. doubt => doubted
    BY DEF SyncingInv
  <2>2. CASE Studio!Doubt(r.stage = "done" /\ r.answer # artShown)
    <3> DEFINE why == r.stage = "done" /\ r.answer # artShown
    <3>1. doubt' = (doubt \/ why) /\ doubted' = (doubted \/ why)
      BY <2>2 DEF Studio!Doubt
    <3> HIDE DEF why
    <3> QED
      BY <2>1, <3>1, Zenon
  <2>3. CASE UNCHANGED <<doubt, doubted>>
    BY <2>1, <2>3
  <2> QED
    BY <1>1, <2>2, <2>3 DEF Studio!Fail
<1> QED
  BY <1>1, <1>2, <1>3, <1>4, <1>5, SameProfiles DEF AskTurned

LEMMA AnswerKeepsProfiles ==
  ASSUME StudioInv, SyncingInv, NEW s \in Slots, Studio!Answered(s)
  PROVE  SyncingInv'
<1>1. PICK r \in Studio!Request : r = asks[s] /\ AskOk(r) /\ s \in Studio!Pending
  BY AskFacts DEF Studio!Answered
<1>2. PICK next \in Studio!Following(r) : asks' = [asks EXCEPT ![s] = next]
  BY <1>1 DEF Studio!Answered
<1>3. UNCHANGED artStored /\ (doubt' => doubted') /\ (~doubted' => ~doubted)
  BY DEF Studio!Answered, Studio!Certain, SyncingInv
<1>4. next # None => next.does # "sync"
  <2>1. CASE r.does = "clear" /\ r.to # {}
    <3>1. PICK m \in r.to : next = [r EXCEPT !.what = m, !.to = r.to \ {m}, !.stage = "sent"]
      BY <2>1 DEF Studio!Following
    <3> QED
      BY <2>1, <3>1 DEF Studio!Request
  <2>2. CASE r.does = "pass" /\ r.made /\ r.what < NumCategories
    <3>1. next = [r EXCEPT !.what = r.what + 1, !.stage = "sent", !.answer = None]
      BY <2>2 DEF Studio!Following
    <3> QED
      BY <2>2, <3>1 DEF Studio!Request
  <2>3. CASE /\ ~(r.does = "clear" /\ r.to # {})
             /\ ~(r.does = "pass" /\ r.made /\ r.what < NumCategories)
    BY <2>3 DEF Studio!Following
  <2> QED
    BY <2>1, <2>2, <2>3
<1>5. \A t \in Slots : asks'[t] = IF t = s THEN next ELSE asks[t]
  BY <1>2 DEF StudioInv, Studio!TypeOK
<1>6. \A t \in Studio!Pending' : asks'[t].does = "sync" => t \in Studio!Pending /\ asks'[t] = asks[t]
  BY <1>4, <1>5 DEF Studio!Pending
<1> QED
  BY <1>3, <1>6, SameProfiles

LEMMA FailedKeepsProfiles ==
  ASSUME StudioInv, SyncingInv, NEW s \in Slots, Studio!Failed(s)
  PROVE  SyncingInv'
<1>1. asks' = [asks EXCEPT ![s] = None] /\ UNCHANGED artStored
  BY DEF Studio!Failed, Studio!Ends
<1>2. AskEnded(s)
  BY <1>1, AskEndFacts
<1>3. (doubt' => doubted') /\ (~doubted' => ~doubted)
  BY DEF Studio!Failed, Studio!Doubt, SyncingInv
<1> QED
  BY <1>1, <1>2, <1>3, SameProfiles DEF AskEnded

LEMMA EditorKeepsProfiles ==
  ASSUME SyncingInv,
         \/ Studio!OpenPositionEditor \/ Studio!NudgePlacement \/ Studio!StartPlacementDrag
         \/ Studio!MovePlacementDrag \/ Studio!StopPlacementDrag
         \/ Studio!RequestClosePositionEditor \/ Studio!DiscardPlacement
         \/ Studio!AgentsChange \/ UNCHANGED studioVars
  PROVE  SyncingInv'
<1>1. UNCHANGED <<artStored, asks, doubt, doubted>>
  BY DEF Studio!OpenPositionEditor, Studio!NudgePlacement, Studio!StartPlacementDrag,
     Studio!MovePlacementDrag, Studio!StopPlacementDrag, Studio!RequestClosePositionEditor,
     Studio!DiscardPlacement, Studio!AgentsChange, Studio!EditorOnly, studioVars
<1> QED
  BY <1>1 DEF SyncingInv, Studio!Pending

\* An agent gets one profile in the art library, however its devices come and go and
\* whatever the user asks meanwhile (AgentArtStudio.tsx, the effect that makes profiles),
\* unless requests crossed or answers went missing.
THEOREM ProfilesAreSingle == SafetySpec => []Studio!OneProfileEach
<1>1. SafetyInit => SyncingInv
  BY DEF SafetyInit, Studio!Init, SyncingInv, Studio!Pending
<1>2. StudioInv /\ SyncingInv /\ [SafetyNext]_safetyVars => SyncingInv'
  <2> SUFFICES ASSUME StudioInv, SyncingInv, [SafetyNext]_safetyVars PROVE SyncingInv'
    OBVIOUS
  <2>1. Studio!Next \/ UNCHANGED studioVars
    BY DEF SafetyNext, safetyVars
  <2> QED
    BY <2>1, StudioAsksKeepProfiles, PerformKeepsProfiles, PerformNotKeepsProfiles,
       LossKeepsProfiles, AnswerKeepsProfiles, FailedKeepsProfiles, EditorKeepsProfiles
    DEF Studio!Next
<1>3. SyncingInv => Studio!OneProfileEach
  BY DEF SyncingInv, Studio!OneProfileEach
<1> QED
  BY <1>1, <1>2, <1>3, StudioInvariance, PTL DEF SafetySpec

----------------------------------------------------------------------------
(* The types of all parts *)

\* The relay of the run: it changes by steps of its own only.
LEMMA RelayInvariance == SafetySpec => []IInv
<1>1. SafetyInit => IInv
  BY InitIInv DEF SafetyInit
<1>2. IInv /\ [SafetyNext]_safetyVars => IInv'
  <2>1. [SafetyNext]_safetyVars => [Next]_vars
    BY DEF SafetyNext, safetyVars
  <2> QED
    BY <2>1, NextIInv
<1> QED
  BY <1>1, <1>2, PTL DEF SafetySpec

\* The relay (server.ts), a conversation (ChatView.tsx), the own node (localAgent.ts), the
\* studio, the settings, the backend in development, the wizard and the memories of a node
\* hold only values of their types.
THEOREM TypesAreCorrect == SafetySpec => []SafetyTypeOK
<1>1. IInv => TypeOK
  BY DEF IInv, DataInv, FileInv, ConnectionInv, Sessions, Registry, Files, TypeOK
<1>2. TalkInv => Talk!TypeOK
  <2> SUFFICES ASSUME TalkInv PROVE Talk!TypeOK
    OBVIOUS
  <2>1. \A s \in Talk!Sessions : kept[s] \in Conv
    BY DEF TalkInv, TalkTypes
  <2> QED
    BY <2>1 DEF TalkInv, TalkTypes, Conv, Talk!TypeOK
<1>3. /\ NodeInv => Node!TypeOK
      /\ StudioInv => Studio!TypeOK
      /\ PageInv => Page!TypeOK
      /\ HubInv => Hub!TypeOK
      /\ WizardInv => Wizard!TypeOK
      /\ NotesInv => Notes!TypeOK
  BY DEF NodeInv, StudioInv, PageInv, HubInv, WizardInv, NotesInv
<1>4. IInv /\ TalkInv /\ NodeInv /\ StudioInv /\ PageInv /\ HubInv /\ WizardInv /\ NotesInv
        => SafetyTypeOK
  BY <1>1, <1>2, <1>3 DEF SafetyTypeOK
<1> QED
  BY <1>4, RelayInvariance, TalkInvariance, NodeInvariance, StudioInvariance, PageInvariance,
     HubInvariance, WizardInvariance, NotesInvariance, PTL

=============================================================================
