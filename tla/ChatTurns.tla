----------------------------- MODULE ChatTurns -----------------------------
(***************************************************************************)
(* Chat turns on a Reika Node (server/src/main.ts): sessions, the queue of *)
(* turns of each session, a turn from the user's message to the answer, a  *)
(* turn that hands its work to a routed task, the import of a provider's   *)
(* history, and what a restart makes of all this.  The session store saves *)
(* in one step here; JsonStore has the steps of a save.                    *)
(*                                                                         *)
(* A turn of this node that carries out a routed task of another turn t is *)
(* the turn Child(t); the session that it is given is always a new one.    *)
(***************************************************************************)
EXTENDS Integers, Sequences

CONSTANTS
  Chats,            \* sessions that users write to
  MaxTurns,         \* bound: turns that users and apps request
  Routed,           \* those of them whose message refers to a project
  MaxImports,       \* bound: imports of a session after its first
  MaxCrashes,       \* bound: crashes of the node
  None

UserTurn == 1..MaxTurns
Child(t) == t + MaxTurns
Turn == UserTurn \cup {Child(t) : t \in Routed}

\* The sessions of child turns; a resumed task gets another one.
Session == Chats \cup (Routed \X (0..MaxCrashes))

VARIABLES
  turns,            \* the promises of runChatTurn, and what they wait for
  tail,             \* chatTurnQueues
  logs,             \* the messages of every session object
  current,          \* the session object that the store holds
  imported,         \* sessions whose id is that of a provider's session
  tasks,            \* the routed task of a turn, a row in SQLite
  file,             \* the sessions in the file
  dirty,            \* whether a save is queued
  resuming,         \* the task that the recovery loop waits for
  crashes

vars == <<turns, tail, logs, current, imported, tasks, file, dirty, resuming, crashes>>

Object == 0..MaxImports     \* the objects that a session has had

Message == [turn : Turn \cup {None}, role : {"user", "assistant", "history"}, late : BOOLEAN]

\* The phases of a promise: in its session's queue, at its provider, planning
\* a route, at another node, at its child turn, and over.
Phase == {"queued", "calling", "planning", "remote", "child", "settled"}

TurnRow == [session : Session, object : Object, phase : Phase, after : Turn \cup {None}]

ASSUME BoundsAssumption ==
  /\ MaxTurns \in Nat /\ MaxImports \in Nat /\ MaxCrashes \in Nat
  /\ Routed \subseteq UserTurn

\* Values of different kinds differ.
ASSUME KindsAssumption ==
  /\ None \notin Turn \cup Object /\ None \notin TurnRow
  /\ \A s \in Chats, t \in Routed, n \in 0..MaxCrashes : s # <<t, n>>

Init ==
  /\ turns = [t \in Turn |-> None]
  /\ tail = [s \in Session |-> None]
  /\ logs = [s \in Session |-> [o \in Object |-> <<>>]]
  /\ current = [s \in Session |-> None] /\ imported = {}
  /\ tasks = [t \in Routed |-> "none"]
  /\ file = [s \in Session |-> None]
  /\ dirty = FALSE /\ resuming = None /\ crashes = 0

----------------------------------------------------------------------------
(* Sessions and their messages *)

Exists(s) == current[s] # None

Memory == [s \in Session |-> IF Exists(s) THEN logs[s][current[s]] ELSE None]

\* appendMessage: the message goes to the object that the caller holds, which
\* the store takes (touch), and a save is queued.
AppendMessage(s, o, messages) ==
  /\ logs' = [logs EXCEPT ![s][o] = @ \o messages]
  /\ current' = [current EXCEPT ![s] = o]
  /\ dirty' = TRUE

Said(t, role) == [turn |-> t, role |-> role, late |-> FALSE]

\* createSession
Create(s) ==
  /\ current' = [current EXCEPT ![s] = 0]
  /\ dirty' = TRUE

\* POST /sessions
CreateSession(s) ==
  /\ ~Exists(s) /\ Create(s)
  /\ UNCHANGED <<turns, tail, logs, tasks, file, resuming, imported, crashes>>

\* importProviderSession puts a new object in the place of the old one.
ImportHistory(s) ==
  LET o == IF Exists(s) THEN current[s] + 1 ELSE 0
  IN
  /\ Exists(s) => s \in imported
  /\ o \in Object /\ \A p \in Object : p >= o => logs[s][p] = <<>>
  /\ imported' = imported \cup {s}
  /\ AppendMessage(s, o, <<[turn |-> None, role |-> "history", late |-> FALSE]>>)
  /\ UNCHANGED <<turns, tail, tasks, file, resuming, crashes>>

----------------------------------------------------------------------------
(* The queue of turns *)

IsSettled(t) == turns[t] # None /\ turns[t].phase = "settled"

\* enqueueChatTurn: the turn waits for the last promise of its session.
Queued(s, o) == [session |-> s, object |-> o, phase |-> "queued", after |-> tail[s]]

\* Faulty: the entry is deleted whoever it belongs to.
TailAfter_Deleted(t) == [tail EXCEPT ![turns[t].session] = None]

\* The finally handler: the last turn of a session deletes its entry.
TailAfter(t) ==
  [tail EXCEPT ![turns[t].session] = IF @ = t THEN None ELSE @]

\* runChatTurn, up to the promise: getOrCreateSession and enqueueChatTurn.
RequestTurn(t, s) ==
  /\ turns[t] = None /\ \A u \in UserTurn : u < t => turns[u] # None
  /\ turns' = [turns EXCEPT ![t] = Queued(s, IF Exists(s) THEN current[s] ELSE 0)]
  /\ tail' = [tail EXCEPT ![s] = t]
  /\ IF Exists(s) THEN UNCHANGED <<current, dirty>> ELSE Create(s)
  /\ UNCHANGED <<logs, tasks, file, resuming, imported, crashes>>

MayStart(t) ==
  /\ turns[t] # None /\ turns[t].phase = "queued"
  /\ turns[t].after \in {None} \cup {u \in Turn : IsSettled(u)}

Phased(t, phase) == turns' = [turns EXCEPT ![t].phase = phase]

Settle(t) ==
  /\ Phased(t, "settled")
  /\ tail' = TailAfter(t)

Say(t, messages) == AppendMessage(turns[t].session, turns[t].object, messages)

\* executeChatTurn up to its first await: refused, because there is no such
\* provider; answered at once, because the project is ambiguous; or sent on.
\* A child turn is not routed again (skipMemoryMeshRouting).
StartTurn(t) ==
  /\ MayStart(t)
  /\ \/ Settle(t) /\ UNCHANGED <<logs, current, dirty>>
     \/ /\ t \in Routed
        /\ Say(t, <<Said(t, "user"), Said(t, "assistant")>>) /\ Settle(t)
     \/ /\ Say(t, <<Said(t, "user")>>)
        /\ Phased(t, IF t \in Routed THEN "planning" ELSE "calling") /\ UNCHANGED tail
  /\ UNCHANGED <<tasks, file, resuming, imported, crashes>>

\* The provider answers, or fails and leaves the message without an answer.
ProviderReturns(t) ==
  /\ turns[t] # None /\ turns[t].phase = "calling"
  /\ Settle(t)
  /\ Say(t, <<Said(t, "assistant")>>) \/ UNCHANGED <<logs, current, dirty>>
  /\ UNCHANGED <<tasks, file, resuming, imported, crashes>>

\* Faulty: the child turn is given the session of its parent.
ChildSession_Parents(t) == turns[t].session

\* The session 'mesh_<id>' does not exist, and a session is made for the turn.
ChildSession(t) == <<t, crashes>>

\* runPersistedMemoryMeshTask of a local agent, up to its await.
StartChild(t, phased) ==
  LET s == ChildSession(t)
      o == IF Exists(s) THEN current[s] ELSE 0
  IN
  /\ turns' = [phased EXCEPT ![Child(t)] = Queued(s, o)]
  /\ tail' = [tail EXCEPT ![s] = Child(t)]
  /\ current' = [current EXCEPT ![s] = o] /\ dirty' = TRUE

\* The origin agent has planned, and executeMemoryMeshTask goes on: the task
\* cannot be routed, is sent to another node, or is done by a turn here.
PlanEnds(t) ==
  /\ turns[t] # None /\ turns[t].phase = "planning"
  /\ \/ Say(t, <<Said(t, "assistant")>>) /\ Settle(t) /\ UNCHANGED tasks
     \/ /\ tasks' = [tasks EXCEPT ![t] = "working"]
        /\ Phased(t, "remote") /\ UNCHANGED <<tail, logs, current, dirty>>
     \/ /\ tasks' = [tasks EXCEPT ![t] = "working"]
        /\ StartChild(t, [turns EXCEPT ![t].phase = "child"]) /\ UNCHANGED logs
  /\ UNCHANGED <<file, resuming, imported, crashes>>

\* The task is settled, whatever came of it, and the turn tells of it.
TaskEnds(t) ==
  /\ turns[t] # None
  /\ turns[t].phase = "remote" \/ (turns[t].phase = "child" /\ IsSettled(Child(t)))
  /\ tasks' = [tasks EXCEPT ![t] = "settled"]
  /\ Say(t, <<Said(t, "assistant")>>) /\ Settle(t)
  /\ UNCHANGED <<file, resuming, imported, crashes>>

----------------------------------------------------------------------------
(* Saves, crashes and recovery *)

Save ==
  /\ dirty /\ dirty' = FALSE
  /\ file' = Memory
  /\ UNCHANGED <<turns, tail, logs, current, tasks, resuming, imported, crashes>>

SaveFails ==
  /\ dirty /\ dirty' = FALSE
  /\ UNCHANGED <<turns, tail, logs, current, tasks, file, resuming, imported, crashes>>

\* The process ends, and the next one loads the sessions and takes up the
\* interrupted tasks.
Crash ==
  /\ crashes < MaxCrashes /\ crashes' = crashes + 1
  /\ turns' = [t \in Turn |->
       IF turns[t] = None \/ t \notin UserTurn THEN None
       ELSE [turns[t] EXCEPT !.phase = "settled", !.object = 0]]
  /\ tail' = [s \in Session |-> None]
  /\ logs' = [s \in Session |-> [o \in Object |-> IF o = 0 /\ file[s] # None THEN file[s] ELSE <<>>]]
  /\ current' = [s \in Session |-> IF file[s] # None THEN 0 ELSE None]
  /\ dirty' = FALSE /\ resuming' = None
  /\ imported' = {s \in imported : file[s] # None}
  /\ UNCHANGED <<tasks, file>>

\* Whether the recovery loop has this task on its list.
IsInterrupted(t) == tasks[t] = "working" /\ IsSettled(t)

\* resumeInterruptedMemoryMeshTasks: the next task, newest first.
ResumeTask(t) ==
  /\ resuming = None /\ IsInterrupted(t)
  /\ \A u \in Routed : u > t => ~IsInterrupted(u)
  /\ resuming' = t
  /\ \/ StartChild(t, turns)
     \/ UNCHANGED <<turns, tail, current, dirty>>
  /\ UNCHANGED <<logs, tasks, file, imported, crashes>>

\* Faulty: any answer in the session is taken for the task's.
IsReported_Any(t, messages) ==
  \E i \in DOMAIN messages : messages[i].role = "assistant"

\* Whether a message of the session has the task's id.
IsReported(t, messages) ==
  \E i \in DOMAIN messages : messages[i].turn = t /\ messages[i].role = "assistant"

\* The resumed task is settled; the session that it came from is told, past
\* the queue of that session, if it is there.
ResumedTaskEnds ==
  LET t == resuming
      s == turns[t].session
  IN
  /\ t # None /\ resuming' = None
  /\ turns[Child(t)] # None => IsSettled(Child(t))
  /\ tasks' = [tasks EXCEPT ![t] = "settled"]
  /\ IF Exists(s) /\ ~IsReported(t, logs[s][current[s]])
     THEN AppendMessage(s, current[s], <<[turn |-> t, role |-> "assistant", late |-> TRUE]>>)
     ELSE UNCHANGED <<logs, current, dirty>>
  /\ UNCHANGED <<turns, tail, file, imported, crashes>>

----------------------------------------------------------------------------

Next ==
  \/ Save \/ SaveFails \/ Crash \/ ResumedTaskEnds
  \/ \E s \in Chats : CreateSession(s) \/ ImportHistory(s)
  \/ \E t \in UserTurn, s \in Chats : RequestTurn(t, s)
  \/ \E t \in Turn : StartTurn(t) \/ ProviderReturns(t)
  \/ \E t \in Routed : PlanEnds(t) \/ TaskEnds(t) \/ ResumeTask(t)

\* Promises go on; the calls of providers and of other nodes have deadlines.
Fairness ==
  /\ \A t \in Turn : WF_vars(StartTurn(t)) /\ WF_vars(ProviderReturns(t))
  /\ \A t \in Routed : WF_vars(PlanEnds(t)) /\ WF_vars(TaskEnds(t)) /\ WF_vars(ResumeTask(t))
  /\ WF_vars(ResumedTaskEnds) /\ WF_vars(Save \/ SaveFails)

Spec == Init /\ [][Next]_vars /\ Fairness

----------------------------------------------------------------------------
(* Properties *)

TypeOK ==
  /\ turns \in [Turn -> TurnRow \cup {None}]
  /\ tail \in [Session -> Turn \cup {None}]
  /\ \A s \in Session, o \in Object : logs[s][o] \in Seq(Message)
  /\ current \in [Session -> Object \cup {None}]
  /\ tasks \in [Routed -> {"none", "working", "settled"}]
  /\ \A s \in Session : file[s] # None => file[s] \in Seq(Message)
  /\ dirty \in BOOLEAN
  /\ resuming \in Routed \cup {None} /\ crashes \in 0..MaxCrashes
  \* only the turns of a session that are not over have an entry in its queue
  /\ \A s \in Session : tail[s] # None => turns[tail[s]].session = s /\ ~IsSettled(tail[s])

\* Turns of a session do not interleave: between the message and the answer
\* of a turn there is nothing but what resumed tasks have told.
TurnsDoNotInterleave ==
  \A s \in Session, o \in Object :
    LET log == logs[s][o] IN
    \A i, j \in DOMAIN log :
      (i < j /\ log[i].turn = log[j].turn /\ log[i].turn # None /\ ~log[j].late) =>
        \A k \in (i + 1)..(j - 1) : log[k].late

\* A turn that was requested comes to its end, although its session's other
\* turns may fail and it may wait for a turn of another session.
EveryTurnSettles ==
  \A t \in UserTurn : turns[t] # None ~> IsSettled(t)

\* A task that a crash interrupted is reported to the session that it came
\* from, if the session was saved, unless another crash comes.
InterruptedIsReported ==
  \A t \in Routed, n \in 0..MaxCrashes :
    (IsInterrupted(t) /\ Exists(turns[t].session) /\ crashes = n) ~>
      \/ crashes > n
      \/ \E s \in Session : Exists(s) /\ \E i \in DOMAIN Memory[s] :
           Memory[s][i].turn = t /\ Memory[s][i].role = "assistant"
=============================================================================
