----------------------------- MODULE MeshProofs -----------------------------
(***************************************************************************)
(* Proofs about the Memory Mesh of a Reika Node.  For any number of routed *)
(* tasks, crashes and tasks that recovery looks at: type correctness, that *)
(* an agent is given a task only when that is due, and that a settled task *)
(* stays as it is.  For any agents, devices, registry and projects: the    *)
(* points that routeTask adds up order the agents by the strength of the   *)
(* reasons for them.                                                       *)
(***************************************************************************)
EXTENDS MCMesh, FiniteSetTheorems, TLAPS

\* The rows are those of the tasks up to some number.
CreatedInOrder ==
  \E n \in 0..MaxTasks : \A t \in Task : tasks[t] # None <=> t <= n

\* Nothing has happened to a task that does not exist yet.
Untouched(t) ==
  /\ ~runs[t] /\ remote[t] = "none" /\ executions[t] = 0 /\ written[t] = 0
  /\ t \notin node.list \cup approved \cup cancelled \cup cut

\* A task that cannot be run, or that the user has still to approve.
Waits(t) ==
  /\ ~runs[t] /\ t \notin node.list
  /\ executions[t] = 0 /\ written[t] = 0

\* What the row of a task says of everything else that is kept about it.
RowIsTrue(t) ==
  /\ tasks[t].kind = "unavailable" => tasks[t].status = "unavailable" /\ ~tasks[t].approval
  /\ tasks[t].status \in {"unavailable", "awaiting_approval"} => Waits(t)
  /\ tasks[t].approval /\ t \notin approved =>
       tasks[t].status \in {"awaiting_approval", "cancelled"} /\ Waits(t)
  /\ tasks[t].status = "completed" => ~runs[t] /\ t \notin node.list
  /\ runs[t] => tasks[t].status \in {"working", "cancelled"} /\ t \notin node.list
  /\ t \in node.list => tasks[t].status \in {"queued", "cancelled"}

\* A local task is given to an agent once in every life of the node, and it
\* is on the list of a life in which it was not yet; a remote one is given to
\* the remote node when its ledger does not know it.
ExecutionsAreCounted(t) ==
  IF tasks[t].kind = "remote"
  THEN executions[t] = IF remote[t] = "none" THEN 0 ELSE 1
  ELSE /\ remote[t] = "none" /\ conn[t] = NoSocket
       /\ executions[t] <= 1 + crashes
       /\ t \in node.list \/ ~node.up => executions[t] <= crashes

\* A memory is written by the run that completes the task, or by one that a
\* crash cuts.
MemoriesAreCounted(t) ==
  /\ t \in cut \/ written[t] = IF tasks[t].status = "completed" THEN 1 ELSE 0
  /\ written[t] <= crashes + IF tasks[t].status = "completed" THEN 1 ELSE 0

\* What holds of one task, whether it exists or not.
TaskInv(t) ==
  IF tasks[t] = None THEN Untouched(t)
  ELSE RowIsTrue(t) /\ ExecutionsAreCounted(t) /\ MemoriesAreCounted(t)

NodeInv == ~node.up => node.list = {} /\ \A t \in Task : ~runs[t]

IInv ==
  /\ TypeOK /\ CreatedInOrder /\ NodeInv
  /\ \A t \in Task : TaskInv(t)

----------------------------------------------------------------------------
(* Lemmas about the operators *)

\* The new task is the first one that does not exist.
LEMMA NewTaskIsNew ==
  ASSUME CreatedInOrder, NewTask \in Task
  PROVE  /\ tasks[NewTask] = None
         /\ \A t \in Task : tasks[t] # None <=> t < NewTask
<1>1. PICK n \in 0..MaxTasks : \A t \in Task : tasks[t] # None <=> t <= n
  BY DEF CreatedInOrder
<1>2. {t \in Task : tasks[t] # None} = 1..n
  BY <1>1, TasksAssumption DEF Task
<1>3. Cardinality(1..n) = n
  BY <1>1, FS_Interval
<1>4. NewTask = n + 1
  BY <1>2, <1>3 DEF NewTask
<1> QED
  BY <1>1, <1>4 DEF Task

\* A row stays a row when its task is run.
LEMMA RowIsKept ==
  ASSUME NEW row \in Row, NEW status \in Status
  PROVE  /\ Updated(row, status) \in Row /\ Marked(row, status) \in Row
         /\ Updated(row, status) # None /\ Marked(row, status) # None
         /\ Updated(row, status).status = status /\ Marked(row, status).status = status
         /\ Updated(row, status).kind = row.kind /\ Marked(row, status).kind = row.kind
         /\ Updated(row, status).approval = row.approval
         /\ Marked(row, status).approval = row.approval
         /\ row.status = status => Marked(row, status) = row
BY NoneAssumption DEF Row, Updated, Marked

\* What is left of a run that ends: its task is not run, and it has no socket.
LEMMA EndRunFacts ==
  ASSUME TypeOK, NEW t \in Task, EndRun(t)
  PROVE  /\ runs' \in [Task -> BOOLEAN] /\ conn' \in [Task -> Connection]
         /\ ~runs'[t] /\ conn'[t] = NoSocket
         /\ \A u \in Task \ {t} : runs'[u] = runs[u] /\ conn'[u] = conn[u]
BY DEF TypeOK, EndRun, NoSocket, Connection

\* A run puts its task to work, and gives it to an agent if it is local.
LEMMA RunFacts ==
  ASSUME TypeOK, NEW t \in Task, NEW rows \in [Task -> Row \cup {None}], rows[t] # None,
         Run(t, rows)
  PROVE  /\ tasks' \in [Task -> Row \cup {None}] /\ runs' \in [Task -> BOOLEAN]
         /\ conn' \in [Task -> Connection]
         /\ tasks'[t] # None /\ tasks'[t].status = "working"
         /\ tasks'[t].kind = rows[t].kind /\ tasks'[t].approval = rows[t].approval
         /\ runs'[t]
         /\ rows[t].kind # "local" => executions' = executions
         /\ rows[t].kind = "local" =>
              conn' = conn /\ executions' = [executions EXCEPT ![t] = @ + 1]
         /\ \A u \in Task \ {t} :
              /\ tasks'[u] = rows[u] /\ runs'[u] = runs[u]
              /\ conn'[u] = conn[u] /\ executions'[u] = executions[u]
<1>1. rows[t] \in Row
  OBVIOUS
<1>2. "working" \in Status
  BY DEF Status
<1>3. tasks' = [rows EXCEPT ![t] = Updated(rows[t], "working")]
  BY DEF Run
<1>4. runs' = [runs EXCEPT ![t] = TRUE]
  BY DEF Run
<1>5. [NoSocket EXCEPT !.socket = "connecting"] \in Connection
  BY DEF NoSocket, Connection
<1>6. /\ conn' \in [Task -> Connection]
      /\ rows[t].kind # "local" => executions' = executions
      /\ rows[t].kind = "local" =>
           conn' = conn /\ executions' = [executions EXCEPT ![t] = @ + 1]
      /\ \A u \in Task \ {t} : conn'[u] = conn[u] /\ executions'[u] = executions[u]
  BY <1>5 DEF Run, TypeOK
<1> QED
  BY <1>1, <1>2, <1>3, <1>4, <1>6, RowIsKept DEF TypeOK

\* A task of which nothing changes keeps what holds of it.
LEMMA OtherTasksKeepTheirs ==
  ASSUME NEW t \in Task, TaskInv(t),
         tasks'[t] = tasks[t], runs'[t] = runs[t], conn'[t] = conn[t],
         remote'[t] = remote[t], executions'[t] = executions[t], written'[t] = written[t],
         node'.up = node.up, crashes' = crashes,
         t \in node'.list <=> t \in node.list, t \in approved' <=> t \in approved,
         t \in cancelled' <=> t \in cancelled, t \in cut' <=> t \in cut
  PROVE  TaskInv(t)'
BY DEF TaskInv, Untouched, RowIsTrue, Waits, ExecutionsAreCounted, MemoriesAreCounted

\* Only created tasks have a row afterwards, if no row comes or goes.
LEMMA SameTasksInOrder ==
  ASSUME CreatedInOrder, \A t \in Task : tasks'[t] # None <=> tasks[t] # None
  PROVE  CreatedInOrder'
BY DEF CreatedInOrder

----------------------------------------------------------------------------
(* Every action keeps the invariant *)

LEMMA InitIInv == Init => IInv
<1> SUFFICES ASSUME Init PROVE IInv
  OBVIOUS
<1>1. TypeOK
  BY TasksAssumption DEF Init, TypeOK, NoSocket, Connection
<1>2. CreatedInOrder
  <2>1. 0 \in 0..MaxTasks /\ \A t \in Task : tasks[t] # None <=> t <= 0
    BY TasksAssumption DEF Init, Task
  <2> QED
    BY <2>1 DEF CreatedInOrder
<1> QED
  BY <1>1, <1>2 DEF Init, IInv, NodeInv, TaskInv, Untouched

\* A step in which one task changes keeps the invariant if it does for that task.
LEMMA OneTaskChanges ==
  ASSUME IInv, NEW t \in Task, TaskInv(t)', CreatedInOrder',
         node'.up = node.up, node.up \/ (node' = node /\ runs' = runs), crashes' = crashes,
         node' \in [up : BOOLEAN, list : SUBSET Task, current : Task \cup {None}],
         tasks' \in [Task -> Row \cup {None}], runs' \in [Task -> BOOLEAN],
         conn' \in [Task -> Connection],
         remote' \in [Task -> {"none", "running", "answered", "rejected"}],
         executions' \in [Task -> Nat], written' \in [Task -> Nat],
         approved' \subseteq Task, cancelled' \subseteq Task, cut' \subseteq Task,
         ~runs'[t] => conn'[t] = NoSocket,
         \A u \in Task \ {t} :
           /\ tasks'[u] = tasks[u] /\ runs'[u] = runs[u] /\ conn'[u] = conn[u]
           /\ remote'[u] = remote[u] /\ executions'[u] = executions[u]
           /\ written'[u] = written[u]
           /\ u \in node'.list <=> u \in node.list
           /\ u \in approved' <=> u \in approved
           /\ u \in cancelled' <=> u \in cancelled
           /\ u \in cut' <=> u \in cut
  PROVE  IInv'
<1>1. \A u \in Task : TaskInv(u)'
  <2> SUFFICES ASSUME NEW u \in Task, u # t PROVE TaskInv(u)'
    OBVIOUS
  <2> QED
    BY OtherTasksKeepTheirs DEF IInv
<1>2. crashes \in 0..MaxCrashes
  BY DEF IInv, TypeOK
<1>3. executions' \in [Task -> 0..(MaxCrashes + 1)] /\ written' \in [Task -> 0..(MaxCrashes + 1)]
  <2> SUFFICES ASSUME NEW u \in Task
               PROVE  executions'[u] <= MaxCrashes + 1 /\ written'[u] <= MaxCrashes + 1
    BY TasksAssumption
  <2> QED
    BY <1>1, <1>2, TasksAssumption
       DEF TaskInv, Untouched, ExecutionsAreCounted, MemoriesAreCounted
<1>4. TypeOK'
  BY <1>2, <1>3 DEF IInv, TypeOK
<1> QED
  BY <1>1, <1>4 DEF IInv, NodeInv

\* The types, with counters that are not bounded by the crashes.
LEMMA Types ==
  ASSUME IInv
  PROVE  /\ node \in [up : BOOLEAN, list : SUBSET Task, current : Task \cup {None}]
         /\ tasks \in [Task -> Row \cup {None}] /\ runs \in [Task -> BOOLEAN]
         /\ conn \in [Task -> Connection]
         /\ remote \in [Task -> {"none", "running", "answered", "rejected"}]
         /\ executions \in [Task -> Nat] /\ written \in [Task -> Nat]
         /\ approved \subseteq Task /\ cancelled \subseteq Task /\ cut \subseteq Task
         /\ crashes \in Nat /\ crashes <= MaxCrashes
         /\ \A t \in Task : ~runs[t] => conn[t] = NoSocket
         /\ \A t \in Task : tasks[t] # None => tasks[t] \in Row
BY TasksAssumption DEF IInv, TypeOK

\* A task that goes to work when it is due fits its row.
LEMMA WorkFits ==
  ASSUME NEW t \in Task, tasks'[t] # None, tasks'[t].status = "working", runs'[t], node'.up,
         tasks'[t].kind # "unavailable", tasks'[t].approval => t \in approved',
         t \notin node'.list, crashes' \in Nat,
         ExecutionsAreCounted(t)', written'[t] <= crashes', t \in cut' \/ written'[t] = 0
  PROVE  TaskInv(t)'
BY DEF TaskInv, RowIsTrue, MemoriesAreCounted

LEMMA ExecuteKeepsIInv ==
  ASSUME IInv, NEW kind \in Kinds, NEW a \in BOOLEAN, NEW u \in BOOLEAN, Execute(kind, a, u)
  PROVE  IInv'
<1>1. PICK t \in Task : t = NewTask
  BY DEF Execute
<1> DEFINE Created(status) == [tasks EXCEPT ![t] =
             [status |-> status, recovery |-> FALSE, kind |-> kind, approval |-> a]]
<1>2. tasks[t] = None /\ \A s \in Task : tasks[s] # None <=> s < t
  BY <1>1, NewTaskIsNew DEF IInv
<1>3. Untouched(t) /\ conn[t] = NoSocket
  BY <1>1, <1>2 DEF IInv, TaskInv, Untouched, TypeOK
<1>4. /\ node.up
      /\ approved' = IF u THEN approved \cup {t} ELSE approved
      /\ remote' = remote /\ node' = node /\ written' = written
      /\ cancelled' = cancelled /\ cut' = cut /\ crashes' = crashes
      /\ kind = "unavailable" => ~a
      /\ u => a
  BY <1>1 DEF Execute
<1>5. tasks'[t] # None /\ (\A s \in Task \ {t} : tasks'[s] = tasks[s]) => CreatedInOrder'
  <2> SUFFICES ASSUME tasks'[t] # None, \A s \in Task \ {t} : tasks'[s] = tasks[s]
               PROVE  CreatedInOrder'
    OBVIOUS
  <2>1. t \in 0..MaxTasks /\ \A s \in Task : tasks'[s] # None <=> s <= t
    BY <1>1, <1>2 DEF Task
  <2> QED
    BY <2>1 DEF CreatedInOrder
<1>6. ASSUME NEW status \in Status
      PROVE  /\ Created(status) \in [Task -> Row \cup {None}] /\ Created(status)[t] # None
             /\ Created(status)[t].kind = kind /\ Created(status)[t].approval = a
             /\ Created(status)[t].status = status
             /\ \A s \in Task \ {t} : Created(status)[s] = tasks[s]
  <2>1. [status |-> status, recovery |-> FALSE, kind |-> kind, approval |-> a] \in Row
    BY DEF Row
  <2> QED
    BY <1>1, <2>1, NoneAssumption DEF IInv, TypeOK
<1>7. CASE kind = "unavailable" \/ (a /\ ~u)
  <2> DEFINE status == IF kind = "unavailable" THEN kind ELSE "awaiting_approval"
  <2>1. /\ tasks' = Created(status)
        /\ runs' = runs /\ conn' = conn /\ executions' = executions
    BY <1>1, <1>4, <1>7 DEF Execute
  <2>2. status \in Status
    BY DEF Status
  <2>3. /\ tasks' \in [Task -> Row \cup {None}] /\ tasks'[t] # None
        /\ tasks'[t].kind = kind /\ tasks'[t].approval = a /\ tasks'[t].status = status
        /\ \A s \in Task \ {t} : tasks'[s] = tasks[s]
    BY <1>6, <2>1, <2>2
  <2>4. TaskInv(t)'
    BY <1>3, <1>4, <1>7, <2>1, <2>3, Types
       DEF TaskInv, RowIsTrue, Waits, Untouched, ExecutionsAreCounted, MemoriesAreCounted
  <2> QED
    BY <1>1, <1>3, <1>4, <1>5, <2>1, <2>3, <2>4, Types, OneTaskChanges
<1>8. CASE kind # "unavailable" /\ (a => u)
  <2> DEFINE rows == Created("queued")
  <2>1. Run(t, rows)
    BY <1>1, <1>4, <1>8 DEF Execute
  <2>2. "queued" \in Status
    BY DEF Status
  <2>3. /\ rows \in [Task -> Row \cup {None}] /\ rows[t] # None
        /\ rows[t].kind = kind /\ rows[t].approval = a
        /\ \A s \in Task \ {t} : rows[s] = tasks[s]
    BY <1>6, <2>2
  <2> HIDE DEF rows
  <2>4. TypeOK
    BY DEF IInv
  <2>5. /\ tasks' \in [Task -> Row \cup {None}] /\ runs' \in [Task -> BOOLEAN]
        /\ conn' \in [Task -> Connection]
        /\ tasks'[t] # None /\ tasks'[t].status = "working"
        /\ tasks'[t].kind = kind /\ tasks'[t].approval = a
        /\ runs'[t]
        /\ kind # "local" => executions' = executions
        /\ kind = "local" => conn' = conn /\ executions' = [executions EXCEPT ![t] = @ + 1]
        /\ \A s \in Task \ {t} :
             /\ tasks'[s] = tasks[s] /\ runs'[s] = runs[s]
             /\ conn'[s] = conn[s] /\ executions'[s] = executions[s]
    BY <1>1, <2>1, <2>3, <2>4, RunFacts
  <2>6. executions' \in [Task -> Nat]
    BY <1>1, <2>5, Types
  <2>7. ExecutionsAreCounted(t)'
    BY <1>1, <1>3, <1>4, <1>8, <2>5, Types, TasksAssumption
       DEF Untouched, ExecutionsAreCounted
  <2>8. TaskInv(t)'
    BY <1>1, <1>3, <1>4, <1>8, <2>5, <2>7, Types, WorkFits DEF Untouched
  <2> QED
    BY <1>1, <1>3, <1>4, <1>5, <2>5, <2>6, <2>8, Types, OneTaskChanges
<1> QED
  BY <1>7, <1>8

LEMMA ApproveKeepsIInv ==
  ASSUME IInv, NEW t \in Task, Approve(t)
  PROVE  IInv'
<1>1. /\ node.up /\ tasks[t] \in Row /\ tasks[t].status = "awaiting_approval"
      /\ approved' = approved \cup {t}
      /\ remote' = remote /\ node' = node /\ written' = written
      /\ cancelled' = cancelled /\ cut' = cut /\ crashes' = crashes
  BY Types DEF Approve, MayApprove, Is
<1>2. /\ tasks[t] # None /\ TaskInv(t)
      /\ TypeOK /\ Waits(t) /\ tasks[t].kind # "unavailable"
  BY <1>1, NoneAssumption DEF IInv, TaskInv, RowIsTrue
<1> DEFINE rows == [tasks EXCEPT ![t] = Updated(@, "queued")]
<1>3. "queued" \in Status
  BY DEF Status
<1>4. /\ rows \in [Task -> Row \cup {None}] /\ rows[t] # None
      /\ rows[t].kind = tasks[t].kind
      /\ \A u \in Task \ {t} : rows[u] = tasks[u]
  BY <1>1, <1>3, Types, RowIsKept
<1>5. Run(t, rows)
  BY DEF Approve
<1> HIDE DEF rows
<1>6. /\ tasks' \in [Task -> Row \cup {None}] /\ runs' \in [Task -> BOOLEAN]
      /\ conn' \in [Task -> Connection]
      /\ tasks'[t] # None /\ tasks'[t].status = "working"
      /\ tasks'[t].kind = tasks[t].kind
      /\ runs'[t]
      /\ tasks[t].kind # "local" => executions' = executions
      /\ tasks[t].kind = "local" =>
           conn' = conn /\ executions' = [executions EXCEPT ![t] = @ + 1]
      /\ \A u \in Task \ {t} :
           /\ tasks'[u] = tasks[u] /\ runs'[u] = runs[u]
           /\ conn'[u] = conn[u] /\ executions'[u] = executions[u]
  BY <1>2, <1>4, <1>5, RunFacts
<1>7. executions' \in [Task -> Nat]
  BY <1>6, Types
<1>8. tasks[t].kind \in {"local", "remote"}
  BY <1>1, <1>2, TasksAssumption DEF Row
<1>9. ExecutionsAreCounted(t)'
  BY <1>1, <1>2, <1>6, <1>8, Types DEF TaskInv, Waits, ExecutionsAreCounted
<1>10. t \in cut \/ written[t] = 0
  BY <1>1, <1>2 DEF TaskInv, MemoriesAreCounted
<1>11. TaskInv(t)'
  BY <1>1, <1>2, <1>6, <1>9, <1>10, Types, WorkFits DEF Waits
<1>12. CreatedInOrder'
  BY <1>2, <1>6, SameTasksInOrder DEF IInv
<1> QED
  BY <1>1, <1>6, <1>7, <1>11, <1>12, Types, OneTaskChanges

\* The row of a task that is marked as cancelled or settled.
LEMMA MarkedFacts ==
  ASSUME TypeOK, NEW t \in Task, tasks[t] # None, NEW status \in Status,
         tasks' = [tasks EXCEPT ![t] = Marked(@, status)]
                  \/ tasks' = [tasks EXCEPT ![t] = Updated(@, status)]
  PROVE  /\ tasks' \in [Task -> Row \cup {None}]
         /\ tasks'[t] # None /\ tasks'[t].status = status
         /\ tasks'[t].kind = tasks[t].kind /\ tasks'[t].approval = tasks[t].approval
         /\ \A u \in Task \ {t} : tasks'[u] = tasks[u]
<1>1. tasks[t] \in Row
  BY DEF TypeOK
<1> QED
  BY <1>1, RowIsKept DEF TypeOK

LEMMA CancelKeepsIInv ==
  ASSUME IInv, NEW t \in Task, Cancel(t)
  PROVE  IInv'
<1>1. /\ node.up /\ tasks[t] # None /\ tasks[t].status \in Status \ Terminal
      /\ tasks' = [tasks EXCEPT ![t] = Marked(@, "cancelled")]
      /\ cancelled' = cancelled \cup {t}
      /\ remote' = remote /\ node' = node /\ executions' = executions /\ written' = written
      /\ approved' = approved /\ cut' = cut /\ crashes' = crashes
  BY DEF Cancel, Is
<1>2. TypeOK /\ TaskInv(t) /\ "cancelled" \in Status
  BY DEF IInv, Status
<1>3. /\ tasks' \in [Task -> Row \cup {None}]
      /\ tasks'[t] # None /\ tasks'[t].status = "cancelled"
      /\ tasks'[t].kind = tasks[t].kind /\ tasks'[t].approval = tasks[t].approval
      /\ \A u \in Task \ {t} : tasks'[u] = tasks[u]
  BY <1>1, <1>2, MarkedFacts
<1>4. /\ runs' \in [Task -> BOOLEAN] /\ conn' \in [Task -> Connection]
      /\ runs'[t] => runs[t] /\ conn'[t] = conn[t]
      /\ ~runs'[t] => conn'[t] = NoSocket
      /\ \A u \in Task \ {t} : runs'[u] = runs[u] /\ conn'[u] = conn[u]
  <2>1. CASE runs[t] /\ tasks[t].kind = "remote"
    BY <1>2, <2>1, EndRunFacts DEF Cancel
  <2>2. CASE ~(runs[t] /\ tasks[t].kind = "remote")
    BY <2>2, Types DEF Cancel
  <2> QED
    BY <2>1, <2>2
<1>5. TaskInv(t)'
  <2>1. tasks[t].status \notin {"unavailable", "completed"}
    BY <1>1 DEF Terminal
  <2>2. RowIsTrue(t)'
    BY <1>1, <1>2, <1>3, <1>4, <2>1 DEF TaskInv, RowIsTrue, Waits
  <2>3. ExecutionsAreCounted(t)'
    BY <1>1, <1>2, <1>3, <1>4 DEF TaskInv, ExecutionsAreCounted
  <2>4. MemoriesAreCounted(t)'
    BY <1>1, <1>2, <1>3, <2>1 DEF TaskInv, MemoriesAreCounted
  <2> QED
    BY <1>3, <2>2, <2>3, <2>4 DEF TaskInv
<1>6. CreatedInOrder'
  BY <1>1, <1>3, SameTasksInOrder DEF IInv
<1> QED
  BY <1>1, <1>3, <1>4, <1>5, <1>6, Types, OneTaskChanges

\* A run that ends, however, leaves the task completed with a memory, or as
\* it was cancelled, or failed.
LEMMA RunEndKeepsIInv ==
  ASSUME IInv, NEW t \in Task, runs[t], EndRun(t),
         Succeed(t) \/ \E status \in {"failed", "timed_out"} : Fail(t, status),
         remote' = remote, node' = node, executions' = executions,
         approved' = approved, cancelled' = cancelled, cut' = cut, crashes' = crashes
  PROVE  /\ IInv'
         /\ \A u \in Task : Is(u, Terminal) => tasks'[u] = tasks[u]
<1>1. /\ TypeOK /\ TaskInv(t) /\ node.up /\ tasks[t] # None /\ tasks[t] \in Row
      /\ tasks[t].status \in {"working", "cancelled"} /\ t \notin node.list
  BY Types DEF IInv, NodeInv, TaskInv, Untouched, RowIsTrue
<1>2. /\ runs' \in [Task -> BOOLEAN] /\ conn' \in [Task -> Connection]
      /\ ~runs'[t] /\ conn'[t] = NoSocket
      /\ \A u \in Task \ {t} : runs'[u] = runs[u] /\ conn'[u] = conn[u]
  BY <1>1, EndRunFacts
<1> DEFINE Settled(status) ==
      /\ tasks' \in [Task -> Row \cup {None}]
      /\ tasks'[t] # None /\ tasks'[t].status = status
      /\ tasks'[t].kind = tasks[t].kind /\ tasks'[t].approval = tasks[t].approval
      /\ \A u \in Task \ {t} : tasks'[u] = tasks[u]
<1>3. \/ tasks[t].status = "working" /\ Settled("completed")
           /\ written' = [written EXCEPT ![t] = @ + 1]
      \/ tasks[t].status = "working" /\ written' = written
           /\ (Settled("failed") \/ Settled("timed_out"))
      \/ tasks[t].status = "cancelled" /\ tasks' = tasks /\ written' = written
  <2>1. {"completed", "failed", "timed_out", "cancelled"} \subseteq Status
    BY DEF Status
  <2>2. CASE Succeed(t)
    <3>1. CASE tasks[t].status = "cancelled"
      BY <2>2, <3>1 DEF Succeed
    <3>2. CASE tasks[t].status # "cancelled"
      <4>1. /\ tasks' = [tasks EXCEPT ![t] = Updated(@, "completed")]
            /\ written' = [written EXCEPT ![t] = @ + 1]
        BY <2>2, <3>2 DEF Succeed
      <4>2. Settled("completed")
        BY <1>1, <2>1, <4>1, MarkedFacts
      <4> QED
        BY <1>1, <3>2, <4>1, <4>2
    <3> QED
      BY <3>1, <3>2
  <2>3. ASSUME NEW status \in {"failed", "timed_out"}, Fail(t, status)
        PROVE  \/ tasks[t].status = "working" /\ written' = written /\ Settled(status)
               \/ tasks[t].status = "cancelled" /\ tasks' = tasks /\ written' = written
    <3>1. CASE tasks[t].status = "cancelled"
      <4>1. tasks' = [tasks EXCEPT ![t] = Marked(tasks[t], "cancelled")] /\ written' = written
        BY <2>3, <3>1 DEF Fail
      <4>2. Marked(tasks[t], "cancelled") = tasks[t]
        BY <1>1, <2>1, <3>1, RowIsKept
      <4> QED
        BY <3>1, <4>1, <4>2, Types
    <3>2. CASE tasks[t].status # "cancelled"
      <4>1. tasks' = [tasks EXCEPT ![t] = Marked(@, status)] /\ written' = written
        BY <2>3, <3>2 DEF Fail
      <4>2. status \in Status
        BY <2>1
      <4>3. Settled(status)
        BY <1>1, <4>1, <4>2, MarkedFacts
      <4> QED
        BY <1>1, <3>2, <4>1, <4>3
    <3> QED
      BY <3>1, <3>2
  <2> HIDE DEF Settled
  <2> QED
    BY <2>2, <2>3
<1>4. /\ tasks' \in [Task -> Row \cup {None}] /\ written' \in [Task -> Nat]
      /\ tasks'[t] # None
      /\ tasks'[t].kind = tasks[t].kind /\ tasks'[t].approval = tasks[t].approval
      /\ \A u \in Task \ {t} : tasks'[u] = tasks[u] /\ written'[u] = written[u]
      /\ tasks'[t].status \in {"completed", "failed", "timed_out", "cancelled"}
      /\ tasks'[t].status = "completed" =>
           tasks[t].status = "working" /\ written'[t] = written[t] + 1
      /\ tasks'[t].status # "completed" => written' = written
  BY <1>1, <1>3, Types
<1>5. TaskInv(t)'
  <2>1. RowIsTrue(t)'
    BY <1>1, <1>2, <1>3, <1>4 DEF TaskInv, RowIsTrue, Waits
  <2>2. ExecutionsAreCounted(t)'
    BY <1>1, <1>2, <1>4 DEF TaskInv, ExecutionsAreCounted
  <2>3. MemoriesAreCounted(t)'
    BY <1>1, <1>4, Types DEF TaskInv, MemoriesAreCounted
  <2> QED
    BY <1>4, <2>1, <2>2, <2>3 DEF TaskInv
<1>6. CreatedInOrder'
  BY <1>1, <1>4, SameTasksInOrder DEF IInv
<1>7. IInv'
  BY <1>1, <1>2, <1>4, <1>5, <1>6, Types, OneTaskChanges
<1>8. \A u \in Task : Is(u, Terminal) => tasks'[u] = tasks[u]
  BY <1>1, <1>3 DEF Is, Terminal
<1> QED
  BY <1>7, <1>8

\* Whoever has a socket is a remote task that is run.
LEMMA SocketOfRun ==
  ASSUME IInv, NEW t \in Task, conn[t] # NoSocket
  PROVE  runs[t] /\ tasks[t] # None /\ tasks[t].kind = "remote" /\ node.up
<1>1. runs[t] /\ node.up
  BY Types DEF IInv, NodeInv
<1>2. tasks[t] # None /\ tasks[t] \in Row /\ RowIsTrue(t) /\ ExecutionsAreCounted(t)
  BY <1>1, Types DEF IInv, TaskInv, Untouched
<1> QED
  BY <1>1, <1>2, TasksAssumption DEF Row, RowIsTrue, Waits, ExecutionsAreCounted

\* What happens to a socket changes nothing else.
LEMMA SocketStep ==
  ASSUME IInv, NEW t \in Task, tasks[t] # None, tasks[t].kind = "remote",
         NEW c \in Connection, ~runs[t] => c = NoSocket,
         NEW r \in {"none", "running", "answered", "rejected"}, r = "none" <=> remote[t] = "none",
         conn' = [conn EXCEPT ![t] = c], remote' = [remote EXCEPT ![t] = r],
         UNCHANGED <<tasks, runs, node, executions, written, approved, cancelled, cut, crashes>>
  PROVE  IInv'
<1>1. CreatedInOrder'
  BY SameTasksInOrder DEF IInv
<1>2. TaskInv(t)'
  BY Types DEF IInv, TaskInv, RowIsTrue, Waits, ExecutionsAreCounted, MemoriesAreCounted
<1>3. /\ conn' \in [Task -> Connection] /\ conn'[t] = c
      /\ remote' \in [Task -> {"none", "running", "answered", "rejected"}]
      /\ \A u \in Task \ {t} : conn'[u] = conn[u] /\ remote'[u] = remote[u]
  BY Types
<1> QED
  BY <1>1, <1>2, <1>3, Types, OneTaskChanges

LEMMA SocketKeepsIInv ==
  ASSUME IInv, NEW t \in Task,
         SocketOpens(t) \/ SocketEnds(t) \/ ReconnectTimerFires(t) \/ PollTimerFires(t)
  PROVE  IInv'
<1>1. /\ runs[t] /\ tasks[t].kind = "remote" /\ conn[t] \in Connection /\ tasks[t] # None
      /\ UNCHANGED <<tasks, runs, remote, node, executions, written, approved, cancelled, cut,
                      crashes>>
  <2>1. runs[t]
    BY DEF SocketOpens, SocketEnds, ReconnectTimerFires, PollTimerFires, IsRemoteRun
  <2>2. tasks[t] # None
    BY <2>1 DEF IInv, TaskInv, Untouched
  <2> QED
    BY <2>1, <2>2, Types
       DEF SocketOpens, SocketEnds, ReconnectTimerFires, PollTimerFires, IsRemoteRun
<1>2. \E c \in Connection : conn' = [conn EXCEPT ![t] = c]
  <2>1. CASE SocketOpens(t)
    <3> DEFINE c == [conn[t] EXCEPT !.socket = "open", !.sent = TRUE,
                       !.up = @ \cup {IF conn[t].sent THEN "status" ELSE "request"}]
    <3>1. c \in Connection
      BY <1>1 DEF Connection
    <3>2. conn' = [conn EXCEPT ![t] = c]
      BY <1>1, <2>1, Types DEF SocketOpens, Connection
    <3> QED
      BY <3>1, <3>2
  <2>2. CASE SocketEnds(t)
    <3> DEFINE c == [conn[t] EXCEPT !.socket = "none", !.reconnect = TRUE, !.down = {}]
    <3>1. c \in Connection
      BY <1>1 DEF Connection
    <3>2. conn' = [conn EXCEPT ![t] = c]
      BY <1>1, <2>2, Types DEF SocketEnds, Connection
    <3> QED
      BY <3>1, <3>2
  <2>3. CASE ReconnectTimerFires(t)
    <3> DEFINE c == [conn[t] EXCEPT !.reconnect = FALSE, !.socket = "connecting"]
    <3>1. c \in Connection
      BY <1>1 DEF Connection
    <3>2. conn' = [conn EXCEPT ![t] = c]
      BY <1>1, <2>3, Types DEF ReconnectTimerFires, Connection
    <3> QED
      BY <3>1, <3>2
  <2>4. CASE PollTimerFires(t)
    <3> DEFINE c == [conn[t] EXCEPT !.up = @ \cup {"status"}]
    <3>1. c \in Connection
      BY <1>1 DEF Connection
    <3>2. conn' = [conn EXCEPT ![t] = c]
      BY <1>1, <2>4, Types DEF PollTimerFires, Connection
    <3> QED
      BY <3>1, <3>2
  <2> QED
    BY <2>1, <2>2, <2>3, <2>4
<1>3. /\ remote' = [remote EXCEPT ![t] = remote[t]]
      /\ remote[t] \in {"none", "running", "answered", "rejected"}
  BY <1>1, Types
<1> QED
  BY <1>1, <1>2, <1>3, SocketStep

\* A delivery and a reply change a connection within its type, and a reply
\* reaches no task without a socket.
LEMMA DeliveredFacts ==
  ASSUME NEW c \in Connection, NEW m
  PROVE  Delivered(c, m) \in Connection
BY DEF Delivered, Connection

LEMMA ReplyFacts ==
  ASSUME NEW c \in Connection, NEW m
  PROVE  Reply(c, m) \in Connection /\ (c = NoSocket => Reply(c, m) = NoSocket)
<1>1. CASE c.socket = "open" /\ m \in {"answered", "rejected"}
  <2>1. Reply(c, m) = [c EXCEPT !.down = c.down \cup {m}]
    BY <1>1 DEF Reply
  <2>2. c.down \cup {m} \in SUBSET {"answered", "rejected"}
    BY <1>1 DEF Connection
  <2> QED
    BY <1>1, <2>1, <2>2 DEF Connection, NoSocket
<1>2. CASE ~(c.socket = "open" /\ m \in {"answered", "rejected"})
  BY <1>2 DEF Reply
<1> QED
  BY <1>1, <1>2

LEMMA RemoteKeepsIInv ==
  ASSUME IInv, NEW t \in Task,
         \/ RequestArrives(t) \/ StatusArrives(t)
         \/ \E m \in {"request", "status"} : RequestFails(t, m)
         \/ \E o \in {"answered", "rejected"} : RemoteTurnEnds(t, o)
  PROVE  IInv'
<1>1. /\ conn[t] \in Connection
      /\ remote[t] \in {"none", "running", "answered", "rejected"}
      /\ remote = [remote EXCEPT ![t] = remote[t]]
      /\ tasks[t] = None => remote[t] = "none"
      /\ \A m \in {"request", "status"} : Delivered(conn[t], m) \in Connection
      /\ \A m \in {"request", "status"} : m \in conn[t].up => conn[t] # NoSocket
  BY Types, DeliveredFacts DEF NoSocket, IInv, TaskInv, Untouched
<1>2. CASE RequestArrives(t)
  <2>1. "request" \in conn[t].up
    BY <1>2 DEF RequestArrives
  <2>2. runs[t] /\ tasks[t] # None /\ tasks[t].kind = "remote" /\ node.up
    BY <1>1, <2>1, SocketOfRun
  <2>3. CASE remote[t] = "none"
    <3>1. /\ remote' = [remote EXCEPT ![t] = "running"]
          /\ executions' = [executions EXCEPT ![t] = @ + 1]
          /\ conn' = [conn EXCEPT ![t] = Delivered(conn[t], "request")]
          /\ tasks' = tasks /\ runs' = runs /\ node' = node /\ written' = written
          /\ approved' = approved /\ cancelled' = cancelled /\ cut' = cut
          /\ crashes' = crashes
      BY <1>2, <2>3, Types DEF RequestArrives, IsNewRequest
    <3>2. /\ conn' \in [Task -> Connection] /\ executions' \in [Task -> Nat]
          /\ remote' \in [Task -> {"none", "running", "answered", "rejected"}]
          /\ executions'[t] = executions[t] + 1 /\ remote'[t] = "running"
          /\ \A u \in Task \ {t} :
               conn'[u] = conn[u] /\ executions'[u] = executions[u] /\ remote'[u] = remote[u]
      BY <1>1, <3>1, Types
    <3>3. TaskInv(t)'
      BY <2>2, <2>3, <3>1, <3>2, Types
         DEF IInv, TaskInv, RowIsTrue, Waits, ExecutionsAreCounted, MemoriesAreCounted
    <3>4. CreatedInOrder'
      BY <3>1, SameTasksInOrder DEF IInv
    <3> QED
      BY <2>2, <3>1, <3>2, <3>3, <3>4, Types, OneTaskChanges
  <2>4. CASE remote[t] # "none"
    <3> DEFINE c == Reply(Delivered(conn[t], "request"), remote[t])
    <3>1. c \in Connection
      BY <1>1, ReplyFacts
    <3>2. conn' = [conn EXCEPT ![t] = c]
      BY <1>2, <2>4, Types DEF RequestArrives, IsNewRequest
    <3>3. UNCHANGED <<tasks, runs, node, remote, executions, written, approved, cancelled, cut,
                      crashes>>
      BY <1>2, <2>4 DEF RequestArrives, IsNewRequest
    <3> HIDE DEF c
    <3> QED
      BY <1>1, <2>2, <3>1, <3>2, <3>3, SocketStep
  <2> QED
    BY <2>3, <2>4
<1>3. CASE StatusArrives(t)
  <2>1. runs[t] /\ tasks[t] # None /\ tasks[t].kind = "remote"
    BY <1>1, <1>3, SocketOfRun DEF StatusArrives
  <2> DEFINE c == Reply(Delivered(conn[t], "status"), remote[t])
  <2>2. c \in Connection
    BY <1>1, ReplyFacts
  <2>3. conn' = [conn EXCEPT ![t] = c]
    BY <1>3, Types DEF StatusArrives
  <2>4. UNCHANGED <<tasks, runs, node, remote, executions, written, approved, cancelled, cut,
                    crashes>>
    BY <1>3 DEF StatusArrives
  <2> HIDE DEF c
  <2> QED
    BY <1>1, <2>1, <2>2, <2>3, <2>4, SocketStep
<1>4. ASSUME NEW m \in {"request", "status"}, RequestFails(t, m) PROVE IInv'
  <2>1. runs[t] /\ tasks[t] # None /\ tasks[t].kind = "remote"
    BY <1>1, <1>4, SocketOfRun DEF RequestFails
  <2>2. UNCHANGED <<tasks, runs, node, remote, executions, written, approved, cancelled, cut,
                    crashes>>
    BY <1>4 DEF RequestFails
  <2>3. CASE conn' = [conn EXCEPT ![t] = Delivered(@, m)]
    <3> DEFINE c == Delivered(conn[t], m)
    <3>1. c \in Connection /\ conn' = [conn EXCEPT ![t] = c]
      BY <1>1, <2>3
    <3> HIDE DEF c
    <3> QED
      BY <1>1, <2>1, <2>2, <3>1, SocketStep
  <2>4. CASE conn' = [conn EXCEPT ![t] = Reply(Delivered(@, m), "rejected")]
    <3> DEFINE c == Reply(Delivered(conn[t], m), "rejected")
    <3>1. c \in Connection /\ conn' = [conn EXCEPT ![t] = c]
      BY <1>1, <2>4, ReplyFacts
    <3> HIDE DEF c
    <3> QED
      BY <1>1, <2>1, <2>2, <3>1, SocketStep
  <2> QED
    BY <1>4, <2>3, <2>4 DEF RequestFails
<1>5. ASSUME NEW o \in {"answered", "rejected"}, RemoteTurnEnds(t, o) PROVE IInv'
  <2>1. /\ remote[t] = "running" /\ remote' = [remote EXCEPT ![t] = o]
        /\ conn' = [conn EXCEPT ![t] = Reply(conn[t], o)]
        /\ UNCHANGED <<tasks, runs, node, executions, written, approved, cancelled, cut, crashes>>
    BY <1>5 DEF RemoteTurnEnds
  <2>2. tasks[t] # None /\ ExecutionsAreCounted(t)
    BY <1>1, <2>1 DEF IInv, TaskInv
  <2>3. tasks[t].kind = "remote"
    BY <2>1, <2>2 DEF ExecutionsAreCounted
  <2>4. Reply(conn[t], o) \in Connection /\ (~runs[t] => Reply(conn[t], o) = NoSocket)
    BY <1>1, ReplyFacts, Types
  <2> DEFINE c == Reply(conn[t], o)
  <2> HIDE DEF c
  <2>5. c \in Connection /\ (~runs[t] => c = NoSocket) /\ conn' = [conn EXCEPT ![t] = c]
    BY <2>1, <2>4 DEF c
  <2> QED
    BY <2>1, <2>2, <2>3, <2>5, SocketStep
<1> QED
  BY <1>2, <1>3, <1>4, <1>5

----------------------------------------------------------------------------
(* Crashes *)

\* What every crash leaves, with the rows that recovery makes of these.
LEMMA EndWithFacts ==
  ASSUME IInv, NEW rows \in [Task -> Row \cup {None}], EndWith(rows)
  PROVE  /\ tasks' \in [Task -> Row \cup {None}]
         /\ \A t \in Task :
              /\ tasks'[t] = None <=> rows[t] = None
              /\ ~runs'[t] /\ conn'[t] = NoSocket
              /\ rows[t] # None =>
                   /\ tasks'[t].kind = rows[t].kind /\ tasks'[t].approval = rows[t].approval
                   /\ rows[t].status \in InFlight => tasks'[t].status = "queued"
                   /\ rows[t].status \notin InFlight => tasks'[t] = rows[t]
         /\ runs' \in [Task -> BOOLEAN] /\ conn' \in [Task -> Connection]
         /\ node' \in [up : BOOLEAN, list : SUBSET Task, current : Task \cup {None}]
         /\ ~node'.up /\ node'.list = {}
         /\ crashes' = crashes + 1 /\ crashes' \in 0..MaxCrashes
<1>1. ASSUME NEW row \in Row
      PROVE  LET new == [row EXCEPT !.status = "queued", !.recovery = TRUE] IN
             /\ new \in Row /\ new # None
             /\ new.kind = row.kind /\ new.approval = row.approval /\ new.status = "queued"
  BY NoneAssumption DEF Row, Status
<1>2. tasks' = [t \in Task |-> IF rows[t] # None /\ rows[t].status \in InFlight
                              THEN [rows[t] EXCEPT !.status = "queued", !.recovery = TRUE]
                              ELSE rows[t]]
  BY DEF EndWith, Recovered
<1>3. NoSocket \in Connection
  BY DEF NoSocket, Connection
<1>4. \A t \in Task : rows[t] # None => rows[t] \in Row
  OBVIOUS
<1>5. /\ runs' = [t \in Task |-> FALSE] /\ conn' = [t \in Task |-> NoSocket]
      /\ node' = [up |-> FALSE, list |-> {}, current |-> None]
      /\ crashes' = crashes + 1 /\ crashes < MaxCrashes
  BY DEF EndWith
<1>6. \A t \in Task :
        /\ tasks'[t] \in Row \cup {None}
        /\ tasks'[t] = None <=> rows[t] = None
        /\ rows[t] # None =>
             /\ tasks'[t].kind = rows[t].kind /\ tasks'[t].approval = rows[t].approval
             /\ rows[t].status \in InFlight => tasks'[t].status = "queued"
             /\ rows[t].status \notin InFlight => tasks'[t] = rows[t]
  BY <1>1, <1>2, <1>4
<1>7. tasks' \in [Task -> Row \cup {None}]
  BY <1>2, <1>6
<1>8. /\ runs' \in [Task -> BOOLEAN] /\ conn' \in [Task -> Connection]
      /\ \A t \in Task : ~runs'[t] /\ conn'[t] = NoSocket
  BY <1>3, <1>5
<1>9. /\ node' \in [up : BOOLEAN, list : SUBSET Task, current : Task \cup {None}]
      /\ ~node'.up /\ node'.list = {}
  BY <1>5
<1>10. crashes' = crashes + 1 /\ crashes' \in 0..MaxCrashes
  BY <1>5, Types, TasksAssumption
<1> QED
  BY <1>6, <1>7, <1>8, <1>9, <1>10

\* A task that was at rest or at work fits what a crash leaves of it.
LEMMA CrashFits ==
  ASSUME IInv, node.up, NEW t \in Task, tasks'[t] = None <=> tasks[t] = None,
         tasks[t] # None =>
           /\ tasks'[t].kind = tasks[t].kind /\ tasks'[t].approval = tasks[t].approval
           /\ tasks[t].status \in InFlight => tasks'[t].status = "queued"
           /\ tasks[t].status \notin InFlight => tasks'[t] = tasks[t],
         ~runs'[t], conn'[t] = NoSocket, node'.list = {}, ~node'.up,
         remote' = remote, executions' = executions, crashes' = crashes + 1,
         t \in approved' <=> t \in approved, cancelled' = cancelled,
         \/ written'[t] = written[t] /\ (t \in cut' <=> t \in cut)
         \/ /\ tasks[t] # None /\ tasks[t].status \in InFlight /\ t \in cut'
            /\ written'[t] = written[t] + 1
  PROVE  TaskInv(t)'
<1>1. TaskInv(t)
  BY DEF IInv
<1>2. CASE tasks[t] = None
  BY <1>1, <1>2 DEF TaskInv, Untouched
<1>3. CASE tasks[t] # None
  <2>1. RowIsTrue(t)'
    BY <1>1, <1>3 DEF TaskInv, RowIsTrue, Waits, InFlight
  <2>2. ExecutionsAreCounted(t)'
    BY <1>1, <1>3, Types DEF TaskInv, ExecutionsAreCounted
  <2>3. MemoriesAreCounted(t)'
    BY <1>1, <1>3, Types DEF TaskInv, MemoriesAreCounted, InFlight
  <2> QED
    BY <1>3, <2>1, <2>2, <2>3 DEF TaskInv
<1> QED
  BY <1>2, <1>3

\* With all tasks fitting, the invariant holds of what a crash leaves.
LEMMA CrashedIInv ==
  ASSUME IInv, NEW rows \in [Task -> Row \cup {None}], EndWith(rows),
         \A t \in Task : TaskInv(t)', CreatedInOrder',
         remote' = remote, executions' = executions, written' \in [Task -> Nat],
         approved' \subseteq Task, cancelled' \subseteq Task, cut' \subseteq Task
  PROVE  IInv'
<1>1. /\ tasks' \in [Task -> Row \cup {None}] /\ runs' \in [Task -> BOOLEAN]
      /\ conn' \in [Task -> Connection] /\ crashes' \in 0..MaxCrashes
      /\ node' \in [up : BOOLEAN, list : SUBSET Task, current : Task \cup {None}]
      /\ node'.list = {} /\ \A t \in Task : ~runs'[t] /\ conn'[t] = NoSocket
  BY EndWithFacts
<1>2. executions' \in [Task -> 0..(MaxCrashes + 1)] /\ written' \in [Task -> 0..(MaxCrashes + 1)]
  <2> SUFFICES ASSUME NEW t \in Task PROVE written'[t] <= MaxCrashes + 1
    BY DEF IInv, TypeOK
  <2> QED
    BY <1>1, TasksAssumption DEF TaskInv, Untouched, MemoriesAreCounted
<1>3. TypeOK'
  BY <1>1, <1>2, Types DEF TypeOK
<1> QED
  BY <1>1, <1>3 DEF IInv, NodeInv

LEMMA CrashKeepsIInv ==
  ASSUME IInv, Crash
  PROVE  IInv'
<1>1. /\ node.up /\ EndWith(tasks) /\ remote' = remote /\ executions' = executions
      /\ written' = written /\ approved' = approved /\ cancelled' = cancelled /\ cut' = cut
  BY DEF Crash
<1>2. tasks \in [Task -> Row \cup {None}]
  BY Types
<1>3. \A t \in Task : TaskInv(t)'
  <2> SUFFICES ASSUME NEW t \in Task PROVE TaskInv(t)'
    OBVIOUS
  <2> QED
    BY <1>1, <1>2, EndWithFacts, CrashFits
<1>4. CreatedInOrder'
  BY <1>1, <1>2, EndWithFacts, SameTasksInOrder DEF IInv
<1> QED
  BY <1>1, <1>2, <1>3, <1>4, Types, CrashedIInv

LEMMA CrashInWritebackKeepsIInv ==
  ASSUME IInv, NEW t \in Task, CrashInWriteback(t)
  PROVE  IInv'
<1>1. /\ runs[t] /\ tasks[t].status # "cancelled" /\ EndWith(tasks)
      /\ written' = [written EXCEPT ![t] = @ + 1] /\ cut' = cut \cup {t}
      /\ remote' = remote /\ executions' = executions
      /\ approved' = approved /\ cancelled' = cancelled
  BY DEF CrashInWriteback
<1>2. node.up /\ tasks[t] # None /\ tasks[t].status \in InFlight
  BY <1>1 DEF IInv, NodeInv, TaskInv, Untouched, RowIsTrue, InFlight
<1>3. tasks \in [Task -> Row \cup {None}] /\ written' \in [Task -> Nat]
  BY <1>1, Types
<1>4. \A u \in Task : TaskInv(u)'
  <2> SUFFICES ASSUME NEW u \in Task PROVE TaskInv(u)'
    OBVIOUS
  <2>1. \/ written'[u] = written[u] /\ (u \in cut' <=> u \in cut)
        \/ /\ tasks[u] # None /\ tasks[u].status \in InFlight /\ u \in cut'
           /\ written'[u] = written[u] + 1
    BY <1>1, <1>2, Types
  <2> QED
    BY <1>1, <1>2, <1>3, <2>1, EndWithFacts, CrashFits
<1>5. CreatedInOrder'
  BY <1>1, <1>3, EndWithFacts, SameTasksInOrder DEF IInv
<1> QED
  BY <1>1, <1>3, <1>4, <1>5, Types, CrashedIInv

LEMMA CrashInDispatchKeepsIInv ==
  ASSUME IInv, NEW t \in Task, CrashInDispatch(t)
  PROVE  IInv'
<1>1. /\ node.up /\ remote' = remote /\ executions' = executions /\ written' = written
      /\ cancelled' = cancelled /\ cut' = cut
      /\ approved' = approved \/ approved' = approved \cup {t}
  BY DEF CrashInDispatch
<1>2. TaskInv(t) /\ approved' \subseteq Task
  BY <1>1, Types DEF IInv
<1>3. PICK status \in {"queued", "sent", "accepted"}, kind \in Kinds \ {"unavailable"} :
        /\ tasks[t] # None => kind = tasks[t].kind
        /\ EndWith([tasks EXCEPT ![t] =
             IF @ = None
             THEN [status |-> status, recovery |-> FALSE, kind |-> kind, approval |-> FALSE]
             ELSE Updated(@, status)])
  BY DEF CrashInDispatch
<1> DEFINE row == IF tasks[t] = None
                  THEN [status |-> status, recovery |-> FALSE, kind |-> kind, approval |-> FALSE]
                  ELSE Updated(tasks[t], status)
           rows == [tasks EXCEPT ![t] = row]
<1>4. EndWith(rows)
  BY <1>3
<1>5. /\ row \in Row /\ row # None /\ row.status = status /\ row.kind = kind
      /\ row.approval = IF tasks[t] = None THEN FALSE ELSE tasks[t].approval
  <2>1. status \in Status
    BY DEF Status
  <2>2. CASE tasks[t] = None
    <3> DEFINE new == [status |-> status, recovery |-> FALSE, kind |-> kind, approval |-> FALSE]
    <3>1. new \in Row
      BY <2>1 DEF Row
    <3>2. row = new
      BY <2>2
    <3> QED
      BY <2>2, <3>1, <3>2, NoneAssumption
  <2>3. CASE tasks[t] # None
    BY <1>3, <2>1, <2>3, Types, RowIsKept
  <2> QED
    BY <2>2, <2>3
<1> HIDE DEF row
<1>6. /\ rows \in [Task -> Row \cup {None}] /\ rows[t] = row
      /\ \A u \in Task \ {t} : rows[u] = tasks[u]
  BY <1>5, Types
<1> HIDE DEF rows
<1>7. /\ tasks'[t] # None /\ tasks'[t].kind = kind /\ tasks'[t].approval = row.approval
      /\ tasks'[t].status = "queued" /\ ~runs'[t] /\ conn'[t] = NoSocket
      /\ node'.list = {} /\ crashes' = crashes + 1
  <2>1. status # "queued" => status \in InFlight
    BY DEF InFlight
  <2> QED
    BY <1>4, <1>5, <1>6, <2>1, EndWithFacts
<1>8. \/ tasks[t] = None /\ t = NewTask
      \/ tasks[t] # None /\ tasks[t].status = "awaiting_approval" /\ t \in approved'
      \/ tasks[t] # None /\ t \in node.list
  BY <1>2 DEF CrashInDispatch, MayApprove, Is, IsNext, TaskInv, Untouched
<1>9. TaskInv(t)'
  <2>1. tasks[t] = None => Untouched(t)
    BY <1>2 DEF TaskInv
  <2>2. tasks[t] # None =>
          /\ tasks[t].kind = kind /\ tasks[t].approval = row.approval
          /\ RowIsTrue(t) /\ ExecutionsAreCounted(t) /\ MemoriesAreCounted(t)
    BY <1>2, <1>3, <1>5 DEF TaskInv
  <2>3. kind \in {"local", "remote"}
    BY TasksAssumption
  <2>4. row.approval => t \in approved'
    BY <1>1, <1>5, <1>8, <2>2 DEF RowIsTrue, Waits
  <2>5. RowIsTrue(t)'
    BY <1>7, <2>3, <2>4 DEF RowIsTrue
  <2>6. ExecutionsAreCounted(t)'
    BY <1>1, <1>7, <2>1, <2>2, <2>3, Types DEF Untouched, ExecutionsAreCounted
  <2>7. tasks[t] # None => tasks[t].status # "completed"
    BY <1>8, <2>2 DEF RowIsTrue
  <2>8. MemoriesAreCounted(t)'
    BY <1>1, <1>7, <2>1, <2>2, <2>7, Types DEF Untouched, MemoriesAreCounted
  <2> QED
    BY <1>7, <2>5, <2>6, <2>8 DEF TaskInv
<1>10. \A u \in Task : TaskInv(u)'
  <2> SUFFICES ASSUME NEW u \in Task, u # t PROVE TaskInv(u)'
    BY <1>9
  <2>1. u \in approved' <=> u \in approved
    BY <1>1
  <2> QED
    BY <1>1, <1>4, <1>6, <2>1, EndWithFacts, CrashFits
<1>11. CreatedInOrder'
  <2>1. \A u \in Task : tasks'[u] = None <=> rows[u] = None
    BY <1>4, <1>6, EndWithFacts
  <2>2. CASE tasks[t] # None
    BY <1>5, <1>6, <2>1, <2>2, SameTasksInOrder DEF IInv
  <2>3. CASE tasks[t] = None
    <3>1. \A u \in Task : tasks[u] # None <=> u < t
      BY <1>8, <2>3, NewTaskIsNew DEF IInv
    <3>2. t \in 0..MaxTasks /\ \A u \in Task : tasks'[u] # None <=> u <= t
      BY <1>5, <1>6, <2>1, <3>1 DEF Task
    <3> QED
      BY <3>2 DEF CreatedInOrder
  <2> QED
    BY <2>2, <2>3
<1> QED
  BY <1>1, <1>2, <1>4, <1>6, <1>10, <1>11, Types, CrashedIInv

----------------------------------------------------------------------------
(* Recovery *)

\* A task that recovery leaves alone, or leaves for later.
LEMMA ListFits ==
  ASSUME IInv, NEW t \in Task, node'.up,
         t \in node'.list =>
           t \in node.list \/ (~node.up /\ tasks[t] # None /\ tasks[t].status = "queued"),
         tasks'[t] = tasks[t], runs'[t] = runs[t], conn'[t] = conn[t],
         executions'[t] = executions[t],
         UNCHANGED <<remote, written, approved, cancelled, cut, crashes>>
  PROVE  TaskInv(t)'
<1>1. TaskInv(t)
  BY DEF IInv
<1>2. CASE tasks[t] = None
  BY <1>1, <1>2 DEF TaskInv, Untouched
<1>3. CASE tasks[t] # None
  <2>1. RowIsTrue(t)'
    BY <1>1, <1>3 DEF TaskInv, RowIsTrue, Waits, IInv, NodeInv
  <2>2. ExecutionsAreCounted(t)'
    BY <1>1, <1>3, Types DEF TaskInv, ExecutionsAreCounted
  <2>3. MemoriesAreCounted(t)'
    BY <1>1, <1>3, Types DEF TaskInv, MemoriesAreCounted
  <2> QED
    BY <1>3, <2>1, <2>2, <2>3 DEF TaskInv
<1> QED
  BY <1>2, <1>3

\* The loop goes on with the tasks that are left to it, or starts with
\* interrupted ones.
LEMMA RunNextKeepsIInv ==
  ASSUME IInv, NEW list \in SUBSET Task, RunNext(list),
         list = node.list \/
           (~node.up /\ \A t \in list : tasks[t] # None /\ tasks[t].status = "queued"),
         UNCHANGED <<remote, written, approved, cancelled, cut, crashes>>
  PROVE  /\ IInv'
         /\ \A t \in Task : Is(t, Terminal) /\ t \notin node.list => tasks'[t] = tasks[t]
<1>1. node' \in [up : BOOLEAN, list : SUBSET Task, current : Task \cup {None}] /\ node'.up
  <2>1. CASE node' = [up |-> TRUE, list |-> {}, current |-> None]
    BY <2>1
  <2>2. ASSUME NEW t \in list, node' = [up |-> TRUE, list |-> list \ {t}, current |-> t]
        PROVE  node' \in [up : BOOLEAN, list : SUBSET Task, current : Task \cup {None}] /\ node'.up
    BY <2>2
  <2> QED
    BY <2>1, <2>2 DEF RunNext
<1>2. CASE list = {} /\ UNCHANGED <<tasks, runs, conn, executions>> /\ node'.list = {}
  <2>1. \A t \in Task : TaskInv(t)'
    BY <1>1, <1>2, ListFits
  <2>2. CreatedInOrder'
    BY <1>2, SameTasksInOrder DEF IInv
  <2>3. TypeOK'
    BY <1>1, <1>2 DEF IInv, TypeOK
  <2> QED
    BY <1>1, <1>2, <2>1, <2>2, <2>3 DEF IInv, NodeInv
<1>3. ASSUME NEW t \in list, node'.list = list \ {t}, Run(t, tasks)
      PROVE  /\ IInv'
             /\ \A u \in Task : Is(u, Terminal) /\ u \notin node.list => tasks'[u] = tasks[u]
  <2>1. /\ t \in Task /\ TypeOK /\ TaskInv(t) /\ tasks \in [Task -> Row \cup {None}]
    BY <1>3, Types DEF IInv
  <2>2. /\ tasks[t] # None /\ tasks[t] \in Row /\ RowIsTrue(t)
        /\ ExecutionsAreCounted(t) /\ MemoriesAreCounted(t)
        /\ tasks[t].status \in {"queued", "cancelled"}
        /\ t \in node.list \/ (~node.up /\ tasks[t].status = "queued")
    BY <1>3, <2>1, Types DEF TaskInv, Untouched, RowIsTrue
  <2>3. /\ tasks' \in [Task -> Row \cup {None}] /\ runs' \in [Task -> BOOLEAN]
        /\ conn' \in [Task -> Connection]
        /\ tasks'[t] # None /\ tasks'[t].status = "working"
        /\ tasks'[t].kind = tasks[t].kind /\ tasks'[t].approval = tasks[t].approval
        /\ runs'[t]
        /\ tasks[t].kind # "local" => executions' = executions
        /\ tasks[t].kind = "local" =>
             conn' = conn /\ executions' = [executions EXCEPT ![t] = @ + 1]
        /\ \A u \in Task \ {t} :
             /\ tasks'[u] = tasks[u] /\ runs'[u] = runs[u]
             /\ conn'[u] = conn[u] /\ executions'[u] = executions[u]
    BY <1>3, <2>1, <2>2, RunFacts
  <2>4. tasks[t].kind \in {"local", "remote"}
    BY <2>2, TasksAssumption DEF Row, RowIsTrue
  <2>5. tasks[t].approval => t \in approved
    BY <2>2 DEF RowIsTrue, Waits
  <2>6. ExecutionsAreCounted(t)'
    <3>1. executions'[t] = IF tasks[t].kind = "local" THEN executions[t] + 1 ELSE executions[t]
      BY <2>1, <2>3, Types
    <3> QED
      BY <1>1, <1>3, <2>1, <2>2, <2>3, <2>4, <3>1, Types DEF ExecutionsAreCounted
  <2>7. TaskInv(t)'
    BY <1>1, <1>3, <2>1, <2>2, <2>3, <2>4, <2>5, <2>6, Types, WorkFits DEF MemoriesAreCounted
  <2>8. \A u \in Task : TaskInv(u)'
    <3> SUFFICES ASSUME NEW u \in Task, u # t PROVE TaskInv(u)'
      BY <2>7
    <3> QED
      BY <1>1, <1>3, <2>3, ListFits
  <2>9. CreatedInOrder'
    BY <2>2, <2>3, SameTasksInOrder DEF IInv
  <2>10. executions' \in [Task -> Nat]
    BY <2>1, <2>3, Types
  <2>11. executions' \in [Task -> 0..(MaxCrashes + 1)]
    <3> SUFFICES ASSUME NEW u \in Task PROVE executions'[u] <= MaxCrashes + 1
      BY <2>10, TasksAssumption
    <3> QED
      BY <2>8, <2>10, Types, TasksAssumption DEF TaskInv, Untouched, ExecutionsAreCounted
  <2>12. TypeOK'
    <3>1. \A u \in Task : ~runs'[u] => conn'[u] = NoSocket
      BY <2>3, Types
    <3> QED
      BY <1>1, <2>1, <2>3, <2>11, <3>1 DEF TypeOK
  <2>13. IInv'
    BY <1>1, <2>8, <2>9, <2>12 DEF IInv, NodeInv
  <2>14. \A u \in Task : Is(u, Terminal) /\ u \notin node.list => tasks'[u] = tasks[u]
    BY <2>2, <2>3 DEF Is, Terminal
  <2> QED
    BY <2>13, <2>14
<1> QED
  BY <1>2, <1>3 DEF RunNext

LEMMA RecoveryKeepsIInv ==
  ASSUME IInv, Boot \/ ResumeNext
  PROVE  /\ IInv'
         /\ \A t \in Task : Is(t, Terminal) /\ t \notin node.list => tasks'[t] = tasks[t]
<1>1. UNCHANGED <<remote, written, approved, cancelled, cut, crashes>>
  BY DEF Boot, ResumeNext
<1>2. CASE Boot
  <2>1. /\ Interrupted \in SUBSET Task
        /\ \A t \in Interrupted : tasks[t] # None /\ tasks[t].status = "queued"
    BY DEF Interrupted, Is
  <2> QED
    BY <1>1, <1>2, <2>1, RunNextKeepsIInv DEF Boot
<1>3. CASE ResumeNext
  <2>1. node.list \in SUBSET Task
    BY Types
  <2> QED
    BY <1>1, <1>3, <2>1, RunNextKeepsIInv DEF ResumeNext
<1> QED
  BY <1>2, <1>3

----------------------------------------------------------------------------
(* The theorems *)

\* Every step keeps the invariant, and leaves a settled task alone that the
\* loop of recovery has not taken up.
LEMMA StepFacts ==
  ASSUME IInv, [Next]_vars
  PROVE  /\ IInv'
         /\ \A t \in Task : Is(t, Terminal) /\ t \notin node.list => tasks'[t] = tasks[t]
<1> DEFINE Settled == \A t \in Task : Is(t, Terminal) /\ t \notin node.list => tasks'[t] = tasks[t]
<1> SUFFICES IInv' /\ Settled
  OBVIOUS
<1>1. ASSUME NEW kind \in Kinds, NEW a \in BOOLEAN, NEW u \in BOOLEAN, Execute(kind, a, u)
      PROVE  IInv' /\ Settled
  <2>1. PICK t \in Task : t = NewTask /\ tasks[t] = None
    BY <1>1, NewTaskIsNew DEF IInv, Execute
  <2>2. \A s \in Task \ {t} : tasks'[s] = tasks[s]
    BY <1>1, <2>1, Types DEF Execute, Run
  <2>3. Settled
    BY <2>1, <2>2 DEF Is
  <2> QED
    BY <1>1, <2>3, ExecuteKeepsIInv
<1>2. ASSUME NEW t \in Task, Approve(t)
      PROVE  IInv' /\ Settled
  <2>1. Is(t, {"awaiting_approval"})
    BY <1>2 DEF Approve, MayApprove
  <2>2. \A u \in Task \ {t} : tasks'[u] = tasks[u]
    BY <1>2, Types DEF Approve, Run
  <2>3. Settled
    BY <2>1, <2>2 DEF Is, Terminal
  <2> QED
    BY <1>2, <2>3, ApproveKeepsIInv
<1>3. ASSUME NEW t \in Task, Cancel(t)
      PROVE  IInv' /\ Settled
  <2>1. Is(t, Status \ Terminal) /\ \A u \in Task \ {t} : tasks'[u] = tasks[u]
    BY <1>3, Types DEF Cancel
  <2>2. Settled
    BY <2>1 DEF Is
  <2> QED
    BY <1>3, <2>2, CancelKeepsIInv
<1>4. ASSUME NEW t \in Task,
             LocalTurnEnds(t) \/ AnswerArrives(t) \/ RejectionArrives(t) \/ TimeoutFires(t)
      PROVE  IInv' /\ Settled
  <2>1. /\ runs[t] /\ EndRun(t)
        /\ Succeed(t) \/ \E status \in {"failed", "timed_out"} : Fail(t, status)
        /\ UNCHANGED <<remote, node, executions, approved, cancelled, cut, crashes>>
    BY <1>4 DEF LocalTurnEnds, AnswerArrives, RejectionArrives, TimeoutFires, IsRemoteRun
  <2> QED
    BY <2>1, RunEndKeepsIInv
<1>5. ASSUME NEW t \in Task,
             SocketOpens(t) \/ SocketEnds(t) \/ ReconnectTimerFires(t) \/ PollTimerFires(t)
      PROVE  IInv' /\ Settled
  <2>1. tasks' = tasks
    BY <1>5 DEF SocketOpens, SocketEnds, ReconnectTimerFires, PollTimerFires
  <2> QED
    BY <1>5, <2>1, SocketKeepsIInv
<1>6. ASSUME NEW t \in Task,
             \/ RequestArrives(t) \/ StatusArrives(t)
             \/ \E m \in {"request", "status"} : RequestFails(t, m)
             \/ \E o \in {"answered", "rejected"} : RemoteTurnEnds(t, o)
      PROVE  IInv' /\ Settled
  <2>1. tasks' = tasks
    BY <1>6 DEF RequestArrives, StatusArrives, RequestFails, RemoteTurnEnds
  <2> QED
    BY <1>6, <2>1, RemoteKeepsIInv
<1>7. ASSUME NEW t \in Task, CrashInDispatch(t) \/ CrashInWriteback(t) \/ Crash
      PROVE  IInv' /\ Settled
  <2>1. IInv'
    BY <1>7, CrashInDispatchKeepsIInv, CrashInWritebackKeepsIInv, CrashKeepsIInv
  <2>2. ASSUME NEW u \in Task, Is(u, Terminal), u \notin node.list
        PROVE  tasks'[u] = tasks[u]
    <3>1. tasks[u].status \notin InFlight /\ tasks[u] # None
      BY <2>2 DEF Is, Terminal, InFlight
    <3>2. CASE CrashInWriteback(t) \/ Crash
      BY <2>2, <3>1, <3>2, Types, EndWithFacts DEF CrashInWriteback, Crash
    <3>3. CASE CrashInDispatch(t)
      <4>1. u # t
        BY <2>2, <3>3 DEF CrashInDispatch, MayApprove, Is, Terminal, IsNext
      <4>2. PICK row : EndWith([tasks EXCEPT ![t] = row])
        BY <3>3 DEF CrashInDispatch
      <4>3. tasks' = Recovered([tasks EXCEPT ![t] = row])
        BY <4>2 DEF EndWith
      <4> QED
        BY <3>1, <4>1, <4>3, Types DEF Recovered
    <3> QED
      BY <1>7, <3>2, <3>3
  <2> QED
    BY <2>1, <2>2
<1>8. CASE Crash
  <2>1. 1 \in Task
    BY TasksAssumption DEF Task
  <2> QED
    BY <1>7, <1>8, <2>1
<1>9. CASE Boot \/ ResumeNext
  BY <1>9, RecoveryKeepsIInv
<1>10. CASE UNCHANGED vars
  <2>1. IInv'
    BY <1>10 DEF vars, IInv, TypeOK, CreatedInOrder, NodeInv, TaskInv, Untouched, RowIsTrue,
                 Waits, ExecutionsAreCounted, MemoriesAreCounted
  <2> QED
    BY <1>10, <2>1 DEF vars
<1> HIDE DEF Settled
<1>11. CASE Next
  <2>1. ASSUME NEW t \in Task,
               \/ Approve(t) \/ Cancel(t) \/ LocalTurnEnds(t)
               \/ SocketOpens(t) \/ SocketEnds(t) \/ ReconnectTimerFires(t) \/ PollTimerFires(t)
               \/ AnswerArrives(t) \/ RejectionArrives(t) \/ TimeoutFires(t)
               \/ RequestArrives(t) \/ StatusArrives(t)
               \/ \E m \in {"request", "status"} : RequestFails(t, m)
               \/ \E o \in {"answered", "rejected"} : RemoteTurnEnds(t, o)
               \/ CrashInDispatch(t) \/ CrashInWriteback(t)
        PROVE  IInv' /\ Settled
    <3>1. CASE Approve(t) \/ Cancel(t)
      BY <1>2, <1>3, <3>1
    <3>2. CASE LocalTurnEnds(t) \/ AnswerArrives(t) \/ RejectionArrives(t) \/ TimeoutFires(t)
      BY <1>4, <3>2
    <3>3. CASE SocketOpens(t) \/ SocketEnds(t) \/ ReconnectTimerFires(t) \/ PollTimerFires(t)
      BY <1>5, <3>3
    <3>4. CASE \/ RequestArrives(t) \/ StatusArrives(t)
               \/ \E m \in {"request", "status"} : RequestFails(t, m)
               \/ \E o \in {"answered", "rejected"} : RemoteTurnEnds(t, o)
      BY <1>6, <3>4
    <3>5. CASE CrashInDispatch(t) \/ CrashInWriteback(t)
      BY <1>7, <3>5
    <3> QED
      BY <2>1, <3>1, <3>2, <3>3, <3>4, <3>5
  <2>2. ASSUME NEW kind \in Kinds, NEW a \in BOOLEAN, NEW u \in BOOLEAN, Execute(kind, a, u)
        PROVE  IInv' /\ Settled
    BY <1>1, <2>2
  <2> QED
    BY <1>8, <1>9, <1>11, <2>1, <2>2 DEF Next
<1> QED
  BY <1>10, <1>11

\* The rows, runs, sockets and counters of the node's routed tasks are what
\* the handlers in main.ts and the store keep of them, through every crash.
THEOREM Invariance == Spec => []IInv
<1>1. Init => IInv
  BY InitIInv
<1>2. IInv /\ [Next]_vars => IInv'
  BY StepFacts
<1> QED
  BY <1>1, <1>2, PTL DEF Spec

\* Every variable has its type, and only a run under way has a socket.
THEOREM TypeCorrect == Spec => []TypeOK
<1>1. IInv => TypeOK
  BY DEF IInv
<1> QED
  BY <1>1, Invariance, PTL

\* No agent is given a task that its user has yet to approve, no task is
\* executed twice in a life of the node, a remote one never, and only what was
\* completed left a memory.
THEOREM TasksRunWhenDue == Spec => []RunsAreDue
<1>1. IInv => RunsAreDue
  <2> SUFFICES ASSUME IInv PROVE RunsAreDue
    OBVIOUS
  <2>1. ApprovedBeforeRun
    BY DEF ApprovedBeforeRun, IInv, TaskInv, RowIsTrue, Waits
  <2>2. ExecutedOnce
    BY Types DEF ExecutedOnce, IInv, TaskInv, ExecutionsAreCounted
  <2>3. FailureNotPromoted
    <3> SUFFICES ASSUME NEW t \in Task, written[t] > 0, t \notin cut
                 PROVE  Is(t, {"completed"}) /\ written[t] = 1
      BY DEF FailureNotPromoted
    <3>1. tasks[t] # None /\ MemoriesAreCounted(t)
      BY DEF IInv, TaskInv, Untouched
    <3> QED
      BY <3>1 DEF MemoriesAreCounted, Is
  <2> QED
    BY <2>1, <2>2, <2>3 DEF RunsAreDue
<1> QED
  BY <1>1, Invariance, PTL

\* A late answer, failure, cancellation or crash changes no task that is
\* settled, unless recovery had it on its list.
THEOREM SettledTasksStay == Spec => SettledStays
<1>1. IInv /\ [Next]_vars =>
        [\A t \in Task : Is(t, Terminal) /\ t \notin node.list => tasks'[t] = tasks[t]]_vars
  BY StepFacts
<1> QED
  BY <1>1, Invariance, PTL DEF Spec, SettledStays

----------------------------------------------------------------------------
(* The choice of an agent (Routing) *)

\* No two reasons weigh as much as a stronger one.
LEMMA ScoresAreLexicographic ==
  ASSUME NEW current, NEW a, NEW b
  PROVE  /\ Choice!Score(a, current) \in Int
         /\ Choice!IsOwner(a) /\ ~Choice!IsOwner(b) =>
              Choice!Score(b, current) < Choice!Score(a, current)
         /\ /\ Choice!IsOwner(a) <=> Choice!IsOwner(b)
            /\ Choice!OnPrimaryDevice(a) /\ ~Choice!OnPrimaryDevice(b)
            => Choice!Score(b, current) < Choice!Score(a, current)
         /\ /\ Choice!IsOwner(a) <=> Choice!IsOwner(b)
            /\ Choice!OnPrimaryDevice(a) <=> Choice!OnPrimaryDevice(b)
            /\ Choice!IsCurrent(a, current) /\ ~Choice!IsCurrent(b, current)
            => Choice!Score(b, current) < Choice!Score(a, current)
         /\ /\ Choice!IsOwner(a) <=> Choice!IsOwner(b)
            /\ Choice!OnPrimaryDevice(a) <=> Choice!OnPrimaryDevice(b)
            /\ Choice!IsCurrent(a, current) <=> Choice!IsCurrent(b, current)
            => Choice!Score(b, current) = Choice!Score(a, current)
<1> DEFINE O(x) == Choice!IsOwner(x)
           P(x) == Choice!OnPrimaryDevice(x)
           C(x) == Choice!IsCurrent(x, current)
<1>1. \A x \in {a, b} :
        Choice!Score(x, current) =
          Choice!Points(O(x), 100) + Choice!Points(P(x), 25) + Choice!Points(C(x), 15)
  BY DEF Choice!Score
<1>2. \A x \in {a, b} :
        /\ Choice!Points(O(x), 100) = IF O(x) THEN 100 ELSE 0
        /\ Choice!Points(P(x), 25) = IF P(x) THEN 25 ELSE 0
        /\ Choice!Points(C(x), 15) = IF C(x) THEN 15 ELSE 0
  BY DEF Choice!Points
<1> HIDE DEF O, P, C
<1>3. /\ Choice!Score(a, current) \in Int
      /\ O(a) /\ ~O(b) => Choice!Score(b, current) < Choice!Score(a, current)
      /\ (O(a) <=> O(b)) /\ P(a) /\ ~P(b) => Choice!Score(b, current) < Choice!Score(a, current)
      /\ (O(a) <=> O(b)) /\ (P(a) <=> P(b)) /\ C(a) /\ ~C(b) =>
           Choice!Score(b, current) < Choice!Score(a, current)
      /\ (O(a) <=> O(b)) /\ (P(a) <=> P(b)) /\ (C(a) <=> C(b)) =>
           Choice!Score(b, current) = Choice!Score(a, current)
  BY <1>1, <1>2
<1> QED
  BY <1>3 DEF O, P, C

\* What speaks for an agent before another one.
Before(a, b, current) ==
  /\ Choice!IsOwner(b) => Choice!IsOwner(a)
  /\ (Choice!IsOwner(a) <=> Choice!IsOwner(b)) /\ Choice!OnPrimaryDevice(b) =>
       Choice!OnPrimaryDevice(a)
  /\ /\ Choice!IsOwner(a) <=> Choice!IsOwner(b)
     /\ Choice!OnPrimaryDevice(a) <=> Choice!OnPrimaryDevice(b)
     => /\ Choice!IsCurrent(b, current) => Choice!IsCurrent(a, current)
        /\ (Choice!IsCurrent(a, current) <=> Choice!IsCurrent(b, current)) =>
             project.agents[a].owner \/ (~project.agents[b].owner /\ a <= b)

\* The agent with the most points comes before every other one that can do the
\* task.
LEMMA WinnerComesFirst ==
  ASSUME NEW current, NEW a, Choice!Wins(a, current), MeshAgents \subseteq Nat,
         \A b \in Choice!Assigned : project.agents[b].owner \in BOOLEAN,
         NEW b \in Choice!Eligible
  PROVE  Before(a, b, current)
<1>1. /\ a \in Int /\ b \in Int
      /\ project.agents[a].owner \in BOOLEAN /\ project.agents[b].owner \in BOOLEAN
  <2>1. a \in Choice!Eligible
    BY DEF Choice!Wins
  <2>2. Choice!Eligible \subseteq Choice!Assigned /\ Choice!Assigned \subseteq MeshAgents
    BY DEF Choice!Eligible, Choice!Assigned
  <2> QED
    BY <2>1, <2>2
<1>2. CASE b = a
  BY <1>1, <1>2 DEF Before
<1>3. CASE b # a
  <2>1. \/ Choice!Score(b, current) < Choice!Score(a, current)
        \/ Choice!Score(b, current) = Choice!Score(a, current) /\ Choice!ReadBefore(a, b)
    BY <1>3 DEF Choice!Wins
  <2>2. Choice!ReadBefore(a, b) =>
          project.agents[a].owner \/ (~project.agents[b].owner /\ a <= b)
    BY <1>1 DEF Choice!ReadBefore
  <2>3. Choice!Score(a, current) \in Int /\ Choice!Score(b, current) \in Int
    BY ScoresAreLexicographic
  <2> QED
    BY <2>1, <2>2, <2>3, ScoresAreLexicographic DEF Before
<1> QED
  BY <1>2, <1>3

\* Whoever comes before every agent that can do the task is left when those
\* are narrowed down by one reason after the other.
LEMMA FirstIsPreferred ==
  ASSUME NEW made, NEW current, NEW a \in Choice!Eligible, made.agent = a,
         \A b \in Choice!Eligible : Before(a, b, current),
         decision' = [made |-> made, current |-> current],
         registry' = registry, project' = project
  PROVE  Choice!StrongestReasonDecides'
<1> DEFINE owners  == IF \E b \in Choice!Eligible : Choice!IsOwner(b)
                      THEN {b \in Choice!Eligible : Choice!IsOwner(b)} ELSE Choice!Eligible
           primary == IF \E b \in owners : Choice!OnPrimaryDevice(b)
                      THEN {b \in owners : Choice!OnPrimaryDevice(b)} ELSE owners
           best    == IF \E b \in primary : Choice!IsCurrent(b, current)
                      THEN {b \in primary : Choice!IsCurrent(b, current)} ELSE primary
<1>1. /\ a \in owners
      /\ \A b \in owners : b \in Choice!Eligible /\ (Choice!IsOwner(a) <=> Choice!IsOwner(b))
  BY DEF Before
<1>2. /\ a \in primary
      /\ \A b \in primary :
           b \in owners /\ (Choice!OnPrimaryDevice(a) <=> Choice!OnPrimaryDevice(b))
  <2> HIDE DEF owners
  <2> QED
    BY <1>1 DEF Before
<1>3. /\ a \in best
      /\ \A b \in best :
           b \in primary /\ (Choice!IsCurrent(a, current) <=> Choice!IsCurrent(b, current))
  <2> HIDE DEF owners, primary
  <2> QED
    BY <1>1, <1>2 DEF Before
<1>4. \A b \in best : project.agents[a].owner \/ (~project.agents[b].owner /\ a <= b)
  <2> HIDE DEF owners, primary, best
  <2> QED
    BY <1>1, <1>2, <1>3 DEF Before
<1>5. /\ Choice!Eligible' = Choice!Eligible /\ Choice!Eligible # {}
      /\ \A b : /\ Choice!IsOwner(b)' <=> Choice!IsOwner(b)
                /\ Choice!OnPrimaryDevice(b)' <=> Choice!OnPrimaryDevice(b)
                /\ Choice!IsCurrent(b, current)' <=> Choice!IsCurrent(b, current)
  BY DEF Choice!Eligible, Choice!Assigned, Choice!IsEligible, Choice!IsOwner,
         Choice!OnPrimaryDevice, Choice!IsCurrent
<1> QED
  BY <1>3, <1>4, <1>5 DEF Choice!StrongestReasonDecides

\* The choice that is made is the best one, and the project is one of those that
\* its table may hold.
ChoiceInv == project \in Choice!Project /\ Choice!StrongestReasonDecides

LEMMA RouteKeepsChoice ==
  ASSUME ChoiceInv, NEW current \in Currents, Choice!Route(current)
  PROVE  ChoiceInv'
<1>1. registry' = registry /\ project' = project
  BY DEF Choice!Route
<1>2. CASE /\ Choice!Eligible = {}
           /\ decision' = [made |-> Choice!Unavailable, current |-> current]
  <2>1. Choice!Eligible' = {} /\ Choice!Unavailable' = Choice!Unavailable
    BY <1>1, <1>2
    DEF Choice!Eligible, Choice!Assigned, Choice!IsEligible, Choice!Unavailable
  <2> QED
    BY <1>1, <1>2, <2>1 DEF Choice!StrongestReasonDecides, ChoiceInv
<1>3. ASSUME NEW a \in Choice!Assigned, Choice!Wins(a, current),
             decision' = [made |-> Choice!Selected(a, current), current |-> current]
      PROVE  ChoiceInv'
  <2>1. \A b \in Choice!Assigned : project.agents[b].owner \in BOOLEAN
    BY DEF Choice!Assigned, Choice!Project, Choice!Assignment, ChoiceInv
  <2>2. a \in Choice!Eligible /\ \A b \in Choice!Eligible : Before(a, b, current)
    BY <1>3, <2>1, WinnerComesFirst, ChoiceAssumption
    DEF Choice!Wins, Choice!RoutingAssumption
  <2>3. Choice!Selected(a, current).agent = a
    BY DEF Choice!Selected
  <2>4. Choice!StrongestReasonDecides'
    BY <1>1, <1>3, <2>2, <2>3, FirstIsPreferred, SMTT(40)
  <2> QED
    BY <1>1, <2>4 DEF ChoiceInv
<1> QED
  BY <1>2, <1>3 DEF Choice!Route

LEMMA ChoiceStutters ==
  ASSUME ChoiceInv, UNCHANGED routingVars
  PROVE  ChoiceInv'
BY ZenonT(60)
   DEF ChoiceInv, routingVars, Choice!StrongestReasonDecides, Choice!Eligible, Choice!Assigned,
       Choice!IsEligible, Choice!IsOwner, Choice!OnPrimaryDevice, Choice!IsCurrent,
       Choice!Unavailable

\* An agent that can do the task is given it, of several the one for whom the
\* strongest reason speaks: whatever the registry and the project hold, no sum
\* of weaker reasons outweighs a stronger one.
THEOREM TheStrongestReasonDecides == MeshSpec => []StrongestReasonDecides
<1> DEFINE Inv == part = "routing" => ChoiceInv
<1>1. MeshInit => Inv
  BY ChoiceAssumption
  DEF MeshInit, Choice!Init, ChoiceInv, Choice!StrongestReasonDecides, Choice!RoutingAssumption
<1>2. Inv /\ [MeshNext]_meshVars => Inv'
  <2> SUFFICES ASSUME Inv, [MeshNext]_meshVars, part' = "routing" PROVE ChoiceInv'
    OBVIOUS
  <2>1. part = "routing" /\ (Choice!Next \/ UNCHANGED routingVars)
    BY DEF MeshNext, meshVars, routingVars
  <2> QED
    BY <2>1, RouteKeepsChoice, ChoiceStutters DEF Choice!Next
<1>3. Inv => StrongestReasonDecides
  BY DEF ChoiceInv, StrongestReasonDecides
<1> QED
  BY <1>1, <1>2, <1>3, PTL DEF MeshSpec
=============================================================================
