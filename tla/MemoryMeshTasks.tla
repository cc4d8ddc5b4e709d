-------------------------- MODULE MemoryMeshTasks --------------------------
(***************************************************************************)
(* The life of a routed task on a Reika Node: executeMemoryMeshTask,       *)
(* runPersistedMemoryMeshTask, approval, cancellation and the recovery     *)
(* after a restart (server/src/main.ts), the task rows in SQLite           *)
(* (memoryMeshStore.ts), and the socket over which a remote task is sent   *)
(* to another node, resent and polled (sendRemoteMemoryMeshTask).          *)
(*                                                                         *)
(* An action is a handler up to its next await.  A run of a task goes      *)
(* through 'sent', 'accepted' and 'working' without an await, and a crash  *)
(* may come between any two of these rows (CrashInDispatch).  The remote   *)
(* node executes a request once, by its id, as ExecuteOnce promises.       *)
(***************************************************************************)
EXTENDS Integers, FiniteSets

CONSTANTS
  MaxTasks,         \* bound: tasks that are created
  Kinds,            \* where tasks may be routed: local, remote, unavailable
  ResumeLimit,      \* the newest tasks that recovery looks at (200)
  None,             \* no task
  MaxCrashes        \* bound: crashes of the node

Task == 1..MaxTasks \* in the order of created_at

ASSUME TasksAssumption ==
  /\ MaxTasks \in Nat \ {0} /\ ResumeLimit \in Nat \ {0} /\ MaxCrashes \in Nat
  /\ Kinds \subseteq {"local", "remote", "unavailable"}
  /\ None \notin Task

VARIABLES
  tasks,            \* the rows of mesh_routing_tasks
  runs,             \* the runs under way, which await their agent's result
  conn,             \* the socket, timers and messages of a remote run
  remote,           \* what the remote node's ledger says of the task
  node,             \* the process, its loop over interrupted tasks and those left to it
  executions,       \* how often an agent was given the task
  written,          \* memories written for the task
  approved,         \* tasks that the user approved
  cancelled,        \* tasks that were cancelled before they were settled
  cut,              \* tasks whose write-back a crash cut in two
  crashes

vars == <<tasks, runs, conn, remote, node, executions, written, approved, cancelled, cut, crashes>>

----------------------------------------------------------------------------
(* Task rows *)

Status == {"awaiting_approval", "queued", "sent", "accepted", "working",
           "completed", "failed", "unavailable", "cancelled", "timed_out"}

Terminal == {"completed", "failed", "unavailable", "cancelled", "timed_out"}

InFlight == {"sent", "accepted", "working"}

\* recovery: whether progress is 'Queued for restart recovery.'
Row == [status : Status, recovery : BOOLEAN, kind : Kinds, approval : BOOLEAN]

ASSUME NoneAssumption == None \notin Row

Is(t, S) == tasks[t] # None /\ tasks[t].status \in S

\* updateRoutingTask with a progress text of its own, and without one.
Updated(row, status) == [row EXCEPT !.status = status, !.recovery = FALSE]
Marked(row, status) == [row EXCEPT !.status = status]

\* Faulty: a task that its agent has accepted is not taken for interrupted.
Recovered_NotAccepted(rows) ==
  [t \in Task |-> IF rows[t] # None /\ rows[t].status \in {"sent", "working"}
                  THEN [rows[t] EXCEPT !.status = "queued", !.recovery = TRUE]
                  ELSE rows[t]]

\* Faulty: recovery takes up every task that is not settled.
Recovered_Unsettled(rows) ==
  [t \in Task |-> IF rows[t] # None /\ rows[t].status \notin Terminal
                  THEN [rows[t] EXCEPT !.status = "queued", !.recovery = TRUE]
                  ELSE rows[t]]

\* recoverInterruptedTasks, when the store is opened.
Recovered(rows) ==
  [t \in Task |-> IF rows[t] # None /\ rows[t].status \in InFlight
                  THEN [rows[t] EXCEPT !.status = "queued", !.recovery = TRUE]
                  ELSE rows[t]]

\* The socket of a remote run.  sent is initialRequestSent, with which the
\* poll timer starts; up and down are the messages on their way.
NoSocket == [socket |-> "none", sent |-> FALSE, reconnect |-> FALSE, up |-> {}, down |-> {}]
Connection == [socket : {"none", "connecting", "open"}, sent : BOOLEAN, reconnect : BOOLEAN,
               up : SUBSET {"request", "status"}, down : SUBSET {"answered", "rejected"}]

Init ==
  /\ tasks = [t \in Task |-> None]
  /\ runs = [t \in Task |-> FALSE]
  /\ conn = [t \in Task |-> NoSocket]
  /\ remote = [t \in Task |-> "none"]
  /\ node = [up |-> TRUE, list |-> {}, current |-> None]
  /\ executions = [t \in Task |-> 0]
  /\ written = [t \in Task |-> 0]
  /\ approved = {} /\ cancelled = {} /\ cut = {} /\ crashes = 0

----------------------------------------------------------------------------
(* Runs *)

\* runPersistedMemoryMeshTask up to its await: whatever the row says, it
\* becomes 'sent', 'accepted' and 'working', and the agent is called.
Run(t, rows) ==
  /\ tasks' = [rows EXCEPT ![t] = Updated(@, "working")]
  /\ runs' = [runs EXCEPT ![t] = TRUE]
  /\ IF rows[t].kind = "local"
     THEN executions' = [executions EXCEPT ![t] = @ + 1] /\ UNCHANGED conn
     ELSE conn' = [conn EXCEPT ![t] = [NoSocket EXCEPT !.socket = "connecting"]]
          /\ UNCHANGED executions

\* The await of the run is over: finish() has closed the socket and cleared
\* its timers.
EndRun(t) ==
  /\ runs' = [runs EXCEPT ![t] = FALSE]
  /\ conn' = [conn EXCEPT ![t] = NoSocket]

NewTask == Cardinality({t \in Task : tasks[t] # None}) + 1

\* executeMemoryMeshTask, with the decision of routeTask and the row that
\* createRoutingTask makes of it; userApproved matters only where approval does.
Execute(kind, approval, userApproved) ==
  LET t == NewTask
      Created(status) == [tasks EXCEPT ![t] =
        [status |-> status, recovery |-> FALSE, kind |-> kind, approval |-> approval]]
  IN
  /\ node.up /\ t \in Task
  /\ kind = "unavailable" => ~approval
  /\ userApproved => approval
  /\ approved' = IF userApproved THEN approved \cup {t} ELSE approved
  /\ \/ /\ kind = "unavailable" \/ (approval /\ ~userApproved)
        /\ tasks' = Created(IF kind = "unavailable" THEN kind ELSE "awaiting_approval")
        /\ UNCHANGED <<runs, conn, executions>>
     \/ /\ kind # "unavailable" /\ (approval => userApproved)
        /\ Run(t, Created("queued"))
  /\ UNCHANGED <<remote, node, written, cancelled, cut, crashes>>

MayApprove(t) == Is(t, {"awaiting_approval"})

\* approveMemoryMeshTask
Approve(t) ==
  /\ node.up /\ MayApprove(t)
  /\ approved' = approved \cup {t}
  /\ Run(t, [tasks EXCEPT ![t] = Updated(@, "queued")])
  /\ UNCHANGED <<remote, node, written, cancelled, cut, crashes>>

\* cancelMemoryMeshTask: a remote run is aborted and ends, a local turn goes on.
Cancel(t) ==
  /\ node.up /\ Is(t, Status \ Terminal)
  /\ tasks' = [tasks EXCEPT ![t] = Marked(@, "cancelled")]
  /\ cancelled' = cancelled \cup {t}
  /\ IF runs[t] /\ tasks[t].kind = "remote" THEN EndRun(t) ELSE UNCHANGED <<runs, conn>>
  /\ UNCHANGED <<remote, node, executions, written, approved, cut, crashes>>

\* Faulty: the status is not looked at again after the await.
Succeed_Always(t) ==
  /\ tasks' = [tasks EXCEPT ![t] = Updated(@, "completed")]
  /\ written' = [written EXCEPT ![t] = @ + 1]

\* The result has come: unless the task was cancelled meanwhile it is written
\* to the project's memory, and the task is completed.
Succeed(t) ==
  IF tasks[t].status = "cancelled" THEN UNCHANGED <<tasks, written>>
  ELSE /\ tasks' = [tasks EXCEPT ![t] = Updated(@, "completed")]
       /\ written' = [written EXCEPT ![t] = @ + 1]

\* The catch block: a cancelled task stays so.
Fail(t, status) ==
  /\ tasks' = [tasks EXCEPT ![t] =
                 Marked(@, IF @.status = "cancelled" THEN "cancelled" ELSE status)]
  /\ UNCHANGED written

\* The local chat turn returns or throws.
LocalTurnEnds(t) ==
  /\ runs[t] /\ tasks[t].kind = "local"
  /\ Succeed(t) \/ \E s \in {"failed", "timed_out"} : Fail(t, s)
  /\ EndRun(t)
  /\ UNCHANGED <<remote, node, executions, approved, cancelled, cut, crashes>>

----------------------------------------------------------------------------
(* The socket of a remote run *)

IsRemoteRun(t) == runs[t] /\ tasks[t].kind = "remote"

SocketOpens(t) ==
  /\ IsRemoteRun(t) /\ conn[t].socket = "connecting"
  /\ conn' = [conn EXCEPT ![t].socket = "open", ![t].sent = TRUE,
                          ![t].up = @ \cup {IF conn[t].sent THEN "status" ELSE "request"}]
  /\ UNCHANGED <<tasks, runs, remote, node, executions, written, approved, cancelled, cut, crashes>>

\* The error and close events, after which a reconnection is scheduled.
SocketEnds(t) ==
  /\ IsRemoteRun(t) /\ conn[t].socket # "none"
  /\ conn' = [conn EXCEPT ![t].socket = "none", ![t].reconnect = TRUE, ![t].down = {}]
  /\ UNCHANGED <<tasks, runs, remote, node, executions, written, approved, cancelled, cut, crashes>>

ReconnectTimerFires(t) ==
  /\ IsRemoteRun(t) /\ conn[t].reconnect
  /\ conn' = [conn EXCEPT ![t].reconnect = FALSE, ![t].socket = "connecting"]
  /\ UNCHANGED <<tasks, runs, remote, node, executions, written, approved, cancelled, cut, crashes>>

\* sendStatusRequest, every 15 seconds since the first opening.
PollTimerFires(t) ==
  /\ IsRemoteRun(t) /\ conn[t].sent /\ conn[t].socket = "open"
  /\ conn' = [conn EXCEPT ![t].up = @ \cup {"status"}]
  /\ UNCHANGED <<tasks, runs, remote, node, executions, written, approved, cancelled, cut, crashes>>

\* The promise is settled by an answer, by a rejection, or by its timeout.
AnswerArrives(t) ==
  /\ IsRemoteRun(t) /\ "answered" \in conn[t].down
  /\ Succeed(t) /\ EndRun(t)
  /\ UNCHANGED <<remote, node, executions, approved, cancelled, cut, crashes>>

RejectionArrives(t) ==
  /\ IsRemoteRun(t) /\ "rejected" \in conn[t].down
  /\ Fail(t, "failed") /\ EndRun(t)
  /\ UNCHANGED <<remote, node, executions, approved, cancelled, cut, crashes>>

TimeoutFires(t) ==
  /\ IsRemoteRun(t)
  /\ Fail(t, "timed_out") /\ EndRun(t)
  /\ UNCHANGED <<remote, node, executions, approved, cancelled, cut, crashes>>

----------------------------------------------------------------------------
(* The relay and the remote node *)

\* A reply is broadcast, and lost on a node that is not connected.
Reply(c, message) ==
  IF c.socket = "open" /\ message \in {"answered", "rejected"}
  THEN [c EXCEPT !.down = @ \cup {message}] ELSE c

\* A message is no longer on its way.
Delivered(c, message) == [c EXCEPT !.up = @ \ {message}]

\* The request has the id 'memory-mesh-task-<id>' each time it is sent.
IsNewRequest(t) == remote[t] = "none"

RequestArrives(t) ==
  /\ "request" \in conn[t].up
  /\ IF IsNewRequest(t)
     THEN /\ remote' = [remote EXCEPT ![t] = "running"]
          /\ executions' = [executions EXCEPT ![t] = @ + 1]
          /\ conn' = [conn EXCEPT ![t] = Delivered(@, "request")]
     ELSE /\ conn' = [conn EXCEPT ![t] = Reply(Delivered(@, "request"), remote[t])]
          /\ UNCHANGED <<remote, executions>>
  /\ UNCHANGED <<tasks, runs, node, written, approved, cancelled, cut, crashes>>

\* The relay does not know the device, or the message is lost.
RequestFails(t, message) ==
  /\ message \in conn[t].up
  /\ \/ conn' = [conn EXCEPT ![t] = Delivered(@, message)]
     \/ /\ message = "request"
        /\ conn' = [conn EXCEPT ![t] = Reply(Delivered(@, message), "rejected")]
  /\ UNCHANGED <<tasks, runs, remote, node, executions, written, approved, cancelled, cut, crashes>>

StatusArrives(t) ==
  /\ "status" \in conn[t].up
  /\ conn' = [conn EXCEPT ![t] = Reply(Delivered(@, "status"), remote[t])]
  /\ UNCHANGED <<tasks, runs, remote, node, executions, written, approved, cancelled, cut, crashes>>

RemoteTurnEnds(t, outcome) ==
  /\ remote[t] = "running"
  /\ remote' = [remote EXCEPT ![t] = outcome]
  /\ conn' = [conn EXCEPT ![t] = Reply(@, outcome)]
  /\ UNCHANGED <<tasks, runs, node, executions, written, approved, cancelled, cut, crashes>>

----------------------------------------------------------------------------
(* Crash and recovery *)

\* The process ends with these rows, which the next one recovers.
EndWith(rows) ==
  /\ crashes < MaxCrashes /\ crashes' = crashes + 1
  /\ tasks' = Recovered(rows)
  /\ runs' = [t \in Task |-> FALSE]
  /\ conn' = [t \in Task |-> NoSocket]
  /\ node' = [up |-> FALSE, list |-> {}, current |-> None]

Crash ==
  /\ node.up /\ EndWith(tasks)
  /\ UNCHANGED <<remote, executions, written, approved, cancelled, cut>>

\* The loop takes the newest task first.
IsNext(t, list) == t \in list /\ \A u \in list : u <= t

\* A crash between two updates of a row that is being approved or run.
CrashInDispatch(t) ==
  /\ node.up
  /\ \/ MayApprove(t) /\ approved' = approved \cup {t}
     \/ /\ tasks[t] = None /\ t = NewTask /\ approved' = approved
     \/ IsNext(t, node.list) /\ (node.current = None \/ ~runs[node.current])
        /\ approved' = approved
  /\ \E status \in {"queued", "sent", "accepted"}, kind \in Kinds \ {"unavailable"} :
       /\ tasks[t] # None => kind = tasks[t].kind
       /\ EndWith([tasks EXCEPT ![t] =
            IF @ = None
            THEN [status |-> status, recovery |-> FALSE, kind |-> kind, approval |-> FALSE]
            ELSE Updated(@, status)])
  /\ UNCHANGED <<remote, executions, written, cancelled, cut>>

\* A crash after the memory was written and before the row says 'completed'.
CrashInWriteback(t) ==
  /\ runs[t] /\ tasks[t].status # "cancelled"
  /\ tasks[t].kind = "local" \/ "answered" \in conn[t].down
  /\ written' = [written EXCEPT ![t] = @ + 1]
  /\ cut' = cut \cup {t}
  /\ EndWith(tasks)
  /\ UNCHANGED <<remote, executions, approved, cancelled>>

\* The loop of resumeInterruptedMemoryMeshTasks goes on to its next task.
RunNext(list) ==
  \/ /\ list = {}
     /\ node' = [up |-> TRUE, list |-> {}, current |-> None]
     /\ UNCHANGED <<tasks, runs, conn, executions>>
  \/ \E t \in list :
       /\ IsNext(t, list)
       /\ node' = [up |-> TRUE, list |-> list \ {t}, current |-> t]
       /\ Run(t, tasks)

\* The interrupted ones among the newest tasks.
Interrupted ==
  {t \in Task : Is(t, {"queued"}) /\ tasks[t].recovery /\ NewTask - t <= ResumeLimit}

\* boot() reads the list once and starts on it before the node accepts requests.
Boot ==
  /\ ~node.up
  /\ RunNext(Interrupted)
  /\ UNCHANGED <<remote, written, approved, cancelled, cut, crashes>>

ResumeNext ==
  /\ node.current # None /\ ~runs[node.current]
  /\ RunNext(node.list)
  /\ UNCHANGED <<remote, written, approved, cancelled, cut, crashes>>

----------------------------------------------------------------------------

Next ==
  \/ \E kind \in Kinds, a \in BOOLEAN, u \in BOOLEAN : Execute(kind, a, u)
  \/ \E t \in Task :
       \/ Approve(t) \/ Cancel(t) \/ LocalTurnEnds(t)
       \/ SocketOpens(t) \/ SocketEnds(t) \/ ReconnectTimerFires(t) \/ PollTimerFires(t)
       \/ AnswerArrives(t) \/ RejectionArrives(t) \/ TimeoutFires(t)
       \/ RequestArrives(t) \/ StatusArrives(t)
       \/ \E m \in {"request", "status"} : RequestFails(t, m)
       \/ \E o \in {"answered", "rejected"} : RemoteTurnEnds(t, o)
       \/ CrashInDispatch(t) \/ CrashInWriteback(t)
  \/ Crash \/ Boot \/ ResumeNext

\* A crashed node is started again, loops go on, timers fire, and the local
\* provider, whose calls have deadlines, returns.
Fairness ==
  /\ WF_vars(Boot) /\ WF_vars(ResumeNext)
  /\ \A t \in Task : WF_vars(LocalTurnEnds(t)) /\ WF_vars(TimeoutFires(t))

Spec == Init /\ [][Next]_vars /\ Fairness

----------------------------------------------------------------------------
(* Properties *)

\* Every variable has its type, and only a run that is under way has a socket
\* or a timer.
TypeOK ==
  /\ \A t \in Task : ~runs[t] => conn[t] = NoSocket
  /\ tasks \in [Task -> Row \cup {None}]
  /\ runs \in [Task -> BOOLEAN]
  /\ conn \in [Task -> Connection]
  /\ remote \in [Task -> {"none", "running", "answered", "rejected"}]
  /\ node \in [up : BOOLEAN, list : SUBSET Task, current : Task \cup {None}]
  /\ executions \in [Task -> 0..(MaxCrashes + 1)]
  /\ written \in [Task -> 0..(MaxCrashes + 1)]
  /\ approved \subseteq Task /\ cancelled \subseteq Task /\ cut \subseteq Task
  /\ crashes \in 0..MaxCrashes

\* A settled task stays as it is, whatever late answers, cancellations and
\* failures still come, unless recovery had it on its list.
SettledStays ==
  [][\A t \in Task : Is(t, Terminal) /\ t \notin node.list => tasks'[t] = tasks[t]]_vars

\* No agent is given a task that needs approval before the user approved it.
ApprovedBeforeRun ==
  \A t \in Task : tasks[t] # None /\ tasks[t].approval /\ executions[t] > 0 => t \in approved

\* However often its request is resent, a remote task is executed once; a
\* local one is executed again only by a later life of the node.
ExecutedOnce ==
  \A t \in Task : tasks[t] # None =>
    executions[t] <= IF tasks[t].kind = "remote" THEN 1 ELSE 1 + crashes

\* Only a task that completed leaves a memory, unless a crash cut its
\* write-back in two.
FailureNotPromoted ==
  \A t \in Task : written[t] > 0 /\ t \notin cut => Is(t, {"completed"}) /\ written[t] = 1

\* An agent works on a task when it may, and not again, and only what it
\* completed is remembered.
RunsAreDue == ApprovedBeforeRun /\ ExecutedOnce /\ FailureNotPromoted

\* A task that was cancelled leaves no memory.
CancelledNotPromoted == \A t \in cancelled : t \in cut \/ written[t] = 0

\* A task that was dispatched is settled in the end, through every crash,
\* unless so many newer tasks exist that recovery does not see it.
DispatchedSettles ==
  \A t \in Task : Is(t, InFlight) ~> Is(t, Terminal) \/ NewTask - t > ResumeLimit
=============================================================================
