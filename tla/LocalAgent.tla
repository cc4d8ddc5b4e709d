----------------------------- MODULE LocalAgent -----------------------------
(***************************************************************************)
(* The node that the desktop application runs for its user, electron/      *)
(* main.ts, localAgent.ts and agentMaintenance.ts: the start at launch,    *)
(* the recovery by a proxied request that fails (localServer.ts), the      *)
(* rebuild, and the end with the application.                              *)
(*                                                                         *)
(* A node that somebody else started may be there, process Outside.  The   *)
(* file of a running program cannot be replaced (Windows).  What happens   *)
(* between before-quit and the end of the application is left out, as are  *)
(* an executable that is missing and a second window.                      *)
(***************************************************************************)
EXTENDS Integers

CONSTANTS
  Callers,          \* proxied requests
  Procs,            \* processes of the node that the application starts
  Outside,          \* the node that was started elsewhere
  None

\* Different things are different, for the theorems.
LocalAgentAssumption ==
  None \notin Procs /\ Outside \notin Procs /\ {"launch", "maintenance"} \cap Callers = {}

VARIABLES
  procs,            \* processes, and the build each one runs
  child,            \* the process the application started last
  started,          \* localAgent.started, None before the launch
  calls,            \* ensureLocalAgent, and what performAgentMaintenance awaits
  stopping,         \* the process that stopLocalAgentAndWait waits for
  exe,              \* the build of the executable
  rebuilt,          \* whether the last rebuild succeeded
  shell,            \* the application
  told,             \* what the last rebuildAndRestart told the user
  overlapped        \* a call began, or the application ended, during another call

vars == <<procs, child, started, calls, stopping, exe, rebuilt, shell, told, overlapped>>

Build == {"old", "new"}

\* A killed process may serve until its end.
Process == [at : {"gone", "starting", "serving", "killed"}, build : Build]

Gone == [at |-> "gone", build |-> "old"]

Launch == "launch"
Maintenance == "maintenance"
Users == Callers \cup {Launch, Maintenance}

Init ==
  /\ procs = [p \in Procs \cup {Outside} |-> Gone]
  /\ child = None /\ started = None
  /\ calls = [u \in Users |-> IF u = Launch THEN "probing" ELSE "idle"]
  /\ stopping = None
  /\ exe = "old" /\ rebuilt = FALSE
  /\ shell = "launching" /\ told = "nothing" /\ overlapped = FALSE

Serves == \E p \in DOMAIN procs : procs[p].at = "serving"
MayServe == \E p \in DOMAIN procs : procs[p].at \in {"serving", "killed"}

IsAlive(p) == procs[p].at \in {"starting", "serving"}

----------------------------------------------------------------------------
(* Processes, external *)

\* A process listens, or another one has the port and it ends.
Listen(p) ==
  /\ procs[p].at = "starting"
  /\ \/ ~Serves /\ procs' = [procs EXCEPT ![p].at = "serving"]
     \/ MayServe /\ procs' = [procs EXCEPT ![p] = Gone]
  /\ UNCHANGED <<child, started, calls, stopping, exe, rebuilt, shell, told, overlapped>>

\* A process ends, killed or for reasons of its own.
Exit(p) ==
  /\ procs[p].at # "gone"
  /\ procs' = [procs EXCEPT ![p] = Gone]
  /\ UNCHANGED <<child, started, calls, stopping, exe, rebuilt, shell, told, overlapped>>

StartOutside ==
  /\ procs[Outside].at = "gone" /\ ~MayServe
  /\ procs' = [procs EXCEPT ![Outside].at = "serving"]
  /\ UNCHANGED <<child, started, calls, stopping, exe, rebuilt, shell, told, overlapped>>

Killed(p) == IF p = None \/ ~IsAlive(p) THEN procs ELSE [procs EXCEPT ![p].at = "killed"]

----------------------------------------------------------------------------
(* ensureLocalAgent *)

Begin(u, at) ==
  /\ calls' = [calls EXCEPT ![u] = at]
  /\ overlapped' = (overlapped \/ \E v \in Users \ {u} : calls[v] # "idle")

\* The call is over; rebuildAndRestart then looks whether the node is healthy.
Ensured(u, isStarted) ==
  /\ started' = isStarted
  /\ calls' = [calls EXCEPT ![u] = IF u = Maintenance THEN "checking" ELSE "idle"]
  /\ shell' = IF u = Launch THEN "commandCenter" ELSE shell

\* isAgentReady, when a node answers.
ProbeAnswered(u) ==
  /\ calls[u] = "probing" /\ MayServe
  /\ Ensured(u, FALSE)
  /\ UNCHANGED <<procs, child, stopping, exe, rebuilt, told, overlapped>>

\* Nothing answers within 0.8 s, and a process is started.
ProbeFailed(u) ==
  /\ calls[u] = "probing"
  /\ \E p \in Procs \ {child, stopping} :
       /\ procs[p].at = "gone"
       /\ procs' = [procs EXCEPT ![p] = [at |-> "starting", build |-> exe]]
       /\ child' = p
  /\ calls' = [calls EXCEPT ![u] = "waiting"]
  /\ UNCHANGED <<started, stopping, exe, rebuilt, shell, told, overlapped>>

\* waitForAgent: some node answers, or 8 to 12 s are over.
WaitEnds(u) ==
  /\ calls[u] = "waiting"
  /\ Ensured(u, TRUE)
  /\ UNCHANGED <<procs, child, stopping, exe, rebuilt, told, overlapped>>

\* The command center was started and the server of the window listens.
ServerStarts ==
  /\ shell = "commandCenter" /\ shell' = "running"
  /\ UNCHANGED <<procs, child, started, calls, stopping, exe, rebuilt, told, overlapped>>

----------------------------------------------------------------------------
(* Recovery *)

\* Faulty: the child is forgotten and not killed.
StopLocalAgent_Forgets == child' = None /\ UNCHANGED procs

\* stopLocalAgent; killed also of a child that has already ended is a no-op.
StopLocalAgent == procs' = Killed(child) /\ child' = None

\* A proxied request fails, also one whose connection broke while the node
\* serves: recoverLocalAgent up to its first await.
RequestFails(r) ==
  /\ shell = "running" /\ calls[r] = "idle"
  /\ Begin(r, "probing")
  /\ IF started THEN StopLocalAgent ELSE UNCHANGED <<procs, child>>
  /\ UNCHANGED <<started, stopping, exe, rebuilt, shell, told>>

----------------------------------------------------------------------------
(* Rebuild and restart *)

Tell(what) == told' = what

\* rebuildAndRestartLocalAgent; a second call gets the promise of the first.
StartMaintenance ==
  /\ shell = "running" /\ calls[Maintenance] = "idle"
  /\ IF ~started THEN Tell("outside") /\ UNCHANGED <<procs, child, calls, stopping, overlapped>>
     ELSE /\ Begin(Maintenance, "stopping")
          /\ procs' = Killed(child) /\ child' = None /\ stopping' = child
          /\ UNCHANGED told
  /\ UNCHANGED <<started, exe, rebuilt, shell>>

\* stopLocalAgentAndWait: the process has ended with an exit code, or has not
\* within 5 s.  One that a signal has ended has no exit code, and counts as not
\* stopped.
Stopped ==
  /\ calls[Maintenance] = "stopping"
  /\ \/ /\ stopping # None => procs[stopping].at = "gone"
        /\ calls' = [calls EXCEPT ![Maintenance] = "building"] /\ UNCHANGED told
     \/ /\ stopping # None
        /\ calls' = [calls EXCEPT ![Maintenance] = "idle"] /\ Tell("failed")
  /\ stopping' = None
  /\ UNCHANGED <<procs, child, started, exe, rebuilt, shell, overlapped>>

InUse == \E p \in Procs : procs[p].at # "gone"

\* rebuildAgentFromCheckout: the build replaces the executable, or it fails.
Rebuilt ==
  /\ calls[Maintenance] = "building"
  /\ \/ ~InUse /\ exe' = "new" /\ rebuilt' = TRUE
     \/ rebuilt' = FALSE /\ UNCHANGED exe
  /\ calls' = [calls EXCEPT ![Maintenance] = "probing"]
  /\ UNCHANGED <<procs, child, started, stopping, shell, told, overlapped>>

Outcome == IF rebuilt THEN "success" ELSE "previous"

\* localAgentIsHealthy, within 1.5 s.
Checked ==
  /\ calls[Maintenance] = "checking"
  /\ \/ MayServe /\ Tell(Outcome)
     \/ Tell("failed")
  /\ calls' = [calls EXCEPT ![Maintenance] = "idle"]
  /\ UNCHANGED <<procs, child, started, stopping, exe, rebuilt, shell, overlapped>>

----------------------------------------------------------------------------

\* before-quit, after which the application ends with all that it awaits.
Quit ==
  /\ shell # "quit" /\ shell' = "quit"
  /\ IF started = TRUE THEN StopLocalAgent ELSE UNCHANGED <<procs, child>>
  /\ calls' = [u \in Users |-> "idle"]
  /\ overlapped' = (overlapped \/ \E u \in Users : calls[u] # "idle")
  /\ stopping' = None
  /\ UNCHANGED <<started, exe, rebuilt, told>>

Next ==
  \/ \E p \in Procs : Listen(p)
  \/ \E p \in DOMAIN procs : Exit(p)
  \/ StartOutside
  \/ \E u \in Users : ProbeAnswered(u) \/ ProbeFailed(u) \/ WaitEnds(u)
  \/ ServerStarts \/ StartMaintenance \/ Stopped \/ Rebuilt \/ Checked \/ Quit
  \/ \E r \in Callers : RequestFails(r)

Spec == Init /\ [][Next]_vars

----------------------------------------------------------------------------
(* Properties *)

TypeOK ==
  /\ procs \in [Procs \cup {Outside} -> Process]
  /\ child \in Procs \cup {None} /\ stopping \in Procs \cup {None}
  /\ started \in BOOLEAN \cup {None}
  /\ calls \in [Users -> {"idle", "probing", "waiting", "stopping", "building", "checking"}]
  /\ exe \in Build /\ rebuilt \in BOOLEAN /\ overlapped \in BOOLEAN
  /\ shell \in {"launching", "commandCenter", "running", "quit"}
  /\ told \in {"nothing", "success", "previous", "failed", "outside"}

\* While no call is under way, and unless one ran into another, a process that
\* the application started is its child and counts as started, and no such
\* process survives the application.
OwnAgentIsKnown ==
  ~overlapped /\ (\A u \in Users : calls[u] = "idle") =>
    \A p \in Procs : IsAlive(p) => shell # "quit" /\ child = p /\ started

\* After a rebuild that the user was told succeeded, no process that the
\* application started runs the build before it, whatever was recovered
\* meanwhile.
SuccessMeansNewBuild ==
  told = "success" => \A p \in Procs : procs[p].at # "gone" => procs[p].build = "new"
=============================================================================
