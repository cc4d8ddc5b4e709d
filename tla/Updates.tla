------------------------------ MODULE Updates ------------------------------
(***************************************************************************)
(* Updates of a node from GitHub and their notifications                   *)
(* (server/src/modules/update/updateService.ts, runConfiguredUpdateCheck   *)
(* and the /updates and /notifications routes of server/src/main.ts,       *)
(* notification/notificationStore.ts).  The check of the boot, the check   *)
(* that follows a change of the settings, and the requests run at the same *)
(* time; each of their git commands and downloads takes a while, in which  *)
(* the others go on, the user commits to the clone, and GitHub gets newer  *)
(* versions.                                                               *)
(*                                                                         *)
(* A version is the number of commits on GitHub's branch, or a release.    *)
(* Elsewhere than on Windows an installer is not launched and reported all *)
(* the same, as on Windows when the launch fails.                          *)
(* Notifications of other kinds, and their data but for the version, are   *)
(* left out.  No two notifications are made in one millisecond.            *)
(***************************************************************************)
EXTENDS Integers, Sequences, SequencesExt

CONSTANTS
  Calls,            \* calls of the update service
  MaxCalls,         \* bound: calls that are made
  MaxVersion,       \* bound: versions on GitHub
  MaxOwn,           \* bound: commits of the user
  Limit,            \* notifications that are kept (200)
  None

VARIABLES
  mode,             \* whether the node runs from a clone or from a package
  remote,           \* GitHub's version
  fetched,          \* the clone's knowledge of it (origin/main)
  copy,             \* what the node has: a version and the user's commits
  installers,       \* the installer files, by version
  launched,         \* the installers to be launched: whether whole, and whether they ran
  notes,            \* the notifications, the newest last
  calls,            \* the calls under way
  made,             \* how many were made
  overlapped        \* whether two calls had one installer at the same time

vars ==
  <<mode, remote, fetched, copy, installers, launched, notes, calls, made, overlapped>>

Version == 1..MaxVersion

\* A clone's version, the user's commits on top, and the version they were
\* made on.  A package has no commits.
Copy == [version : Version, own : 0..MaxOwn, root : Version]

\* createWriteStream empties the file; it is whole again when the last call
\* that emptied it has written all of it.
Installer == [opener : Calls \cup {None}, whole : BOOLEAN]

Launched == [version : Version, whole : BOOLEAN, ran : BOOLEAN]

Status == [version : Version \cup {None}, behind : BOOLEAN, ahead : BOOLEAN]

Unknown == [version |-> None, behind |-> FALSE, ahead |-> FALSE]

\* A call looks for an update, or looks before it applies one, or after it.
Call ==
  [kind : {"configured", "check", "apply"}, enabled : BOOLEAN,
   purpose : {"look", "before", "after"},
   stage : {"fetch", "ref", "count", "pull", "release", "download", "write", "launch"},
   status : Status, before : Version \cup {None}]

Note ==
  [kind : {"available", "applied", "checked", "failed"}, version : Version \cup {None},
   unread : BOOLEAN]

Init ==
  /\ mode \in {"git", "packaged"}
  /\ remote = 1 /\ fetched = 1 /\ copy = [version |-> 1, own |-> 0, root |-> 1]
  /\ installers = [v \in Version |-> [opener |-> None, whole |-> FALSE]]
  /\ launched = {} /\ notes = <<>> /\ calls = [c \in Calls |-> None] /\ made = 0
  /\ overlapped = FALSE

----------------------------------------------------------------------------
(* Notifications *)

\* add, with its trim.
Trimmed(list) == SubSeq(list, IF Len(list) > Limit THEN Len(list) - Limit + 1 ELSE 1, Len(list))

Added(kind, version) ==
  Trimmed(Append(notes, [kind |-> kind, version |-> version, unread |-> TRUE]))

\* The preferences may switch the notification off.
AddNotification(kind, version) == notes' \in {notes, Added(kind, version)}

IsAnnounced_Latest(v) ==
  notes # <<>> /\ Last(notes) = [kind |-> "available", version |-> v, unread |-> TRUE]

IsAnnounced(v) ==
  \E i \in 1..Len(notes) : notes[i] = [kind |-> "available", version |-> v, unread |-> TRUE]

NotifyUpdateAvailable(status) ==
  IF status.behind /\ ~IsAnnounced(status.version)
  THEN AddNotification("available", status.version) ELSE UNCHANGED notes

NotifyUpdateApplied(applied, version) ==
  AddNotification(IF applied THEN "applied" ELSE "checked", version)

MarkRead ==
  \E i \in 1..Len(notes) :
    /\ notes' = [notes EXCEPT ![i].unread = FALSE]
    /\ UNCHANGED <<mode, remote, fetched, copy, installers, launched, calls, made, overlapped>>

MarkAllRead ==
  /\ notes' = [i \in 1..Len(notes) |-> [notes[i] EXCEPT !.unread = FALSE]]
  /\ UNCHANGED <<mode, remote, fetched, copy, installers, launched, calls, made, overlapped>>

Delete ==
  \E i \in 1..Len(notes) :
    /\ notes' = RemoveAt(notes, i)
    /\ UNCHANGED <<mode, remote, fetched, copy, installers, launched, calls, made, overlapped>>

----------------------------------------------------------------------------
(* A call *)

\* getUpdateStatus begins.
GetUpdateStatus(call, purpose) ==
  [call EXCEPT !.purpose = purpose, !.status = Unknown,
               !.stage = IF mode = "git" THEN "fetch" ELSE "release"]

\* The boot's check, one that follows when an update is switched on, or a
\* request.  The settings are read at the beginning.
Begin(c) ==
  /\ calls[c] = None /\ made < MaxCalls
  /\ \E kind \in {"configured", "check", "apply"}, enabled \in BOOLEAN :
       calls' = [calls EXCEPT ![c] = GetUpdateStatus(
         [kind |-> kind, enabled |-> kind = "configured" /\ enabled, purpose |-> "look",
          stage |-> "fetch", status |-> Unknown, before |-> None],
         IF kind = "apply" THEN "before" ELSE "look")]
  /\ made' = made + 1
  /\ UNCHANGED <<mode, remote, fetched, copy, installers, launched, notes, overlapped>>

Go(c, call) == calls' = [calls EXCEPT ![c] = call] /\ UNCHANGED notes
End(c) == calls' = [calls EXCEPT ![c] = None]

\* Only the configured check reports a failure in a notification.
Throw(c) ==
  /\ End(c)
  /\ IF calls[c].kind = "configured" THEN AddNotification("failed", None) ELSE UNCHANGED notes

\* applyGitHubUpdate knows the status.
Apply(c, status) ==
  CASE ~status.behind -> End(c) /\ NotifyUpdateApplied(FALSE, status.version)
    [] status.behind /\ status.ahead -> Throw(c)
    [] OTHER -> Go(c, [calls[c] EXCEPT !.status = status, !.before = status.version,
                         !.stage = IF mode = "git" THEN "pull" ELSE "download"])

\* The call has the status that it asked for.
Known(c, status) ==
  CASE calls[c].purpose = "before" -> Apply(c, status)
    [] calls[c].purpose = "after" -> End(c) /\ NotifyUpdateApplied(TRUE, calls[c].before)
    [] calls[c].purpose = "look" /\ calls[c].enabled /\ status.behind ->
         Go(c, GetUpdateStatus(calls[c], "before"))
    [] OTHER -> End(c) /\ NotifyUpdateAvailable(status)

At(c, stage) == calls[c] # None /\ calls[c].stage = stage

Fetch(c) ==
  /\ At(c, "fetch")
  /\ fetched' = remote
  /\ Go(c, [calls[c] EXCEPT !.stage = "ref"])
  /\ UNCHANGED <<mode, remote, copy, installers, launched, made, overlapped>>

\* rev-parse of the remote branch.
Ref(c) ==
  /\ At(c, "ref")
  /\ Go(c, [calls[c] EXCEPT !.stage = "count", !.status.version = fetched])
  /\ UNCHANGED <<mode, remote, fetched, copy, installers, launched, made, overlapped>>

\* rev-list of the commits on either side; diff and log follow.
Count(c) ==
  /\ At(c, "count")
  /\ Known(c, [calls[c].status EXCEPT !.behind = copy.version < fetched, !.ahead = copy.own > 0])
  /\ UNCHANGED <<mode, remote, fetched, copy, installers, launched, made, overlapped>>

Pulled ==
  IF copy.version = remote THEN {copy}
  ELSE IF copy.own = 0 THEN {[copy EXCEPT !.version = remote, !.root = remote]} ELSE {}

Pull(c) ==
  /\ At(c, "pull")
  /\ fetched' = remote
  /\ \/ copy' \in Pulled /\ Go(c, GetUpdateStatus(calls[c], "after"))
     \/ Pulled = {} /\ UNCHANGED copy /\ Throw(c)
  /\ UNCHANGED <<mode, remote, installers, launched, made, overlapped>>

\* The latest release, which may lack an installer, or the request fails.
Release(c) ==
  /\ At(c, "release")
  /\ \/ Known(c, [version |-> remote, behind |-> copy.version < remote, ahead |-> FALSE])
     \/ Known(c, Unknown)
  /\ UNCHANGED <<mode, remote, fetched, copy, installers, launched, made, overlapped>>

\* downloadFile opens the installer of the release, which empties it.
Open(c) ==
  LET v == calls[c].before IN
  /\ At(c, "download")
  /\ installers' = [installers EXCEPT ![v] = [opener |-> c, whole |-> FALSE]]
  /\ Go(c, [calls[c] EXCEPT !.stage = "write"])
  /\ overlapped' = (overlapped \/ \E d \in Calls \ {c} :
       calls[d] # None /\ calls[d].before = v /\ calls[d].stage \in {"write", "launch"})
  /\ UNCHANGED <<mode, remote, fetched, copy, launched, made>>

\* The call has written all of it, and then the manifest.
Written(c) ==
  LET v == calls[c].before IN
  /\ At(c, "write")
  /\ installers' = [installers EXCEPT ![v].whole = @ \/ installers[v].opener = c]
  /\ Go(c, [calls[c] EXCEPT !.stage = "launch"])
  /\ UNCHANGED <<mode, remote, fetched, copy, launched, made, overlapped>>

\* The installer runs, or both attempts fail: the update is reported as applied.
Launch(c) ==
  LET v == calls[c].before IN
  /\ At(c, "launch")
  /\ \E ran \in BOOLEAN :
       launched' = launched \cup {[version |-> v, whole |-> installers[v].whole, ran |-> ran]}
  /\ End(c) /\ NotifyUpdateApplied(TRUE, v)
  /\ UNCHANGED <<mode, remote, fetched, copy, installers, made, overlapped>>

\* A git command, the download, the manifest or its directory fails.
Fail(c) ==
  /\ calls[c] # None /\ calls[c].stage # "release"
  /\ Throw(c)
  /\ UNCHANGED <<mode, remote, fetched, copy, installers, launched, made, overlapped>>

----------------------------------------------------------------------------
(* GitHub, the user, and a restart *)

NewVersion ==
  /\ remote < MaxVersion
  /\ remote' = remote + 1
  /\ UNCHANGED <<mode, fetched, copy, installers, launched, notes, calls, made, overlapped>>

Commit ==
  /\ mode = "git" /\ copy.own < MaxOwn
  /\ copy' = [copy EXCEPT !.own = @ + 1]
  /\ UNCHANGED <<mode, remote, fetched, installers, launched, notes, calls, made, overlapped>>

\* The node ends and boots again; the newest notification may not have been
\* saved.  An installer that ran may have installed its version.
Restart ==
  /\ calls' = [c \in Calls |-> None]
  /\ notes' \in {notes, IF notes = <<>> THEN notes ELSE Front(notes)}
  /\ \/ UNCHANGED copy
     \/ \E l \in launched :
          l.ran /\ copy' = [copy EXCEPT !.version = l.version, !.root = l.version]
  /\ installers' = [v \in Version |-> [installers[v] EXCEPT !.opener = None]]
  /\ UNCHANGED <<mode, remote, fetched, launched, made, overlapped>>

Next ==
  \/ \E c \in Calls :
       \/ Begin(c) \/ Fetch(c) \/ Ref(c) \/ Count(c) \/ Pull(c)
       \/ Release(c) \/ Open(c) \/ Written(c) \/ Launch(c) \/ Fail(c)
  \/ MarkRead \/ MarkAllRead \/ Delete
  \/ NewVersion \/ Commit \/ Restart

Spec == Init /\ [][Next]_vars

----------------------------------------------------------------------------

TypeOK ==
  /\ mode \in {"git", "packaged"} /\ remote \in Version /\ fetched \in 1..remote
  /\ copy \in Copy /\ installers \in [Version -> Installer]
  /\ launched \subseteq Launched
  /\ notes \in Seq(Note) /\ Len(notes) <= Limit
  /\ calls \in [Calls -> {None} \cup Call] /\ made \in 0..MaxCalls /\ overlapped \in BOOLEAN

\* A version is announced once until its notification is read or deleted,
\* however many checks find it.
AnnouncedOnce ==
  \A i, j \in 1..Len(notes) :
    /\ notes[i].kind = "available" /\ notes[i].unread
    /\ notes[j].kind = "available" /\ notes[j].unread
    /\ notes[i].version = notes[j].version
    => i = j

\* The commits of the user stay on top of the version that they were made on,
\* although they may be made while an update is under way.
OwnCommitsStay == copy.own > 0 => copy.root = copy.version

\* A clone that is reported as updated has the version that the update was
\* to bring.  For a package that is reported as updated, the launch of an
\* installer that was whole has been tried, and may have failed; it may have been
\* one that was not whole if two calls had the installer at the same time.
ReportedIsInstalled ==
  \A i \in 1..Len(notes) :
    notes[i].kind = "applied" =>
      \/ mode = "git" /\ copy.version >= notes[i].version
      \/ mode = "packaged"
         /\ \E l \in launched : l.version = notes[i].version /\ (l.whole \/ overlapped)
=============================================================================
