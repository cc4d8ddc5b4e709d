----------------------------- MODULE JsonStore -----------------------------
(***************************************************************************)
(* The steps of a save in the stores of a Reika Node that are kept in JSON *)
(* files: sessionStore.ts, settingsStore.ts, notificationStore.ts,         *)
(* artStore.ts and fileStore.ts (server/src/modules).  Every change saves  *)
(* the whole store: mkdir, the text of the store to <file>.tmp, and a      *)
(* rename.  All but the file store chain their saves on one promise.       *)
(*                                                                         *)
(* What a store holds is the set of the changes made to it.  A file system *)
(* call may fail; then its save ends.  writeFile opens (and truncates) the *)
(* file and writes from its start, so a text written over a longer one     *)
(* leaves the end of that one, which no JSON parser reads.                 *)
(***************************************************************************)
EXTENDS Integers, Sequences, FiniteSets, SequencesExt

CONSTANTS
  Stores,           \* the stores looked at, one in each behaviour
  MaxChanges,       \* bound: changes, each with its save
  MaxFailures,      \* bound: calls of the file system that fail
  MaxCrashes,       \* bound: crashes of the node
  None              \* no file, no save

Change == 1..MaxChanges
First == 0                      \* the save of a new store's defaults
Saver == {First} \cup Change

VARIABLES
  store,            \* which store this is
  memory,           \* the changes that the process holds
  made,             \* the changes that were ever made
  saves,            \* the saves under way, by the change that asked for them
  chain,            \* saveQueue: the saves that wait, in order
  rejected,         \* whether saveQueue is a rejected promise
  names,            \* the inodes with the names <file>.tmp and <file>
  inodes,           \* what the inodes contain
  reported,         \* changes whose save was reported to have failed
  overlapped,       \* whether two saves were ever under way at a time
  up, failures, crashes

vars == <<store, memory, made, saves, chain, rejected, names, inodes, reported, overlapped,
          up, failures, crashes>>

----------------------------------------------------------------------------
(* Files *)

\* What a file contains; an inode is named by the save that created it.
Content == [whole : BOOLEAN, text : SUBSET Change]
Empty == [whole |-> FALSE, text |-> {}]
Whole(text) == [whole |-> TRUE, text |-> text]

\* text written from the start of what a file contains.
Over(text, content) ==
  [whole |-> content.text \subseteq text, text |-> text \cup content.text]

IsLoadable == names["file"] # None => inodes[names["file"]].whole

\* What a load finds: nothing, if there is no file.
OnDisk == IF names["file"] = None THEN {} ELSE inodes[names["file"]].text

\* Faulty: the file itself is written.
SavedTo_InPlace == "file"

\* The name that save() writes to before it renames.
SavedTo == "tmp"

\* The saves of the file store are not queued.
IsQueued == store # "files"

\* A save under way: what it has taken of the store, its file descriptor, and
\* its next step.
SaveRow == [text : SUBSET Change, fd : Saver \cup {None},
            next : {"text", "open", "write", "rename"}]

\* What the theorems assume of the constants
JsonStoreAssumption ==
  /\ {MaxChanges, MaxFailures, MaxCrashes} \subseteq Nat
  /\ None \notin Saver /\ None \notin SaveRow

Running == {s \in Saver : saves[s] # None}

At(s, step) == saves[s] # None /\ saves[s].next = step

----------------------------------------------------------------------------
(* Saves *)

\* save(), up to the await of mkdir.
Begun(held) == [text |-> held, fd |-> None, next |-> "text"]

NoSaves == [s \in Saver |-> None]

\* set, touch, update, add, delete, link, upload: the store is changed and a
\* save is asked for, which begins or waits for the one before it.
MakeChange(c) ==
  /\ up /\ c \notin made /\ \A b \in Change : b < c => b \in made
  /\ made' = made \cup {c}
  /\ memory' = memory \cup {c}
  /\ IF IsQueued /\ (rejected \/ Running # {})
     THEN chain' = Append(chain, c) /\ UNCHANGED <<saves, overlapped>>
     ELSE /\ saves' = [saves EXCEPT ![c] = Begun(memory')]
          /\ overlapped' = (overlapped \/ Running # {})
          /\ UNCHANGED chain
  /\ UNCHANGED <<store, rejected, names, inodes, reported, up, failures, crashes>>

\* The save s is over and the next one of the chain begins.
EndSave(s) ==
  IF ~rejected' /\ chain # <<>>
  THEN /\ saves' = [saves EXCEPT ![s] = None, ![Head(chain)] = Begun(memory)]
       /\ chain' = Tail(chain)
  ELSE saves' = [saves EXCEPT ![s] = None] /\ UNCHANGED chain

\* What is written of the store: its list was made before mkdir (notifications),
\* is made after it (settings, files), or was made before it and holds objects
\* that may have changed since (sessions, art).
Texts(s) ==
  CASE store = "notifications" -> {saves[s].text}
    [] store \in {"settings", "files"} -> {memory}
    [] OTHER -> {text \in SUBSET memory : saves[s].text \subseteq text}

\* JSON.stringify, when mkdir has returned.
MakeText(s) ==
  /\ At(s, "text")
  /\ \E text \in Texts(s) : saves' = [saves EXCEPT ![s].text = text, ![s].next = "open"]
  /\ UNCHANGED <<store, memory, made, chain, rejected, names, inodes, reported, overlapped,
                 up, failures, crashes>>

\* writeFile opens and truncates the file, or creates it.
OpenFile(s) ==
  LET inode == IF names[SavedTo] = None THEN s ELSE names[SavedTo]
  IN
  /\ At(s, "open")
  /\ saves' = [saves EXCEPT ![s].fd = inode, ![s].next = "write"]
  /\ names' = [names EXCEPT ![SavedTo] = inode]
  /\ inodes' = [inodes EXCEPT ![inode] = Empty]
  /\ UNCHANGED <<store, memory, made, chain, rejected, reported, overlapped, up, failures, crashes>>

\* writeFile writes, to the inode that it opened, and closes.
WriteFile(s) ==
  /\ At(s, "write")
  /\ saves' = [saves EXCEPT ![s].next = "rename"]
  /\ inodes' = [inodes EXCEPT ![saves[s].fd] = Over(saves[s].text, @)]
  /\ UNCHANGED <<store, memory, made, chain, rejected, names, reported, overlapped,
                 up, failures, crashes>>

Rename(s) ==
  /\ At(s, "rename") /\ names[SavedTo] # None
  /\ names' = [names EXCEPT !["file"] = names[SavedTo], !["tmp"] = None]
  /\ UNCHANGED rejected /\ EndSave(s)
  /\ UNCHANGED <<store, memory, made, inodes, reported, overlapped, up, failures, crashes>>

\* After a failure saveQueue is the promise of its catch handler.
IsRejected == FALSE

\* A call of save() throws: the handler of queueSave reports it, or the route
\* that awaits it does.  A write may have been cut short.
SaveFails(s) ==
  /\ saves[s] # None
  /\ IF At(s, "rename") /\ names[SavedTo] = None THEN UNCHANGED failures
     ELSE failures < MaxFailures /\ failures' = failures + 1
  /\ reported' = reported \cup {s}
  /\ rejected' = (IsQueued /\ IsRejected)
  /\ EndSave(s)
  /\ UNCHANGED <<store, memory, made, names, inodes, overlapped, up, crashes>>

\* load(): a store of defaults saves them at once.
Load ==
  /\ up' = IsLoadable /\ memory' = OnDisk
  /\ saves' = [NoSaves EXCEPT ![First] =
       IF names["file"] = None /\ store \in {"settings", "art"} THEN Begun({}) ELSE None]
  /\ chain' = <<>> /\ rejected' = FALSE

\* The process ends between two calls of the file system, and starts again.
Crash ==
  /\ up /\ crashes < MaxCrashes /\ crashes' = crashes + 1
  /\ Load
  /\ UNCHANGED <<store, made, names, inodes, reported, overlapped, failures>>

Init ==
  /\ store \in Stores /\ up = TRUE
  /\ memory = {} /\ made = {} /\ reported = {} /\ chain = <<>> /\ rejected = FALSE
  /\ names = [tmp |-> None, file |-> None] /\ inodes = [s \in Saver |-> Empty]
  /\ saves = [NoSaves EXCEPT ![First] = IF store \in {"settings", "art"} THEN Begun({}) ELSE None]
  /\ overlapped = FALSE /\ failures = 0 /\ crashes = 0

Next ==
  \/ Crash
  \/ \E c \in Change : MakeChange(c)
  \/ \E s \in Saver :
       MakeText(s) \/ OpenFile(s) \/ WriteFile(s) \/ Rename(s) \/ SaveFails(s)

\* The calls of the file system return.
Step(s) == MakeText(s) \/ OpenFile(s) \/ WriteFile(s) \/ Rename(s) \/ SaveFails(s)

Fairness == \A s \in Saver : WF_vars(Step(s))

Spec == Init /\ [][Next]_vars /\ Fairness

----------------------------------------------------------------------------
(* Properties *)

TypeOK ==
  /\ store \in Stores
  /\ memory \subseteq made /\ made \subseteq Change
  /\ saves \in [Saver -> SaveRow \cup {None}]
  /\ chain \in Seq(Saver) /\ rejected \in BOOLEAN
  /\ names \in [{"tmp", "file"} -> Saver \cup {None}]
  /\ inodes \in [Saver -> Content]
  /\ reported \subseteq Saver /\ overlapped \in BOOLEAN
  /\ up \in BOOLEAN /\ failures \in 0..MaxFailures /\ crashes \in 0..MaxCrashes

\* The file as AtomicStore sees it, and something else if it is not whole.
Disk == IF IsLoadable THEN OnDisk ELSE {None}

Atomic == INSTANCE AtomicStore WITH
  Change <- Change, memory <- memory, disk <- Disk

\* The steps of a save amount to one: whatever call a crash or a failure cuts
\* in two, the file is whole and as new as the last save that ended, and a
\* restart loads it.  The file store keeps this as long as no two of its saves
\* overlap.
SavesAreAtomic ==
  [][(store = "files" => ~overlapped') => Atomic!Next]_<<memory, Disk>>

\* A change reaches the file, unless a save reports that it failed or the
\* process crashes first; a failed save does not hinder the saves after it.
ChangesReachTheFile ==
  \A c \in Change : c \in memory ~>
    (c \in OnDisk \/ c \in reported \/ c \notin memory \/ (store = "files" /\ overlapped))
=============================================================================
