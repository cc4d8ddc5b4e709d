------------------------------- MODULE MCNode -------------------------------
(***************************************************************************)
(* Chat turns (ChatTurns) and the steps of a save (JsonStore) of a node    *)
(* for TLC.  A behaviour has one of them at work and the other at rest.    *)
(***************************************************************************)
EXTENDS ChatTurns

CONSTANTS Stores, MaxChanges, MaxFailures

VARIABLES
  part,             \* the part that is at work
  store, memory, made, saves, chain, rejected, names, inodes, reported, overlapped, up, failures

Store == INSTANCE JsonStore

ASSUME SavingAssumption == Store!JsonStoreAssumption

storeVars ==
  <<store, memory, made, saves, chain, rejected, names, inodes, reported, overlapped, up, failures>>

chatVars == <<turns, tail, logs, current, imported, tasks, file, dirty, resuming>>

nodeVars == <<part, crashes, chatVars, storeVars>>

NodeInit ==
  /\ part \in {"chat", "store"}
  /\ Init /\ Store!Init
  /\ part = "chat" => store = "sessions"

NodeNext ==
  \/ part = "chat" /\ Next /\ UNCHANGED <<part, storeVars>>
  \/ part = "store" /\ Store!Next /\ UNCHANGED <<part, chatVars>>

NodeSpec == NodeInit /\ [][NodeNext]_nodeVars /\ Fairness /\ Store!Fairness

\* JsonStore: the steps of a save amount to one (it implements AtomicStore),
\* and a change reaches the file, or a failure is reported.
SavesReachTheFile == Store!SavesAreAtomic /\ Store!ChangesReachTheFile
=============================================================================
