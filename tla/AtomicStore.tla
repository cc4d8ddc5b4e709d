---------------------------- MODULE AtomicStore ----------------------------
(***************************************************************************)
(* What a store that is kept in a JSON file promises: a save puts into the *)
(* file, in one step, what the store has held at some moment since the     *)
(* save before it, and a restart brings back what the file holds.  The     *)
(* contents are the sets of the changes that they include.                 *)
(***************************************************************************)
CONSTANTS
  Change            \* changes that may be made

VARIABLES
  memory,           \* the changes that the process has made
  disk              \* the changes that the file includes

Init == memory = {} /\ disk = {}

Make(c) ==
  /\ c \notin memory \cup disk
  /\ memory' = memory \cup {c}
  /\ UNCHANGED disk

Save ==
  /\ disk' \in {S \in SUBSET memory : disk \subseteq S}
  /\ UNCHANGED memory

Restart == memory' = disk /\ UNCHANGED disk

Next == Save \/ Restart \/ \E c \in Change : Make(c)

Spec == Init /\ [][Next]_<<memory, disk>>
=============================================================================
