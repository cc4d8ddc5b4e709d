----------------------------- MODULE ArtStudio -----------------------------
(***************************************************************************)
(* The Agent Art Studio of the desktop application                         *)
(* (apps/desktop/src/features/art/AgentArtStudio.tsx): what it shows of    *)
(* the art library of a node, and the requests that change the library.    *)
(* Every answer holds the whole library as it was when the node changed    *)
(* it.  Some controls are disabled while the studio is busy and some are   *)
(* not, any answer ends its being busy, and requests are done and answered *)
(* in any order.                                                           *)
(*                                                                         *)
(* Of the library there are the profiles of the agents that the devices    *)
(* offer, other profiles without their contents, and the categories of one *)
(* profile that stays selected, on the tab of the agents.  The first of    *)
(* them is the selected one, and alone has its assets here.  Names,        *)
(* prompts, modes and links change as references and chosen assets do, and *)
(* are left out.                                                           *)
(***************************************************************************)
EXTENDS Integers, FiniteSets

CONSTANTS
  Agents,           \* agents of the devices
  Assets,           \* bound: assets of the selected category
  Seeds,            \* those that it begins with
  NumCategories,    \* categories of the selected profile
  Slots,            \* bound: requests at the same time
  MaxMade,          \* bound: requests of the user
  MaxCopies,        \* bound: profiles of one agent that are counted
  MaxFailures,      \* bound: requests that fail
  None

VARIABLES
  stored,           \* the library of the node
  library,          \* the library that is shown
  agents,           \* the agents of the devices that are shown
  busy,             \* whether controls that look at it are disabled
  requests,         \* the requests under way
  editor,           \* the position editor: closed, open, or asking to discard
  draft,            \* the placement in it
  drag,             \* the placement at which a drag began
  made, failures,
  doubt,            \* requests crossed, or an answer is missing, since the last
                    \* that was heard by itself
  doubted,          \* whether that has happened
  moved             \* whether a drag went on while another asset was shown

vars ==
  <<stored, library, agents, busy, requests, editor, draft, drag, made, failures,
    doubt, doubted, moved>>

Category == 1..NumCategories

\* The placement of an asset: the one it has, or one drawn for an asset.
Placement == Assets \cup {None}

Library ==
  [profiles : [Agents -> 0..MaxCopies], assets : SUBSET Assets, chosen : Assets \cup {None},
   references : SUBSET Assets, placed : [Assets -> Placement]]

\* What a request asks for.  A pass makes the same request for one asset or
\* category after the other.
Does ==
  {"load", "sync", "remove", "choose", "toggle", "delete", "clear", "place", "generate",
   "pass", "auth"}

Request ==
  [does : Does, what : Agents \cup Assets \cup Category \cup {None},
   to : (SUBSET Assets) \cup Placement, stage : {"sent", "done", "failed"},
   answer : Library \cup {None}, made : BOOLEAN, alone : BOOLEAN]

\* What the theorems assume of the constants
ArtStudioAssumption ==
  /\ Seeds \subseteq Assets /\ Seeds # {} /\ NumCategories \in Nat \ {0}
  /\ None \notin Assets /\ None \notin Library /\ None \notin Request
  /\ {MaxMade, MaxCopies, MaxFailures} \subseteq Nat

Pending == {s \in Slots : requests[s] # None}

Draft(asset, to) == [asset |-> asset, to |-> to]

\* readAssetPlacement of the asset that is selected in a library
Reset(lib) ==
  IF lib = None \/ lib.chosen = None THEN Draft(None, None)
  ELSE Draft(lib.chosen, lib.placed[lib.chosen])

TypeOK ==
  /\ stored \in Library /\ library \in Library \cup {None}
  /\ agents \subseteq Agents /\ busy \in BOOLEAN
  /\ requests \in [Slots -> Request \cup {None}]
  /\ editor \in {"closed", "open", "asking"}
  /\ draft \in [asset : Assets \cup {None}, to : Placement]
  /\ drag \in Assets \cup {None}
  /\ made \in 0..MaxMade /\ failures \in 0..MaxFailures
  /\ doubt \in BOOLEAN /\ doubted \in BOOLEAN /\ moved \in BOOLEAN

\* The application got the library at its boot, or could not.
Init ==
  /\ stored = [profiles |-> [a \in Agents |-> 0], assets |-> Seeds,
               chosen |-> CHOOSE m \in Seeds : TRUE, references |-> {},
               placed |-> [m \in Assets |-> None]]
  /\ library \in {stored, None}
  /\ agents = {} /\ busy = FALSE
  /\ requests = [s \in Slots |-> None]
  /\ editor = "closed" /\ draft = Reset(library) /\ drag = None
  /\ made = 0 /\ failures = 0 /\ doubt = FALSE /\ doubted = FALSE /\ moved = FALSE

----------------------------------------------------------------------------
(* Requests *)

Doubt(why) ==
  /\ doubt' = (doubt \/ why)
  /\ doubted' = (doubted \/ why)

\* runAction
RunAction(does, what, to) ==
  /\ busy' = TRUE
  /\ \E s \in Slots \ Pending :
       requests' = [t \in Slots |->
         IF t = s
         THEN [does |-> does, what |-> what, to |-> to, stage |-> "sent",
               answer |-> IF does = "auth" THEN library ELSE None, made |-> TRUE,
               alone |-> Pending = {}]
         ELSE IF t \in Pending THEN [requests[t] EXCEPT !.alone = FALSE] ELSE None]
  /\ Doubt(Pending # {})

\* A control of the page, which the position editor covers.
UserRuns(does, what, to) ==
  /\ editor = "closed" \/ does = "place"
  /\ made < MaxMade /\ made' = made + 1
  /\ RunAction(does, what, to)
  /\ UNCHANGED <<stored, library, agents, drag, failures, moved>>

\* A click on a category's asset, its reference, or its deletion, which are not
\* disabled while the studio is busy.  The references are sent as a whole.
Toggled(lib, m) ==
  IF m \in lib.references THEN lib.references \ {m} ELSE lib.references \cup {m}

ClickAsset ==
  /\ library # None
  /\ \E m \in library.assets :
       \/ UserRuns("choose", m, None)
       \/ UserRuns("toggle", m, Toggled(library, m))
       \/ m = library.chosen /\ m \notin Seeds /\ UserRuns("delete", m, None)
  /\ UNCHANGED <<editor, draft>>

\* Retry, which is shown while there is no library; and the start of the studio.
LoadLibrary ==
  /\ library = None
  /\ UserRuns("load", None, None)
  /\ UNCHANGED <<editor, draft>>

\* Requests that change nothing that is kept here: another profile or category, a
\* prompt, a mode.
ChangeOther ==
  /\ library # None
  /\ UserRuns("load", None, None)
  /\ UNCHANGED <<editor, draft>>

\* The profile of an agent is deleted.
RemoveProfile ==
  /\ ~busy /\ library # None
  /\ \E a \in Agents : library.profiles[a] > 0 /\ UserRuns("remove", a, None)
  /\ UNCHANGED <<editor, draft>>

\* uploadAsset: an image of a file comes into the category as one that is made.
UploadAsset ==
  /\ library # None
  /\ UserRuns("generate", 1, None)
  /\ UNCHANGED <<editor, draft>>

\* connectImageGeneration, clearImageGenerationKey
Authorize ==
  /\ ~busy /\ library # None
  /\ UserRuns("auth", None, None)
  /\ UNCHANGED <<editor, draft>>

\* clearProfileDefaults: the seeds of the profile that is shown, one by one.
ClearProfileDefaults ==
  /\ ~busy /\ library # None
  /\ LET seeds == library.assets \cap Seeds IN
     \E first \in seeds : UserRuns("clear", first, seeds \ {first})
  /\ UNCHANGED <<editor, draft>>

GenerateMore ==
  /\ ~busy /\ library # None
  /\ UserRuns("generate", 1, None)
  /\ UNCHANGED <<editor, draft>>

GenerateAllCategories ==
  /\ ~busy /\ library # None
  /\ UserRuns("pass", 1, None)
  /\ UNCHANGED <<editor, draft>>

Missing(lib) == {a \in agents : lib.profiles[a] = 0}

\* The effect that makes a profile for an agent that has none.  The effects that
\* keep the selected profile and category in the library that is shown are left
\* out, for they stay in it here.
SyncAgentProfile ==
  /\ library # None /\ ~busy
  /\ \E a \in Missing(library) : RunAction("sync", a, None)
  /\ UNCHANGED <<stored, library, agents, editor, draft, drag, made, failures, moved>>

----------------------------------------------------------------------------
(* The node *)

\* A category takes ids of its own assets only.
Kept(m, lib) == IF m \in lib.assets THEN m ELSE lib.chosen

Without(lib, m) ==
  LET rest == lib.assets \ {m} IN
  [lib EXCEPT !.assets = rest, !.references = @ \ {m},
              !.chosen = IF @ # m THEN @
                         ELSE IF rest = {} THEN None ELSE CHOOSE n \in rest : TRUE]

\* The libraries that a request can leave.
Done(lib, r) ==
  CASE r.does = "sync" -> {[lib EXCEPT !.profiles[r.what] = IF @ < MaxCopies THEN @ + 1 ELSE @]}
    [] r.does = "remove" -> {[lib EXCEPT !.profiles[r.what] = @ - 1]}
    [] r.does = "choose" -> {[lib EXCEPT !.chosen = Kept(r.what, lib)]}
    [] r.does = "toggle" -> {[lib EXCEPT !.references = r.to \cap lib.assets]}
    [] r.does \in {"delete", "clear"} -> {Without(lib, r.what)}
    [] r.does = "place" -> {[lib EXCEPT !.placed[r.what] = r.to]}
    [] r.does \in {"generate", "pass"} /\ r.what = 1 ->
         {[lib EXCEPT !.assets = @ \cup {m}, !.chosen = m] : m \in Assets \ lib.assets}
    [] OTHER -> {lib}

\* An asset or a profile that is gone is not found.
Found(r) ==
  /\ r.does \in {"delete", "clear", "place"} => r.what \in stored.assets
  /\ r.does = "remove" => stored.profiles[r.what] > 0

Unchanged ==
  UNCHANGED <<library, agents, busy, editor, draft, drag, made, moved>>

Perform(s) ==
  LET r == requests[s] IN
  /\ r # None /\ r.stage = "sent" /\ Found(r)
  /\ \E lib \in Done(stored, r) :
       /\ lib \in Library
       /\ stored' = lib
       /\ requests' = [requests EXCEPT ![s] =
            [r EXCEPT !.stage = "done", !.answer = IF r.does = "auth" THEN @ ELSE lib]]
  /\ UNCHANGED <<failures, doubt, doubted>> /\ Unchanged

\* No image is made: it is blocked or fails, which the answer says.
PerformNot(s) ==
  LET r == requests[s] IN
  /\ r # None /\ r.stage = "sent" /\ r.does \in {"generate", "pass"}
  /\ requests' = [requests EXCEPT ![s] =
       [r EXCEPT !.stage = "done", !.answer = stored, !.made = FALSE]]
  /\ UNCHANGED <<stored, failures, doubt, doubted>> /\ Unchanged

\* The request or its answer is lost, or nothing is found.
Fail(s) ==
  LET r == requests[s] IN
  /\ r # None /\ r.stage # "failed"
  /\ \/ /\ failures < MaxFailures /\ failures' = failures + 1
        /\ Doubt(r.stage = "done" /\ r.answer # library)
     \/ /\ r.stage = "sent" /\ ~Found(r)
        /\ UNCHANGED <<failures, doubt, doubted>>
  /\ requests' = [requests EXCEPT ![s] = [r EXCEPT !.stage = "failed"]]
  /\ UNCHANGED stored /\ Unchanged

----------------------------------------------------------------------------
(* Answers *)

\* applyLibrary, and the effect that resets the placement when another asset is
\* selected than before.
ApplyLibrary(lib) ==
  /\ library' = lib
  /\ draft' = IF Reset(lib).asset = draft.asset THEN draft ELSE Reset(lib)
  /\ moved' = (moved \/ (drag # None /\ draft' # draft))

\* The answer is the whole truth if no other request was under way.
Certain(r) ==
  /\ doubt' = (doubt /\ (r.does = "auth" \/ ~r.alone))
  /\ UNCHANGED doubted

Ends(s) == requests' = [requests EXCEPT ![s] = None]

\* A pass goes on with the next asset or category, or breaks.
Following(r) ==
  CASE r.does = "clear" /\ r.to # {} ->
         {[r EXCEPT !.what = m, !.to = @ \ {m}, !.stage = "sent"] : m \in r.to}
    [] r.does = "pass" /\ r.made /\ r.what < NumCategories ->
         {[r EXCEPT !.what = @ + 1, !.stage = "sent", !.answer = None]}
    [] OTHER -> {None}

Answered(s) ==
  LET r == requests[s] IN
  /\ r # None /\ r.stage = "done"
  /\ \E next \in Following(r) :
       /\ requests' = [requests EXCEPT ![s] = next]
       /\ IF next = None THEN busy' = FALSE ELSE UNCHANGED busy
       \* What was deleted is shown when all of it is.
       /\ IF r.does = "clear" /\ next # None
          THEN UNCHANGED <<library, draft, moved, doubt, doubted>>
          ELSE ApplyLibrary(r.answer) /\ Certain(r)
  /\ UNCHANGED <<stored, agents, editor, drag, made, failures>>

\* Faulty: a failure leaves the studio busy.
Failed_Busy(s) ==
  /\ requests[s] # None /\ requests[s].stage = "failed" /\ Ends(s)
  /\ UNCHANGED <<stored, library, agents, busy, editor, draft, drag, made, failures, doubt,
                 doubted, moved>>

\* The notice says it.  A pass that deleted something does not show that.
Failed(s) ==
  LET r == requests[s] IN
  /\ r # None /\ r.stage = "failed"
  /\ Ends(s) /\ busy' = FALSE
  /\ Doubt(r.does = "clear" /\ r.answer # None)
  /\ UNCHANGED <<stored, library, agents, editor, draft, drag, made, failures, moved>>

----------------------------------------------------------------------------
(* The position editor *)

Dirty == draft # Reset(library)

EditorOnly(d) ==
  /\ draft' = d
  /\ UNCHANGED <<stored, library, agents, busy, requests, made, failures, doubt,
                 doubted>>

OpenPositionEditor ==
  /\ library # None /\ editor = "closed" /\ editor' = "open"
  /\ EditorOnly(Reset(library)) /\ UNCHANGED <<drag, moved>>

\* A button, a slider or the reset, for the asset that is shown.
NudgePlacement ==
  /\ editor = "open" /\ draft.asset # None
  /\ \E to \in {None, draft.asset} : EditorOnly(Draft(draft.asset, to))
  /\ UNCHANGED <<editor, drag, moved>>

StartPlacementDrag ==
  /\ editor = "open" /\ draft.asset # None
  /\ drag' = draft.asset
  /\ EditorOnly(draft) /\ UNCHANGED <<editor, moved>>

\* The new position counts from where the drag began.
MovePlacementDrag ==
  /\ editor # "closed" /\ drag # None
  /\ EditorOnly(Draft(draft.asset, drag)) /\ UNCHANGED <<editor, drag, moved>>

StopPlacementDrag ==
  /\ editor # "closed" /\ drag # None /\ drag' = None
  /\ EditorOnly(draft) /\ UNCHANGED <<editor, moved>>

\* Cancel, a click outside, or Escape, which may come during a drag; the drag
\* is not forgotten then, and goes on when the editor is opened again.
RequestClosePositionEditor ==
  /\ editor = "open"
  /\ editor' = IF Dirty THEN "asking" ELSE "closed"
  /\ EditorOnly(draft) /\ UNCHANGED <<drag, moved>>

\* The question is answered: go on, or discard.
DiscardPlacement ==
  /\ editor = "asking"
  /\ \/ editor' = "open" /\ EditorOnly(draft)
     \/ editor' = "closed" /\ EditorOnly(Reset(library))
  /\ UNCHANGED <<drag, moved>>

SavePlacement ==
  /\ editor = "open" /\ ~busy /\ library # None /\ library.chosen # None
  /\ editor' = "closed"
  /\ UserRuns("place", library.chosen, draft.to)
  /\ UNCHANGED draft

----------------------------------------------------------------------------
(* The devices *)

\* A device comes with its agents, or goes.
AgentsChange ==
  /\ \E a \in Agents : agents' \in {agents \cup {a}, agents \ {a}} /\ agents' # agents
  /\ UNCHANGED <<stored, library, busy, requests, editor, draft, drag, made, failures,
                 doubt, doubted, moved>>

----------------------------------------------------------------------------

Next ==
  \/ ClickAsset \/ LoadLibrary \/ ChangeOther \/ RemoveProfile \/ UploadAsset
  \/ Authorize \/ ClearProfileDefaults
  \/ GenerateMore \/ GenerateAllCategories \/ SyncAgentProfile
  \/ OpenPositionEditor \/ NudgePlacement \/ StartPlacementDrag \/ MovePlacementDrag
  \/ StopPlacementDrag \/ RequestClosePositionEditor \/ DiscardPlacement \/ SavePlacement
  \/ AgentsChange
  \/ \E s \in Slots : Perform(s) \/ PerformNot(s) \/ Fail(s) \/ Answered(s) \/ Failed(s)

Spec == Init /\ [][Next]_vars

\* The node does and answers what it is asked, and effects run after a render.
Fairness ==
  /\ WF_vars(SyncAgentProfile)
  /\ \A s \in Slots : WF_vars(Perform(s) \/ PerformNot(s) \/ Fail(s) \/ Answered(s) \/ Failed(s))

----------------------------------------------------------------------------
(* Properties *)

Idle == Pending = {}

\* With no request under way the studio shows the library of the node, unless
\* requests crossed or an answer went missing and no other was heard since.
ShowsLibrary == Idle /\ library # None /\ ~doubt => library = stored

\* An agent gets one profile, however its devices come and go, unless requests
\* crossed or answers went missing.
OneProfileEach == ~doubted => \A a \in Agents : stored.profiles[a] <= 1

\* An agent whose device stays gets a profile that the studio shows, whatever the
\* user asks meanwhile, and whichever requests fail or cross.
AgentsGetProfiles ==
  \A a \in Agents :
    <>[](library # None /\ a \in agents) => []<>(library # None /\ a \notin Missing(library))

\* A placement is saved for the asset it was drawn for, unless another asset
\* came to be shown under a drag.
PlacedAsDrawn ==
  ~moved => \A m \in Assets : stored.placed[m] \in {None, m}
=============================================================================
