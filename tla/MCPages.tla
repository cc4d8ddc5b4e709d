------------------------------ MODULE MCPages ------------------------------
(***************************************************************************)
(* The pages of the desktop application that follow what they show, for    *)
(* TLC: the devices (DeviceRoster), how one is paired (PairingWizard), the *)
(* art of their agents (ArtStudio), and the memories (MemoryPage).  They   *)
(* share nothing that the models keep, so a behaviour has one of them at   *)
(* work and the others at rest.                                            *)
(***************************************************************************)
EXTENDS DeviceRoster

CONSTANTS
  Slots, Relays, Codes, Devices, Preview, MaxAsks, MaxErrors,
  Agents, Assets, Seeds, NumCategories, MaxClicks, MaxCopies,
  Memories, Texts, Queries, MaxSaves, MaxSteps

VARIABLES
  part,             \* the part that is at work
  relay, address, rows, pairing, named, open, step, existing, selected, requested, waiting,
  asked, errors, reclaimed,
  stored, library, agents, busy, asks, editor, draft, drag, clicks, losses, doubt, doubted,
  moved,
  memories, overview, tab, query, timer, results, opened, spins, memoryAsks, saves, steps,
  misses, reads, ours, failed

Wizard == INSTANCE PairingWizard
  WITH MaxMade <- MaxAsks, MaxFailures <- MaxErrors, url <- address, requests <- waiting,
       made <- asked, failures <- errors
Studio == INSTANCE ArtStudio
  WITH MaxMade <- MaxClicks, MaxFailures <- MaxErrors, requests <- asks, made <- clicks,
       failures <- losses
Memory == INSTANCE MemoryPage
  WITH MaxMade <- MaxSaves, MaxFailures <- MaxErrors, stored <- memories, editor <- opened,
       busy <- spins, requests <- memoryAsks, made <- saves, failures <- misses

ASSUME MemoryAssumption == Memory!MemoryPageAssumption

wizardVars ==
  <<relay, address, rows, pairing, named, open, step, existing, selected, requested, waiting,
    asked, errors, reclaimed>>

studioVars ==
  <<stored, library, agents, busy, asks, editor, draft, drag, clicks, losses, doubt, doubted,
    moved>>

memoryVars ==
  <<memories, overview, tab, query, timer, results, opened, spins, memoryAsks, saves, steps,
    misses, reads, ours, failed>>

pagesVars == <<part, vars, wizardVars, studioVars, memoryVars>>

\* A part at rest is in one initial state of it.
PagesInit ==
  /\ part \in {"roster", "wizard", "studio", "memories"}
  /\ Init /\ Wizard!Init /\ Studio!Init /\ Memory!Init
  /\ part # "memories" => memories = [id \in Memories |-> None]
  /\ part # "studio" => library = None

PagesNext ==
  \/ part = "roster" /\ Next /\ UNCHANGED <<part, wizardVars, studioVars, memoryVars>>
  \/ part = "wizard" /\ Wizard!Next /\ UNCHANGED <<part, vars, studioVars, memoryVars>>
  \/ part = "studio" /\ Studio!Next /\ UNCHANGED <<part, vars, wizardVars, memoryVars>>
  \/ part = "memories" /\ Memory!Next /\ UNCHANGED <<part, vars, wizardVars, studioVars>>

\* A part at rest has no step that is owed to it.
PagesSpec ==
  /\ PagesInit /\ [][PagesNext]_pagesVars
  /\ Fairness /\ Wizard!Fairness /\ Studio!Fairness /\ Memory!Fairness

\* DeviceRoster: the list of devices comes to show what the relay has.  MemoryPage: a
\* search comes to show what it found, and what the page changed is shown.
PagesCatchUp ==
  /\ ViewCatchesUp
  /\ Memory!SearchIsShown
  /\ []Memory!FoundAsSearched /\ []Memory!ChangesAreShown

\* PairingWizard: the application comes to show the device that claims a code, and to
\* verify it once it is approved.
PairingIsFollowed == Wizard!ClaimedIsShown /\ Wizard!ApprovedIsVerified

\* ArtStudio: an agent that stays gets an art profile, and no second one.
AgentsGetArt == Studio!AgentsGetProfiles /\ []Studio!OneProfileEach
=============================================================================
