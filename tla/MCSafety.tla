------------------------------ MODULE MCSafety ------------------------------
(***************************************************************************)
(* Parts for TLC whose properties need no fairness: pairing at the relay   *)
(* (Relay), and of the desktop application the conversations               *)
(* (Conversation), the node that it runs (LocalAgent), its backend in      *)
(* development (AgentHub), and the pages of art (ArtStudio, without the    *)
(* agents), settings (Settings) and pairing (PairingWizard); and who reads *)
(* the memories of a node (MemoryAccess).  They share nothing that the     *)
(* models keep, so a behaviour has one of them at work and the others at   *)
(* rest.                                                                   *)
(***************************************************************************)
EXTENDS MCRelay

CONSTANTS
  Agents, LocalAgents, MaxSessions, MaxTurns, MaxMessages, MaxHaste, Loads,
  Callers, Procs, Outside,
  StudioAgents, Assets, Seeds, NumCategories, Slots, MaxClicks, MaxCopies, MaxFailures,
  Keys, Members, MaxSettings, MaxRelayed,
  Machines, Local, Names, Accounts, Default, HubCodes, MaxTokens, MaxReports, MaxRegistered,
  MaxHubCrashes,
  Relays, WizardCodes, WizardDevices, Preview, MaxAsks, MaxErrors,
  MeshAgents, Memories

VARIABLES
  part,             \* the part that is at work
  agent, selected, shown, provider, suppressed, busy, kept, loads, turns, created, haste,
  crossed, failed, doubled,
  procs, child, started, calls, stopping, exe, rebuilt, shell, told, overlapped,
  artStored, artShown, offered, working, asks, editor, draft, drag, clicks, losses, doubt,
  doubted, moved,
  stored, seen, busySetting, sent, mockEnabled, mockListed, active, changes, failures, relayed,
  chosen, unsure, unsured, twice, overlap, unasked,
  up, hub, file, codes, holds, socket, scanning, reports, tokens, numbers, registered, crashes,
  reported, missed, uses, mixed, lost,
  atRelay, url, rows, pairing, named, open, step, existing, picked, verified, polls, asked,
  errors, reclaimed,
  memory, project, assigned, writers, note

Talk == INSTANCE Conversation WITH store <- kept
Node == INSTANCE LocalAgent
Studio == INSTANCE ArtStudio
  WITH Agents <- StudioAgents, MaxMade <- MaxClicks, stored <- artStored, library <- artShown,
       agents <- offered, busy <- working, requests <- asks, made <- clicks, failures <- losses
Page == INSTANCE Settings
  WITH MaxMade <- MaxSettings, shown <- seen, busy <- busySetting, requests <- sent,
       made <- changes, doubt <- unsure, doubted <- unsured, mixed <- overlap
Hub == INSTANCE AgentHub
  WITH Codes <- HubCodes, MaxCrashes <- MaxHubCrashes, sent <- reported, crossed <- missed
Wizard == INSTANCE PairingWizard
  WITH Codes <- WizardCodes, Devices <- WizardDevices, MaxMade <- MaxAsks,
       MaxFailures <- MaxErrors, relay <- atRelay, selected <- picked, requested <- verified,
       requests <- polls, made <- asked, failures <- errors
Notes == INSTANCE MemoryAccess WITH Agents <- MeshAgents

ASSUME NotesAssumption == Notes!AccessAssumption
ASSUME TalkAssumption == Talk!ConversationAssumption
ASSUME NodeAssumption == Node!LocalAgentAssumption
ASSUME HubAssumption == Hub!AgentHubAssumption
ASSUME StudioAssumption == Studio!ArtStudioAssumption
ASSUME PageAssumption == Page!SettingsAssumption
ASSUME PairingAssumption == Wizard!WizardAssumption

talkVars ==
  <<agent, selected, shown, provider, suppressed, busy, kept, loads, turns, created, haste,
    crossed, failed, doubled>>

nodeVars ==
  <<procs, child, started, calls, stopping, exe, rebuilt, shell, told, overlapped>>

studioVars ==
  <<artStored, artShown, offered, working, asks, editor, draft, drag, clicks, losses, doubt,
    doubted, moved>>

pageVars ==
  <<stored, seen, busySetting, sent, mockEnabled, mockListed, active, changes, failures,
    relayed, chosen, unsure, unsured, twice, overlap, unasked>>

hubVars ==
  <<up, hub, file, codes, holds, socket, scanning, reports, tokens, numbers, registered,
    crashes, reported, missed, uses, mixed, lost>>

wizardVars ==
  <<atRelay, url, rows, pairing, named, open, step, existing, picked, verified, polls, asked,
    errors, reclaimed>>

memoryVars == <<memory, project, assigned, writers, note>>

safetyVars ==
  <<part, vars, talkVars, nodeVars, studioVars, pageVars, hubVars, wizardVars, memoryVars>>

\* A part at rest is in one initial state of it.
SafetyInit ==
  /\ part \in {"relay", "talk", "node", "studio", "settings", "hub", "wizard", "memories"}
  /\ Init /\ Talk!Init /\ Node!Init /\ Studio!Init /\ Page!Init /\ Hub!Init
  /\ Wizard!Init /\ Notes!Init
  /\ part # "studio" => artShown = None
  /\ part # "settings" => active = "live"
  /\ part # "wizard" => url = CHOOSE r \in Relays : TRUE

SafetyNext ==
  \/ part = "relay" /\ Next
     /\ UNCHANGED <<part, talkVars, nodeVars, studioVars, pageVars, hubVars,
                    wizardVars, memoryVars>>
  \/ part = "talk" /\ Talk!Next
     /\ UNCHANGED <<part, vars, nodeVars, studioVars, pageVars, hubVars,
                    wizardVars, memoryVars>>
  \/ part = "node" /\ Node!Next
     /\ UNCHANGED <<part, vars, talkVars, studioVars, pageVars, hubVars,
                    wizardVars, memoryVars>>
  \/ part = "studio" /\ Studio!Next
     /\ UNCHANGED <<part, vars, talkVars, nodeVars, pageVars, hubVars,
                    wizardVars, memoryVars>>
  \/ part = "settings" /\ Page!Next
     /\ UNCHANGED <<part, vars, talkVars, nodeVars, studioVars, hubVars,
                    wizardVars, memoryVars>>
  \/ part = "hub" /\ Hub!Next
     /\ UNCHANGED <<part, vars, talkVars, nodeVars, studioVars, pageVars,
                    wizardVars, memoryVars>>
  \/ part = "wizard" /\ Wizard!Next
     /\ UNCHANGED <<part, vars, talkVars, nodeVars, studioVars, pageVars, hubVars, memoryVars>>
  \/ part = "memories" /\ Notes!Next
     /\ UNCHANGED <<part, vars, talkVars, nodeVars, studioVars, pageVars, hubVars, wizardVars>>

SafetySpec == SafetyInit /\ [][SafetyNext]_safetyVars

SafetySymmetry == SymmetryOfDevices \cup Permutations(Slots)

\* The type invariants of the parts.
SafetyTypeOK ==
  TypeOK /\ Talk!TypeOK /\ Node!TypeOK /\ Studio!TypeOK /\ Page!TypeOK /\ Hub!TypeOK
  /\ Wizard!TypeOK /\ Notes!TypeOK

\* Conversation: the messages of a conversation, the session of the agent's
\* provider, and what is shown belong together.
ConversationsStayApart ==
  Talk!OwnProviderSession /\ Talk!ShownIsStored /\ Talk!AnswerFollowsQuestion

\* LocalAgent: the node that the application started is known to it and ends
\* with it, and runs the new build after a rebuild that succeeded.  AgentHub: the
\* backend keeps one device of each machine, with the tokens it was answered and
\* the providers it reported, and lets a code pair once.
NodesAreKnown ==
  /\ Node!OwnAgentIsKnown /\ Node!SuccessMeansNewBuild
  /\ Hub!OneDeviceEach /\ Hub!TokensAreKept
  /\ Hub!CodesPairOnce /\ Hub!ReportsArrive

\* ArtStudio and Settings: what a page shows is what the node keeps, and what the
\* user asked for is what the node then has.  PairingWizard: the same of a relay and
\* its codes.
PagesShowTheNode ==
  /\ Studio!ShowsLibrary /\ Studio!PlacedAsDrawn
  /\ Page!ShowsSettings /\ Page!ChoicesAreKept /\ Page!MockFollowsSetting
  /\ Wizard!ShownTogether /\ Wizard!NotAheadOfRelay /\ Wizard!ApprovedAsShown

\* MemoryAccess: a session note is read by its author and the user alone.
NotesStayPrivate == Notes!NotesStayPrivate
=============================================================================
