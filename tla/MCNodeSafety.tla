---------------------------- MODULE MCNodeSafety ----------------------------
(***************************************************************************)
(* Parts of a node for TLC whose properties need no fairness: the commands *)
(* of the relay (Dispatcher), and again with saves that fail and room for  *)
(* one record, the art library (ArtLibrary), the images made for it        *)
(* (ImageGeneration), the sessions of its providers (ProviderTurns) and    *)
(* its updates (Updates).  They share nothing that the models keep, so a   *)
(* behaviour has one of them at work and the others at rest.               *)
(***************************************************************************)
EXTENDS MCDispatcher

CONSTANTS
  FewRequests, FewSessions, FewOpen, MaxFailedSaves,
  ArtRequests, MaxProfiles, MaxAdded, MaxAssets, MaxCrashes,
  Generations, KeyChanges, MaxLogins,
  AskedAgents, MaxAsked, MaxProviderSessions, RoundLimit,
  Callers, MaxUpdateCalls, MaxVersion, MaxOwn, NoteLimit

VARIABLES
  part,             \* the part that is at work
  kept, keptFile, atWork, handlers, statuses, lastAnswers, saidThere, begun, answered, dropped,
  failedSaves,
  profiles, library, requests, disk, saved, unsaved, taken, lost, crashes,
  env, codex, inodes, path, tmp, keyChanges, works, images, absent, key, notCleared,
  crossedChanges, logins, breaks,
  chat, turn, call, created, expired, heard, latest, crossed,
  mode, remote, fetched, copy, installers, launched, notes, updating, made, overlapped

Failing == INSTANCE Dispatcher
  WITH Requests <- FewRequests, Sessions <- FewSessions, OpenSessions <- FewOpen,
       SessionOf <- OneSession, MaxRecords <- 1, MaxSaveErrors <- MaxFailedSaves,
       ledger <- kept, file <- keptFile, active <- atWork, calls <- handlers,
       polls <- statuses, last <- lastAnswers, said <- saidThere, starts <- begun,
       answers <- answered, evicted <- dropped, saveErrors <- failedSaves
Art == INSTANCE ArtLibrary WITH Requests <- ArtRequests
Imaging == INSTANCE ImageGeneration
  WITH Changes <- KeyChanges, changes <- keyChanges, kept <- key,
       uncleared <- notCleared, overlapped <- crossedChanges, crashes <- breaks
Asking == INSTANCE ProviderTurns
  WITH Agents <- AskedAgents, MaxTurns <- MaxAsked, MaxSessions <- MaxProviderSessions
Updating == INSTANCE Updates
  WITH Calls <- Callers, MaxCalls <- MaxUpdateCalls, Limit <- NoteLimit, calls <- updating

\* Bounds are numbers, there are providers' sessions and rounds, and None is
\* neither of the ids nor a call.
ASSUME AskingAssumption ==
  /\ MaxAsked \in Nat /\ MaxProviderSessions \in Nat \ {0} /\ RoundLimit \in Nat \ {0}
  /\ None \notin Asking!Id \cup Asking!Call

\* Bounds are numbers, and None is neither a file nor a number.
ASSUME ArtAssumption == MaxAssets \in Nat /\ None \notin Nat

\* None is neither a change of the key nor a part of an image.
ASSUME ImagingAssumption == None \notin KeyChanges \cup {"partial", "final"}

\* Bounds are numbers, GitHub has a version, and None is neither a version nor
\* a call.
ASSUME UpdatingAssumption ==
  /\ MaxUpdateCalls \in Nat /\ MaxVersion \in Nat \ {0} /\ MaxOwn \in Nat /\ NoteLimit \in Nat
  /\ None \notin Updating!Version \cup Updating!Call

savesVars ==
  <<kept, keptFile, atWork, handlers, statuses, lastAnswers, saidThere, begun, answered,
    dropped, failedSaves>>

artVars == <<profiles, library, requests, disk, saved, unsaved, taken, lost, crashes>>

imagingVars ==
  <<env, codex, inodes, path, tmp, keyChanges, works, images, absent, key, notCleared,
    crossedChanges, logins, breaks>>

askingVars == <<chat, turn, call, created, expired, heard, latest, crossed>>

updateVars ==
  <<mode, remote, fetched, copy, installers, launched, notes, updating, made, overlapped>>

nodeVars == <<part, vars, savesVars, artVars, imagingVars, askingVars, updateVars>>

\* A part at rest is in one initial state of it.
NodeInit ==
  /\ part \in {"commands", "saves", "art", "images", "asking", "updates"}
  /\ Init /\ Failing!Init /\ Art!Init /\ Imaging!Init /\ Asking!Init /\ Updating!Init
  /\ part # "images" => ~env /\ \A c \in KeyChanges : keyChanges[c].does = "clear"
  /\ part # "images" => \A g \in Generations : ~works[g].edits
  /\ part # "asking" => created = <<>> /\ chat.agent = CHOOSE a \in AskedAgents : TRUE
  /\ part # "updates" => mode = "git"

NodeNext ==
  \/ part = "commands" /\ Next
     /\ UNCHANGED <<part, savesVars, artVars, imagingVars, askingVars, updateVars>>
  \/ part = "saves" /\ Failing!Next
     /\ UNCHANGED <<part, vars, artVars, imagingVars, askingVars, updateVars>>
  \/ part = "art" /\ Art!Next
     /\ UNCHANGED <<part, vars, savesVars, imagingVars, askingVars, updateVars>>
  \/ part = "images" /\ Imaging!Next
     /\ UNCHANGED <<part, vars, savesVars, artVars, askingVars, updateVars>>
  \/ part = "asking" /\ Asking!Next
     /\ UNCHANGED <<part, vars, savesVars, artVars, imagingVars, updateVars>>
  \/ part = "updates" /\ Updating!Next
     /\ UNCHANGED <<part, vars, savesVars, artVars, imagingVars, askingVars>>

NodeSpec == NodeInit /\ [][NodeNext]_nodeVars

\* Dispatcher: the node executes requests as ExecuteOnce says, also when saves
\* fail and the ledger has room for one record; and the answer on record was given
\* in the session that the request names, also when others are answered there.
PromiseIsKept == Failing!KeepsPromise /\ []Failing!OwnAnswerInOwnSession

\* ArtLibrary: an asset of the library finds its file.  ImageGeneration: it was
\* made once, with the best credential there was and the key that was saved last,
\* and a part of an image is not taken for the whole.
ArtIsMade ==
  /\ Art!AssetsHaveFiles
  /\ Imaging!KeyIsKept /\ Imaging!BestCredential
  /\ Imaging!OneImageEach /\ Imaging!FinishedImageWins

\* ProviderTurns: a message reaches one session of its provider, once: that of
\* its agent, in which the latest answer came.
TurnsReachTheirSession ==
  Asking!HeardOnce /\ Asking!ContinuesSession /\ Asking!OwnAgentHears

\* Updates: what the node says of its updates is so, and it says it once; an
\* update leaves the commits of the user alone.
UpdatesAreHonest ==
  Updating!AnnouncedOnce /\ Updating!OwnCommitsStay /\ Updating!ReportedIsInstalled
=============================================================================
