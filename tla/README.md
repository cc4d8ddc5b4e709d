# A formal model of Project Reika

Project Reika connects chat applications with AI agents that run on several
machines. A *Reika Node* (`server/`) runs on each machine, talks to the local
providers and keeps an outbound WebSocket to a *relay* (`Relay/`), to which the
desktop and Android applications connect as well. This directory holds TLA+
models of the parts whose correctness depends on the order of events, the
configurations that check them with TLC, and proofs checked with TLAPS.

1. Inventory · 2. Modules · 3. What each module models and leaves out ·
4. Runs, bounds, fairness · 5. Proofs · 6. What the models show of the code ·
7. Not modelled · 8. Plan

## 1. Inventory

| Part | State | Operations | Hard behaviour |
| --- | --- | --- | --- |
| Relay, `Relay/src/relay/server.ts` | pairing sessions, device records (socket, presence, last heartbeat, offline queue), chat sessions, application sockets, one JSON store | pair (create, claim, approve), device socket (hello, heartbeat, snapshots, close), route a request, presence watchdog, load and save | two connections of one device, close events after a reconnection, a crash between writes and save, expiry and limit of the queue, stale presence |
| Dispatcher and ledger, `server/src/modules/commands/` | ledger (memory and file), active requests | chat request, status request with recovery, settlement | resent requests, crash at every save, failed saves, eviction, awaits during recovery, two dispatchers with one file |
| Uplink, `server/src/modules/uplink/relayClient.ts` | status, socket, three timers, backoff | start, stop, connect, socket events, timers, send | late events of old sockets, failures inside `onOpen`, stop against reconnect, auto-pairing |
| Memory Mesh tasks, `server/src/main.ts`, `memoryMeshStore.ts` | task status and lifecycle, abort controllers, remote task socket | create, approve, run, cancel, resume, poll | cancel against run and resume, crash between any two rows, timeout against late answer |
| Memory Mesh store and scanner, `modules/memoryMesh/`, `modules/projectDiscovery/` | projects, paths, agents, devices, assignments, memories, a scan under way | route a task, scan, reconcile, sync with the relay, tools and routes of memories | disappearing paths, settings changed during a scan, writes of a stale row, who may read what |
| Chat turns, `main.ts` | queue of turns per session, logs, routed turns | run a turn, delegate, import, recover | turns that start turns, crash, failed saves |
| Providers, `modules/provider/` | sessions of the providers in a chat session's metadata | one turn with each kind of provider, recovery of a forgotten session, tool rounds | lost answers, a session that expires, several agents in one chat session |
| JSON stores, `sessionStore.ts`, `settingsStore.ts`, `notificationStore.ts`, `artStore.ts`, `fileStore.ts` | memory, save queue, temporary file, file | change, save, load | crash between two calls, failures, unqueued saves |
| Art and images, `modules/art/` | profiles, categories, assets, files; key file; image jobs | copy, upload, generate, delete; save and clear the key; call an image service | shared files, the key changes during a job, streams that break, retries |
| Updates, `modules/update/`, notifications | clone or package, installers, notifications | check, apply, announce, read | concurrent calls, commits of the user, half a download |
| Desktop: relay client, `data/relay.ts` | socket, open waiters, pending chats | connect, send, request, close | timeout against answer, socket loss with requests pending |
| Desktop: voice, `voicePlayback.ts`, `ChatView.tsx` | generation, audio, captures, call state, timers | speak, stop, pause; call, mute, transcribe, send, reply | results that are superseded while they are awaited |
| Desktop: pages, `features/*` | what each shows, requests under way, effects | select, send, poll, edit, save, approve | answers out of order, polls against broadcasts, stale closures |
| Desktop: local backend and shell, `electron/`, `backend/` | child process, flags; registry of machines with file | launch, probe, recover, rebuild, quit; register, report | concurrent recoveries, crash within a write |
| Android, command line client, vendored command center, shared protocol | external or none | I/O, types | no protocol of their own |

Interaction: an application sends a request envelope to the relay
(`routeAppRequest`); the relay writes it to the device's socket or queues it;
the node's uplink hands it to the dispatcher, which records it in the ledger
and calls the provider; responses go back over the uplink's *current* socket and
the relay broadcasts them to the applications. A Memory Mesh task makes a node
play the application's part towards another node. `POST /commands/simulate`
reaches a second dispatcher of the same node directly. A turn of a local chat
takes its place in the queue of its session, may be routed to a task, and ends in
`runProviderChat`. The desktop application starts a node of its own and talks to it
through a proxy that recovers it. Pages poll the node or the relay and hear
the relay's broadcasts.

What makes each part correct, in a sentence:

* Relay: bounded queues in order, nothing lost without a cause, nothing sent
  twice without a crash, sockets attached to their own device, presence that
  follows connections, a store that a restart can rely on.
* Dispatcher: a request is executed at most once, its outcome is kept, and
  recovery neither collides with a call under way nor invents an answer.
* Uplink: one connection, a way on after every failure, silence after a stop.
* Tasks: a settled task is final, a run is due and not repeated, only completed
  work is remembered, what was dispatched is settled.
* Projects, agents, memories: what is visible stays, the registry catches up, the
  strongest reason decides, a private note stays private.
* Turns and providers: turns of a session do not interleave and end; a message
  reaches one session of its provider, once.
* Stores: a save is one step however it is cut, and changes reach the file.
* Desktop: every chat is answered or fails once, nothing superseded is heard, sent
  or shown, pages catch up, and processes are known to whoever started them.

`PROJECT.json` lists all components, also those left out, and the hazards of the
code line by line with the properties that cover them.

## 2. Modules

| Module | Models | Checked by | Uses |
| --- | --- | --- | --- |
| `Relay` | pairing, registry, device sockets, queue, watchdog, store | `MCRelay`, `MCSafety` | |
| `RelayProofs` | theorems | | `Relay`, `TLAPS` |
| `Dispatcher` | dispatchers, ledgers, file, recovery, provider | `MCDispatcher`, `MCNodeSafety` | `ExecuteOnce` |
| `ExecuteOnce` | abstract: what the ledger promises about a request | | |
| `DispatcherProofs` | theorems | | `Dispatcher`, `TLAPS` |
| `RelayClient` | the node's uplink and its WebSockets | `MCUplink` | |
| `RelayClientProofs` | theorems | | `RelayClient`, `TLAPS` |
| `MeshRegistry` | agents of the Memory Mesh: detection, syncs, PATCH | `MCUplink` | |
| `MemoryMeshTasks` | a routed task from request to result, remote socket included | `MCMesh` | |
| `ProjectDiscovery` | scanner, single flight, timer, reconciliation | `MCMesh` | |
| `Routing` | the choice of an agent | `MCMesh` | |
| `MeshProofs` | theorems on `MemoryMeshTasks`, `Routing` | | `MCMesh`, `TLAPS` |
| `MemoryAccess` | who reads and changes memories | `MCSafety` | |
| `ChatTurns` | the queue of turns, routed turns, recovery | `MCNode` | |
| `ChatTurnsProofs` | theorems on `ChatTurns`, `JsonStore` | | `MCNode`, `TLAPS` |
| `JsonStore` | the steps of a save | `MCNode` | `AtomicStore` |
| `AtomicStore` | abstract: a save is one step | | |
| `ProviderTurns` | `runProviderChat` and the providers' sessions | `MCNodeSafety` | |
| `ArtLibrary` | profiles, assets and their shared files | `MCNodeSafety` | |
| `ImageGeneration` | credentials, key file, calls of image services | `MCNodeSafety` | |
| `Updates` | update checks, installs, notifications | `MCNodeSafety` | |
| `NodeSafetyProofs` | theorems on the four modules above | | `MCNodeSafety`, `TLAPS` |
| `AppSocket` | chats of the application over the relay | `MCDesktop` | |
| `VoicePlayback` | spoken messages | `MCDesktop` | |
| `VoiceCall` | the voice call of the chat view | `MCDesktop` | |
| `DesktopProofs` | theorems on the three modules above and `MemoryPage` | | `MCDesktop`, `MemoryPage`, `TLAPS` |
| `Conversation` | conversations of the chat view | `MCSafety` | |
| `DeviceRoster` | the list of devices, polls against broadcasts | `MCPages` | |
| `PairingWizard` | pairing from the page of devices | `MCPages`, `MCSafety` | |
| `ArtStudio` | the art page | `MCPages`, `MCSafety` | |
| `MemoryPage` | the page of the Memory Mesh | `MCPages` | |
| `Settings` | the settings page and the node's settings | `MCSafety` | |
| `LocalAgent` | the node that the application runs | `MCSafety` | |
| `AgentHub` | the backend in development | `MCSafety` | |
| `SafetyProofs` | theorems on `MemoryAccess`, `Conversation`, `LocalAgent`, `AgentHub`, `PairingWizard`, `Settings`, `ArtStudio` | | `MCSafety`, `RelayProofs`, `TLAPS` |

The modules named `MC...` are for TLC. `MCRelay` and `MCDispatcher` give one
component its instances. The others put several components into one run: a
variable `part` says which of them is at work, and the others stay in an initial
state. This is no composition of parts that act on each other, and it takes
nothing away from a part: the parts of a run share no state in the models, every
initial state of a part is one of the run, every step of it is a step of the
run, and a part at rest enables no action that fairness is asked of. A property of
the run that gathers several properties of parts (`NodesAreKnown`,
`PagesShowTheNode`, `ArtIsMade`, ...) names them; each part at rest satisfies its own.
Liveness is checked in runs without symmetry, and apart from larger safety-only
instances of the same module (`PairingWizard`, `ArtStudio` are in both kinds).

What does interact is composed by contract. `MemoryMeshTasks` and `AppSocket` take of
the other node what `ExecuteOnce` says and `Dispatcher` is shown to implement.
`ChatTurns`, `ArtLibrary` and others save in one step, which is what `AtomicStore`
says and `JsonStore` is shown to implement. `ProviderTurns` takes turns one after
another, which `ChatTurns` shows. `DeviceRoster` and `PairingWizard` use the
relay as `Relay` models it, reduced to one device or one code.

### Common conventions

Node.js runs a handler without interruption up to an `await`, so a handler (or
the part of it between two awaits) is one action. What a handler saves on the
way is visible to a crash only, and actions such as `CrashInFlush`,
`CrashInChatRequest` and `CrashInDispatch` are a handler cut off in the middle.
In the user interface an action is an event with the renders and effects that
follow it at once; a closure of an earlier render is modelled where it is used
(the request holds what it closed over). Names are those of the source where
there is one.

Variables such as `overlapped`, `crossed`, `doubt` or `mixed` are history variables.
They record that something has happened after which the code does not keep a
property (two saves of one file at the same time, say), and the property exempts
such behaviours by name; section 6 lists what the code does then.

Definitions marked *Faulty* are variants of the next definition with a plausible
mistake; no specification uses them. They are the `mutants` of `PROJECT.json`:
each property of a run is violated when the faulty variant takes the place
of the right one.

## 3. What each module models and leaves out

### Relay and uplink

**Relay.** `pairingSessions` and `devices` are the maps of the same name, `store` is
the file, `sockets` holds each connection's `readyState` and the `deviceId` that its
message handler closes over. `writes` counts, as a history variable, how often an
envelope was written to a device. The store is written by nearly every handler, so
`Save` is part of the action; `HelloStore` says what the last save of a hello
wrote, as `flushQueuedEnvelopes` saves only if it wrote something. Time is not a
clock but ages: of a queue item, of a heartbeat, and the remaining life of a pairing
session, which `Tick` moves and which stop at the value after which no comparison
changes; so time needs no bound. The ages in the store grow with those in memory, as
the store holds instants. The device object of an approved session is the record's
own until `upsertDevice` gives the record another one; `presence = "shared"` and
`Unshared` model that aliasing. Left out: credentials (challenge, rotation,
revocation), a device that repeats its hello on one connection, and data that no
property tells apart.

**RelayClient.** `client` is the object with its fields and the sockets it has made; each
method is an operator from a client to the next one, since methods call each other
(`connectWith` calls `stop`, `start`, `connect`), and an action is an event:
a timer, an event of a socket, a request, a response to send. The sockets
follow the WebSocket interface: `close()` begins the closing, an error event comes
at most once and before the close event, the close event comes last; an error
event may come in any state before that, which is more than the runtime does.
`fails` and `throws` make `socket.send` throw at any of the frames. Timers carry
no duration. `booting` follows `boot()` and `autoPairLocalRelay`, which decides,
awaits the relay and then connects. Left out: the empty relay URL (the
configuration has a default, so the branch is dead), contents of the frames.

**MeshRegistry.** The rows of agents, written by the node's own detection, by syncs that
wait for the relay's list, and by a PATCH that waits for the body of its request
between reading the row and writing it. Rows of devices go with those of their agents.
`RegistryCatchesUp` holds while project discovery is enabled, for only then is there a
timer that syncs; and for an agent of the node itself only while relay and node say
the same of it.

### Node: commands and tasks

**Dispatcher, ExecuteOnce.** `ledger[p]` is the map in the memory of dispatcher `p`,
`file` the records in the shared file. `newer` in a record stands for the order by
`updatedAt`, from which `Put` derives which record a full ledger drops. `calls` counts
calls of `chatHandler` under way, `polls` the status requests that await
`recoveryHandler`: each reads the history (`ReadHistory`) and stores the result
(`Recovered`) in separate actions. `ProviderAnswers` is external: the provider
finishes what it was given even if the node has crashed, and its answer is
then the last message of the session. A request that names no session makes one
(`main.ts:209`), which later requests may name; others use the provider's sessions as
well (`OtherAnswers`; their answers are `Other`, in `OpenSessions`). `said` is the
history of who was answered in which session. A handler that throws (a failing save)
is `ChatRequestThrows` or the last disjunct of `Settle`. `ExecuteOnce` is the promise
of `docs/CURRENT_ARCHITECTURE.md`: what is on record about a request goes from new to
accepted or running to settled, it is executed only when it leaves "new", and only a
record the ledger had no room for ends the promise. `Dispatcher` implements it
under the mapping `Phase`.

**MemoryMeshTasks.** A row per task with status and lifecycle, `runs` (a promise under
way), `conn` (the socket of a remote run: frames up and down, reconnection, resending
with the same id, polling, the timeout), `remote` (what the other node has done, once
per id), and the list that recovery works off. `CrashInDispatch` cuts a run between any
two of its rows. Abstractions: an error of the socket and its close are one step; a
controller is aborted exactly when its task is cancelled while the run is alive; the
message that a resumed task leaves in its session is in `ChatTurns`.

**Routing.** `routeTask` for a project that was found, over every registry of two agents
on two devices; the registry does not change while it decides (no await). The
reference is the order that `docs/REIKA_MEMORY_MESH.md:106` gives: ownership, primary
device, place of the request.

**ProjectDiscovery.** The walk in batches, the depth, skipped and unreadable directories, the
deadline and the limit of 500 projects (`MaxProjects`); the promise that concurrent calls join;
the timer; and what reconciliation makes of a snapshot, with rows that users edit and delete
meanwhile. A batch is read in one step. Flags, agents, names and stacks of projects are left out;
one manual project exists from the start. `hidden` collects what the scan under way could not see
at some time, or dropped at its limit; only such paths may go stale.

**MemoryAccess.** `canRead`, `canWrite`, the validation and defaulting of scope and
visibility, the tools of agents and the routes of the user. There is one project, and
every agent has a device of its own. Expiry is left out. A PATCH changes the
content, the permissions, the scope, or one of the ids (of the agent, device or
project) of a memory; with partial permissions it is normalized to what its scope allows.
`note` forgets the author of a note whose scope or visibility changes, for that is
what letting go is, and names the new agent of one that is handed over.

### Node: turns, providers, stores

**ChatTurns.** `tail` is `chatTurnQueues`, `logs` the messages of the session objects,
which an import may replace while a turn holds the old one; `file` what was saved last.
A routed turn waits for its task; a task of this node starts a turn in a session of its
own. Streaming and the text of prompts are left out.

**ProviderTurns.** One action per call of a provider: which session it is given (from
the metadata of the chat session), how it fails, and what is stored in the metadata;
`heard` is the history of what reached which session. Kinds: CommandCenter (sessions,
recovery of a forgotten one, streams that break), Hermes (a command whose output may
name a session), OpenClaw (keys), the mock, and rounds of tools.

**JsonStore, AtomicStore.** The calls of a save (mkdir, open and truncate, write,
rename), each of which may fail or be the last before a crash; `inodes` are the file
contents that names refer to, so that a write goes on in a file that was renamed
meanwhile. Four stores chain their saves, the file store does not. `SavesAreAtomic`
is the refinement of `AtomicStore`, `ChangesReachTheFile` its liveness.

**ArtLibrary.** Copies of profiles share the files of the originals; a deletion looks
whether a file is still used, awaits the removal, and saves. Deletions, uploads and
generations hold a category across an await. **ImageGeneration.** The steps of saving
the key (`OpenTmp`, `WriteTmp`, `RenameTmp`), a pass over the four sources of a
credential that other programs change meanwhile, made twice by a job, and the calls:
an edit that is refused and sent again with another field, a stream of events with
parts of an image that may break off. `absent[g]` is the history of what a job could
have missed, `images[g]` of what the service made, `uncleared` of a removal of the key that failed
unnoticed.

**Updates.** Git clone or package; every git command or download is a step, in which
other calls, commits, new versions, and a restart come. Notifications with their
limit, and what `IsAnnounced` suppresses. `Launched` says of an installer that the service
launched whether its file was whole and whether it ran (`ran`).

### Desktop application

**AppSocket.** The shared connection with its open waiters, and `sendRelayChat` with one socket
per address. `told` is what the user was told, `sent` how often a request left. **VoicePlayback.**
`speak()` and `stop()` wait for the answer to a cancellation; answers come in order.
**VoiceCall.** The React component: a capture is stale if it was begun by a rendering that saw
`busy`; between the end of a recording and the transcription its bytes are read ("reading"), after
which nothing looks at the call again; requests have deadlines, a recording ends after 25 s.
**Conversation.** Selection, loads, and turns in three awaits (create, append, ask); local agents
keep their conversations at the node. The agent changes by the user's choice and the effects that
clear the selection (`ChangeAgent`), and beneath it by those of the roster and by a refresh of the
providers (`RosterMoves`, `Refreshes`). A chat mode is one more agent; the list may offer any
conversation; what a load reads is read when it is answered. **DeviceRoster.** One device, its
record at the relay, the broadcasts in a queue, the polls of the application and of the page,
whose opening or change of address forgets the devices. **PairingWizard.** The page's polling of a
code, the wizard's steps and effects, the relay's codes. **ArtStudio.** Each answer replaces the
library; the effect that creates missing profiles; the position editor with its draft and drag.
One profile and category with contents; names of agents, and the display of a generation's status,
are left out. **MemoryPage.** The delayed search, the overview, the editor. Which memories a
search matches, and the forms of projects and routing, are left out. **Settings.** One setting of
several members, sent whole from what is shown; the mock provider that follows one setting and the
detection that reads it. Replacing invalid values by defaults is not modelled. **LocalAgent.**
Processes, the `child` and `started` variables, probes with deadlines, two users of
`recoverLocalAgent`, rebuild; a running executable cannot be replaced (Windows). Quitting is one
step. **AgentHub.** Registration by token, fingerprint or code; reports; one synchronous write of
the registry per change, which a crash may cut.

## 4. Runs, bounds, fairness

| Run | Instance | What it shows |
| --- | --- | --- |
| `relay_queue` | one device, two sockets, three envelopes, limit 2, one crash in a flush | the queue's bound, order and store; empty while connected; at most one write per envelope and crash; no loss without a cause; a device whose heartbeats stop does not stay online (liveness) |
| `safety` | relay: two identities, one code, two sockets; and the parts `talk`, `node`, `studio`, `settings`, `hub`, `wizard`, `memories` | attached sockets belong to the device and stay attached when an older one closes; conversations (three agents, two turns) stay apart; nodes are known; pages show what node and relay have; notes stay private; types |
| `dispatcher` | three requests, two of which name one session and one none, room for two records, two polls; and the parts `saves`, `art`, `images`, `asking`, `updates` | executed once, exclusive recovery, an answer of the own session; the refinement of `ExecuteOnce` with failing saves, room for one record and a session that others use; images, turns and updates as in section 1 |
| `dispatcher_two` (violation) | relay and local dispatcher | one file, two ledgers: executed again after a restart |
| `dispatcher_recovery` (violation) | two requests of one session | completed with an earlier request's answer |
| `uplink` | three sockets; part `registry`: two devices, two syncs, a PATCH | one connection, always a way on, a true status, keeps trying, registry catches up (liveness) |
| `uplink_stop` (violation) | two sockets | a disconnect during auto-pairing is undone |
| `mesh` | two tasks of every kind, one crash; four directories, one project a scan at most, two changes; two agents on two devices | runs are due, settled tasks stay, dispatched ones settle (liveness), what is seen stays active, settings are scanned with (liveness), the strongest reason decides |
| `mesh_cancel` (violation) | two tasks | a cancelled task on recovery's list runs and is remembered |
| `node` | three turns, one routed, one import, one crash; each of five stores with three changes, one failure, one crash | turns do not interleave and settle, interrupted ones are reported (liveness), the refinement of `AtomicStore`, changes reach the file (liveness) |
| `desktop` | two chats and two breaks; three messages; a call with two captures | chats keep their word, only the latest is heard, a call is private and listens again (liveness) |
| `pages` | a device with three changes; a code and two devices; an agent; a memory with a change of the page, and three searches, reopenings or changes by agents | the pages catch up, the wizard follows its code, agents get their art (liveness) |

The four violations are differences between the code and its documents; the
`findings` of `PROJECT.json` quote both.

**Bounds.** Three envelopes with a limit of two reach displacement, expiry and a flush of several
items. Two sockets per device are an old and a new connection; a third would be an older one
still, which no handler compares with. Two devices and one code are enough for a code to move.
Ages need one step below and one above each limit (`QueueTtl`, `PairingTtl`, `HeartbeatStale`).
`MaxFlushCrashes` bounds the crashes in a flush because the number of writes depends on it. In the
dispatcher `MaxStarts = 2` is one execution more than allowed; three requests with room for two
records make evictions happen in every order; two polls race each other. Three sockets of the
uplink are the current one and two whose events are outstanding; `ReconnectMin = 2`, `ReconnectMax
= 7` make the doubling meet its limit off a power of two. Two tasks are one that is recovered and
one that is cancelled, created or recovered beside it (`ResumeLimit = 2` for the code's 200). Four
directories are a root, a directory and one below it, and one beside it, with `BatchSize = 2` for
the code's 12 so that two projects of one batch meet the limit `MaxProjects = 1` (for 500), and
the disk changes between batches. Three agents are two of the relay, which a roster may exchange,
and one of the node. Three turns are one that runs, one that waits and one that is started by
another. Two requests of a page are enough to cross, a third for the wizard is a new code during a
poll of the old one. One failure and one crash may come at every step; the code counts neither.
`MaxChanges`, `MaxMade`, `MaxSteps`, `MaxTimers`, `MaxHaste`, `MaxRelayed`, `MaxRegistered` and
their like end behaviours that would go on for ever.

**Deadlock** is checked in the runs `uplink`, `uplink_stop`, `dispatcher_two` and
`dispatcher_recovery`. In the others a part comes to an end when its bounded inputs are
used up, or a `Tick` no longer changes anything, which is no fault.

**Fairness** is what timers, deadlines, the operating system and the event loop owe:

| Where | Assumed | Because |
| --- | --- | --- |
| `Relay` | the watchdog runs | `setInterval` |
| `RelayClient` | `boot()` runs, a set timer fires, a closing socket reports its close | `setTimeout`, the WebSocket interface |
| `MeshRegistry` | the sync timer fires again and again, its scan ends and the relay answers again and again | `main.ts` schedules it while discovery is enabled; a scan has a deadline |
| `MemoryMeshTasks` | the node boots, recovery goes on, a local turn ends, the remote timeout fires | supervisor; the deadlines of providers (`providerRuntime.ts:93-102`, `CURRENT_ARCHITECTURE.md:12`); `setTimeout` |
| `ProjectDiscovery` | a scan ends, the timer fires, the call of the relay ends | deadline, `setTimeout` |
| `ChatTurns` | turns start, providers return, tasks end, saves end | promises, the deadlines above, file calls return |
| `JsonStore` | a file call returns | the operating system |
| `AppSocket`, `VoiceCall` | timers fire, closes are reported, the microphone is granted or denied, recordings and speech end | `setTimeout`, the 25 s of a recording, deadlines of requests |
| `DeviceRoster` | polls (every 8 s) go out and are answered again and again, envelopes of an open socket arrive | `setInterval`; without answers a page cannot know |
| `PairingWizard`, `ArtStudio`, `MemoryPage` | polls (every 2 s) and timers (180 ms) fire, requests are answered or fail, effects run | `setInterval`, `setTimeout`, React |

Nothing is assumed of users, of the network where answers may be lost, or of
heartbeats. The other specifications are safety only.

## 5. Proofs

What is proved holds for all values of the constants that satisfy the named
assumptions of the modules. These say that bounds are natural numbers, that a
limit is not zero where the code's is not, and that `None` is no value of
another kind; TLC evaluates them in the runs. A module that an MC module
instantiates instead of extending has its assumption named again by that MC
module: `ChoiceAssumption` in `MCMesh`; `NotesAssumption`, `TalkAssumption`,
`NodeAssumption`, `HubAssumption`, `StudioAssumption`, `PageAssumption` and
`PairingAssumption` in `MCSafety`; `AskingAssumption`, `UpdatingAssumption`,
`ArtAssumption` and `ImagingAssumption` in `MCNodeSafety`; `SavingAssumption` in `MCNode`;
`MemoryAssumption` in `MCPages`. The theorems about those modules are theorems of the run's
specification, in which one part is at work: its step is a step of the part or leaves it
alone (the first lemma of each proof); `MemoriesAreShown` alone is about the
specification of its module, under the assumption that it names. Most proofs have
the same shape: an inductive invariant, one lemma for each operator or action, and the property from the
invariant. The run's bounds on counters (crashes, turns, starts) are constants
like the others, so a theorem holds however large they are.

**Relay** (`RelayProofs`). `IInv` is the types (`DataInv`, `FileInv`) together with

* `ConnectionInv`, which relates a record to its socket: a record's socket
  is a connection bound to that device, an open one has status online and an
  empty queue;
* `SocketInv`, which says of the connections themselves that a bound one is bound
  to the identity it announces.

Neither the queue nor the ownership claim is inductive alone: that a connected
device's queue is empty needs that an attached socket is in use, which needs that
a freed socket has been detached, which needs that a socket is bound to the one
device that may hold it. From `IInv` follow `TypeCorrect`, `SocketsAreOwned`
and `ConnectedIsFlushed` (which also says that a device shown offline is not
connected, `OfflineMeansDetached`). `QueuesAreBounded` needs the further assumption
`QueueLimit >= 2`: with a limit of one `slice(-0)` keeps the whole queue.
`ReplacedStaysAttached` is an action property that follows from `IInv` handler by
handler. `QueuesAreKept` and `RequestsLeaveForCause` need `KeptInv` besides: the store
agrees with memory on sessions, records and unexpired items (`StoreInv`), and every
queue is in order of age. Each needs the other: that what a flush filters out
as expired is a prefix needs the order, and a restart keeps the order because
the store has it.

**Dispatcher** (`DispatcherProofs`) proves `TypeCorrect`, `RecoveryIsExclusive` (a request without
an active key has no call under way, which needs that the calls of a key are counted by
`activeRequestKeys` as long as the ledger has not dropped its record) and, for any number of
dispatchers, `AnsweredInOwnSession`: every answer that a record, the file or a recovery holds is
that of its own request or one that was given in the session it names (`AnswersInv`), by whomever
it was asked for. `OneDispatcherExecutesOnce` assumes a single dispatcher, and the run
`dispatcher_two` shows why: its inductive invariant (`OnceInv`) is that a request that was started
and not dropped has a record, in memory and in the file, and with two ledgers one save breaks that
for the other. Under the same assumption `OneDispatcherKeepsPromise` proves that the dispatcher
implements `ExecuteOnce`: each step moves the record of each request in the file forwards, or
drops it, and either is a step of `ExecuteOnce` or a stutter. It needs that the ledger in memory
and the file agree between steps (`FileInv`), and that nothing is recovered of which the file says
nothing (`PollFileInv`).

**Uplink** (`RelayClientProofs`): all the safety properties. Its invariant has two levels,
because methods call each other in the middle of a change: `Sound` is what every
method preserves of whatever client it is called on (a live socket is the
current one, the current one has not reported its end, a client that is not
enabled has nothing under way), `Greeted` holds only between events, as `onOpen`
shows "connected" before it says hello. There is a lemma for each method, and an
event's proof cites those of the methods it calls. `OpenFacts` follows a failure at
any of the three frames of `onOpen`.

**Routed tasks** (`MeshProofs`): `TypeCorrect`, `TasksRunWhenDue` and the
action property `SettledTasksStay`. The invariant relates a task's row to all else
that is kept about the task (`RowIsTrue`: a row that waits for approval has neither a
run nor a place in the recovery's list, a completed one has no run) and bounds
executions and memories by lives of the node and by the kind of the task
(`ExecutionsAreCounted`, `MemoriesAreCounted`). That a remote task is executed once
rests on the other node's ledger (`remote`), which executes it only from "none".

**Choice of an agent** (`MeshProofs`): `TheStrongestReasonDecides`. The point of it is
`ScoresAreLexicographic`: the points 100, 25 and 15 that `routeTask` adds up order
agents as the reasons do, one after the other, as the weaker ones never add up
to a stronger one.

**Memories** (`SafetyProofs`): `NotesArePrivate`. A note that was
not released is visible to the user only, or is private to an agent and names its
author (`NoteIsOwn`), which the writes, promotions and patches of others preserve
because each checks what its actor may change. Its author, or the user, may hand it over
with a patch of its agent, which `NoteAfter` follows: it is then a note of the other.

**Conversations** (`SafetyProofs`): `ConversationsAreApart`. `TalkInv` has a part for each thing
that the three awaits of a turn rely on. `PlaceInv` says where a turn stands and that what it
names exists; `AloneInv` that, unless a second submit passed (`doubled`), `busy` means one turn;
`AnswerInv` that the question of a turn that waits is the last of its conversation; `CalmInv`
that, unless a load crossed or the agent changed beneath the conversation (`crossed`), the
selected conversation is one of the agent that is selected, loads are of it, and the provider's
session is none, its own or the one it keeps; `ShownInv` that what is shown is what is stored,
with what the turn has added so far. `CalmInv` was false at first as it said that the provider's
session is the conversation's own: an answer that is stored with another's session keeps naming it
(section 6).

**The node of the application** (`SafetyProofs`): the conjuncts of `NodesStayKnown` about
`LocalAgent`. Unless calls ran into each other (`overlapped`), one call at most is under way,
and a process that lives is `child` and either awaited by a call or `started` (`KnownInv`, with
`ShellInv` for the phases of launch and quit); the executable is replaced while no process
runs, so that none runs the old one afterwards (`BuildInv`).

**The backend in development** (`SafetyProofs`): the conjuncts of `NodesStayKnown` about
`AgentHub`. While it runs, its registry is its file (`HubFileInv`); ids and tokens are of their
machine (`MachineInv`), and a machine that named one account has one device in it
(`EachInv`); a token that was answered is in the file (`HeldInv`), a code was good for one
registration (`PairsOnceInv`), and the file has the last report of a device or it is under
way (`ReportsInv`).

**The pairing wizard** (`SafetyProofs`): the conjuncts of `PagesAreTrue` about `PairingWizard`.
What a poll, a request or the page says of a code's device is the device
that claimed the code at some time (`PollsInv`, `PairingInv`), so that an approved code
has a device, and the approval named one that had claimed it (`CodeInv`).

**The settings page** (`SafetyProofs`): the conjuncts of `PagesAreTrue` about `Settings`. An answer
to a request that is alone is what the node has (`SoleInv`), and unless there is
doubt, all are alone and what is shown is what is stored until a change is answered (`SureInv`).
What the user chose is stored or under way, for each setting (`ChosenInv`, `OnceInv`) and
for the members of the one that is sent whole (`MembersInv`). `MockInv` relates the detection
that came last to the setting of the mock provider.

**The art page** (`SafetyProofs`): the conjuncts of `PagesAreTrue` about `ArtStudio`, and
`ProfilesAreSingle`, the safety half of `AgentsGetArt`. The library that is shown is the node's
unless requests crossed (`LoneAsksInv`, `ShownInvOfArt`); the draft, the drag and every
placement under way are of the asset that is shown (`DrawnInv`). That the effect makes no
second profile follows from the first two (`SyncingInv`): it asks for one only when the
library it sees has none, and without doubt that is the library of the node.

**Types of the run `safety`** (`SafetyProofs`): `TypesAreCorrect`, from the invariants above and
`IInv`, which the lemmas of `RelayProofs` show to be one of this specification, too.

**Chat turns** (`ChatTurnsProofs`): `TypeCorrect` and `TurnsStayTogether`. Six parts of
the invariant support each other: the promise kept for a session is that of its
last turn that is not over, and every turn behind one that is not over waits for
that one or a later one (`QueueInv`), so a turn that works is alone in its session; what
it has said is the last that was said (`LastInv`); every log, in memory or in the
file, holds only messages of started turns, and separates none (`LogInv`). `PlaceInv`
and `TaskInv` say which sessions belong to whom: child turns have sessions of
their own, and after a crash new ones.

**Saves** (`ChatTurnsProofs`): `SavesAreOneStep`, that `JsonStore` implements `AtomicStore`. What
the abstract store holds is the content of the file that the path names. `StoreInv` says that
neither path names the file that a save has yet to create, and that a change has one save at most
(`FreshInv`), that one save at a time is under way where saves are chained (`OneSaveInv`), and
that, unless saves overlapped, the path names a file with the whole of a state and the temporary
file has what its save has written (`FilesInv`). Of the calls of a save only the rename changes
what the path names, and it is the abstract save of a state that was made; a crash or a failure at
any other call, and the writes into the temporary file, are stutters.

**Providers' sessions** (`NodeSafetyProofs`): `TurnsHaveTheirSession`. The invariant
(`AskingInv`) has a part for each place where a session's id is kept: `ChatInv` for
the chat (it keeps one of each provider, the one that answered last if there is
one, and of its agent as long as it has had only one), `CallInv` for the
call under way (the id that is expected is the one asked, or forgotten) and
`HeardInv` for what was heard. That nothing is heard twice needs the order
of requests in a call: before the first round of a call nothing of its turn has been
heard, and a recovery starts a call only when the provider has forgotten the session.

**Updates** (`NodeSafetyProofs`): `UpdatesTellTheTruth`. `UpdatingInv` says of every
step of a call what it may still rely on (`CallOk`), of the clone that the
user's commits are on its version (`CopyInv`), and of the notifications that an
unread version is announced once and an applied one was brought (`NotesOk`, for the versions
in `Brought`). Versions that were brought stay brought, and the operations on the
list (read, delete, cut to the limit) keep a part of it in order, so that
one lemma about order-preserving maps serves all of them. Of a launched installer it keeps
what `Launch` saw of it, so that one that ran and was whole is what is installed.

**Art library** (`NodeSafetyProofs`): the first conjunct of `ArtIsSafe`. `ArtInv`
says that a library's ids and files are numbers already given (`LibraryOk`), those of a
copied profile prefixed by its number; that a number which a request has drawn for an
image under way is in no category yet, that no two requests have the same, and that a file
which a request is about to unlink is in none either (`RequestsOk`). Without the second
an image could be added under the name of another, and without the third a copy
made between the record's removal and the file's would name a missing file; it
holds because the code counts the uses of a file after it removed the record,
with no await between, and a copy only names files in use.

**Images** (`NodeSafetyProofs`): the other conjuncts of `ArtIsSafe`. `KeyInv` is about the key's
file: as long as no two changes were made at once, the path has the key saved last (or an older
one whose removal failed, `uncleared`), and the temporary file belongs to the one change under
way, empty or with its whole key. `WorkInv` relates a generation's stage to the sources found
absent, the images made and the stream left to read (`WorkOk`).

**Desktop application** (`DesktopProofs`), the first three about the specification of the
run, in which one of three parts is at work:

* `OnlyTheLatestIsHeard`: what sounds is the current element, and its call is the
  last one made (`HeardInv`), since each call gets a number of its own before it
  awaits its synthesis (`NumberedInv`).
* `CallsStayPrivate`: a microphone that is on is that of the current capture or of one
  being started (`MicrophoneInv`); a capture that was cancelled is being transcribed and is
  not the request any more, and one that is being read or is the request belongs to a call that
  listens, or slipped through a mute or an end (`CancelInv`).
* `ToldIsNotSent`, the safety half of `ChatsKeepTheirWord`: a request of which the user
  was told is over, so that no socket is opened for it and none sends it (`SentInv`).
* `MemoriesAreShown`, the safety half of `PagesCatchUp` (the invariants of `MemoryPage`): a
  search that the page hears of is of what it shows, since each change of query or tab
  cancels those before it (`SearchInv`); and of every change of the page the overview that
  was read last knows, or another reading is to come (`RefreshInv`), whichever of the
  answers, the openings of the page and the changes by agents come between.

The first two invariants have the exemptions of the properties (`overlapped`, `raced`;
section 6), the last those of lost answers (`failed`).

TLC has checked the inductive invariants as invariants of runs before they were
proved: `IInv` of `ChatTurnsProofs` on 1.1 million states, `StoreInv` on 60 134, the first three of
`DesktopProofs` on those of the run `desktop`, `MemoryInv` on 7.7 million (two memories, two
queries), the invariants of `SafetyProofs` on those of the run `safety`, or on larger
instances of the one module; `StudioInv` on 20 million states of an instance that was not
exhausted.

### Checked by TLC only

* Liveness, which is out of the prover's reach: `StaleIsNotKeptOnline`, `KeepsTrying`,
  `RegistryCatchesUp`, `DispatchedSettles`, `DiscoveryKeepsUp`, `EveryTurnSettles`,
  `InterruptedIsReported`, `SavesReachTheFile`, `ListensAgain`, `EveryRequestSettles` (the other
  half of `ChatsKeepTheirWord`), `PagesCatchUp`, `PairingIsFollowed`, `AgentsGetArt`.
* `SeenStaysActive`, the other half of `DiscoveryKeepsUp`: that a scan reports what it could see
  rests on what `FlattenSeq` makes of the children of a batch, and `IsBelow` on the length
  of a path through the tree, which is induction over data.

Of the properties that gather a safety half and liveness, the safety half is proved:
`ChatsKeepTheirWord`, `SavesReachTheFile`, `PagesCatchUp`, `AgentsGetArt`. Every invariant and
every action property of the runs is stated by a theorem. The type invariants of the modules
without proofs and outside `safety` state the intended types for the reader.

## 6. What the models show of the code

Besides the four findings, the exemptions in the properties are what the code does
where a property would not hold. None of them is a claim of a document that a run refutes,
unless it says so.

* **Dispatcher.** A request that names no session is answered in a new one, which the next request
  names: interrupted before its answer, that one is recovered with the earlier one's. Other chats
  of the session, which did not come through a dispatcher, are taken the same way.
* **Relay.** A record may be online without a connection: an approval takes over the status
  of a record that shares its device object, and a frame after the watchdog's close sets
  it again. With a queue limit of one, the queue is not bounded.
* **Routed tasks.** A crash within a write-back may leave a memory of a task that recovery
  runs again (`cut`). A request whose crash came between its two saves stays
  'delivered' for ever (`dispatcher.ts:290`).
* **Registry.** Every sync overwrites an agent's permissions, so configured ones are lost. Agents
  and devices that vanish keep their last status. While the uplink is down, the relay's
  record makes the node's own agents 'offline' in its own registry. The stale write of a PATCH
  is put right by the next sync, which only comes while discovery is enabled.
* **Discovery.** A scan during which a root becomes a project, or ceases to be one, reads two
  views of the disk. Of the batch in which the 500th
  project is found the others are dropped without being listed as skipped
  (`projectScanner.ts:86`), so that those known before go stale, although
  `docs/REIKA_MEMORY_MESH.md:32` excludes that for subtrees over the budget. The model does
  the same, and `SeenStaysActive` exempts the projects that were dropped (`Dropped`).
* **Memories.** A PATCH may name another agent: who may write a private note can so give it to
  an agent that it was never released to, which `NotesStayPrivate` counts as handed over.
* **Providers.** `hermesSessionId` takes the place of another provider's session;
  `providerSessionIds` is keyed by provider, not by agent, so two agents in one chat session
  hear each other (`crossed`). A command of Hermes that failed with output counts as an answer.
* **File store.** Two saves may share the temporary file, so a torn text may replace the file
  (`overlapped`). The key file of image generation has the same weakness.
* **Images.** A credential may vanish between the two passes, so a job fails where it should be
  blocked. A part of an image of a stream that then fails is saved as the image. A removal of the
  key that fails, for whatever reason, is reported as done and leaves the key in use
  (`imageCredentials.ts:59-65`, `uncleared`).
* **Updates.** An installer that cannot be launched, with and without `/S`, or is killed after 10
  s, and a package that is not for Windows, are reported as applied (`updateService.ts:315-320`,
  `ran`). The files and descriptions that a git update reports are those before the pull. Two
  applies truncate the same installer (`overlapped`). A stalled download hangs for ever.
* **Own node.** A recovery during a rebuild overwrites `child`: the older process survives the
  application, or is shown as managed outside Reika (`overlapped`). A quit during the launch
  leaves the node behind.
* **Backend in development.** A device is never shown offline; a code is consumed even if the token
  suffices; a torn write loses the registry, which the next save overwrites (`lost`); a request
  that names another account moves a device, and so does a registration under the name of a
  device that another account has (`mixed`).
* **Voice.** `mute` or `end` during `await context.resume()` leaves the microphone live (`raced`).
  During `await blob.arrayBuffer()` (`ChatView.tsx:822`) they cancel nothing: the utterance is
  transcribed and sent while the call is muted, or from the call before (`slipped`); and the request
  that is then left keeps the next call from listening until it is muted (`disturbed`).
  An utterance whose closure saw `busy` is dropped, and the call stays in "processing"; speaking a
  reply by hand leaves it deaf in "listening" (`disturbed`). The error of a transcription that was
  cancelled clears a newer request.
* **Conversations.** A load that is not cancelled shows another conversation's messages and sends
  its provider session (`crossed`); a roster that loses or gains the agent
  (`ChatView.tsx:142-158`, `353-373`) and a refresh of the providers (`429-447`) change the agent
  and keep the selection and the provider session, so that a message goes to one agent with
  another's session (`crossed`); a failed load leaves the old messages (`failed`); a second submit
  passes during `await speechPlayback.stop()` (`doubled`). An answer that was stored with another
  conversation's provider session keeps naming it, so later loads take it up again. At the limit
  of messages the question is stored and the answer is not.
* **Own process.** `stopLocalAgentAndWait` takes a process that a signal killed for one that is still
  running, as its `exitCode` stays null (`localAgent.ts:84`): the rebuild is then given up.
* **Devices and pairing.** The page's polls are not cancelled when the address changes, and a poll may
  overwrite what the socket brought later; the next poll repairs it. After "verify" the wizard
  does not go back to pairing until the page is left. The answer of an approval of an old code
  replaces a newer code. An approval goes to whoever claimed last (`reclaimed`). An expired
  code is polled for ever.
* **Art page.** Actions that `busy` does not disable may cross (`doubt`, `doubted`); a drag may
  continue over another asset (`moved`); the effect that creates profiles repeats a failing
  creation without a delay, and recreates the profile of an agent that the user deleted. For an
  agent whose name is empty or has blanks around it the effect creates one profile after the
  other: the node stores the trimmed name (`artStore.ts:618`), the effect looks for the other
  (`AgentArtStudio.tsx:144`). The model's agents have no such names. Escape closes the position
  editor during a drag, which goes on when the editor is opened again (`moved`).
* **Settings page.** Any answer ends `busySetting`. A setting of several members is sent whole from a
  stale view (`doubted`), also by the controls of the voice, which `busySetting` does not disable.
  `provider.refresh.request` detects providers without the setting of the
  mock provider (`dispatcher.ts:34`), which turns it on again although `main.ts:1871` and
  `SettingsView.tsx:423` say that it is disabled (`unasked`).
* **Memory page.** Results of a search are not read again after an edit. The editor saves the record
  as it was opened, over what an agent changed; an answered save closes whichever editor is
  open; a failed search leaves the results of the previous query.

Hazards that no model covers: a write that fails in the middle of a flush, which has emptied
the queue before (`server.ts:1020`); the watchdog of the uplink, which frames that are sent
re-arm (`relayClient.ts:262`; timers have no duration here); and the retry of a proxied POST, which
reads a body that was consumed (`localServer.ts:148-154`).

## 7. Not modelled

* The relay's command line client, the Android application and the other local servers of
  the Electron shell: they keep no state that outlives a request.
* The relay's credential routes, and its chat sessions beyond what the desktop application does
  with them.
* Detection of providers, import of their histories, prompts, streams of deltas: their order matters
  to no property here.
* The shared protocol (types), the vendored command center (third-party code), the views of the
  desktop application that only show what they are given.
* Cryptography, text matching, layout, wording.

## 8. Plan

1. The safety half of `DiscoveryKeepsUp`, with the walk of the scanner modelled on sets of
   directories instead of sequences, if that can be done without losing the order of the reads.
2. The relay's credential routes, and presence at both ends: `RelayClient` with the relay's
   handler of a device connection.
