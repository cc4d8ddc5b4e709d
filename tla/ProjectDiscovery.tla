--------------------------- MODULE ProjectDiscovery ---------------------------
(***************************************************************************)
(* How a node finds projects: the scanner, which walks the directories     *)
(* below the configured roots (projectScanner.ts), the single flight and   *)
(* the timer of its scans (server/src/main.ts), and the reconciliation of  *)
(* what was found, here and on other devices, with the projects and paths  *)
(* that the registry holds (memoryMeshStore.ts).                           *)
(*                                                                         *)
(* A path belongs to a place: a directory of this device, or a place of    *)
(* another one, whose snapshots come from the relay.  A batch of           *)
(* directories is read in one step; the disk may change between batches.   *)
(***************************************************************************)
EXTENDS Integers, Sequences, FiniteSets, SequencesExt

CONSTANTS
  Dir,              \* the directories of this device
  Parent,           \* Parent[d]: the directory that holds d, None at the top
  Kinds,            \* Kinds[d]: what d may be on the disk
  Configs,          \* the settings: enabled, roots, maxDepth
  Remote,           \* a place on another device
  Repo,             \* the repository of every Git directory
  Manual,           \* a project that the user entered, or None
  BatchSize,        \* directories that are read at once (12)
  MaxProjects,      \* projects that a scan lists at most (500)
  UserPaths,        \* projects and places that the user connects
  MaxChanges,       \* bound: changes of the disk and of the settings, user actions
  None

Place == Dir \cup {Remote}

\* A project is known by its repository, by its only path, or by its own id.
Project == {Repo} \cup Dir \cup ({Manual} \ {None})

\* Where a project may have a path.
Key == ((Project \ Dir) \X Place) \cup {<<d, d>> : d \in Dir}

Caller == {"boot", "timer", "settings", "route"}

VARIABLES
  disk,             \* what every directory is
  config,           \* settings.projectDiscovery
  scan,             \* the scan under way (projectDiscoveryInFlight)
  waiting,          \* calls of syncMemoryMeshDiscovery that wait for the scan
  fetching,         \* calls that wait for the relay's devices
  timer,            \* projectDiscoveryTimer
  snapshot,         \* the relay's latest snapshot of the other device
  projects,         \* the rows of mesh_projects
  paths,            \* the rows of mesh_project_paths
  hidden,           \* projects that were out of the scan's sight since it began, or
                    \* were dropped by it
  changes           \* changes left

vars == <<disk, config, scan, waiting, fetching, timer, snapshot, projects, paths, hidden, changes>>

----------------------------------------------------------------------------
(* The registry *)

Row == [origin : {"manual", "mixed", "discovered"}, status : {"active", "stale"},
        name : {"manual", "scanned"}]

PathRow == [source : {"manual", "discovered"}, status : {"active", "stale"}]

DeviceOf(place) == IF place = Remote THEN Remote ELSE "local"

\* The project that an entry belongs to: one with the same repository wins
\* over the entry's own id.  The user's project has the repository too.
Target(rows, project) ==
  IF project = Repo /\ Manual # None /\ rows[Manual] # None THEN Manual ELSE project

\* The row of a project that was found again; the user's name survives.
Rediscovered(row) ==
  IF row = None THEN [origin |-> "discovered", status |-> "active", name |-> "scanned"]
  ELSE [origin |-> IF row.origin = "discovered" THEN "discovered" ELSE "mixed",
        status |-> "active",
        name |-> IF row.origin = "discovered" THEN "scanned" ELSE row.name]

\* assignDeviceToProject with a path: what the user entered stays the user's.
Assigned(path, source) ==
  [source |-> IF path # None /\ path.source = "manual" THEN "manual" ELSE source,
   status |-> "active"]

\* A discovered or mixed project without an active path is stale.
WithStaleProjects(rows, table) ==
  [p \in Project |->
     IF rows[p] # None /\ rows[p].origin # "manual"
        /\ ~ \E k \in Key : k[1] = p /\ table[k] # None /\ table[k].status = "active"
     THEN [rows[p] EXCEPT !.status = "stale"] ELSE rows[p]]

IsBelow(d, top) ==
  LET Up[n \in 0..Cardinality(Dir)] ==
        IF n = 0 THEN d ELSE IF Up[n - 1] = None THEN None ELSE Parent[Up[n - 1]]
  IN top \in {Up[n] : n \in 0..Cardinality(Dir)}

\* Faulty: skipped subtrees are not left alone.
Outdated_Skipped(path, p, x, found, s) ==
  path # None /\ path.source = "discovered" /\ path.status = "active"
  /\ DeviceOf(x) = s.device /\ s.complete /\ <<p, x>> \notin found

\* Whether a path goes stale when its device reports a snapshot without it.
Outdated(path, p, x, found, s) ==
  path # None /\ path.source = "discovered" /\ path.status = "active"
  /\ DeviceOf(x) = s.device /\ s.complete /\ <<p, x>> \notin found
  /\ ~ \E top \in s.skipped : IsBelow(x, top)

\* reconcileProjectDiscovery, one transaction.
Reconcile(s) ==
  LET found == {<<Target(projects, e[1]), e[2]>> : e \in s.projects}
      rows == [p \in Project |->
                 IF \E f \in found : f[1] = p THEN Rediscovered(projects[p]) ELSE projects[p]]
      table == [k \in Key |->
                  IF k \in found THEN Assigned(paths[k], "discovered")
                  ELSE IF Outdated(paths[k], k[1], k[2], found, s)
                       THEN [paths[k] EXCEPT !.status = "stale"] ELSE paths[k]]
  IN paths' = table /\ projects' = WithStaleProjects(rows, table)

----------------------------------------------------------------------------
(* The scanner *)

NoScan ==
  [config |-> None, queue |-> <<>>, seen |-> {}, found |-> {}, listed |-> 0, skipped |-> {},
   complete |-> TRUE]

IsDirectory(d) == disk[d] \notin {"absent", "unreadable"}

Item(d, depth, nested) == [dir |-> d, depth |-> depth, nested |-> nested]

\* Whether a directory is a project: below a root that is one itself, only
\* repositories count.
IsProject(kind, nested) == kind = "git" \/ (kind = "marker" /\ ~nested)

\* describeProject: a repository is known by its remote, another by its path.
Entry(d) == <<IF disk[d] = "git" THEN Repo ELSE d, d>>

\* Whether the directories below this one are visited.
Descends(item, c) ==
  item.depth < c.maxDepth
  /\ disk[item.dir] # "large" /\ (IsProject(disk[item.dir], item.nested) => item.depth = 0)

ChildrenOf(item, c) ==
  IF ~IsDirectory(item.dir) \/ ~Descends(item, c) THEN <<>>
  ELSE SetToSeq({Item(d, item.depth + 1, item.nested \/ IsProject(disk[item.dir], item.nested)) :
                   d \in {x \in Dir : Parent[x] = item.dir /\ disk[x] # "absent"}})

\* The directories that are read next, and those of them that are projects.
Batch(s) ==
  LET n == IF Len(s.queue) < BatchSize THEN Len(s.queue) ELSE BatchSize
  IN SelectSeq(SubSeq(s.queue, 1, n), LAMBDA item : item.dir \notin s.seen)

Described(s) == SelectSeq(Batch(s), LAMBDA item : IsProject(disk[item.dir], item.nested))

HasRoomFor(s, i) == s.listed + i <= MaxProjects

\* The projects that come after the limit.  Nothing says that they were skipped.
Dropped(s) == {Described(s)[i].dir : i \in {j \in DOMAIN Described(s) : ~HasRoomFor(s, j)}}

\* Reading a batch of directories.
AfterBatch(s) ==
  LET n == IF Len(s.queue) < BatchSize THEN Len(s.queue) ELSE BatchSize
      batch == Batch(s)
      dirs == {batch[i].dir : i \in DOMAIN batch}
      kept == {i \in DOMAIN Described(s) : HasRoomFor(s, i)}
  IN [s EXCEPT
        !.queue = SubSeq(@, n + 1, Len(@))
                  \o FlattenSeq([i \in DOMAIN batch |-> ChildrenOf(batch[i], s.config)]),
        !.seen = @ \cup dirs,
        !.found = @ \cup {Entry(Described(s)[i].dir) : i \in kept},
        !.listed = @ + Cardinality(kept),
        !.skipped = @ \cup {d \in dirs : disk[d] \in {"absent", "unreadable", "large"}}]

\* scanProjects up to its loop.  A scan that is disabled finds nothing and
\* says that it is not complete.
StartedScan(c) ==
  [NoScan EXCEPT
     !.config = c, !.complete = c.enabled,
     !.queue = IF c.enabled
               THEN SetToSeq({Item(d, 0, FALSE) : d \in {x \in c.roots : disk[x] # "absent"}}) ELSE <<>>,
     !.skipped = IF c.enabled THEN {d \in c.roots : disk[d] = "absent"} ELSE {}]

----------------------------------------------------------------------------
(* What the scanner can be expected to see *)

\* The nearest root above a directory, and the directories between them.
RootOf(d, c) ==
  LET above == {r \in c.roots : IsBelow(d, r)}
  IN CHOOSE r \in above : \A x \in above : IsBelow(r, x)

Between(d, r) == {x \in Dir : IsBelow(d, x) /\ IsBelow(x, r) /\ x # d /\ x # r}

\* A project that a scan with this disk would find: nothing above it hides it.
\* What cannot be read hides nothing, because it is reported as skipped.
InSight(d, dsk, c) ==
  /\ \E r \in c.roots : IsBelow(d, r)
  /\ LET r == RootOf(d, c)
         nested == r # d /\ dsk[r] \in {"git", "marker"}
     IN /\ dsk[d] \in {"unreadable", "large"} \/ IsProject(dsk[d], nested)
        /\ \A x \in Between(d, r) : dsk[x] # "absent" /\ ~IsProject(dsk[x], nested)
        /\ Cardinality(Between(d, r)) + 1 <= c.maxDepth

\* Whether a directory, as far as it can be read, is a path of this project.
Belongs(p, d, dsk) ==
  \/ dsk[d] \in {"unreadable", "large"}
  \/ dsk[d] = "git" /\ p \in {Repo, Manual}
  \/ dsk[d] = "marker" /\ p = d

OutOfSight(dsk, c) ==
  {k \in {x \in Key : x[2] \in Dir} : ~InSight(k[2], dsk, c) \/ ~Belongs(k[1], k[2], dsk)}

----------------------------------------------------------------------------
(* The node *)

\* boot() has begun to look for projects.
Init ==
  /\ disk \in {k \in [Dir -> UNION {Kinds[d] : d \in Dir}] : \A d \in Dir : k[d] \in Kinds[d]}
  /\ config \in {c \in Configs : c.enabled}
  /\ scan = StartedScan(config) /\ waiting = {"boot"} /\ fetching = {} /\ timer = FALSE
  /\ snapshot = {}
  /\ projects = [p \in Project |->
       IF p = Manual THEN [origin |-> "manual", status |-> "active", name |-> "manual"] ELSE None]
  /\ paths = [k \in Key |-> None]
  /\ hidden = OutOfSight(disk, config) /\ changes = MaxChanges

IsFree == scan.config = None

\* syncMemoryMeshDiscovery up to its first await: it joins a scan that is
\* under way, with the settings of that scan, or starts one.
Sync(caller, c) ==
  /\ waiting' = waiting \cup {caller}
  /\ IF IsFree
     THEN scan' = StartedScan(c) /\ hidden' = OutOfSight(disk, c)
     ELSE UNCHANGED <<scan, hidden>>

\* scheduleProjectDiscovery, with these settings.
Schedule(c) == timer' = c.enabled

TimerFires ==
  /\ timer /\ timer' = FALSE
  /\ Sync("timer", config)
  /\ UNCHANGED <<disk, config, fetching, snapshot, projects, paths, changes>>

\* POST /memory-mesh/discovery/sync
SyncRoute ==
  /\ changes > 0 /\ changes' = changes - 1
  /\ Sync("route", config)
  /\ UNCHANGED <<disk, config, fetching, timer, snapshot, projects, paths>>

\* PATCH /settings with other discovery settings.
UpdateSettings(c) ==
  /\ changes > 0 /\ changes' = changes - 1
  /\ c # config /\ config' = c
  /\ Schedule(c) /\ Sync("settings", c)
  /\ UNCHANGED <<disk, fetching, snapshot, projects, paths>>

\* The loop of the scan goes on until the limit of projects is reached.
ScanBatch ==
  /\ ~IsFree /\ scan.queue # <<>> /\ scan.listed < MaxProjects
  /\ scan' = AfterBatch(scan)
  /\ hidden' = hidden \cup {k \in Key : k[2] \in Dropped(scan)}
  /\ UNCHANGED <<disk, config, waiting, fetching, timer, snapshot, projects, paths, changes>>

\* The scan is done, has reached its limit or has used up its time, and is
\* reconciled; what is left of the queue counts as skipped; all the calls
\* that waited for it go on to ask the relay, if its URL is usable.
ScanEnds ==
  /\ ~IsFree
  /\ Reconcile([device |-> "local", projects |-> scan.found, complete |-> scan.complete,
                skipped |-> scan.skipped \cup {scan.queue[i].dir : i \in DOMAIN scan.queue}])
  /\ scan' = NoScan /\ waiting' = {} /\ fetching' = fetching \cup waiting
  /\ hidden' = {}
  /\ UNCHANGED <<disk, config, timer, snapshot, changes>>

\* The relay's answer comes or fails, and the call is over; those of the boot
\* and of the timer set the timer again.
SyncEnds(caller) ==
  /\ caller \in fetching /\ fetching' = fetching \ {caller}
  /\ \/ Reconcile([device |-> Remote, projects |-> snapshot, complete |-> TRUE, skipped |-> {}])
     \/ UNCHANGED <<projects, paths>>
  /\ IF caller \in {"boot", "timer"} THEN Schedule(config) ELSE UNCHANGED timer
  /\ UNCHANGED <<disk, config, scan, waiting, snapshot, hidden, changes>>

\* PATCH /memory-mesh/projects/:id
UpdateProject(p) ==
  /\ changes > 0 /\ changes' = changes - 1
  /\ projects[p] # None
  /\ projects' = [projects EXCEPT ![p].name = "manual",
                    ![p].origin = IF @ = "discovered" THEN "mixed" ELSE @]
  /\ UNCHANGED <<disk, config, scan, waiting, fetching, timer, snapshot, paths, hidden>>

\* POST /memory-mesh/projects/:id/devices with a path
AssignPath(p, x) ==
  /\ changes > 0 /\ changes' = changes - 1
  /\ projects[p] # None
  /\ paths' = [paths EXCEPT ![<<p, x>>] = Assigned(@, "manual")]
  /\ UNCHANGED <<disk, config, scan, waiting, fetching, timer, snapshot, projects, hidden>>

\* DELETE /memory-mesh/projects/:id and /memory-mesh/projects/:id/devices/:id
DeleteRows(p, deviceIds) ==
  /\ changes > 0 /\ changes' = changes - 1
  /\ projects[p] # None
  /\ paths' = [k \in Key |->
                 IF k[1] = p /\ DeviceOf(k[2]) \in deviceIds THEN None ELSE paths[k]]
  /\ UNCHANGED <<disk, config, scan, waiting, fetching, timer, snapshot, hidden>>

UnassignDevice(p, device) ==
  /\ DeleteRows(p, {device})
  /\ UNCHANGED projects

DeleteProject(p) ==
  /\ DeleteRows(p, {"local", Remote})
  /\ projects' = [projects EXCEPT ![p] = None]

\* A directory changes, here or on the other device.
DiskChanges(d, kind) ==
  /\ changes > 0 /\ changes' = changes - 1
  /\ kind \in Kinds[d] /\ disk[d] # kind
  /\ disk' = [disk EXCEPT ![d] = kind]
  /\ hidden' = IF IsFree THEN hidden
                ELSE IF d \in scan.config.roots THEN Key
                ELSE hidden \cup OutOfSight(disk', scan.config)
  /\ UNCHANGED <<config, scan, waiting, fetching, timer, snapshot, projects, paths>>

SnapshotArrives(entries) ==
  /\ changes > 0 /\ changes' = changes - 1
  /\ snapshot' = entries
  /\ UNCHANGED <<disk, config, scan, waiting, fetching, timer, projects, paths, hidden>>

Next ==
  \/ TimerFires \/ SyncRoute \/ ScanBatch \/ ScanEnds
  \/ \E c \in Configs : UpdateSettings(c)
  \/ \E caller \in Caller : SyncEnds(caller)
  \/ \E p \in Project : UpdateProject(p) \/ DeleteProject(p)
  \/ \E k \in UserPaths : AssignPath(k[1], k[2])
  \/ \E p \in Project, device \in {"local", Remote} : UnassignDevice(p, device)
  \/ \E d \in Dir, kind \in UNION {Kinds[x] : x \in Dir} : DiskChanges(d, kind)
  \/ \E entries \in SUBSET {<<Repo, Remote>>} : SnapshotArrives(entries)

\* A scan has a deadline, and so has the call of the relay; the timer fires.
Fairness ==
  /\ WF_vars(ScanEnds) /\ WF_vars(TimerFires)
  /\ \A caller \in Caller : WF_vars(SyncEnds(caller))

Spec == Init /\ [][Next]_vars /\ Fairness
----------------------------------------------------------------------------
(* Properties *)

\* The rows have their types, and calls wait for a scan only while one is
\* under way.
TypeOK ==
  /\ projects \in [Project -> Row \cup {None}]
  /\ paths \in [Key -> PathRow \cup {None}]
  /\ waiting \subseteq Caller /\ fetching \subseteq Caller /\ timer \in BOOLEAN
  /\ (waiting = {}) <=> IsFree

\* A project that the scanner could see all the time does not go stale, even
\* when directories could not be read or the scan stopped early.  (A scan
\* during which a root becomes a project, or ceases to be one, reads two
\* views of the disk, and is excepted.  So are the projects that were read in
\* one batch with the last one that the limit lets in: the scan drops them and
\* does not say so, and what it knew of them goes stale.)
SeenStaysActive ==
  [][\A k \in Key :
       /\ paths[k] # None /\ paths[k].status = "active" /\ k[2] \in Dir
       /\ paths'[k] # None /\ paths'[k].status = "stale"
       => k \in hidden]_vars

\* Settings that stay are scanned with, although the call that saved them may
\* have joined a scan with the old ones.
SettingsAreScanned ==
  \A c \in {x \in Configs : x.enabled} : config = c ~> scan.config = c \/ config # c
=============================================================================
