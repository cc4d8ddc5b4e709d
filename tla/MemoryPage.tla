----------------------------- MODULE MemoryPage -----------------------------
(***************************************************************************)
(* The memories on the page of the Memory Mesh                             *)
(* (apps/desktop/src/features/memory/MemoryView.tsx): the overview, the    *)
(* search with its delay, and the editor, which saves a memory as it was   *)
(* opened.  Agents change memories on their own.                           *)
(*                                                                         *)
(* A memory is one of some texts; which of them a search matches is left   *)
(* out, so that the editor opens any memory.  Every change of the page,    *)
(* and every sync of the discovery, is followed by a request of the        *)
(* overview.  The page may be left and opened again while requests are     *)
(* under way.                                                              *)
(***************************************************************************)
EXTENDS Integers

CONSTANTS
  Memories, Texts, Queries,
  Slots,            \* bound: requests under way at the same time
  MaxMade,          \* bound: requests that the user makes
  MaxSteps,         \* bound: changes of the query and the tab, openings of the page, and
                    \* changes that agents make
  MaxFailures,      \* bound: requests that fail
  None

VARIABLES
  stored,           \* the memories of the node
  overview,         \* the memories in the overview, and the number of its read
  tab, query, timer, results, editor, busy,
  requests,
  made, steps, failures,
  reads,            \* how many overviews were read
  ours,             \* the memories that were changed last by the page
  failed            \* the requests, by what they do, of which one failed

vars ==
  <<stored, overview, tab, query, timer, results, editor, busy, requests, made, steps,
    failures, reads, ours, failed>>

Rows == [Memories -> Texts \cup {None}]
Tab == {"recent", "global", "projects"}
Does == {"sync", "overview", "search", "save", "remove"}

\* spins: whether the page shows that it is busy until the request has ended;
\* cancelled: whether the page no longer hears the answer.
Request ==
  [does : Does, spins : BOOLEAN, id : Memories \cup {"new", None}, row : Texts \cup {None},
   query : Queries \cup {None}, tab : Tab, answered : BOOLEAN, rows : Rows \cup {None},
   read : Nat, cancelled : BOOLEAN]

TypeOK ==
  /\ stored \in Rows
  /\ overview = None \/ overview \in [rows : Rows, read : 1..reads]
  /\ tab \in Tab \cup {None} /\ query \in Queries \cup {None} /\ timer \in BOOLEAN
  /\ results = None \/ results \in [query : Queries, tab : Tab]
  /\ editor \in Memories \cup {"new", None}
  /\ busy \in BOOLEAN
  /\ \A s \in Slots : requests[s] = None \/ requests[s] \in Request
  /\ made \in 0..MaxMade /\ steps \in 0..MaxSteps
  /\ failures \in 0..MaxFailures /\ ours \subseteq Memories /\ failed \subseteq Does

\* What the theorems assume of the constants
MemoryPageAssumption ==
  /\ "new" \notin Memories /\ None \notin Memories \cup Queries \cup Request \cup {"new"}
  /\ None \notin [rows : Rows, read : Nat] \cup [query : Queries, tab : Tab]
  /\ {MaxMade, MaxSteps, MaxFailures} \subseteq Nat

NewRequest(does, spins, id, row) ==
  [does |-> does, spins |-> spins, id |-> id, row |-> row, query |-> None, tab |-> "recent",
   answered |-> FALSE, rows |-> None, read |-> 0, cancelled |-> FALSE]

Free == {s \in Slots : requests[s] = None}

Sent(request) ==
  /\ Free # {} /\ requests' = [requests EXCEPT ![CHOOSE s \in Free : TRUE] = request]

\* The page was not opened.
Init ==
  /\ stored \in Rows /\ overview = None /\ tab = None /\ query = None
  /\ timer = FALSE /\ results = None /\ editor = None /\ busy = FALSE
  /\ requests = [s \in Slots |-> None]
  /\ made = 0 /\ steps = 0 /\ failures = 0 /\ reads = 0
  /\ ours = {} /\ failed = {}

----------------------------------------------------------------------------
(* The search *)

Cancelled == [s \in Slots |->
  IF requests[s] # None /\ requests[s].does = "search"
  THEN [requests[s] EXCEPT !.cancelled = TRUE] ELSE requests[s]]

\* The effect of the query and the tab; the editor covers both.
SearchFor(q, t) ==
  /\ editor = None /\ <<q, t>> # <<query, tab>>
  /\ steps < MaxSteps /\ steps' = steps + 1
  /\ query' = q /\ tab' = t
  /\ requests' = Cancelled
  /\ timer' = (t # "projects" /\ q # None)
  /\ results' = IF timer' THEN results ELSE None
  /\ UNCHANGED <<stored, overview, editor, busy, made, failures, reads, ours, failed>>

TimerFires ==
  /\ timer /\ timer' = FALSE
  /\ Sent([NewRequest("search", FALSE, None, None) EXCEPT !.query = query, !.tab = tab])
  /\ UNCHANGED <<stored, overview, tab, query, results, editor, busy, made, steps,
                 failures, reads, ours, failed>>

----------------------------------------------------------------------------
(* The user *)

Asks(does, spins, id, row) ==
  /\ made < MaxMade /\ made' = made + 1
  /\ Sent(NewRequest(does, spins, id, row))

\* The button is disabled while the page is busy; the settings of the discovery, among
\* the projects, sync after they were saved, too.
SyncDiscovery ==
  /\ ~busy \/ tab = "projects"
  /\ editor = None /\ busy' = TRUE
  /\ Asks("sync", TRUE, None, None)
  /\ UNCHANGED <<stored, overview, tab, query, timer, results, editor, steps, failures,
                 reads, ours, failed>>

\* The editor of a memory, or of a new one.  What it shows is not read again.
OpenEditor ==
  /\ editor = None /\ tab # "projects"
  /\ editor' \in Memories \cup {"new"}
  /\ UNCHANGED <<stored, overview, tab, query, timer, results, busy, requests, made, steps,
                 failures, reads, ours, failed>>

CloseEditor ==
  /\ editor # None /\ editor' = None
  /\ UNCHANGED <<stored, overview, tab, query, timer, results, busy, requests, made, steps,
                 failures, reads, ours, failed>>

\* Bound: a new memory has a free id.
Room ==
  /\ \E id \in Memories : stored[id] = None
  /\ \A s \in Slots : ~(requests[s] # None /\ requests[s].id = "new")

\* All of the memory is sent as it is in the editor, which stays open.
SaveOrRemove ==
  /\ editor # None /\ (editor = "new" => Room)
  /\ \/ \E row \in Texts : Asks("save", FALSE, editor, row)
     \/ editor # "new" /\ Asks("remove", FALSE, editor, None)
  /\ UNCHANGED <<stored, overview, tab, query, timer, results, editor, busy, steps,
                 failures, reads, ours, failed>>

IsChange(s) ==
  requests[s] # None /\ requests[s].does \in {"save", "remove"} /\ ~requests[s].answered

\* The page is opened, which syncs the discovery, or left and opened again: what is
\* under way no longer reaches it, but what it changes is changed.
Open ==
  /\ steps < MaxSteps /\ steps' = steps + 1
  /\ overview' = None /\ tab' = "recent" /\ query' = None /\ timer' = FALSE
  /\ results' = None /\ editor' = None /\ busy' = TRUE
  /\ \E s \in {r \in Slots : ~IsChange(r)} : requests' = [r \in Slots |->
       IF r = s THEN NewRequest("sync", TRUE, None, None)
       ELSE IF IsChange(r) THEN [requests[r] EXCEPT !.cancelled = TRUE] ELSE None]
  /\ UNCHANGED <<stored, made, failures, reads, ours, failed>>

----------------------------------------------------------------------------
(* The node *)

Write(id, row, by) ==
  /\ stored' = [stored EXCEPT ![id] = row]
  /\ ours' = IF by = "page" THEN ours \cup {id} ELSE ours \ {id}

\* A request is served: what is changed must be there, and a new memory has a new id.
Serve(s) ==
  LET r == requests[s] IN
  /\ r # None /\ ~r.answered
  /\ requests' = IF r.cancelled /\ IsChange(s) THEN [requests EXCEPT ![s] = None] ELSE
     [requests EXCEPT ![s].answered = TRUE,
       ![s].rows = IF r.does = "overview" THEN stored ELSE None,
       ![s].read = IF r.does = "overview" THEN reads + 1 ELSE 0]
  /\ reads' = IF r.does = "overview" THEN reads + 1 ELSE reads
  /\ IF r.does \in {"save", "remove"}
     THEN \E id \in Memories :
            /\ IF r.id = "new" THEN stored[id] = None ELSE id = r.id /\ stored[id] # None
            /\ Write(id, r.row, IF r.cancelled THEN "agent" ELSE "page")
     ELSE UNCHANGED <<stored, ours>>
  /\ UNCHANGED <<overview, tab, query, timer, results, editor, busy, made, steps, failures,
                 failed>>

AgentWrites ==
  /\ steps < MaxSteps /\ steps' = steps + 1
  /\ \E id \in Memories, row \in Texts \cup {None} :
       row # stored[id] /\ (stored[id] = None => Room) /\ Write(id, row, "agent")
  /\ UNCHANGED <<overview, tab, query, timer, results, editor, busy, requests, made,
                 failures, reads, failed>>

----------------------------------------------------------------------------
(* Answers *)

\* onChanged, and the refresh of syncDiscovery
Refreshed(s) == [requests EXCEPT ![s] = NewRequest("overview", requests[s].spins, None, None)]

\* An editor closes with the answer to a change, whichever of its kind is open.
Closed(r) == IF (editor = "new") <=> (r.id = "new") THEN None ELSE editor

Answered(s) ==
  LET r == requests[s] IN
  /\ r # None /\ r.answered
  /\ requests' = IF r.does \in {"sync", "save", "remove"} THEN Refreshed(s)
                 ELSE [requests EXCEPT ![s] = None]
  /\ overview' = IF r.does = "overview" THEN [rows |-> r.rows, read |-> r.read] ELSE overview
  /\ results' = IF r.does = "search" /\ ~r.cancelled
                THEN [query |-> r.query, tab |-> r.tab] ELSE results
  /\ editor' = IF r.does \in {"save", "remove"} THEN Closed(r) ELSE editor
  /\ busy' = (busy /\ ~(r.does = "overview" /\ r.spins))
  /\ UNCHANGED <<stored, tab, query, timer, made, steps, failures, reads, ours, failed>>

\* A request fails, or its answer is lost.  What a sync does is over, then.
Fail(s) ==
  LET r == requests[s] IN
  /\ r # None /\ failures < MaxFailures /\ failures' = failures + 1
  /\ requests' = [requests EXCEPT ![s] = None]
  /\ failed' = IF r.cancelled THEN failed ELSE failed \cup {r.does}
  /\ busy' = (busy /\ ~r.spins)
  /\ UNCHANGED <<stored, overview, tab, query, timer, results, editor, made, steps, reads,
                 ours>>

\* What is changed is not there any more.
Refused(s) ==
  LET r == requests[s] IN
  /\ r # None /\ ~r.answered /\ r.does \in {"save", "remove"} /\ r.id # "new"
  /\ stored[r.id] = None
  /\ requests' = [requests EXCEPT ![s] = None]
  /\ UNCHANGED <<stored, overview, tab, query, timer, results, editor, busy, made, steps,
                 failures, reads, ours, failed>>

----------------------------------------------------------------------------

Next ==
  \/ Open
  \/ /\ tab # None
     /\ \/ \E q \in Queries \cup {None} : SearchFor(q, tab)
        \/ \E t \in Tab : SearchFor(query, t)
        \/ TimerFires \/ SyncDiscovery \/ OpenEditor \/ CloseEditor \/ SaveOrRemove
        \/ AgentWrites
  \/ \E s \in Slots : Serve(s) \/ Answered(s) \/ Fail(s) \/ Refused(s)

\* Timers fire, and requests are answered.
Fairness ==
  /\ WF_vars(TimerFires)
  /\ \A s \in Slots : WF_vars(Serve(s) \/ Answered(s) \/ Refused(s))

Spec == Init /\ [][Next]_vars

FairSpec == Spec /\ Fairness

----------------------------------------------------------------------------
(* Properties *)

Live(s) == requests[s] # None /\ ~requests[s].cancelled

\* When no search is to come, what was found is what is searched for now, whatever
\* order answers came in, unless a search failed.
FoundAsSearched ==
  /\ results # None => query # None /\ tab # "projects"
  /\ (/\ results # None /\ ~timer /\ "search" \notin failed
      /\ \A s \in Slots : ~(Live(s) /\ requests[s].does = "search"))
     => results.query = query /\ results.tab = tab

\* When nothing is under way, the overview has every change of the page that no agent
\* has changed again, unless a request failed or an older overview was answered later.
ChangesAreShown ==
  (/\ overview # None /\ overview.read = reads /\ failed = {}
   /\ \A s \in Slots : requests[s] = None)
  => \A id \in ours : overview.rows[id] = stored[id]

\* A search comes to show what it found, unless it fails or another takes its place.
SearchIsShown ==
  \A q \in Queries, t \in Tab \ {"projects"} :
    (query = q /\ tab = t)
    ~> \/ results # None /\ results.query = q /\ results.tab = t
       \/ query # q \/ tab # t \/ "search" \in failed
=============================================================================
