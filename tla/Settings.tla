------------------------------ MODULE Settings ------------------------------
(***************************************************************************)
(* The settings of a node (server/src/modules/settings/settingsStore.ts,   *)
(* the /settings and /providers routes of server/src/main.ts), the mock    *)
(* provider that one of them allows (server/src/core/stateStore.ts,        *)
(* providerRegistry.ts, dispatcher.ts), and what the desktop application   *)
(* shows and asks (apps/desktop/src/features/settings/SettingsView.tsx).   *)
(*                                                                         *)
(* A setting is on or off here, and all are on by default.  Of the settings*)
(* with members, which are sent as a whole, there is one.  One application *)
(* changes the settings, and always to valid values.  A save of them is a  *)
(* JsonStore.                                                              *)
(***************************************************************************)
EXTENDS Integers, FiniteSets

CONSTANTS
  Keys,             \* settings that are sent by themselves
  Members,          \* members of the setting that is sent as a whole
  Slots,            \* bound: requests at the same time
  MaxMade,          \* bound: requests
  MaxFailures,      \* bound: requests that fail
  MaxRelayed,       \* bound: provider.refresh.request commands of the relay
  None

VARIABLES
  stored,           \* the settings of the node
  shown,            \* the settings that the application has
  busy,             \* busySetting of the view
  requests,         \* the requests under way
  mockEnabled,      \* StateStore.mockEnabled
  mockListed,       \* whether the list of providers has the mock provider
  active,           \* the active provider
  made, failures, relayed,
  chosen,           \* what the user chose last
  doubt,            \* requests crossed, or an answer is missing, since the last
                    \* that was heard by itself
  doubted,          \* whether that has happened
  twice,            \* settings of which two requests were under way at once
  mixed,            \* whether the latest detection overlapped another
  unasked           \* whether the latest that ended was asked for by the relay

vars ==
  <<stored, shown, busy, requests, mockEnabled, mockListed, active, made, failures, relayed,
    chosen, doubt, doubted, twice, mixed, unasked>>

Mock == "mock"
Whole == "members"
Key == Keys \cup {Mock}

\* The settings and members that are on.
Settings == SUBSET (Key \cup Members)

\* What a request changes: a setting, or all members.
Changed(key) == IF key = Whole THEN Members ELSE {key}

\* A request of the view, of the home page (scan), or of the relay.
Request ==
  [does : {"patch", "refresh", "scan", "other", "relay"}, key : Key \cup {Whole, None},
   value : Settings,
   stage : {"sent", "detecting", "done", "failed"}, mock : BOOLEAN,
   answer : Settings \cup {None}, alone : BOOLEAN]

\* What the theorems assume of the constants
SettingsAssumption ==
  /\ {Mock, Whole} \cap Keys = {} /\ Key \cap Members = {}
  /\ None \notin Key \cup {Whole} /\ None \notin Request
  /\ \A value \in Settings : value # None
  /\ {MaxMade, MaxFailures, MaxRelayed} \subseteq Nat

Pending == {s \in Slots : requests[s] # None}

Detecting == {s \in Pending : requests[s].stage = "detecting"}

Busy == Key \cup {Whole, "providerRefresh", "other", None}

TypeOK ==
  /\ stored \in Settings /\ shown \in Settings /\ chosen \in Settings
  /\ busy \in Busy /\ requests \in [Slots -> Request \cup {None}]
  /\ mockEnabled \in BOOLEAN /\ mockListed \in BOOLEAN
  /\ active \in {Mock, "live", None}
  /\ made \in 0..MaxMade /\ failures \in 0..MaxFailures /\ relayed \in 0..MaxRelayed
  /\ doubt \in BOOLEAN /\ doubted \in BOOLEAN /\ twice \subseteq Key \cup {Whole}
  /\ mixed \in BOOLEAN /\ unasked \in BOOLEAN

\* The node and the application have started.
Init ==
  /\ stored = Key \cup Members
  /\ shown = stored /\ chosen = stored
  /\ busy = None /\ requests = [s \in Slots |-> None]
  /\ mockEnabled = TRUE /\ mockListed = TRUE /\ active \in {Mock, "live"}
  /\ made = 0 /\ failures = 0 /\ relayed = 0
  /\ doubt = FALSE /\ doubted = FALSE /\ twice = {} /\ mixed = FALSE /\ unasked = FALSE

nodeVars == <<stored, mockEnabled, mockListed, active, mixed, unasked>>

----------------------------------------------------------------------------
(* The settings page *)

Sent(does, key, value) ==
  \E s \in Slots \ Pending :
    requests' = [t \in Slots |->
      IF t = s THEN [does |-> does, key |-> key, value |-> value, stage |-> "sent",
                     mock |-> FALSE, answer |-> None, alone |-> Pending = {}]
      ELSE IF t \in Pending THEN [requests[t] EXCEPT !.alone = FALSE] ELSE None]

Asks(does, key, value) ==
  /\ made < MaxMade /\ made' = made + 1
  /\ Sent(does, key, value)
  /\ doubt' = (doubt \/ Pending # {}) /\ doubted' = (doubted \/ Pending # {})
  /\ twice' = twice \cup (({key} \ {None}) \cap {requests[s].key : s \in Pending})
  /\ UNCHANGED <<nodeVars, shown, failures, relayed>>

\* updateSetting: a control is disabled while its own setting is the busy one.
UpdateSetting(k) ==
  /\ busy # k /\ busy' = k
  /\ chosen' = (chosen \ {k}) \cup ({k} \ shown)
  /\ Asks("patch", k, {k} \ shown)

\* The members that are shown, with another value of one.
WithMember(m) == ((shown \cap Members) \ {m}) \cup ({m} \ shown)

\* updateNotificationPreference, updateAgentSelectorSetting, updateVoice; some
\* controls of the voices are not disabled while their setting is the busy one.
UpdateMember(m) ==
  /\ busy' = Whole
  /\ chosen' = (chosen \ {m}) \cup ({m} \ shown)
  /\ Asks("patch", Whole, WithMember(m))

RunProviderRefresh ==
  /\ busy = None /\ busy' = "providerRefresh"
  /\ Asks("refresh", None, {})
  /\ UNCHANGED chosen

\* Keys of art generation, the cache, and the security status are busy too.
Other ==
  /\ busy' = "other"
  /\ Asks("other", None, {})
  /\ UNCHANGED chosen

\* The page is left and opened again.
Reopen ==
  /\ busy # None /\ busy' = None
  /\ UNCHANGED <<nodeVars, shown, requests, made, failures, relayed, chosen, doubt, doubted,
                 twice>>

\* handleScanProviders of the home page, which shows no settings.
HandleScanProviders ==
  /\ busy = None
  /\ Asks("scan", None, {})
  /\ UNCHANGED <<busy, chosen>>

----------------------------------------------------------------------------
(* The node *)

Rest ==
  UNCHANGED <<shown, busy, made, chosen, doubt, doubted, twice>>

\* update: the settings of the request come in place of those of the node.
Updated(r) == (stored \ Changed(r.key)) \cup r.value

Becomes(s, r) == requests' = [requests EXCEPT ![s] = r]

\* refreshProviders, up to the detection.
Detect(s, r, mock) ==
  /\ mockEnabled' = mock
  /\ Becomes(s, [r EXCEPT !.stage = "detecting", !.mock = mock])
  /\ mixed' = (Detecting # {})
  /\ UNCHANGED <<mockListed, active, unasked>>

NoDetection == UNCHANGED <<mockEnabled, mockListed, active, mixed, unasked>>

\* PATCH /settings: a change of mockEnabled is answered when the providers are
\* detected, with the settings of before that.
Patch(s) ==
  LET r == requests[s]
      next == Updated(r)
  IN
  /\ r # None /\ r.stage = "sent" /\ r.does = "patch"
  /\ stored' = next
  /\ IF (Mock \in next) # (Mock \in stored)
     THEN Detect(s, [r EXCEPT !.answer = next], Mock \in next)
     ELSE Becomes(s, [r EXCEPT !.stage = "done", !.answer = next]) /\ NoDetection
  /\ UNCHANGED <<failures, relayed>> /\ Rest

\* POST /providers/refresh
Refresh(s) ==
  LET r == requests[s] IN
  /\ r # None /\ r.stage = "sent" /\ r.does \in {"refresh", "scan"}
  /\ Detect(s, r, Mock \in stored)
  /\ UNCHANGED <<stored, failures, relayed>> /\ Rest

\* provider.refresh.request, which names no setting.
Command ==
  /\ relayed < MaxRelayed /\ relayed' = relayed + 1
  /\ \E s \in Slots \ Pending :
       Detect(s, [does |-> "relay", key |-> None, value |-> {}, stage |-> "sent",
                  mock |-> FALSE, answer |-> None, alone |-> FALSE], TRUE)
  /\ UNCHANGED <<stored, failures>> /\ Rest

\* detectProviders has found a live provider or none; chooseActiveProvider
\* looks at the latest mockEnabled.
Detected(s) ==
  LET r == requests[s] IN
  /\ r # None /\ r.stage = "detecting"
  /\ mockListed' = r.mock
  /\ \E live \in BOOLEAN :
       active' = IF live THEN "live" ELSE IF r.mock \/ mockEnabled THEN Mock ELSE None
  /\ unasked' = (r.does = "relay")
  /\ Becomes(s, IF r.does = "relay" THEN None
                ELSE [r EXCEPT !.stage = "done", !.answer = IF @ = None THEN stored ELSE @])
  /\ UNCHANGED <<stored, mockEnabled, failures, relayed, mixed>> /\ Rest

OtherDone(s) ==
  LET r == requests[s] IN
  /\ r # None /\ r.stage = "sent" /\ r.does = "other"
  /\ Becomes(s, [r EXCEPT !.stage = "done"])
  /\ UNCHANGED <<stored, failures, relayed>> /\ NoDetection /\ Rest

\* The request or its answer is lost.
Fail(s) ==
  LET r == requests[s] IN
  /\ r # None /\ r.stage \in {"sent", "done"}
  /\ failures < MaxFailures /\ failures' = failures + 1
  /\ Becomes(s, [r EXCEPT !.stage = "failed"])
  /\ doubt' = TRUE /\ doubted' = TRUE
  /\ UNCHANGED <<nodeVars, shown, busy, made, relayed, chosen, twice>>

----------------------------------------------------------------------------
(* Answers *)

\* onSettingsChange, and the end of being busy, with any setting.
Answered(s) ==
  LET r == requests[s] IN
  /\ r # None /\ r.stage = "done"
  /\ shown' = IF r.does \in {"patch", "refresh"} THEN r.answer ELSE shown
  /\ busy' = IF r.does = "scan" THEN busy ELSE None
  /\ doubt' = (doubt /\ ~(r.alone /\ r.does \in {"patch", "refresh"}))
  /\ Becomes(s, None)
  /\ UNCHANGED <<nodeVars, made, failures, relayed, chosen, doubted, twice>>

Failed(s) ==
  LET r == requests[s] IN
  /\ r # None /\ r.stage = "failed"
  /\ busy' = IF r.does = "scan" THEN busy ELSE None
  /\ Becomes(s, None)
  /\ UNCHANGED <<nodeVars, shown, made, failures, relayed, chosen, doubt, doubted, twice>>

----------------------------------------------------------------------------

Next ==
  \/ \E k \in Key : UpdateSetting(k)
  \/ \E m \in Members : UpdateMember(m)
  \/ RunProviderRefresh \/ Other \/ Reopen \/ HandleScanProviders \/ Command
  \/ \E s \in Slots :
       \/ Patch(s) \/ Refresh(s) \/ Detected(s) \/ OtherDone(s) \/ Fail(s)
       \/ Answered(s) \/ Failed(s)

Spec == Init /\ [][Next]_vars

----------------------------------------------------------------------------
(* Properties *)

Idle == Pending = {}

\* With nothing under way the page shows the settings of the node, unless
\* requests crossed or failed and no other was heard by itself since.
ShowsSettings == Idle /\ ~doubt => shown = stored

\* What the user chose is stored when nothing is under way: a setting that is
\* sent by itself whatever other requests crossed its own, and a member of the
\* one that is sent as a whole when no requests crossed.
ChoicesAreKept ==
  Idle /\ failures = 0 =>
    /\ \A k \in Key \ twice : k \in stored <=> k \in chosen
    /\ ~doubted => stored \cap Members = chosen \cap Members

\* The mock provider is listed if the setting allows it, and is the active one
\* only then, unless detections overlapped or the last one was the relay's.
MockFollowsSetting ==
  Idle /\ ~mixed /\ ~unasked =>
    (mockListed <=> Mock \in stored) /\ (active = Mock => Mock \in stored)
=============================================================================
