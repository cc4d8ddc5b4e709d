---------------------------- MODULE PairingWizard ----------------------------
(***************************************************************************)
(* How the desktop application pairs a device with a relay: the page of    *)
(* devices asks for a code, polls what becomes of it and approves it       *)
(* (apps/desktop/src/features/devices/DevicesView.tsx), and its wizard     *)
(* leads from step to step (features/connection/AgentConnectionWizard.tsx).*)
(*                                                                         *)
(* Of the relay there are its codes, by the relay that made them, each with*)
(* one claimed device; Relay has the rest.  What a poll, a render or an    *)
(* effect does with the state it was made for is done in one step with the *)
(* change of that state.  Requests that the page sends to a device are left*)
(* out, and so is the choice between instructions for Windows and Linux.   *)
(***************************************************************************)
EXTENDS Integers, FiniteSets

CONSTANTS
  Relays,           \* addresses of relays
  Codes,            \* bound: codes
  Devices,
  Preview,          \* the device that "Dev Claim" names
  Slots,            \* bound: requests at the same time
  MaxMade,          \* bound: what the user asks for
  MaxFailures,      \* bound: requests that fail
  None

\* What the theorems assume of the constants
WizardAssumption ==
  Preview \in Devices /\ None \notin Devices /\ MaxMade \in Nat /\ MaxFailures \in Nat

VARIABLES
  relay,            \* the codes
  url,              \* the relay of the page
  rows,             \* the devices that the page lists
  pairing,          \* relayPairing
  named,            \* claimedDeviceName
  open,             \* wizardOpen
  step, existing,   \* the step, and whether the platform is "existing"
  selected,         \* selectedDeviceId of the wizard
  requested,        \* requestedAfterApproval
  requests,         \* the requests under way
  made, failures,
  reclaimed         \* codes that two devices claimed

vars ==
  <<relay, url, rows, pairing, named, open, step, existing, selected, requested, requests,
    made, failures, reclaimed>>

Maybe == Devices \cup {None}

\* A code; approver is the device that was shown when the user approved it.
Session ==
  [at : Relays \cup {None}, state : {"free", "created", "claimed", "approved", "expired"},
   device : Maybe, approver : Maybe]

Pairing == [code : Codes, status : {"created", "claimed", "approved"}, device : Maybe]

\* A request, and what was answered; gone if the page was left.
Request ==
  [does : {"create", "poll", "approve", "claim"}, at : Relays, code : Codes \cup {None},
   seen : Maybe, stage : {"sent", "done", "failed"}, answer : Pairing \cup {None},
   gone : BOOLEAN]

TypeOK ==
  /\ relay \in [Codes -> Session] /\ url \in Relays /\ rows \subseteq Devices
  /\ pairing \in Pairing \cup {None} /\ named \in Maybe
  /\ open \in BOOLEAN /\ step \in {"platform", "pairing", "verify", "ready"}
  /\ existing \in BOOLEAN /\ selected \in Maybe /\ requested \in Maybe
  /\ requests \in [Slots -> Request \cup {None}]
  /\ made \in 0..MaxMade /\ failures \in 0..MaxFailures /\ reclaimed \subseteq Codes

Init ==
  /\ relay = [c \in Codes |-> [at |-> None, state |-> "free", device |-> None,
                               approver |-> None]]
  /\ url \in Relays /\ rows = {} /\ pairing = None /\ named = None
  /\ open = FALSE /\ step = "platform" /\ existing = FALSE
  /\ selected = None /\ requested = None
  /\ requests = [s \in Slots |-> None]
  /\ made = 0 /\ failures = 0 /\ reclaimed = {}

wizard == <<step, existing, selected, requested>>
page == <<url, rows, pairing, named, open, wizard>>

Approved == pairing # None /\ pairing.status = "approved"

\* selectedDevice
SelectedDevice ==
  IF selected \in rows THEN selected
  ELSE IF Approved /\ pairing.device \in rows THEN pairing.device
  ELSE IF rows = {} THEN None ELSE CHOOSE d \in rows : TRUE

\* resolveStep
CurrentStep ==
  IF step = "ready" THEN "ready"
  ELSE IF step = "verify" \/ (existing /\ SelectedDevice # None) THEN "verify"
  ELSE IF step = "platform" /\ pairing = None THEN "platform"
  ELSE IF Approved /\ SelectedDevice # None THEN "verify" ELSE "pairing"

At(current) == open /\ CurrentStep = current

----------------------------------------------------------------------------
(* The page *)

Free == {s \in Slots : requests[s] = None}

Sent(does, code, seen) ==
  \E s \in Free :
    requests' = [requests EXCEPT ![s] =
      [does |-> does, at |-> url, code |-> code, seen |-> seen, stage |-> "sent",
       answer |-> None, gone |-> FALSE]]

\* The polls of an effect that is cleaned up are not heard.
Uncancelled == [s \in Slots |-> IF requests[s] # None /\ requests[s].does = "poll"
                                THEN None ELSE requests[s]]

Asks == made < MaxMade /\ made' = made + 1

\* createCode, by which the wizard goes to its second step
CreateCode ==
  /\ At("pairing") \/ (At("platform") /\ ~existing)
  /\ step' = "pairing"
  /\ Asks /\ Sent("create", None, None)
  /\ UNCHANGED <<relay, url, rows, pairing, named, open, existing, selected, requested,
                 failures, reclaimed>>

\* The button is disabled unless a device has claimed the code.
CanApprove == pairing # None /\ pairing.status = "claimed"

\* handleApprovePairing
Approve ==
  /\ At("pairing") /\ CanApprove
  /\ Asks /\ Sent("approve", pairing.code, named)
  /\ UNCHANGED <<page, relay, failures, reclaimed>>

\* handleDevClaimPairing
DevClaim ==
  /\ At("pairing") /\ pairing # None
  /\ Asks /\ Sent("claim", pairing.code, None)
  /\ UNCHANGED <<page, relay, failures, reclaimed>>

\* Faulty: polls stop when a device has claimed the code.
Poll_UntilClaimed ==
  /\ open /\ pairing # None /\ pairing.status = "created"
  /\ Sent("poll", pairing.code, None)
  /\ UNCHANGED <<page, relay, made, failures, reclaimed>>

\* The effect of an open wizard, at once and every two seconds
Poll ==
  /\ open /\ pairing # None /\ ~Approved
  /\ Sent("poll", pairing.code, None)
  /\ UNCHANGED <<page, relay, made, failures, reclaimed>>

\* openConnectionWizard, and onClose
OpenOrClose ==
  /\ open' = ~open
  /\ requests' = Uncancelled
  /\ UNCHANGED <<relay, url, rows, pairing, named, wizard, made, failures, reclaimed>>

ChoosePlatform ==
  /\ At("platform") /\ existing' = ~existing
  /\ UNCHANGED <<relay, url, rows, pairing, named, open, step, selected, requested, requests,
                 made, failures, reclaimed>>

\* selectExistingDevice
SelectExistingDevice(d) ==
  /\ At("verify") /\ d \in rows /\ d # selected
  /\ existing' = TRUE /\ selected' = d /\ step' = "verify"
  /\ UNCHANGED <<relay, url, rows, pairing, named, open, requested, requests, made, failures,
                 reclaimed>>

\* "Continue To Ready"
Ready ==
  /\ At("verify") /\ SelectedDevice # None /\ step' = "ready"
  /\ UNCHANGED <<relay, url, rows, pairing, named, open, existing, selected, requested,
                 requests, made, failures, reclaimed>>

\* Another relay is set; the name of the device that claimed a code stays.
ChangeRelay ==
  /\ Asks /\ url' \in Relays \ {url}
  /\ rows' = {} /\ pairing' = None /\ requests' = Uncancelled
  /\ UNCHANGED <<relay, named, open, wizard, failures, reclaimed>>

\* The page is left; what it asked for is done, and the answers are not heard.
Leave ==
  /\ pairing' = None /\ named' = None /\ open' = FALSE
  /\ step' = "platform" /\ existing' = FALSE /\ selected' = None /\ requested' = None
  /\ requests' = [s \in Slots |->
       IF Uncancelled[s] = None THEN None ELSE [requests[s] EXCEPT !.gone = TRUE]]
  /\ UNCHANGED <<relay, url, rows, made, failures, reclaimed>>

\* refreshRelayDevices, and the list that the relay sends
RefreshRelayDevices ==
  /\ rows' = {relay[c].device : c \in {k \in Codes : relay[k].at = url
                                                     /\ relay[k].approver # None}}
  /\ UNCHANGED <<relay, url, pairing, named, open, wizard, requests, made, failures,
                 reclaimed>>

----------------------------------------------------------------------------
(* Effects of the wizard *)

SelectFirst ==
  /\ open /\ rows # {} /\ selected = None
  /\ selected' = CHOOSE d \in rows : TRUE
  /\ UNCHANGED <<relay, url, rows, pairing, named, open, step, existing, requested, requests,
                 made, failures, reclaimed>>

AfterApproval ==
  /\ open /\ Approved /\ requested # pairing.device
  /\ requested' = pairing.device /\ selected' = pairing.device /\ step' = "verify"
  /\ UNCHANGED <<relay, url, rows, pairing, named, open, existing, requests, made, failures,
                 reclaimed>>

----------------------------------------------------------------------------
(* The relay *)

Public(c, session) == [code |-> c, status |-> session.state, device |-> session.device]

Valid(c) == relay[c].state \in {"created", "claimed", "approved"}

\* claimPairingSession: by the device itself, or by "Dev Claim"
Claimable(c) == relay[c].state \in {"created", "claimed"}

ClaimPairingSession(c, d) ==
  /\ relay' = [relay EXCEPT ![c].state = "claimed", ![c].device = d]
  /\ reclaimed' = IF relay[c].device \in {None, d} THEN reclaimed ELSE reclaimed \cup {c}

NodeClaims(c, d) ==
  /\ Claimable(c) /\ relay[c].device # d /\ ClaimPairingSession(c, d)
  /\ UNCHANGED <<page, requests, made, failures>>

Expire(c) ==
  /\ Valid(c) /\ relay' = [relay EXCEPT ![c].state = "expired"]
  /\ UNCHANGED <<page, requests, made, failures, reclaimed>>

Replies(s, answer) ==
  requests' = [requests EXCEPT ![s].stage = IF answer = None THEN "failed" ELSE "done",
                               ![s].answer = answer]

\* The relay that a request was sent to does not know the codes of another.
Known(r) == relay[r.code].at = r.at /\ Valid(r.code)

Serve(s) ==
  LET r == requests[s] IN
  /\ r # None /\ r.stage = "sent"
  /\ \/ /\ r.does = "create"
        /\ \E c \in Codes :
             /\ relay[c].state = "free"
             /\ relay' = [relay EXCEPT ![c].at = r.at, ![c].state = "created"]
             /\ Replies(s, Public(c, relay'[c]))
        /\ UNCHANGED reclaimed
     \/ /\ r.does = "poll"
        /\ Replies(s, IF Known(r) THEN Public(r.code, relay[r.code]) ELSE None)
        /\ UNCHANGED <<relay, reclaimed>>
     \/ /\ r.does = "approve" /\ Known(r) /\ relay[r.code].device # None
        /\ relay' = [relay EXCEPT ![r.code].state = "approved",
                                  ![r.code].approver = IF @ = None THEN r.seen ELSE @]
        /\ Replies(s, Public(r.code, relay'[r.code]))
        /\ UNCHANGED reclaimed
     \/ /\ r.does = "claim" /\ Known(r) /\ Claimable(r.code)
        /\ ClaimPairingSession(r.code, Preview)
        /\ Replies(s, Public(r.code, relay'[r.code]))
     \/ /\ \/ r.does = "approve" /\ ~(Known(r) /\ relay[r.code].device # None)
           \/ r.does = "claim" /\ ~(Known(r) /\ Claimable(r.code))
        /\ Replies(s, None)
        /\ UNCHANGED <<relay, reclaimed>>
  /\ UNCHANGED <<page, made, failures>>

\* The request or its answer is lost.
Fail(s) ==
  /\ requests[s] # None /\ requests[s].stage # "failed"
  /\ failures < MaxFailures /\ failures' = failures + 1
  /\ requests' = [requests EXCEPT ![s].stage = "failed"]
  /\ UNCHANGED <<page, relay, made, reclaimed>>

----------------------------------------------------------------------------
(* Answers *)

\* Faulty: a code is asked for, and the name of the last device stays.
NameOf_Kept(r) == IF r.does = "create" THEN named ELSE r.answer.device

NameOf(r) == r.answer.device

\* The polls go on if neither the code nor its status is another.
PollsGoOn(new) ==
  pairing # None /\ pairing.code = new.code /\ pairing.status = new.status

Answered(s) ==
  LET r == requests[s]
      left == IF PollsGoOn(r.answer) THEN requests ELSE Uncancelled
  IN
  /\ r # None /\ r.stage = "done" /\ ~r.gone
  /\ pairing' = r.answer /\ named' = NameOf(r)
  /\ requests' = [left EXCEPT ![s] = None]
  /\ UNCHANGED <<relay, url, rows, open, wizard, made, failures, reclaimed>>

\* An error is shown, and nothing else changes.
NotHeard(s) ==
  LET r == requests[s] IN
  /\ r # None /\ (r.stage = "failed" \/ (r.stage = "done" /\ r.gone))
  /\ requests' = [requests EXCEPT ![s] = None]
  /\ UNCHANGED <<page, relay, made, failures, reclaimed>>

----------------------------------------------------------------------------

Next ==
  \/ CreateCode \/ Approve \/ DevClaim \/ Poll \/ OpenOrClose \/ ChoosePlatform \/ Ready
  \/ ChangeRelay \/ Leave \/ RefreshRelayDevices \/ SelectFirst \/ AfterApproval
  \/ \E d \in Devices : SelectExistingDevice(d)
  \/ \E c \in Codes : Expire(c) \/ \E d \in Devices : NodeClaims(c, d)
  \/ \E s \in Slots : Serve(s) \/ Fail(s) \/ Answered(s) \/ NotHeard(s)

\* The page polls every two seconds and the list of devices is sent at every change;
\* the relay answers, and effects run.
Fairness ==
  /\ WF_vars(Poll) /\ WF_vars(RefreshRelayDevices) /\ WF_vars(SelectFirst \/ AfterApproval)
  /\ \A s \in Slots : WF_vars(Serve(s) \/ Answered(s) \/ NotHeard(s))

Spec == Init /\ [][Next]_vars

FairSpec == Spec /\ Fairness

----------------------------------------------------------------------------
(* Properties *)

\* What is shown of a code is of one answer: a new code never goes with the device
\* of an earlier one.
ShownTogether == pairing # None => named = pairing.device

\* A code is never shown further on than it is, whatever order answers come in.
NotAheadOfRelay ==
  pairing # None =>
    /\ pairing.status = "claimed" => relay[pairing.code].state # "created"
    /\ pairing.status = "approved" => relay[pairing.code].state \in {"approved", "expired"}

\* The device that the relay approved is the one that was shown to the user who
\* approved it, unless two devices claimed its code.
ApprovedAsShown ==
  \A c \in Codes \ reclaimed :
    relay[c].state = "approved" => relay[c].device = relay[c].approver

\* A device that claims the code of an open wizard comes to be shown there.
ClaimedIsShown ==
  \A c \in Codes : \A d \in Devices :
    (open /\ pairing # None /\ pairing.code = c /\ relay[c].at = url
       /\ relay[c].state = "claimed" /\ relay[c].device = d)
    ~> \/ named = d \/ ~open \/ pairing = None \/ pairing.code # c
       \/ relay[c].state # "claimed" \/ relay[c].device # d

\* An approved device comes to be the one that the open wizard verifies.
ApprovedIsVerified ==
  \A d \in Devices :
    (open /\ Approved /\ pairing.device = d /\ relay[pairing.code].at = url)
    ~> \/ ~open \/ ~Approved \/ pairing.device # d
       \/ requested = d /\ (selected = d => At("verify") /\ SelectedDevice = d)
       \/ step = "ready"
=============================================================================
