---------------------------- MODULE DeviceRoster ----------------------------
(***************************************************************************)
(* What the desktop application shows of a device of the relay, app/       *)
(* App.tsx, features/devices/DevicesView.tsx and data/relay.ts, against    *)
(* the record of the relay, Relay/src/relay/server.ts.  The application    *)
(* learns of it twice: the relay broadcasts its records over the           *)
(* application's socket, and the application polls their list over HTTP.   *)
(*                                                                         *)
(* The record is that of Relay for one device, without its queue.  What a  *)
(* device offers is a number: its providers and, named after them, their   *)
(* agents; 0 is nothing.                                                   *)
(***************************************************************************)
EXTENDS Integers, Sequences

CONSTANTS
  MaxOffers,        \* bound: what a device offers
  MaxChanges,       \* bound: what happens to the device, the socket and the address
  MaxPolls,         \* bound: polls under way
  None

VARIABLES
  record,           \* the relay's record of the device
  late,             \* frames of an earlier connection may still come
  url,              \* the address of the relay, of which one knows the device, None
                    \* before the application is opened
  conn,             \* whether the application's socket is open
  inbox,            \* broadcasts on their way to it
  polls,
  view,             \* relayDevices, of this device
  changes

vars == <<record, late, url, conn, inbox, polls, view, changes>>

Offer == 0..MaxOffers
Status == {"online", "offline"}

Unknown == [known |-> FALSE, status |-> "offline", providers |-> 0, agents |-> 0]

NoRecord == [there |-> FALSE, socket |-> "none", status |-> "offline", providers |-> 0, roster |-> 0]

\* A poll is made for the application or its view of devices, to an address.
NoPoll == [at |-> "none", by |-> "app", url |-> "device", answer |-> Unknown]

Init ==
  /\ record = NoRecord /\ late = FALSE
  /\ url = None /\ conn = FALSE /\ inbox = << >>
  /\ polls = [p \in 1..MaxPolls |-> NoPoll]
  /\ view = Unknown /\ changes = 0

Change == changes < MaxChanges /\ changes' = changes + 1

----------------------------------------------------------------------------
(* The relay *)

\* sendRelayState of the device, if there is one.
Told(now) ==
  IF ~now.there THEN << >>
  ELSE <<[kind |-> "record", status |-> now.status, providers |-> now.providers,
          roster |-> now.roster]>>

Broadcast(envelopes) == inbox' = IF conn /\ url = "device" THEN inbox \o envelopes ELSE inbox

Becomes(now) == record' = now /\ Broadcast(Told(now))

Hello ==
  /\ Change
  /\ Becomes([record EXCEPT !.there = TRUE, !.socket = "open", !.status = "online"])
  /\ late' = (late \/ record.socket = "open")
  /\ UNCHANGED <<url, conn, polls, view>>

\* A frame of the device, or one of a connection that is not its own any more.
MaySend == record.socket = "open" \/ late

Heartbeat ==
  /\ MaySend /\ record.there /\ Change
  /\ Becomes([record EXCEPT !.status = "online"])
  /\ UNCHANGED <<late, url, conn, polls, view>>

\* updateProviderSnapshot, whose roster is that of the providers.
ProviderSnapshot ==
  /\ MaySend /\ record.there /\ Change
  /\ \E p \in Offer :
       Becomes([record EXCEPT !.status = "online", !.providers = p, !.roster = p])
  /\ UNCHANGED <<late, url, conn, polls, view>>

\* The device's roster names its provider, and may be empty.
RosterSnapshot ==
  /\ MaySend /\ record.there /\ Change
  /\ \E a \in Offer :
       /\ record' = [record EXCEPT !.roster = a]
       /\ Broadcast(<<[kind |-> "roster", roster |-> a]>>)
  /\ UNCHANGED <<late, url, conn, polls, view>>

\* The device's own state is passed on; it carries no providers.
StateSnapshot ==
  /\ MaySend /\ Change
  /\ Broadcast(<<[kind |-> "device", status |-> "online"]>>)
  /\ UNCHANGED <<record, late, url, conn, polls, view>>

\* The transport is closing; the relay does not know of it yet.
SocketBreaks ==
  /\ record.socket = "open" /\ Change
  /\ record' = [record EXCEPT !.socket = "closing"]
  /\ UNCHANGED <<late, url, conn, inbox, polls, view>>

SocketClosed ==
  /\ record.socket = "closing"
  /\ Becomes([record EXCEPT !.socket = "none", !.status = "offline"])
  /\ UNCHANGED <<late, url, conn, polls, view, changes>>

\* The watchdog; frames of the connection it closes may still come.
HeartbeatExpires ==
  /\ record.there /\ record.status = "online" /\ Change
  /\ Becomes([record EXCEPT !.socket = "none", !.status = "offline"])
  /\ late' = (late \/ record.socket = "open")
  /\ UNCHANGED <<url, conn, polls, view>>

\* A pairing code is used again by another identity, and the record deleted.
Deleted ==
  /\ record.there /\ Change
  /\ record' = NoRecord /\ late' = (late \/ record.socket = "open")
  /\ UNCHANGED <<url, conn, inbox, polls, view>>

----------------------------------------------------------------------------
(* The socket of the application *)

\* A socket to the relay that knows the device gets its records first.
Connect ==
  /\ url # None /\ ~conn /\ conn' = TRUE
  /\ inbox' = IF url = "device" THEN Told(record) ELSE << >>
  /\ UNCHANGED <<record, late, url, polls, view, changes>>

Disconnect ==
  /\ conn /\ Change /\ conn' = FALSE /\ inbox' = << >>
  /\ UNCHANGED <<record, late, url, polls, view>>

\* applyRelayEnvelope; an empty list of providers leaves those that were shown.
Applied(e) ==
  LET Known(status, providers) ==
        [known |-> TRUE, status |-> status, providers |-> providers,
         agents |-> IF providers # 0 THEN providers ELSE view.agents]
      WithRoster(shown, roster) == IF roster # 0 THEN [shown EXCEPT !.agents = roster] ELSE shown
  IN
  CASE e.kind = "record" ->
         WithRoster(Known(e.status, IF e.providers # 0 THEN e.providers ELSE view.providers), e.roster)
    [] e.kind = "device" -> Known(e.status, view.providers)
    [] e.kind = "roster" -> IF view.known THEN [view EXCEPT !.agents = e.roster] ELSE view

EnvelopeArrives ==
  /\ inbox # << >> /\ inbox' = Tail(inbox)
  /\ view' = Applied(Head(inbox))
  /\ UNCHANGED <<record, late, url, conn, polls, changes>>

----------------------------------------------------------------------------
(* Polls *)

Poll(p, by) ==
  /\ url # None /\ polls[p].at = "none"
  /\ polls' = [polls EXCEPT ![p] = [NoPoll EXCEPT !.at = "asked", !.by = by, !.url = url]]
  /\ UNCHANGED <<record, late, url, conn, inbox, view, changes>>

\* listRelayDevices takes a device for online whose socket is open.
Listed(of) ==
  IF ~(of = "device" /\ record.there) THEN Unknown
  ELSE [known |-> TRUE, status |-> IF record.socket = "open" THEN "online" ELSE "offline",
        providers |-> record.providers, agents |-> record.providers]

PollAnswered(p) ==
  /\ polls[p].at = "asked"
  /\ polls' = [polls EXCEPT ![p].at = "answered", ![p].answer = Listed(polls[p].url)]
  /\ UNCHANGED <<record, late, url, conn, inbox, view, changes>>

\* Faulty: an empty list leaves the devices that were shown.
Replaced_Kept(answer) == IF answer.known THEN answer ELSE view

\* The list replaces the one that was shown, whatever has come meanwhile.
Replaced(answer) == answer

PollArrives(p) ==
  /\ polls[p].at = "answered"
  /\ polls' = [polls EXCEPT ![p] = NoPoll]
  /\ view' = Replaced(polls[p].answer)
  /\ UNCHANGED <<record, late, url, conn, inbox, changes>>

PollFails(p) ==
  /\ polls[p].at = "asked"
  /\ polls' = [polls EXCEPT ![p] = NoPoll]
  /\ UNCHANGED <<record, late, url, conn, inbox, view, changes>>

Open ==
  /\ url = None /\ url' \in {"device", "other"}
  /\ UNCHANGED <<record, late, conn, inbox, polls, view, changes>>

\* The effects of App: the socket is closed, the polls of the application are
\* cancelled, those of the view of devices are not.  The view, if it is open,
\* forgets the devices.
ChangeUrl ==
  /\ url # None /\ Change /\ url' = IF url = "device" THEN "other" ELSE "device"
  /\ conn' = FALSE /\ inbox' = << >>
  /\ polls' = [p \in DOMAIN polls |-> IF polls[p].by = "app" THEN NoPoll ELSE polls[p]]
  /\ view' \in {view, Unknown}
  /\ UNCHANGED <<record, late>>

\* The effect of the view of devices, when it is opened.
OpenDevices(p) ==
  /\ url # None /\ Change /\ polls[p].at = "none"
  /\ polls' = [polls EXCEPT ![p] = [NoPoll EXCEPT !.at = "asked", !.by = "devices", !.url = url]]
  /\ view' = Unknown
  /\ UNCHANGED <<record, late, url, conn, inbox>>

----------------------------------------------------------------------------

Next ==
  \/ Hello \/ Heartbeat \/ ProviderSnapshot \/ RosterSnapshot \/ StateSnapshot
  \/ SocketBreaks \/ SocketClosed \/ HeartbeatExpires \/ Deleted
  \/ Connect \/ Disconnect \/ EnvelopeArrives \/ Open \/ ChangeUrl
  \/ \E p \in DOMAIN polls :
       \/ Poll(p, "app") \/ Poll(p, "devices") \/ OpenDevices(p)
       \/ PollAnswered(p) \/ PollArrives(p) \/ PollFails(p)

\* The application polls every 8 s, the list is answered again and again, and
\* what is sent over an open socket arrives.
Fairness ==
  /\ WF_vars(SocketClosed) /\ WF_vars(EnvelopeArrives)
  /\ \A p \in 1..MaxPolls :
       /\ WF_vars(Poll(p, "app"))
       /\ SF_vars(PollAnswered(p)) /\ WF_vars(PollArrives(p))

Spec == Init /\ [][Next]_vars /\ Fairness

----------------------------------------------------------------------------
(* Properties *)

TypeOK ==
  /\ record \in [there : BOOLEAN, socket : {"none", "open", "closing"}, status : Status,
                 providers : Offer, roster : Offer]
  /\ url \in {"device", "other", None} /\ {late, conn} \subseteq BOOLEAN
  /\ Len(inbox) <= MaxChanges + 2
  /\ view \in [known : BOOLEAN, status : Status, providers : Offer, agents : Offer]
  /\ \A p \in DOMAIN polls : polls[p].at \in {"none", "asked", "answered"}
  /\ ~record.there => record = NoRecord

\* When nothing happens to a device any more, the application comes to show it
\* as it is, and goes on to: broadcasts and polls that change places, a device
\* that was deleted, and answers of another relay are forgotten.
ViewCatchesUp == <>[](view = Listed(url))
=============================================================================
