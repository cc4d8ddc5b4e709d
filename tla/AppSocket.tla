----------------------------- MODULE AppSocket -----------------------------
(***************************************************************************)
(* Chat requests of the desktop application over the relay, data/relay.ts: *)
(* the shared connection of connectRelayApp with openWaiters, pendingChats *)
(* and requestChat, and sendRelayChat, which the application uses when it  *)
(* has no connection and which tries one relay address after the other.    *)
(*                                                                         *)
(* Relay and node are external: a request that was sent may be carried     *)
(* out, once for its id (ExecuteOnce), and the reply may reach the sockets *)
(* that are open.  Which address the shared connection uses, the           *)
(* delays, and the records of devices are left out.                        *)
(***************************************************************************)
EXTENDS Integers, FiniteSets

CONSTANTS
  Requests,         \* chat requests of the user
  MaxBreaks,        \* bound: sockets that fail, or that the relay closes
  None              \* no call

Url == {1, 2}               \* the page's own origin, then the relay's address

VARIABLES
  conn,             \* the shared socket, its reconnect timer, and closed
  pending,          \* pendingChats
  calls,            \* the requests that are not settled
  sockets,          \* the sockets that sendRelayChat made for a request
  sent,             \* how often a request was sent
  relay,            \* requests on their way to the node, and its replies
  told,             \* what the user was told of a request
  breaks

vars == <<conn, pending, calls, sockets, sent, relay, told, breaks>>

\* A shared socket that is gone is 'broken' until its close event.
Connection == [socket : {"connecting", "open", "broken", "none"},
               timer : BOOLEAN, closed : BOOLEAN]

\* A call waits for the connection or for its answer, or is in sendRelayChat;
\* refused: its promise was rejected before it was sent.
Call == [at : {"opening", "awaiting", "trying"}, url : Url, refused : BOOLEAN]

Replies == {"answered", "failed"}

NoSockets == [u \in Url |-> "none"]

Init ==
  /\ conn = [socket |-> "connecting", timer |-> FALSE, closed |-> FALSE]
  /\ pending = {}
  /\ calls = [r \in Requests |-> None]
  /\ sockets = [r \in Requests |-> NoSockets]
  /\ sent = [r \in Requests |-> 0]
  /\ relay = [received |-> {}, executed |-> {}, replies |-> {}]
  /\ told = [r \in Requests |-> "nothing"]
  /\ breaks = 0

At(r, at) == calls[r] # None /\ calls[r].at = at

\* The calls are over, and their callers get the reply or the error.
Settle(over, what) ==
  /\ calls' = [r \in Requests |-> IF r \in over THEN None ELSE calls[r]]
  /\ told' = [r \in Requests |-> IF r \in over THEN what ELSE told[r]]

\* The envelope of a request is made once, before the loop over the addresses.
Send(requests) ==
  /\ sent' = [r \in Requests |-> IF r \in requests THEN sent[r] + 1 ELSE sent[r]]
  /\ relay' = [relay EXCEPT !.received = @ \cup requests]

----------------------------------------------------------------------------
(* The shared connection *)

\* connect, when its timer fires.
Reconnect ==
  /\ conn.timer
  /\ conn' = [conn EXCEPT !.socket = "connecting", !.timer = FALSE]
  /\ UNCHANGED <<pending, calls, sockets, sent, relay, told, breaks>>

\* The open event: resolveOpenWaiters, after which sendEnvelopeWhenOpen sends
\* every envelope that waited, also that of a promise already rejected.
Opens ==
  LET waiting == {r \in Requests : At(r, "opening")}
      refused == {r \in waiting : calls[r].refused}
  IN
  /\ conn.socket = "connecting"
  /\ conn' = [conn EXCEPT !.socket = "open"]
  /\ Send(waiting)
  /\ calls' = [r \in Requests |->
       IF r \in refused THEN None
       ELSE IF r \in waiting THEN [calls[r] EXCEPT !.at = "awaiting"] ELSE calls[r]]
  /\ told' = [r \in Requests |-> IF r \in refused THEN "failed" ELSE told[r]]
  /\ UNCHANGED <<pending, sockets, breaks>>

Breaks ==
  /\ conn.socket \in {"connecting", "open"}
  /\ breaks < MaxBreaks /\ breaks' = breaks + 1
  /\ conn' = [conn EXCEPT !.socket = "broken"]
  /\ UNCHANGED <<pending, calls, sockets, sent, relay, told>>

\* Faulty: the map is cleared and no promise rejected.
RejectPendingChats_Cleared ==
  /\ pending' = {}
  /\ UNCHANGED <<calls, told>>

\* rejectPendingChats: a request that still waits to be sent is told of it
\* only when that wait is over.
RejectPendingChats ==
  LET awaiting == {r \in pending : At(r, "awaiting")}
  IN
  /\ pending' = {}
  /\ calls' = [r \in Requests |->
       IF r \in awaiting THEN None
       ELSE IF r \in pending THEN [calls[r] EXCEPT !.refused = TRUE] ELSE calls[r]]
  /\ told' = [r \in Requests |-> IF r \in awaiting THEN "failed" ELSE told[r]]

IsClosed == conn.closed

\* The close event.
CloseEvent ==
  /\ conn.socket = "broken"
  /\ IF IsClosed THEN conn' = [conn EXCEPT !.socket = "none"] /\ UNCHANGED <<pending, calls, told>>
     ELSE /\ conn' = [conn EXCEPT !.socket = "none", !.timer = TRUE]
          /\ RejectPendingChats
  /\ UNCHANGED <<sockets, sent, relay, breaks>>

\* close(), when the application leaves the relay: waiters and pending chats
\* are rejected, the timer is cleared, and the socket is closed.
Close ==
  LET over == pending \cup {r \in Requests : At(r, "opening")}
  IN
  /\ ~conn.closed
  /\ conn' = [socket |-> IF conn.socket = "none" THEN "none" ELSE "broken",
              timer |-> FALSE, closed |-> TRUE]
  /\ pending' = {} /\ Settle(over, "failed")
  /\ UNCHANGED <<sockets, sent, relay, breaks>>

\* requestChat: pending, and sent at once or when the socket opens.
RequestChat(r) ==
  LET isOpen == conn.socket = "open"
  IN
  /\ ~conn.closed /\ calls[r] = None /\ told[r] = "nothing"
  /\ calls' = [calls EXCEPT ![r] =
       [at |-> IF isOpen THEN "awaiting" ELSE "opening", url |-> 1, refused |-> FALSE]]
  /\ pending' = pending \cup {r}
  /\ IF isOpen THEN Send({r}) ELSE UNCHANGED <<sent, relay>>
  /\ UNCHANGED <<conn, sockets, told, breaks>>

\* The timers of a waiter, after 12 s, and of a pending chat, after 120 s.
SharedTimeout(r) ==
  /\ At(r, "opening") \/ (At(r, "awaiting") /\ r \in pending)
  /\ pending' = pending \ {r} /\ Settle({r}, "failed")
  /\ UNCHANGED <<conn, sockets, sent, relay, breaks>>

\* The message event of the shared socket.
SharedReply(r, reply) ==
  /\ conn.socket = "open" /\ At(r, "awaiting") /\ r \in pending
  /\ <<r, reply>> \in relay.replies
  /\ pending' = pending \ {r} /\ Settle({r}, reply)
  /\ UNCHANGED <<conn, sockets, sent, relay, breaks>>

----------------------------------------------------------------------------
(* sendRelayChat *)

StartTrying(r) ==
  /\ conn.closed /\ calls[r] = None /\ told[r] = "nothing"
  /\ calls' = [calls EXCEPT ![r] = [at |-> "trying", url |-> 1, refused |-> FALSE]]
  /\ sockets' = [sockets EXCEPT ![r][1] = "connecting"]
  /\ UNCHANGED <<conn, pending, sent, relay, told, breaks>>

\* The open event of a socket of its own, whether its promise is settled or not.
TryOpens(r, u) ==
  /\ sockets[r][u] = "connecting"
  /\ sockets' = [sockets EXCEPT ![r][u] = "open"]
  /\ Send({r})
  /\ UNCHANGED <<conn, pending, calls, told, breaks>>

\* finish() clears the timer and closes the socket.
Finished(r) == [sockets[r] EXCEPT ![calls[r].url] = "closed"]

\* The attempt is over without an answer.  The error of a lost connection
\* tells whether the request was sent, and then there is no other attempt; a
\* timeout and a reply that the request failed do not tell.
TryAgain(r, requestSent) ==
  IF calls[r].url = 1 /\ ~requestSent
  THEN /\ calls' = [calls EXCEPT ![r].url = 2]
       /\ sockets' = [sockets EXCEPT ![r] = [Finished(r) EXCEPT ![2] = "connecting"]]
       /\ UNCHANGED told
  ELSE /\ sockets' = [sockets EXCEPT ![r] = Finished(r)]
       /\ Settle({r}, "failed")

TryTimeout(r) ==
  /\ At(r, "trying") /\ TryAgain(r, FALSE)
  /\ UNCHANGED <<conn, pending, sent, relay, breaks>>

TryBreaks(r) ==
  /\ At(r, "trying") /\ breaks < MaxBreaks /\ breaks' = breaks + 1
  /\ TryAgain(r, sockets[r][calls[r].url] = "open")
  /\ UNCHANGED <<conn, pending, sent, relay>>

TryReply(r, reply) ==
  /\ At(r, "trying") /\ sockets[r][calls[r].url] = "open"
  /\ <<r, reply>> \in relay.replies
  /\ IF reply = "failed" THEN TryAgain(r, FALSE)
     ELSE sockets' = [sockets EXCEPT ![r] = Finished(r)] /\ Settle({r}, reply)
  /\ UNCHANGED <<conn, pending, sent, relay, breaks>>

----------------------------------------------------------------------------
(* Relay and node, external *)

\* A request is refused by the relay, or carried out by the node, which
\* answers every envelope with the same id alike.
Carried(r, reply) ==
  /\ r \in relay.received \ relay.executed
  /\ relay' = [relay EXCEPT !.executed = @ \cup {r}, !.replies = @ \cup {<<r, reply>>}]
  /\ UNCHANGED <<conn, pending, calls, sockets, sent, told, breaks>>

----------------------------------------------------------------------------

Next ==
  \/ Reconnect \/ Opens \/ Breaks \/ CloseEvent \/ Close
  \/ \E r \in Requests :
       \/ RequestChat(r) \/ SharedTimeout(r) \/ StartTrying(r) \/ TryTimeout(r) \/ TryBreaks(r)
       \/ \E u \in Url : TryOpens(r, u)
       \/ \E reply \in Replies : SharedReply(r, reply) \/ TryReply(r, reply)
       \/ \E reply \in Replies : Carried(r, reply)

\* Timers fire and events are dispatched.
Fairness ==
  /\ WF_vars(CloseEvent) /\ WF_vars(Reconnect)
  /\ \A r \in Requests : WF_vars(SharedTimeout(r)) /\ WF_vars(TryTimeout(r))

Spec == Init /\ [][Next]_vars /\ Fairness

----------------------------------------------------------------------------
(* Properties *)

\* A chat that is not pending any more but not settled either has only its
\* envelope to wait for; after close() nothing is pending and no timer runs.
TypeOK ==
  /\ conn \in Connection
  /\ calls \in [Requests -> Call \cup {None}]
  /\ sockets \in [Requests -> [Url -> {"none", "connecting", "open", "closed"}]]
  /\ sent \in [Requests -> 0..2]
  /\ told \in [Requests -> {"nothing"} \cup Replies] /\ breaks \in 0..MaxBreaks
  /\ pending = {r \in Requests : At(r, "awaiting") \/ (At(r, "opening") /\ ~calls[r].refused)}
  /\ conn.closed => ~conn.timer /\ conn.socket \in {"broken", "none"} /\ pending = {}

\* Every request of the user is answered or fails in the end, although its
\* connection may break before it opens, or after it was sent.
EveryRequestSettles == \A r \in Requests : calls[r] # None ~> told[r] # "nothing"

\* A request that the user was told has failed is not sent afterwards.
NotSentAfterTold == [][\A r \in Requests : told[r] # "nothing" => sent'[r] = sent[r]]_vars
=============================================================================
