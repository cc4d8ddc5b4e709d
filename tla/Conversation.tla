---------------------------- MODULE Conversation ----------------------------
(***************************************************************************)
(* The conversations of the desktop application, features/chat/            *)
(* ChatView.tsx: which one is selected, the messages that are shown, and   *)
(* the messages that are sent.  The conversations of an agent behind the   *)
(* relay are kept by the relay (Relay/src/relay/server.ts), which the      *)
(* application writes itself; those of a local agent by the node.          *)
(*                                                                         *)
(* The provider of a remote agent keeps its own session, whose id the      *)
(* application hands over with every message; it is named here after the   *)
(* conversation it was begun for.  A chat mode is modelled as one more     *)
(* agent, and the list of conversations, which lags behind the agent, may  *)
(* offer any.  The agent changes by the user, and beneath the selection    *)
(* by what the roster of providers tells.  One application writes;         *)
(* attachments, searches and activity are left out.                        *)
(***************************************************************************)
EXTENDS Integers, Sequences, SequencesExt

CONSTANTS
  Agents,
  LocalAgents,      \* a subset of them
  MaxSessions,      \* bound: conversations
  MaxTurns,         \* bound: messages that are sent
  MaxMessages,      \* maxMessagesPerSession of the relay
  MaxHaste,         \* bound: what the user does while something is under way
  Loads,            \* bound: loads of a conversation at a time
  None

Sessions == 1..MaxSessions
Turns == 1..MaxTurns

\* Conversations and agents are no other things, and some agent is selected.
ConversationAssumption ==
  /\ LocalAgents \subseteq Agents /\ Agents # {} /\ MaxMessages \in Nat
  /\ None \notin Sessions /\ {None, "listing", "scanning"} \cap Agents = {}
  /\ None \notin {"listing", "scanning"}

VARIABLES
  agent,            \* selectedLiveAgent
  selected,         \* selectedSessionId
  shown,            \* messages
  provider,         \* providerSessionIdRef
  suppressed,       \* suppressedRelaySessionLoadRef
  busy,
  store,            \* the conversations, as they are kept
  loads,            \* loads of messages that are under way
  turns,            \* sendMessage
  created,          \* handleNewSession, or handleRefreshProviders
  haste,            \* how often the user or the roster went on while something was under way
  crossed,          \* they did so, a load failed, or the roster changed the agent beneath a
                    \* conversation, since one was selected
  failed,           \* a message failed since a conversation was selected
  doubled           \* another one, or a conversation, was begun before a message set busy

vars == <<agent, selected, shown, provider, suppressed, busy, store, loads, turns, created,
          haste, crossed, failed, doubled>>

history == <<haste, crossed, failed, doubled>>

Message == [turn : Turns, by : {"user", "agent"}]

\* What a message carries as meta.providerSessionId is kept beside it.
NoConversation == [owner |-> None, messages |-> << >>, provider |-> None]

\* The steps of sendMessage between its awaits, and what its closure holds.
Turn ==
  [at : {"new", "stopping", "creating", "appending", "asking", "storing", "streaming",
         "refreshing", "listing", "over"},
   agent : Agents \cup {None}, chosen : Sessions \cup {None}, session : Sessions \cup {None},
   provider : Sessions \cup {None}]

NewTurn == [at |-> "new", agent |-> None, chosen |-> None, session |-> None, provider |-> None]

Init ==
  /\ agent = CHOOSE a \in Agents : TRUE
  /\ selected = None /\ shown = << >> /\ provider = None /\ suppressed = None /\ busy = FALSE
  /\ store = [s \in Sessions |-> NoConversation]
  /\ loads = [l \in Loads |-> None]
  /\ turns = [t \in Turns |-> NewTurn]
  /\ created = None
  /\ haste = 0 /\ crossed = FALSE /\ failed = FALSE /\ doubled = FALSE

Running == {t \in Turns : turns[t].at \notin {"new", "over"}}
IsAboutToBegin == \E t \in Turns : turns[t].at = "stopping"
Loading == \E l \in Loads : loads[l] # None
SomethingIsUnderWay == Running # {} \/ Loading \/ created # None

\* What the user or the roster does now crosses what is under way.
UserGoesOn ==
  /\ SomethingIsUnderWay => haste < MaxHaste
  /\ haste' = IF SomethingIsUnderWay THEN haste + 1 ELSE haste

Said(t, by) == [turn |-> t, by |-> by]

----------------------------------------------------------------------------
(* Selection *)

\* A message that is being sent shows its conversation itself.
IsSuppressed(s, suppressedNow, a) ==
  s = suppressedNow /\ a \notin LocalAgents

Load(s) ==
  \E l \in Loads : loads[l] = None /\ loads' = [loads EXCEPT ![l] = s]

\* Selected, and the effect of a selection that changed, except for None.
SelectionShown(s, suppressedNow) ==
  /\ selected' = s
  /\ IF s = selected \/ IsSuppressed(s, suppressedNow, agent) THEN UNCHANGED loads ELSE Load(s)

\* A conversation of the list is chosen.
Select(s) ==
  /\ store[s].owner # None /\ s # selected
  /\ UserGoesOn
  /\ SelectionShown(s, suppressed)
  /\ crossed' = (SomethingIsUnderWay \/ store[s].owner # agent)
  /\ failed' = (failed /\ SomethingIsUnderWay)
  /\ UNCHANGED <<agent, shown, provider, suppressed, busy, store, turns, created, doubled>>

\* The effect of a selection runs again, too, for an agent of the other kind.
KindChanges(a) == (a \in LocalAgents) # (agent \in LocalAgents)

\* Faulty: the provider session of the agent before is kept.
NothingSelected_Kept(a) == selected' = None /\ shown' = << >> /\ UNCHANGED provider

\* The effect clears the provider session.
NothingSelected(a) ==
  /\ selected' = None /\ shown' = << >>
  /\ provider' = IF selected = None /\ ~KindChanges(a) THEN provider ELSE None

\* handleAgentChange, and the effects of the roster that clear the selection.
ChangeAgent(a) ==
  /\ a # agent /\ agent' = a
  /\ UserGoesOn
  /\ NothingSelected(a)
  /\ crossed' = (SomethingIsUnderWay \/ (crossed /\ selected = None))
  /\ failed' = FALSE
  /\ UNCHANGED <<suppressed, busy, store, loads, turns, created, doubled>>

\* The agent changes beneath the selection, which stays; the conversation is read
\* again, from where the new agent has its own, if that is of the other kind.
MovedTo(a) ==
  /\ a # agent /\ agent' = a
  /\ crossed' = (crossed \/ SomethingIsUnderWay \/ selected # None \/ provider # None)
  /\ IF KindChanges(a) /\ selected = None
     THEN shown' = << >> /\ provider' = None
     ELSE UNCHANGED <<shown, provider>>
  /\ IF KindChanges(a) /\ selected # None /\ ~IsSuppressed(selected, suppressed, a)
     THEN Load(selected)
     ELSE UNCHANGED loads

\* Its provider or agent left the roster, or the one asked for has come.
RosterMoves(a) ==
  /\ MovedTo(a)
  /\ UserGoesOn
  /\ UNCHANGED <<selected, suppressed, busy, store, turns, created, failed, doubled>>

\* The messages are read and shown, whatever is selected by then.
LoadArrives(l) ==
  /\ loads[l] # None
  /\ loads' = [loads EXCEPT ![l] = None]
  /\ shown' = store[loads[l]].messages
  /\ provider' = IF store[loads[l]].owner \in LocalAgents THEN provider ELSE store[loads[l]].provider
  /\ UNCHANGED <<agent, selected, suppressed, busy, store, turns, created, history>>

LoadFails(l) ==
  /\ loads[l] # None
  /\ loads' = [loads EXCEPT ![l] = None]
  /\ crossed' = TRUE
  /\ UNCHANGED <<agent, selected, shown, provider, suppressed, busy, store, turns, created, haste,
                 failed, doubled>>

----------------------------------------------------------------------------
(* A new conversation, or scan for providers *)

\* The next conversation is created.
Created(s, a) ==
  /\ store[s].owner = None /\ \A r \in 1..(s - 1) : store[r].owner # None
  /\ store' = [store EXCEPT ![s].owner = a]

NewSession ==
  /\ ~busy /\ busy' = TRUE
  /\ created' = agent
  /\ UserGoesOn
  /\ crossed' = (crossed \/ SomethingIsUnderWay)
  /\ doubled' = (doubled \/ IsAboutToBegin)
  /\ UNCHANGED <<agent, selected, shown, provider, suppressed, store, loads, turns, failed>>

SessionCreated(s) ==
  /\ created \in Agents /\ Created(s, created)
  /\ SelectionShown(s, suppressed) /\ shown' = << >>
  /\ created' = "listing"
  /\ UNCHANGED <<agent, provider, suppressed, busy, turns, history>>

\* handleRefreshProviders, which a remote agent has not.
Refresh ==
  /\ ~busy /\ busy' = TRUE
  /\ agent \in LocalAgents /\ created' = "scanning"
  /\ UserGoesOn
  /\ crossed' = (crossed \/ SomethingIsUnderWay)
  /\ doubled' = (doubled \/ IsAboutToBegin)
  /\ UNCHANGED <<agent, selected, shown, provider, suppressed, store, loads, turns, failed>>

\* The provider that the node prefers is selected, whatever was meanwhile.
Refreshes(a) ==
  /\ created = "scanning" /\ a \in LocalAgents
  /\ MovedTo(a)
  /\ created' = None /\ busy' = FALSE
  /\ UNCHANGED <<selected, suppressed, store, turns, haste, failed, doubled>>

\* It is listed, the scan changed nothing, or one of the calls failed.
NewSessionEnds ==
  /\ created # None
  /\ created' = None /\ busy' = FALSE
  /\ UNCHANGED <<agent, selected, shown, provider, suppressed, store, loads, turns, history>>

----------------------------------------------------------------------------
(* sendMessage *)

\* The first await, before busy is set, is that for the end of what is spoken.
Send(t) ==
  /\ ~busy /\ turns[t].at = "new" /\ \A u \in 1..(t - 1) : turns[u].at # "new"
  /\ turns' = [turns EXCEPT ![t] = [NewTurn EXCEPT !.at = "stopping", !.agent = agent,
                                                   !.chosen = selected, !.session = selected]]
  /\ UserGoesOn
  /\ crossed' = (crossed \/ Loading \/ created # None)
  /\ doubled' = (doubled \/ IsAboutToBegin)
  /\ UNCHANGED <<agent, selected, shown, provider, suppressed, busy, store, loads, created,
                 failed>>

IsBusy == busy' = TRUE

Begin(t) ==
  LET at == IF turns[t].agent \in LocalAgents THEN "streaming"
            ELSE IF turns[t].chosen = None THEN "creating" ELSE "appending"
  IN
  /\ turns[t].at = "stopping"
  /\ turns' = [turns EXCEPT ![t].at = at]
  /\ IsBusy
  /\ shown' = Append(shown, Said(t, "user"))
  /\ suppressed' = IF at = "appending" THEN turns[t].chosen ELSE suppressed
  /\ UNCHANGED <<agent, selected, provider, store, loads, created, history>>

\* The finally block, after success or an error.
Ended(t) ==
  /\ turns' = [turns EXCEPT ![t] = [NewTurn EXCEPT !.at = "over"]]
  /\ busy' = FALSE /\ suppressed' = None

\* A call fails; of the message that it should have stored nothing is known.
Fails(t) ==
  /\ turns[t].at \notin {"new", "stopping", "over"}
  /\ Ended(t)
  /\ failed' = TRUE
  /\ UNCHANGED <<agent, selected, shown, provider, store, loads, created, haste, crossed,
                 doubled>>

CreateForTurn(t, s) ==
  /\ turns[t].at = "creating" /\ Created(s, turns[t].agent)
  /\ turns' = [turns EXCEPT ![t].at = "appending", ![t].session = s]
  /\ suppressed' = s
  /\ UNCHANGED <<agent, selected, shown, provider, busy, loads, created, history>>

\* Faulty: the bound is not looked at.
HasRoom_Always(s) == TRUE

\* appendChatMessage of the relay.
HasRoom(s) == Len(store[s].messages) < MaxMessages

Appended(s, t, by) ==
  [store EXCEPT ![s].messages = Append(@, Said(t, by)),
                ![s].provider = IF by = "agent" THEN turns[t].provider ELSE @]

\* The question is stored, a new conversation selected, and the agent asked.
AppendQuestion(t) ==
  LET s == turns[t].session
  IN
  /\ turns[t].at = "appending" /\ HasRoom(s)
  /\ store' = Appended(s, t, "user")
  /\ IF turns[t].chosen = None THEN SelectionShown(s, suppressed) ELSE UNCHANGED <<selected, loads>>
  /\ turns' = [turns EXCEPT ![t].at = "asking", ![t].provider = provider]
  /\ UNCHANGED <<agent, shown, provider, suppressed, busy, created, history>>

\* The provider goes on with the session it was given, or begins one.
Answered(t) ==
  LET session == IF turns[t].provider = None THEN turns[t].session ELSE turns[t].provider
  IN
  /\ turns[t].at = "asking"
  /\ turns' = [turns EXCEPT ![t].at = "storing", ![t].provider = session]
  /\ provider' = session
  /\ shown' = Append(shown, Said(t, "agent"))
  /\ UNCHANGED <<agent, selected, suppressed, busy, store, loads, created, history>>

StoreAnswer(t) ==
  /\ turns[t].at = "storing" /\ HasRoom(turns[t].session)
  /\ store' = Appended(turns[t].session, t, "agent")
  /\ turns' = [turns EXCEPT ![t].at = "listing"]
  /\ UNCHANGED <<agent, selected, shown, provider, suppressed, busy, loads, created, history>>

\* The node takes the turn, in a conversation of its own if none is given.
Streamed(t) ==
  /\ turns[t].at = "streaming"
  /\ \E s \in Sessions :
       /\ \/ turns[t].chosen = s
          \/ turns[t].chosen = None /\ store[s].owner = None /\ \A r \in 1..(s - 1) : store[r].owner # None
       /\ store' = [store EXCEPT ![s].owner = turns[t].agent,
                                 ![s].messages = @ \o <<Said(t, "user"), Said(t, "agent")>>]
       /\ SelectionShown(s, suppressed)
       /\ turns' = [turns EXCEPT ![t].at = "refreshing", ![t].session = s]
  /\ UNCHANGED <<agent, shown, provider, suppressed, busy, created, history>>

Refreshed(t) ==
  /\ turns[t].at = "refreshing"
  /\ shown' = store[turns[t].session].messages
  /\ turns' = [turns EXCEPT ![t].at = "listing"]
  /\ UNCHANGED <<agent, selected, provider, suppressed, busy, store, loads, created, history>>

\* The conversations are listed.
Finish(t) ==
  /\ turns[t].at = "listing"
  /\ Ended(t)
  /\ UNCHANGED <<agent, selected, shown, provider, store, loads, created, history>>

----------------------------------------------------------------------------

Next ==
  \/ \E s \in Sessions : Select(s) \/ SessionCreated(s)
  \/ \E a \in Agents : ChangeAgent(a) \/ RosterMoves(a) \/ Refreshes(a)
  \/ \E l \in Loads : LoadArrives(l) \/ LoadFails(l)
  \/ NewSession \/ NewSessionEnds \/ Refresh
  \/ \E t \in Turns :
       \/ Send(t) \/ Begin(t) \/ Fails(t) \/ AppendQuestion(t) \/ Answered(t) \/ StoreAnswer(t)
       \/ Streamed(t) \/ Refreshed(t) \/ Finish(t)
       \/ \E s \in Sessions : CreateForTurn(t, s)

Spec == Init /\ [][Next]_vars

----------------------------------------------------------------------------
(* Properties *)

\* Conversations are kept within the bound of the relay.
TypeOK ==
  /\ agent \in Agents
  /\ {selected, provider, suppressed} \subseteq Sessions \cup {None}
  /\ shown \in Seq(Message) /\ busy \in BOOLEAN
  /\ turns \in [Turns -> Turn]
  /\ \A s \in Sessions :
       /\ store[s].owner \in Agents \cup {None}
       /\ store[s].messages \in Seq(Message)
       /\ store[s].owner \notin LocalAgents => Len(store[s].messages) <= MaxMessages
       /\ store[s].provider \in Sessions \cup {None}

\* An agent behind the relay is asked in a conversation of its own, and goes on
\* with the session of its provider that belongs to it, or that the answers kept
\* with it name, unless the user went on before the messages or a reply had come, or
\* the roster changed the agent beneath the conversation.
OwnProviderSession ==
  ~crossed /\ ~doubled =>
    \A t \in Turns : turns[t].at = "asking" =>
      /\ store[turns[t].session].owner = turns[t].agent
      /\ turns[t].provider \in
           {None, turns[t].session, store[turns[t].session].provider}

\* When nothing is under way the messages of the selected conversation are
\* shown, unless one failed or the user went on before they had come.
ShownIsStored ==
  ~SomethingIsUnderWay /\ ~crossed /\ ~failed /\ ~doubled =>
    shown = IF selected = None THEN << >> ELSE store[selected].messages

\* An answer is stored directly after its question.
AnswerFollowsQuestion ==
  ~doubled => \A s \in Sessions :
    LET messages == store[s].messages
    IN \A i \in DOMAIN messages : messages[i].by = "agent" =>
         i > 1 /\ messages[i - 1] = Said(messages[i].turn, "user")

=============================================================================
