---------------------------- MODULE ProviderTurns ----------------------------
(***************************************************************************)
(* How the turns of one chat session reach the sessions of its providers   *)
(* (server/src/modules/provider/providerRuntime.ts, executeChatTurn of     *)
(* server/src/main.ts): which session of a provider a turn continues, the  *)
(* recovery of a session that the provider forgot, the rounds of tool      *)
(* calls of a planning turn, and the failures in between.  The turns of a  *)
(* session come one after another (ChatTurns).  The tools of a plan read    *)
(* only, and nothing of the plan decides the route, so their results are   *)
(* left out.                                                               *)
(*                                                                         *)
(* A session of CommandCenter or Hermes is numbered by its creation; one   *)
(* of OpenClaw is a key of an agent and an id, and exists once it is used. *)
(***************************************************************************)
EXTENDS Integers, Sequences, FiniteSets

CONSTANTS
  Agents,
  MaxTurns,         \* bound: turns of the chat session
  MaxSessions,      \* bound: sessions that providers create
  RoundLimit,       \* rounds of tool calls
  None

VARIABLES
  chat,             \* the session's agent and metadata
  turn,             \* the turns so far
  call,             \* the runProviderChat that is under way
  created,          \* the sessions that the providers created
  expired,          \* those that they forgot
  heard,            \* the messages that reached a session of a provider
  latest,           \* the session of a provider's latest answer
  crossed           \* whether a turn named another agent than its session has

vars == <<chat, turn, call, created, expired, heard, latest, crossed>>

Provider == {"commandcenter", "openclaw", "hermes", "mock"}

Derived == 0                \* OpenClaw's id that is derived from the chat session's
Id == 0..MaxSessions        \* ids that a node gives to providers

Existing(p) == {s \in 1..Len(created) : created[s].provider = p}
Alive(p) == Existing(p) \ expired

\* providerRuntime.ts awaits one request or one command in every stage.
Stage == {"create", "stream", "round", "run", "mock"}

Call ==
  [purpose : {"chat", "plan"}, provider : Provider, agent : Agents, stage : Stage,
   id : Id \cup {None}, resumed : BOOLEAN, round : 0..RoundLimit, expected : Id \cup {None}]

Chat == [agent : Agents, hermes : Id \cup {None}, ids : [Provider -> Id \cup {None}]]

\* A new session, or one that was imported from a provider's history
\* (createSession, importProviderSession).
Init ==
  /\ \/ /\ created = <<>>
        /\ chat \in [agent : Agents, hermes : {None}, ids : [Provider -> {None}]]
     \/ \E p \in {"commandcenter", "hermes"}, a \in Agents :
          /\ created = <<[provider |-> p, agent |-> a]>>
          /\ chat = [agent |-> a, hermes |-> IF p = "hermes" THEN 1 ELSE None,
                     ids |-> [q \in Provider |-> IF q = p THEN 1 ELSE None]]
  /\ turn = 0 /\ call = None /\ expired = {} /\ heard = <<>>
  /\ latest = chat.ids /\ crossed = FALSE

----------------------------------------------------------------------------
(* A call of a provider *)

\* The first request of a call that is to continue the session id.
FirstStage(p, id) ==
  CASE p = "commandcenter" -> IF id = None THEN "create" ELSE "stream"
    [] p = "openclaw" -> "round"
    [] p = "hermes" -> "run"
    [] p = "mock" -> "mock"

RunProviderChat(purpose, p, a, id, expected) ==
  [purpose |-> purpose, provider |-> p, agent |-> a, stage |-> FirstStage(p, id),
   id |-> IF p = "openclaw" /\ id = None THEN Derived ELSE id,
   resumed |-> id # None, round |-> 0, expected |-> expected]

\* Whether a request finds its session.
IsFound(c) ==
  \/ c.provider = "openclaw"
  \/ c.provider = "commandcenter" /\ c.id \in Alive("commandcenter")
  \/ c.provider = "hermes" /\ (c.id = None \/ c.id \in Alive("hermes"))

\* The provider has the message of the call, in its session id.
Reaches(c, id) ==
  heard' = Append(heard,
    [turn |-> turn, purpose |-> c.purpose, provider |-> c.provider, agent |-> c.agent,
     id |-> id, expected |-> c.expected])

\* Which session a turn continues: the one its request names, else that of
\* the metadata, in which one of Hermes comes first whatever the provider.
Continued(p, given) ==
  IF given # None THEN given ELSE IF chat.hermes # None THEN chat.hermes ELSE chat.ids[p]

\* The session of the provider's latest answer, if the request leaves the
\* choice to the node and Hermes has no say in it.
Expected(p, given) ==
  IF given = None /\ (p = "hermes" \/ chat.hermes = None) THEN latest[p] ELSE None

\* A turn begins: a message for the provider itself (executeChatTurn).
BeginChat ==
  /\ call = None /\ turn < MaxTurns
  /\ turn' = turn + 1
  /\ \E p \in Provider, a \in Agents : \E given \in {None} \cup Existing(p) :
       /\ call' = RunProviderChat("chat", p, a, Continued(p, given), Expected(p, given))
       /\ crossed' = (crossed \/ a # chat.agent
                      \/ (given # None /\ created[given].agent # a))
  /\ UNCHANGED <<chat, created, expired, heard, latest>>

\* A turn begins: a message that refers to a project; its agent plans the
\* route in a hidden session of its own (runOriginProviderActionPlan), or is
\* unknown to the mesh and plans nothing.  Or it ends before it asks anybody:
\* its reference is ambiguous, or its provider offline.
BeginProject ==
  /\ call = None /\ turn < MaxTurns
  /\ turn' = turn + 1
  /\ \/ \E p \in Provider, a \in Agents : call' = RunProviderChat("plan", p, a, None, None)
     \/ UNCHANGED call
  /\ UNCHANGED <<chat, created, expired, heard, latest, crossed>>

\* The answer of a chat turn is kept with the session that the provider told.
Kept(c, id) ==
  /\ chat' = [agent |-> c.agent,
              hermes |-> IF c.provider = "hermes" /\ id # None THEN id ELSE chat.hermes,
              ids |-> IF id # None THEN [chat.ids EXCEPT ![c.provider] = id] ELSE chat.ids]
  /\ latest' = [latest EXCEPT ![c.provider] = id]

\* A plan ends and its task is routed, which leaves the session's agent and
\* metadata as they are (see MemoryMeshTasks).
Return(c, id) ==
  /\ call' = None
  /\ IF c.purpose = "plan" THEN UNCHANGED <<chat, latest>> ELSE Kept(c, id)

\* The call fails: a chat turn ends with an error, a plan with a warning and
\* its task is routed all the same.
Throw(c) == call' = None /\ UNCHANGED <<chat, latest>>

----------------------------------------------------------------------------
(* CommandCenter *)

CreateSession ==
  /\ call # None /\ call.stage = "create"
  /\ \/ /\ Len(created) < MaxSessions
        /\ created' = Append(created, [provider |-> "commandcenter", agent |-> call.agent])
        /\ call' = [call EXCEPT !.stage = "stream", !.id = Len(created')]
        /\ UNCHANGED <<chat, latest>>
     \/ Throw(call) /\ UNCHANGED created
  /\ UNCHANGED <<turn, expired, heard, crossed>>

\* A session that was to be continued and is not found is replaced by a new
\* one, once; every other error ends the call.
IsRecovered_Any(c, error) == c.resumed

IsRecovered(c, error) == c.resumed /\ error = "not found"

Recover(c) ==
  /\ call' = [c EXCEPT !.stage = IF c.provider = "commandcenter" THEN "create" ELSE "run",
                       !.id = None, !.resumed = FALSE]
  /\ UNCHANGED <<chat, latest>>

Fails(c, error) == IF IsRecovered(c, error) THEN Recover(c) ELSE Throw(c)

\* The message is not taken: the session is not found, or for another reason.
Refused ==
  /\ call # None /\ call.stage \in {"stream", "run"}
  /\ \E error \in {"other"} \cup (IF IsFound(call) THEN {} ELSE {"not found"}) : Fails(call, error)
  /\ UNCHANGED <<turn, created, expired, heard, crossed>>

\* The message arrives; an answer follows, or an error event, an empty
\* stream, its end in the middle, or the deadline.  CommandCenter is given no
\* tools, so a plan is never content with its answer.
Streamed ==
  /\ call # None /\ call.stage = "stream" /\ IsFound(call)
  /\ Reaches(call, call.id)
  /\ Return(call, call.id) \/ Fails(call, "other")
  /\ UNCHANGED <<turn, created, expired, crossed>>

----------------------------------------------------------------------------
(* OpenClaw *)

\* The message is taken with the first request that is not refused.
RoundRefused ==
  /\ call # None /\ call.stage = "round"
  /\ Throw(call)
  /\ UNCHANGED <<turn, created, expired, heard, crossed>>

\* The gateway answers with text, or with calls of tools, of which a plan
\* executes every one before the next round; a chat has no
\* tools.  Or nothing comes of the request.
Round ==
  /\ call # None /\ call.stage = "round"
  /\ IF call.round = 0 THEN Reaches(call, call.id) ELSE UNCHANGED heard
  /\ \/ Return(call, call.id) \/ Throw(call)
     \/ /\ call.purpose = "plan"
        /\ IF call.round + 1 < RoundLimit
           THEN call' = [call EXCEPT !.round = @ + 1] /\ UNCHANGED <<chat, latest>>
           ELSE Throw(call)
  /\ UNCHANGED <<turn, created, expired, crossed>>

----------------------------------------------------------------------------
(* Hermes and the mock provider *)

\* The session of a command that ran: the continued or a new one.
RanIn(c) == IF c.id # None THEN c.id ELSE Len(created')

\* The command ran.  A command that failed after it had printed something
\* counts as an answer; its output names its session, or does not: then it is
\* the one that was to be continued, if any.  The manifest of a plan is
\* answered with one call of a tool, or with something else.
Ran ==
  /\ call # None /\ call.stage = "run" /\ IsFound(call)
  /\ IF call.id # None THEN UNCHANGED created
     ELSE /\ Len(created) < MaxSessions
          /\ created' = Append(created, [provider |-> "hermes", agent |-> call.agent])
  /\ Reaches(call, RanIn(call))
  /\ Return(call, RanIn(call)) \/ Return(call, call.id) \/ Fails(call, "other")
  /\ UNCHANGED <<turn, expired, crossed>>

MockAnswers ==
  /\ call # None /\ call.stage = "mock"
  /\ Return(call, None)
  /\ UNCHANGED <<turn, created, expired, heard, crossed>>

\* A provider forgets a session.
Expire ==
  /\ \E s \in 1..Len(created) : s \notin expired /\ expired' = expired \cup {s}
  /\ UNCHANGED <<chat, turn, call, created, heard, latest, crossed>>

Next ==
  \/ BeginChat \/ BeginProject
  \/ CreateSession \/ Refused \/ Streamed
  \/ RoundRefused \/ Round
  \/ Ran \/ MockAnswers
  \/ Expire

Spec == Init /\ [][Next]_vars

----------------------------------------------------------------------------

TypeOK ==
  /\ chat \in Chat /\ turn \in 0..MaxTurns /\ call \in {None} \cup Call
  /\ created \in Seq([provider : Provider, agent : Agents]) /\ Len(created) <= MaxSessions
  /\ expired \subseteq 1..Len(created)
  /\ latest \in [Provider -> Id \cup {None}] /\ crossed \in BOOLEAN

\* A message reaches at most one session of a provider, and once: a recovery
\* repeats nothing that a provider has heard, however its answer was lost.
HeardOnce ==
  \A i, j \in 1..Len(heard) :
    heard[i].turn = heard[j].turn /\ heard[i].purpose = heard[j].purpose => i = j

\* A turn goes on where its provider's latest answer came from, also after
\* recoveries and failed turns, unless the provider forgot that session, the
\* request names another one, or (for another provider) a session of Hermes
\* takes its place.
ContinuesSession ==
  \A i \in 1..Len(heard) :
    heard[i].expected \notin expired \cup {None} => heard[i].id = heard[i].expected

\* Agents do not hear each other's sessions, as long as the turns of the chat
\* session are all for one agent.
OwnAgentHears ==
  \A i \in 1..Len(heard) :
    heard[i].provider \in {"commandcenter", "hermes"} /\ ~crossed =>
      created[heard[i].id] = [provider |-> heard[i].provider, agent |-> heard[i].agent]
=============================================================================
