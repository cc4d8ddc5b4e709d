-------------------------- MODULE NodeSafetyProofs --------------------------
(***************************************************************************)
(* Proofs about parts of a Reika Node that the run of MCNodeSafety puts    *)
(* together, each for any values of its constants: that a message reaches  *)
(* one session of its provider, which is that of its agent and the one     *)
(* that answered last (ProviderTurns); that what the node says of its      *)
(* updates is so (Updates); that what is in the art library was made       *)
(* (ArtLibrary); and that the key of the image API which is kept, and the  *)
(* images that are listed, are those that were given (ImageGeneration).    *)
(* Art and images are one theorem, ArtIsSafe, as their run has one         *)
(* invariant of both.                                                      *)
(***************************************************************************)
EXTENDS MCNodeSafety, SequenceTheorems, TLAPS

----------------------------------------------------------------------------
(* The sessions of providers (ProviderTurns) *)

Heard ==
  [turn : 0..MaxAsked, purpose : {"chat", "plan"}, provider : Asking!Provider,
   agent : AskedAgents, id : Asking!Id, expected : Asking!Id \cup {None}]

AskingTypes ==
  /\ chat \in Asking!Chat /\ turn \in 0..MaxAsked /\ call \in {None} \cup Asking!Call
  /\ created \in Seq([provider : Asking!Provider, agent : AskedAgents])
  /\ Len(created) <= MaxProviderSessions
  /\ expired \subseteq 1..Len(created)
  /\ heard \in Seq(Heard)
  /\ latest \in [Asking!Provider -> Asking!Id \cup {None}] /\ crossed \in BOOLEAN

ProviderAt(stage) ==
  CASE stage \in {"create", "stream"} -> "commandcenter"
    [] stage = "round" -> "openclaw"
    [] stage = "run" -> "hermes"
    [] stage = "mock" -> "mock"

\* The providers whose sessions are numbered.
Numbered == {"commandcenter", "hermes"}

IsOf(s, p, a) == s \in 1..Len(created) /\ created[s] = [provider |-> p, agent |-> a]

\* The chat keeps one session of each provider, the one that answered latest if
\* there is one; they are sessions of its agent, as long as it has had only one.
ChatInv ==
  /\ chat.hermes = chat.ids["hermes"]
  /\ \A p \in Asking!Provider : latest[p] \in {None, chat.ids[p]}
  /\ \A p \in Numbered : latest[p] \in Asking!Existing(p) \cup {None}
  /\ \A p \in Numbered : ~crossed /\ chat.ids[p] # None => IsOf(chat.ids[p], p, chat.agent)

\* A provider hears the message with the first request that succeeds; a session
\* that is to be continued is, or the provider has forgotten it; and it is one
\* of the agent.
CallInv ==
  /\ call.provider = ProviderAt(call.stage)
  /\ call.stage = "round" => call.id # None
  /\ call.stage # "round" \/ call.round = 0 => \A i \in DOMAIN heard : heard[i].turn < turn
  /\ call.expected # None =>
       /\ call.provider \in Numbered => call.expected \in Asking!Existing(call.provider)
       /\ call.expected \in expired \/ (call.stage # "create" /\ call.id = call.expected)
  /\ ~crossed =>
       /\ call.purpose = "chat" => call.agent = chat.agent
       /\ \A p \in Numbered :
            call.provider = p /\ call.id \in Asking!Existing(p) => IsOf(call.id, p, call.agent)

\* What providers have heard was said once in a turn, and to the right session.
HeardInv ==
  /\ \A i \in DOMAIN heard : heard[i].turn <= turn
  /\ \A i, j \in DOMAIN heard : heard[i].turn = heard[j].turn => i = j
  /\ \A i \in DOMAIN heard :
       heard[i].expected \notin expired \cup {None} => heard[i].id = heard[i].expected
  /\ \A i \in DOMAIN heard :
       heard[i].provider \in Numbered =>
         /\ heard[i].id \in 1..Len(created)
         /\ ~crossed => IsOf(heard[i].id, heard[i].provider, heard[i].agent)

AskingInv == AskingTypes /\ ChatInv /\ (call # None => CallInv) /\ HeardInv

\* What the definitions say of a call that begins.
LEMMA NewCall ==
  ASSUME NEW purpose \in {"chat", "plan"}, NEW p \in Asking!Provider, NEW a \in AskedAgents,
         NEW id \in Asking!Id \cup {None}, NEW expected \in Asking!Id \cup {None}
  PROVE  \E c \in Asking!Call :
           /\ Asking!RunProviderChat(purpose, p, a, id, expected) = c
           /\ c.purpose = purpose /\ c.provider = p /\ c.agent = a /\ c.expected = expected
           /\ c.id = (IF p = "openclaw" /\ id = None THEN 0 ELSE id) /\ c.round = 0
           /\ c.provider = ProviderAt(c.stage)
           /\ c.stage = "create" => id = None
<1> DEFINE c == Asking!RunProviderChat(purpose, p, a, id, expected)
<1>1. /\ Asking!FirstStage(p, id) \in Asking!Stage
      /\ p = ProviderAt(Asking!FirstStage(p, id))
      /\ Asking!FirstStage(p, id) = "create" => id = None
  BY DEF Asking!FirstStage, Asking!Stage, Asking!Provider, ProviderAt
<1>2. 0 \in Asking!Id /\ 0 \in 0..RoundLimit
  BY AskingAssumption DEF Asking!Id
<1>3. (IF p = "openclaw" /\ id = None THEN 0 ELSE id) \in Asking!Id \cup {None}
  BY <1>2
<1>4. /\ c \in Asking!Call
      /\ c.purpose = purpose /\ c.provider = p /\ c.agent = a /\ c.expected = expected
      /\ c.id = (IF p = "openclaw" /\ id = None THEN 0 ELSE id) /\ c.round = 0
      /\ c.stage = Asking!FirstStage(p, id)
  BY <1>1, <1>2, <1>3 DEF Asking!RunProviderChat, Asking!Call, Asking!Derived
<1> HIDE DEF c
<1>5. Asking!RunProviderChat(purpose, p, a, id, expected) = c
  BY DEF c
<1> QED
  BY <1>1, <1>4, <1>5

LEMMA SessionIds ==
  ASSUME AskingTypes
  PROVE  /\ 1..Len(created) \subseteq Asking!Id /\ None \notin Asking!Id
         /\ Len(created) \in Nat /\ Len(heard) \in Nat
         /\ DOMAIN created = 1..Len(created) /\ DOMAIN heard = 1..Len(heard)
         /\ \A p \in Asking!Provider :
              /\ Asking!Existing(p) \subseteq 1..Len(created)
              /\ \A s \in Asking!Existing(p) : created[s].provider = p
         /\ \A s \in 1..Len(created) :
              created[s] \in [provider : Asking!Provider, agent : AskedAgents]
         /\ \A i \in DOMAIN heard : heard[i] \in Heard
<1>1. /\ Len(created) \in Nat /\ Len(created) <= MaxProviderSessions /\ Len(heard) \in Nat
      /\ DOMAIN created = 1..Len(created) /\ DOMAIN heard = 1..Len(heard)
  BY LenProperties DEF AskingTypes
<1>2. \A s \in 1..Len(created) :
        created[s] \in [provider : Asking!Provider, agent : AskedAgents]
  BY ElementOfSeq DEF AskingTypes
<1>3. \A i \in 1..Len(heard) : heard[i] \in Heard
  BY ElementOfSeq DEF AskingTypes
<1>4. 1..Len(created) \subseteq Asking!Id /\ None \notin Asking!Id
  BY <1>1, AskingAssumption DEF Asking!Id
<1>5. \A p \in Asking!Provider :
        /\ Asking!Existing(p) \subseteq 1..Len(created)
        /\ \A s \in Asking!Existing(p) : created[s].provider = p
  BY DEF Asking!Existing
<1> QED
  BY <1>1, <1>2, <1>3, <1>4, <1>5

LEMMA AskingStutters ==
  ASSUME AskingInv, UNCHANGED askingVars
  PROVE  AskingInv'
BY DEF askingVars, AskingInv, AskingTypes, ChatInv, CallInv, HeardInv, IsOf, Asking!Existing

LEMMA BeginChatKeepsInv ==
  ASSUME AskingInv, Asking!BeginChat
  PROVE  AskingInv'
<1>1. /\ call = None /\ turn < MaxAsked /\ turn' = turn + 1
      /\ UNCHANGED <<chat, created, expired, heard, latest>>
  BY DEF Asking!BeginChat
<1>2. PICK p \in Asking!Provider, a \in AskedAgents :
        \E given \in {None} \cup Asking!Existing(p) :
          /\ call' = Asking!RunProviderChat("chat", p, a, Asking!Continued(p, given),
                                            Asking!Expected(p, given))
          /\ crossed' = (crossed \/ a # chat.agent
                         \/ (given # None /\ created[given].agent # a))
  BY DEF Asking!BeginChat
<1>3. PICK given \in {None} \cup Asking!Existing(p) :
        /\ call' = Asking!RunProviderChat("chat", p, a, Asking!Continued(p, given),
                                          Asking!Expected(p, given))
        /\ crossed' = (crossed \/ a # chat.agent
                       \/ (given # None /\ created[given].agent # a))
  BY <1>2
<1> DEFINE id == Asking!Continued(p, given)
           expected == Asking!Expected(p, given)
<1>4. /\ AskingTypes /\ ChatInv /\ HeardInv
      /\ chat.hermes \in Asking!Id \cup {None} /\ chat.agent \in AskedAgents
      /\ \A q \in Asking!Provider : /\ chat.ids[q] \in Asking!Id \cup {None}
                                    /\ latest[q] \in Asking!Id \cup {None}
      /\ given \in Asking!Id \cup {None}
  BY SessionIds DEF AskingInv, AskingTypes, Asking!Chat
<1>5. id \in Asking!Id \cup {None} /\ expected \in Asking!Id \cup {None}
  BY <1>4 DEF Asking!Continued, Asking!Expected
<1>6. PICK c \in Asking!Call :
        /\ call' = c
        /\ c.purpose = "chat" /\ c.provider = p /\ c.agent = a /\ c.expected = expected
        /\ c.id = (IF p = "openclaw" /\ id = None THEN 0 ELSE id) /\ c.round = 0
        /\ c.provider = ProviderAt(c.stage)
        /\ c.stage = "create" => id = None
  <2>1. call' = Asking!RunProviderChat("chat", p, a, id, expected)
    BY <1>3
  <2> HIDE DEF id, expected
  <2>2. "chat" \in {"chat", "plan"}
    OBVIOUS
  <2> QED
    BY <1>5, <2>1, <2>2, NewCall, SMTT(40)
<1>7. AskingTypes'
  BY <1>1, <1>3, <1>4, <1>6, AskingAssumption DEF AskingTypes
<1>8. ChatInv' /\ HeardInv'
  <2>1. crossed => crossed'
    BY <1>3
  <2> QED
    BY <1>1, <1>4, <2>1, SessionIds
    DEF ChatInv, HeardInv, AskingTypes, Heard, IsOf, Asking!Existing
<1>9. ASSUME expected # None
      PROVE  id = expected /\ (p \in Numbered => expected \in Asking!Existing(p))
  BY <1>4, <1>9 DEF Asking!Expected, Asking!Continued, ChatInv, Numbered
<1>10. ASSUME ~crossed', NEW q \in Numbered, call'.provider = q, call'.id \in Asking!Existing(q)
       PROVE  IsOf(call'.id, q, call'.agent)
  <2>1. ~crossed /\ a = chat.agent /\ (given # None => created[given].agent = a) /\ p = q
    BY <1>3, <1>6, <1>10
  <2>2. id \in Asking!Existing(p) /\ id # None /\ c.id = id
    BY <1>6, <1>10, <2>1, SessionIds, <1>4 DEF Numbered, Asking!Provider
  <2>3. CASE given # None
    <3>1. id = given
      BY <2>3 DEF Asking!Continued
    <3>2. given \in 1..Len(created) /\ created[given].provider = p /\ created[given].agent = a
      BY <1>4, <2>1, <2>3, SessionIds
    <3>3. created[given] = [provider |-> p, agent |-> a]
      BY <1>4, <3>2, SessionIds
    <3> QED
      BY <1>1, <1>6, <2>1, <2>2, <3>1, <3>2, <3>3 DEF IsOf
  <2>4. CASE given = None
    <3>1. id = chat.ids["hermes"] \/ id = chat.ids[p]
      BY <2>4, <1>4 DEF Asking!Continued, ChatInv
    <3>2. id = chat.ids[p] \/ created[id] = [provider |-> "hermes", agent |-> chat.agent]
      BY <1>4, <2>1, <2>2, <3>1 DEF ChatInv, Numbered, IsOf
    <3>3. created[id].provider = p
      BY <2>2, SessionIds, <1>4
    <3>4. CASE id = chat.ids[p]
      BY <1>4, <1>6, <2>1, <2>2, <3>4 DEF ChatInv
    <3>5. CASE created[id] = [provider |-> "hermes", agent |-> chat.agent]
      <4>1. created[id] = [provider |-> p, agent |-> a] /\ id \in 1..Len(created)
        BY <1>4, <2>1, <2>2, <3>3, <3>5, SessionIds
      <4> QED
        BY <1>1, <1>6, <2>1, <2>2, <4>1 DEF IsOf
    <3> QED
      BY <3>2, <3>4, <3>5
  <2> QED
    BY <2>3, <2>4
<1>11. CallInv'
  <2> HIDE DEF id, expected
  <2>1. call'.expected # None => /\ call'.provider \in Numbered =>
                                      call'.expected \in Asking!Existing(call'.provider)
                                 /\ call'.stage # "create" /\ call'.id = call'.expected
    BY <1>6, <1>9
  <2>2. ~crossed' => call'.agent = chat.agent
    BY <1>3, <1>6
  <2>3. \A i \in DOMAIN heard : heard[i].turn < turn'
    BY <1>1, <1>4, SessionIds DEF HeardInv, Heard, AskingTypes
  <2>4. call'.stage = "round" => call'.id # None
    BY <1>4, <1>6, AskingAssumption, SessionIds DEF ProviderAt, Asking!Id
  <2> QED
    BY <1>1, <1>6, <1>10, <2>1, <2>2, <2>3, <2>4 DEF CallInv, IsOf, Asking!Existing
<1> QED
  BY <1>7, <1>8, <1>11 DEF AskingInv

LEMMA BeginProjectKeepsInv ==
  ASSUME AskingInv, Asking!BeginProject
  PROVE  AskingInv'
<1>1. /\ call = None /\ turn < MaxAsked /\ turn' = turn + 1
      /\ UNCHANGED <<chat, created, expired, heard, latest, crossed>>
      /\ AskingTypes /\ ChatInv /\ HeardInv
  BY DEF Asking!BeginProject, AskingInv
<1>2. ChatInv' /\ HeardInv' /\ \A i \in DOMAIN heard : heard[i].turn < turn'
  BY <1>1, SessionIds DEF ChatInv, HeardInv, AskingTypes, Heard, IsOf, Asking!Existing
<1>5. turn' \in 0..MaxAsked
  BY <1>1, AskingAssumption DEF AskingTypes
<1>3. CASE call' = call
  <2>1. AskingTypes'
    BY <1>1, <1>3, <1>5 DEF AskingTypes
  <2> QED
    BY <1>1, <1>2, <1>3, <2>1 DEF AskingInv
<1>4. ASSUME NEW p \in Asking!Provider, NEW a \in AskedAgents,
             call' = Asking!RunProviderChat("plan", p, a, None, None)
      PROVE  AskingInv'
  <2>1. PICK c \in Asking!Call :
          /\ call' = c
          /\ c.purpose = "plan" /\ c.provider = p /\ c.agent = a /\ c.expected = None
          /\ c.id = (IF p = "openclaw" /\ None = None THEN 0 ELSE None) /\ c.round = 0
          /\ c.provider = ProviderAt(c.stage)
    BY <1>4, NewCall
  <2>2. \A q \in Numbered : call'.provider = q => call'.id \notin Asking!Existing(q)
    BY <1>1, <2>1, SessionIds DEF Numbered, Asking!Provider
  <2>5. call'.stage = "round" => call'.id # None
    BY <1>1, <2>1, AskingAssumption, SessionIds DEF ProviderAt, Asking!Id
  <2>3. CallInv'
    BY <1>1, <1>2, <2>1, <2>2, <2>5 DEF CallInv, Asking!Existing
  <2>4. AskingTypes'
    BY <1>1, <1>5, <2>1 DEF AskingTypes
  <2> QED
    BY <1>2, <2>3, <2>4 DEF AskingInv
<1> QED
  BY <1>3, <1>4 DEF Asking!BeginProject

\* The sessions after a step of a call: none or one more, of its agent.
Grows ==
  \/ created' = created
  \/ \E p \in Numbered : /\ Len(created) < MaxProviderSessions
                         /\ created' = Append(created, [provider |-> p, agent |-> call.agent])

LEMMA GrowsFacts ==
  ASSUME AskingTypes, call # None, Grows
  PROVE  /\ created' \in Seq([provider : Asking!Provider, agent : AskedAgents])
         /\ Len(created') <= MaxProviderSessions
         /\ 1..Len(created) \subseteq 1..Len(created')
         /\ \A s \in 1..Len(created) : created'[s] = created[s]
         /\ \A p \in Asking!Provider : Asking!Existing(p) \subseteq Asking!Existing(p)'
         /\ \A s, p, a : IsOf(s, p, a) => IsOf(s, p, a)'
<1>1. /\ created \in Seq([provider : Asking!Provider, agent : AskedAgents])
      /\ Len(created) <= MaxProviderSessions /\ Len(created) \in Nat
  BY SessionIds DEF AskingTypes
<1>2. /\ created' \in Seq([provider : Asking!Provider, agent : AskedAgents])
      /\ Len(created') <= MaxProviderSessions
      /\ 1..Len(created) \subseteq 1..Len(created')
      /\ \A s \in 1..Len(created) : created'[s] = created[s]
  <2>1. CASE created' = created
    BY <1>1, <2>1
  <2>2. ASSUME NEW p \in Numbered, Len(created) < MaxProviderSessions,
               created' = Append(created, [provider |-> p, agent |-> call.agent])
        PROVE  /\ created' \in Seq([provider : Asking!Provider, agent : AskedAgents])
               /\ Len(created') <= MaxProviderSessions
               /\ 1..Len(created) \subseteq 1..Len(created')
               /\ \A s \in 1..Len(created) : created'[s] = created[s]
    <3> DEFINE s == [provider |-> p, agent |-> call.agent]
    <3>1. s \in [provider : Asking!Provider, agent : AskedAgents]
      BY DEF AskingTypes, Asking!Call, Numbered, Asking!Provider
    <3> HIDE DEF s
    <3>2. created' = Append(created, s)
      BY <2>2 DEF s
    <3>3. /\ created' \in Seq([provider : Asking!Provider, agent : AskedAgents])
          /\ Len(created') = Len(created) + 1
          /\ \A i \in 1..Len(created) : created'[i] = created[i]
      BY <1>1, <3>1, <3>2, AppendProperties
    <3> QED
      BY <1>1, <2>2, <3>3, AskingAssumption
  <2> QED
    BY <2>1, <2>2 DEF Grows
<1>3. \A p \in Asking!Provider : Asking!Existing(p) \subseteq Asking!Existing(p)'
  BY <1>2 DEF Asking!Existing
<1>4. \A s, p, a : IsOf(s, p, a) => IsOf(s, p, a)'
  BY <1>2 DEF IsOf
<1> QED
  BY <1>2, <1>3, <1>4

\* Nothing was heard.
LEMMA HeardStays ==
  ASSUME AskingInv, call # None, Grows, UNCHANGED <<turn, expired, heard, crossed>>
  PROVE  HeardInv' /\ heard' \in Seq(Heard)
<1>1. HeardInv /\ AskingTypes
  BY DEF AskingInv
<1> QED
  BY <1>1, GrowsFacts DEF HeardInv, AskingTypes

\* The provider hears the call's message in the session id.
LEMMA HeardGrows ==
  ASSUME AskingInv, call # None, Grows, UNCHANGED <<turn, expired, crossed>>,
         call.stage # "round" \/ call.round = 0,
         NEW id \in Asking!Id, Asking!Reaches(call, id),
         call.expected \notin expired \cup {None} => id = call.expected,
         call.provider \in Numbered =>
           /\ id \in 1..Len(created')
           /\ ~crossed => created'[id] = [provider |-> call.provider, agent |-> call.agent]
  PROVE  HeardInv' /\ heard' \in Seq(Heard)
<1>1. AskingTypes /\ HeardInv /\ CallInv /\ call \in Asking!Call
  BY DEF AskingInv, AskingTypes
<1>2. PICK h \in Heard :
        /\ h.turn = turn /\ h.provider = call.provider /\ h.agent = call.agent
        /\ h.id = id /\ h.expected = call.expected
        /\ heard' = Append(heard, h)
  <2> DEFINE h == [turn |-> turn, purpose |-> call.purpose, provider |-> call.provider,
                   agent |-> call.agent, id |-> id, expected |-> call.expected]
  <2>1. /\ h \in Heard
        /\ h.turn = turn /\ h.provider = call.provider /\ h.agent = call.agent
        /\ h.id = id /\ h.expected = call.expected
    BY <1>1 DEF Heard, AskingTypes, Asking!Call
  <2>2. heard' = Append(heard, h)
    BY DEF Asking!Reaches
  <2> HIDE DEF h
  <2> QED
    BY <2>1, <2>2
<1>3. /\ heard \in Seq(Heard) /\ Len(heard) \in Nat /\ DOMAIN heard = 1..Len(heard)
      /\ \A i \in 1..Len(heard) : heard[i] \in Heard
  BY <1>1, SessionIds DEF AskingTypes
<1>4. /\ heard' \in Seq(Heard) /\ Len(heard') = Len(heard) + 1
      /\ DOMAIN heard' = 1..(Len(heard) + 1)
      /\ \A i \in 1..Len(heard) : heard'[i] = heard[i]
      /\ heard'[Len(heard) + 1] = h
  BY <1>2, <1>3, AppendProperties, LenProperties
<1>5. \A i \in DOMAIN heard' : i = Len(heard) + 1 \/ i \in DOMAIN heard
  BY <1>3, <1>4
<1>6. \A i \in DOMAIN heard : heard[i].turn < turn /\ heard[i].turn \in Int
  BY <1>1, <1>3 DEF CallInv, Heard
<1>7. turn \in Int
  BY <1>1 DEF AskingTypes
<1>8. \A i \in DOMAIN heard' : heard'[i].turn <= turn
  BY <1>2, <1>3, <1>4, <1>5, <1>6, <1>7
<1>9. \A i, j \in DOMAIN heard' : heard'[i].turn = heard'[j].turn => i = j
  BY <1>1, <1>2, <1>3, <1>4, <1>5, <1>6, <1>7 DEF HeardInv
<1>10. \A i \in DOMAIN heard' :
         heard'[i].expected \notin expired \cup {None} => heard'[i].id = heard'[i].expected
  BY <1>1, <1>2, <1>3, <1>4, <1>5 DEF HeardInv
<1>11. \A i \in DOMAIN heard' :
         heard'[i].provider \in Numbered =>
           /\ heard'[i].id \in 1..Len(created')
           /\ ~crossed => created'[heard'[i].id] =
                            [provider |-> heard'[i].provider, agent |-> heard'[i].agent]
  <2>1. ASSUME NEW i \in DOMAIN heard, heard[i].provider \in Numbered
        PROVE  /\ heard[i].id \in 1..Len(created')
               /\ ~crossed => created'[heard[i].id] =
                                [provider |-> heard[i].provider, agent |-> heard[i].agent]
    <3>1. /\ heard[i].id \in 1..Len(created)
          /\ ~crossed => IsOf(heard[i].id, heard[i].provider, heard[i].agent)
      BY <1>1, <2>1 DEF HeardInv
    <3>2. heard[i].id \in 1..Len(created')
      BY <1>1, <3>1, GrowsFacts
    <3>3. IsOf(heard[i].id, heard[i].provider, heard[i].agent) => created'[heard[i].id] =
            [provider |-> heard[i].provider, agent |-> heard[i].agent]
      BY <1>1, <3>1, GrowsFacts DEF IsOf
    <3> QED
      BY <3>1, <3>2, <3>3
  <2>2. h.provider \in Numbered => /\ h.id \in 1..Len(created')
                                   /\ ~crossed => created'[h.id] =
                                        [provider |-> h.provider, agent |-> h.agent]
    BY <1>2
  <2> QED
    BY <1>3, <1>4, <1>5, <2>1, <2>2
<1> QED
  BY <1>4, <1>8, <1>9, <1>10, <1>11 DEF HeardInv, IsOf

\* The chat keeps what it had, while there may be one more session.
LEMMA ChatStays ==
  ASSUME AskingInv, call # None, Grows, UNCHANGED <<chat, turn, expired, latest, crossed>>,
         HeardInv', heard' \in Seq(Heard), call' \in {None} \cup Asking!Call,
          call' # None => CallInv'
  PROVE  AskingInv'
<1>1. AskingTypes /\ ChatInv
  BY DEF AskingInv
<1>2. AskingTypes'
  <2>1. expired' \subseteq 1..Len(created')
    BY <1>1, GrowsFacts DEF AskingTypes
  <2> QED
    BY <1>1, <2>1, GrowsFacts DEF AskingTypes
<1>3. ChatInv'
  <2>1. /\ chat'.hermes = chat'.ids["hermes"]
        /\ \A p \in Asking!Provider : latest'[p] \in {None, chat'.ids[p]}
    BY <1>1 DEF ChatInv
  <2>2. \A p \in Numbered : latest'[p] \in Asking!Existing(p)' \cup {None}
    BY <1>1, GrowsFacts DEF ChatInv, Numbered, Asking!Provider
  <2>3. ASSUME NEW p \in Numbered, ~crossed, chat.ids[p] # None
        PROVE  /\ chat.ids[p] \in 1..Len(created')
               /\ created'[chat.ids[p]] = [provider |-> p, agent |-> chat.agent]
    <3>1. IsOf(chat.ids[p], p, chat.agent)
      BY <1>1, <2>3 DEF ChatInv
    <3> QED
      BY <1>1, <3>1, GrowsFacts DEF IsOf
  <2> QED
    BY <2>1, <2>2, <2>3 DEF ChatInv, IsOf
<1> QED
  BY <1>2, <1>3 DEF AskingInv

\* The answer of a chat turn is kept with its session.
LEMMA ChatKept ==
  ASSUME AskingInv, call # None, Grows, UNCHANGED <<turn, expired, crossed>>,
         HeardInv', heard' \in Seq(Heard), call' = None, call.purpose = "chat",
         NEW id \in Asking!Id \cup {None}, Asking!Kept(call, id),
         call.provider \in Numbered /\ id # None =>
           /\ id \in 1..Len(created') /\ created'[id].provider = call.provider
           /\ ~crossed => created'[id] = [provider |-> call.provider, agent |-> call.agent]
  PROVE  AskingInv'
<1>1. AskingTypes /\ ChatInv /\ CallInv /\ call \in Asking!Call /\ chat \in Asking!Chat
  BY DEF AskingInv, AskingTypes
<1>2. PICK q \in Asking!Provider : q = call.provider
  BY <1>1 DEF Asking!Call
<1>3. /\ chat'.agent = call.agent /\ call.agent \in AskedAgents
      /\ chat'.hermes = (IF q = "hermes" /\ id # None THEN id ELSE chat.hermes)
      /\ chat'.ids \in [Asking!Provider -> Asking!Id \cup {None}]
      /\ \A p \in Asking!Provider :
           chat'.ids[p] = (IF p = q /\ id # None THEN id ELSE chat.ids[p])
      /\ chat' \in Asking!Chat
  BY <1>1, <1>2 DEF Asking!Kept, Asking!Chat, Asking!Call
<1>4. /\ latest' \in [Asking!Provider -> Asking!Id \cup {None}]
      /\ \A p \in Asking!Provider : latest'[p] = (IF p = q THEN id ELSE latest[p])
  BY <1>1, <1>2 DEF Asking!Kept, AskingTypes
<1>5. AskingTypes'
  <2>1. expired' \subseteq 1..Len(created')
    BY <1>1, GrowsFacts DEF AskingTypes
  <2> QED
    BY <1>1, <1>3, <1>4, <2>1, GrowsFacts DEF AskingTypes
<1>6. ChatInv'
  <2>1. /\ chat'.hermes = chat'.ids["hermes"]
        /\ \A p \in Asking!Provider : latest'[p] \in {None, chat'.ids[p]}
    BY <1>1, <1>3, <1>4 DEF ChatInv, Asking!Provider
  <2>2. ASSUME NEW p \in Numbered PROVE latest'[p] \in Asking!Existing(p)' \cup {None}
    <3>1. p \in Asking!Provider
      BY DEF Numbered, Asking!Provider
    <3>2. CASE p = q
      BY <1>2, <1>4, <3>1, <3>2 DEF Asking!Existing
    <3>3. CASE p # q
      BY <1>1, <1>4, <3>1, <3>3, GrowsFacts DEF ChatInv
    <3> QED
      BY <3>2, <3>3
  <2>3. ASSUME NEW p \in Numbered, ~crossed, chat'.ids[p] # None
        PROVE  /\ chat'.ids[p] \in 1..Len(created')
               /\ created'[chat'.ids[p]] = [provider |-> p, agent |-> chat'.agent]
    <3>1. p \in Asking!Provider /\ chat'.agent = chat.agent
      BY <1>1, <1>3, <2>3 DEF CallInv, Numbered, Asking!Provider
    <3>2. CASE p = q /\ id # None
      BY <1>2, <1>3, <2>3, <3>1, <3>2 DEF Asking!Existing
    <3>3. CASE ~(p = q /\ id # None)
      <4>1. chat'.ids[p] = chat.ids[p] /\ IsOf(chat.ids[p], p, chat.agent)
        BY <1>1, <1>3, <2>3, <3>1, <3>3 DEF ChatInv
      <4> QED
        BY <1>1, <3>1, <4>1, GrowsFacts DEF IsOf
    <3> QED
      BY <3>2, <3>3
  <2> QED
    BY <2>1, <2>2, <2>3 DEF ChatInv, IsOf
<1> QED
  BY <1>5, <1>6 DEF AskingInv

\* A call returns: its plan is routed, or its answer kept.
LEMMA ReturnKeepsInv ==
  ASSUME AskingInv, call # None, Grows, UNCHANGED <<turn, expired, crossed>>,
         HeardInv', heard' \in Seq(Heard),
         NEW id \in Asking!Id \cup {None}, Asking!Return(call, id),
         call.provider \in Numbered /\ id # None =>
           /\ id \in 1..Len(created') /\ created'[id].provider = call.provider
           /\ ~crossed => created'[id] = [provider |-> call.provider, agent |-> call.agent]
  PROVE  AskingInv'
<1>1. call' = None /\ call.purpose \in {"chat", "plan"}
  BY DEF Asking!Return, AskingInv, AskingTypes, Asking!Call
<1>2. CASE call.purpose = "plan"
  BY <1>1, <1>2, ChatStays DEF Asking!Return
<1>3. CASE call.purpose = "chat"
  BY <1>1, <1>3, ChatKept DEF Asking!Return
<1> QED
  BY <1>1, <1>2, <1>3

\* A call fails.
LEMMA ThrowKeepsInv ==
  ASSUME AskingInv, call # None, Grows, UNCHANGED <<turn, expired, crossed>>,
         HeardInv', heard' \in Seq(Heard), Asking!Throw(call)
  PROVE  AskingInv'
BY ChatStays DEF Asking!Throw

LEMMA CreateSessionKeepsInv ==
  ASSUME AskingInv, Asking!CreateSession
  PROVE  AskingInv'
<1>1. /\ call # None /\ call.stage = "create" /\ UNCHANGED <<turn, expired, heard, crossed>>
      /\ AskingTypes /\ CallInv /\ call \in Asking!Call
  BY DEF Asking!CreateSession, AskingInv, AskingTypes
<1>2. ASSUME Asking!Throw(call), UNCHANGED created
      PROVE  AskingInv'
  <2>1. Grows
    BY <1>2 DEF Grows
  <2> QED
    BY <1>1, <1>2, <2>1, HeardStays, ThrowKeepsInv
<1>3. ASSUME Len(created) < MaxProviderSessions,
             created' = Append(created, [provider |-> "commandcenter", agent |-> call.agent]),
             call' = [call EXCEPT !.stage = "stream", !.id = Len(created')],
             UNCHANGED <<chat, latest>>
      PROVE  AskingInv'
  <2>1. Grows
    BY <1>3 DEF Grows, Numbered
  <2>2. HeardInv' /\ heard' \in Seq(Heard)
    BY <1>1, <2>1, HeardStays
  <2>3. /\ Len(created') \in 1..Len(created')
        /\ created'[Len(created')] = [provider |-> "commandcenter", agent |-> call.agent]
        /\ Len(created') \in Asking!Id
    <3> DEFINE s == [provider |-> "commandcenter", agent |-> call.agent]
    <3>1. s \in [provider : Asking!Provider, agent : AskedAgents]
      BY <1>1 DEF Asking!Call, Asking!Provider
    <3> HIDE DEF s
    <3>2. created' = Append(created, s)
      BY <1>3 DEF s
    <3>3. Len(created') = Len(created) + 1 /\ created'[Len(created) + 1] = s
      BY <1>1, <3>1, <3>2, AppendProperties DEF AskingTypes
    <3>4. Len(created) \in Nat
      BY <1>1, SessionIds
    <3> QED
      BY <1>3, <3>3, <3>4, AskingAssumption DEF s, Asking!Id
  <2>4. /\ call' \in Asking!Call /\ call'.stage = "stream" /\ call'.id = Len(created')
        /\ call'.purpose = call.purpose /\ call'.provider = call.provider
        /\ call'.agent = call.agent /\ call'.expected = call.expected
    BY <1>1, <1>3, <2>3 DEF Asking!Call, Asking!Stage
  <2>5. call.provider = "commandcenter" /\ call.provider \in Numbered \cap Asking!Provider
    BY <1>1 DEF CallInv, ProviderAt, Numbered, Asking!Provider
  <2>6. CallInv'
    <3>1. call'.expected # None => call'.expected \in Asking!Existing(call.provider)
                                   /\ call'.expected \in expired
      BY <1>1, <2>4, <2>5 DEF CallInv
    <3>2. call'.expected # None => call'.expected \in Asking!Existing("commandcenter")'
      BY <1>1, <2>1, <2>5, <3>1, GrowsFacts
    <3>3. call'.provider = ProviderAt(call'.stage) /\ call'.stage # "round"
      BY <2>4, <2>5 DEF ProviderAt
    <3>4. ~crossed' /\ call'.purpose = "chat" => call'.agent = chat'.agent
      BY <1>1, <1>3, <2>4 DEF CallInv
    <3> QED
      BY <1>1, <2>3, <2>4, <2>5, <3>1, <3>2, <3>3, <3>4 DEF CallInv, IsOf
  <2>7. UNCHANGED <<chat, turn, expired, latest, crossed>>
    BY <1>1, <1>3
  <2> QED
    BY <1>1, <2>1, <2>2, <2>4, <2>6, <2>7, ChatStays
<1> QED
  BY <1>2, <1>3 DEF Asking!CreateSession

LEMMA RefusedKeepsInv ==
  ASSUME AskingInv, Asking!Refused
  PROVE  AskingInv'
<1>1. /\ call # None /\ call.stage \in {"stream", "run"}
      /\ UNCHANGED <<turn, created, expired, heard, crossed>>
      /\ AskingTypes /\ CallInv /\ call \in Asking!Call
  BY DEF Asking!Refused, AskingInv, AskingTypes
<1>2. Grows /\ HeardInv' /\ heard' \in Seq(Heard)
  BY <1>1, HeardStays DEF Grows
<1>3. ASSUME Asking!Throw(call) PROVE AskingInv'
  BY <1>1, <1>2, <1>3, ThrowKeepsInv
<1>4. ASSUME ~Asking!IsFound(call), Asking!Recover(call)
      PROVE  AskingInv'
  <2>1. call.provider \in Numbered \cap Asking!Provider
        /\ call.provider = (IF call.stage = "stream" THEN "commandcenter" ELSE "hermes")
    BY <1>1 DEF CallInv, ProviderAt, Numbered, Asking!Provider
  <2>2. /\ call' \in Asking!Call /\ call'.id = None
        /\ call'.stage = (IF call.provider = "commandcenter" THEN "create" ELSE "run")
        /\ call'.purpose = call.purpose /\ call'.provider = call.provider
        /\ call'.agent = call.agent /\ call'.expected = call.expected
    BY <1>1, <1>4 DEF Asking!Recover, Asking!Call, Asking!Stage
  <2>3. call.expected # None => /\ call.expected \in Asking!Existing(call.provider)
                                /\ call.expected \in expired
    BY <1>1, <1>4, <2>1 DEF CallInv, Asking!IsFound, Asking!Alive
  <2>4. UNCHANGED <<chat, turn, created, expired, latest, crossed, heard>>
    BY <1>1, <1>4 DEF Asking!Recover
  <2>5. call'.provider = ProviderAt(call'.stage) /\ call'.stage # "round"
    BY <2>1, <2>2 DEF ProviderAt
  <2>6. \A p \in Numbered : call'.id \notin Asking!Existing(p)
    BY <1>1, <2>2, SessionIds DEF Numbered, Asking!Provider
  <2>7. CallInv'
    BY <1>1, <2>2, <2>3, <2>4, <2>5, <2>6 DEF CallInv, Asking!Existing
  <2> QED
    BY <1>1, <1>2, <2>2, <2>4, <2>7, ChatStays
<1>5. PICK error \in {"other"} \cup (IF Asking!IsFound(call) THEN {} ELSE {"not found"}) :
        Asking!Fails(call, error)
  BY DEF Asking!Refused
<1>6. Asking!Throw(call) \/ (~Asking!IsFound(call) /\ Asking!Recover(call))
  BY <1>5 DEF Asking!Fails, Asking!IsRecovered
<1> QED
  BY <1>3, <1>4, <1>6

LEMMA StreamedKeepsInv ==
  ASSUME AskingInv, Asking!Streamed
  PROVE  AskingInv'
<1>1. /\ call # None /\ call.stage = "stream" /\ Asking!IsFound(call)
      /\ Asking!Reaches(call, call.id)
      /\ UNCHANGED <<turn, created, expired, crossed>>
      /\ AskingTypes /\ CallInv /\ call \in Asking!Call
  BY DEF Asking!Streamed, AskingInv, AskingTypes
<1>2. call.provider = "commandcenter" /\ call.id \in Asking!Alive("commandcenter")
  BY <1>1 DEF CallInv, ProviderAt, Asking!IsFound
<1>3. /\ call.id \in 1..Len(created) /\ created[call.id].provider = call.provider
      /\ call.id \in Asking!Id
      /\ ~crossed => created[call.id] = [provider |-> call.provider, agent |-> call.agent]
  BY <1>1, <1>2, SessionIds
  DEF Asking!Alive, Asking!Existing, CallInv, IsOf, Numbered, Asking!Provider
<1>4. call.expected \notin expired \cup {None} => call.id = call.expected
  BY <1>1 DEF CallInv
<1>5. Grows
  BY <1>1 DEF Grows
<1>6. HeardInv' /\ heard' \in Seq(Heard)
  BY <1>1, <1>3, <1>4, <1>5, HeardGrows
<1>7. Asking!Return(call, call.id) \/ Asking!Throw(call)
  BY DEF Asking!Streamed, Asking!Fails, Asking!IsRecovered
<1> QED
  BY <1>1, <1>3, <1>5, <1>6, <1>7, ReturnKeepsInv, ThrowKeepsInv

LEMMA RoundRefusedKeepsInv ==
  ASSUME AskingInv, Asking!RoundRefused
  PROVE  AskingInv'
<1>1. call # None /\ Asking!Throw(call) /\ UNCHANGED <<turn, created, expired, heard, crossed>>
  BY DEF Asking!RoundRefused
<1>2. Grows
  BY <1>1 DEF Grows
<1> QED
  BY <1>1, <1>2, HeardStays, ThrowKeepsInv

LEMMA RoundKeepsInv ==
  ASSUME AskingInv, Asking!Round
  PROVE  AskingInv'
<1>1. /\ call # None /\ call.stage = "round" /\ UNCHANGED <<turn, created, expired, crossed>>
      /\ AskingTypes /\ CallInv /\ call \in Asking!Call
  BY DEF Asking!Round, AskingInv, AskingTypes
<1>2. call.provider = "openclaw" /\ call.provider \notin Numbered /\ call.id \in Asking!Id
  BY <1>1 DEF CallInv, ProviderAt, Numbered, Asking!Call
<1>3. Grows
  BY <1>1 DEF Grows
<1>4. HeardInv' /\ heard' \in Seq(Heard)
  <2>1. CASE call.round = 0
    <3>1. call.expected \notin expired \cup {None} => call.id = call.expected
      BY <1>1 DEF CallInv
    <3>2. Asking!Reaches(call, call.id)
      BY <2>1 DEF Asking!Round
    <3> QED
      BY <1>1, <1>2, <1>3, <2>1, <3>1, <3>2, HeardGrows
  <2>2. CASE call.round # 0
    <3>1. UNCHANGED heard
      BY <2>2 DEF Asking!Round
    <3> QED
      BY <1>1, <1>3, <3>1, HeardStays
  <2> QED
    BY <2>1, <2>2
<1>5. CASE Asking!Return(call, call.id)
  BY <1>1, <1>2, <1>3, <1>4, <1>5, ReturnKeepsInv
<1>6. CASE Asking!Throw(call)
  BY <1>1, <1>3, <1>4, <1>6, ThrowKeepsInv
<1>7. ASSUME call.round + 1 < RoundLimit, call' = [call EXCEPT !.round = @ + 1],
             UNCHANGED <<chat, latest>>
      PROVE  AskingInv'
  <2>1. /\ call' \in Asking!Call /\ call'.round = call.round + 1 /\ call.round \in Nat
        /\ call'.id = call.id /\ call'.stage = call.stage
        /\ call'.purpose = call.purpose /\ call'.provider = call.provider
        /\ call'.agent = call.agent /\ call'.expected = call.expected
    BY <1>1, <1>7, AskingAssumption DEF Asking!Call
  <2>2. CallInv'
    BY <1>1, <1>2, <1>7, <2>1 DEF CallInv, Numbered, Asking!Existing
  <2> QED
    BY <1>1, <1>3, <1>4, <1>7, <2>1, <2>2, ChatStays
<1> QED
  BY <1>5, <1>6, <1>7 DEF Asking!Round

LEMMA RanKeepsInv ==
  ASSUME AskingInv, Asking!Ran
  PROVE  AskingInv'
<1>1. /\ call # None /\ call.stage = "run" /\ Asking!IsFound(call)
      /\ UNCHANGED <<turn, expired, crossed>>
      /\ AskingTypes /\ CallInv /\ call \in Asking!Call
  BY DEF Asking!Ran, AskingInv, AskingTypes
<1>2. call.provider = "hermes" /\ (call.id = None \/ call.id \in Asking!Alive("hermes"))
  BY <1>1 DEF CallInv, ProviderAt, Asking!IsFound
<1>3. call.expected \notin expired \cup {None} => call.id = call.expected
  BY <1>1 DEF CallInv
<1>4. PICK id \in Asking!Id :
        /\ id = Asking!RanIn(call) /\ Grows
        /\ id \in 1..Len(created') /\ created'[id].provider = call.provider
        /\ ~crossed => created'[id] = [provider |-> call.provider, agent |-> call.agent]
        /\ call.id # None => id = call.id
  <2>1. CASE call.id # None
    <3>1. UNCHANGED created /\ Asking!RanIn(call) = call.id
      BY <2>1 DEF Asking!Ran, Asking!RanIn
    <3>2. /\ call.id \in 1..Len(created) /\ created[call.id].provider = call.provider
          /\ call.id \in Asking!Id
          /\ ~crossed => created[call.id] = [provider |-> call.provider, agent |-> call.agent]
      BY <1>1, <1>2, <2>1, SessionIds
      DEF Asking!Alive, Asking!Existing, CallInv, IsOf, Numbered, Asking!Provider
    <3> QED
      BY <3>1, <3>2 DEF Grows
  <2>2. CASE call.id = None
    <3> DEFINE s == [provider |-> "hermes", agent |-> call.agent]
    <3>1. s \in [provider : Asking!Provider, agent : AskedAgents]
      BY <1>1 DEF Asking!Call, Asking!Provider
    <3>2. s.provider = "hermes" /\ s = [provider |-> "hermes", agent |-> call.agent]
      OBVIOUS
    <3>3. Len(created) < MaxProviderSessions /\ created' = Append(created, s) /\ Grows
      BY <2>2 DEF Asking!Ran, Grows, Numbered
    <3> HIDE DEF s
    <3>4. Len(created') = Len(created) + 1 /\ created'[Len(created) + 1] = s
      BY <1>1, <3>1, <3>3, AppendProperties DEF AskingTypes
    <3>5. Len(created) \in Nat
      BY <1>1, SessionIds
    <3>6. /\ Len(created') \in 1..Len(created') /\ Len(created') \in Asking!Id
          /\ created'[Len(created')] = s
      BY <3>3, <3>4, <3>5, AskingAssumption DEF Asking!Id
    <3>7. Asking!RanIn(call) = Len(created')
      BY <2>2 DEF Asking!RanIn
    <3> QED
      BY <1>2, <2>2, <3>2, <3>3, <3>6, <3>7
  <2> QED
    BY <2>1, <2>2
<1>5. Asking!Reaches(call, id)
  BY <1>4 DEF Asking!Ran
<1>6. HeardInv' /\ heard' \in Seq(Heard)
  <2>1. call.expected \notin expired \cup {None} => id = call.expected
    BY <1>3, <1>4
  <2> QED
    BY <1>1, <1>4, <1>5, <2>1, HeardGrows
<1>7. CASE Asking!Return(call, id)
  BY <1>1, <1>4, <1>6, <1>7, ReturnKeepsInv
<1>8. CASE Asking!Return(call, call.id)
  <2>1. call.id \in Asking!Id \cup {None}
    BY <1>1 DEF Asking!Call
  <2>2. call.provider \in Numbered /\ call.id # None =>
          /\ call.id \in 1..Len(created') /\ created'[call.id].provider = call.provider
          /\ ~crossed => created'[call.id] = [provider |-> call.provider, agent |-> call.agent]
    BY <1>4
  <2> QED
    BY <1>1, <1>4, <1>6, <1>8, <2>1, <2>2, ReturnKeepsInv
<1>9. CASE Asking!Throw(call)
  BY <1>1, <1>4, <1>6, <1>9, ThrowKeepsInv
<1> QED
  BY <1>4, <1>7, <1>8, <1>9 DEF Asking!Ran, Asking!Fails, Asking!IsRecovered

LEMMA MockAnswersKeepsInv ==
  ASSUME AskingInv, Asking!MockAnswers
  PROVE  AskingInv'
<1>1. /\ call # None /\ call.stage = "mock" /\ Asking!Return(call, None)
      /\ UNCHANGED <<turn, created, expired, heard, crossed>>
  BY DEF Asking!MockAnswers
<1>2. Grows
  BY <1>1 DEF Grows
<1> QED
  BY <1>1, <1>2, HeardStays, ReturnKeepsInv

LEMMA ExpireKeepsInv ==
  ASSUME AskingInv, Asking!Expire
  PROVE  AskingInv'
<1>1. /\ expired \subseteq expired' /\ expired' \subseteq 1..Len(created)
      /\ UNCHANGED <<chat, turn, call, created, heard, latest, crossed>>
  BY DEF Asking!Expire, AskingInv, AskingTypes
<1>2. AskingTypes' /\ ChatInv'
  BY <1>1 DEF AskingInv, AskingTypes, ChatInv, IsOf, Asking!Existing
<1>3. HeardInv'
  BY <1>1 DEF AskingInv, HeardInv, IsOf
<1>4. call # None => CallInv'
  BY <1>1 DEF AskingInv, CallInv, IsOf, Asking!Existing
<1> QED
  BY <1>1, <1>2, <1>3, <1>4 DEF AskingInv

LEMMA AskingBegins ==
  ASSUME Asking!Init
  PROVE  AskingInv
<1>1. /\ turn = 0 /\ call = None /\ expired = {} /\ heard = <<>>
      /\ latest = chat.ids /\ crossed = FALSE
  BY DEF Asking!Init
<1>2. heard \in Seq(Heard) /\ HeardInv
  BY <1>1 DEF HeardInv
<1>3. ASSUME created = <<>>,
             chat \in [agent : AskedAgents, hermes : {None}, ids : [Asking!Provider -> {None}]]
      PROVE  AskingInv
  <2>1. AskingTypes
    <3>1. created \in Seq([provider : Asking!Provider, agent : AskedAgents]) /\ Len(created) = 0
      BY <1>3
    <3>2. chat \in Asking!Chat /\ latest \in [Asking!Provider -> Asking!Id \cup {None}]
      BY <1>1, <1>3 DEF Asking!Chat
    <3>3. turn \in 0..MaxAsked /\ Len(created) <= MaxProviderSessions
      BY <1>1, <3>1, AskingAssumption
    <3> QED
      BY <1>1, <1>2, <3>1, <3>2, <3>3 DEF AskingTypes
  <2>2. ChatInv
    BY <1>1, <1>3 DEF ChatInv, Numbered, Asking!Provider
  <2> QED
    BY <1>1, <1>2, <2>1, <2>2 DEF AskingInv
<1>4. ASSUME NEW p \in {"commandcenter", "hermes"}, NEW a \in AskedAgents,
             created = <<[provider |-> p, agent |-> a]>>,
             chat = [agent |-> a, hermes |-> IF p = "hermes" THEN 1 ELSE None,
                     ids |-> [q \in Asking!Provider |-> IF q = p THEN 1 ELSE None]]
      PROVE  AskingInv
  <2>1. /\ chat.agent = a /\ chat.hermes = chat.ids["hermes"]
        /\ \A q \in Asking!Provider : chat.ids[q] = IF q = p THEN 1 ELSE None
        /\ chat \in Asking!Chat /\ chat.ids \in [Asking!Provider -> Asking!Id \cup {None}]
    BY <1>4, AskingAssumption DEF Asking!Chat, Asking!Id, Asking!Provider
  <2>2. /\ created \in Seq([provider : Asking!Provider, agent : AskedAgents])
        /\ Len(created) = 1 /\ created[1] = [provider |-> p, agent |-> a]
    BY <1>4 DEF Asking!Provider
  <2>3. AskingTypes
    <3>1. turn \in 0..MaxAsked /\ Len(created) <= MaxProviderSessions
      BY <1>1, <2>2, AskingAssumption
    <3> QED
      BY <1>1, <1>2, <2>1, <2>2, <3>1 DEF AskingTypes
  <2>4. ChatInv
    BY <1>1, <2>1, <2>2 DEF ChatInv, Numbered, Asking!Provider, Asking!Existing, IsOf
  <2> QED
    BY <1>1, <1>2, <2>3, <2>4 DEF AskingInv
<1> QED
  BY <1>3, <1>4 DEF Asking!Init

LEMMA AskingInvariance == NodeSpec => []AskingInv
<1>1. NodeInit => AskingInv
  BY AskingBegins DEF NodeInit
<1>2. AskingInv /\ [NodeNext]_nodeVars => AskingInv'
  <2> SUFFICES ASSUME AskingInv, [NodeNext]_nodeVars
               PROVE  AskingInv'
    OBVIOUS
  <2>1. Asking!Next \/ UNCHANGED askingVars
    BY DEF NodeNext, nodeVars
  <2>2. ASSUME Asking!Next PROVE AskingInv'
    BY <2>2, BeginChatKeepsInv, BeginProjectKeepsInv, CreateSessionKeepsInv, RefusedKeepsInv,
       StreamedKeepsInv, RoundRefusedKeepsInv, RoundKeepsInv, RanKeepsInv, MockAnswersKeepsInv,
       ExpireKeepsInv
    DEF Asking!Next
  <2> QED
    BY <2>1, <2>2, AskingStutters
<1> QED
  BY <1>1, <1>2, PTL DEF NodeSpec

\* A message reaches one session of its provider, once: that of its agent, in
\* which the latest answer came (providerRuntime.ts, chat/sessions.ts), however
\* many turns, sessions and rounds of tools there are.
THEOREM TurnsHaveTheirSession == NodeSpec => []TurnsReachTheirSession
<1>1. AskingInv => TurnsReachTheirSession
  <2> SUFFICES ASSUME AskingInv PROVE TurnsReachTheirSession
    OBVIOUS
  <2>1. AskingTypes /\ HeardInv /\ DOMAIN heard = 1..Len(heard)
    BY SessionIds DEF AskingInv
  <2>2. Asking!HeardOnce /\ Asking!ContinuesSession
    BY <2>1 DEF HeardInv, Asking!HeardOnce, Asking!ContinuesSession
  <2>3. Asking!OwnAgentHears
    BY <2>1 DEF HeardInv, IsOf, Numbered, Asking!OwnAgentHears
  <2> QED
    BY <2>2, <2>3 DEF TurnsReachTheirSession
<1> QED
  BY <1>1, AskingInvariance, PTL

----------------------------------------------------------------------------
(* Updates and their notifications (Updates) *)

\* A clone has no installers, and a package has no commits on top of it.
CopyInv ==
  /\ copy.root = copy.version
  /\ mode = "git" => copy.version <= remote /\ launched = {}

\* What call c knows was so when it asked; a clone that it pulled has the
\* version it wanted, and the installer is still its own, unless another call
\* opened it.
CallOk(c, k) ==
  /\ k.stage \in IF mode = "git" THEN {"fetch", "ref", "count", "pull"}
                 ELSE {"release", "download", "write", "launch"}
  /\ k.purpose = "after" => mode = "git" /\ k.before \in 1..copy.version
  /\ k.stage = "count" => k.status.version \in 1..remote
  /\ k.stage \in {"pull", "download", "write", "launch"} => k.before \in 1..remote
  /\ ~overlapped /\ k.stage = "write" => installers[k.before].opener = c
  /\ ~overlapped /\ k.stage = "launch" => installers[k.before].whole

\* The version v is there, or the last call that could bring it says so.
HasVersion(v) ==
  \/ mode = "git" /\ copy.version >= v
  \/ mode = "packaged" /\ \E l \in launched : l.version = v /\ (l.whole \/ overlapped)

Announces(n) == n.kind = "available" /\ n.unread

Brought == {v \in Updating!Version : HasVersion(v)}

NotesOk(list, brought) ==
  /\ \A i, j \in 1..Len(list) :
       Announces(list[i]) /\ Announces(list[j]) /\ list[i].version = list[j].version => i = j
  /\ \A i \in 1..Len(list) :
       list[i].kind = "applied" => list[i].version \in brought

UpdatingInv ==
  /\ Updating!TypeOK /\ CopyInv /\ NotesOk(notes, Brought)
  /\ \A c \in Callers : updating[c] # None => CallOk(c, updating[c])

\* A list that is made by leaving notifications out, or by marking some as read.
LEMMA FewerNotes ==
  ASSUME NEW list \in Seq(Updating!Note), NEW fewer \in Seq(Updating!Note),
         NEW brought, NotesOk(list, brought),
         NEW m \in [1..Len(fewer) -> 1..Len(list)],
         \A i, j \in 1..Len(fewer) : m[i] = m[j] => i = j,
         \A i \in 1..Len(fewer) :
           /\ fewer[i].kind = list[m[i]].kind /\ fewer[i].version = list[m[i]].version
           /\ fewer[i].unread => list[m[i]].unread
  PROVE  NotesOk(fewer, brought)
<1>1. ASSUME NEW i \in 1..Len(fewer), NEW j \in 1..Len(fewer),
             Announces(fewer[i]), Announces(fewer[j]), fewer[i].version = fewer[j].version
      PROVE  i = j
  <2>1. Announces(list[m[i]]) /\ Announces(list[m[j]]) /\ list[m[i]].version = list[m[j]].version
    BY <1>1 DEF Announces
  <2>2. m[i] \in 1..Len(list) /\ m[j] \in 1..Len(list)
    OBVIOUS
  <2>3. m[i] = m[j]
    BY <2>1, <2>2 DEF NotesOk
  <2> QED
    BY <2>3
<1>2. ASSUME NEW i \in 1..Len(fewer), fewer[i].kind = "applied"
      PROVE  fewer[i].version \in brought
  <2>1. /\ m[i] \in 1..Len(list) /\ list[m[i]].kind = "applied"
        /\ fewer[i].version = list[m[i]].version
    BY <1>2
  <2> QED
    BY <2>1 DEF NotesOk
<1> QED
  BY <1>1, <1>2 DEF NotesOk

\* What add does with the list: the oldest notifications go.
LEMMA TrimmedNotes ==
  ASSUME NEW list \in Seq(Updating!Note), NEW brought, NotesOk(list, brought)
  PROVE  /\ Updating!Trimmed(list) \in Seq(Updating!Note)
         /\ Len(Updating!Trimmed(list)) <= NoteLimit
         /\ NotesOk(Updating!Trimmed(list), brought)
<1>1. Len(list) \in Nat /\ \A i \in 1..Len(list) : list[i] \in Updating!Note
  BY LenProperties, ElementOfSeq
<1>2. PICK k \in 1..(Len(list) + 1) :
        k = (IF Len(list) > NoteLimit THEN Len(list) - NoteLimit + 1 ELSE 1)
  <2>1. (IF Len(list) > NoteLimit THEN Len(list) - NoteLimit + 1 ELSE 1) \in 1..(Len(list) + 1)
    BY <1>1, UpdatingAssumption
  <2> QED
    BY <2>1
<1> DEFINE fewer == SubSeq(list, k, Len(list))
<1>3. Updating!Trimmed(list) = fewer
  BY <1>2 DEF Updating!Trimmed
<1>4. /\ fewer \in Seq(Updating!Note)
      /\ Len(fewer) = Len(list) - k + 1
      /\ \A i \in 1..Len(fewer) : fewer[i] = list[k + i - 1]
  <2>1. \A i \in k..Len(list) : list[i] \in Updating!Note
    BY <1>1
  <2> QED
    BY <1>1, <2>1, SubSeqProperties
<1> HIDE DEF fewer
<1> DEFINE m == [i \in 1..Len(fewer) |-> k + i - 1]
<1>5. m \in [1..Len(fewer) -> 1..Len(list)] /\ \A i \in 1..Len(fewer) : m[i] = k + i - 1
  BY <1>1, <1>4
<1> HIDE DEF m
<1>6. \A i, j \in 1..Len(fewer) : m[i] = m[j] => i = j
  BY <1>1, <1>4, <1>5
<1>7. \A i \in 1..Len(fewer) :
        /\ fewer[i].kind = list[m[i]].kind /\ fewer[i].version = list[m[i]].version
        /\ fewer[i].unread => list[m[i]].unread
  BY <1>4, <1>5
<1>8. NotesOk(fewer, brought)
  BY <1>4, <1>5, <1>6, <1>7, FewerNotes
<1>9. Len(fewer) <= NoteLimit
  BY <1>1, <1>2, <1>4, UpdatingAssumption
<1> QED
  BY <1>3, <1>4, <1>8, <1>9

\* What add does with a notification: no version is announced that is, and one
\* that was applied is there.
LEMMA AddedNotes ==
  ASSUME notes \in Seq(Updating!Note), NEW brought, NotesOk(notes, brought),
         NEW kind \in {"available", "applied", "checked", "failed"},
         NEW v \in Updating!Version \cup {None},
         kind = "available" => ~Updating!IsAnnounced(v),
         kind = "applied" => v \in brought
  PROVE  /\ Updating!Added(kind, v) \in Seq(Updating!Note)
         /\ Len(Updating!Added(kind, v)) <= NoteLimit
         /\ NotesOk(Updating!Added(kind, v), brought)
<1> DEFINE n == [kind |-> kind, version |-> v, unread |-> TRUE]
           list == Append(notes, n)
<1>1. n \in Updating!Note /\ n.kind = kind /\ n.version = v /\ n.unread
  BY DEF Updating!Note
<1>2. Updating!Added(kind, v) = Updating!Trimmed(list)
  BY DEF Updating!Added
<1>3. \A i \in 1..Len(notes) : notes[i] # n \/ kind # "available"
  BY DEF Updating!IsAnnounced
<1>4. \A i \in 1..Len(notes) :
        Announces(notes[i]) /\ notes[i].version = v => kind # "available"
  <2>1. ASSUME NEW i \in 1..Len(notes), Announces(notes[i]), notes[i].version = v,
               kind = "available"
        PROVE  FALSE
    <3>1. notes[i] \in Updating!Note
      BY ElementOfSeq
    <3>2. notes[i] = n
      BY <2>1, <3>1 DEF Announces, Updating!Note
    <3> QED
      BY <1>3, <2>1, <3>2
  <2> QED
    BY <2>1
<1> HIDE DEF n
<1>5. /\ list \in Seq(Updating!Note) /\ Len(list) = Len(notes) + 1 /\ Len(notes) \in Nat
      /\ \A i \in 1..Len(notes) : list[i] = notes[i]
      /\ list[Len(notes) + 1] = n
  BY <1>1, AppendProperties, LenProperties
<1> HIDE DEF list
<1>6. \A i \in 1..Len(list) : i = Len(notes) + 1 \/ i \in 1..Len(notes)
  BY <1>5
<1>7. NotesOk(list, brought)
  <2>1. ASSUME NEW i \in 1..Len(list), NEW j \in 1..Len(list),
               Announces(list[i]), Announces(list[j]), list[i].version = list[j].version
        PROVE  i = j
    <3>1. CASE i \in 1..Len(notes) /\ j \in 1..Len(notes)
      BY <1>5, <2>1, <3>1 DEF NotesOk
    <3>2. CASE i = Len(notes) + 1 /\ j \in 1..Len(notes)
      BY <1>1, <1>4, <1>5, <2>1, <3>2 DEF Announces
    <3>3. CASE j = Len(notes) + 1 /\ i \in 1..Len(notes)
      BY <1>1, <1>4, <1>5, <2>1, <3>3 DEF Announces
    <3> QED
      BY <1>6, <3>1, <3>2, <3>3
  <2>2. ASSUME NEW i \in 1..Len(list), list[i].kind = "applied"
        PROVE  list[i].version \in brought
    BY <1>1, <1>5, <1>6, <2>2 DEF NotesOk
  <2> QED
    BY <2>1, <2>2 DEF NotesOk
<1> QED
  BY <1>2, <1>5, <1>7, TrimmedNotes

\* A sequence without one of its elements.
LEMMA Removed ==
  ASSUME NEW S, NEW list \in Seq(S), NEW k \in 1..Len(list)
  PROVE  \E less \in Seq(S) :
           /\ less = SubSeq(list, 1, k - 1) \o SubSeq(list, k + 1, Len(list))
           /\ Len(less) = Len(list) - 1
           /\ \A i \in 1..(Len(list) - 1) : less[i] = list[IF i < k THEN i ELSE i + 1]
<1>1. Len(list) \in Nat /\ \A i \in 1..Len(list) : list[i] \in S
  BY LenProperties, ElementOfSeq
<1> DEFINE front == SubSeq(list, 1, k - 1)
           back == SubSeq(list, k + 1, Len(list))
           less == front \o back
<1>2. /\ front \in Seq(S) /\ Len(front) = k - 1
      /\ \A i \in 1..(k - 1) : front[i] = list[i]
  BY <1>1, SubSeqProperties
<1>3. /\ back \in Seq(S) /\ Len(back) = Len(list) - k
      /\ \A i \in 1..(Len(list) - k) : back[i] = list[k + i]
  BY <1>1, SubSeqProperties
<1> HIDE DEF front, back
<1>4. /\ less \in Seq(S) /\ Len(less) = Len(front) + Len(back)
      /\ \A i \in 1..(Len(front) + Len(back)) :
           less[i] = IF i <= Len(front) THEN front[i] ELSE back[i - Len(front)]
  BY <1>2, <1>3, ConcatProperties
<1> HIDE DEF less
<1>5. /\ Len(less) = Len(list) - 1
      /\ \A i \in 1..(Len(list) - 1) : less[i] = list[IF i < k THEN i ELSE i + 1]
  BY <1>1, <1>2, <1>3, <1>4, SMTT(40)
<1>6. less = SubSeq(list, 1, k - 1) \o SubSeq(list, k + 1, Len(list))
  BY DEF less, front, back
<1> QED
  BY <1>4, <1>5, <1>6

LEMMA UpdatesStutter ==
  ASSUME UpdatingInv, UNCHANGED updateVars
  PROVE  UpdatingInv'
BY DEF updateVars, UpdatingInv, Updating!TypeOK, CopyInv, CallOk, NotesOk, Brought, HasVersion

\* What was brought stays.
LEMMA BroughtGrows ==
  ASSUME UpdatingInv, mode' = mode, copy' \in Updating!Copy,
         mode = "git" => copy.version <= copy'.version,
         launched \subseteq launched', overlapped => overlapped'
  PROVE  Brought \subseteq Brought' /\ NotesOk(notes, Brought')
<1>1. Brought \subseteq Brought'
  BY UpdatingAssumption
  DEF UpdatingInv, Updating!TypeOK, Brought, HasVersion, Updating!Copy, Updating!Version
<1> QED
  BY <1>1 DEF UpdatingInv, NotesOk

\* A notification is added, or switched off.
LEMMA NotesGrow ==
  ASSUME UpdatingInv, NotesOk(notes, Brought'),
         NEW kind \in {"available", "applied", "checked", "failed"},
         NEW v \in Updating!Version \cup {None},
         kind = "available" => ~Updating!IsAnnounced(v),
         kind = "applied" => v \in Brought',
         Updating!AddNotification(kind, v)
  PROVE  notes' \in Seq(Updating!Note) /\ Len(notes') <= NoteLimit /\ NotesOk(notes', Brought')
<1>1. notes \in Seq(Updating!Note) /\ Len(notes) <= NoteLimit
  BY DEF UpdatingInv, Updating!TypeOK
<1>2. notes' = notes \/ notes' = Updating!Added(kind, v)
  BY DEF Updating!AddNotification
<1>3. PICK brought : brought = Brought'
  OBVIOUS
<1> QED
  BY <1>1, <1>2, <1>3, AddedNotes

\* A step of call c that leaves the installers alone.
LEMMA CallSteps ==
  ASSUME UpdatingInv, NEW c \in Callers, NEW k \in {None} \cup Updating!Call,
         updating' = [updating EXCEPT ![c] = k], k # None => CallOk(c, k)',
         UNCHANGED <<mode, remote, installers, launched, overlapped>>,
         made' \in 0..MaxUpdateCalls, fetched' \in 1..remote, copy' \in Updating!Copy,
         CopyInv', copy.version <= copy'.version,
         notes' \in Seq(Updating!Note), Len(notes') <= NoteLimit, NotesOk(notes', Brought')
  PROVE  UpdatingInv'
<1>1. Updating!TypeOK /\ CopyInv
  BY DEF UpdatingInv
<1>2. updating' \in [Callers -> {None} \cup Updating!Call]
  BY <1>1 DEF Updating!TypeOK
<1>3. Updating!TypeOK'
  BY <1>1, <1>2 DEF Updating!TypeOK
<1>4. ASSUME NEW d \in Callers, updating'[d] # None, d # c
      PROVE  CallOk(d, updating[d])'
  <2>1. updating[d] = updating'[d] /\ updating[d] \in Updating!Call
    BY <1>1, <1>4 DEF Updating!TypeOK
  <2>2. PICK l \in Updating!Call : l = updating[d] /\ l = updating'[d]
    BY <2>1
  <2>3. CallOk(d, l)
    BY <1>4, <2>2 DEF UpdatingInv
  <2>4. CallOk(d, l)'
    <3>1. copy.version \in Int /\ copy'.version \in Int
      BY <1>1 DEF Updating!TypeOK, Updating!Copy, Updating!Version
    <3> QED
      BY <2>3, <3>1 DEF CallOk
  <2> QED
    BY <2>2, <2>4
<1>5. \A d \in Callers : updating'[d] # None => CallOk(d, updating[d])'
  <2>1. k # None => CallOk(c, updating[c])'
    BY <1>1 DEF Updating!TypeOK
  <2>2. updating'[c] = k
    BY <1>1 DEF Updating!TypeOK
  <2> QED
    BY <1>4, <2>1, <2>2
<1> QED
  BY <1>3, <1>5 DEF UpdatingInv

LEMMA UpdatesBegin ==
  ASSUME Updating!Init
  PROVE  UpdatingInv
<1>1. /\ mode \in {"git", "packaged"} /\ remote = 1 /\ fetched = 1
      /\ copy.version = 1 /\ copy.own = 0 /\ copy.root = 1 /\ copy \in Updating!Copy
      /\ launched = {} /\ notes = <<>> /\ made = 0 /\ overlapped = FALSE
      /\ updating \in [Callers -> {None} \cup Updating!Call]
      /\ \A c \in Callers : updating[c] = None
      /\ installers \in [Updating!Version -> Updating!Installer]
  BY UpdatingAssumption
  DEF Updating!Init, Updating!Copy, Updating!Version, Updating!Installer
<1>2. 1 \in Updating!Version /\ 1 \in 1..1
  BY UpdatingAssumption DEF Updating!Version
<1>3. notes \in Seq(Updating!Note) /\ Len(notes) = 0
  BY <1>1
<1>4. Updating!TypeOK
  <2>1. /\ remote \in Updating!Version /\ fetched \in 1..remote /\ Len(notes) <= NoteLimit
        /\ made \in 0..MaxUpdateCalls
    BY <1>1, <1>2, <1>3, UpdatingAssumption
  <2>3. overlapped \in BOOLEAN
    BY <1>1
  <2>2. launched \subseteq Updating!Launched
    BY <1>1
  <2> QED
    BY <1>1, <1>3, <2>1, <2>2, <2>3 DEF Updating!TypeOK
<1>5. CopyInv /\ NotesOk(notes, Brought)
  BY <1>1, <1>3 DEF CopyInv, NotesOk
<1> QED
  BY <1>1, <1>4, <1>5 DEF UpdatingInv

\* What the definition says of a call that asks for the status.
LEMMA StatusCall ==
  ASSUME mode \in {"git", "packaged"}, NEW l \in Updating!Call,
         NEW purpose \in {"look", "before", "after"}
  PROVE  \E k \in Updating!Call :
           /\ Updating!GetUpdateStatus(l, purpose) = k
           /\ k.kind = l.kind /\ k.enabled = l.enabled /\ k.before = l.before
           /\ k.purpose = purpose
           /\ k.stage = (IF mode = "git" THEN "fetch" ELSE "release")
<1> DEFINE k == Updating!GetUpdateStatus(l, purpose)
<1>1. Updating!Unknown \in Updating!Status
  BY DEF Updating!Unknown, Updating!Status
<1>2. /\ k \in Updating!Call
      /\ k.kind = l.kind /\ k.enabled = l.enabled /\ k.before = l.before
      /\ k.purpose = purpose
      /\ k.stage = (IF mode = "git" THEN "fetch" ELSE "release")
  BY <1>1 DEF Updating!GetUpdateStatus, Updating!Call
<1> HIDE DEF k
<1>3. Updating!GetUpdateStatus(l, purpose) = k
  BY DEF k
<1> QED
  BY <1>2, <1>3

LEMMA BeginKeepsInv ==
  ASSUME UpdatingInv, NEW c \in Callers, Updating!Begin(c)
  PROVE  UpdatingInv'
<1>1. /\ updating[c] = None /\ made < MaxUpdateCalls /\ made' = made + 1
      /\ UNCHANGED <<mode, remote, fetched, copy, installers, launched, notes, overlapped>>
  BY DEF Updating!Begin
<1>2. Updating!TypeOK /\ CopyInv
  BY DEF UpdatingInv
<1>3. PICK kind \in {"configured", "check", "apply"}, enabled \in BOOLEAN :
        updating' = [updating EXCEPT ![c] = Updating!GetUpdateStatus(
          [kind |-> kind, enabled |-> kind = "configured" /\ enabled, purpose |-> "look",
           stage |-> "fetch", status |-> Updating!Unknown, before |-> None],
          IF kind = "apply" THEN "before" ELSE "look")]
  BY DEF Updating!Begin
<1> DEFINE l == [kind |-> kind, enabled |-> kind = "configured" /\ enabled, purpose |-> "look",
                 stage |-> "fetch", status |-> Updating!Unknown, before |-> None]
           purpose == IF kind = "apply" THEN "before" ELSE "look"
<1>4. l \in Updating!Call /\ purpose \in {"look", "before", "after"} /\ purpose # "after"
  BY DEF Updating!Call, Updating!Unknown, Updating!Status
<1>5. updating' = [updating EXCEPT ![c] = Updating!GetUpdateStatus(l, purpose)]
  BY <1>3
<1> HIDE DEF l, purpose
<1>6. mode \in {"git", "packaged"}
  BY <1>2 DEF Updating!TypeOK
<1>7. PICK k \in Updating!Call :
        /\ Updating!GetUpdateStatus(l, purpose) = k
        /\ k.purpose = purpose
        /\ k.stage = (IF mode = "git" THEN "fetch" ELSE "release")
  BY <1>4, <1>6, StatusCall
<1>8. CallOk(c, k)'
  BY <1>1, <1>4, <1>7 DEF CallOk
<1>9. /\ copy' \in Updating!Copy /\ fetched' \in 1..remote /\ CopyInv'
      /\ copy.version <= copy'.version
      /\ made' \in 0..MaxUpdateCalls /\ notes' \in Seq(Updating!Note) /\ Len(notes') <= NoteLimit
  BY <1>1, <1>2, UpdatingAssumption
  DEF Updating!TypeOK, CopyInv, Updating!Copy, Updating!Version
<1>10. NotesOk(notes', Brought')
  BY <1>1, <1>9, BroughtGrows
<1> QED
  BY <1>1, <1>5, <1>7, <1>8, <1>9, <1>10, CallSteps

\* What every step of a call does, but for those that have an installer.
CallFrame ==
  /\ UNCHANGED <<mode, remote, installers, launched, made, overlapped>>
  /\ fetched' \in 1..remote /\ copy' \in Updating!Copy /\ CopyInv' /\ copy.version <= copy'.version

LEMMA FrameFacts ==
  ASSUME UpdatingInv, CallFrame
  PROVE  made' \in 0..MaxUpdateCalls /\ NotesOk(notes, Brought')
<1>1. NotesOk(notes, Brought')
  BY BroughtGrows DEF CallFrame
<1> QED
  BY <1>1 DEF CallFrame, UpdatingInv, Updating!TypeOK

LEMMA GoKeepsInv ==
  ASSUME UpdatingInv, CallFrame, NEW c \in Callers, NEW k \in Updating!Call,
         Updating!Go(c, k), CallOk(c, k)'
  PROVE  UpdatingInv'
<1>1. updating' = [updating EXCEPT ![c] = k] /\ notes' = notes
  BY DEF Updating!Go
<1>2. notes' \in Seq(Updating!Note) /\ Len(notes') <= NoteLimit
  BY <1>1 DEF UpdatingInv, Updating!TypeOK
<1> QED
  BY <1>1, <1>2, FrameFacts, CallSteps DEF CallFrame

LEMMA EndsQuietly ==
  ASSUME UpdatingInv, CallFrame, NEW c \in Callers, Updating!End(c), UNCHANGED notes
  PROVE  UpdatingInv'
<1>1. updating' = [updating EXCEPT ![c] = None]
  BY DEF Updating!End
<1>2. notes' \in Seq(Updating!Note) /\ Len(notes') <= NoteLimit
  BY DEF UpdatingInv, Updating!TypeOK
<1> QED
  BY <1>1, <1>2, FrameFacts, CallSteps DEF CallFrame

LEMMA EndsWithNotification ==
  ASSUME UpdatingInv, CallFrame, NEW c \in Callers, Updating!End(c),
         NEW kind \in {"available", "applied", "checked", "failed"},
         NEW v \in Updating!Version \cup {None},
         kind = "available" => ~Updating!IsAnnounced(v),
         kind = "applied" => v \in Brought',
         Updating!AddNotification(kind, v)
  PROVE  UpdatingInv'
<1>1. updating' = [updating EXCEPT ![c] = None]
  BY DEF Updating!End
<1>2. notes' \in Seq(Updating!Note) /\ Len(notes') <= NoteLimit /\ NotesOk(notes', Brought')
  BY FrameFacts, NotesGrow
<1> QED
  BY <1>1, <1>2, FrameFacts, CallSteps DEF CallFrame

LEMMA ThrowsInUpdate ==
  ASSUME UpdatingInv, CallFrame, NEW c \in Callers, Updating!Throw(c)
  PROVE  UpdatingInv'
<1>1. Updating!End(c) /\ (Updating!AddNotification("failed", None) \/ UNCHANGED notes)
  BY DEF Updating!Throw
<1>2. None \in Updating!Version \cup {None}
      /\ "failed" \in {"available", "applied", "checked", "failed"}
  OBVIOUS
<1>3. CASE Updating!AddNotification("failed", None)
  BY <1>1, <1>2, <1>3, EndsWithNotification
<1> QED
  BY <1>1, <1>3, EndsQuietly

\* The status that the call asked for is what GitHub's branch or release was.
LEMMA ApplyKeepsInv ==
  ASSUME UpdatingInv, CallFrame, NEW c \in Callers, updating[c] # None,
         updating[c].purpose # "after",
         NEW status \in Updating!Status, status.behind => status.version \in 1..remote,
         Updating!Apply(c, status)
  PROVE  UpdatingInv'
<1>1. Updating!TypeOK /\ updating[c] \in Updating!Call
  BY DEF UpdatingInv, Updating!TypeOK
<1>2. ASSUME Updating!End(c), Updating!NotifyUpdateApplied(FALSE, status.version)
      PROVE  UpdatingInv'
  <2>1. /\ Updating!AddNotification("checked", status.version)
        /\ "checked" \in {"available", "applied", "checked", "failed"}
        /\ status.version \in Updating!Version \cup {None}
    BY <1>2 DEF Updating!NotifyUpdateApplied, Updating!Status
  <2> QED
    BY <1>2, <2>1, EndsWithNotification
<1>3. ASSUME status.behind,
             Updating!Go(c, [updating[c] EXCEPT !.status = status, !.before = status.version,
                               !.stage = IF mode = "git" THEN "pull" ELSE "download"])
      PROVE  UpdatingInv'
  <2>1. PICK k \in Updating!Call :
          /\ k = [updating[c] EXCEPT !.status = status, !.before = status.version,
                    !.stage = IF mode = "git" THEN "pull" ELSE "download"]
          /\ k.purpose = updating[c].purpose /\ k.before = status.version
          /\ k.stage = (IF mode = "git" THEN "pull" ELSE "download")
    <3> DEFINE k == [updating[c] EXCEPT !.status = status, !.before = status.version,
                       !.stage = IF mode = "git" THEN "pull" ELSE "download"]
    <3>1. /\ k \in Updating!Call /\ k.purpose = updating[c].purpose /\ k.before = status.version
          /\ k.stage = (IF mode = "git" THEN "pull" ELSE "download")
      BY <1>1 DEF Updating!Call, Updating!Status
    <3> QED
      BY <3>1
  <2>2. Updating!Go(c, k)
    BY <1>3, <2>1
  <2>3. mode' = mode /\ remote' = remote /\ k.purpose # "after" /\ mode \in {"git", "packaged"}
    BY <1>1, <2>1 DEF CallFrame, Updating!TypeOK
  <2>4. CallOk(c, k)'
    BY <1>3, <2>1, <2>3 DEF CallOk
  <2> QED
    BY <2>2, <2>4, GoKeepsInv
<1> QED
  BY <1>2, <1>3, ThrowsInUpdate DEF Updating!Apply

LEMMA KnownKeepsInv ==
  ASSUME UpdatingInv, CallFrame, NEW c \in Callers, updating[c] # None,
         NEW status \in Updating!Status, status.behind => status.version \in 1..remote,
         Updating!Known(c, status)
  PROVE  UpdatingInv'
<1>1. /\ Updating!TypeOK /\ updating[c] \in Updating!Call /\ CallOk(c, updating[c])
      /\ mode \in {"git", "packaged"}
  BY DEF UpdatingInv, Updating!TypeOK
<1>2. CASE updating[c].purpose = "before"
  BY <1>2, ApplyKeepsInv DEF Updating!Known
<1>3. CASE updating[c].purpose = "after"
  <2>1. Updating!End(c) /\ Updating!AddNotification("applied", updating[c].before)
    BY <1>3 DEF Updating!Known, Updating!NotifyUpdateApplied
  <2>2. PICK v \in Updating!Version : v = updating[c].before /\ v <= copy.version /\ mode = "git"
    <3>1. copy.version \in 1..MaxVersion /\ MaxVersion \in Nat
      BY <1>1, UpdatingAssumption DEF Updating!TypeOK, Updating!Copy, Updating!Version
    <3>2. updating[c].before \in 1..copy.version /\ mode = "git"
      BY <1>1, <1>3 DEF CallOk
    <3> QED
      BY <3>1, <3>2 DEF Updating!Version
  <2>3. v \in Brought'
    BY <1>1, <2>2
    DEF Brought, HasVersion, CallFrame, Updating!TypeOK, Updating!Copy, Updating!Version
  <2>4. "applied" \in {"available", "applied", "checked", "failed"}
    OBVIOUS
  <2> QED
    BY <2>1, <2>2, <2>3, <2>4, EndsWithNotification
<1>4. ASSUME Updating!Go(c, Updating!GetUpdateStatus(updating[c], "before"))
      PROVE  UpdatingInv'
  <2>1. PICK k \in Updating!Call :
          /\ Updating!GetUpdateStatus(updating[c], "before") = k
          /\ k.purpose = "before"
          /\ k.stage = (IF mode = "git" THEN "fetch" ELSE "release")
    BY <1>1, StatusCall
  <2>2. CallOk(c, k)'
    BY <1>1, <2>1 DEF CallOk, CallFrame
  <2> QED
    BY <1>4, <2>1, <2>2, GoKeepsInv
<1>5. ASSUME Updating!End(c), Updating!NotifyUpdateAvailable(status)
      PROVE  UpdatingInv'
  <2>1. CASE status.behind /\ ~Updating!IsAnnounced(status.version)
    <3>1. /\ Updating!AddNotification("available", status.version)
          /\ "available" \in {"available", "applied", "checked", "failed"}
          /\ status.version \in Updating!Version \cup {None}
      BY <1>5, <2>1 DEF Updating!NotifyUpdateAvailable, Updating!Status
    <3> QED
      BY <1>5, <2>1, <3>1, EndsWithNotification
  <2>2. CASE ~(status.behind /\ ~Updating!IsAnnounced(status.version))
    BY <1>5, <2>2, EndsQuietly DEF Updating!NotifyUpdateAvailable
  <2> QED
    BY <2>1, <2>2
<1> QED
  BY <1>2, <1>3, <1>4, <1>5 DEF Updating!Known

\* What the invariant says of the call of a step.
LEMMA AtFacts ==
  ASSUME UpdatingInv, NEW c \in Callers, updating[c] # None
  PROVE  /\ Updating!TypeOK /\ CopyInv /\ mode \in {"git", "packaged"}
         /\ updating[c] \in Updating!Call /\ CallOk(c, updating[c])
         /\ MaxVersion \in Nat /\ remote \in 1..MaxVersion /\ fetched \in 1..remote
         /\ copy \in Updating!Copy /\ copy.version \in 1..MaxVersion
BY UpdatingAssumption DEF UpdatingInv, Updating!TypeOK, Updating!Copy, Updating!Version

LEMMA FetchKeepsInv ==
  ASSUME UpdatingInv, NEW c \in Callers, Updating!Fetch(c)
  PROVE  UpdatingInv'
<1>1. /\ updating[c] # None /\ updating[c].stage = "fetch" /\ fetched' = remote
      /\ UNCHANGED <<mode, remote, copy, installers, launched, made, overlapped>>
  BY DEF Updating!Fetch, Updating!At
<1>2. PICK k \in Updating!Call :
        /\ k = [updating[c] EXCEPT !.stage = "ref"]
        /\ k.stage = "ref" /\ k.purpose = updating[c].purpose /\ k.before = updating[c].before
  <2> DEFINE k == [updating[c] EXCEPT !.stage = "ref"]
  <2>1. /\ k \in Updating!Call
        /\ k.stage = "ref" /\ k.purpose = updating[c].purpose /\ k.before = updating[c].before
    BY <1>1, AtFacts DEF Updating!Call
  <2> QED
    BY <2>1
<1>3. Updating!Go(c, k)
  BY <1>2 DEF Updating!Fetch
<1>4. CallFrame
  BY <1>1, AtFacts DEF CallFrame, CopyInv
<1>5. CallOk(c, k)'
  BY <1>1, <1>2, AtFacts DEF CallOk
<1> QED
  BY <1>3, <1>4, <1>5, GoKeepsInv

LEMMA RefKeepsInv ==
  ASSUME UpdatingInv, NEW c \in Callers, Updating!Ref(c)
  PROVE  UpdatingInv'
<1>1. /\ updating[c] # None /\ updating[c].stage = "ref"
      /\ UNCHANGED <<mode, remote, fetched, copy, installers, launched, made, overlapped>>
  BY DEF Updating!Ref, Updating!At
<1>2. PICK k \in Updating!Call :
        /\ k = [updating[c] EXCEPT !.stage = "count", !.status.version = fetched]
        /\ k.stage = "count" /\ k.purpose = updating[c].purpose /\ k.before = updating[c].before
        /\ k.status.version = fetched
  <2> DEFINE k == [updating[c] EXCEPT !.stage = "count", !.status.version = fetched]
  <2>1. fetched \in Updating!Version
    BY <1>1, AtFacts DEF Updating!Version
  <2>2. updating[c].status \in Updating!Status
    BY <1>1, AtFacts DEF Updating!Call
  <2>3. /\ [updating[c].status EXCEPT !.version = fetched] \in Updating!Status
        /\ [updating[c].status EXCEPT !.version = fetched].version = fetched
    BY <2>1, <2>2 DEF Updating!Status
  <2>4. /\ k \in Updating!Call
        /\ k.stage = "count" /\ k.purpose = updating[c].purpose /\ k.before = updating[c].before
        /\ k.status.version = fetched
    BY <1>1, <2>3, AtFacts DEF Updating!Call
  <2> QED
    BY <2>4
<1>3. Updating!Go(c, k)
  BY <1>2 DEF Updating!Ref
<1>4. CallFrame
  BY <1>1, AtFacts DEF CallFrame, CopyInv
<1>5. CallOk(c, k)'
  BY <1>1, <1>2, AtFacts DEF CallOk
<1> QED
  BY <1>3, <1>4, <1>5, GoKeepsInv

LEMMA CountKeepsInv ==
  ASSUME UpdatingInv, NEW c \in Callers, Updating!Count(c)
  PROVE  UpdatingInv'
<1>1. /\ updating[c] # None /\ updating[c].stage = "count"
      /\ UNCHANGED <<mode, remote, fetched, copy, installers, launched, made, overlapped>>
  BY DEF Updating!Count, Updating!At
<1>2. PICK status \in Updating!Status :
        /\ status = [updating[c].status EXCEPT !.behind = copy.version < fetched,
                                               !.ahead = copy.own > 0]
        /\ status.version = updating[c].status.version
  <2> DEFINE status == [updating[c].status EXCEPT !.behind = copy.version < fetched,
                                                  !.ahead = copy.own > 0]
  <2>1. updating[c].status \in Updating!Status
    BY <1>1, AtFacts DEF Updating!Call
  <2>2. PICK behind \in BOOLEAN, ahead \in BOOLEAN :
          behind = (copy.version < fetched) /\ ahead = (copy.own > 0)
    <3>1. (copy.version < fetched) \in BOOLEAN
      BY SMT
    <3>2. (copy.own > 0) \in BOOLEAN
      BY SMT
    <3> QED
      BY <3>1, <3>2, Zenon
  <2>3. status = [updating[c].status EXCEPT !.behind = behind, !.ahead = ahead]
    BY <2>2, Zenon
  <2>4. status \in Updating!Status /\ status.version = updating[c].status.version
    <3> HIDE DEF status
    <3> QED
      BY <2>1, <2>3 DEF Updating!Status
  <2> QED
    BY <2>4
<1>3. Updating!Known(c, status)
  BY <1>2 DEF Updating!Count
<1>4. CallFrame
  BY <1>1, AtFacts DEF CallFrame, CopyInv
<1>5. status.version \in 1..remote
  BY <1>1, <1>2, AtFacts DEF CallOk
<1> QED
  BY <1>1, <1>3, <1>4, <1>5, KnownKeepsInv

LEMMA PullKeepsInv ==
  ASSUME UpdatingInv, NEW c \in Callers, Updating!Pull(c)
  PROVE  UpdatingInv'
<1>1. /\ updating[c] # None /\ updating[c].stage = "pull" /\ fetched' = remote
      /\ UNCHANGED <<mode, remote, installers, launched, made, overlapped>>
  BY DEF Updating!Pull, Updating!At
<1>2. mode = "git" /\ copy.version <= remote /\ launched = {} /\ updating[c].before \in 1..remote
  BY <1>1, AtFacts DEF CallOk, CopyInv
<1>3. ASSUME copy' \in Updating!Pulled,
             Updating!Go(c, Updating!GetUpdateStatus(updating[c], "after"))
      PROVE  UpdatingInv'
  <2>1. copy' \in Updating!Copy /\ copy'.version = remote /\ copy'.root = remote
    <3>1. copy \in Updating!Copy /\ copy.root = copy.version /\ remote \in Updating!Version
      BY <1>1, AtFacts DEF CopyInv, Updating!Version
    <3> QED
      BY <1>3, <3>1 DEF Updating!Pulled, Updating!Copy
  <2>2. CallFrame
    BY <1>1, <1>2, <2>1, AtFacts DEF CallFrame, CopyInv
  <2>3. PICK k \in Updating!Call :
          /\ Updating!GetUpdateStatus(updating[c], "after") = k
          /\ k.purpose = "after" /\ k.before = updating[c].before
          /\ k.stage = (IF mode = "git" THEN "fetch" ELSE "release")
    BY <1>1, AtFacts, StatusCall
  <2>4. CallOk(c, k)'
    BY <1>1, <1>2, <2>1, <2>3 DEF CallOk
  <2> QED
    BY <1>3, <2>2, <2>3, <2>4, GoKeepsInv
<1>4. ASSUME UNCHANGED copy, Updating!Throw(c)
      PROVE  UpdatingInv'
  <2>1. CallFrame
    BY <1>1, <1>4, AtFacts DEF CallFrame, CopyInv
  <2> QED
    BY <1>4, <2>1, ThrowsInUpdate
<1> QED
  BY <1>3, <1>4 DEF Updating!Pull

LEMMA ReleaseKeepsInv ==
  ASSUME UpdatingInv, NEW c \in Callers, Updating!Release(c)
  PROVE  UpdatingInv'
<1>1. /\ updating[c] # None
      /\ UNCHANGED <<mode, remote, fetched, copy, installers, launched, made, overlapped>>
  BY DEF Updating!Release, Updating!At
<1>2. CallFrame
  BY <1>1, AtFacts DEF CallFrame, CopyInv
<1>3. PICK status \in Updating!Status :
        Updating!Known(c, status) /\ (status.behind => status.version \in 1..remote)
  <2> DEFINE found == [version |-> remote, behind |-> copy.version < remote, ahead |-> FALSE]
  <2>1. remote \in Updating!Version /\ remote \in 1..remote
    BY <1>1, AtFacts DEF Updating!Version
  <2>2. found \in Updating!Status /\ found.version \in 1..remote
    BY <2>1 DEF Updating!Status
  <2>3. Updating!Unknown \in Updating!Status /\ ~Updating!Unknown.behind
    BY DEF Updating!Unknown, Updating!Status
  <2> QED
    BY <2>2, <2>3 DEF Updating!Release
<1> QED
  BY <1>1, <1>2, <1>3, KnownKeepsInv

LEMMA FailKeepsInv ==
  ASSUME UpdatingInv, NEW c \in Callers, Updating!Fail(c)
  PROVE  UpdatingInv'
<1>1. /\ updating[c] # None /\ Updating!Throw(c)
      /\ UNCHANGED <<mode, remote, fetched, copy, installers, launched, made, overlapped>>
  BY DEF Updating!Fail
<1>2. CallFrame
  BY <1>1, AtFacts DEF CallFrame, CopyInv
<1> QED
  BY <1>1, <1>2, ThrowsInUpdate

\* A step of call c that has an installer.
LEMMA InstallerSteps ==
  ASSUME UpdatingInv, NEW c \in Callers, NEW k \in {None} \cup Updating!Call,
         updating' = [updating EXCEPT ![c] = k], k # None => CallOk(c, k)',
         UNCHANGED <<mode, remote, fetched, copy, made>>,
         installers' \in [Updating!Version -> Updating!Installer],
         launched' \subseteq Updating!Launched,
         mode = "git" => launched' = {}, overlapped' \in BOOLEAN,
         \A d \in Callers, l \in Updating!Call :
           d # c /\ l = updating[d] /\ CallOk(d, l) => CallOk(d, l)',
         notes' \in Seq(Updating!Note), Len(notes') <= NoteLimit, NotesOk(notes', Brought')
  PROVE  UpdatingInv'
<1>1. Updating!TypeOK /\ CopyInv
  BY DEF UpdatingInv
<1>2. updating' \in [Callers -> {None} \cup Updating!Call]
  BY <1>1 DEF Updating!TypeOK
<1>3. Updating!TypeOK' /\ CopyInv'
  BY <1>1, <1>2 DEF Updating!TypeOK, CopyInv
<1>4. ASSUME NEW d \in Callers, updating'[d] # None, d # c
      PROVE  CallOk(d, updating[d])'
  <2>1. updating[d] = updating'[d] /\ updating[d] \in Updating!Call
    BY <1>1, <1>4 DEF Updating!TypeOK
  <2>2. PICK l \in Updating!Call : l = updating[d] /\ l = updating'[d]
    BY <2>1
  <2>3. CallOk(d, l)
    BY <1>4, <2>2 DEF UpdatingInv
  <2>4. CallOk(d, l)'
    BY <1>4, <2>2, <2>3
  <2> QED
    BY <2>2, <2>4
<1>5. \A d \in Callers : updating'[d] # None => CallOk(d, updating[d])'
  <2>1. updating'[c] = k
    BY <1>1 DEF Updating!TypeOK
  <2> QED
    BY <1>4, <2>1
<1> QED
  BY <1>3, <1>5 DEF UpdatingInv

LEMMA OpenKeepsInv ==
  ASSUME UpdatingInv, NEW c \in Callers, Updating!Open(c)
  PROVE  UpdatingInv'
<1>1. /\ updating[c] # None /\ updating[c].stage = "download"
      /\ UNCHANGED <<mode, remote, fetched, copy, launched, made, notes>>
  BY DEF Updating!Open, Updating!At, Updating!Go
<1>2. PICK v \in Updating!Version : v = updating[c].before /\ v \in 1..remote /\ mode = "packaged"
  <2>1. updating[c].before \in 1..remote /\ mode = "packaged"
    BY <1>1, AtFacts DEF CallOk
  <2> QED
    BY <1>1, <2>1, AtFacts DEF Updating!Version
<1>3. /\ installers' = [installers EXCEPT ![v] = [opener |-> c, whole |-> FALSE]]
      /\ Updating!Go(c, [updating[c] EXCEPT !.stage = "write"])
      /\ overlapped' = (overlapped \/ \E d \in Callers \ {c} :
           updating[d] # None /\ updating[d].before = v
            /\ updating[d].stage \in {"write", "launch"})
  BY <1>2 DEF Updating!Open
<1>4. PICK k \in Updating!Call :
        /\ k = [updating[c] EXCEPT !.stage = "write"]
        /\ k.stage = "write" /\ k.purpose = updating[c].purpose /\ k.before = v
  <2> DEFINE k == [updating[c] EXCEPT !.stage = "write"]
  <2>1. /\ k \in Updating!Call
        /\ k.stage = "write" /\ k.purpose = updating[c].purpose /\ k.before = v
    BY <1>1, <1>2, AtFacts DEF Updating!Call
  <2> QED
    BY <2>1
<1>5. updating' = [updating EXCEPT ![c] = k]
  BY <1>3, <1>4 DEF Updating!Go
<1>6. /\ installers' \in [Updating!Version -> Updating!Installer]
      /\ installers'[v].opener = c
      /\ \A u \in Updating!Version : u # v => installers'[u] = installers[u]
  BY <1>1, <1>3, AtFacts DEF Updating!TypeOK, Updating!Installer
<1>7. overlapped' \in BOOLEAN /\ (overlapped => overlapped')
  BY <1>3, Zenon
<1>8. CallOk(c, k)'
  <2>1. k.purpose # "after" /\ mode' = "packaged" /\ remote' = remote
    BY <1>1, <1>2, <1>4, AtFacts DEF CallOk
  <2> QED
    BY <1>2, <1>4, <1>6, <2>1 DEF CallOk
<1>9. ASSUME NEW d \in Callers, NEW l \in Updating!Call, d # c, l = updating[d], CallOk(d, l)
      PROVE  CallOk(d, l)'
  <2>1. CASE l.stage \in {"write", "launch"} /\ ~overlapped'
    <3>1. l # None
      BY UpdatingAssumption
    <3>2. l.before # v
      BY <1>3, <1>9, <2>1, <3>1
    <3>3. l.before \in Updating!Version
      BY <1>1, <1>9, <2>1, AtFacts DEF CallOk, Updating!Version
    <3>4. ~overlapped /\ installers'[l.before] = installers[l.before]
      BY <1>6, <1>7, <2>1, <3>2, <3>3
    <3> QED
      BY <1>1, <1>9, <2>1, <3>4 DEF CallOk
  <2>2. CASE ~(l.stage \in {"write", "launch"} /\ ~overlapped')
    BY <1>1, <1>9, <2>2 DEF CallOk
  <2> QED
    BY <2>1, <2>2
<1>10. /\ notes' \in Seq(Updating!Note) /\ Len(notes') <= NoteLimit /\ NotesOk(notes', Brought')
       /\ launched' \subseteq Updating!Launched
  <2>1. copy' \in Updating!Copy /\ copy.version <= copy'.version
    BY <1>1, AtFacts
  <2>2. NotesOk(notes, Brought')
    BY <1>1, <1>7, <2>1, BroughtGrows
  <2> QED
    BY <1>1, <2>2, AtFacts DEF Updating!TypeOK
<1> QED
  BY <1>1, <1>2, <1>5, <1>6, <1>7, <1>8, <1>9, <1>10, InstallerSteps

LEMMA WrittenKeepsInv ==
  ASSUME UpdatingInv, NEW c \in Callers, Updating!Written(c)
  PROVE  UpdatingInv'
<1>1. /\ updating[c] # None /\ updating[c].stage = "write"
      /\ UNCHANGED <<mode, remote, fetched, copy, launched, made, overlapped, notes>>
  BY DEF Updating!Written, Updating!At, Updating!Go
<1>2. PICK v \in Updating!Version :
        /\ v = updating[c].before /\ v \in 1..remote /\ mode = "packaged"
        /\ ~overlapped => installers[v].opener = c
  <2>1. /\ updating[c].before \in 1..remote /\ mode = "packaged"
        /\ ~overlapped => installers[updating[c].before].opener = c
    BY <1>1, AtFacts DEF CallOk
  <2> QED
    BY <1>1, <2>1, AtFacts DEF Updating!Version
<1>3. /\ installers' = [installers EXCEPT ![v].whole = @ \/ installers[v].opener = c]
      /\ Updating!Go(c, [updating[c] EXCEPT !.stage = "launch"])
  BY <1>2 DEF Updating!Written
<1>4. PICK k \in Updating!Call :
        /\ k = [updating[c] EXCEPT !.stage = "launch"]
        /\ k.stage = "launch" /\ k.purpose = updating[c].purpose /\ k.before = v
  <2> DEFINE k == [updating[c] EXCEPT !.stage = "launch"]
  <2>1. /\ k \in Updating!Call
        /\ k.stage = "launch" /\ k.purpose = updating[c].purpose /\ k.before = v
    BY <1>1, <1>2, AtFacts DEF Updating!Call
  <2> QED
    BY <2>1
<1>5. updating' = [updating EXCEPT ![c] = k]
  BY <1>3, <1>4 DEF Updating!Go
<1>6. /\ installers' \in [Updating!Version -> Updating!Installer]
      /\ installers[v].opener = c => installers'[v].whole
      /\ \A u \in Updating!Version : /\ installers'[u].opener = installers[u].opener
                                     /\ installers[u].whole => installers'[u].whole
  <2>1. PICK whole \in BOOLEAN : whole = (installers[v].whole \/ installers[v].opener = c)
    OBVIOUS
  <2>2. installers' = [installers EXCEPT ![v].whole = whole]
    BY <1>3, <2>1, Zenon
  <2>3. installers \in [Updating!Version -> Updating!Installer]
    BY <1>1, AtFacts DEF Updating!TypeOK
  <2> QED
    BY <2>1, <2>2, <2>3 DEF Updating!Installer
<1>7. CallOk(c, k)'
  <2>1. k.purpose # "after" /\ mode' = "packaged" /\ remote' = remote
    BY <1>1, <1>2, <1>4, AtFacts DEF CallOk
  <2> QED
    BY <1>1, <1>2, <1>4, <1>6, <2>1 DEF CallOk
<1>8. ASSUME NEW d \in Callers, NEW l \in Updating!Call, d # c, l = updating[d], CallOk(d, l)
      PROVE  CallOk(d, l)'
  <2>1. CASE l.stage \in {"write", "launch"}
    <3>1. l.before \in Updating!Version
      BY <1>1, <1>8, <2>1, AtFacts DEF CallOk, Updating!Version
    <3> QED
      BY <1>1, <1>6, <1>8, <2>1, <3>1 DEF CallOk
  <2>2. CASE l.stage \notin {"write", "launch"}
    BY <1>1, <1>8, <2>2 DEF CallOk
  <2> QED
    BY <2>1, <2>2
<1>9. /\ notes' \in Seq(Updating!Note) /\ Len(notes') <= NoteLimit /\ NotesOk(notes', Brought')
      /\ launched' \subseteq Updating!Launched
      /\ overlapped' \in BOOLEAN
  <2>1. copy' \in Updating!Copy /\ copy.version <= copy'.version
    BY <1>1, AtFacts
  <2>2. NotesOk(notes, Brought')
    BY <1>1, <2>1, BroughtGrows
  <2> QED
    BY <1>1, <2>2, AtFacts DEF Updating!TypeOK
<1> QED
  BY <1>1, <1>2, <1>5, <1>6, <1>7, <1>8, <1>9, InstallerSteps

LEMMA LaunchKeepsInv ==
  ASSUME UpdatingInv, NEW c \in Callers, Updating!Launch(c)
  PROVE  UpdatingInv'
<1>1. /\ updating[c] # None /\ updating[c].stage = "launch"
      /\ UNCHANGED <<mode, remote, fetched, copy, installers, made, overlapped>>
  BY DEF Updating!Launch, Updating!At
<1>2. PICK v \in Updating!Version :
        /\ v = updating[c].before /\ mode = "packaged" /\ (~overlapped => installers[v].whole)
  <2>1. /\ updating[c].before \in 1..remote /\ mode = "packaged"
        /\ ~overlapped => installers[updating[c].before].whole
    BY <1>1, AtFacts DEF CallOk
  <2> QED
    BY <1>1, <2>1, AtFacts DEF Updating!Version
<1>3. PICK ran \in BOOLEAN :
      /\ launched' = launched \cup
           {[version |-> v, whole |-> installers[v].whole, ran |-> ran]}
      /\ updating' = [updating EXCEPT ![c] = None]
      /\ Updating!AddNotification("applied", v)
  BY <1>2 DEF Updating!Launch, Updating!End, Updating!NotifyUpdateApplied
<1>4. /\ launched' \subseteq Updating!Launched
      /\ launched \subseteq launched' /\ overlapped' \in BOOLEAN
  <2>1. [version |-> v, whole |-> installers[v].whole, ran |-> ran] \in Updating!Launched
    BY <1>1, AtFacts DEF Updating!TypeOK, Updating!Installer, Updating!Launched
  <2> QED
    BY <1>1, <1>3, <2>1, AtFacts DEF Updating!TypeOK
<1>5. copy' \in Updating!Copy /\ copy.version <= copy'.version
  BY <1>1, AtFacts
<1>6. v \in Brought'
  <2>1. PICK l : l = [version |-> v, whole |-> installers[v].whole, ran |-> ran]
    OBVIOUS
  <2>2. l \in launched' /\ l.version = v /\ l.whole = installers[v].whole
    BY <1>3, <2>1
  <2>3. l.whole \/ overlapped'
    BY <1>1, <1>2, <2>2
  <2> QED
    BY <1>1, <1>2, <2>2, <2>3 DEF Brought, HasVersion
<1>7. notes' \in Seq(Updating!Note) /\ Len(notes') <= NoteLimit /\ NotesOk(notes', Brought')
  <2>1. NotesOk(notes, Brought')
    BY <1>1, <1>4, <1>5, BroughtGrows
  <2>2. "applied" \in {"available", "applied", "checked", "failed"}
    OBVIOUS
  <2> QED
    BY <1>3, <1>6, <2>1, <2>2, NotesGrow
<1>8. ASSUME NEW d \in Callers, NEW l \in Updating!Call, CallOk(d, l)
      PROVE  CallOk(d, l)'
  BY <1>1, <1>8 DEF CallOk
<1>9. installers' \in [Updating!Version -> Updating!Installer]
  BY <1>1, AtFacts DEF Updating!TypeOK
<1> QED
  BY <1>1, <1>2, <1>3, <1>4, <1>7, <1>8, <1>9, InstallerSteps

LEMMA NotesChange ==
  ASSUME UpdatingInv,
         UNCHANGED <<mode, remote, fetched, copy, installers, launched, updating, made,
                     overlapped>>,
         notes' \in Seq(Updating!Note), Len(notes') <= NoteLimit, NotesOk(notes', Brought)
  PROVE  UpdatingInv'
<1>1. Updating!TypeOK' /\ CopyInv'
  BY DEF UpdatingInv, Updating!TypeOK, CopyInv
<1>2. NotesOk(notes, Brought)'
  BY DEF Brought, HasVersion, NotesOk
<1>3. \A d \in Callers : updating'[d] # None => CallOk(d, updating[d])'
  BY DEF UpdatingInv, CallOk
<1> QED
  BY <1>1, <1>2, <1>3 DEF UpdatingInv

LEMMA NoteFacts ==
  ASSUME UpdatingInv
  PROVE  /\ notes \in Seq(Updating!Note) /\ Len(notes) \in Nat /\ Len(notes) <= NoteLimit
         /\ \A i \in 1..Len(notes) : notes[i] \in Updating!Note
         /\ NotesOk(notes, Brought)
BY LenProperties, ElementOfSeq DEF UpdatingInv, Updating!TypeOK

\* Notifications that are marked as read.
LEMMA ReadNotes ==
  ASSUME UpdatingInv, NEW read \in Seq(Updating!Note), Len(read) = Len(notes),
         \A i \in 1..Len(read) : /\ read[i].kind = notes[i].kind
                                 /\ read[i].version = notes[i].version
                                 /\ read[i].unread => notes[i].unread
  PROVE  Len(read) <= NoteLimit /\ NotesOk(read, Brought)
<1> DEFINE m == [i \in 1..Len(read) |-> i]
<1>1. m \in [1..Len(read) -> 1..Len(notes)] /\ \A i \in 1..Len(read) : m[i] = i
  OBVIOUS
<1> HIDE DEF m
<1>2. /\ \A i, j \in 1..Len(read) : m[i] = m[j] => i = j
      /\ \A i \in 1..Len(read) : /\ read[i].kind = notes[m[i]].kind
                                 /\ read[i].version = notes[m[i]].version
                                 /\ read[i].unread => notes[m[i]].unread
  BY <1>1
<1> QED
  BY <1>1, <1>2, NoteFacts, FewerNotes, SMTT(40)

LEMMA MarkReadKeepsInv ==
  ASSUME UpdatingInv, Updating!MarkRead
  PROVE  UpdatingInv'
<1>1. PICK i \in 1..Len(notes) :
        /\ notes' = [notes EXCEPT ![i].unread = FALSE]
        /\ UNCHANGED <<mode, remote, fetched, copy, installers, launched, updating, made,
                       overlapped>>
  BY DEF Updating!MarkRead
<1>2. PICK n \in Updating!Note :
        /\ n = [notes[i] EXCEPT !.unread = FALSE] /\ ~n.unread
        /\ n.kind = notes[i].kind /\ n.version = notes[i].version
  <2> DEFINE n == [notes[i] EXCEPT !.unread = FALSE]
  <2>1. /\ n \in Updating!Note /\ ~n.unread
        /\ n.kind = notes[i].kind /\ n.version = notes[i].version
    BY NoteFacts DEF Updating!Note
  <2> QED
    BY <2>1
<1>3. notes' = [notes EXCEPT ![i] = n]
  BY <1>1, <1>2
<1>4. /\ notes' \in Seq(Updating!Note) /\ Len(notes') = Len(notes)
      /\ \A j \in 1..Len(notes) : notes'[j] = (IF j = i THEN n ELSE notes[j])
  BY <1>3, NoteFacts, ExceptSeq
<1>5. PICK read \in Seq(Updating!Note) : read = notes'
  BY <1>4
<1>6. Len(read) <= NoteLimit /\ NotesOk(read, Brought)
  BY <1>2, <1>4, <1>5, ReadNotes
<1> QED
  BY <1>1, <1>5, <1>6, NotesChange

LEMMA MarkAllReadKeepsInv ==
  ASSUME UpdatingInv, Updating!MarkAllRead
  PROVE  UpdatingInv'
<1>1. /\ notes' = [i \in 1..Len(notes) |-> [notes[i] EXCEPT !.unread = FALSE]]
      /\ UNCHANGED <<mode, remote, fetched, copy, installers, launched, updating, made, overlapped>>
  BY DEF Updating!MarkAllRead
<1>2. \A i \in 1..Len(notes) :
        /\ [notes[i] EXCEPT !.unread = FALSE] \in Updating!Note
        /\ ~[notes[i] EXCEPT !.unread = FALSE].unread
        /\ [notes[i] EXCEPT !.unread = FALSE].kind = notes[i].kind
        /\ [notes[i] EXCEPT !.unread = FALSE].version = notes[i].version
  BY NoteFacts DEF Updating!Note
<1>3. /\ notes' \in Seq(Updating!Note) /\ Len(notes') = Len(notes)
      /\ \A i \in 1..Len(notes) : notes'[i] = [notes[i] EXCEPT !.unread = FALSE]
  BY <1>1, <1>2, NoteFacts
<1>4. PICK read \in Seq(Updating!Note) : read = notes'
  BY <1>3
<1>5. Len(read) <= NoteLimit /\ NotesOk(read, Brought)
  <2>1. Len(read) = Len(notes)
    BY <1>3, <1>4
  <2>2. \A i \in 1..Len(read) : /\ read[i].kind = notes[i].kind
                                /\ read[i].version = notes[i].version
                                /\ read[i].unread => notes[i].unread
    BY <1>2, <1>3, <1>4, ZenonT(60)
  <2> QED
    BY <2>1, <2>2, ReadNotes
<1> QED
  BY <1>1, <1>4, <1>5, NotesChange

LEMMA DeleteKeepsInv ==
  ASSUME UpdatingInv, Updating!Delete
  PROVE  UpdatingInv'
<1>1. PICK k \in 1..Len(notes) :
        /\ notes' = Updating!RemoveAt(notes, k)
        /\ UNCHANGED <<mode, remote, fetched, copy, installers, launched, updating, made,
                       overlapped>>
  BY DEF Updating!Delete
<1>2. /\ notes' \in Seq(Updating!Note) /\ Len(notes') = Len(notes) - 1
      /\ \A i \in 1..Len(notes') : notes'[i] = notes[IF i < k THEN i ELSE i + 1]
  <2>1. PICK less \in Seq(Updating!Note) :
          /\ less = SubSeq(notes, 1, k - 1) \o SubSeq(notes, k + 1, Len(notes))
          /\ Len(less) = Len(notes) - 1
          /\ \A i \in 1..(Len(notes) - 1) : less[i] = notes[IF i < k THEN i ELSE i + 1]
    BY NoteFacts, Removed
  <2>2. less = notes'
    BY <1>1, <2>1 DEF Updating!RemoveAt
  <2> QED
    BY <2>1, <2>2
<1>3. PICK fewer \in Seq(Updating!Note) : fewer = notes'
  BY <1>2
<1> DEFINE m == [i \in 1..Len(fewer) |-> IF i < k THEN i ELSE i + 1]
<1>4. m \in [1..Len(fewer) -> 1..Len(notes)] /\ \A i \in 1..Len(fewer) : fewer[i] = notes[m[i]]
  BY <1>2, <1>3, NoteFacts
<1>5. \A i, j \in 1..Len(fewer) : m[i] = m[j] => i = j
  OBVIOUS
<1>6. \A i \in 1..Len(fewer) : /\ fewer[i].kind = notes[m[i]].kind
                               /\ fewer[i].version = notes[m[i]].version
                               /\ fewer[i].unread => notes[m[i]].unread
  BY <1>4
<1> HIDE DEF m
<1>7. NotesOk(fewer, Brought)
  BY <1>4, <1>5, <1>6, NoteFacts, FewerNotes, SMTT(40)
<1>8. Len(notes') <= NoteLimit
  BY <1>2, NoteFacts, UpdatingAssumption
<1> QED
  BY <1>1, <1>2, <1>3, <1>7, <1>8, NotesChange

\* GitHub gets a version, or the user commits.
LEMMA WorldSteps ==
  ASSUME UpdatingInv,
         UNCHANGED <<mode, fetched, installers, launched, notes, updating, made, overlapped>>,
         remote' \in Updating!Version, remote <= remote', copy' \in Updating!Copy,
         copy'.version = copy.version, copy'.root = copy.root
  PROVE  UpdatingInv'
<1>1. /\ Updating!TypeOK /\ CopyInv /\ NotesOk(notes, Brought)
      /\ remote \in Int /\ remote' \in Int /\ copy.version \in Int /\ fetched \in 1..remote
  BY UpdatingAssumption DEF UpdatingInv, Updating!TypeOK, Updating!Copy, Updating!Version
<1>2. fetched' \in 1..remote'
  BY <1>1
<1>3. Updating!TypeOK'
  BY <1>1, <1>2 DEF Updating!TypeOK
<1>4. CopyInv'
  BY <1>1 DEF CopyInv
<1>5. NotesOk(notes, Brought)'
  BY <1>1 DEF Brought, HasVersion, NotesOk
<1>6. ASSUME NEW d \in Callers, updating'[d] # None
      PROVE  CallOk(d, updating[d])'
  <2>1. CallOk(d, updating[d])
    BY <1>6 DEF UpdatingInv
  <2> QED
    BY <1>1, <2>1 DEF CallOk
<1> QED
  BY <1>3, <1>4, <1>5, <1>6 DEF UpdatingInv

LEMMA NewVersionKeepsInv ==
  ASSUME UpdatingInv, Updating!NewVersion
  PROVE  UpdatingInv'
<1>1. /\ remote < MaxVersion /\ remote' = remote + 1
      /\ UNCHANGED <<mode, fetched, copy, installers, launched, notes, updating, made, overlapped>>
  BY DEF Updating!NewVersion
<1>2. remote' \in Updating!Version /\ remote <= remote' /\ copy' \in Updating!Copy
  BY <1>1, UpdatingAssumption DEF UpdatingInv, Updating!TypeOK, Updating!Version
<1> QED
  BY <1>1, <1>2, WorldSteps

LEMMA CommitKeepsInv ==
  ASSUME UpdatingInv, Updating!Commit
  PROVE  UpdatingInv'
<1>1. /\ copy.own < MaxOwn /\ copy' = [copy EXCEPT !.own = @ + 1]
      /\ UNCHANGED <<mode, remote, fetched, installers, launched, notes, updating, made,
                     overlapped>>
  BY DEF Updating!Commit
<1>2. /\ copy' \in Updating!Copy /\ copy'.version = copy.version /\ copy'.root = copy.root
      /\ remote' \in Updating!Version /\ remote <= remote'
  BY <1>1, UpdatingAssumption, SMTT(40)
     DEF UpdatingInv, Updating!TypeOK, Updating!Copy, Updating!Version
<1> QED
  BY <1>1, <1>2, WorldSteps

LEMMA RestartKeepsInv ==
  ASSUME UpdatingInv, Updating!Restart
  PROVE  UpdatingInv'
<1> DEFINE installed(l) == [copy EXCEPT !.version = l.version, !.root = l.version]
<1>0. UNCHANGED copy \/ \E l \in launched : copy' = installed(l)
  BY Zenon DEF Updating!Restart
<1> HIDE DEF installed
<1>1. /\ updating' = [c \in Callers |-> None]
      /\ notes' \in {notes, IF notes = <<>> THEN notes ELSE Updating!Front(notes)}
      /\ installers' = [v \in Updating!Version |-> [installers[v] EXCEPT !.opener = None]]
      /\ UNCHANGED <<mode, remote, fetched, launched, made, overlapped>>
  BY Zenon DEF Updating!Restart
<1>2. Updating!TypeOK /\ CopyInv
  BY DEF UpdatingInv
<1>3. /\ copy' \in Updating!Copy /\ copy'.root = copy'.version
      /\ mode = "git" => copy' = copy
  <2>1. CASE copy' = copy
    BY <1>2, <2>1 DEF Updating!TypeOK, CopyInv
  <2>2. ASSUME NEW l \in launched, copy' = installed(l)
        PROVE  /\ copy' \in Updating!Copy /\ copy'.root = copy'.version
               /\ mode # "git"
    <3>1. l.version \in Updating!Version /\ mode # "git"
      BY <1>2, <2>2 DEF Updating!TypeOK, Updating!Launched, CopyInv
    <3> QED
      BY <1>2, <2>2, <3>1 DEF Updating!TypeOK, Updating!Copy, installed
  <2> QED
    BY <1>0, <2>1, <2>2
<1>4. NotesOk(notes, Brought')
  <2>1. mode = "git" => copy.version <= copy'.version
    BY <1>2, <1>3, UpdatingAssumption DEF Updating!TypeOK, Updating!Copy, Updating!Version
  <2> QED
    BY <1>1, <1>3, <2>1, BroughtGrows
<1>5. PICK brought : brought = Brought'
  OBVIOUS
<1>6. notes' \in Seq(Updating!Note) /\ Len(notes') <= NoteLimit /\ NotesOk(notes', Brought')
  <2>1. CASE notes' = notes
    BY <1>4, <2>1, NoteFacts
  <2>2. CASE notes # <<>> /\ notes' = Updating!Front(notes)
    <3>1. notes' = SubSeq(notes, 1, Len(notes) - 1)
      BY <2>2 DEF Updating!Front
    <3>2. Len(notes) # 0
      BY <2>2, NoteFacts, EmptySeq
    <3>3. /\ notes' \in Seq(Updating!Note) /\ Len(notes') = Len(notes) - 1
          /\ \A i \in 1..(Len(notes) - 1) : notes'[i] = notes[i]
      <4>1. Len(notes) - 1 \in Nat /\ \A i \in 1..(Len(notes) - 1) : notes[i] \in Updating!Note
        BY <3>2, NoteFacts
      <4>2. PICK n \in Nat : n = Len(notes) - 1
        BY <4>1
      <4>3. /\ SubSeq(notes, 1, n) \in Seq(Updating!Note) /\ Len(SubSeq(notes, 1, n)) = n
            /\ \A i \in 1..n : SubSeq(notes, 1, n)[i] = notes[i]
        BY <4>1, <4>2, SubSeqProperties
      <4> QED
        BY <3>1, <4>2, <4>3
    <3>4. PICK fewer \in Seq(Updating!Note) : fewer = notes'
      BY <3>3
    <3> DEFINE m == [i \in 1..Len(fewer) |-> i]
    <3>5. m \in [1..Len(fewer) -> 1..Len(notes)] /\ \A i \in 1..Len(fewer) : m[i] = i
      BY <3>3, <3>4, NoteFacts
    <3> HIDE DEF m
    <3>6. /\ \A i, j \in 1..Len(fewer) : m[i] = m[j] => i = j
          /\ \A i \in 1..Len(fewer) : /\ fewer[i].kind = notes[m[i]].kind
                                      /\ fewer[i].version = notes[m[i]].version
                                      /\ fewer[i].unread => notes[m[i]].unread
      BY <3>3, <3>4, <3>5
    <3>7. NotesOk(fewer, brought)
      BY <1>4, <1>5, <3>5, <3>6, NoteFacts, FewerNotes
    <3> QED
      BY <1>5, <3>3, <3>4, <3>7, NoteFacts, UpdatingAssumption
  <2> QED
    BY <1>1, <2>1, <2>2
<1>7. installers' \in [Updating!Version -> Updating!Installer]
  BY <1>1, <1>2 DEF Updating!TypeOK, Updating!Installer
<1>8. updating' \in [Callers -> {None} \cup Updating!Call] /\ \A c \in Callers : updating'[c] = None
  BY <1>1
<1>9. Updating!TypeOK' /\ CopyInv'
  BY <1>1, <1>2, <1>3, <1>6, <1>7, <1>8 DEF Updating!TypeOK, CopyInv
<1> QED
  BY <1>6, <1>8, <1>9 DEF UpdatingInv

LEMMA UpdatingInvariance == NodeSpec => []UpdatingInv
<1>1. NodeInit => UpdatingInv
  BY UpdatesBegin DEF NodeInit
<1>2. UpdatingInv /\ [NodeNext]_nodeVars => UpdatingInv'
  <2> SUFFICES ASSUME UpdatingInv, [NodeNext]_nodeVars
               PROVE  UpdatingInv'
    OBVIOUS
  <2>1. Updating!Next \/ UNCHANGED updateVars
    BY DEF NodeNext, nodeVars
  <2>2. ASSUME Updating!Next PROVE UpdatingInv'
    BY <2>2, BeginKeepsInv, FetchKeepsInv, RefKeepsInv, CountKeepsInv, PullKeepsInv,
       ReleaseKeepsInv, OpenKeepsInv, WrittenKeepsInv, LaunchKeepsInv, FailKeepsInv,
       MarkReadKeepsInv, MarkAllReadKeepsInv, DeleteKeepsInv, NewVersionKeepsInv,
       CommitKeepsInv, RestartKeepsInv
    DEF Updating!Next
  <2> QED
    BY <2>1, <2>2, UpdatesStutter
<1> QED
  BY <1>1, <1>2, PTL DEF NodeSpec

\* What the node says of its updates is so, and it says it once; an update
\* leaves the user's commits where they were made (updateService.ts, the
\* /updates routes of main.ts, notificationStore.ts), however many calls run
\* at the same time and however many notifications are kept.  What it says of a package
\* is that the launch of its installer was tried.
THEOREM UpdatesTellTheTruth == NodeSpec => []UpdatesAreHonest
<1>1. UpdatingInv => UpdatesAreHonest
  <2> SUFFICES ASSUME UpdatingInv PROVE UpdatesAreHonest
    OBVIOUS
  <2>1. Updating!AnnouncedOnce
    BY DEF UpdatingInv, NotesOk, Announces, Updating!AnnouncedOnce
  <2>2. Updating!OwnCommitsStay
    BY DEF UpdatingInv, CopyInv, Updating!OwnCommitsStay
  <2>3. Updating!ReportedIsInstalled
    BY DEF UpdatingInv, NotesOk, Brought, HasVersion, Updating!ReportedIsInstalled
  <2> QED
    BY <2>1, <2>2, <2>3 DEF UpdatesAreHonest
<1> QED
  BY <1>1, UpdatingInvariance, PTL

----------------------------------------------------------------------------
(* The art library (ArtLibrary) *)

\* An id that was given: the number of an asset, or prefixed by a profile's.
Given(id, t) ==
  /\ id \in Seq(Nat) /\ Len(id) >= 1
  /\ IF Len(id) = 1 THEN id[1] <= t.assets ELSE id[1] \in 1..t.profiles

IsCategory(k) ==
  /\ k = [profile |-> k.profile, assets |-> k.assets, selected |-> k.selected]
  /\ k.assets \in Seq(Art!Asset)

\* Assets have different ids that were given, and files that were made.
LibraryOk(lib, t) ==
  /\ \A c \in DOMAIN lib : c \in Seq(Nat) /\ IsCategory(lib[c])
  /\ \A c \in DOMAIN lib : \A i \in DOMAIN lib[c].assets :
       /\ Given(lib[c].assets[i].id, t)
       /\ lib[c].assets[i].file \in {None} \cup 1..t.assets
  /\ \A c, d \in DOMAIN lib :
       \A i \in DOMAIN lib[c].assets, j \in DOMAIN lib[d].assets :
         lib[c].assets[i].id = lib[d].assets[j].id => c = d /\ i = j

HasId(lib, id) ==
  \E c \in DOMAIN lib : \E i \in DOMAIN lib[c].assets : lib[c].assets[i].id = id

HasFile(lib, f) ==
  \E c \in DOMAIN lib : \E i \in DOMAIN lib[c].assets : lib[c].assets[i].file = f

Makes(request) == request # None /\ request.does \in {"upload", "generated"}
Unlinks(request) == request # None /\ request.does = "unlink"

\* An image that is being made is in no category yet, and a file that is about
\* to be unlinked in none any more.
RequestsOk ==
  /\ requests = [r \in ArtRequests |-> requests[r]]
  /\ \A r \in ArtRequests : Makes(requests[r]) =>
       /\ requests[r].number \in 1..taken.assets /\ requests[r].number <= MaxAssets
       /\ ~HasId(library, <<requests[r].number>>) /\ ~HasFile(library, requests[r].number)
       /\ \A s \in ArtRequests :
              Makes(requests[s]) /\ requests[s].number = requests[r].number => s = r
  /\ \A r \in ArtRequests : Unlinks(requests[r]) =>
       /\ requests[r].number \in 1..taken.assets
       /\ ~HasFile(library, requests[r].number)
       /\ \A s \in ArtRequests : Makes(requests[s]) => requests[s].number # requests[r].number

ArtInv ==
  /\ taken = [profiles |-> taken.profiles, categories |-> taken.categories,
              assets |-> taken.assets]
  /\ taken.profiles \in Nat /\ taken.categories \in Nat /\ taken.assets \in Nat
  /\ LibraryOk(library, taken) /\ LibraryOk(saved.library, taken)
  /\ RequestsOk
  /\ \A f : HasFile(library, f) => f \in disk \cup lost \cup {None}

LEMMA ArtStutters ==
  ASSUME ArtInv, UNCHANGED artVars
  PROVE  ArtInv'
BY DEF artVars, ArtInv, RequestsOk, Makes, Unlinks

\* A library with fewer assets.
LEMMA FewerAssets ==
  ASSUME NEW lib, NEW fewer, NEW t, LibraryOk(lib, t), DOMAIN fewer \subseteq DOMAIN lib,
         \A c \in DOMAIN fewer :
           /\ IsCategory(fewer[c])
           /\ \E m \in [DOMAIN fewer[c].assets -> DOMAIN lib[c].assets] :
                /\ \A i, j \in DOMAIN fewer[c].assets : m[i] = m[j] => i = j
                /\ \A i \in DOMAIN fewer[c].assets : fewer[c].assets[i] = lib[c].assets[m[i]]
  PROVE  /\ LibraryOk(fewer, t)
         /\ \A id : HasId(fewer, id) => HasId(lib, id)
         /\ \A f : HasFile(fewer, f) => HasFile(lib, f)
<1>1. ASSUME NEW c \in DOMAIN fewer, NEW i \in DOMAIN fewer[c].assets
      PROVE  \E k \in DOMAIN lib[c].assets : fewer[c].assets[i] = lib[c].assets[k]
  BY <1>1
<1>2. ASSUME NEW c \in DOMAIN fewer, NEW d \in DOMAIN fewer,
             NEW i \in DOMAIN fewer[c].assets, NEW j \in DOMAIN fewer[d].assets,
             fewer[c].assets[i].id = fewer[d].assets[j].id
      PROVE  c = d /\ i = j
  <2>1. PICK m \in [DOMAIN fewer[c].assets -> DOMAIN lib[c].assets] :
          /\ \A x, y \in DOMAIN fewer[c].assets : m[x] = m[y] => x = y
          /\ \A x \in DOMAIN fewer[c].assets : fewer[c].assets[x] = lib[c].assets[m[x]]
    OBVIOUS
  <2>2. PICK l \in DOMAIN lib[d].assets : fewer[d].assets[j] = lib[d].assets[l]
    BY <1>1
  <2>3. lib[c].assets[m[i]].id = lib[d].assets[l].id /\ m[i] \in DOMAIN lib[c].assets
    BY <1>2, <2>1, <2>2
  <2>4. c = d
    BY <2>3 DEF LibraryOk
  <2>5. m[j] \in DOMAIN lib[c].assets /\ lib[c].assets[m[i]].id = lib[c].assets[m[j]].id
    BY <1>2, <2>1, <2>4
  <2>6. m[i] = m[j]
    BY <2>3, <2>5 DEF LibraryOk
  <2> QED
    BY <2>1, <2>4, <2>6
<1>3. \A c \in DOMAIN fewer : \A i \in DOMAIN fewer[c].assets :
        /\ Given(fewer[c].assets[i].id, t)
        /\ fewer[c].assets[i].file \in {None} \cup 1..t.assets
  BY <1>1 DEF LibraryOk
<1>4. LibraryOk(fewer, t)
  BY <1>2, <1>3 DEF LibraryOk
<1>5. \A id : HasId(fewer, id) => HasId(lib, id)
  BY <1>1 DEF HasId
<1>6. \A f : HasFile(fewer, f) => HasFile(lib, f)
  BY <1>1 DEF HasFile
<1> QED
  BY <1>4, <1>5, <1>6

\* The same assets in fewer categories.
LEMMA FewerCategories ==
  ASSUME NEW lib, NEW fewer, NEW t, LibraryOk(lib, t), DOMAIN fewer \subseteq DOMAIN lib,
         \A c \in DOMAIN fewer : IsCategory(fewer[c]) /\ fewer[c].assets = lib[c].assets
  PROVE  /\ LibraryOk(fewer, t)
         /\ \A id : HasId(fewer, id) => HasId(lib, id)
         /\ \A f : HasFile(fewer, f) => HasFile(lib, f)
<1>1. ASSUME NEW c \in DOMAIN fewer
      PROVE  \E m \in [DOMAIN fewer[c].assets -> DOMAIN lib[c].assets] :
               /\ \A i, j \in DOMAIN fewer[c].assets : m[i] = m[j] => i = j
               /\ \A i \in DOMAIN fewer[c].assets : fewer[c].assets[i] = lib[c].assets[m[i]]
  <2> DEFINE m == [i \in DOMAIN fewer[c].assets |-> i]
  <2>1. /\ m \in [DOMAIN fewer[c].assets -> DOMAIN lib[c].assets]
        /\ \A i, j \in DOMAIN fewer[c].assets : m[i] = m[j] => i = j
        /\ \A i \in DOMAIN fewer[c].assets : fewer[c].assets[i] = lib[c].assets[m[i]]
    OBVIOUS
  <2> QED
    BY <2>1
<1> QED
  BY <1>1, FewerAssets

\* More ids are given.
LEMMA MoreGiven ==
  ASSUME NEW lib, NEW t, NEW u, LibraryOk(lib, t),
         t.assets \in Nat, u.assets \in Nat, t.profiles \in Nat, u.profiles \in Nat,
         t.assets <= u.assets, t.profiles <= u.profiles
  PROVE  LibraryOk(lib, u)
<1>1. \A id : Given(id, t) => Given(id, u)
  <2> SUFFICES ASSUME NEW id, Given(id, t) PROVE Given(id, u)
    OBVIOUS
  <2>1. id \in Seq(Nat) /\ Len(id) >= 1 /\ id[1] \in Nat
    BY ElementOfSeq, LenProperties DEF Given
  <2> QED
    BY <2>1 DEF Given
<1>2. 1..t.assets \subseteq 1..u.assets
  OBVIOUS
<1> QED
  BY <1>1, <1>2 DEF LibraryOk

LEMMA FilesOfLibrary ==
  ASSUME NEW lib
  PROVE  \A f : f \in Art!FilesOf(lib) <=> f # None /\ HasFile(lib, f)
BY DEF Art!FilesOf, HasFile

\* A step after which requests wait for what they did, or for nothing; those that
\* wait find their numbers in the categories only where they were.
LEMMA RequestsStay ==
  ASSUME ArtInv, requests' = [r \in ArtRequests |-> requests'[r]],
         taken'.assets \in Nat, taken.assets <= taken'.assets,
         \A r \in ArtRequests :
           \/ requests'[r] = None
           \/ /\ requests'[r] = requests[r]
              /\ Makes(requests[r]) /\ HasId(library', <<requests[r].number>>)
                   => HasId(library, <<requests[r].number>>)
              /\ (Makes(requests[r]) \/ Unlinks(requests[r]))
                    /\ HasFile(library', requests[r].number)
                   => HasFile(library, requests[r].number)
  PROVE  RequestsOk'
<1>1. RequestsOk /\ 1..taken.assets \subseteq 1..taken'.assets
  BY DEF ArtInv
<1>2. \A r \in ArtRequests : /\ Makes(requests'[r]) =>
                                   Makes(requests[r]) /\ requests'[r] = requests[r]
                            /\ Unlinks(requests'[r]) =>
                                   Unlinks(requests[r]) /\ requests'[r] = requests[r]
  BY DEF Makes, Unlinks
<1>3. ASSUME NEW r \in ArtRequests, Makes(requests'[r])
      PROVE  /\ requests'[r].number \in 1..taken'.assets /\ requests'[r].number <= MaxAssets
             /\ ~HasId(library', <<requests'[r].number>>) /\ ~HasFile(library', requests'[r].number)
             /\ \A s \in ArtRequests :
                  Makes(requests'[s]) /\ requests'[s].number = requests'[r].number => s = r
  <2>1. Makes(requests[r]) /\ requests'[r] = requests[r] /\ requests[r] # None
    BY <1>2, <1>3 DEF Makes
  <2>2. /\ requests[r].number \in 1..taken.assets /\ requests[r].number <= MaxAssets
        /\ ~HasId(library, <<requests[r].number>>) /\ ~HasFile(library, requests[r].number)
    BY <1>1, <2>1 DEF RequestsOk
  <2>3. ASSUME NEW s \in ArtRequests, Makes(requests'[s]), requests'[s].number = requests'[r].number
        PROVE  s = r
    <3>1. Makes(requests[s]) /\ requests[s].number = requests[r].number
      BY <1>2, <2>1, <2>3 DEF Makes
    <3> QED
      BY <1>1, <2>1, <3>1 DEF RequestsOk
  <2> QED
    BY <1>1, <2>1, <2>2, <2>3
<1>4. ASSUME NEW r \in ArtRequests, Unlinks(requests'[r])
      PROVE  /\ requests'[r].number \in 1..taken'.assets
             /\ ~HasFile(library', requests'[r].number)
             /\ \A s \in ArtRequests :
                    Makes(requests'[s]) => requests'[s].number # requests'[r].number
  <2>1. Unlinks(requests[r]) /\ requests'[r] = requests[r] /\ requests[r] # None
    BY <1>2, <1>4 DEF Unlinks
  <2>2. /\ requests[r].number \in 1..taken.assets /\ ~HasFile(library, requests[r].number)
        /\ \A s \in ArtRequests : Makes(requests[s]) => requests[s].number # requests[r].number
    BY <1>1, <2>1 DEF RequestsOk
  <2>3. ASSUME NEW s \in ArtRequests, Makes(requests'[s])
        PROVE  requests'[s].number # requests'[r].number
    <3>1. Makes(requests[s]) /\ requests'[s] = requests[s]
      BY <1>2, <2>3 DEF Makes
    <3> QED
      BY <2>1, <2>2, <3>1
  <2> QED
    BY <1>1, <2>1, <2>2, <2>3
<1> QED
  BY <1>3, <1>4 DEF RequestsOk, HasId, HasFile

\* A change of the library that gives no number to an asset.
LEMMA LibrarySteps ==
  ASSUME ArtInv, UNCHANGED <<requests, disk, saved, lost>>,
         taken' = [profiles |-> taken'.profiles, categories |-> taken'.categories,
                   assets |-> taken.assets],
         taken'.profiles \in Nat, taken.profiles <= taken'.profiles, taken'.categories \in Nat,
         LibraryOk(library', taken'),
         \A n \in Nat : HasId(library', <<n>>) => HasId(library, <<n>>),
         \A f : HasFile(library', f) => f = None \/ HasFile(library, f)
  PROVE  ArtInv'
<1>1. taken'.assets = taken.assets
  OBVIOUS
<1>2. RequestsOk'
  <2>1. RequestsOk /\ taken.assets \in Nat /\ None \notin Nat
    BY ArtAssumption DEF ArtInv
  <2>2. ASSUME NEW r \in ArtRequests
        PROVE  /\ Makes(requests[r]) /\ HasId(library', <<requests[r].number>>)
                    => HasId(library, <<requests[r].number>>)
               /\ (Makes(requests[r]) \/ Unlinks(requests[r]))
                     /\ HasFile(library', requests[r].number)
                    => HasFile(library, requests[r].number)
    <3>1. Makes(requests[r]) \/ Unlinks(requests[r]) => requests[r].number \in 1..taken.assets
      BY <2>1 DEF RequestsOk
    <3> QED
      BY <2>1, <3>1
  <2>3. requests' = [r \in ArtRequests |-> requests'[r]]
    BY <2>1 DEF RequestsOk
  <2> QED
    BY <1>1, <2>1, <2>2, <2>3, RequestsStay
<1>3. PICK t : t = taken'
  OBVIOUS
<1>4. LibraryOk(saved.library, t)
  BY <1>1, <1>3, MoreGiven DEF ArtInv
<1>5. \A f : HasFile(library', f) => f \in disk' \cup lost' \cup {None}
  BY DEF ArtInv
<1>6. LibraryOk(library, taken)' /\ LibraryOk(saved.library, taken)'
  BY <1>3, <1>4 DEF LibraryOk, Given
<1>7. \A f : HasFile(library, f)' => f \in disk' \cup lost' \cup {None}
  BY <1>5 DEF HasFile
<1> QED
  BY <1>1, <1>2, <1>6, <1>7 DEF ArtInv

\* A change that leaves assets out at most.
LEMMA SmallerLibrary ==
  ASSUME ArtInv, UNCHANGED <<requests, disk, saved, lost, taken>>,
         DOMAIN library' \subseteq DOMAIN library,
         \A c \in DOMAIN library' :
           IsCategory(library'[c]) /\ library'[c].assets = library[c].assets
  PROVE  ArtInv'
<1>1. PICK lib : lib = library'
  OBVIOUS
<1>2. /\ LibraryOk(lib, taken)
      /\ \A id : HasId(lib, id) => HasId(library, id)
      /\ \A f : HasFile(lib, f) => HasFile(library, f)
  BY <1>1, FewerCategories DEF ArtInv
<1> QED
  BY <1>1, <1>2, LibrarySteps DEF ArtInv

LEMMA DeleteProfileKeepsInv ==
  ASSUME ArtInv, NEW p, Art!DeleteProfile(p)
  PROVE  ArtInv'
<1>1. /\ library' = [c \in {c \in DOMAIN library : library[c].profile # p} |-> library[c]]
      /\ UNCHANGED <<requests, disk, saved, lost, taken>>
  BY DEF Art!DeleteProfile, Art!Changed, Art!Restrict
<1>2. /\ DOMAIN library' \subseteq DOMAIN library
      /\ \A c \in DOMAIN library' : library'[c] = library[c]
  BY <1>1
<1>3. \A c \in DOMAIN library : IsCategory(library[c])
  BY DEF ArtInv, LibraryOk
<1>4. \A c \in DOMAIN library' :
        IsCategory(library'[c]) /\ library'[c].assets = library[c].assets
  BY <1>2, <1>3 DEF IsCategory
<1> QED
  BY <1>1, <1>2, <1>4, SmallerLibrary

LEMMA DeleteCategoryKeepsInv ==
  ASSUME ArtInv, NEW c, Art!DeleteCategory(c)
  PROVE  ArtInv'
<1>1. /\ library' = [d \in DOMAIN library \ {c} |-> library[d]]
      /\ UNCHANGED <<requests, disk, saved, lost, taken>>
  BY DEF Art!DeleteCategory, Art!Changed, Art!Restrict
<1>2. /\ DOMAIN library' \subseteq DOMAIN library
      /\ \A d \in DOMAIN library' : library'[d] = library[d]
  BY <1>1
<1>3. \A d \in DOMAIN library : IsCategory(library[d])
  BY DEF ArtInv, LibraryOk
<1>4. \A d \in DOMAIN library' :
        IsCategory(library'[d]) /\ library'[d].assets = library[d].assets
  BY <1>2, <1>3 DEF IsCategory
<1> QED
  BY <1>1, <1>2, <1>4, SmallerLibrary

LEMMA UpdateCategoryKeepsInv ==
  ASSUME ArtInv, NEW c, NEW id, Art!UpdateCategory(c, id)
  PROVE  ArtInv'
<1>1. PICK x :
        /\ library' = [library EXCEPT ![c].selected = x]
        /\ UNCHANGED <<requests, disk, saved, lost, taken>>
  BY DEF Art!UpdateCategory, Art!Changed
<1>2. \A d \in DOMAIN library : IsCategory(library[d])
  BY DEF ArtInv, LibraryOk
<1>3. DOMAIN library' = DOMAIN library
  BY <1>1
<1>4. ASSUME NEW d \in DOMAIN library
      PROVE  IsCategory(library'[d]) /\ library'[d].assets = library[d].assets
  <2>1. library'[d] = library[d] \/ library'[d] = [library[d] EXCEPT !.selected = x]
    BY <1>1
  <2>2. PICK k : k = library[d] /\ IsCategory(k)
    BY <1>2
  <2>3. /\ [k EXCEPT !.selected = x] = [profile |-> k.profile, assets |-> k.assets, selected |-> x]
    BY <2>2 DEF IsCategory
  <2> QED
    BY <2>1, <2>2, <2>3 DEF IsCategory
<1> QED
  BY <1>1, <1>3, <1>4, SmallerLibrary

\* An id with the prefix of a profile.
LEMMA Prefixed ==
  ASSUME NEW p \in Nat, NEW id \in Seq(Nat)
  PROVE  /\ <<p>> \o id \in Seq(Nat) /\ Len(<<p>> \o id) = Len(id) + 1
         /\ (<<p>> \o id)[1] = p /\ Tail(<<p>> \o id) = id
         /\ \A other \in Seq(Nat) : <<p>> \o id = <<p>> \o other => id = other
<1>1. \A x \in Seq(Nat) :
        /\ <<p>> \o x \in Seq(Nat) /\ Len(<<p>> \o x) = Len(x) + 1
        /\ (<<p>> \o x)[1] = p /\ Tail(<<p>> \o x) = x
  <2> SUFFICES ASSUME NEW x \in Seq(Nat)
               PROVE  /\ <<p>> \o x \in Seq(Nat) /\ Len(<<p>> \o x) = Len(x) + 1
                      /\ (<<p>> \o x)[1] = p /\ Tail(<<p>> \o x) = x
    OBVIOUS
  <2>1. <<p>> \in Seq(Nat) /\ Len(<<p>>) = 1 /\ <<p>>[1] = p
    OBVIOUS
  <2>2. PICK y : y = <<p>> \o x
    OBVIOUS
  <2>3. /\ y \in Seq(Nat) /\ Len(y) = 1 + Len(x) /\ Len(x) \in Nat
        /\ \A i \in 1..(1 + Len(x)) : y[i] = IF i <= 1 THEN p ELSE x[i - 1]
    BY <2>1, <2>2, ConcatProperties, LenProperties
  <2>4. y[1] = p /\ y # <<>>
    BY <2>3, EmptySeq
  <2>5. /\ Tail(y) \in Seq(Nat) /\ Len(Tail(y)) = Len(y) - 1
        /\ \A i \in 1..Len(Tail(y)) : Tail(y)[i] = y[i + 1]
    BY <2>3, <2>4, HeadTailProperties
  <2>6. Len(Tail(y)) = Len(x) /\ \A i \in 1..Len(x) : Tail(y)[i] = x[i]
    BY <2>3, <2>5
  <2>7. Tail(y) = x
    BY <2>5, <2>6, SeqEqual
  <2> QED
    BY <2>2, <2>3, <2>4, <2>7
<1>2. \A other \in Seq(Nat) : <<p>> \o id = <<p>> \o other => id = other
  BY <1>1
<1> QED
  BY <1>1, <1>2

\* An id of a profile that is new.
LEMMA NewIds ==
  ASSUME NEW t, NEW u, t.profiles \in Nat, u.profiles \in Nat,
         NEW id \in Seq(Nat), Len(id) >= 2, id[1] \in (t.profiles + 1)..u.profiles
  PROVE  /\ Given(id, u)
         /\ \A n \in Nat : id # <<n>>
         /\ \A other : Given(other, t) => other # id
<1>1. Len(id) \in Nat
  BY LenProperties
<1>2. PICK p : p = id[1]
  OBVIOUS
<1>3. PICK a \in Nat, b \in Nat : a = t.profiles /\ b = u.profiles
  OBVIOUS
<1>4. p \in (a + 1)..b
  BY <1>2, <1>3
<1>5. p \in 1..b /\ p \notin 1..a
  BY <1>4
<1>6. \A n \in Nat : Len(<<n>>) = 1
  OBVIOUS
<1>7. PICK k \in Nat : k = Len(id)
  BY <1>1
<1>8. k # 1
  BY <1>7
<1>9. Given(id, u)
  BY <1>2, <1>3, <1>5, <1>7, <1>8 DEF Given
<1>10. \A other : Given(other, t) => other # id
  BY <1>2, <1>3, <1>5, <1>7, <1>8 DEF Given
<1>11. \A n \in Nat : id # <<n>>
  BY <1>6, <1>7, <1>8
<1> QED
  BY <1>9, <1>10, <1>11

\* More categories, whose assets have ids of new profiles, and files that others have.
LEMMA MoreCategories ==
  ASSUME ArtInv, NEW more, NEW t, t.assets = taken.assets, t.profiles \in Nat,
         taken.profiles <= t.profiles,
         \A c \in DOMAIN more : c \in Seq(Nat) /\ IsCategory(more[c]),
         \A c \in DOMAIN more : \A i \in DOMAIN more[c].assets :
           /\ more[c].assets[i].id \in Seq(Nat) /\ Len(more[c].assets[i].id) >= 2
           /\ more[c].assets[i].id[1] \in (taken.profiles + 1)..t.profiles
           /\ more[c].assets[i].file = None \/ HasFile(library, more[c].assets[i].file),
         \A c, d \in DOMAIN more :
           \A i \in DOMAIN more[c].assets, j \in DOMAIN more[d].assets :
             more[c].assets[i].id = more[d].assets[j].id => c = d /\ i = j
  PROVE  /\ LibraryOk(Art!WithCategories(more), t)
         /\ \A n \in Nat : HasId(Art!WithCategories(more), <<n>>) => HasId(library, <<n>>)
         /\ \A f : HasFile(Art!WithCategories(more), f) => f = None \/ HasFile(library, f)
<1> DEFINE lib == Art!WithCategories(more)
<1>1. /\ LibraryOk(library, taken) /\ taken.assets \in Nat /\ taken.profiles \in Nat
  BY DEF ArtInv
<1>2. LibraryOk(library, t)
  BY <1>1, MoreGiven
<1>3. /\ \A c \in DOMAIN lib : c \in DOMAIN library \/ c \in DOMAIN more
      /\ \A c \in DOMAIN library : c \in DOMAIN lib /\ lib[c] = library[c]
      /\ \A c \in DOMAIN lib : c \notin DOMAIN library => lib[c] = more[c]
  BY DEF Art!WithCategories
<1> HIDE DEF lib
<1>4. \A c \in DOMAIN lib : c \in Seq(Nat) /\ IsCategory(lib[c])
  BY <1>2, <1>3 DEF LibraryOk
<1>5. \A c \in DOMAIN library : \A i \in DOMAIN library[c].assets :
        library[c].assets[i].file \in {None} \cup 1..t.assets
  BY <1>1 DEF LibraryOk
<1>6. \A f : HasFile(library, f) => f \in {None} \cup 1..t.assets
  BY <1>5 DEF HasFile
<1>7. ASSUME NEW c \in DOMAIN lib, NEW i \in DOMAIN lib[c].assets
      PROVE  /\ Given(lib[c].assets[i].id, t)
             /\ lib[c].assets[i].file \in {None} \cup 1..t.assets
  <2>1. CASE c \in DOMAIN library
    BY <1>2, <1>3, <2>1 DEF LibraryOk
  <2>2. CASE c \notin DOMAIN library
    <3>1. c \in DOMAIN more /\ lib[c] = more[c]
      BY <1>3, <2>2
    <3>2. PICK id : id = more[c].assets[i].id
      OBVIOUS
    <3>3. /\ id \in Seq(Nat) /\ Len(id) >= 2
          /\ id[1] \in (taken.profiles + 1)..t.profiles
      BY <3>1, <3>2
    <3>4. Given(id, t)
      BY <1>1, <3>3, NewIds
    <3> QED
      BY <1>6, <3>1, <3>2, <3>4
  <2> QED
    BY <2>1, <2>2
<1>8. ASSUME NEW c \in DOMAIN lib, NEW d \in DOMAIN lib, NEW i \in DOMAIN lib[c].assets,
             NEW j \in DOMAIN lib[d].assets, lib[c].assets[i].id = lib[d].assets[j].id
      PROVE  c = d /\ i = j
  <2>1. ASSUME NEW x \in DOMAIN library, NEW y \in DOMAIN more,
               NEW k \in DOMAIN library[x].assets, NEW l \in DOMAIN more[y].assets
        PROVE  library[x].assets[k].id # more[y].assets[l].id
    <3>1. Given(library[x].assets[k].id, taken)
      BY <1>1 DEF LibraryOk
    <3>2. PICK id : id = more[y].assets[l].id
      OBVIOUS
    <3>3. /\ id \in Seq(Nat) /\ Len(id) >= 2
          /\ id[1] \in (taken.profiles + 1)..t.profiles
      BY <3>2
    <3>4. \A other : Given(other, taken) => other # id
      BY <1>1, <3>3, NewIds
    <3> QED
      BY <3>1, <3>2, <3>4
  <2>2. CASE c \in DOMAIN library /\ d \in DOMAIN library
    BY <1>2, <1>3, <1>8, <2>2 DEF LibraryOk
  <2>3. CASE c \in DOMAIN library /\ d \notin DOMAIN library
    BY <1>3, <1>8, <2>1, <2>3
  <2>4. CASE c \notin DOMAIN library /\ d \in DOMAIN library
    BY <1>3, <1>8, <2>1, <2>4
  <2>5. CASE c \notin DOMAIN library /\ d \notin DOMAIN library
    BY <1>3, <1>8, <2>5
  <2> QED
    BY <2>2, <2>3, <2>4, <2>5
<1>9. LibraryOk(lib, t)
  BY <1>4, <1>7, <1>8 DEF LibraryOk
<1>10. ASSUME NEW n \in Nat, HasId(lib, <<n>>) PROVE HasId(library, <<n>>)
  <2>1. PICK c \in DOMAIN lib : \E i \in DOMAIN lib[c].assets : lib[c].assets[i].id = <<n>>
    BY <1>10 DEF HasId
  <2>2. PICK i \in DOMAIN lib[c].assets : lib[c].assets[i].id = <<n>>
    BY <2>1
  <2>3. ASSUME c \notin DOMAIN library PROVE FALSE
    <3>1. c \in DOMAIN more /\ lib[c] = more[c]
      BY <1>3, <2>3
    <3>2. PICK id : id = more[c].assets[i].id
      OBVIOUS
    <3>3. /\ id \in Seq(Nat) /\ Len(id) >= 2 /\ id = <<n>>
          /\ id[1] \in (taken.profiles + 1)..t.profiles
      BY <2>2, <3>1, <3>2
    <3> QED
      BY <1>1, <3>3, NewIds
  <2> QED
    BY <1>3, <2>2, <2>3 DEF HasId
<1>11. \A f : HasFile(lib, f) => f = None \/ HasFile(library, f)
  <2>1. ASSUME NEW c \in DOMAIN lib, NEW i \in DOMAIN lib[c].assets
        PROVE  lib[c].assets[i].file = None \/ HasFile(library, lib[c].assets[i].file)
    BY <1>3 DEF HasFile
  <2> QED
    BY <2>1 DEF HasFile
<1> QED
  BY <1>9, <1>10, <1>11 DEF lib

\* A profile with categories is added.
LEMMA ProfileKeepsInv ==
  ASSUME ArtInv, NEW more, Art!AddProfile(Art!NewProfile, Art!WithCategories(more)),
         \A c \in DOMAIN more : c \in Seq(Nat) /\ IsCategory(more[c]),
         \A c \in DOMAIN more : \A i \in DOMAIN more[c].assets :
           /\ more[c].assets[i].id \in Seq(Nat) /\ Len(more[c].assets[i].id) >= 2
           /\ more[c].assets[i].id[1] = taken.profiles + 1
           /\ more[c].assets[i].file = None \/ HasFile(library, more[c].assets[i].file),
         \A c, d \in DOMAIN more :
           \A i \in DOMAIN more[c].assets, j \in DOMAIN more[d].assets :
             more[c].assets[i].id = more[d].assets[j].id => c = d /\ i = j
  PROVE  ArtInv'
<1>1. /\ taken = [profiles |-> taken.profiles, categories |-> taken.categories,
                  assets |-> taken.assets]
      /\ taken.profiles \in Nat /\ taken.categories \in Nat
  BY DEF ArtInv
<1>2. /\ library' = Art!WithCategories(more)
      /\ taken' = [taken EXCEPT !.profiles = taken.profiles + 1]
      /\ UNCHANGED <<requests, disk, saved, lost>>
  BY DEF Art!AddProfile, Art!Changed, Art!NewProfile
<1>3. PICK t : t = taken'
  OBVIOUS
<1>4. t = [profiles |-> taken.profiles + 1, categories |-> taken.categories,
           assets |-> taken.assets]
  BY <1>1, <1>2, <1>3
<1>5. /\ t.categories = taken.categories /\ t.categories \in Nat
      /\ t.profiles = taken.profiles + 1 /\ t.profiles \in Nat /\ taken.profiles <= t.profiles
      /\ t.assets = taken.assets
      /\ (taken.profiles + 1) \in (taken.profiles + 1)..t.profiles
  BY <1>1, <1>4
<1>6. \A c \in DOMAIN more : \A i \in DOMAIN more[c].assets :
        /\ more[c].assets[i].id \in Seq(Nat) /\ Len(more[c].assets[i].id) >= 2
        /\ more[c].assets[i].id[1] \in (taken.profiles + 1)..t.profiles
        /\ more[c].assets[i].file = None \/ HasFile(library, more[c].assets[i].file)
  BY <1>5
<1>7. /\ LibraryOk(Art!WithCategories(more), t)
      /\ \A n \in Nat : HasId(Art!WithCategories(more), <<n>>) => HasId(library, <<n>>)
      /\ \A f : HasFile(Art!WithCategories(more), f) => f = None \/ HasFile(library, f)
  BY <1>5, <1>6, MoreCategories
<1>8. PICK lib : lib = Art!WithCategories(more)
  OBVIOUS
<1>9. /\ LibraryOk(lib, t) /\ library' = lib
      /\ \A n \in Nat : HasId(lib, <<n>>) => HasId(library, <<n>>)
      /\ \A f : HasFile(lib, f) => f = None \/ HasFile(library, f)
  BY <1>2, <1>7, <1>8
<1> QED
  BY <1>2, <1>3, <1>4, <1>5, <1>9, LibrarySteps

\* A category as NewCategory and the copies have it.
LEMMA Categories ==
  ASSUME NEW p, NEW assets \in Seq(Art!Asset), NEW s
  PROVE  /\ IsCategory([profile |-> p, assets |-> assets, selected |-> s])
         /\ [profile |-> p, assets |-> assets, selected |-> s].assets = assets
BY DEF IsCategory

LEMMA CreateProfileKeepsInv ==
  ASSUME ArtInv, Art!CreateProfile
  PROVE  ArtInv'
<1>1. PICK p \in Nat : p = taken.profiles + 1
  BY DEF ArtInv
<1> DEFINE assets == Art!Seeds(<<p>>)
           more == [c \in {<<p, 0>>} |-> Art!NewCategory(p, assets)]
<1>2. Art!AddProfile(Art!NewProfile, Art!WithCategories(more))
  BY <1>1 DEF Art!CreateProfile, Art!NewProfile
<1>3. PICK id : id = <<p>> \o <<0>>
  OBVIOUS
<1>4. id \in Seq(Nat) /\ Len(id) = 2 /\ id[1] = p
  BY <1>3, Prefixed
<1>5. assets = <<[id |-> id, kind |-> "seed", file |-> None]>>
  BY <1>3 DEF Art!Seeds
<1>6. PICK a \in Art!Asset : /\ a = [id |-> id, kind |-> "seed", file |-> None]
                             /\ a.id = id /\ a.file = None
  <2> DEFINE b == [id |-> id, kind |-> "seed", file |-> None]
  <2>1. b \in Art!Asset
    BY <1>4 DEF Art!Asset, Art!Id, Art!Kind
  <2>2. b.id = id /\ b.file = None
    OBVIOUS
  <2> QED
    BY <2>1, <2>2
<1>7. /\ assets \in Seq(Art!Asset) /\ DOMAIN assets = {1}
      /\ assets[1].id = id /\ assets[1].file = None
  <2>1. assets = <<a>>
    BY <1>5, <1>6
  <2>2. <<a>> \in Seq(Art!Asset) /\ DOMAIN <<a>> = {1} /\ <<a>>[1] = a
    OBVIOUS
  <2> QED
    BY <1>6, <2>1, <2>2
<1> HIDE DEF assets
<1>8. /\ DOMAIN more = {<<p, 0>>} /\ <<p, 0>> \in Seq(Nat)
      /\ more[<<p, 0>>].assets = assets /\ IsCategory(more[<<p, 0>>])
  BY <1>7, Categories DEF Art!NewCategory
<1> HIDE DEF more
<1>9. \A c \in DOMAIN more : c \in Seq(Nat) /\ IsCategory(more[c])
  BY <1>8
<1>10. \A c \in DOMAIN more : \A i \in DOMAIN more[c].assets :
         /\ more[c].assets[i].id \in Seq(Nat) /\ Len(more[c].assets[i].id) >= 2
         /\ more[c].assets[i].id[1] = taken.profiles + 1
         /\ more[c].assets[i].file = None \/ HasFile(library, more[c].assets[i].file)
  <2>1. ASSUME NEW c \in DOMAIN more, NEW i \in DOMAIN more[c].assets
        PROVE  more[c].assets[i].id = id /\ more[c].assets[i].file = None
    BY <1>7, <1>8
  <2>2. id \in Seq(Nat) /\ Len(id) >= 2 /\ id[1] = taken.profiles + 1
    BY <1>1, <1>4
  <2> QED
    BY <2>1, <2>2
<1>11. \A c, d \in DOMAIN more :
         \A i \in DOMAIN more[c].assets, j \in DOMAIN more[d].assets :
           more[c].assets[i].id = more[d].assets[j].id => c = d /\ i = j
  BY <1>7, <1>8
<1> QED
  BY <1>2, <1>9, <1>10, <1>11, ProfileKeepsInv

\* A category without assets.
LEMMA AddCategoryKeepsInv ==
  ASSUME ArtInv, NEW p, Art!AddCategory(p)
  PROVE  ArtInv'
<1>1. PICK n \in Nat : n = taken.categories + 1
  BY DEF ArtInv
<1> DEFINE more == [c \in {<<n, 0, 0>>} |-> Art!NewCategory(p, <<>>)]
<1>2. /\ library' = Art!WithCategories(more)
      /\ taken' = [taken EXCEPT !.categories = n]
      /\ UNCHANGED <<requests, disk, saved, lost>>
  BY <1>1 DEF Art!AddCategory, Art!Changed
<1>3. /\ <<>> \in Seq(Art!Asset) /\ DOMAIN more = {<<n, 0, 0>>} /\ <<n, 0, 0>> \in Seq(Nat)
      /\ more[<<n, 0, 0>>].assets = <<>> /\ IsCategory(more[<<n, 0, 0>>])
  <2>1. PICK k : k = Art!NewCategory(p, <<>>)
    OBVIOUS
  <2>2. <<>> \in Seq(Art!Asset) /\ <<n, 0, 0>> \in Seq(Nat)
    OBVIOUS
  <2>3. k.assets = <<>> /\ IsCategory(k)
    BY <2>1, <2>2, Categories DEF Art!NewCategory
  <2>4. more = [c \in {<<n, 0, 0>>} |-> k]
    BY <2>1
  <2> HIDE DEF more
  <2> QED
    BY <2>2, <2>3, <2>4
<1> HIDE DEF more
<1>4. \A c \in DOMAIN more : /\ c \in Seq(Nat) /\ IsCategory(more[c])
                             /\ DOMAIN more[c].assets = {}
  <2>1. DOMAIN <<>> = {}
    OBVIOUS
  <2> QED
    BY <1>3, <2>1
<1>5. PICK t : t = taken'
  OBVIOUS
<1>6. /\ taken = [profiles |-> taken.profiles, categories |-> taken.categories,
                  assets |-> taken.assets]
      /\ taken.profiles \in Nat
  BY DEF ArtInv
<1>7. /\ t = [profiles |-> taken.profiles, categories |-> n, assets |-> taken.assets]
      /\ t.profiles = taken.profiles /\ t.categories = n /\ t.assets = taken.assets
      /\ t.profiles \in Nat /\ taken.profiles <= t.profiles
  BY <1>2, <1>5, <1>6
<1>8. /\ LibraryOk(Art!WithCategories(more), t)
      /\ \A k \in Nat : HasId(Art!WithCategories(more), <<k>>) => HasId(library, <<k>>)
      /\ \A f : HasFile(Art!WithCategories(more), f) => f = None \/ HasFile(library, f)
  BY <1>4, <1>7, MoreCategories
<1>9. PICK lib : lib = Art!WithCategories(more)
  OBVIOUS
<1>10. /\ LibraryOk(lib, t) /\ library' = lib
       /\ \A k \in Nat : HasId(lib, <<k>>) => HasId(library, <<k>>)
       /\ \A f : HasFile(lib, f) => f = None \/ HasFile(library, f)
  BY <1>2, <1>8, <1>9
<1> QED
  BY <1>2, <1>5, <1>7, <1>10, LibrarySteps

\* The copies' keys, ids and assets.
LEMMA DuplicateProfileKeepsInv ==
  ASSUME ArtInv, NEW source, Art!DuplicateProfile(source)
  PROVE  ArtInv'
<1>1. PICK p \in Nat : p = taken.profiles + 1
  BY DEF ArtInv
<1> DEFINE Copied(id) == <<p>> \o id
           Copies(c) == [i \in DOMAIN c.assets |-> [c.assets[i] EXCEPT !.id = Copied(@)]]
           Selected(c) == IF c.selected = None THEN None ELSE Copied(c.selected)
           Copy(c) == [profile |-> p, assets |-> Copies(c), selected |-> Selected(c)]
           old == {c \in DOMAIN library : library[c].profile = source}
           new == {Copied(c) : c \in old}
           more == [n \in new |-> Copy(library[Tail(n)])]
<1>2. Art!AddProfile(Art!NewProfile, Art!WithCategories(more))
  BY <1>1 DEF Art!DuplicateProfile, Art!NewProfile
<1>3. LibraryOk(library, taken)
  BY DEF ArtInv
<1>4. ASSUME NEW n \in new
      PROVE  /\ n \in Seq(Nat) /\ Tail(n) \in DOMAIN library /\ n = Copied(Tail(n))
             /\ Tail(n) \in Seq(Nat)
  <2>1. PICK c \in DOMAIN library : n = Copied(c)
    BY <1>4
  <2>2. c \in Seq(Nat)
    BY <1>3 DEF LibraryOk
  <2>3. Copied(c) \in Seq(Nat) /\ Tail(Copied(c)) = c
    BY <2>2, Prefixed
  <2> HIDE DEF Copied
  <2> QED
    BY <2>1, <2>2, <2>3
<1>5. ASSUME NEW c \in DOMAIN library
      PROVE  /\ Copies(library[c]) \in Seq(Art!Asset)
             /\ DOMAIN Copies(library[c]) = DOMAIN library[c].assets
             /\ \A i \in DOMAIN library[c].assets :
                  /\ Copies(library[c])[i].id = Copied(library[c].assets[i].id)
                  /\ Copies(library[c])[i].file = library[c].assets[i].file
                  /\ library[c].assets[i].id \in Seq(Nat)
  <2>1. PICK assets \in Seq(Art!Asset) : assets = library[c].assets
    BY <1>3 DEF LibraryOk, IsCategory
  <2>2. PICK k \in Nat : DOMAIN assets = 1..k
    BY LenProperties
  <2>3. ASSUME NEW i \in DOMAIN assets
        PROVE  /\ assets[i].id \in Seq(Nat)
               /\ [assets[i] EXCEPT !.id = Copied(@)] \in Art!Asset
               /\ [assets[i] EXCEPT !.id = Copied(@)].id = Copied(assets[i].id)
               /\ [assets[i] EXCEPT !.id = Copied(@)].file = assets[i].file
    <3>1. PICK a \in Art!Asset : a = assets[i]
      BY ElementOfSeq
    <3>2. a.id \in Seq(Nat)
      BY DEF Art!Asset, Art!Id
    <3>3. Copied(a.id) \in Seq(Nat)
      BY <3>2, Prefixed
    <3> HIDE DEF Copied
    <3> QED
      BY <3>1, <3>2, <3>3 DEF Art!Asset, Art!Id
  <2>4. Copies(library[c]) = [i \in 1..k |-> [assets[i] EXCEPT !.id = Copied(@)]]
    BY <2>1, <2>2
  <2> HIDE DEF Copied, Copies
  <2>5. Copies(library[c]) \in [1..k -> Art!Asset]
    BY <2>2, <2>3, <2>4
  <2>6. Copies(library[c]) \in Seq(Art!Asset)
    BY <2>2, <2>5
  <2> QED
    BY <2>1, <2>2, <2>3, <2>4, <2>6
<1>6. ASSUME NEW n \in new
      PROVE  /\ IsCategory(more[n]) /\ more[n].assets = Copies(library[Tail(n)])
             /\ DOMAIN more[n].assets = DOMAIN library[Tail(n)].assets
             /\ \A i \in DOMAIN more[n].assets :
                  /\ more[n].assets[i].id = Copied(library[Tail(n)].assets[i].id)
                  /\ more[n].assets[i].file = library[Tail(n)].assets[i].file
                  /\ library[Tail(n)].assets[i].id \in Seq(Nat)
  <2>1. PICK c \in DOMAIN library : c = Tail(n)
    BY <1>4
  <2>2. more[n] = [profile |-> p, assets |-> Copies(library[c]), selected |-> Selected(library[c])]
    BY <2>1
  <2> HIDE DEF more, Copies, Copied, Selected, new
  <2>3. PICK assets \in Seq(Art!Asset) : assets = Copies(library[c])
    BY <1>5
  <2>4. IsCategory(more[n]) /\ more[n].assets = assets
    BY <2>2, <2>3, Categories
  <2> QED
    BY <1>5, <2>1, <2>3, <2>4
<1>7. DOMAIN more = new
  OBVIOUS
<1> HIDE DEF more, Copies, Selected, new
<1>8. \A n \in DOMAIN more : n \in Seq(Nat) /\ IsCategory(more[n])
  BY <1>4, <1>6, <1>7
<1>9. \A n \in DOMAIN more : \A i \in DOMAIN more[n].assets :
        /\ more[n].assets[i].id \in Seq(Nat) /\ Len(more[n].assets[i].id) >= 2
        /\ more[n].assets[i].id[1] = taken.profiles + 1
        /\ more[n].assets[i].file = None \/ HasFile(library, more[n].assets[i].file)
  <2> SUFFICES ASSUME NEW n \in new, NEW i \in DOMAIN more[n].assets
               PROVE  /\ more[n].assets[i].id \in Seq(Nat) /\ Len(more[n].assets[i].id) >= 2
                      /\ more[n].assets[i].id[1] = taken.profiles + 1
                      /\ HasFile(library, more[n].assets[i].file)
    BY <1>7
  <2>1. PICK c \in DOMAIN library : c = Tail(n)
    BY <1>4
  <2>2. PICK id \in Seq(Nat) : id = library[c].assets[i].id
    BY <1>6, <2>1
  <2>3. Given(id, taken)
    BY <1>3, <1>6, <2>1, <2>2 DEF LibraryOk
  <2>4. /\ Copied(id) \in Seq(Nat) /\ Len(Copied(id)) = Len(id) + 1 /\ Copied(id)[1] = p
        /\ Len(id) \in Nat /\ Len(id) >= 1
    BY <2>3, Prefixed, LenProperties DEF Given
  <2>5. HasFile(library, library[c].assets[i].file)
    BY <1>6, <2>1 DEF HasFile
  <2> HIDE DEF Copied
  <2>6. Len(Copied(id)) >= 2
    BY <2>4
  <2> QED
    BY <1>1, <1>6, <2>1, <2>2, <2>4, <2>5, <2>6
<1>10. \A c, d \in DOMAIN more :
         \A i \in DOMAIN more[c].assets, j \in DOMAIN more[d].assets :
           more[c].assets[i].id = more[d].assets[j].id => c = d /\ i = j
  <2> SUFFICES ASSUME NEW c \in new, NEW d \in new,
                      NEW i \in DOMAIN more[c].assets, NEW j \in DOMAIN more[d].assets,
                      more[c].assets[i].id = more[d].assets[j].id
               PROVE  c = d /\ i = j
    BY <1>7
  <2>1. PICK x \in DOMAIN library, y \in DOMAIN library :
          x = Tail(c) /\ y = Tail(d) /\ c = Copied(x) /\ d = Copied(y)
    BY <1>4
  <2>2. PICK a \in Seq(Nat), b \in Seq(Nat) :
          a = library[x].assets[i].id /\ b = library[y].assets[j].id
    BY <1>6, <2>1
  <2>3. Copied(a) = Copied(b) /\ i \in DOMAIN library[x].assets /\ j \in DOMAIN library[y].assets
    BY <1>6, <2>1, <2>2
  <2>4. a = b
    BY <2>3, Prefixed
  <2> HIDE DEF Copied
  <2>5. library[x].assets[i].id = library[y].assets[j].id
    BY <2>2, <2>4
  <2>6. x = y /\ i = j
    BY <1>3, <2>3, <2>5 DEF LibraryOk
  <2> QED
    BY <2>1, <2>6
<1> QED
  BY <1>2, <1>8, <1>9, <1>10, ProfileKeepsInv

\* An asset, with a number that no other has, is put first.
LEMMA AssetAdded ==
  ASSUME NEW t, LibraryOk(library, t), t.assets \in Nat,
         NEW c \in DOMAIN library, NEW n \in Nat, n <= t.assets, ~HasId(library, <<n>>),
         NEW kind \in Art!Kind, NEW image \in {None} \cup 1..t.assets,
         image \in {None} \cup Art!File,
         NEW lib, lib = Art!WithAsset(c, [id |-> <<n>>, kind |-> kind, file |-> image])
  PROVE  /\ LibraryOk(lib, t)
         /\ \A id : HasId(lib, id) => HasId(library, id) \/ id = <<n>>
         /\ \A f : HasFile(lib, f) => HasFile(library, f) \/ f = image
<1>1. PICK k : k = library[c] /\ IsCategory(k)
  BY DEF LibraryOk
<1>2. PICK assets \in Seq(Art!Asset) : assets = k.assets
  BY <1>1 DEF IsCategory
<1>3. PICK a \in Art!Asset : /\ a = [id |-> <<n>>, kind |-> kind, file |-> image]
                             /\ a.id = <<n>> /\ a.file = image
  <2> DEFINE b == [id |-> <<n>>, kind |-> kind, file |-> image]
  <2>1. b \in Art!Asset
    BY DEF Art!Asset, Art!Id
  <2>2. b.id = <<n>> /\ b.file = image
    OBVIOUS
  <2> QED
    BY <2>1, <2>2
<1>4. PICK more : more = <<a>> \o assets
  OBVIOUS
<1>5. PICK len \in Nat : len = Len(assets) /\ DOMAIN assets = 1..len
  BY LenProperties
<1>6. /\ more \in Seq(Art!Asset) /\ DOMAIN more = 1..(len + 1) /\ more[1] = a
      /\ \A i \in 1..(len + 1) : i # 1 => i - 1 \in 1..len /\ more[i] = assets[i - 1]
  <2>1. <<a>> \in Seq(Art!Asset) /\ Len(<<a>>) = 1 /\ <<a>>[1] = a
    OBVIOUS
  <2>2. /\ more \in Seq(Art!Asset) /\ Len(more) = 1 + len
        /\ \A i \in 1..(1 + len) : more[i] = IF i <= 1 THEN <<a>>[i] ELSE assets[i - 1]
    BY <1>4, <1>5, <2>1, ConcatProperties
  <2>3. DOMAIN more = 1..(len + 1)
    BY <2>2, LenProperties
  <2> QED
    BY <2>1, <2>2, <2>3
<1>7. PICK l : l = [profile |-> k.profile, assets |-> more, selected |-> a.id]
  OBVIOUS
<1>8. IsCategory(l) /\ l.assets = more
  BY <1>6, <1>7, Categories
<1>9. lib = [library EXCEPT ![c] = l]
  <2>1. lib = Art!WithAsset(c, a)
    BY <1>3
  <2>2. [profile |-> library[c].profile, assets |-> <<a>> \o library[c].assets,
         selected |-> a.id] = l
    BY <1>1, <1>2, <1>4, <1>7
  <2> QED
    BY <2>1, <2>2 DEF Art!WithAsset
<1>10. /\ DOMAIN lib = DOMAIN library /\ lib[c] = l
       /\ \A d \in DOMAIN library : d # c => lib[d] = library[d]
  BY <1>9
<1>11. ASSUME NEW d \in DOMAIN library, NEW i \in DOMAIN lib[d].assets
       PROVE  \/ d = c /\ i = 1 /\ lib[d].assets[i] = a
              \/ \E j \in DOMAIN library[d].assets :
                   /\ lib[d].assets[i] = library[d].assets[j]
                   /\ i = IF d = c THEN j + 1 ELSE j
  <2>1. CASE d # c
    BY <1>10, <2>1
  <2>2. CASE d = c /\ i = 1
    BY <1>6, <1>8, <1>10, <2>2
  <2>3. CASE d = c /\ i # 1
    <3>1. i \in 1..(len + 1) /\ i - 1 \in DOMAIN assets /\ lib[d].assets[i] = assets[i - 1]
      BY <1>5, <1>6, <1>8, <1>10, <2>3
    <3>2. i = (i - 1) + 1
      BY <3>1
    <3> QED
      BY <1>1, <1>2, <2>3, <3>1, <3>2
  <2> QED
    BY <2>1, <2>2, <2>3
<1>12. Given(<<n>>, t)
  BY DEF Given
<1>13. \A d \in DOMAIN lib : d \in Seq(Nat) /\ IsCategory(lib[d])
  BY <1>8, <1>10 DEF LibraryOk
<1>14. \A d \in DOMAIN lib : \A i \in DOMAIN lib[d].assets :
         /\ Given(lib[d].assets[i].id, t)
         /\ lib[d].assets[i].file \in {None} \cup 1..t.assets
  <2> SUFFICES ASSUME NEW d \in DOMAIN library, NEW i \in DOMAIN lib[d].assets
               PROVE  /\ Given(lib[d].assets[i].id, t)
                      /\ lib[d].assets[i].file \in {None} \cup 1..t.assets
    BY <1>10
  <2>1. \A j \in DOMAIN library[d].assets :
          /\ Given(library[d].assets[j].id, t)
          /\ library[d].assets[j].file \in {None} \cup 1..t.assets
    BY DEF LibraryOk
  <2> QED
    BY <1>3, <1>11, <1>12, <2>1
<1>15. ASSUME NEW d \in DOMAIN lib, NEW e \in DOMAIN lib, NEW i \in DOMAIN lib[d].assets,
              NEW j \in DOMAIN lib[e].assets, lib[d].assets[i].id = lib[e].assets[j].id
       PROVE  d = e /\ i = j
  <2>1. \A x \in DOMAIN library : \A y \in DOMAIN library[x].assets :
          library[x].assets[y].id # a.id
    BY <1>3 DEF HasId
  <2>2. CASE d = c /\ i = 1 /\ lib[d].assets[i] = a
    BY <1>10, <1>11, <1>15, <2>1, <2>2
  <2>3. CASE e = c /\ j = 1 /\ lib[e].assets[j] = a
    BY <1>10, <1>11, <1>15, <2>1, <2>3
  <2>4. ASSUME NEW x \in DOMAIN library[d].assets, lib[d].assets[i] = library[d].assets[x],
               i = (IF d = c THEN x + 1 ELSE x),
               NEW y \in DOMAIN library[e].assets, lib[e].assets[j] = library[e].assets[y],
               j = (IF e = c THEN y + 1 ELSE y)
        PROVE  d = e /\ i = j
    <3>1. library[d].assets[x].id = library[e].assets[y].id
      BY <1>15, <2>4
    <3>2. d = e /\ x = y
      BY <1>10, <3>1 DEF LibraryOk
    <3> QED
      BY <2>4, <3>2
  <2> QED
    BY <1>10, <1>11, <2>2, <2>3, <2>4
<1>16. LibraryOk(lib, t)
  BY <1>13, <1>14, <1>15 DEF LibraryOk
<1>17. \A id : HasId(lib, id) => HasId(library, id) \/ id = <<n>>
  BY <1>3, <1>10, <1>11 DEF HasId
<1>18. \A f : HasFile(lib, f) => HasFile(library, f) \/ f = image
  BY <1>3, <1>10, <1>11 DEF HasFile
<1> QED
  BY <1>16, <1>17, <1>18

\* A step that gives no id, after which the library has files that it had.
LEMMA RequestsEnd ==
  ASSUME ArtInv, UNCHANGED <<saved, taken>>, disk \cup lost \subseteq disk' \cup lost',
         LibraryOk(library', taken), RequestsOk',
         \A f : HasFile(library', f) => HasFile(library, f) \/ f \in disk' \cup lost' \cup {None}
  PROVE  ArtInv'
<1>1. LibraryOk(library, taken)' /\ LibraryOk(saved.library, taken)'
  BY DEF ArtInv, LibraryOk, Given
<1>2. \A f : HasFile(library', f) => f \in disk' \cup lost' \cup {None}
  BY DEF ArtInv
<1>3. \A f : HasFile(library, f)' => f \in disk' \cup lost' \cup {None}
  BY <1>2 DEF HasFile
<1> QED
  BY <1>1, <1>3 DEF ArtInv

\* No asset has the next number, and none has its file.
LEMMA NextNumber ==
  ASSUME ArtInv
  PROVE  /\ taken.assets + 1 \in Nat /\ None \notin Nat
         /\ ~HasId(library, <<taken.assets + 1>>) /\ ~HasFile(library, taken.assets + 1)
<1>1. PICK n \in Nat, k \in Nat : n = taken.assets + 1 /\ k = taken.assets /\ n = k + 1
  BY DEF ArtInv
<1>2. None \notin Nat
  BY ArtAssumption
<1>3. ~Given(<<n>>, taken)
  <2>1. Len(<<n>>) = 1 /\ <<n>>[1] = n
    OBVIOUS
  <2> QED
    BY <1>1, <2>1 DEF Given
<1>4. n \notin {None} \cup 1..taken.assets
  BY <1>1, <1>2
<1>5. ~HasId(library, <<n>>)
  <2>1. \A c \in DOMAIN library : \A i \in DOMAIN library[c].assets :
          Given(library[c].assets[i].id, taken)
    BY DEF ArtInv, LibraryOk
  <2> QED
    BY <1>3, <2>1 DEF HasId
<1>6. ~HasFile(library, n)
  BY <1>4 DEF HasFile, ArtInv, LibraryOk
<1> QED
  BY <1>1, <1>2, <1>5, <1>6

LEMMA LinkAssetKeepsInv ==
  ASSUME ArtInv, NEW c, Art!LinkAsset(c)
  PROVE  ArtInv'
<1>1. PICK n \in Nat : n = taken.assets + 1
  BY NextNumber
<1>2. PICK lib : lib = Art!WithAsset(c, [id |-> <<n>>, kind |-> "link", file |-> None])
  OBVIOUS
<1>3. /\ library' = lib /\ taken' = [taken EXCEPT !.assets = n] /\ c \in DOMAIN library
      /\ UNCHANGED <<requests, disk, saved, lost>>
  BY <1>1, <1>2 DEF Art!LinkAsset, Art!Changed
<1>4. PICK t : t = taken'
  OBVIOUS
<1>5. /\ taken = [profiles |-> taken.profiles, categories |-> taken.categories,
                  assets |-> taken.assets]
      /\ taken.profiles \in Nat /\ taken.categories \in Nat /\ taken.assets \in Nat
      /\ LibraryOk(library, taken) /\ LibraryOk(saved.library, taken)
  BY DEF ArtInv
<1>6. /\ t = [profiles |-> taken.profiles, categories |-> taken.categories, assets |-> n]
      /\ t.profiles = taken.profiles /\ t.categories = taken.categories /\ t.assets = n
      /\ taken.assets <= n
  BY <1>1, <1>3, <1>4, <1>5
<1>7. LibraryOk(library, t) /\ LibraryOk(saved.library, t)
  BY <1>5, <1>6, MoreGiven
<1>8. ~HasId(library, <<n>>)
  BY <1>1, NextNumber
<1>9. /\ LibraryOk(lib, t)
      /\ \A id : HasId(lib, id) => HasId(library, id) \/ id = <<n>>
      /\ \A f : HasFile(lib, f) => HasFile(library, f) \/ f = None
  BY <1>2, <1>3, <1>6, <1>7, <1>8, AssetAdded DEF Art!Kind
<1>10. RequestsOk'
  <2>1. RequestsOk /\ requests' = [r \in ArtRequests |-> requests'[r]] /\ None \notin Nat
    BY <1>3, ArtAssumption DEF ArtInv, RequestsOk
  <2>2. ASSUME NEW r \in ArtRequests
        PROVE  /\ Makes(requests[r]) /\ HasId(library', <<requests[r].number>>)
                    => HasId(library, <<requests[r].number>>)
               /\ (Makes(requests[r]) \/ Unlinks(requests[r]))
                     /\ HasFile(library', requests[r].number)
                    => HasFile(library, requests[r].number)
    <3>1. SUFFICES ASSUME Makes(requests[r]) \/ Unlinks(requests[r])
                   PROVE  /\ HasId(library', <<requests[r].number>>)
                               => HasId(library, <<requests[r].number>>)
                          /\ HasFile(library', requests[r].number)
                               => HasFile(library, requests[r].number)
      OBVIOUS
    <3>2. PICK m \in 1..taken.assets : m = requests[r].number
      BY <2>1, <3>1 DEF RequestsOk
    <3>3. m # n /\ m # None
      BY <1>1, <1>5, <2>1
    <3>4. <<m>> # <<n>>
      BY <3>3
    <3> QED
      BY <1>3, <1>9, <3>2, <3>3, <3>4
  <2>3. taken'.assets \in Nat /\ taken.assets <= taken'.assets
    BY <1>4, <1>6
  <2> QED
    BY <1>3, <2>1, <2>2, <2>3, RequestsStay
<1>11. LibraryOk(library, taken)' /\ LibraryOk(saved.library, taken)'
  BY <1>3, <1>4, <1>7, <1>9 DEF LibraryOk, Given
<1>12. \A f : HasFile(library, f)' => f \in disk' \cup lost' \cup {None}
  <2>1. \A f : HasFile(library', f) => f \in disk' \cup lost' \cup {None}
    BY <1>3, <1>9 DEF ArtInv
  <2> QED
    BY <2>1 DEF HasFile
<1> QED
  BY <1>4, <1>5, <1>6, <1>10, <1>11, <1>12 DEF ArtInv

\* A request that has begun.
LEMMA BeginImageKeepsInv ==
  ASSUME ArtInv, NEW r \in ArtRequests, NEW c, NEW kind \in {"upload", "generated"},
         Art!BeginImage(r, c, kind)
  PROVE  ArtInv'
<1>1. PICK n \in Nat : n = taken.assets + 1
  BY NextNumber
<1>2. PICK q : q = [does |-> kind, category |-> c, number |-> n]
  OBVIOUS
<1>3. /\ requests' = [requests EXCEPT ![r] = q] /\ taken' = [taken EXCEPT !.assets = n]
      /\ UNCHANGED <<library, disk, saved, lost>> /\ n <= MaxAssets
  BY <1>1, <1>2 DEF Art!BeginImage
<1>4. q.number = n /\ ~Unlinks(q) /\ q.does \in {"upload", "generated"}
  BY <1>2 DEF Unlinks
<1>5. /\ taken = [profiles |-> taken.profiles, categories |-> taken.categories,
                  assets |-> taken.assets]
      /\ taken.profiles \in Nat /\ taken.categories \in Nat /\ taken.assets \in Nat
      /\ LibraryOk(library, taken) /\ LibraryOk(saved.library, taken)
  BY DEF ArtInv
<1>6. PICK t : t = taken'
  OBVIOUS
<1>7. /\ t = [profiles |-> taken.profiles, categories |-> taken.categories, assets |-> n]
      /\ t.profiles = taken.profiles /\ t.categories = taken.categories /\ t.assets = n
      /\ taken.assets <= n /\ n \in 1..n /\ 1..taken.assets \subseteq 1..n
      /\ n \notin 1..taken.assets
  BY <1>1, <1>3, <1>5, <1>6
<1>8. LibraryOk(library, t) /\ LibraryOk(saved.library, t)
  BY <1>5, <1>7, MoreGiven
<1>9. ~HasId(library, <<n>>) /\ ~HasFile(library, n)
  BY <1>1, NextNumber
<1>10. /\ RequestsOk /\ requests' = [s \in ArtRequests |-> requests'[s]]
       /\ requests'[r] = q /\ \A s \in ArtRequests : s # r => requests'[s] = requests[s]
  BY <1>3 DEF ArtInv, RequestsOk
<1>11. \A s \in ArtRequests :
         /\ Makes(requests[s]) \/ Unlinks(requests[s]) => requests[s].number \in 1..taken.assets
  BY <1>10 DEF RequestsOk
<1>12. ASSUME NEW s \in ArtRequests, Makes(requests'[s])
       PROVE  /\ requests'[s].number \in 1..n /\ requests'[s].number <= MaxAssets
              /\ ~HasId(library, <<requests'[s].number>>) /\ ~HasFile(library, requests'[s].number)
              /\ \A u \in ArtRequests :
                   Makes(requests'[u]) /\ requests'[u].number = requests'[s].number => u = s
  <2>1. CASE s = r
    BY <1>3, <1>4, <1>7, <1>9, <1>10, <1>11, <2>1
  <2>2. CASE s # r
    <3>1. Makes(requests[s]) /\ requests'[s] = requests[s]
      BY <1>10, <1>12, <2>2
    <3>2. /\ requests[s].number \in 1..taken.assets /\ requests[s].number <= MaxAssets
          /\ ~HasId(library, <<requests[s].number>>) /\ ~HasFile(library, requests[s].number)
          /\ \A u \in ArtRequests :
               Makes(requests[u]) /\ requests[u].number = requests[s].number => u = s
      BY <1>10, <3>1 DEF RequestsOk
    <3> QED
      BY <1>4, <1>7, <1>10, <3>1, <3>2
  <2> QED
    BY <2>1, <2>2
<1>13. ASSUME NEW s \in ArtRequests, Unlinks(requests'[s])
       PROVE  /\ requests'[s].number \in 1..n
              /\ ~HasFile(library, requests'[s].number)
              /\ \A u \in ArtRequests :
                   Makes(requests'[u]) => requests'[u].number # requests'[s].number
  <2>1. s # r /\ Unlinks(requests[s]) /\ requests'[s] = requests[s]
    BY <1>4, <1>10, <1>13
  <2>2. /\ requests[s].number \in 1..taken.assets
        /\ ~HasFile(library, requests[s].number)
        /\ \A u \in ArtRequests : Makes(requests[u]) => requests[u].number # requests[s].number
    BY <1>10, <2>1 DEF RequestsOk
  <2> QED
    BY <1>4, <1>7, <1>10, <2>1, <2>2
<1>14. RequestsOk'
  BY <1>3, <1>6, <1>7, <1>10, <1>12, <1>13 DEF RequestsOk, HasId, HasFile
<1>15. LibraryOk(library, taken)' /\ LibraryOk(saved.library, taken)'
  BY <1>3, <1>6, <1>8 DEF LibraryOk, Given
<1>16. \A f : HasFile(library, f)' => f \in disk' \cup lost' \cup {None}
  BY <1>3 DEF ArtInv, HasFile
<1> QED
  BY <1>5, <1>6, <1>7, <1>14, <1>15, <1>16 DEF ArtInv

\* The image is in a category that the library has, or in none.
LEMMA ImageDoneKeepsInv ==
  ASSUME ArtInv, NEW r \in ArtRequests, Art!ImageDone(r)
  PROVE  ArtInv'
<1>1. PICK n, c, kind : /\ n = requests[r].number /\ c = requests[r].category
                        /\ kind = requests[r].does
  OBVIOUS
<1>2. /\ Makes(requests[r]) /\ kind \in Art!Kind
       /\ disk' = disk \cup {n}
       /\ \/ library' = library
          \/ /\ c \in DOMAIN library
             /\ library' = Art!WithAsset(c, [id |-> <<n>>, kind |-> kind, file |-> n])
       /\ requests' = [requests EXCEPT ![r] = None]
       /\ UNCHANGED <<saved, taken, lost>>
  BY <1>1 DEF Art!ImageDone, Art!Kind, Makes
<1>3. RequestsOk /\ LibraryOk(library, taken) /\ taken.assets \in Nat /\ MaxAssets \in Nat
  BY ArtAssumption DEF ArtInv
<1>4. /\ n \in 1..taken.assets /\ n <= MaxAssets
      /\ ~HasId(library, <<n>>) /\ ~HasFile(library, n)
      /\ \A s \in ArtRequests : Makes(requests[s]) /\ requests[s].number = n => s = r
  BY <1>1, <1>2, <1>3 DEF RequestsOk
<1>5. n \in Nat /\ n <= taken.assets /\ n \in Art!File
  BY <1>3, <1>4 DEF Art!File
<1>6. PICK lib : lib = library'
  OBVIOUS
<1>7. /\ LibraryOk(lib, taken)
      /\ \A id : HasId(lib, id) => HasId(library, id) \/ id = <<n>>
      /\ \A f : HasFile(lib, f) => HasFile(library, f) \/ f = n
  <2>1. CASE lib = library
    BY <1>3, <2>1
  <2>2. CASE /\ c \in DOMAIN library
             /\ lib = Art!WithAsset(c, [id |-> <<n>>, kind |-> kind, file |-> n])
    <3>1. n \in {None} \cup 1..taken.assets /\ n \in {None} \cup Art!File
      BY <1>4, <1>5
    <3> QED
      BY <1>2, <1>3, <1>4, <1>5, <2>2, <3>1, AssetAdded
  <2> QED
    BY <1>1, <1>2, <1>6, <2>1, <2>2
<1>8. /\ requests' = [s \in ArtRequests |-> requests'[s]] /\ requests'[r] = None
      /\ \A s \in ArtRequests : s # r => requests'[s] = requests[s]
  BY <1>1, <1>2, <1>3 DEF RequestsOk
<1>9. ASSUME NEW s \in ArtRequests, s # r
      PROVE  /\ Makes(requests[s]) /\ HasId(library', <<requests[s].number>>)
                  => HasId(library, <<requests[s].number>>)
             /\ (Makes(requests[s]) \/ Unlinks(requests[s]))
                   /\ HasFile(library', requests[s].number)
                  => HasFile(library, requests[s].number)
  <2>1. Makes(requests[s]) \/ Unlinks(requests[s]) => requests[s].number # n
    BY <1>1, <1>2, <1>3, <1>4, <1>9 DEF RequestsOk
  <2>2. \A m : <<m>> = <<n>> => m = n
    OBVIOUS
  <2> QED
    BY <1>6, <1>7, <2>1, <2>2
<1>10. RequestsOk'
  BY <1>1, <1>2, <1>3, <1>8, <1>9, RequestsStay
<1>11. \A f : HasFile(library', f) => HasFile(library, f) \/ f \in disk' \cup lost' \cup {None}
  BY <1>1, <1>2, <1>6, <1>7
<1> QED
  BY <1>1, <1>2, <1>6, <1>7, <1>10, <1>11, RequestsEnd

\* A request ends, and the library stays.
LEMMA RequestEnds ==
  ASSUME ArtInv, NEW r \in ArtRequests, requests' = [requests EXCEPT ![r] = None],
         UNCHANGED <<library, saved, taken>>, disk \cup lost \subseteq disk' \cup lost'
  PROVE  ArtInv'
<1>1. RequestsOk /\ LibraryOk(library, taken) /\ taken.assets \in Nat
  BY DEF ArtInv
<1>2. /\ requests' = [s \in ArtRequests |-> requests'[s]]
      /\ \A s \in ArtRequests : requests'[s] = None \/ requests'[s] = requests[s]
  BY <1>1 DEF RequestsOk
<1>3. RequestsOk'
  BY <1>1, <1>2, RequestsStay
<1> QED
  BY <1>1, <1>3, RequestsEnd

LEMMA ImageFailsKeepsInv ==
  ASSUME ArtInv, NEW r \in ArtRequests, Art!ImageFails(r)
  PROVE  ArtInv'
BY RequestEnds DEF Art!ImageFails

\* No asset has the file that is unlinked.
LEMMA UnlinkedKeepsInv ==
  ASSUME ArtInv, NEW r \in ArtRequests, Art!Unlinked(r)
  PROVE  ArtInv'
<1>1. PICK n :
        /\ n = requests[r].number /\ Unlinks(requests[r])
        /\ disk \ {n} \subseteq disk'
        /\ requests' = [requests EXCEPT ![r] = None]
        /\ UNCHANGED <<library, saved, taken, lost>>
  BY DEF Art!Unlinked, Unlinks
<1>2. RequestsOk /\ LibraryOk(library, taken) /\ taken.assets \in Nat
  BY DEF ArtInv
<1>3. ~HasFile(library, n)
  BY <1>1, <1>2 DEF RequestsOk
<1>4. /\ requests' = [s \in ArtRequests |-> requests'[s]]
      /\ \A s \in ArtRequests : requests'[s] = None \/ requests'[s] = requests[s]
  BY <1>1, <1>2 DEF RequestsOk
<1>5. RequestsOk'
  BY <1>1, <1>2, <1>4, RequestsStay
<1>6. \A f : HasFile(library', f) => f \in disk' \cup lost' \cup {None}
  BY <1>1, <1>3 DEF ArtInv
<1>7. LibraryOk(library, taken)' /\ LibraryOk(saved.library, taken)'
  BY <1>1 DEF ArtInv, LibraryOk, Given
<1>8. \A f : HasFile(library, f)' => f \in disk' \cup lost' \cup {None}
  BY <1>6 DEF HasFile
<1> QED
  BY <1>1, <1>5, <1>7, <1>8 DEF ArtInv

\* An asset is taken out; a file that no other has is about to be unlinked.
LEMMA DeleteAssetKeepsInv ==
  ASSUME ArtInv, NEW r \in ArtRequests, NEW c \in DOMAIN library,
         NEW i \in DOMAIN library[c].assets, Art!DeleteAsset(r, c, i)
  PROVE  ArtInv'
<1>1. PICK k : k = library[c] /\ IsCategory(k)
  BY DEF ArtInv, LibraryOk
<1>2. PICK assets \in Seq(Art!Asset) : assets = k.assets
  BY <1>1 DEF IsCategory
<1>3. PICK len \in Nat : len = Len(assets) /\ DOMAIN assets = 1..len
  BY LenProperties
<1>4. PICK asset : asset = assets[i]
  OBVIOUS
<1>5. PICK less \in Seq(Art!Asset) :
        /\ less = Art!RemoveAt(assets, i) /\ Len(less) = len - 1
        /\ \A j \in 1..(len - 1) : less[j] = assets[IF j < i THEN j ELSE j + 1]
  <2>1. i \in 1..Len(assets)
    BY <1>1, <1>2, <1>3
  <2>2. PICK less \in Seq(Art!Asset) :
          /\ less = SubSeq(assets, 1, i - 1) \o SubSeq(assets, i + 1, Len(assets))
          /\ Len(less) = Len(assets) - 1
          /\ \A j \in 1..(Len(assets) - 1) : less[j] = assets[IF j < i THEN j ELSE j + 1]
    BY <2>1, Removed
  <2>3. less = Art!RemoveAt(assets, i)
    BY <2>2 DEF Art!RemoveAt
  <2> QED
    BY <1>3, <2>2, <2>3
<1>6. PICK x : x = IF k.selected = asset.id THEN Art!FirstId(less) ELSE k.selected
  OBVIOUS
<1>7. PICK l : l = [profile |-> k.profile, assets |-> less, selected |-> x]
  OBVIOUS
<1>8. PICK lib : lib = [library EXCEPT ![c] = l]
  OBVIOUS
<1>9. /\ library' = lib /\ requests[r] = None
      /\ IF asset.file = None \/ Art!StillUsed(asset, lib)
         THEN UNCHANGED requests
         ELSE requests' = [requests EXCEPT ![r] =
                [does |-> "unlink", category |-> c, number |-> asset.file]]
      /\ UNCHANGED <<disk, saved, taken, lost>>
  BY <1>1, <1>2, <1>4, <1>5, <1>6, <1>7, <1>8 DEF Art!DeleteAsset
<1>10. /\ less \in Seq(Art!Asset) /\ Len(less) = len - 1
       /\ \A j \in 1..(len - 1) : less[j] = assets[IF j < i THEN j ELSE j + 1]
  BY <1>5
<1>11. DOMAIN less = 1..(len - 1)
  BY <1>10, LenProperties
<1>12. IsCategory(l) /\ l.assets = less
  BY <1>7, <1>10, Categories
<1>13. /\ DOMAIN lib = DOMAIN library /\ lib[c] = l
       /\ \A d \in DOMAIN library : d # c => lib[d] = library[d]
  BY <1>8
<1>14. LibraryOk(library, taken)
  BY DEF ArtInv
<1>15. ASSUME NEW d \in DOMAIN lib
       PROVE  /\ IsCategory(lib[d])
              /\ \E m \in [DOMAIN lib[d].assets -> DOMAIN library[d].assets] :
                   /\ \A y, z \in DOMAIN lib[d].assets : m[y] = m[z] => y = z
                   /\ \A y \in DOMAIN lib[d].assets : lib[d].assets[y] = library[d].assets[m[y]]
                   /\ d = c => \A y \in DOMAIN lib[d].assets : m[y] # i
  <2>1. CASE d # c
    <3> DEFINE m == [y \in DOMAIN library[d].assets |-> y]
    <3>1. /\ m \in [DOMAIN library[d].assets -> DOMAIN library[d].assets]
          /\ \A y, z \in DOMAIN library[d].assets : m[y] = m[z] => y = z
          /\ \A y \in DOMAIN library[d].assets : library[d].assets[y] = library[d].assets[m[y]]
      OBVIOUS
    <3>2. lib[d] = library[d] /\ IsCategory(library[d])
      BY <1>13, <1>14, <2>1 DEF LibraryOk
    <3> HIDE DEF m
    <3> QED
      BY <2>1, <3>1, <3>2
  <2>2. CASE d = c
    <3> DEFINE m == [y \in 1..(len - 1) |-> IF y < i THEN y ELSE y + 1]
    <3>1. /\ m \in [1..(len - 1) -> 1..len]
          /\ \A y, z \in 1..(len - 1) : m[y] = m[z] => y = z
          /\ \A y \in 1..(len - 1) : m[y] # i
      BY <1>1, <1>2, <1>3
    <3>2. \A y \in 1..(len - 1) : less[y] = assets[m[y]]
      BY <1>10
    <3>3. /\ lib[d].assets = less /\ library[d].assets = assets /\ IsCategory(lib[d])
      BY <1>1, <1>2, <1>12, <1>13, <2>2
    <3> HIDE DEF m
    <3>4. /\ m \in [DOMAIN lib[d].assets -> DOMAIN library[d].assets]
          /\ \A y, z \in DOMAIN lib[d].assets : m[y] = m[z] => y = z
          /\ \A y \in DOMAIN lib[d].assets : m[y] # i
      BY <1>3, <1>11, <3>1, <3>3
    <3>5. \A y \in DOMAIN lib[d].assets : lib[d].assets[y] = library[d].assets[m[y]]
      BY <1>11, <3>2, <3>3
    <3> QED
      BY <3>3, <3>4, <3>5
  <2> QED
    BY <2>1, <2>2
<1>16. /\ LibraryOk(lib, taken)
       /\ \A id : HasId(lib, id) => HasId(library, id)
       /\ \A f : HasFile(lib, f) => HasFile(library, f)
  <2>1. \A d \in DOMAIN lib :
          /\ IsCategory(lib[d])
          /\ \E m \in [DOMAIN lib[d].assets -> DOMAIN library[d].assets] :
               /\ \A y, z \in DOMAIN lib[d].assets : m[y] = m[z] => y = z
               /\ \A y \in DOMAIN lib[d].assets : lib[d].assets[y] = library[d].assets[m[y]]
    BY <1>15
  <2> QED
    BY <1>13, <1>14, <2>1, FewerAssets
<1>17. ~HasId(lib, asset.id)
  <2> SUFFICES ASSUME NEW d \in DOMAIN lib, NEW y \in DOMAIN lib[d].assets,
                      lib[d].assets[y].id = asset.id
               PROVE  FALSE
    BY DEF HasId
  <2>1. PICK z \in DOMAIN library[d].assets :
          lib[d].assets[y] = library[d].assets[z] /\ (d = c => z # i)
    BY <1>15
  <2>2. library[d].assets[z].id = library[c].assets[i].id
    BY <1>1, <1>2, <1>4, <2>1
  <2> QED
    BY <1>13, <1>14, <2>1, <2>2 DEF LibraryOk
<1>18. CASE UNCHANGED requests
  <2>1. RequestsOk /\ taken.assets \in Nat
    BY DEF ArtInv
  <2>2. requests' = [s \in ArtRequests |-> requests'[s]]
    BY <1>18, <2>1 DEF RequestsOk
  <2>3. RequestsOk'
    BY <1>9, <1>16, <1>18, <2>1, <2>2, RequestsStay
  <2> QED
    BY <1>9, <1>16, <2>3, RequestsEnd
<1>19. CASE /\ asset.file # None /\ ~Art!StillUsed(asset, lib)
            /\ requests' = [requests EXCEPT ![r] =
                 [does |-> "unlink", category |-> c, number |-> asset.file]]
  <2>1. ~HasFile(lib, asset.file) /\ HasFile(library, asset.file)
    <3>1. HasFile(library, asset.file)
      BY <1>1, <1>2, <1>4 DEF HasFile
    <3>2. ~HasFile(lib, asset.file)
      BY <1>17, <1>19 DEF HasFile, HasId, Art!StillUsed
    <3> QED
      BY <3>1, <3>2
  <2>2. asset.file \in 1..taken.assets
    BY <1>1, <1>2, <1>4, <1>14, <1>19 DEF LibraryOk
  <2>3. PICK q : /\ q = [does |-> "unlink", category |-> c, number |-> asset.file]
                 /\ q.does = "unlink" /\ q.number = asset.file
    <3> DEFINE q == [does |-> "unlink", category |-> c, number |-> asset.file]
    <3>1. q.does = "unlink" /\ q.number = asset.file
      OBVIOUS
    <3> QED
      BY <3>1
  <2>4. /\ RequestsOk /\ requests' = [s \in ArtRequests |-> requests'[s]]
        /\ requests'[r] = q /\ \A s \in ArtRequests : s # r => requests'[s] = requests[s]
    BY <1>19, <2>3 DEF ArtInv, RequestsOk
  <2>5. ~Makes(q)
    BY <2>3 DEF Makes
  <2>6. ASSUME NEW s \in ArtRequests, Makes(requests'[s])
        PROVE  /\ Makes(requests[s]) /\ requests'[s] = requests[s] /\ s # r
               /\ requests[s].number \in 1..taken.assets /\ requests[s].number <= MaxAssets
               /\ ~HasId(library, <<requests[s].number>>) /\ ~HasFile(library, requests[s].number)
               /\ \A u \in ArtRequests :
                    Makes(requests[u]) /\ requests[u].number = requests[s].number => u = s
    <3>1. s # r
      BY <2>4, <2>5, <2>6
    <3>2. Makes(requests[s]) /\ requests'[s] = requests[s]
      BY <2>4, <2>6, <3>1
    <3> QED
      BY <2>4, <3>1, <3>2 DEF RequestsOk
  <2>7. ASSUME NEW s \in ArtRequests, Makes(requests'[s])
        PROVE  /\ requests'[s].number \in 1..taken.assets /\ requests'[s].number <= MaxAssets
               /\ ~HasId(lib, <<requests'[s].number>>) /\ ~HasFile(lib, requests'[s].number)
               /\ \A u \in ArtRequests :
                    Makes(requests'[u]) /\ requests'[u].number = requests'[s].number => u = s
    BY <1>16, <2>6, <2>7
  <2>8. ASSUME NEW s \in ArtRequests, Unlinks(requests'[s])
        PROVE  /\ requests'[s].number \in 1..taken.assets
               /\ ~HasFile(lib, requests'[s].number)
               /\ \A u \in ArtRequests :
                    Makes(requests'[u]) => requests'[u].number # requests'[s].number
    <3>1. CASE s = r
      BY <2>1, <2>2, <2>3, <2>4, <2>6, <3>1
    <3>2. CASE s # r
      <4>1. Unlinks(requests[s]) /\ requests'[s] = requests[s]
        BY <2>4, <2>8, <3>2
      <4>2. /\ requests[s].number \in 1..taken.assets
            /\ ~HasFile(library, requests[s].number)
            /\ \A u \in ArtRequests : Makes(requests[u]) => requests[u].number # requests[s].number
        BY <2>4, <4>1 DEF RequestsOk
      <4> QED
        BY <1>16, <2>6, <4>1, <4>2
    <3> QED
      BY <3>1, <3>2
  <2>9. RequestsOk'
    BY <1>9, <2>4, <2>7, <2>8 DEF RequestsOk, HasId, HasFile
  <2> QED
    BY <1>9, <1>16, <2>9, RequestsEnd
<1> QED
  BY <1>9, <1>18, <1>19

LEMMA SavesKeepInv ==
  ASSUME ArtInv, Art!Save \/ Art!SaveFails
  PROVE  ArtInv'
<1>1. /\ UNCHANGED <<library, requests, disk, taken, lost>>
      /\ saved' = saved \/ saved' = [profiles |-> profiles, library |-> library]
  BY DEF Art!Save, Art!SaveFails
<1>2. saved'.library = library \/ saved'.library = saved.library
  BY <1>1
<1>3. LibraryOk(library, taken)' /\ LibraryOk(saved.library, taken)'
  <2>1. LibraryOk(library, taken) /\ LibraryOk(saved'.library, taken)
    BY <1>2 DEF ArtInv
  <2>2. LibraryOk(library, taken)'
    BY <1>1, <2>1 DEF LibraryOk, Given
  <2>3. LibraryOk(saved.library, taken)'
    BY <1>1, <2>1 DEF LibraryOk, Given
  <2> QED
    BY <2>2, <2>3
<1>4. RequestsOk' /\ \A f : HasFile(library, f)' => f \in disk' \cup lost' \cup {None}
  BY <1>1 DEF ArtInv, RequestsOk, HasId, HasFile
<1> QED
  BY <1>1, <1>3, <1>4 DEF ArtInv

\* The library is that of the last save.
LEMMA CrashKeepsInv ==
  ASSUME ArtInv, Art!Crash
  PROVE  ArtInv'
<1>1. PICK old : old = saved.library
  OBVIOUS
<1>2. PICK lib : lib = [c \in DOMAIN old |-> Art!Normalized(old[c])]
  OBVIOUS
<1>3. /\ library' = lib
      /\ lost' = lost \cup ((Art!FilesOf(old) \ Art!FilesOf(library)) \ disk)
      /\ requests' = [r \in ArtRequests |-> None]
      /\ UNCHANGED <<disk, saved, taken>>
  BY <1>1, <1>2 DEF Art!Crash
<1>4. LibraryOk(old, taken)
  BY <1>1 DEF ArtInv
<1>5. ASSUME NEW c \in DOMAIN old
      PROVE  IsCategory(lib[c]) /\ lib[c].assets = old[c].assets
  <2>1. PICK k : k = old[c] /\ IsCategory(k)
    BY <1>4 DEF LibraryOk
  <2>2. PICK x : Art!Normalized(k) = k \/ Art!Normalized(k) = [k EXCEPT !.selected = x]
    BY DEF Art!Normalized
  <2>3. [k EXCEPT !.selected = x] = [profile |-> k.profile, assets |-> k.assets, selected |-> x]
    BY <2>1 DEF IsCategory
  <2>4. IsCategory(Art!Normalized(k)) /\ Art!Normalized(k).assets = k.assets
    BY <2>1, <2>2, <2>3 DEF IsCategory
  <2> QED
    BY <1>2, <2>1, <2>4
<1>6. /\ LibraryOk(lib, taken)
      /\ \A f : HasFile(lib, f) => HasFile(old, f)
  BY <1>2, <1>4, <1>5, FewerCategories
<1>7. \A f : HasFile(lib, f) => HasFile(library, f) \/ f \in disk' \cup lost' \cup {None}
  BY <1>3, <1>6, FilesOfLibrary
<1>8. RequestsOk'
  BY <1>3 DEF RequestsOk, Makes, Unlinks
<1> QED
  BY <1>3, <1>6, <1>7, <1>8, RequestsEnd

LEMMA ArtBegins ==
  ASSUME Art!Init
  PROVE  ArtInv
<1> DEFINE assets == Art!Seeds(<<>>)
<1>1. <<>> \o <<0>> = <<0>>
  BY ConcatEmptySeq
<1>2. PICK a \in Art!Asset : /\ a = [id |-> <<0>>, kind |-> "seed", file |-> None]
                             /\ a.id = <<0>> /\ a.file = None
  <2> DEFINE b == [id |-> <<0>>, kind |-> "seed", file |-> None]
  <2>1. b \in Art!Asset
    BY DEF Art!Asset, Art!Id, Art!Kind
  <2>2. b.id = <<0>> /\ b.file = None
    OBVIOUS
  <2> QED
    BY <2>1, <2>2
<1>3. assets = <<a>>
  BY <1>1, <1>2 DEF Art!Seeds
<1>4. assets \in Seq(Art!Asset) /\ DOMAIN assets = {1} /\ assets[1] = a
  <2>1. <<a>> \in Seq(Art!Asset) /\ DOMAIN <<a>> = {1} /\ <<a>>[1] = a
    OBVIOUS
  <2> QED
    BY <1>3, <2>1
<1> HIDE DEF assets
<1>5. PICK k : k = Art!NewCategory(Art!Default, assets)
  OBVIOUS
<1>6. IsCategory(k) /\ k.assets = assets
  BY <1>4, <1>5, Categories DEF Art!NewCategory
<1>7. PICK lib : lib = [c \in {<<0>>} |-> k]
  OBVIOUS
<1>8. DOMAIN lib = {<<0>>} /\ lib[<<0>>] = k
  BY <1>7
<1>9. /\ library = lib /\ saved = [profiles |-> profiles, library |-> library]
      /\ requests = [r \in ArtRequests |-> None]
      /\ taken = [profiles |-> 1, categories |-> 0, assets |-> 0]
  BY <1>5, <1>7 DEF Art!Init, assets
<1>10. Given(<<0>>, taken) /\ <<0>> \in Seq(Nat)
  <2>1. <<0>> \in Seq(Nat) /\ Len(<<0>>) = 1 /\ <<0>>[1] = 0 /\ taken.assets = 0
    BY <1>9
  <2> QED
    BY <2>1 DEF Given
<1>11. LibraryOk(lib, taken)
  BY <1>2, <1>4, <1>6, <1>8, <1>10 DEF LibraryOk
<1>12. \A f : HasFile(lib, f) => f = None
  BY <1>2, <1>4, <1>6, <1>8 DEF HasFile
<1>13. RequestsOk
  BY <1>9 DEF RequestsOk, Makes, Unlinks
<1>14. saved.library = lib
  BY <1>9
<1> QED
  BY <1>9, <1>11, <1>12, <1>13, <1>14 DEF ArtInv

LEMMA ArtSteps ==
  ASSUME ArtInv, Art!Next
  PROVE  ArtInv'
<1>1. CASE Art!CreateProfile
  BY <1>1, CreateProfileKeepsInv
<1>2. CASE Art!Save \/ Art!SaveFails
  BY <1>2, SavesKeepInv
<1>3. CASE Art!Crash
  BY <1>3, CrashKeepsInv
<1>4. CASE \E p \in profiles :
             Art!DuplicateProfile(p) \/ Art!DeleteProfile(p) \/ Art!AddCategory(p)
  BY <1>4, DuplicateProfileKeepsInv, DeleteProfileKeepsInv, AddCategoryKeepsInv
<1>5. CASE \E c \in DOMAIN library : Art!DeleteCategory(c) \/ Art!LinkAsset(c)
  BY <1>5, DeleteCategoryKeepsInv, LinkAssetKeepsInv
<1>6. CASE \E c \in DOMAIN library : \E id \in Art!SomeId : Art!UpdateCategory(c, id)
  BY <1>6, UpdateCategoryKeepsInv
<1>7. CASE \E c \in DOMAIN library : \E r \in ArtRequests :
             \E kind \in {"upload", "generated"} : Art!BeginImage(r, c, kind)
  BY <1>7, BeginImageKeepsInv
<1>8. CASE \E c \in DOMAIN library : \E r \in ArtRequests :
             \E i \in DOMAIN library[c].assets : Art!DeleteAsset(r, c, i)
  BY <1>8, DeleteAssetKeepsInv
<1>9. CASE \E r \in ArtRequests : Art!ImageDone(r) \/ Art!ImageFails(r) \/ Art!Unlinked(r)
  BY <1>9, ImageDoneKeepsInv, ImageFailsKeepsInv, UnlinkedKeepsInv
<1> QED
  BY <1>1, <1>2, <1>3, <1>4, <1>5, <1>6, <1>7, <1>8, <1>9 DEF Art!Next

LEMMA ArtInvariance == NodeSpec => []ArtInv
<1>1. NodeInit => ArtInv
  BY ArtBegins DEF NodeInit
<1>2. ArtInv /\ [NodeNext]_nodeVars => ArtInv'
  <2>1. [NodeNext]_nodeVars => Art!Next \/ UNCHANGED artVars
    BY DEF NodeNext, nodeVars, artVars
  <2> QED
    BY <2>1, ArtSteps, ArtStutters
<1> QED
  BY <1>1, <1>2, PTL DEF NodeSpec

\* An asset that has a file finds it.
LEMMA ArtFindsFiles == ArtInv => Art!AssetsHaveFiles
BY FilesOfLibrary DEF ArtInv, Art!AssetsHaveFiles

----------------------------------------------------------------------------
(* The key of the image service, and its images (ImageGeneration) *)

\* A file that has a name is of a change that began.  As long as no two changes are
\* made at the same time, the one under way has the temporary file for itself.
KeyInv ==
  /\ inodes = [c \in KeyChanges |-> inodes[c]]
  /\ keyChanges = [c \in KeyChanges |-> keyChanges[c]]
  /\ \A c \in KeyChanges :
       keyChanges[c] = [does |-> keyChanges[c].does, at |-> keyChanges[c].at,
                        file |-> keyChanges[c].file]
  /\ path # None => path \in KeyChanges /\ keyChanges[path].at # "new"
  /\ tmp # None => tmp \in KeyChanges /\ keyChanges[tmp].at # "new" /\ path # tmp
  /\ ~crossedChanges =>
       /\ ~notCleared => Imaging!StoredKey = key
       /\ \A c \in Imaging!UnderWay :
            /\ tmp # None /\ keyChanges[c].file = tmp
            /\ inodes[tmp] = IF keyChanges[c].at = "open" THEN "empty" ELSE c
            /\ \A d \in Imaging!UnderWay : d = c

\* A change got on to a step, and may have a file.
LEMMA ChangeGetsOn ==
  ASSUME KeyInv, NEW c \in KeyChanges, NEW at, NEW f,
         \/ keyChanges' = [keyChanges EXCEPT ![c].at = at] /\ f = keyChanges[c].file
         \/ keyChanges' = [keyChanges EXCEPT ![c].at = at, ![c].file = f]
  PROVE  /\ keyChanges' = [d \in KeyChanges |-> keyChanges'[d]]
         /\ keyChanges'[c].at = at /\ keyChanges'[c].file = f
         /\ \A d \in KeyChanges : d # c => keyChanges'[d] = keyChanges[d]
         /\ \A d \in KeyChanges :
              keyChanges'[d] = [does |-> keyChanges'[d].does, at |-> keyChanges'[d].at,
                                file |-> keyChanges'[d].file]
<1>1. PICK old, x, y, z : /\ old = keyChanges[c] /\ old = [does |-> x, at |-> y, file |-> z]
                          /\ old.file = z
  <2>1. PICK old : old = keyChanges[c]
    OBVIOUS
  <2>2. old = [does |-> old.does, at |-> old.at, file |-> old.file]
    BY <2>1 DEF KeyInv
  <2> QED
    BY <2>1, <2>2
<1>2. PICK k : k = [does |-> x, at |-> at, file |-> f]
  OBVIOUS
<1>3. /\ k.does = x /\ k.at = at /\ k.file = f
      /\ k = [does |-> k.does, at |-> k.at, file |-> k.file]
  BY <1>2
<1>4. /\ [old EXCEPT !.at = at] = [does |-> x, at |-> at, file |-> z]
      /\ [[old EXCEPT !.at = at] EXCEPT !.file = f] = [does |-> x, at |-> at, file |-> f]
  <2>1. PICK mid : mid = [does |-> x, at |-> at, file |-> z]
    OBVIOUS
  <2>2. [old EXCEPT !.at = at] = mid
    BY <1>1, <2>1
  <2>3. [mid EXCEPT !.file = f] = [does |-> x, at |-> at, file |-> f]
    BY <2>1
  <2> QED
    BY <2>1, <2>2, <2>3
<1>5. keyChanges' = [keyChanges EXCEPT ![c] = k]
  <2>1. DOMAIN keyChanges = KeyChanges /\ keyChanges = [d \in KeyChanges |-> keyChanges[d]]
    BY DEF KeyInv
  <2>2. CASE keyChanges' = [keyChanges EXCEPT ![c].at = at] /\ f = keyChanges[c].file
    BY <1>1, <1>2, <1>4, <2>1, <2>2
  <2>3. CASE keyChanges' = [keyChanges EXCEPT ![c].at = at, ![c].file = f]
    <3>1. keyChanges'[c] = k
      BY <1>1, <1>2, <1>4, <2>1, <2>3
    <3>2. \A d \in KeyChanges : d # c => keyChanges'[d] = keyChanges[d]
      BY <2>1, <2>3
    <3>3. keyChanges' = [d \in KeyChanges |-> keyChanges'[d]]
      BY <2>1, <2>3
    <3> QED
      BY <2>1, <3>1, <3>2, <3>3
  <2> QED
    BY <2>2, <2>3
<1> QED
  BY <1>3, <1>5 DEF KeyInv

LEMMA OpenTmpKeepsInv ==
  ASSUME KeyInv, NEW c \in KeyChanges, Imaging!OpenTmp(c)
  PROVE  KeyInv'
<1>1. PICK f : f = IF tmp = None THEN c ELSE tmp
  OBVIOUS
<1>2. /\ keyChanges[c].at = "new" /\ tmp' = f
      /\ inodes' = [inodes EXCEPT ![f] = "empty"]
      /\ keyChanges' = [keyChanges EXCEPT ![c].at = "open", ![c].file = f]
      /\ crossedChanges' = (crossedChanges \/ Imaging!UnderWay # {})
      /\ UNCHANGED <<path, key, notCleared>>
  BY <1>1 DEF Imaging!OpenTmp
<1>3. /\ f \in KeyChanges /\ f # None /\ path # f
      /\ f # c => keyChanges[f].at # "new"
  BY <1>1, <1>2, ImagingAssumption DEF KeyInv
<1>4. /\ keyChanges' = [d \in KeyChanges |-> keyChanges'[d]]
      /\ keyChanges'[c].at = "open" /\ keyChanges'[c].file = f
      /\ \A d \in KeyChanges : d # c => keyChanges'[d] = keyChanges[d]
      /\ \A d \in KeyChanges :
           keyChanges'[d] = [does |-> keyChanges'[d].does, at |-> keyChanges'[d].at,
                             file |-> keyChanges'[d].file]
  BY <1>2, ChangeGetsOn
<1>5. /\ inodes' = [d \in KeyChanges |-> inodes'[d]] /\ inodes'[f] = "empty"
      /\ \A d \in KeyChanges : d # f => inodes'[d] = inodes[d]
  BY <1>2, <1>3 DEF KeyInv
<1>6. /\ path' # None => path' \in KeyChanges /\ keyChanges'[path'].at # "new"
      /\ tmp' \in KeyChanges /\ keyChanges'[tmp'].at # "new" /\ path' # tmp'
  BY <1>2, <1>3, <1>4 DEF KeyInv
<1>7. ASSUME ~crossedChanges'
      PROVE  /\ ~notCleared' => Imaging!StoredKey' = key'
             /\ \A d \in Imaging!UnderWay' : d = c
  <2>1. ~crossedChanges /\ Imaging!UnderWay = {}
    BY <1>2, <1>7
  <2>2. ~notCleared => Imaging!StoredKey = key
    BY <2>1 DEF KeyInv
  <2>3. path # None => inodes'[path] = inodes[path]
    BY <1>3, <1>5 DEF KeyInv
  <2>4. ~notCleared' => Imaging!StoredKey' = key'
    BY <1>2, <2>2, <2>3 DEF Imaging!StoredKey
  <2>5. \A d \in Imaging!UnderWay' : d = c
    BY <1>4, <2>1 DEF Imaging!UnderWay
  <2> QED
    BY <2>4, <2>5
<1>8. ASSUME ~crossedChanges', NEW d \in Imaging!UnderWay'
      PROVE  /\ tmp' # None /\ keyChanges'[d].file = tmp'
             /\ inodes'[tmp'] = IF keyChanges'[d].at = "open" THEN "empty" ELSE d
             /\ \A e \in Imaging!UnderWay' : e = d
  <2>1. d = c
    BY <1>7, <1>8
  <2> QED
    BY <1>2, <1>3, <1>4, <1>5, <1>7, <1>8, <2>1
<1> QED
  BY <1>4, <1>5, <1>6, <1>7, <1>8 DEF KeyInv

\* A change gets on, and the files have the names they had.
LEMMA WriteTmpKeepsInv ==
  ASSUME KeyInv, NEW c \in KeyChanges, Imaging!WriteTmp(c)
  PROVE  KeyInv'
<1>1. PICK f : f = keyChanges[c].file
  OBVIOUS
<1>2. PICK text :
        /\ keyChanges[c].at = "open"
        /\ inodes[f] = "empty" => text = c
        /\ inodes' = [inodes EXCEPT ![f] = text]
        /\ keyChanges' = [keyChanges EXCEPT ![c].at = "written"]
        /\ UNCHANGED <<path, tmp, key, notCleared, crossedChanges>>
  BY <1>1 DEF Imaging!WriteTmp
<1>3. /\ keyChanges' = [d \in KeyChanges |-> keyChanges'[d]]
      /\ keyChanges'[c].at = "written" /\ keyChanges'[c].file = f
      /\ \A d \in KeyChanges : d # c => keyChanges'[d] = keyChanges[d]
      /\ \A d \in KeyChanges :
           keyChanges'[d] = [does |-> keyChanges'[d].does, at |-> keyChanges'[d].at,
                             file |-> keyChanges'[d].file]
  <2>1. keyChanges'[c].file = keyChanges[c].file
    BY <1>2, ChangeGetsOn
  <2> QED
    BY <1>1, <1>2, <2>1, ChangeGetsOn
<1>4. /\ inodes' = [d \in KeyChanges |-> inodes'[d]]
      /\ f \in KeyChanges => inodes'[f] = text
      /\ \A d \in KeyChanges : d # f => inodes'[d] = inodes[d]
  BY <1>2 DEF KeyInv
<1>5. /\ path' # None => path' \in KeyChanges /\ keyChanges'[path'].at # "new"
      /\ tmp' # None => tmp' \in KeyChanges /\ keyChanges'[tmp'].at # "new" /\ path' # tmp'
  BY <1>2, <1>3 DEF KeyInv
<1>6. ASSUME ~crossedChanges'
      PROVE  /\ ~notCleared' => Imaging!StoredKey' = key'
             /\ tmp # None /\ keyChanges'[c].file = tmp /\ inodes'[tmp] = c
             /\ \A d \in Imaging!UnderWay' : d = c
  <2>1. ~crossedChanges /\ c \in Imaging!UnderWay
    BY <1>2, <1>6 DEF Imaging!UnderWay
  <2>2. /\ ~notCleared => Imaging!StoredKey = key
        /\ f = tmp /\ tmp # None /\ inodes[tmp] = "empty"
        /\ \A d \in Imaging!UnderWay : d = c
    BY <1>1, <1>2, <2>1 DEF KeyInv
  <2>3. text = c /\ f \in KeyChanges /\ path # f
    BY <1>2, <2>2 DEF KeyInv
  <2>4. path # None => inodes'[path] = inodes[path]
    BY <1>4, <2>3 DEF KeyInv
  <2>5. ~notCleared' => Imaging!StoredKey' = key'
    BY <1>2, <2>2, <2>4 DEF Imaging!StoredKey
  <2>6. \A d \in Imaging!UnderWay' : d = c
    BY <1>3, <2>2 DEF Imaging!UnderWay
  <2> QED
    BY <1>3, <1>4, <2>2, <2>3, <2>5, <2>6
<1>7. ASSUME ~crossedChanges', NEW d \in Imaging!UnderWay'
      PROVE  /\ tmp' # None /\ keyChanges'[d].file = tmp'
             /\ inodes'[tmp'] = IF keyChanges'[d].at = "open" THEN "empty" ELSE d
             /\ \A e \in Imaging!UnderWay' : e = d
  <2>1. d = c
    BY <1>6, <1>7
  <2> QED
    BY <1>2, <1>3, <1>6, <1>7, <2>1
<1> QED
  BY <1>3, <1>4, <1>5, <1>6, <1>7 DEF KeyInv

LEMMA RenameTmpKeepsInv ==
  ASSUME KeyInv, NEW c \in KeyChanges, Imaging!RenameTmp(c)
  PROVE  KeyInv'
<1>1. PICK at :
        /\ keyChanges[c].at = "written" /\ at \in {"done", "failed"}
        /\ keyChanges' = [keyChanges EXCEPT ![c].at = at]
        /\ \/ tmp = None /\ UNCHANGED <<path, tmp, key, notCleared>>
           \/ tmp # None /\ path' = tmp /\ tmp' = None /\ key' = c
        /\ UNCHANGED <<inodes, crossedChanges>>
  BY DEF Imaging!RenameTmp
<1>2. /\ keyChanges' = [d \in KeyChanges |-> keyChanges'[d]] /\ keyChanges'[c].at = at
      /\ \A d \in KeyChanges : d # c => keyChanges'[d] = keyChanges[d]
      /\ \A d \in KeyChanges :
           keyChanges'[d] = [does |-> keyChanges'[d].does, at |-> keyChanges'[d].at,
                             file |-> keyChanges'[d].file]
  BY <1>1, ChangeGetsOn
<1>3. inodes' = [d \in KeyChanges |-> inodes'[d]]
  BY <1>1 DEF KeyInv
<1>4. /\ path' # None => path' \in KeyChanges /\ keyChanges'[path'].at # "new"
      /\ tmp' # None => tmp' \in KeyChanges /\ keyChanges'[tmp'].at # "new" /\ path' # tmp'
  BY <1>1, <1>2 DEF KeyInv
<1>5. ASSUME ~crossedChanges'
      PROVE  Imaging!StoredKey' = key' /\ Imaging!UnderWay' = {}
  <2>1. ~crossedChanges /\ c \in Imaging!UnderWay
    BY <1>1, <1>5 DEF Imaging!UnderWay
  <2>2. /\ tmp # None /\ inodes[tmp] = c
        /\ \A d \in Imaging!UnderWay : d = c
    BY <1>1, <2>1 DEF KeyInv
  <2>3. path' # None /\ inodes'[path'] = c /\ key' = c
    BY <1>1, <2>2
  <2>4. Imaging!StoredKey' = key'
    BY <2>3 DEF Imaging!StoredKey
  <2>5. Imaging!UnderWay' = {}
    BY <1>1, <1>2, <2>2 DEF Imaging!UnderWay
  <2> QED
    BY <2>4, <2>5
<1> QED
  BY <1>2, <1>3, <1>4, <1>5 DEF KeyInv

LEMMA ClearKeepsInv ==
  ASSUME KeyInv, NEW c \in KeyChanges, Imaging!ClearStoredImageApiKey(c)
  PROVE  KeyInv'
<1>1. /\ key' = None /\ (path' = None \/ (path' = path /\ notCleared'))
      /\ keyChanges' = [keyChanges EXCEPT ![c].at = "done"]
      /\ crossedChanges' = (crossedChanges \/ Imaging!UnderWay # {})
      /\ UNCHANGED <<inodes, tmp>>
  BY DEF Imaging!ClearStoredImageApiKey
<1>2. /\ keyChanges' = [d \in KeyChanges |-> keyChanges'[d]] /\ keyChanges'[c].at = "done"
      /\ \A d \in KeyChanges : d # c => keyChanges'[d] = keyChanges[d]
      /\ \A d \in KeyChanges :
           keyChanges'[d] = [does |-> keyChanges'[d].does, at |-> keyChanges'[d].at,
                             file |-> keyChanges'[d].file]
  BY <1>1, ChangeGetsOn
<1>3. inodes' = [d \in KeyChanges |-> inodes'[d]]
  BY <1>1 DEF KeyInv
<1>4. /\ path' # None => path' \in KeyChanges /\ keyChanges'[path'].at # "new"
      /\ tmp' # None => tmp' \in KeyChanges /\ keyChanges'[tmp'].at # "new" /\ path' # tmp'
  BY <1>1, <1>2 DEF KeyInv
<1>5. ~notCleared' => Imaging!StoredKey' = key'
  BY <1>1 DEF Imaging!StoredKey
<1>6. ~crossedChanges' => Imaging!UnderWay' = {}
  <2>1. ~crossedChanges' => Imaging!UnderWay = {}
    BY <1>1
  <2>2. Imaging!UnderWay' \subseteq Imaging!UnderWay
    BY <1>2 DEF Imaging!UnderWay
  <2> QED
    BY <2>1, <2>2
<1> QED
  BY <1>1, <1>2, <1>3, <1>4, <1>5, <1>6 DEF KeyInv

\* Nobody writes any more; the files stay.
LEMMA BreakKeepsInv ==
  ASSUME KeyInv, Imaging!Crash
  PROVE  KeyInv'
<1>1. /\ UNCHANGED <<inodes, path, tmp, key, notCleared, crossedChanges>>
      /\ keyChanges' = [c \in KeyChanges |->
           IF c \in Imaging!UnderWay THEN [keyChanges[c] EXCEPT !.at = "failed"]
           ELSE keyChanges[c]]
  BY DEF Imaging!Crash
<1>2. ASSUME NEW c \in KeyChanges
      PROVE  /\ keyChanges'[c] = [does |-> keyChanges'[c].does, at |-> keyChanges'[c].at,
                                  file |-> keyChanges'[c].file]
             /\ keyChanges'[c].at \notin {"open", "written"}
             /\ keyChanges[c].at # "new" => keyChanges'[c].at # "new"
  <2>1. CASE c \notin Imaging!UnderWay
    BY <1>1, <2>1 DEF KeyInv, Imaging!UnderWay
  <2>2. CASE c \in Imaging!UnderWay
    <3>1. PICK k : k = [does |-> keyChanges[c].does, at |-> "failed", file |-> keyChanges[c].file]
      OBVIOUS
    <3>2. k.at = "failed" /\ k = [does |-> k.does, at |-> k.at, file |-> k.file]
      BY <3>1
    <3>3. keyChanges'[c] = k
      BY <1>1, <2>2, <3>1 DEF KeyInv
    <3> QED
      BY <3>2, <3>3
  <2> QED
    BY <2>1, <2>2
<1>3. keyChanges' = [c \in KeyChanges |-> keyChanges'[c]]
  BY <1>1
<1>4. Imaging!UnderWay' = {}
  BY <1>2 DEF Imaging!UnderWay
<1>5. Imaging!StoredKey' = Imaging!StoredKey
  BY <1>1 DEF Imaging!StoredKey
<1> QED
  BY <1>1, <1>2, <1>3, <1>4, <1>5 DEF KeyInv

LEMMA KeyStays ==
  ASSUME KeyInv, UNCHANGED <<inodes, path, tmp, keyChanges, key, notCleared, crossedChanges>>
  PROVE  KeyInv'
BY DEF KeyInv, Imaging!StoredKey, Imaging!UnderWay

\* The sources before one of them
Before(i) == Imaging!ToSet(SubSeq(Imaging!Sources, 1, i - 1))

\* A request of an image that got the sources it passed over into "absent", and at
\* most one image.
WorkOk(w, count, gone) ==
  /\ w = [at |-> w.at, next |-> w.next, uses |-> w.uses, edits |-> w.edits,
          stream |-> w.stream, image |-> w.image]
  /\ gone \subseteq Imaging!Source
  /\ w.at = "new" => w.next = 1
  /\ w.at \in {"check", "resolve"} => w.next \in 1..3 /\ Before(w.next) \subseteq gone
  /\ w.uses # None => \E i \in 1..4 : w.uses = Imaging!Sources[i] /\ Before(i) \subseteq gone
  /\ w.at = "blocked" => gone = Imaging!Source
  /\ count \in 0..1
  /\ w.at \notin {"completed", "failed"} => count = 0
  /\ w.image = "partial" => "final" \notin Imaging!ToSet(w.stream)

WorkInv ==
  /\ works = [g \in Generations |-> works[g]]
  /\ images = [g \in Generations |-> images[g]]
  /\ \A g \in Generations : WorkOk(works[g], images[g], absent[g])

FourNames == {"env", "stored", "codex-auth", "codex-oauth"}

LEMMA FourSources ==
  /\ Imaging!Sources[1] = "env" /\ Imaging!Sources[2] = "stored"
  /\ Imaging!Sources[3] = "codex-auth" /\ Imaging!Sources[4] = "codex-oauth"
  /\ DOMAIN Imaging!Sources = 1..4 /\ Imaging!Sources \in Seq(FourNames)
  /\ Imaging!Source = FourNames
  /\ \A i, j \in 1..4 : Imaging!Sources[i] = Imaging!Sources[j] => i = j
<1> DEFINE s == <<"env", "stored", "codex-auth", "codex-oauth">>
<1>1. /\ s[1] = "env" /\ s[2] = "stored" /\ s[3] = "codex-auth" /\ s[4] = "codex-oauth"
      /\ DOMAIN s = 1..4 /\ s \in Seq(FourNames)
  <2>1. s \in Seq(FourNames)
    BY DEF FourNames
  <2>2. Len(s) = 4
    OBVIOUS
  <2>3. s[1] = "env" /\ s[2] = "stored" /\ s[3] = "codex-auth" /\ s[4] = "codex-oauth"
    OBVIOUS
  <2> HIDE DEF s
  <2>4. DOMAIN s = 1..4
    BY <2>1, <2>2, LenProperties
  <2> QED
    BY <2>1, <2>3, <2>4
<1>2. s = Imaging!Sources
  BY DEF Imaging!Sources
<1> HIDE DEF s
<1>3. Imaging!Source = {s[i] : i \in DOMAIN s}
  BY <1>2 DEF Imaging!Source, Imaging!ToSet
<1>4. {s[i] : i \in 1..4} = FourNames
  BY <1>1 DEF FourNames
<1>5. \A i, j \in 1..4 : s[i] = s[j] => i = j
  BY <1>1
<1> QED
  BY <1>1, <1>2, <1>3, <1>4, <1>5

LEMMA BeforeSources ==
  \A i \in 1..4 : Before(i) = {Imaging!Sources[j] : j \in 1..(i - 1)}
<1> SUFFICES ASSUME NEW i \in 1..4
             PROVE  Before(i) = {Imaging!Sources[j] : j \in 1..(i - 1)}
  OBVIOUS
<1>1. PICK s \in Seq(FourNames) : s = Imaging!Sources /\ DOMAIN s = 1..4 /\ Len(s) = 4
  <2>1. PICK s \in Seq(FourNames) : s = Imaging!Sources /\ DOMAIN s = 1..4
    BY FourSources
  <2>2. PICK n \in Nat : n = Len(s) /\ 1..n = 1..4
    BY <2>1, LenProperties
  <2>3. n = 4
    BY <2>2
  <2> QED
    BY <2>1, <2>2, <2>3
<1>2. PICK t : t = SubSeq(s, 1, i - 1)
  OBVIOUS
<1>3. \A j \in 1..(i - 1) : s[j] \in FourNames
  <2> SUFFICES ASSUME NEW j \in 1..(i - 1) PROVE s[j] \in FourNames
    OBVIOUS
  <2>1. j \in 1..Len(s)
    BY <1>1
  <2> QED
    BY <2>1, ElementOfSeq
<1>4. t \in Seq(FourNames) /\ Len(t) = i - 1 /\ \A j \in 1..(i - 1) : t[j] = s[j]
  <2>1. PICK n \in Int : n = i - 1 /\ n >= 0
    OBVIOUS
  <2>2. \A j \in 1..n : s[j] \in FourNames
    BY <1>3, <2>1
  <2>3. /\ SubSeq(s, 1, n) \in Seq(FourNames)
        /\ Len(SubSeq(s, 1, n)) = IF 1 <= n THEN n - 1 + 1 ELSE 0
        /\ \A j \in 1..(n - 1 + 1) : SubSeq(s, 1, n)[j] = s[1 + j - 1]
    BY <2>1, <2>2, SubSeqProperties
  <2>4. t \in Seq(FourNames) /\ Len(t) = n /\ \A j \in 1..n : t[j] = s[1 + j - 1]
    BY <1>2, <2>1, <2>3
  <2>5. \A j \in 1..n : 1 + j - 1 = j
    BY <2>1
  <2> QED
    BY <2>1, <2>4, <2>5
<1>5. DOMAIN t = 1..(i - 1)
  BY <1>4, LenProperties
<1>6. Before(i) = {t[j] : j \in DOMAIN t}
  BY <1>1, <1>2 DEF Before, Imaging!ToSet
<1> QED
  BY <1>1, <1>4, <1>5, <1>6

LEMMA WorkOkGrows ==
  ASSUME NEW w, NEW count, NEW gone, NEW more, WorkOk(w, count, gone),
         gone \subseteq more, more \subseteq Imaging!Source
  PROVE  WorkOk(w, count, more)
BY DEF WorkOk

LEMMA Watched ==
  ASSUME WorkInv, Imaging!Watch
  PROVE  \A g \in Generations :
           /\ absent[g] \subseteq absent'[g] /\ absent'[g] \subseteq Imaging!Source
           /\ works[g].at \in {"check", "resolve"} =>
                \A s \in Imaging!Source : ~Imaging!Available(s) => s \in absent'[g]
<1> SUFFICES ASSUME NEW g \in Generations
             PROVE  /\ absent[g] \subseteq absent'[g] /\ absent'[g] \subseteq Imaging!Source
                    /\ works[g].at \in {"check", "resolve"} =>
                         \A s \in Imaging!Source : ~Imaging!Available(s) => s \in absent'[g]
  OBVIOUS
<1>1. PICK missing \in SUBSET Imaging!Source :
        /\ \A s \in Imaging!Source : ~Imaging!Available(s) => s \in missing
        /\ absent'[g] = IF works[g].at \in {"check", "resolve"} \/ works'[g].at = "check"
                        THEN absent[g] \cup missing ELSE absent[g]
  BY DEF Imaging!Watch
<1>2. absent[g] \subseteq Imaging!Source
  BY DEF WorkInv, WorkOk
<1> QED
  BY <1>1, <1>2

\* A request gets on; the others only have more sources that were absent.
LEMMA RequestGetsOn ==
  ASSUME WorkInv, Imaging!Watch, NEW g \in Generations, NEW w, NEW count,
         works' = [works EXCEPT ![g] = w],
         images' = [images EXCEPT ![g] = count],
         WorkOk(w, count, absent'[g])
  PROVE  WorkInv'
<1>1. /\ works' = [h \in Generations |-> works'[h]] /\ works'[g] = w
      /\ images' = [h \in Generations |-> images'[h]] /\ images'[g] = count
      /\ \A h \in Generations : h # g => works'[h] = works[h] /\ images'[h] = images[h]
  BY DEF WorkInv
<1>2. \A h \in Generations : h # g => WorkOk(works'[h], images'[h], absent'[h])
  BY <1>1, Watched, WorkOkGrows DEF WorkInv
<1>3. \A h \in Generations : WorkOk(works'[h], images'[h], absent'[h])
  BY <1>1, <1>2
<1> QED
  BY <1>1, <1>3 DEF WorkInv, WorkOk

\* Requests stay as they are.
LEMMA RequestsGetOn ==
  ASSUME WorkInv, Imaging!Watch, UNCHANGED <<works, images>>
  PROVE  WorkInv'
<1>1. \A h \in Generations : WorkOk(works'[h], images'[h], absent'[h])
  BY Watched, WorkOkGrows DEF WorkInv
<1> QED
  BY <1>1 DEF WorkInv, WorkOk

\* A request looks at a source, and uses it, goes on to the next, or ends.
LEMMA PassKeepsInv ==
  ASSUME WorkInv, Imaging!Watch, NEW g \in Generations,
         NEW pass, NEW found, NEW none, Imaging!Pass(g, pass, found, none),
         \/ pass = "check" /\ found = "resolve" /\ none = "blocked"
         \/ pass = "resolve" /\ found = "call" /\ none = "failed"
  PROVE  WorkInv'
<1>1. PICK w : w = works[g]
  OBVIOUS
<1>2. PICK gone : gone = absent'[g]
  OBVIOUS
<1>3. WorkOk(w, images[g], gone)
  BY <1>1, <1>2, Watched, WorkOkGrows DEF WorkInv
<1>4. PICK n \in 1..3 : n = w.next /\ Before(n) \subseteq gone
  BY <1>1, <1>3 DEF Imaging!Pass, WorkOk
<1>5. /\ w.at = pass
      /\ works' = [works EXCEPT ![g] =
           IF Imaging!Found(w) # {}
           THEN [w EXCEPT !.at = found, !.next = 1,
                          !.uses = IF pass = "check" THEN None
                                   ELSE Imaging!Sources[Imaging!First(Imaging!Found(w))]]
           ELSE IF n = 3 THEN [w EXCEPT !.at = none] ELSE [w EXCEPT !.next = n + 1]]
      /\ images' = images
  BY <1>1, <1>4 DEF Imaging!Pass
<1>6. images' = [images EXCEPT ![g] = images[g]]
  BY <1>5 DEF WorkInv
<1>7. \A s \in Imaging!Source : ~Imaging!Available(s) => s \in gone
  BY <1>1, <1>2, <1>5, Watched
<1>8. PICK v, x, y, z :
        w = [at |-> pass, next |-> n, uses |-> v, edits |-> x, stream |-> y, image |-> z]
        /\ v = w.uses /\ y = w.stream /\ z = w.image
  BY <1>3, <1>4, <1>5 DEF WorkOk
<1>9. images[g] = 0
  BY <1>3, <1>5 DEF WorkOk
<1>10. CASE Imaging!Found(w) # {}
  <2>1. PICK u : u = IF pass = "check" THEN None
                     ELSE Imaging!Sources[Imaging!First(Imaging!Found(w))]
    OBVIOUS
  <2>2. PICK next : next = [at |-> found, next |-> 1, uses |-> u, edits |-> x, stream |-> y,
                            image |-> z]
    OBVIOUS
  <2>3. works' = [works EXCEPT ![g] = next]
    <3>1. [w EXCEPT !.at = found, !.next = 1, !.uses = u] = next
      <4>1. PICK a : a = [at |-> found, next |-> n, uses |-> v, edits |-> x, stream |-> y,
                          image |-> z]
        OBVIOUS
      <4>2. PICK b : b = [at |-> found, next |-> 1, uses |-> v, edits |-> x, stream |-> y,
                          image |-> z]
        OBVIOUS
      <4>3. [w EXCEPT !.at = found] = a
        BY <1>8, <4>1
      <4>4. [a EXCEPT !.next = 1] = b
        BY <4>1, <4>2
      <4>5. [b EXCEPT !.uses = u] = next
        BY <2>2, <4>2
      <4> QED
        BY <4>3, <4>4, <4>5
    <3> QED
      BY <1>5, <1>10, <2>1, <3>1
  <2>4. u # None => \E i \in 1..4 : u = Imaging!Sources[i] /\ Before(i) \subseteq gone
    <3>1. CASE n # 3
      <4>1. Imaging!Found(w) = {n}
        BY <1>4, <1>10, <3>1 DEF Imaging!Found
      <4>2. Imaging!First({n}) = n
        BY <1>4 DEF Imaging!First
      <4> QED
        BY <1>4, <2>1, <4>1, <4>2
    <3>2. CASE n = 3
      <4>1. Imaging!Found(w) = {i \in 3..4 : Imaging!Available(Imaging!Sources[i])}
        BY <1>4, <3>2 DEF Imaging!Found
      <4>2. PICK i \in 3..4 : i = Imaging!First(Imaging!Found(w)) /\ i \in Imaging!Found(w)
                              /\ \A j \in Imaging!Found(w) : i <= j
        BY <1>10, <4>1 DEF Imaging!First
      <4>3. i = 4 => Imaging!Sources[3] \in gone
        <5>1. i = 4 => 3 \notin Imaging!Found(w)
          BY <4>2
        <5>2. Imaging!Sources[3] \in Imaging!Source
          BY FourSources DEF FourNames
        <5>3. i = 4 => ~Imaging!Available(Imaging!Sources[3])
          BY <4>1, <5>1
        <5> QED
          BY <1>7, <5>2, <5>3
      <4>4. Before(i) \subseteq gone
        BY <1>4, <3>2, <4>2, <4>3, BeforeSources
      <4> QED
        BY <2>1, <4>2, <4>4
    <3> QED
      BY <3>1, <3>2
  <2>5. WorkOk(next, images[g], gone)
    <3>1. Before(1) = {}
      BY BeforeSources
    <3> QED
      BY <1>3, <1>8, <1>9, <2>2, <2>4, <3>1 DEF WorkOk
  <2> QED
    BY <1>2, <1>6, <2>3, <2>5, RequestGetsOn
<1>11. CASE Imaging!Found(w) = {} /\ n # 3
  <2>1. PICK next : next = [at |-> pass, next |-> n + 1, uses |-> v, edits |-> x, stream |-> y,
                            image |-> z]
    OBVIOUS
  <2>2. works' = [works EXCEPT ![g] = next]
    <3>1. [w EXCEPT !.next = n + 1] = next
      BY <1>8, <2>1
    <3> QED
      BY <1>5, <1>11, <3>1
  <2>3. Imaging!Sources[n] \in gone
    BY <1>4, <1>7, <1>11, FourSources DEF Imaging!Found, FourNames
  <2>4. Before(n + 1) \subseteq gone /\ n + 1 \in 1..3
    BY <1>4, <1>11, <2>3, BeforeSources
  <2>5. WorkOk(next, images[g], gone)
    BY <1>3, <1>8, <1>9, <2>1, <2>4 DEF WorkOk
  <2> QED
    BY <1>2, <1>6, <2>2, <2>5, RequestGetsOn
<1>12. CASE Imaging!Found(w) = {} /\ n = 3
  <2>1. PICK next : next = [at |-> none, next |-> n, uses |-> v, edits |-> x, stream |-> y,
                            image |-> z]
    OBVIOUS
  <2>2. works' = [works EXCEPT ![g] = next]
    <3>1. [w EXCEPT !.at = none] = next
      BY <1>8, <2>1
    <3> QED
      BY <1>5, <1>12, <3>1
  <2>3. Imaging!Sources[3] \in gone /\ Imaging!Sources[4] \in gone
    BY <1>4, <1>7, <1>12, FourSources DEF Imaging!Found, FourNames
  <2>4. gone = Imaging!Source
    BY <1>3, <1>4, <1>12, <2>3, FourSources, BeforeSources DEF WorkOk, FourNames
  <2>5. WorkOk(next, images[g], gone)
    BY <1>3, <1>8, <1>9, <2>1, <2>4 DEF WorkOk
  <2> QED
    BY <1>2, <1>6, <2>2, <2>5, RequestGetsOn
<1> QED
  BY <1>10, <1>11, <1>12

\* A request that goes on or ends without another image, or with the first.
LEMMA AtGetsOn ==
  ASSUME WorkInv, Imaging!Watch, NEW g \in Generations, NEW at, NEW stream, NEW image,
         NEW count, at # "new" /\ at # "blocked",
         at = "check" => works[g].at = "new" /\ images'[g] = 0,
         at # "resolve",
         images' = [images EXCEPT ![g] = count], count \in 0..1,
         at \notin {"completed", "failed"} => count = 0,
         image = "partial" => "final" \notin Imaging!ToSet(stream),
         works' = [works EXCEPT ![g] =
           [at |-> at, next |-> works[g].next, uses |-> works[g].uses,
            edits |-> works[g].edits, stream |-> stream, image |-> image]]
  PROVE  WorkInv'
<1>1. PICK w : /\ works' = [works EXCEPT ![g] = w]
               /\ w = [at |-> at, next |-> works[g].next, uses |-> works[g].uses,
                       edits |-> works[g].edits, stream |-> stream, image |-> image]
  OBVIOUS
<1>2. PICK old : old = works[g]
  OBVIOUS
<1>3. PICK gone : gone = absent'[g]
  OBVIOUS
<1>4. WorkOk(old, images[g], gone)
  BY <1>2, <1>3, Watched, WorkOkGrows DEF WorkInv
<1>5. PICK n, u, e : w = [at |-> at, next |-> n, uses |-> u, edits |-> e, stream |-> stream,
                          image |-> image]
                     /\ n = old.next /\ u = old.uses
  BY <1>1, <1>2
<1>6. at = "check" => n = 1
  BY <1>2, <1>4, <1>5 DEF WorkOk
<1>7. Before(1) = {}
  BY BeforeSources
<1>8. WorkOk(w, count, gone)
  BY <1>4, <1>5, <1>6, <1>7 DEF WorkOk
<1> QED
  BY <1>1, <1>3, <1>8, RequestGetsOn

\* A record of a request, with what it is at changed
LEMMA WorkShape ==
  ASSUME WorkInv, NEW g \in Generations
  PROVE  /\ works[g] = [at |-> works[g].at, next |-> works[g].next, uses |-> works[g].uses,
                        edits |-> works[g].edits, stream |-> works[g].stream,
                        image |-> works[g].image]
         /\ works[g].image = "partial" => "final" \notin Imaging!ToSet(works[g].stream)
         /\ images[g] \in 0..1
         /\ works[g].at \notin {"completed", "failed"} => images[g] = 0
         /\ images = [images EXCEPT ![g] = images[g]]
BY DEF WorkInv, WorkOk

LEMMA AtChanges ==
  ASSUME WorkInv, NEW g \in Generations, NEW at
  PROVE  [works EXCEPT ![g].at = at] = [works EXCEPT ![g] =
           [at |-> at, next |-> works[g].next, uses |-> works[g].uses,
            edits |-> works[g].edits, stream |-> works[g].stream, image |-> works[g].image]]
<1>1. PICK w, n, u, e, s, i :
        /\ w = works[g]
        /\ w = [at |-> works[g].at, next |-> n, uses |-> u, edits |-> e, stream |-> s, image |-> i]
        /\ n = w.next /\ u = w.uses /\ e = w.edits /\ s = w.stream /\ i = w.image
  BY WorkShape
<1>2. [w EXCEPT !.at = at]
        = [at |-> at, next |-> n, uses |-> u, edits |-> e, stream |-> s, image |-> i]
  BY <1>1
<1> QED
  BY <1>1, <1>2

LEMMA AnsweredChanges ==
  ASSUME WorkInv, NEW g \in Generations, NEW image
  PROVE  Imaging!Answered(g, image) = [works EXCEPT ![g] =
           [at |-> IF image = None THEN "failed" ELSE "completed",
            next |-> works[g].next, uses |-> works[g].uses,
            edits |-> works[g].edits, stream |-> works[g].stream, image |-> image]]
<1>1. PICK w, n, u, e, s :
        /\ w = works[g]
        /\ w = [at |-> works[g].at, next |-> n, uses |-> u, edits |-> e, stream |-> s,
                image |-> works[g].image]
        /\ n = w.next /\ u = w.uses /\ e = w.edits /\ s = w.stream
  BY WorkShape
<1>2. PICK at : at = IF image = None THEN "failed" ELSE "completed"
  OBVIOUS
<1>3. PICK mid : mid = [at |-> at, next |-> n, uses |-> u, edits |-> e, stream |-> s,
                        image |-> works[g].image]
  OBVIOUS
<1>4. [w EXCEPT !.at = at] = mid
  BY <1>1, <1>3
<1>5. [mid EXCEPT !.image = image]
        = [at |-> at, next |-> n, uses |-> u, edits |-> e, stream |-> s, image |-> image]
  BY <1>3
<1>6. Imaging!Answered(g, image) = [works EXCEPT ![g].at = at, ![g].image = image]
  BY <1>2 DEF Imaging!Answered
<1>7. [works EXCEPT ![g].at = at, ![g].image = image]
        = [works EXCEPT ![g] = [at |-> at, next |-> n, uses |-> u, edits |-> e, stream |-> s,
                                image |-> image]]
  BY <1>1, <1>4, <1>5 DEF WorkInv
<1> QED
  BY <1>1, <1>2, <1>6, <1>7

LEMMA RequestGenerationKeepsInv ==
  ASSUME WorkInv, Imaging!Watch, NEW g \in Generations, Imaging!RequestGeneration(g)
  PROVE  WorkInv'
<1>1. /\ works[g].at = "new" /\ works' = [works EXCEPT ![g].at = "check"] /\ images' = images
  BY DEF Imaging!RequestGeneration
<1>2. images[g] = 0 /\ images' = [images EXCEPT ![g] = 0] /\ images'[g] = 0
  BY <1>1, WorkShape
<1>3. PICK stream, image :
        /\ stream = works[g].stream /\ image = works[g].image
        /\ image = "partial" => "final" \notin Imaging!ToSet(stream)
  BY WorkShape
<1>4. PICK at, count : at = "check" /\ count = 0
  OBVIOUS
<1>5. works' = [works EXCEPT ![g] =
        [at |-> at, next |-> works[g].next, uses |-> works[g].uses,
         edits |-> works[g].edits, stream |-> stream, image |-> image]]
  BY <1>1, <1>3, <1>4, AtChanges
<1>6. at # "new" /\ at # "blocked" /\ at # "resolve" /\ count \in 0..1
  BY <1>4
<1>7. at = "check" => works[g].at = "new" /\ images'[g] = 0
  BY <1>1, <1>2, <1>4
<1>8. images' = [images EXCEPT ![g] = count]
  BY <1>2, <1>4
<1> QED
  BY <1>3, <1>4, <1>5, <1>6, <1>7, <1>8, AtGetsOn

LEMMA EditRefusedKeepsInv ==
  ASSUME WorkInv, Imaging!Watch, NEW g \in Generations, Imaging!EditRefused(g)
  PROVE  WorkInv'
<1>1. /\ works[g].at = "call" /\ works' = [works EXCEPT ![g].at = "retry"] /\ images' = images
  BY DEF Imaging!EditRefused
<1>2. images[g] = 0 /\ images' = [images EXCEPT ![g] = 0]
  BY <1>1, WorkShape
<1>3. PICK stream, image :
        /\ stream = works[g].stream /\ image = works[g].image
        /\ image = "partial" => "final" \notin Imaging!ToSet(stream)
  BY WorkShape
<1>4. PICK at, count : at = "retry" /\ count = 0
  OBVIOUS
<1>5. works' = [works EXCEPT ![g] =
        [at |-> at, next |-> works[g].next, uses |-> works[g].uses,
         edits |-> works[g].edits, stream |-> stream, image |-> image]]
  BY <1>1, <1>3, <1>4, AtChanges
<1>6. at # "new" /\ at # "blocked" /\ at # "resolve" /\ count \in 0..1
  BY <1>4
<1>7. at = "check" => works[g].at = "new" /\ images'[g] = 0
  BY <1>1, <1>2, <1>4
<1>8. images' = [images EXCEPT ![g] = count]
  BY <1>2, <1>4
<1> QED
  BY <1>3, <1>4, <1>5, <1>6, <1>7, <1>8, AtGetsOn

\* A call of the service that made an image, or none.
LEMMA AnswerKeepsInv ==
  ASSUME WorkInv, Imaging!Watch, NEW g \in Generations, works[g].at \in {"call", "retry"},
         NEW image \in {"final", None}, works' = Imaging!Answered(g, image),
         Imaging!Makes(g) \/ UNCHANGED images
  PROVE  WorkInv'
<1>1. images[g] = 0
  BY WorkShape
<1>2. PICK count \in 0..1 : images' = [images EXCEPT ![g] = count]
  <2>1. CASE Imaging!Makes(g)
    <3>1. images' = [images EXCEPT ![g] = 1]
      BY <1>1, <2>1 DEF Imaging!Makes
    <3> QED
      BY <3>1
  <2>2. CASE UNCHANGED images
    <3>1. images' = [images EXCEPT ![g] = 0]
      BY <1>1, <2>2, WorkShape
    <3> QED
      BY <3>1
  <2> QED
    BY <2>1, <2>2
<1>3. PICK at : at = IF image = None THEN "failed" ELSE "completed"
  OBVIOUS
<1>4. PICK stream : stream = works[g].stream
  OBVIOUS
<1>5. works' = [works EXCEPT ![g] =
        [at |-> at, next |-> works[g].next, uses |-> works[g].uses,
         edits |-> works[g].edits, stream |-> stream, image |-> image]]
  BY <1>3, <1>4, AnsweredChanges
<1>6. at \in {"completed", "failed"} /\ image # "partial"
  BY <1>3, ImagingAssumption
<1> QED
  BY <1>2, <1>5, <1>6, AtGetsOn

LEMMA CallCodexKeepsInv ==
  ASSUME WorkInv, Imaging!Watch, NEW g \in Generations, Imaging!CallCodex(g)
  PROVE  WorkInv'
<1>1. PICK stream \in {<<>>, <<"partial">>, <<"final">>, <<"partial", "final">>} :
        /\ works[g].at = "call"
        /\ works' = [Imaging!Answered(g, Imaging!Extracted(stream)) EXCEPT ![g].stream = stream]
        /\ Imaging!Makes(g) \/ UNCHANGED images
  BY DEF Imaging!CallCodex
<1>2. PICK image : image = Imaging!Extracted(stream)
  OBVIOUS
<1>3. image = "partial" => "final" \notin Imaging!ToSet(stream)
  <2>1. CASE stream = <<>>
    BY <1>2, <2>1, ImagingAssumption DEF Imaging!Extracted
  <2>2. CASE stream = <<"partial">>
    <3>1. DOMAIN stream = {1} /\ stream[1] = "partial"
      BY <2>2
    <3> QED
      BY <3>1 DEF Imaging!ToSet
  <2>3. CASE stream = <<"final">> \/ stream = <<"partial", "final">>
    <3>1. stream # <<>> /\ stream[Len(stream)] = "final"
      BY <2>3
    <3> QED
      BY <1>2, <3>1 DEF Imaging!Extracted
  <2> QED
    BY <2>1, <2>2, <2>3
<1>4. images[g] = 0
  BY <1>1, WorkShape
<1>5. PICK count \in 0..1 : images' = [images EXCEPT ![g] = count]
  <2>1. CASE Imaging!Makes(g)
    <3>1. images' = [images EXCEPT ![g] = 1]
      BY <1>4, <2>1 DEF Imaging!Makes
    <3> QED
      BY <3>1
  <2>2. CASE UNCHANGED images
    <3>1. images' = [images EXCEPT ![g] = 0]
      BY <1>4, <2>2, WorkShape
    <3> QED
      BY <3>1
  <2> QED
    BY <1>1, <2>1, <2>2
<1>6. PICK at : at = (IF image = None THEN "failed" ELSE "completed")
                /\ at \in {"failed", "completed"}
  OBVIOUS
<1>7. PICK n, u, e, s :
        /\ n = works[g].next /\ u = works[g].uses /\ e = works[g].edits /\ s = works[g].stream
  OBVIOUS
<1>8. PICK a : a = [at |-> at, next |-> n, uses |-> u, edits |-> e, stream |-> s, image |-> image]
  OBVIOUS
<1>9. Imaging!Answered(g, image) = [works EXCEPT ![g] = a]
  BY <1>6, <1>7, <1>8, AnsweredChanges
<1>10. [a EXCEPT !.stream = stream]
         = [at |-> at, next |-> n, uses |-> u, edits |-> e, stream |-> stream, image |-> image]
  BY <1>8
<1>11. works' = [works EXCEPT ![g] =
         [at |-> at, next |-> n, uses |-> u, edits |-> e, stream |-> stream, image |-> image]]
  <2>1. works' = [[works EXCEPT ![g] = a] EXCEPT ![g].stream = stream]
    BY <1>1, <1>2, <1>9
  <2>2. DOMAIN works = Generations
    BY DEF WorkInv
  <2> QED
    BY <1>10, <2>1, <2>2
<1> QED
  BY <1>3, <1>5, <1>6, <1>7, <1>11, AtGetsOn

\* The requests under way fail.
LEMMA BreakKeepsWork ==
  ASSUME WorkInv, Imaging!Watch, Imaging!Crash
  PROVE  WorkInv'
<1>1. /\ works' = [g \in Generations |->
           IF works[g].at \in {"check", "resolve", "call", "retry"}
           THEN [works[g] EXCEPT !.at = "failed"] ELSE works[g]]
      /\ images' = images
  BY DEF Imaging!Crash
<1>2. ASSUME NEW g \in Generations
      PROVE  WorkOk(works'[g], images'[g], absent'[g])
  <2>1. PICK w, count, gone : w = works[g] /\ count = images[g] /\ gone = absent'[g]
    OBVIOUS
  <2>2. WorkOk(w, count, gone)
    BY <2>1, Watched, WorkOkGrows DEF WorkInv
  <2>3. CASE w.at \in {"check", "resolve", "call", "retry"}
    <3>1. PICK n, u, e, s, i :
            /\ w = [at |-> w.at, next |-> n, uses |-> u, edits |-> e, stream |-> s, image |-> i]
            /\ n = w.next /\ u = w.uses /\ e = w.edits /\ s = w.stream /\ i = w.image
      BY <2>2 DEF WorkOk
    <3>2. PICK v : v = [at |-> "failed", next |-> n, uses |-> u, edits |-> e, stream |-> s,
                        image |-> i]
      OBVIOUS
    <3>3. [w EXCEPT !.at = "failed"] = v
      BY <3>1, <3>2
    <3>4. works'[g] = v
      BY <1>1, <2>1, <2>3, <3>3
    <3>5. WorkOk(v, count, gone)
      BY <2>2, <3>1, <3>2 DEF WorkOk
    <3> QED
      BY <1>1, <2>1, <3>4, <3>5
  <2>4. CASE w.at \notin {"check", "resolve", "call", "retry"}
    BY <1>1, <2>1, <2>2, <2>4
  <2> QED
    BY <2>3, <2>4
<1>3. works' = [g \in Generations |-> works'[g]] /\ images' = [g \in Generations |-> images'[g]]
  BY <1>1 DEF WorkInv
<1> QED
  BY <1>2, <1>3 DEF WorkInv, WorkOk

LEMMA ImagingBegins ==
  ASSUME Imaging!Init
  PROVE  KeyInv /\ WorkInv
<1>1. KeyInv
  <2>1. /\ inodes = [c \in KeyChanges |-> "empty"] /\ path = None /\ tmp = None /\ key = None
        /\ keyChanges \in [KeyChanges ->
             {[does |-> d, at |-> "new", file |-> None] : d \in {"save", "clear"}}]
    BY DEF Imaging!Init
  <2>2. ASSUME NEW c \in KeyChanges
        PROVE  /\ keyChanges[c].at = "new"
               /\ keyChanges[c] = [does |-> keyChanges[c].does, at |-> keyChanges[c].at,
                                   file |-> keyChanges[c].file]
    <3>1. PICK d : keyChanges[c] = [does |-> d, at |-> "new", file |-> None]
      BY <2>1
    <3> QED
      BY <3>1
  <2>3. Imaging!UnderWay = {}
    BY <2>2 DEF Imaging!UnderWay
  <2> QED
    BY <2>1, <2>2, <2>3 DEF KeyInv, Imaging!StoredKey
<1>2. WorkInv
  <2>1. /\ works \in [Generations ->
             {[at |-> "new", next |-> 1, uses |-> None, edits |-> e, stream |-> <<>>,
               image |-> None] : e \in BOOLEAN}]
        /\ images = [g \in Generations |-> 0] /\ absent = [g \in Generations |-> {}]
    BY DEF Imaging!Init
  <2>2. ASSUME NEW g \in Generations
        PROVE  WorkOk(works[g], images[g], absent[g])
    <3>1. PICK e : works[g] = [at |-> "new", next |-> 1, uses |-> None, edits |-> e,
                               stream |-> <<>>, image |-> None]
      BY <2>1
    <3> QED
      BY <2>1, <3>1, ImagingAssumption DEF WorkOk
  <2> QED
    BY <2>1, <2>2 DEF WorkInv
<1> QED
  BY <1>1, <1>2

LEMMA ImagingStutters ==
  ASSUME KeyInv, WorkInv, UNCHANGED imagingVars
  PROVE  KeyInv' /\ WorkInv'
BY KeyStays DEF imagingVars, WorkInv, WorkOk

LEMMA ImagingSteps ==
  ASSUME KeyInv, WorkInv, Imaging!Next
  PROVE  KeyInv' /\ WorkInv'
<1>1. Imaging!Watch
  BY DEF Imaging!Next
<1>2. CASE \E c \in KeyChanges :
             \/ Imaging!OpenTmp(c) \/ Imaging!WriteTmp(c) \/ Imaging!RenameTmp(c)
             \/ Imaging!ClearStoredImageApiKey(c)
  <2>1. UNCHANGED <<works, images>>
    BY <1>2 DEF Imaging!OpenTmp, Imaging!WriteTmp, Imaging!RenameTmp,
                Imaging!ClearStoredImageApiKey
  <2> QED
    BY <1>1, <1>2, <2>1, OpenTmpKeepsInv, WriteTmpKeepsInv, RenameTmpKeepsInv, ClearKeepsInv,
       RequestsGetOn
<1>3. CASE \E g \in Generations :
             \/ Imaging!RequestGeneration(g) \/ Imaging!GetImageAuthStatus(g)
             \/ Imaging!ResolveAuthHeader(g) \/ Imaging!CallCodex(g) \/ Imaging!CallOpenAI(g)
             \/ Imaging!EditRefused(g) \/ Imaging!AnswerLost(g)
  <2>1. PICK g \in Generations :
          \/ Imaging!RequestGeneration(g) \/ Imaging!GetImageAuthStatus(g)
          \/ Imaging!ResolveAuthHeader(g) \/ Imaging!CallCodex(g) \/ Imaging!CallOpenAI(g)
          \/ Imaging!EditRefused(g) \/ Imaging!AnswerLost(g)
    BY <1>3
  <2>2. UNCHANGED <<inodes, path, tmp, keyChanges, key, notCleared, crossedChanges>>
    BY <2>1 DEF Imaging!RequestGeneration, Imaging!GetImageAuthStatus, Imaging!ResolveAuthHeader,
                Imaging!Pass, Imaging!CallCodex, Imaging!CallOpenAI, Imaging!EditRefused,
                Imaging!AnswerLost, Imaging!CallUnchanged
  <2>3. WorkInv'
    <3>1. CASE Imaging!RequestGeneration(g)
      BY <1>1, <3>1, RequestGenerationKeepsInv
    <3>2. CASE Imaging!GetImageAuthStatus(g) \/ Imaging!ResolveAuthHeader(g)
      BY <1>1, <3>2, PassKeepsInv DEF Imaging!GetImageAuthStatus, Imaging!ResolveAuthHeader
    <3>3. CASE Imaging!CallCodex(g)
      BY <1>1, <3>3, CallCodexKeepsInv
    <3>4. CASE Imaging!CallOpenAI(g) \/ Imaging!AnswerLost(g)
      BY <1>1, <3>4, AnswerKeepsInv DEF Imaging!CallOpenAI, Imaging!AnswerLost
    <3>5. CASE Imaging!EditRefused(g)
      BY <1>1, <3>5, EditRefusedKeepsInv
    <3> QED
      BY <2>1, <3>1, <3>2, <3>3, <3>4, <3>5
  <2> QED
    BY <2>2, <2>3, KeyStays
<1>4. CASE Imaging!CodexChanges
  BY <1>1, <1>4, KeyStays, RequestsGetOn DEF Imaging!CodexChanges
<1>5. CASE Imaging!Crash
  BY <1>1, <1>5, BreakKeepsInv, BreakKeepsWork
<1> QED
  BY <1>2, <1>3, <1>4, <1>5 DEF Imaging!Next

LEMMA ImagingInvariance == NodeSpec => [](KeyInv /\ WorkInv)
<1>1. NodeInit => KeyInv /\ WorkInv
  BY ImagingBegins DEF NodeInit
<1>2. (KeyInv /\ WorkInv) /\ [NodeNext]_nodeVars => (KeyInv /\ WorkInv)'
  <2>1. [NodeNext]_nodeVars => Imaging!Next \/ UNCHANGED imagingVars
    BY DEF NodeNext, nodeVars, imagingVars
  <2> QED
    BY <2>1, ImagingSteps, ImagingStutters
<1> QED
  BY <1>1, <1>2, PTL DEF NodeSpec

\* The art library (artStore.ts) and the images made for it (imageCredentials.ts,
\* imageGeneration.ts): an asset finds its file, however profiles were copied and
\* deleted; the key is the one that was saved last unless two changes crossed or the
\* file of a key that was cleared could not be removed; a request
\* used the best credential there was and got one image at most, and a part of an
\* image is not taken for the whole.
THEOREM ArtIsSafe == NodeSpec => []ArtIsMade
<1>1. WorkInv => Imaging!BestCredential
  <2> SUFFICES ASSUME WorkInv, NEW g \in Generations
               PROVE  /\ works[g].uses # None =>
                           \A i \in 1..4 : Imaging!Sources[i] = works[g].uses
                             => Before(i) \subseteq absent[g]
                      /\ works[g].at = "blocked" => absent[g] = Imaging!Source
    BY DEF Imaging!BestCredential, Before
  <2>1. WorkOk(works[g], images[g], absent[g])
    BY DEF WorkInv
  <2> QED
    BY <2>1, FourSources DEF WorkOk
<1>2. WorkInv => Imaging!OneImageEach /\ Imaging!FinishedImageWins
  BY DEF WorkInv, WorkOk, Imaging!OneImageEach, Imaging!FinishedImageWins
<1>3. KeyInv => Imaging!KeyIsKept
  BY DEF KeyInv, Imaging!KeyIsKept
<1>4. ArtInv /\ KeyInv /\ WorkInv => ArtIsMade
  BY <1>1, <1>2, <1>3, ArtFindsFiles DEF ArtIsMade
<1> QED
  BY <1>4, ArtInvariance, ImagingInvariance, PTL

=============================================================================
