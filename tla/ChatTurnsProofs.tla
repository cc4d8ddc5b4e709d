-------------------------- MODULE ChatTurnsProofs --------------------------
(***************************************************************************)
(* Proofs about the chat turns of a Reika Node, for any sessions, numbers  *)
(* of turns, imports and crashes: type correctness, and that the turns of  *)
(* a session do not interleave; and about the saves of its JSON stores,    *)
(* for any numbers of changes, failures and crashes: that the steps of a   *)
(* save amount to one.                                                     *)
(***************************************************************************)
EXTENDS MCNode, SequenceTheorems, TLAPS

TypeInv ==
  /\ turns \in [Turn -> TurnRow \cup {None}]
  /\ tail \in [Session -> Turn \cup {None}]
  /\ logs \in [Session -> [Object -> Seq(Message)]]
  /\ current \in [Session -> Object \cup {None}]
  /\ tasks \in [Routed -> {"none", "working", "settled"}]
  /\ file \in [Session -> Seq(Message) \cup {None}]
  /\ dirty \in BOOLEAN
  /\ resuming \in Routed \cup {None} /\ crashes \in 0..MaxCrashes

\* The turns of users are in the sessions that users write to, in the order of
\* their numbers; a child turn is in the session made for it since the last
\* crash.
PlaceInv ==
  /\ \A t \in UserTurn : turns[t] # None => turns[t].session \in Chats
  /\ \A t, u \in UserTurn : u < t /\ turns[t] # None => turns[u] # None
  /\ \A t \in Routed :
       turns[Child(t)] # None => turns[Child(t)].session = ChildSession(t)

\* A routed turn has a task once it has planned; its child turn begins for a
\* turn that waits for it or for the recovery, and only for a task at work.
TaskInv ==
  \A t \in Routed :
    /\ (turns[t] = None \/ turns[t].phase \in {"queued", "planning"}) => tasks[t] = "none"
    /\ turns[Child(t)] # None =>
         \/ turns[t] # None /\ turns[t].phase = "child"
         \/ resuming = t
         \/ tasks[t] = "settled"
    /\ resuming = t => IsSettled(t) /\ tasks[t] = "working"

Pending(t) == turns[t] # None /\ turns[t].phase # "settled"

InProgress(t) == turns[t] # None /\ turns[t].phase \notin {"queued", "settled"}

SameSession(t, u) == turns[u] # None /\ turns[u].session = turns[t].session

\* Whether a turn waits for that one or a later one of the session.
IsBehind(u, t) ==
  /\ turns[u].phase = "queued"
  /\ turns[u].after \in Turn /\ t <= turns[u].after /\ turns[u].after < u
  /\ SameSession(t, turns[u].after)

\* The last promise of a session is the last of its turns that are not over,
\* and a turn behind one that is not over waits for that one or a later one.
QueueInv ==
  /\ \A s \in Session : tail[s] # None => Pending(tail[s]) /\ turns[tail[s]].session = s
  /\ \A t \in Turn : Pending(t) =>
       LET last == tail[turns[t].session] IN last # None /\ t <= last
  /\ \A t, u \in Turn : Pending(t) /\ SameSession(t, u) /\ t < u => IsBehind(u, t)

\* The session of a child turn of before the last crash.
IsOld(s) == \E t \in Routed, n \in 0..MaxCrashes : s = <<t, n>> /\ n < crashes

\* Whether a session may hold messages of a turn: the turn was started.
HasSpoken(t, s) ==
  \/ /\ turns[t] # None /\ turns[t].phase # "queued"
     /\ t \in UserTurn \/ turns[t].session = s
  \/ t \notin UserTurn /\ IsOld(s)

IsSeparated(log) ==
  \A i, j \in DOMAIN log :
    (i < j /\ log[i].turn = log[j].turn /\ log[i].turn # None /\ ~log[j].late) =>
      \A k \in (i + 1)..(j - 1) : log[k].late

\* The messages of a session, in memory or in the file, are of turns that were
\* started, and those of a turn are not separated by others.
IsOrderly(s, log) ==
  /\ IsSeparated(log)
  /\ \A i \in DOMAIN log : log[i].turn # None => HasSpoken(log[i].turn, s)

LogInv ==
  \A s \in Session :
    /\ \A o \in Object : IsOrderly(s, logs[s][o])
    /\ file[s] # None => IsOrderly(s, file[s])

\* Whether a turn's messages are followed only by those of resumed tasks.
IsLast(t, log) ==
  \A i, k \in DOMAIN log : log[i].turn = t /\ i < k => log[k].late

\* What a turn has said is the last that was said until the turn is over.
LastInv == \A t \in Turn : InProgress(t) => IsLast(t, logs[turns[t].session][turns[t].object])

IInv == TypeInv /\ PlaceInv /\ TaskInv /\ QueueInv /\ LogInv /\ LastInv

----------------------------------------------------------------------------
(* Turns, sessions and logs *)

LEMMA TurnsAreNumbers ==
  /\ Turn \subseteq Int /\ UserTurn \subseteq Turn /\ Routed \subseteq UserTurn
  /\ \A t \in Turn : t \notin UserTurn => \E r \in Routed : t = Child(r)
  /\ \A r \in Routed : Child(r) \in Turn /\ Child(r) \notin UserTurn
  /\ \A q, r \in Routed : Child(q) = Child(r) => q = r
BY BoundsAssumption DEF Turn, UserTurn, Child

LEMMA SessionsDiffer ==
  ASSUME TypeInv
  PROVE  /\ Chats \subseteq Session
         /\ \A r \in Routed : ChildSession(r) \in Session /\ ChildSession(r) \notin Chats
         /\ \A q, r \in Routed : ChildSession(q) = ChildSession(r) => q = r
BY KindsAssumption DEF TypeInv, Session, ChildSession

LEMMA ObjectZero == 0 \in Object
BY BoundsAssumption DEF Object

\* A turn whose phase changes keeps the rest of its row.
LEMMA PhaseChanges ==
  ASSUME TypeInv, NEW t \in Turn, turns[t] # None, NEW p \in Phase, Phased(t, p)
  PROVE  /\ turns' \in [Turn -> TurnRow \cup {None}]
         /\ \A u \in Turn \ {t} : turns'[u] = turns[u]
         /\ turns'[t] # None /\ turns'[t].phase = p
         /\ turns'[t].session = turns[t].session /\ turns'[t].object = turns[t].object
         /\ turns'[t].after = turns[t].after
<1>1. turns[t] \in TurnRow
  BY DEF TypeInv
<1>2. [turns[t] EXCEPT !.phase = p] \in TurnRow
  BY <1>1 DEF TurnRow
<1>3. turns' = [turns EXCEPT ![t] = [turns[t] EXCEPT !.phase = p]]
  BY DEF Phased
<1> QED
  BY <1>1, <1>2, <1>3, KindsAssumption DEF TypeInv, TurnRow

\* A new turn is behind those of its session.
LEMMA RowOfQueued ==
  ASSUME TypeInv, NEW s \in Session, NEW o \in Object
  PROVE  /\ Queued(s, o) \in TurnRow /\ Queued(s, o) # None
         /\ Queued(s, o).session = s /\ Queued(s, o).object = o
         /\ Queued(s, o).phase = "queued" /\ Queued(s, o).after = tail[s]
BY KindsAssumption DEF TypeInv, Queued, TurnRow, Phase

\* What is appended to a log comes behind it.
LEMMA AppendedLog ==
  ASSUME NEW log \in Seq(Message), NEW m \in Message
  PROVE  /\ log \o <<m>> \in Seq(Message)
         /\ Len(log \o <<m>>) = Len(log) + 1
         /\ \A i \in 1..Len(log) : (log \o <<m>>)[i] = log[i]
         /\ (log \o <<m>>)[Len(log) + 1] = m
OBVIOUS

LEMMA TwoMessages ==
  ASSUME NEW a \in Message, NEW b \in Message
  PROVE  <<a>> \o <<b>> = <<a, b>>
<1>1. <<a>> \in Seq(Message) /\ <<b>> \in Seq(Message) /\ <<a, b>> \in Seq(Message)
  OBVIOUS
<1>2. Len(<<a>> \o <<b>>) = 2 /\ Len(<<a, b>>) = 2
  BY <1>1
<1>3. \A i \in 1..2 : (<<a>> \o <<b>>)[i] = <<a, b>>[i]
  BY <1>1
<1>4. <<a>> \o <<b>> \in Seq(Message)
  BY <1>1
<1> QED
  BY <1>1, <1>2, <1>3, <1>4, SeqEqual

\* A message separates no others if it is of no turn, if it is late, or if
\* its turn was the last to say something.
LEMMA AppendedSeparates ==
  ASSUME NEW log \in Seq(Message), IsSeparated(log), NEW m \in Message,
         m.turn = None \/ m.late \/ IsLast(m.turn, log)
  PROVE  IsSeparated(log \o <<m>>)
<1> DEFINE new == log \o <<m>>
<1>1. /\ new \in Seq(Message) /\ Len(new) = Len(log) + 1
      /\ \A i \in 1..Len(log) : new[i] = log[i]
      /\ new[Len(log) + 1] = m
  BY AppendedLog
<1>2. DOMAIN new = 1..(Len(log) + 1) /\ DOMAIN log = 1..Len(log) /\ Len(log) \in Nat
  BY <1>1
<1> HIDE DEF new
<1>3. SUFFICES ASSUME NEW i \in DOMAIN new, NEW j \in DOMAIN new, i < j,
                      new[i].turn = new[j].turn, new[i].turn # None, ~new[j].late,
                      NEW k \in (i + 1)..(j - 1)
               PROVE  new[k].late
  BY DEF IsSeparated, new
<1>4. i \in DOMAIN log /\ k \in DOMAIN log /\ new[i] = log[i] /\ new[k] = log[k]
  BY <1>1, <1>2, <1>3
<1>5. CASE j \in DOMAIN log
  BY <1>1, <1>2, <1>3, <1>4, <1>5 DEF IsSeparated
<1>6. CASE j = Len(log) + 1
  <2>1. IsLast(log[i].turn, log)
    BY <1>1, <1>3, <1>4, <1>6
  <2> QED
    BY <1>2, <1>3, <1>4, <2>1 DEF IsLast
<1> QED
  BY <1>2, <1>3, <1>5, <1>6

\* A late message, or one of the turn itself, leaves a turn the last.
LEMMA AppendedIsLast ==
  ASSUME NEW log \in Seq(Message), NEW m \in Message, NEW t, IsLast(t, log), m.late
  PROVE  IsLast(t, log \o <<m>>)
<1>1. DOMAIN (log \o <<m>>) = 1..(Len(log) + 1) /\ DOMAIN log = 1..Len(log) /\ Len(log) \in Nat
  BY AppendedLog
<1> QED
  BY <1>1, AppendedLog DEF IsLast

\* A turn that has said nothing yet is the last when it has said something.
LEMMA FirstIsLast ==
  ASSUME NEW log \in Seq(Message), NEW m \in Message,
         \A i \in DOMAIN log : log[i].turn # m.turn
  PROVE  IsLast(m.turn, log) /\ IsLast(m.turn, log \o <<m>>)
<1>1. DOMAIN (log \o <<m>>) = 1..(Len(log) + 1) /\ DOMAIN log = 1..Len(log) /\ Len(log) \in Nat
  BY AppendedLog
<1> QED
  BY <1>1, AppendedLog DEF IsLast

----------------------------------------------------------------------------
(* The queue *)

\* A turn that may start, or has started, is the first of its session.
LEMMA StartedIsFirst ==
  ASSUME TypeInv, QueueInv, NEW t \in Turn, MayStart(t) \/ InProgress(t),
         NEW u \in Turn, Pending(u), turns[t].session = turns[u].session
  PROVE  t <= u
<1>1. SUFFICES ASSUME u < t PROVE FALSE
  BY TurnsAreNumbers
<1>2. SameSession(u, t)
  BY DEF SameSession, MayStart, InProgress
<1> DEFINE before == turns[t].after
<1>3. /\ turns[t].phase = "queued"
      /\ before \in Turn /\ u <= before /\ SameSession(u, before)
  BY <1>1, <1>2 DEF QueueInv, IsBehind
<1>4. MayStart(t)
  BY <1>3 DEF InProgress
<1>5. IsSettled(before)
  BY <1>3, <1>4, KindsAssumption DEF MayStart
<1>6. u < before
  <2>1. before # u
    BY <1>5 DEF Pending, IsSettled
  <2>2. u \in Int /\ before \in Int
    BY <1>3, TurnsAreNumbers
  <2> QED
    BY <1>3, <2>1, <2>2
<1>7. turns[before].phase = "queued"
  BY <1>3, <1>6 DEF QueueInv, IsBehind
<1> QED
  BY <1>5, <1>7 DEF IsSettled

\* One turn of a session is in progress.
LEMMA OneInProgress ==
  ASSUME TypeInv, QueueInv, NEW t \in Turn, MayStart(t) \/ InProgress(t),
         NEW u \in Turn, InProgress(u), turns[t].session = turns[u].session
  PROVE  t = u
<1>1. Pending(t) /\ Pending(u)
  BY DEF Pending, MayStart, InProgress
<1>2. t <= u /\ u <= t
  BY <1>1, StartedIsFirst
<1> QED
  BY <1>2, TurnsAreNumbers

LEMMA QueueWhenStarted ==
  ASSUME TypeInv, QueueInv, NEW t \in Turn, MayStart(t) \/ InProgress(t),
         NEW p \in Phase, p # "settled", Phased(t, p), UNCHANGED tail
  PROVE  QueueInv'
<1>1. turns[t] # None /\ Pending(t)
  BY DEF MayStart, InProgress, Pending
<1>2. /\ \A u \in Turn : Pending(u)' <=> Pending(u)
      /\ \A u \in Turn : turns'[u] # None <=> turns[u] # None
      /\ \A u \in Turn : turns[u] # None => /\ turns'[u].session = turns[u].session
                                            /\ turns'[u].after = turns[u].after
      /\ \A u \in Turn \ {t} : turns'[u] = turns[u]
  BY <1>1, PhaseChanges DEF Pending
<1>3. \A s \in Session : tail[s] # None => tail[s] \in Turn
  BY DEF TypeInv
<1>4. \A u \in Turn : turns[u] # None => turns[u].session \in Session
  BY DEF TypeInv, TurnRow
<1>5. \A s \in Session : tail'[s] # None => Pending(tail[s])' /\ turns'[tail[s]].session = s
  BY <1>2, <1>3 DEF QueueInv, Pending
<1>6. \A u \in Turn : Pending(u)' =>
        tail'[turns'[u].session] # None /\ u <= tail'[turns'[u].session]
  BY <1>2 DEF QueueInv, Pending
<1>7. ASSUME NEW u \in Turn, NEW v \in Turn, Pending(u)', SameSession(u, v)', u < v
      PROVE  IsBehind(v, u)'
  <2>1. Pending(u) /\ SameSession(u, v)
    BY <1>2, <1>7 DEF SameSession, Pending
  <2>2. IsBehind(v, u)
    BY <1>7, <2>1 DEF QueueInv
  <2>3. v # t
    BY <1>7, <2>1, StartedIsFirst, TurnsAreNumbers DEF SameSession
  <2>4. SameSession(u, turns[v].after)'
    BY <1>2, <2>1, <2>2, <2>3 DEF SameSession, Pending, IsBehind
  <2> QED
    BY <1>2, <2>1, <2>2, <2>3, <2>4 DEF IsBehind, SameSession
<1> QED
  BY <1>5, <1>6, <1>7 DEF QueueInv, Pending, SameSession

LEMMA QueueWhenSettled ==
  ASSUME TypeInv, QueueInv, NEW t \in Turn, MayStart(t) \/ InProgress(t), Settle(t)
  PROVE  QueueInv' /\ tail' \in [Session -> Turn \cup {None}]
<1>1. turns[t] # None /\ Pending(t) /\ turns[t].session \in Session
  BY DEF MayStart, InProgress, Pending, TypeInv, TurnRow
<1>2. /\ \A u \in Turn \ {t} : turns'[u] = turns[u]
      /\ turns'[t] # None /\ ~Pending(t)'
      /\ turns'[t].session = turns[t].session /\ turns'[t].after = turns[t].after
  BY <1>1, PhaseChanges DEF Pending, Settle, Phase
<1>3. \A u \in Turn : Pending(u)' <=> Pending(u) /\ u # t
  BY <1>2 DEF Pending
<1>4. /\ tail' \in [Session -> Turn \cup {None}]
      /\ \A s \in Session \ {turns[t].session} : tail'[s] = tail[s]
      /\ LET s == turns[t].session IN tail'[s] = IF tail[s] = t THEN None ELSE tail[s]
  BY <1>1 DEF TypeInv, Settle, TailAfter
<1>5. \A s \in Session : tail[s] # None =>
        tail[s] \in Turn /\ Pending(tail[s]) /\ turns[tail[s]].session = s
  BY DEF TypeInv, QueueInv
<1>6. \A u \in Turn : turns[u] # None => turns[u].session \in Session
  BY DEF TypeInv, TurnRow
<1>7. ASSUME NEW s \in Session, tail'[s] # None
      PROVE  Pending(tail[s])' /\ turns'[tail'[s]].session = s
  <2>1. tail'[s] = tail[s] /\ tail[s] # None /\ tail[s] # t
    BY <1>1, <1>4, <1>5, <1>7
  <2> QED
    BY <1>2, <1>3, <1>5, <2>1
<1>8. ASSUME NEW u \in Turn, Pending(u)'
      PROVE  tail'[turns'[u].session] # None /\ u <= tail'[turns'[u].session]
  <2>1. Pending(u) /\ u # t /\ turns'[u] = turns[u]
    BY <1>2, <1>3, <1>8
  <2>2. tail[turns[u].session] # None /\ u <= tail[turns[u].session]
    BY <2>1 DEF QueueInv
  <2>3. turns[u].session \in Session
    BY <1>6, <2>1 DEF Pending
  <2>4. tail[turns[u].session] # t
    <3> SUFFICES ASSUME tail[turns[u].session] = t PROVE FALSE
      OBVIOUS
    <3>1. turns[t].session = turns[u].session
      BY <1>5, <2>2, <2>3
    <3>2. t <= u
      BY <2>1, <3>1, StartedIsFirst
    <3> QED
      BY <2>1, <2>2, <3>2, TurnsAreNumbers
  <2> QED
    BY <1>4, <2>1, <2>2, <2>3, <2>4
<1>9. ASSUME NEW u \in Turn, NEW v \in Turn, Pending(u)', SameSession(u, v)', u < v
      PROVE  IsBehind(v, u)'
  <2>1. Pending(u) /\ u # t /\ turns'[u] = turns[u] /\ SameSession(u, v)
    BY <1>1, <1>2, <1>3, <1>9 DEF SameSession
  <2>2. IsBehind(v, u)
    BY <1>9, <2>1 DEF QueueInv
  <2>3. v # t
    BY <1>9, <2>1, StartedIsFirst, TurnsAreNumbers DEF SameSession
  <2>4. SameSession(u, turns[v].after)'
    BY <1>2, <2>1, <2>2, <2>3 DEF SameSession, IsBehind
  <2> QED
    BY <1>2, <2>1, <2>2, <2>3, <2>4 DEF IsBehind, SameSession
<1> QED
  BY <1>4, <1>7, <1>8, <1>9 DEF QueueInv, Pending, SameSession

\* A turn stays where it is, and is queued or over if it was.
KeepsPlace(u) ==
  /\ turns'[u] # None <=> turns[u] # None
  /\ turns[u] # None =>
       /\ turns'[u].session = turns[u].session /\ turns'[u].after = turns[u].after
       /\ turns'[u].object = turns[u].object
       /\ turns'[u].phase = "queued" <=> turns[u].phase = "queued"
       /\ turns'[u].phase = "settled" <=> turns[u].phase = "settled"

\* A new turn is queued behind all of its session; others go on as they were.
LEMMA QueueWhenQueued ==
  ASSUME TypeInv, QueueInv, NEW t \in Turn, NEW s \in Session, NEW o \in Object,
         turns[t] = None, turns'[t] = Queued(s, o), tail' = [tail EXCEPT ![s] = t],
         \A u \in Turn : turns[u] # None /\ turns[u].session = s => u < t,
         \A u \in Turn \ {t} : KeepsPlace(u)
  PROVE  QueueInv' /\ tail' \in [Session -> Turn \cup {None}]
<1>0. \A u \in Turn \ {t} :
        /\ Pending(u)' <=> Pending(u)
        /\ turns'[u] # None <=> turns[u] # None
        /\ turns[u] # None =>
             /\ turns'[u].session = turns[u].session /\ turns'[u].after = turns[u].after
             /\ turns[u].phase = "queued" => turns'[u].phase = "queued"
  BY DEF KeepsPlace, Pending
<1> USE <1>0
<1>1. /\ turns'[t] # None /\ turns'[t].session = s /\ turns'[t].phase = "queued"
      /\ turns'[t].after = tail[s] /\ Pending(t)'
  BY RowOfQueued DEF Pending
<1>2. /\ tail' \in [Session -> Turn \cup {None}]
      /\ \A x \in Session \ {s} : tail'[x] = tail[x]
      /\ tail'[s] = t
  BY DEF TypeInv
<1>3. \A x \in Session : tail[x] # None =>
        tail[x] \in Turn \ {t} /\ Pending(tail[x]) /\ turns[tail[x]].session = x
  BY DEF TypeInv, QueueInv, Pending
<1>4. \A u \in Turn : turns[u] # None => u # t /\ turns[u].session \in Session
  BY DEF TypeInv, TurnRow
<1>5. ASSUME NEW x \in Session, tail'[x] # None
      PROVE  Pending(tail[x])' /\ turns'[tail'[x]].session = x
  BY <1>1, <1>2, <1>3, <1>5 DEF Pending
<1>6. ASSUME NEW u \in Turn, Pending(u)'
      PROVE  tail'[turns'[u].session] # None /\ u <= tail'[turns'[u].session]
  <2>1. CASE u = t
    BY <1>1, <1>2, <2>1, KindsAssumption, TurnsAreNumbers
  <2>2. CASE u # t
    <3>1. Pending(u) /\ turns'[u].session = turns[u].session /\ turns[u].session \in Session
      BY <1>4, <1>6, <2>2 DEF Pending
    <3>2. tail[turns[u].session] # None /\ u <= tail[turns[u].session]
      BY <3>1 DEF QueueInv
    <3>3. turns[u].session = s => u < t
      BY <3>1 DEF Pending
    <3> QED
      BY <1>2, <3>1, <3>2, <3>3, KindsAssumption, TurnsAreNumbers
  <2> QED
    BY <2>1, <2>2
<1>7. ASSUME NEW u \in Turn, NEW v \in Turn, Pending(u)', SameSession(u, v)', u < v
      PROVE  IsBehind(v, u)'
  <2>1. u # t
    <3> SUFFICES ASSUME u = t PROVE FALSE
      OBVIOUS
    <3>1. v # t /\ turns[v] # None /\ turns[v].session = s
      BY <1>1, <1>7, TurnsAreNumbers DEF SameSession
    <3> QED
      BY <1>7, <3>1, TurnsAreNumbers
  <2>2. Pending(u) /\ turns'[u].session = turns[u].session
    BY <1>7, <2>1 DEF Pending
  <2>3. CASE v = t
    <3>1. turns[u].session = s
      BY <1>1, <1>7, <2>2, <2>3 DEF SameSession
    <3>2. tail[s] \in Turn \ {t} /\ Pending(tail[s]) /\ turns[tail[s]].session = s /\ u <= tail[s]
      BY <1>3, <2>2, <3>1 DEF QueueInv
    <3>3. tail[s] < t /\ turns'[tail[s]] # None /\ turns'[tail[s]].session = s
      BY <3>2 DEF Pending
    <3> QED
      BY <1>1, <2>2, <2>3, <3>1, <3>2, <3>3 DEF SameSession, IsBehind
  <2>4. CASE v # t
    <3>1. SameSession(u, v)
      BY <1>7, <2>2, <2>4 DEF SameSession
    <3>2. IsBehind(v, u)
      BY <1>7, <2>2, <3>1 DEF QueueInv
    <3>3. SameSession(u, turns[v].after)'
      BY <1>4, <2>2, <2>4, <3>1, <3>2 DEF SameSession, IsBehind
    <3> QED
      BY <2>4, <3>1, <3>2, <3>3 DEF SameSession, IsBehind
  <2> QED
    BY <2>3, <2>4
<1> QED
  BY <1>2, <1>5, <1>6, <1>7 DEF QueueInv, Pending, SameSession

----------------------------------------------------------------------------
(* The messages *)

\* A turn that was started stays so, unless the node crashes.
LEMMA SpokenStays ==
  ASSUME UNCHANGED crashes,
         \A t \in Turn : turns[t] # None /\ turns[t].phase # "queued" =>
           /\ turns'[t] # None /\ turns'[t].phase # "queued"
           /\ turns'[t].session = turns[t].session
  PROVE  \A t \in Turn, s \in Session : HasSpoken(t, s) => HasSpoken(t, s)'
BY DEF HasSpoken, IsOld

\* The turns of a log's messages are turns.
LEMMA TurnsOfLog ==
  ASSUME NEW log \in Seq(Message), NEW i \in DOMAIN log
  PROVE  log[i] \in Message /\ log[i].turn \in Turn \cup {None}
<1>1. log[i] \in Message
  OBVIOUS
<1> QED
  BY <1>1 DEF Message

LEMMA LogsStay ==
  ASSUME TypeInv, LogInv, UNCHANGED <<logs, file>>,
         \A t \in Turn, s \in Session : HasSpoken(t, s) => HasSpoken(t, s)'
  PROVE  LogInv'
<1>1. ASSUME NEW s \in Session, NEW log \in Seq(Message), IsOrderly(s, log)
      PROVE  IsOrderly(s, log)'
  <2>1. \A i \in DOMAIN log : log[i].turn \in Turn \cup {None}
    BY TurnsOfLog
  <2> QED
    BY <1>1, <2>1 DEF IsOrderly
<1> QED
  BY <1>1 DEF TypeInv, LogInv

\* Messages of started turns are appended to a log and leave it separated.
LEMMA LogsGrow ==
  ASSUME TypeInv, LogInv, NEW s \in Session, NEW o \in Object, NEW messages \in Seq(Message),
         AppendMessage(s, o, messages), UNCHANGED file,
         \A t \in Turn, x \in Session : HasSpoken(t, x) => HasSpoken(t, x)',
         \A i \in DOMAIN messages : messages[i].turn # None => HasSpoken(messages[i].turn, s)',
         IsSeparated(logs[s][o] \o messages)
  PROVE  /\ LogInv' /\ logs' \in [Session -> [Object -> Seq(Message)]]
         /\ current' \in [Session -> Object \cup {None}] /\ dirty' \in BOOLEAN
         /\ logs'[s][o] = logs[s][o] \o messages
         /\ \A x \in Session, p \in Object : x # s \/ p # o => logs'[x][p] = logs[x][p]
<1>1. logs[s][o] \in Seq(Message) /\ logs[s][o] \o messages \in Seq(Message)
  BY DEF TypeInv
<1>2. /\ logs' \in [Session -> [Object -> Seq(Message)]]
      /\ logs'[s][o] = logs[s][o] \o messages
      /\ \A x \in Session, p \in Object : x # s \/ p # o => logs'[x][p] = logs[x][p]
  BY <1>1 DEF TypeInv, AppendMessage
<1>3. current' \in [Session -> Object \cup {None}] /\ dirty' \in BOOLEAN
  BY DEF TypeInv, AppendMessage
<1>4. ASSUME NEW x \in Session, NEW log \in Seq(Message), IsOrderly(x, log)
      PROVE  IsOrderly(x, log)'
  <2>1. \A i \in DOMAIN log : log[i].turn \in Turn \cup {None}
    BY TurnsOfLog
  <2> QED
    BY <1>4, <2>1 DEF IsOrderly
<1>5. ASSUME NEW log \in Seq(Message), log = logs[s][o],
             NEW new \in Seq(Message), new = log \o messages
      PROVE  IsOrderly(s, new)'
  <2>1. ASSUME NEW i \in DOMAIN new, new[i].turn # None PROVE HasSpoken(new[i].turn, s)'
    <3>1. \/ i \in DOMAIN log /\ new[i] = log[i]
          \/ i - Len(log) \in DOMAIN messages /\ new[i] = messages[i - Len(log)]
      BY <1>5
    <3>2. CASE i \in DOMAIN log /\ new[i] = log[i]
      <4>1. HasSpoken(log[i].turn, s) /\ log[i].turn \in Turn
        BY <1>5, <2>1, <3>2, TurnsOfLog DEF LogInv, IsOrderly
      <4> QED
        BY <3>2, <4>1
    <3> QED
      BY <2>1, <3>1, <3>2
  <2> QED
    BY <1>5, <2>1 DEF IsOrderly
<1>6. ASSUME NEW x \in Session PROVE \A p \in Object : IsOrderly(x, logs[x][p])'
  <2> SUFFICES ASSUME NEW p \in Object PROVE IsOrderly(x, logs[x][p])'
    OBVIOUS
  <2>1. CASE x = s /\ p = o
    BY <1>1, <1>2, <1>5, <2>1
  <2>2. CASE x # s \/ p # o
    <3>1. logs[x][p] \in Seq(Message) /\ IsOrderly(x, logs[x][p])
      BY DEF TypeInv, LogInv
    <3> QED
      BY <1>2, <1>4, <2>2, <3>1
  <2> QED
    BY <2>1, <2>2
<1>7. ASSUME NEW x \in Session, file'[x] # None PROVE IsOrderly(x, file[x])'
  <2>1. file[x] \in Seq(Message) /\ IsOrderly(x, file[x])
    BY <1>7 DEF TypeInv, LogInv
  <2> QED
    BY <1>4, <2>1
<1> QED
  BY <1>2, <1>3, <1>6, <1>7 DEF LogInv

\* A turn that goes on where it was is still the last, if the log is the same.
LEMMA LastStays ==
  ASSUME LastInv, UNCHANGED logs,
         \A t \in Turn : InProgress(t)' =>
           /\ InProgress(t) /\ turns'[t].session = turns[t].session
           /\ turns'[t].object = turns[t].object
  PROVE  LastInv'
BY DEF LastInv, IsLast

----------------------------------------------------------------------------
(* What a turn of a session does *)

\* A turn starts, goes on or ends: its row gets a phase, and the queue the
\* entry that goes with it.
Goes(t, p) ==
  /\ MayStart(t) \/ InProgress(t)
  /\ IF p = "settled" THEN Settle(t) ELSE Phased(t, p) /\ UNCHANGED tail

LEMMA TurnGoes ==
  ASSUME TypeInv, PlaceInv, QueueInv, NEW t \in Turn, NEW p \in Phase \ {"queued"},
         Goes(t, p), UNCHANGED crashes
  PROVE  /\ turns' \in [Turn -> TurnRow \cup {None}]
         /\ tail' \in [Session -> Turn \cup {None}]
         /\ PlaceInv' /\ QueueInv'
         /\ turns[t] # None /\ turns[t].session \in Session /\ turns[t].object \in Object
         /\ \A u \in Turn \ {t} : turns'[u] = turns[u]
         /\ turns'[t] # None /\ turns'[t].phase = p
         /\ turns'[t].session = turns[t].session /\ turns'[t].object = turns[t].object
         /\ \A u \in Turn, s \in Session : HasSpoken(u, s) => HasSpoken(u, s)'
         /\ HasSpoken(t, turns[t].session)'
<1>1. turns[t] # None /\ turns[t] \in TurnRow /\ Phased(t, p)
  BY DEF Goes, MayStart, InProgress, Settle, TypeInv
<1>2. /\ turns' \in [Turn -> TurnRow \cup {None}]
      /\ \A u \in Turn \ {t} : turns'[u] = turns[u]
      /\ turns'[t] # None /\ turns'[t].phase = p
      /\ turns'[t].session = turns[t].session /\ turns'[t].object = turns[t].object
  BY <1>1, PhaseChanges
<1>3. QueueInv' /\ tail' \in [Session -> Turn \cup {None}]
  BY <1>1, QueueWhenStarted, QueueWhenSettled DEF Goes, TypeInv
<1>4. PlaceInv'
  <2>1. \A u \in Turn : /\ turns'[u] # None <=> turns[u] # None
                        /\ turns[u] # None => turns'[u].session = turns[u].session
    BY <1>1, <1>2
  <2> QED
    BY <2>1, TurnsAreNumbers DEF PlaceInv, ChildSession
<1>5. \A u \in Turn, s \in Session : HasSpoken(u, s) => HasSpoken(u, s)'
  <2>1. \A u \in Turn : turns[u] # None /\ turns[u].phase # "queued" =>
          /\ turns'[u] # None /\ turns'[u].phase # "queued"
          /\ turns'[u].session = turns[u].session
    BY <1>2
  <2> QED
    BY <2>1, SpokenStays
<1>6. HasSpoken(t, turns[t].session)'
  BY <1>2 DEF HasSpoken
<1> QED
  BY <1>1, <1>2, <1>3, <1>4, <1>5, <1>6 DEF TurnRow

\* A turn that is queued has said nothing in its session.
LEMMA QueuedIsSilent ==
  ASSUME TypeInv, PlaceInv, LogInv, NEW t \in Turn, turns[t] # None, turns[t].phase = "queued"
  PROVE  LET log == logs[turns[t].session][turns[t].object] IN
         \A i \in DOMAIN log : log[i].turn # t
<1> DEFINE s == turns[t].session
           log == logs[s][turns[t].object]
<1>1. s \in Session /\ turns[t].object \in Object
  BY DEF TypeInv, TurnRow
<1>2. SUFFICES ASSUME NEW i \in DOMAIN log, log[i].turn = t PROVE FALSE
  OBVIOUS
<1>3. HasSpoken(t, s)
  BY <1>1, <1>2, KindsAssumption DEF LogInv, IsOrderly
<1>4. t \notin UserTurn /\ IsOld(s)
  BY <1>3 DEF HasSpoken
<1>5. PICK r \in Routed : t = Child(r)
  BY <1>4, TurnsAreNumbers
<1>6. s = <<r, crashes>>
  BY <1>5 DEF PlaceInv, ChildSession
<1>7. crashes \in Nat
  BY BoundsAssumption DEF TypeInv
<1> QED
  BY <1>4, <1>6, <1>7 DEF IsOld

\* A turn that goes on and says something: what it says comes behind its own.
LEMMA TurnSays ==
  ASSUME TypeInv, PlaceInv, QueueInv, LogInv, LastInv, NEW t \in Turn,
         NEW p \in Phase \ {"queued"}, Goes(t, p),
         NEW messages \in Seq(Message), Say(t, messages), UNCHANGED <<file, crashes>>,
         \A i \in DOMAIN messages : messages[i].turn = t,
         LET log == logs[turns[t].session][turns[t].object] \o messages IN
           IsSeparated(log) /\ (p = "settled" \/ IsLast(t, log))
  PROVE  /\ LogInv' /\ LastInv'
         /\ logs' \in [Session -> [Object -> Seq(Message)]]
         /\ current' \in [Session -> Object \cup {None}] /\ dirty' \in BOOLEAN
<1> DEFINE s == turns[t].session
           o == turns[t].object
<1>1. /\ turns[t] # None /\ s \in Session /\ o \in Object
      /\ \A u \in Turn \ {t} : turns'[u] = turns[u]
      /\ turns'[t] # None /\ turns'[t].phase = p
      /\ turns'[t].session = s /\ turns'[t].object = o
      /\ \A u \in Turn, x \in Session : HasSpoken(u, x) => HasSpoken(u, x)'
      /\ HasSpoken(t, s)'
  BY TurnGoes
<1>2. PICK x \in Session, y \in Object : x = s /\ y = o
  BY <1>1
<1>3. AppendMessage(x, y, messages) /\ IsSeparated(logs[x][y] \o messages)
  BY <1>2 DEF Say
<1>4. \A i \in DOMAIN messages : messages[i].turn # None => HasSpoken(messages[i].turn, x)'
  BY <1>1, <1>2
<1>5. /\ LogInv' /\ logs' \in [Session -> [Object -> Seq(Message)]]
      /\ current' \in [Session -> Object \cup {None}] /\ dirty' \in BOOLEAN
      /\ logs'[x][y] = logs[x][y] \o messages
      /\ \A z \in Session, q \in Object : z # x \/ q # y => logs'[z][q] = logs[z][q]
  BY <1>1, <1>3, <1>4, LogsGrow
<1>6. ASSUME NEW u \in Turn, InProgress(u)'
      PROVE  IsLast(u, logs[turns[u].session][turns[u].object])'
  <2>1. CASE u = t
    <3>1. p # "settled"
      BY <1>1, <1>6, <2>1 DEF InProgress
    <3>2. IsLast(t, logs[x][y] \o messages)
      BY <1>2, <3>1, SMTT(40)
    <3>3. logs'[turns'[u].session][turns'[u].object] = logs[x][y] \o messages
      BY <1>1, <1>2, <1>5, <2>1
    <3> QED
      BY <2>1, <3>2, <3>3
  <2>2. CASE u # t
    <3>1. InProgress(u) /\ turns'[u] = turns[u]
      BY <1>1, <1>6, <2>2 DEF InProgress
    <3>2. turns[u].session # x
      BY <1>2, <2>2, <3>1, OneInProgress DEF Goes
    <3>3. turns[u].session \in Session /\ turns[u].object \in Object
      BY <3>1 DEF InProgress, TypeInv, TurnRow
    <3>4. IsLast(u, logs[turns[u].session][turns[u].object])
      BY <3>1 DEF LastInv
    <3>5. logs'[turns'[u].session][turns'[u].object] = logs[turns[u].session][turns[u].object]
      BY <1>5, <3>1, <3>2, <3>3
    <3> QED
      BY <3>4, <3>5
  <2> QED
    BY <2>1, <2>2
<1> QED
  BY <1>5, <1>6 DEF LastInv

\* A turn that goes on and says nothing.
LEMMA TurnIsSilent ==
  ASSUME TypeInv, PlaceInv, QueueInv, LogInv, LastInv, NEW t \in Turn,
         NEW p \in Phase \ {"queued"}, Goes(t, p), p = "settled" \/ InProgress(t),
         UNCHANGED <<logs, file, crashes>>
  PROVE  LogInv' /\ LastInv'
<1>1. /\ \A u \in Turn \ {t} : turns'[u] = turns[u]
      /\ turns'[t] # None /\ turns'[t].phase = p
      /\ turns'[t].session = turns[t].session /\ turns'[t].object = turns[t].object
      /\ \A u \in Turn, x \in Session : HasSpoken(u, x) => HasSpoken(u, x)'
  BY TurnGoes
<1>2. LogInv'
  BY <1>1, LogsStay
<1>3. \A u \in Turn : InProgress(u)' =>
        /\ InProgress(u) /\ turns'[u].session = turns[u].session
        /\ turns'[u].object = turns[u].object
  BY <1>1 DEF InProgress
<1> QED
  BY <1>2, <1>3, LastStays

\* The tasks of routed turns are where they were when another turn goes on.
LEMMA TasksStay ==
  ASSUME TypeInv, PlaceInv, QueueInv, TaskInv, NEW t \in Turn, NEW p \in Phase \ {"queued"},
         Goes(t, p), UNCHANGED <<tasks, resuming, crashes>>, turns[t].phase # "child",
         p = "planning" => turns[t].phase = "queued"
  PROVE  TaskInv'
<1>1. /\ \A u \in Turn \ {t} : turns'[u] = turns[u]
      /\ turns[t] # None /\ turns'[t] # None /\ turns'[t].phase = p
      /\ ~IsSettled(t)
  BY TurnGoes DEF Goes, MayStart, InProgress, IsSettled
<1>2. SUFFICES ASSUME NEW r \in Routed
               PROVE  /\ (turns'[r] = None \/ turns'[r].phase \in {"queued", "planning"}) =>
                           tasks[r] = "none"
                      /\ turns'[Child(r)] # None =>
                           \/ turns'[r] # None /\ turns'[r].phase = "child"
                           \/ resuming = r
                           \/ tasks[r] = "settled"
                      /\ resuming = r => IsSettled(r)' /\ tasks[r] = "working"
  BY DEF TaskInv
<1>3. r \in Turn /\ Child(r) \in Turn /\ Child(r) # r
  BY TurnsAreNumbers
<1>4. turns'[Child(r)] # None => turns[Child(r)] # None
  BY <1>1, <1>3
<1>5. CASE r = t
  BY <1>1, <1>3, <1>4, <1>5 DEF TaskInv
<1>6. CASE r # t
  BY <1>1, <1>3, <1>4, <1>6 DEF TaskInv, IsSettled
<1> QED
  BY <1>5, <1>6

LEMMA StartTurnStep ==
  ASSUME IInv, NEW t \in Turn, StartTurn(t)
  PROVE  IInv'
<1> USE DEF IInv
<1>1. MayStart(t) /\ UNCHANGED <<tasks, file, resuming, imported, crashes>>
  BY DEF StartTurn
<1>2. turns[t] # None /\ turns[t].phase = "queued"
  BY <1>1 DEF MayStart
<1> DEFINE log == logs[turns[t].session][turns[t].object]
<1>3. log \in Seq(Message) /\ IsSeparated(log)
  BY <1>2 DEF TypeInv, TurnRow, LogInv, IsOrderly
<1>4. /\ Said(t, "user") \in Message /\ Said(t, "user").turn = t
      /\ Said(t, "assistant") \in Message /\ Said(t, "assistant").turn = t
  BY DEF Said, Message
<1>5. IsLast(t, log) /\ IsLast(t, log \o <<Said(t, "user")>>)
  BY <1>2, <1>3, <1>4, FirstIsLast, QueuedIsSilent
<1>6. log \o <<Said(t, "user")>> \in Seq(Message) /\ IsSeparated(log \o <<Said(t, "user")>>)
  BY <1>3, <1>4, <1>5, AppendedSeparates, AppendedLog, SMTT(40)
<1>7. IsSeparated(log \o <<Said(t, "user"), Said(t, "assistant")>>)
  <2>1. IsSeparated((log \o <<Said(t, "user")>>) \o <<Said(t, "assistant")>>)
    BY <1>4, <1>5, <1>6, AppendedSeparates
  <2>2. <<Said(t, "user")>> \in Seq(Message) /\ <<Said(t, "assistant")>> \in Seq(Message)
    BY <1>4
  <2>3. (log \o <<Said(t, "user")>>) \o <<Said(t, "assistant")>> =
        log \o (<<Said(t, "user")>> \o <<Said(t, "assistant")>>)
    BY <1>3, <2>2, ConcatAssociative
  <2>4. <<Said(t, "user")>> \o <<Said(t, "assistant")>> = <<Said(t, "user"), Said(t, "assistant")>>
    BY <1>4, TwoMessages
  <2> QED
    BY <2>1, <2>3, <2>4
<1>8. CASE Settle(t) /\ UNCHANGED <<logs, current, dirty>>
  <2>1. Goes(t, "settled") /\ "settled" \in Phase \ {"queued"}
    BY <1>1, <1>8 DEF Goes, Phase
  <2>2. /\ turns' \in [Turn -> TurnRow \cup {None}] /\ tail' \in [Session -> Turn \cup {None}]
        /\ PlaceInv' /\ QueueInv'
    BY <1>1, <2>1, TurnGoes
  <2>3. LogInv' /\ LastInv'
    BY <1>1, <1>8, <2>1, TurnIsSilent
  <2>4. TaskInv'
    BY <1>1, <1>2, <2>1, TasksStay
  <2> QED
    BY <1>1, <1>8, <2>2, <2>3, <2>4 DEF TypeInv
<1>9. CASE Say(t, <<Said(t, "user"), Said(t, "assistant")>>) /\ Settle(t)
  <2> DEFINE messages == <<Said(t, "user"), Said(t, "assistant")>>
  <2>1. Goes(t, "settled") /\ "settled" \in Phase \ {"queued"}
    BY <1>1, <1>9 DEF Goes, Phase
  <2>2. /\ turns' \in [Turn -> TurnRow \cup {None}] /\ tail' \in [Session -> Turn \cup {None}]
        /\ PlaceInv' /\ QueueInv'
    BY <1>1, <2>1, TurnGoes
  <2>3. messages \in Seq(Message) /\ \A i \in DOMAIN messages : messages[i].turn = t
    BY <1>4
  <2>4. /\ LogInv' /\ LastInv'
        /\ logs' \in [Session -> [Object -> Seq(Message)]]
        /\ current' \in [Session -> Object \cup {None}] /\ dirty' \in BOOLEAN
    <3> HIDE DEF messages
    <3> QED
      BY <1>1, <1>7, <1>9, <2>1, <2>3, TurnSays DEF messages
  <2>5. TaskInv'
    BY <1>1, <1>2, <2>1, TasksStay
  <2> QED
    BY <1>1, <2>2, <2>4, <2>5 DEF TypeInv
<1>10. CASE /\ Say(t, <<Said(t, "user")>>)
            /\ Phased(t, IF t \in Routed THEN "planning" ELSE "calling") /\ UNCHANGED tail
  <2>1. PICK p \in {"planning", "calling"} : Phased(t, p)
    BY <1>10
  <2>2. Goes(t, p) /\ p \in Phase \ {"queued"}
    BY <1>1, <1>10, <2>1 DEF Goes, Phase
  <2>3. /\ turns' \in [Turn -> TurnRow \cup {None}] /\ tail' \in [Session -> Turn \cup {None}]
        /\ PlaceInv' /\ QueueInv'
    BY <1>1, <2>2, TurnGoes
  <2>4. /\ <<Said(t, "user")>> \in Seq(Message)
        /\ \A i \in DOMAIN <<Said(t, "user")>> : <<Said(t, "user")>>[i].turn = t
    BY <1>4
  <2>5. /\ LogInv' /\ LastInv'
        /\ logs' \in [Session -> [Object -> Seq(Message)]]
        /\ current' \in [Session -> Object \cup {None}] /\ dirty' \in BOOLEAN
    BY <1>1, <1>5, <1>6, <1>10, <2>2, <2>4, TurnSays
  <2>6. TaskInv'
    BY <1>1, <1>2, <2>2, TasksStay
  <2> QED
    BY <1>1, <2>3, <2>5, <2>6 DEF TypeInv
<1> QED
  BY <1>8, <1>9, <1>10 DEF StartTurn

\* A turn in progress ends with an answer.
LEMMA TurnAnswers ==
  ASSUME TypeInv, PlaceInv, QueueInv, LogInv, LastInv, NEW t \in Turn, InProgress(t),
         Settle(t), Say(t, <<Said(t, "assistant")>>), UNCHANGED <<file, crashes>>
  PROVE  /\ turns' \in [Turn -> TurnRow \cup {None}] /\ tail' \in [Session -> Turn \cup {None}]
         /\ logs' \in [Session -> [Object -> Seq(Message)]]
         /\ current' \in [Session -> Object \cup {None}] /\ dirty' \in BOOLEAN
         /\ PlaceInv' /\ QueueInv' /\ LogInv' /\ LastInv'
<1> DEFINE log == logs[turns[t].session][turns[t].object]
<1>1. log \in Seq(Message) /\ IsSeparated(log) /\ IsLast(t, log)
  BY DEF InProgress, TypeInv, TurnRow, LogInv, IsOrderly, LastInv
<1>2. Said(t, "assistant") \in Message /\ Said(t, "assistant").turn = t
  BY DEF Said, Message
<1>3. IsSeparated(log \o <<Said(t, "assistant")>>)
  BY <1>1, <1>2, AppendedSeparates
<1>4. /\ <<Said(t, "assistant")>> \in Seq(Message)
      /\ \A i \in DOMAIN <<Said(t, "assistant")>> : <<Said(t, "assistant")>>[i].turn = t
  BY <1>2
<1>5. Goes(t, "settled") /\ "settled" \in Phase \ {"queued"}
  BY DEF Goes, Phase
<1>6. /\ turns' \in [Turn -> TurnRow \cup {None}] /\ tail' \in [Session -> Turn \cup {None}]
      /\ PlaceInv' /\ QueueInv'
  BY <1>5, TurnGoes
<1>7. /\ LogInv' /\ LastInv'
      /\ logs' \in [Session -> [Object -> Seq(Message)]]
      /\ current' \in [Session -> Object \cup {None}] /\ dirty' \in BOOLEAN
  BY <1>3, <1>4, <1>5, TurnSays
<1> QED
  BY <1>6, <1>7

LEMMA ProviderReturnsStep ==
  ASSUME IInv, NEW t \in Turn, ProviderReturns(t)
  PROVE  IInv'
<1> USE DEF IInv
<1>1. /\ InProgress(t) /\ turns[t].phase = "calling" /\ Settle(t)
      /\ UNCHANGED <<tasks, file, resuming, imported, crashes>>
  BY DEF ProviderReturns, InProgress
<1>2. Goes(t, "settled") /\ "settled" \in Phase \ {"queued"}
  BY <1>1 DEF Goes, Phase
<1>3. TaskInv'
  BY <1>1, <1>2, TasksStay
<1>4. CASE Say(t, <<Said(t, "assistant")>>)
  BY <1>1, <1>3, <1>4, TurnAnswers DEF TypeInv
<1>5. CASE UNCHANGED <<logs, current, dirty>>
  BY <1>1, <1>2, <1>3, <1>5, TurnGoes, TurnIsSilent DEF TypeInv
<1> QED
  BY <1>4, <1>5 DEF ProviderReturns

LEMMA TaskEndsStep ==
  ASSUME IInv, NEW t \in Routed, TaskEnds(t)
  PROVE  IInv'
<1> USE DEF IInv
<1>1. t \in Turn /\ \A r \in Routed : r \in Turn /\ Child(r) \in Turn
  BY TurnsAreNumbers
<1>2. /\ InProgress(t) /\ turns[t].phase \in {"remote", "child"} /\ Settle(t)
      /\ tasks' = [tasks EXCEPT ![t] = "settled"] /\ Say(t, <<Said(t, "assistant")>>)
      /\ UNCHANGED <<file, resuming, imported, crashes>>
  BY DEF TaskEnds, InProgress
<1>3. /\ \A u \in Turn \ {t} : turns'[u] = turns[u]
      /\ turns'[t] # None /\ turns'[t].phase = "settled" /\ turns[t] # None
  <2>1. Goes(t, "settled") /\ "settled" \in Phase \ {"queued"}
    BY <1>2 DEF Goes, Phase
  <2> QED
    BY <1>1, <1>2, <2>1, TurnGoes
<1>4. resuming # t
  BY <1>2 DEF TaskInv, IsSettled
<1>5. /\ tasks' \in [Routed -> {"none", "working", "settled"}]
      /\ tasks'[t] = "settled" /\ \A r \in Routed \ {t} : tasks'[r] = tasks[r]
  BY <1>2 DEF TypeInv
<1>6. TaskInv'
  <2> SUFFICES ASSUME NEW r \in Routed
               PROVE  /\ (turns'[r] = None \/ turns'[r].phase \in {"queued", "planning"}) =>
                           tasks'[r] = "none"
                      /\ turns'[Child(r)] # None =>
                           \/ turns'[r] # None /\ turns'[r].phase = "child"
                           \/ resuming' = r
                           \/ tasks'[r] = "settled"
                      /\ resuming' = r => IsSettled(r)' /\ tasks'[r] = "working"
    BY DEF TaskInv
  <2>1. turns'[Child(r)] # None => turns[Child(r)] # None
    BY <1>1, <1>3
  <2>2. CASE r = t
    BY <1>2, <1>3, <1>4, <1>5, <2>2
  <2>3. CASE r # t
    BY <1>1, <1>2, <1>3, <1>5, <2>1, <2>3 DEF TaskInv, IsSettled
  <2> QED
    BY <2>2, <2>3
<1> QED
  BY <1>1, <1>2, <1>5, <1>6, TurnAnswers DEF TypeInv

----------------------------------------------------------------------------
(* What queues a turn *)

LEMMA TurnQueued ==
  ASSUME TypeInv, PlaceInv, QueueInv, LastInv,
         NEW t \in Turn, NEW s \in Session, NEW o \in Object,
         turns[t] = None, turns' \in [Turn -> TurnRow \cup {None}], turns'[t] = Queued(s, o),
         tail' = [tail EXCEPT ![s] = t], UNCHANGED <<logs, crashes>>,
         t \in UserTurn => s \in Chats /\ \A u \in UserTurn : u < t => turns[u] # None,
         \A r \in Routed : t = Child(r) => s = ChildSession(r),
         \A u \in Turn \ {t} : KeepsPlace(u)
  PROVE  /\ tail' \in [Session -> Turn \cup {None}]
         /\ PlaceInv' /\ QueueInv' /\ LastInv'
         /\ \A u \in Turn, x \in Session : HasSpoken(u, x) => HasSpoken(u, x)'
<1>1. /\ turns'[t] # None /\ turns'[t].session = s /\ turns'[t].phase = "queued"
  BY RowOfQueued
<1>2. \A u \in Turn \ {t} :
        /\ Pending(u)' <=> Pending(u)
        /\ InProgress(u)' <=> InProgress(u)
  BY DEF KeepsPlace, Pending, InProgress
<1>3. ASSUME NEW u \in Turn, turns[u] # None, turns[u].session = s PROVE u < t
  <2>1. u # t
    BY <1>3
  <2>2. CASE t \in UserTurn
    <3>1. s \in Chats
      BY <2>2
    <3>2. u \in UserTurn
      BY <1>3, <3>1, SessionsDiffer, TurnsAreNumbers DEF PlaceInv
    <3>3. ~(t < u)
      BY <1>3, <2>2, <3>2 DEF PlaceInv
    <3> QED
      BY <2>1, <3>3, TurnsAreNumbers
  <2>3. CASE t \notin UserTurn
    <3>1. PICK r \in Routed : t = Child(r)
      BY <2>3, TurnsAreNumbers
    <3>2. s = ChildSession(r)
      BY <3>1
    <3>3. u \notin UserTurn
      BY <1>3, <3>2, SessionsDiffer DEF PlaceInv
    <3>4. PICK q \in Routed : u = Child(q)
      BY <3>3, TurnsAreNumbers
    <3>5. ChildSession(q) = ChildSession(r)
      BY <1>3, <3>2, <3>4 DEF PlaceInv
    <3>6. q = r
      BY <3>5, SessionsDiffer
    <3> QED
      BY <2>1, <3>1, <3>4, <3>6
  <2> QED
    BY <2>2, <2>3
<1>4. QueueInv' /\ tail' \in [Session -> Turn \cup {None}]
  <2>1. \A u \in Turn : turns[u] # None /\ turns[u].session = s => u < t
    BY <1>3
  <2> QED
    BY ONLY TypeInv, QueueInv, t \in Turn, s \in Session, o \in Object, turns[t] = None,
         turns'[t] = Queued(s, o), tail' = [tail EXCEPT ![s] = t],
         \A u \in Turn \ {t} : KeepsPlace(u), <2>1, QueueWhenQueued
<1>5. PlaceInv'
  <2>1. \A u \in UserTurn : turns'[u] # None => turns'[u].session \in Chats
    BY <1>1, TurnsAreNumbers DEF PlaceInv, KeepsPlace
  <2>2. \A u, v \in UserTurn : v < u /\ turns'[u] # None => turns'[v] # None
    BY <1>1, TurnsAreNumbers DEF PlaceInv, KeepsPlace
  <2>3. ASSUME NEW r \in Routed, turns'[Child(r)] # None
        PROVE  turns'[Child(r)].session = ChildSession(r)
    <3>1. CASE Child(r) = t
      BY <1>1, <3>1
    <3>2. CASE Child(r) # t
      BY <2>3, <3>2, TurnsAreNumbers DEF PlaceInv, KeepsPlace
    <3> QED
      BY <3>1, <3>2
  <2> QED
    BY <2>1, <2>2, <2>3 DEF PlaceInv, ChildSession
<1>6. \A u \in Turn, x \in Session : HasSpoken(u, x) => HasSpoken(u, x)'
  <2>1. \A u \in Turn : turns[u] # None /\ turns[u].phase # "queued" =>
          /\ turns'[u] # None /\ turns'[u].phase # "queued"
          /\ turns'[u].session = turns[u].session
    BY DEF KeepsPlace
  <2> QED
    BY <2>1, SpokenStays
<1>7. LastInv'
  <2>1. ASSUME NEW u \in Turn, InProgress(u)'
        PROVE  /\ InProgress(u) /\ turns'[u].session = turns[u].session
               /\ turns'[u].object = turns[u].object
    <3>1. u # t
      BY <1>1, <2>1 DEF InProgress
    <3>2. InProgress(u) /\ turns[u] # None
      BY <1>2, <2>1, <3>1 DEF InProgress
    <3> QED
      BY <3>1, <3>2 DEF KeepsPlace
  <2> QED
    BY <2>1, LastStays
<1> QED
  BY <1>4, <1>5, <1>6, <1>7

\* The invariants about turns hold on while the turns and what they need stay.
LEMMA RestStays ==
  /\ QueueInv /\ UNCHANGED <<turns, tail>> => QueueInv'
  /\ PlaceInv /\ UNCHANGED <<turns, crashes>> => PlaceInv'
  /\ TaskInv /\ UNCHANGED <<turns, tasks, resuming>> => TaskInv'
  /\ UNCHANGED <<turns, crashes>> =>
       \A t \in Turn, s \in Session : HasSpoken(t, s) => HasSpoken(t, s)'
<1>1. QueueInv /\ UNCHANGED <<turns, tail>> => QueueInv'
  BY DEF QueueInv, Pending, SameSession, IsBehind
<1>2. PlaceInv /\ UNCHANGED <<turns, crashes>> => PlaceInv'
  BY DEF PlaceInv, ChildSession
<1>3. TaskInv /\ UNCHANGED <<turns, tasks, resuming>> => TaskInv'
  BY DEF TaskInv, IsSettled
<1>4. UNCHANGED <<turns, crashes>> =>
        \A t \in Turn, s \in Session : HasSpoken(t, s) => HasSpoken(t, s)'
  BY DEF HasSpoken, IsOld
<1> QED
  BY <1>1, <1>2, <1>3, <1>4

\* The child turn of a task that has none is queued in the session made for it.
LEMMA ChildIsQueued ==
  ASSUME IInv, NEW t \in Routed, turns[Child(t)] = None,
         turns' \in [Turn -> TurnRow \cup {None}],
         LET s == ChildSession(t)
             o == IF Exists(s) THEN current[s] ELSE 0
         IN  /\ turns'[Child(t)] = Queued(s, o)
             /\ tail' = [tail EXCEPT ![s] = Child(t)]
             /\ current' = [current EXCEPT ![s] = o] /\ dirty' = TRUE,
         \A u \in Turn \ {Child(t)} : KeepsPlace(u),
         UNCHANGED <<logs, file, crashes>>
  PROVE  /\ tail' \in [Session -> Turn \cup {None}]
         /\ current' \in [Session -> Object \cup {None}] /\ dirty' \in BOOLEAN
         /\ PlaceInv' /\ QueueInv' /\ LogInv' /\ LastInv'
<1> USE DEF IInv
<1>1. PICK o \in Object : o = IF Exists(ChildSession(t)) THEN current[ChildSession(t)] ELSE 0
  <2>1. ChildSession(t) \in Session
    BY SessionsDiffer
  <2> QED
    BY <2>1, BoundsAssumption DEF Exists, TypeInv, Object
<1>2. PICK s \in Session : s = ChildSession(t)
  BY SessionsDiffer
<1>3. PICK c \in Turn : c = Child(t)
  BY TurnsAreNumbers
<1>4. /\ turns[c] = None /\ turns'[c] = Queued(s, o) /\ tail' = [tail EXCEPT ![s] = c]
      /\ \A u \in Turn \ {c} : KeepsPlace(u)
  BY <1>1, <1>2, <1>3
<1>5. c \notin UserTurn /\ \A r \in Routed : c = Child(r) => s = ChildSession(r)
  BY <1>2, <1>3, TurnsAreNumbers
<1>6. /\ tail' \in [Session -> Turn \cup {None}]
      /\ PlaceInv' /\ QueueInv' /\ LastInv'
      /\ \A u \in Turn, x \in Session : HasSpoken(u, x) => HasSpoken(u, x)'
  BY <1>4, <1>5, TurnQueued
<1>7. LogInv'
  BY <1>6, LogsStay
<1>8. current' \in [Session -> Object \cup {None}] /\ dirty' \in BOOLEAN
  BY <1>1, <1>2 DEF TypeInv
<1> QED
  BY <1>6, <1>7, <1>8

LEMMA PlanEndsStep ==
  ASSUME IInv, NEW t \in Routed, PlanEnds(t)
  PROVE  IInv'
<1> USE DEF IInv
<1>1. /\ t \in Turn /\ Child(t) \in Turn /\ t # Child(t)
      /\ \A r \in Routed : r \in Turn /\ Child(r) \in Turn /\ r # Child(t)
      /\ \A r \in Routed : Child(r) = Child(t) => r = t
      /\ \A r \in Routed : Child(r) # t
  BY TurnsAreNumbers
<1>2. /\ InProgress(t) /\ turns[t] # None /\ turns[t].phase = "planning"
      /\ UNCHANGED <<file, resuming, imported, crashes>>
  BY DEF PlanEnds, InProgress
<1>3. tasks[t] = "none" /\ turns[Child(t)] = None /\ resuming # t
  BY <1>2 DEF TaskInv
<1>4. CASE Say(t, <<Said(t, "assistant")>>) /\ Settle(t) /\ UNCHANGED tasks
  <2>1. Goes(t, "settled") /\ "settled" \in Phase \ {"queued"}
    BY <1>2, <1>4 DEF Goes, Phase
  <2>2. TaskInv'
    BY <1>1, <1>2, <1>4, <2>1, TasksStay
  <2> QED
    BY <1>1, <1>2, <1>4, <2>2, TurnAnswers DEF TypeInv
<1>5. ASSUME tasks' = [tasks EXCEPT ![t] = "working"],
             \A u \in Turn \ {t, Child(t)} : turns'[u] = turns[u],
             turns'[t] # None, turns'[t].phase \in {"remote", "child"},
             turns'[Child(t)] # None => turns'[t].phase = "child"
      PROVE  TaskInv' /\ tasks' \in [Routed -> {"none", "working", "settled"}]
  <2>1. /\ tasks' \in [Routed -> {"none", "working", "settled"}]
        /\ tasks'[t] = "working" /\ \A r \in Routed \ {t} : tasks'[r] = tasks[r]
    BY <1>5 DEF TypeInv
  <2>2. ASSUME NEW r \in Routed
        PROVE  /\ (turns'[r] = None \/ turns'[r].phase \in {"queued", "planning"}) =>
                    tasks'[r] = "none"
               /\ turns'[Child(r)] # None =>
                    \/ turns'[r] # None /\ turns'[r].phase = "child"
                    \/ resuming' = r
                    \/ tasks'[r] = "settled"
               /\ resuming' = r => IsSettled(r)' /\ tasks'[r] = "working"
    <3>1. CASE r = t
      BY <1>2, <1>3, <1>5, <3>1
    <3>2. CASE r # t
      <4>1. turns'[r] = turns[r] /\ turns'[Child(r)] = turns[Child(r)] /\ tasks'[r] = tasks[r]
        BY <1>1, <1>5, <2>1, <3>2
      <4> QED
        BY <1>2, <4>1 DEF TaskInv, IsSettled
    <3> QED
      BY <3>1, <3>2
  <2> QED
    BY <2>1, <2>2 DEF TaskInv
<1>6. CASE /\ tasks' = [tasks EXCEPT ![t] = "working"]
           /\ Phased(t, "remote") /\ UNCHANGED <<tail, logs, current, dirty>>
  <2>1. Goes(t, "remote") /\ "remote" \in Phase \ {"queued"}
    BY <1>2, <1>6 DEF Goes, Phase
  <2>2. /\ turns' \in [Turn -> TurnRow \cup {None}] /\ tail' \in [Session -> Turn \cup {None}]
        /\ PlaceInv' /\ QueueInv'
        /\ \A u \in Turn \ {t} : turns'[u] = turns[u]
        /\ turns'[t] # None /\ turns'[t].phase = "remote"
    BY <1>1, <1>2, <2>1, TurnGoes
  <2>3. LogInv' /\ LastInv'
    BY <1>1, <1>2, <1>6, <2>1, TurnIsSilent
  <2>4. TaskInv' /\ tasks' \in [Routed -> {"none", "working", "settled"}]
    BY <1>1, <1>3, <1>5, <1>6, <2>2
  <2> QED
    BY <1>2, <1>6, <2>2, <2>3, <2>4 DEF TypeInv
<1>7. CASE /\ tasks' = [tasks EXCEPT ![t] = "working"]
           /\ StartChild(t, [turns EXCEPT ![t].phase = "child"]) /\ UNCHANGED logs
  <2> DEFINE s == ChildSession(t)
             o == IF Exists(s) THEN current[s] ELSE 0
             row == [turns[t] EXCEPT !.phase = "child"]
  <2>1. s \in Session /\ o \in Object
    BY SessionsDiffer, BoundsAssumption DEF Exists, TypeInv, Object
  <2>2. Queued(s, o) \in TurnRow /\ Queued(s, o) # None
    BY <2>1, RowOfQueued
  <2>3. /\ row \in TurnRow /\ row # None /\ row.phase = "child"
        /\ row.session = turns[t].session /\ row.object = turns[t].object
        /\ row.after = turns[t].after
    BY <1>1, <1>2, KindsAssumption, ZenonT(60) DEF TypeInv, TurnRow, Phase
  <2>4. /\ turns' = [[turns EXCEPT ![t] = row] EXCEPT ![Child(t)] = Queued(s, o)]
        /\ tail' = [tail EXCEPT ![s] = Child(t)]
        /\ current' = [current EXCEPT ![s] = o] /\ dirty' = TRUE
    BY <1>7 DEF StartChild
  <2> HIDE DEF s, o, row
  <2>5. /\ turns' \in [Turn -> TurnRow \cup {None}]
        /\ turns'[Child(t)] = Queued(s, o) /\ turns'[t] = row
        /\ \A u \in Turn \ {t, Child(t)} : turns'[u] = turns[u]
    BY <1>1, <2>2, <2>3, <2>4 DEF TypeInv
  <2>6. KeepsPlace(t)
    BY <1>2, <2>3, <2>5 DEF KeepsPlace
  <2>7. \A u \in Turn \ {Child(t)} : KeepsPlace(u)
    BY <2>5, <2>6 DEF KeepsPlace
  <2>8. /\ tail' \in [Session -> Turn \cup {None}]
        /\ current' \in [Session -> Object \cup {None}] /\ dirty' \in BOOLEAN
        /\ PlaceInv' /\ QueueInv' /\ LogInv' /\ LastInv'
    BY <1>2, <1>3, <1>7, <2>4, <2>5, <2>7, ChildIsQueued DEF s, o
  <2>9. TaskInv' /\ tasks' \in [Routed -> {"none", "working", "settled"}]
    BY <1>5, <1>7, <2>3, <2>5
  <2> QED
    BY <1>2, <1>7, <2>5, <2>8, <2>9 DEF TypeInv
<1> QED
  BY <1>4, <1>6, <1>7 DEF PlanEnds

LEMMA ResumeTaskStep ==
  ASSUME IInv, NEW t \in Routed, ResumeTask(t)
  PROVE  IInv'
<1> USE DEF IInv
<1>1. /\ t \in Turn /\ Child(t) \in Turn
      /\ \A r \in Routed : r \in Turn /\ Child(r) \in Turn /\ r # Child(t)
      /\ \A r \in Routed : Child(r) = Child(t) => r = t
  BY TurnsAreNumbers
<1>2. /\ resuming = None /\ tasks[t] = "working" /\ IsSettled(t) /\ resuming' = t
      /\ UNCHANGED <<logs, tasks, file, imported, crashes>>
  BY DEF ResumeTask, IsInterrupted
<1>3. turns[Child(t)] = None
  BY <1>2, KindsAssumption, TurnsAreNumbers DEF TaskInv, IsSettled
<1>4. ASSUME \A u \in Turn \ {Child(t)} : turns'[u] = turns[u]
      PROVE  TaskInv'
  <2>1. ASSUME NEW r \in Routed
        PROVE  /\ (turns'[r] = None \/ turns'[r].phase \in {"queued", "planning"}) =>
                    tasks'[r] = "none"
               /\ turns'[Child(r)] # None =>
                    \/ turns'[r] # None /\ turns'[r].phase = "child"
                    \/ resuming' = r
                    \/ tasks'[r] = "settled"
               /\ resuming' = r => IsSettled(r)' /\ tasks'[r] = "working"
    <3>1. turns'[r] = turns[r]
      BY <1>1, <1>4
    <3>2. r # t => turns'[Child(r)] = turns[Child(r)] /\ resuming # r
      BY <1>1, <1>2, <1>4, KindsAssumption
    <3> QED
      BY <1>2, <3>1, <3>2 DEF TaskInv, IsSettled
  <2> QED
    BY <2>1 DEF TaskInv
<1>5. CASE UNCHANGED <<turns, tail, current, dirty>>
  <2>1. PlaceInv' /\ QueueInv' /\ TaskInv'
    BY <1>2, <1>4, <1>5, RestStays
  <2>2. LogInv'
    BY <1>2, <1>5, RestStays, LogsStay
  <2>3. LastInv'
    BY <1>2, <1>5, LastStays DEF InProgress
  <2> QED
    BY <1>2, <1>5, <2>1, <2>2, <2>3 DEF TypeInv
<1>6. CASE StartChild(t, turns)
  <2> DEFINE s == ChildSession(t)
             o == IF Exists(s) THEN current[s] ELSE 0
  <2>1. s \in Session /\ o \in Object
    BY SessionsDiffer, BoundsAssumption DEF Exists, TypeInv, Object
  <2>2. Queued(s, o) \in TurnRow /\ Queued(s, o) # None
    BY <2>1, RowOfQueued
  <2>3. /\ turns' = [turns EXCEPT ![Child(t)] = Queued(s, o)]
        /\ tail' = [tail EXCEPT ![s] = Child(t)]
        /\ current' = [current EXCEPT ![s] = o] /\ dirty' = TRUE
    BY <1>6 DEF StartChild
  <2> HIDE DEF s, o
  <2>4. /\ turns' \in [Turn -> TurnRow \cup {None}]
        /\ turns'[Child(t)] = Queued(s, o)
        /\ \A u \in Turn \ {Child(t)} : turns'[u] = turns[u]
    BY <1>1, <2>2, <2>3 DEF TypeInv
  <2>5. \A u \in Turn \ {Child(t)} : KeepsPlace(u)
    BY <2>4 DEF KeepsPlace
  <2>6. /\ tail' \in [Session -> Turn \cup {None}]
        /\ current' \in [Session -> Object \cup {None}] /\ dirty' \in BOOLEAN
        /\ PlaceInv' /\ QueueInv' /\ LogInv' /\ LastInv'
    BY <1>2, <1>3, <2>3, <2>4, <2>5, ChildIsQueued DEF s, o
  <2>7. TaskInv'
    BY <1>4, <2>4
  <2> QED
    BY <1>2, <2>4, <2>6, <2>7 DEF TypeInv
<1> QED
  BY <1>5, <1>6 DEF ResumeTask

LEMMA RequestTurnStep ==
  ASSUME IInv, NEW t \in UserTurn, NEW s \in Chats, RequestTurn(t, s)
  PROVE  IInv'
<1> USE DEF IInv
<1>1. /\ t \in Turn /\ s \in Session
      /\ \A r \in Routed : r \in Turn /\ Child(r) \in Turn /\ Child(r) # t
  BY TurnsAreNumbers, SessionsDiffer
<1> DEFINE o == IF Exists(s) THEN current[s] ELSE 0
<1>2. o \in Object
  BY <1>1, BoundsAssumption DEF Exists, TypeInv, Object
<1>3. Queued(s, o) \in TurnRow /\ Queued(s, o) # None /\ Queued(s, o).phase = "queued"
  BY <1>1, <1>2, RowOfQueued
<1>4. /\ turns[t] = None /\ \A u \in UserTurn : u < t => turns[u] # None
      /\ turns' = [turns EXCEPT ![t] = Queued(s, o)] /\ tail' = [tail EXCEPT ![s] = t]
      /\ UNCHANGED <<logs, tasks, file, resuming, imported, crashes>>
  BY DEF RequestTurn
<1>5. current' \in [Session -> Object \cup {None}] /\ dirty' \in BOOLEAN
  <2>1. CASE Exists(s)
    BY <2>1 DEF RequestTurn, TypeInv
  <2>2. CASE ~Exists(s)
    BY <2>2, ObjectZero DEF RequestTurn, Create, TypeInv
  <2> QED
    BY <2>1, <2>2
<1> HIDE DEF o
<1>6. /\ turns' \in [Turn -> TurnRow \cup {None}]
      /\ turns'[t] = Queued(s, o) /\ \A u \in Turn \ {t} : turns'[u] = turns[u]
  BY <1>1, <1>3, <1>4 DEF TypeInv
<1>7. \A u \in Turn \ {t} : KeepsPlace(u)
  BY <1>6 DEF KeepsPlace
<1>8. \A r \in Routed : t = Child(r) => s = ChildSession(r)
  BY <1>1
<1>9. /\ tail' \in [Session -> Turn \cup {None}]
      /\ PlaceInv' /\ QueueInv' /\ LastInv'
      /\ \A u \in Turn, x \in Session : HasSpoken(u, x) => HasSpoken(u, x)'
  BY <1>1, <1>2, <1>4, <1>6, <1>7, <1>8, TurnQueued
<1>10. LogInv'
  BY <1>4, <1>9, LogsStay
<1>11. TaskInv'
  <2>1. ASSUME NEW r \in Routed
        PROVE  /\ (turns'[r] = None \/ turns'[r].phase \in {"queued", "planning"}) =>
                    tasks'[r] = "none"
               /\ turns'[Child(r)] # None =>
                    \/ turns'[r] # None /\ turns'[r].phase = "child"
                    \/ resuming' = r
                    \/ tasks'[r] = "settled"
               /\ resuming' = r => IsSettled(r)' /\ tasks'[r] = "working"
    <3>1. turns'[Child(r)] = turns[Child(r)]
      BY <1>1, <1>6
    <3>2. CASE r = t
      BY <1>4, <3>1, <3>2 DEF TaskInv, IsSettled
    <3>3. CASE r # t
      <4>1. turns'[r] = turns[r]
        BY <1>1, <1>6, <3>3
      <4> QED
        BY <1>4, <3>1, <4>1 DEF TaskInv, IsSettled
    <3> QED
      BY <3>2, <3>3
  <2> QED
    BY <2>1 DEF TaskInv
<1> QED
  BY <1>4, <1>5, <1>6, <1>9, <1>10, <1>11 DEF TypeInv

----------------------------------------------------------------------------
(* Sessions, resumed tasks, saves and crashes *)

LEMMA CreateSessionStep ==
  ASSUME IInv, NEW s \in Chats, CreateSession(s)
  PROVE  IInv'
<1> USE DEF IInv
<1>1. UNCHANGED <<turns, tail, logs, tasks, file, resuming, imported, crashes>>
  BY DEF CreateSession
<1>2. PlaceInv' /\ TaskInv' /\ QueueInv' /\ LogInv'
  BY <1>1, RestStays, LogsStay
<1>3. LastInv'
  BY <1>1, LastStays DEF InProgress
<1>4. current' \in [Session -> Object \cup {None}] /\ dirty' \in BOOLEAN
  BY ObjectZero DEF CreateSession, Create, TypeInv
<1> QED
  BY <1>1, <1>2, <1>3, <1>4 DEF TypeInv

LEMMA ImportHistoryStep ==
  ASSUME IInv, NEW s \in Chats, ImportHistory(s)
  PROVE  IInv'
<1> USE DEF IInv
<1> DEFINE m == [turn |-> None, role |-> "history", late |-> FALSE]
<1>1. s \in Session
  BY SessionsDiffer
<1>2. PICK o \in Object : logs[s][o] = <<>> /\ AppendMessage(s, o, <<m>>)
  <2> DEFINE o == IF Exists(s) THEN current[s] + 1 ELSE 0
  <2>1. o \in Object /\ \A p \in Object : p >= o => logs[s][p] = <<>>
    BY DEF ImportHistory
  <2>2. o >= o
    BY <2>1 DEF Object
  <2> QED
    BY <2>1, <2>2 DEF ImportHistory
<1>3. UNCHANGED <<turns, tail, tasks, file, resuming, crashes>>
  BY DEF ImportHistory
<1>4. m \in Message /\ <<m>> \in Seq(Message) /\ m.turn = None
  BY DEF Message
<1> HIDE DEF m
<1>5. PICK log \in Seq(Message) : log = logs[s][o] /\ log = <<>> /\ IsSeparated(log)
  BY <1>1, <1>2 DEF TypeInv, LogInv, IsOrderly
<1>6. IsSeparated(logs[s][o] \o <<m>>)
  BY <1>4, <1>5, AppendedSeparates
<1>7. /\ PlaceInv' /\ TaskInv' /\ QueueInv'
      /\ \A t \in Turn, x \in Session : HasSpoken(t, x) => HasSpoken(t, x)'
  BY <1>3, RestStays
<1>8. \A i \in DOMAIN <<m>> : <<m>>[i].turn # None => HasSpoken(<<m>>[i].turn, s)'
  BY <1>4
<1>9. /\ LogInv' /\ logs' \in [Session -> [Object -> Seq(Message)]]
      /\ current' \in [Session -> Object \cup {None}] /\ dirty' \in BOOLEAN
      /\ logs'[s][o] = logs[s][o] \o <<m>>
      /\ \A x \in Session, p \in Object : x # s \/ p # o => logs'[x][p] = logs[x][p]
  <2>1. AppendMessage(s, o, <<m>>) /\ UNCHANGED file
    BY <1>2, <1>3
  <2> QED
    BY <1>1, <1>4, <1>6, <1>7, <1>8, <2>1, LogsGrow
<1>10. ASSUME NEW t \in Turn, InProgress(t)'
       PROVE  IsLast(t, logs[turns[t].session][turns[t].object])'
  <2>1. InProgress(t) /\ turns' = turns /\ turns[t].session \in Session /\ turns[t].object \in Object
    BY <1>3, <1>10 DEF InProgress, TypeInv, TurnRow
  <2>2. CASE turns[t].session = s /\ turns[t].object = o
    <3>1. \A i \in DOMAIN log : log[i].turn # t
      BY <1>5
    <3>2. m.turn # t
      BY <1>4, KindsAssumption
    <3>3. Len(log) = 0 /\ DOMAIN (log \o <<m>>) = 1..1
      BY <1>4, <1>5, AppendedLog
    <3>4. IsLast(t, log \o <<m>>)
      BY <3>3 DEF IsLast
    <3> QED
      BY <1>5, <1>9, <2>1, <2>2, <3>4
  <2>3. CASE turns[t].session # s \/ turns[t].object # o
    <3>1. IsLast(t, logs[turns[t].session][turns[t].object])
      BY <2>1 DEF LastInv
    <3>2. logs'[turns'[t].session][turns'[t].object] = logs[turns[t].session][turns[t].object]
      BY <1>9, <2>1, <2>3
    <3> QED
      BY <3>1, <3>2
  <2> QED
    BY <2>2, <2>3
<1> QED
  BY <1>3, <1>7, <1>9, <1>10 DEF TypeInv, LastInv

LEMMA ResumedTaskEndsStep ==
  ASSUME IInv, ResumedTaskEnds
  PROVE  IInv'
<1> USE DEF IInv
<1>1. PICK t \in Routed : t = resuming
  BY DEF ResumedTaskEnds, TypeInv
<1>2. /\ t \in Turn /\ t \in UserTurn
      /\ IsSettled(t) /\ turns[t] # None /\ turns[t].phase = "settled"
      /\ turns[t].session \in Session
  BY <1>1, TurnsAreNumbers DEF TaskInv, IsSettled, TypeInv, TurnRow
<1> DEFINE m == [turn |-> t, role |-> "assistant", late |-> TRUE]
<1>3. /\ resuming' = None /\ tasks' = [tasks EXCEPT ![t] = "settled"]
      /\ UNCHANGED <<turns, tail, file, imported, crashes>>
      /\ \/ /\ Exists(turns[t].session)
            /\ AppendMessage(turns[t].session, current[turns[t].session], <<m>>)
         \/ UNCHANGED <<logs, current, dirty>>
  BY <1>1 DEF ResumedTaskEnds
<1>4. m \in Message /\ <<m>> \in Seq(Message) /\ m.turn = t /\ m.late
  BY <1>2 DEF Message
<1> HIDE DEF m
<1>5. /\ tasks' \in [Routed -> {"none", "working", "settled"}]
      /\ tasks'[t] = "settled" /\ \A r \in Routed \ {t} : tasks'[r] = tasks[r]
  BY <1>3 DEF TypeInv
<1>6. TaskInv'
  <2>1. \A r \in Routed : resuming' # r
    BY <1>3, KindsAssumption, TurnsAreNumbers
  <2>2. ASSUME NEW r \in Routed
        PROVE  /\ (turns[r] = None \/ turns[r].phase \in {"queued", "planning"}) =>
                    tasks'[r] = "none"
               /\ turns[Child(r)] # None =>
                    \/ turns[r] # None /\ turns[r].phase = "child"
                    \/ tasks'[r] = "settled"
    <3>1. CASE r = t
      BY <1>2, <1>5, <3>1
    <3>2. CASE r # t
      BY <1>1, <1>5, <3>2 DEF TaskInv
    <3> QED
      BY <3>1, <3>2
  <2> QED
    BY <1>3, <2>1, <2>2 DEF TaskInv
<1>7. /\ PlaceInv' /\ QueueInv'
      /\ \A u \in Turn, x \in Session : HasSpoken(u, x) => HasSpoken(u, x)'
  BY <1>3, RestStays
<1>8. CASE UNCHANGED <<logs, current, dirty>>
  <2>1. LogInv' /\ LastInv'
    BY <1>3, <1>7, <1>8, LogsStay, LastStays DEF InProgress
  <2> QED
    BY <1>3, <1>5, <1>6, <1>7, <1>8, <2>1 DEF TypeInv
<1>9. CASE /\ Exists(turns[t].session)
           /\ AppendMessage(turns[t].session, current[turns[t].session], <<m>>)
  <2>1. PICK s \in Session, o \in Object :
          /\ s = turns[t].session
          /\ o = current[turns[t].session] /\ AppendMessage(s, o, <<m>>)
    BY <1>2, <1>9 DEF Exists, TypeInv
  <2>2. PICK log \in Seq(Message) : log = logs[s][o] /\ IsSeparated(log)
    BY <2>1 DEF TypeInv, LogInv, IsOrderly
  <2>3. IsSeparated(log \o <<m>>)
    BY <1>4, <2>2, AppendedSeparates
  <2>4. HasSpoken(t, s)'
    BY <1>2, <1>3 DEF HasSpoken
  <2>5. \A i \in DOMAIN <<m>> : <<m>>[i].turn # None => HasSpoken(<<m>>[i].turn, s)'
    BY <1>4, <2>4
  <2>6. /\ LogInv' /\ logs' \in [Session -> [Object -> Seq(Message)]]
        /\ current' \in [Session -> Object \cup {None}] /\ dirty' \in BOOLEAN
        /\ logs'[s][o] = log \o <<m>>
        /\ \A x \in Session, p \in Object : x # s \/ p # o => logs'[x][p] = logs[x][p]
    BY <1>3, <1>4, <1>7, <2>1, <2>2, <2>3, <2>5, LogsGrow, ZenonT(60)
  <2>7. ASSUME NEW u \in Turn, InProgress(u)'
        PROVE  IsLast(u, logs[turns[u].session][turns[u].object])'
    <3>1. InProgress(u) /\ turns' = turns /\ turns[u].session \in Session /\ turns[u].object \in Object
      BY <1>3, <2>7 DEF InProgress, TypeInv, TurnRow
    <3>2. IsLast(u, logs[turns[u].session][turns[u].object])
      BY <3>1 DEF LastInv
    <3>3. CASE turns[u].session = s /\ turns[u].object = o
      <4>1. IsLast(u, log \o <<m>>)
        BY <1>4, <2>2, <3>2, <3>3, AppendedIsLast
      <4> QED
        BY <2>6, <3>1, <3>3, <4>1
    <3>4. CASE turns[u].session # s \/ turns[u].object # o
      BY <2>6, <3>1, <3>2, <3>4
    <3> QED
      BY <3>3, <3>4
  <2> QED
    BY <1>3, <1>5, <1>6, <1>7, <2>6, <2>7 DEF TypeInv, LastInv
<1> QED
  BY <1>3, <1>8, <1>9

LEMMA SaveStep ==
  ASSUME IInv, Save \/ SaveFails
  PROVE  IInv'
<1> USE DEF IInv
<1>1. /\ dirty' = FALSE
      /\ UNCHANGED <<turns, tail, logs, current, tasks, resuming, imported, crashes>>
  BY DEF Save, SaveFails
<1>2. /\ PlaceInv' /\ TaskInv' /\ QueueInv'
      /\ \A t \in Turn, x \in Session : HasSpoken(t, x) => HasSpoken(t, x)'
  BY <1>1, RestStays
<1>3. LastInv'
  BY <1>1, LastStays DEF InProgress
<1>4. CASE UNCHANGED file
  BY <1>1, <1>2, <1>3, <1>4, LogsStay DEF TypeInv
<1>5. CASE file' = Memory
  <2>1. ASSUME NEW s \in Session, NEW log \in Seq(Message), IsOrderly(s, log)
        PROVE  IsOrderly(s, log)'
    <3>1. \A i \in DOMAIN log : log[i].turn \in Turn \cup {None}
      BY TurnsOfLog
    <3> QED
      BY <1>2, <2>1, <3>1 DEF IsOrderly
  <2>2. \A s \in Session :
          file'[s] = None \/ \E o \in Object : file'[s] = logs[s][o]
    BY <1>5 DEF Memory, Exists, TypeInv
  <2>3. file' \in [Session -> Seq(Message) \cup {None}]
    <3>1. \A s \in Session : file'[s] \in Seq(Message) \cup {None}
      BY <2>2 DEF TypeInv
    <3>2. file' = [s \in Session |-> file'[s]]
      BY <1>5 DEF Memory
    <3> QED
      BY <3>1, <3>2
  <2>4. \A s \in Session, o \in Object :
          logs[s][o] \in Seq(Message) /\ IsOrderly(s, logs[s][o])
    BY DEF TypeInv, LogInv
  <2>5. ASSUME NEW s \in Session
        PROVE  /\ \A o \in Object : IsOrderly(s, logs[s][o])'
               /\ file'[s] # None => IsOrderly(s, file[s])'
    <3>1. \A o \in Object : IsOrderly(s, logs[s][o])'
      BY <1>1, <2>1, <2>4
    <3>2. ASSUME file'[s] # None PROVE IsOrderly(s, file[s])'
      <4>1. PICK o \in Object : file'[s] = logs[s][o]
        BY <2>2, <3>2
      <4> QED
        BY <2>1, <2>4, <4>1
    <3> QED
      BY <3>1, <3>2
  <2>6. LogInv'
    BY <2>5 DEF LogInv
  <2> QED
    BY <1>1, <1>2, <1>3, <2>3, <2>6 DEF TypeInv
<1> QED
  BY <1>4, <1>5 DEF Save, SaveFails

LEMMA CrashStep ==
  ASSUME IInv, Crash
  PROVE  IInv'
<1> USE DEF IInv
<1>1. crashes \in Nat /\ crashes' = crashes + 1 /\ crashes' \in 0..MaxCrashes
  <2>1. crashes \in 0..MaxCrashes
    BY DEF TypeInv
  <2>2. crashes < MaxCrashes /\ crashes' = crashes + 1
    BY DEF Crash
  <2> QED
    BY <2>1, <2>2, BoundsAssumption
<1>2. /\ tail' = [s \in Session |-> None] /\ resuming' = None /\ dirty' = FALSE
      /\ current' = [s \in Session |-> IF file[s] # None THEN 0 ELSE None]
      /\ UNCHANGED <<tasks, file>>
  BY DEF Crash
<1>3. ASSUME NEW t \in Turn
      PROVE  /\ turns[t] = None \/ t \notin UserTurn => turns'[t] = None
             /\ turns[t] # None /\ t \in UserTurn =>
                  /\ turns'[t] \in TurnRow /\ turns'[t] # None
                  /\ turns'[t].phase = "settled"
                  /\ turns'[t].session = turns[t].session
  <2>1. CASE turns[t] = None \/ t \notin UserTurn
    BY <2>1 DEF Crash
  <2>2. CASE turns[t] # None /\ t \in UserTurn
    <3>1. turns'[t] = [turns[t] EXCEPT !.phase = "settled", !.object = 0]
      BY <2>2 DEF Crash
    <3>2. turns[t] \in TurnRow
      BY <2>2 DEF TypeInv
    <3> QED
      BY <2>2, <3>1, <3>2, ObjectZero, KindsAssumption, ZenonT(60) DEF TurnRow, Phase
  <2> QED
    BY <2>1, <2>2
<1>4. turns' \in [Turn -> TurnRow \cup {None}]
  <2>1. turns' = [t \in Turn |-> turns'[t]]
    BY DEF Crash
  <2> QED
    BY <1>3, <2>1
<1>5. logs' \in [Session -> [Object -> Seq(Message)]]
  <2>1. \A s \in Session : file[s] # None => file[s] \in Seq(Message)
    BY DEF TypeInv
  <2>2. \A s \in Session, o \in Object :
          (IF o = 0 /\ file[s] # None THEN file[s] ELSE <<>>) \in Seq(Message)
    BY <2>1
  <2>3. logs' = [s \in Session |->
          [o \in Object |-> IF o = 0 /\ file[s] # None THEN file[s] ELSE <<>>]]
    BY DEF Crash
  <2> QED
    BY <2>2, <2>3
<1>6. TypeInv'
  BY <1>1, <1>2, <1>4, <1>5, ObjectZero DEF TypeInv
<1>7. \A t \in Turn : ~Pending(t)' /\ ~InProgress(t)'
  BY <1>3 DEF Pending, InProgress
<1>8. PlaceInv'
  <2>1. \A t \in UserTurn : turns'[t] # None => turns'[t].session \in Chats
    BY <1>3, TurnsAreNumbers DEF PlaceInv
  <2>2. \A t, u \in UserTurn : u < t /\ turns'[t] # None => turns'[u] # None
    BY <1>3, TurnsAreNumbers DEF PlaceInv
  <2>3. \A t \in Routed : turns'[Child(t)] = None
    BY <1>3, TurnsAreNumbers
  <2> QED
    BY <2>1, <2>2, <2>3 DEF PlaceInv, ChildSession
<1>9. TaskInv'
  <2>1. \A r \in Routed : resuming' # r /\ turns'[Child(r)] = None /\ r \in Turn /\ r \in UserTurn
    BY <1>2, <1>3, KindsAssumption, TurnsAreNumbers
  <2>2. \A r \in Routed :
          (turns'[r] = None \/ turns'[r].phase \in {"queued", "planning"}) => turns[r] = None
    BY <1>3, <2>1
  <2> QED
    BY <1>2, <2>1, <2>2 DEF TaskInv
<1>10. QueueInv'
  BY <1>2, <1>7 DEF QueueInv, Pending
<1>11. ASSUME NEW t \in Turn, NEW s \in Session, HasSpoken(t, s)
       PROVE  HasSpoken(t, s)'
  <2>1. CASE t \in UserTurn
    BY <1>3, <1>11, <2>1 DEF HasSpoken
  <2>2. CASE t \notin UserTurn
    <3>1. IsOld(s)'
      <4>1. CASE IsOld(s)
        BY <1>1, <4>1 DEF IsOld
      <4>2. CASE turns[t] # None /\ turns[t].session = s
        <5>1. PICK r \in Routed : t = Child(r)
          BY <2>2, TurnsAreNumbers
        <5>2. s = <<r, crashes>>
          BY <4>2, <5>1 DEF PlaceInv, ChildSession
        <5> QED
          BY <1>1, <5>2 DEF IsOld, TypeInv
      <4> QED
        BY <1>11, <2>2, <4>1, <4>2 DEF HasSpoken
    <3> QED
      BY <2>2, <3>1 DEF HasSpoken
  <2> QED
    BY <2>1, <2>2
<1>12. ASSUME NEW s \in Session, NEW log \in Seq(Message), IsOrderly(s, log)
       PROVE  IsOrderly(s, log)'
  <2>1. \A i \in DOMAIN log : log[i].turn \in Turn \cup {None}
    BY TurnsOfLog
  <2> QED
    BY <1>11, <1>12, <2>1 DEF IsOrderly
<1>13. LogInv'
  <2>1. ASSUME NEW s \in Session, file[s] # None PROVE IsOrderly(s, file[s])'
    <3>1. PICK log \in Seq(Message) : log = file[s] /\ IsOrderly(s, log)
      BY <2>1 DEF TypeInv, LogInv
    <3> QED
      BY <1>2, <1>12, <3>1
  <2>2. ASSUME NEW s \in Session, NEW o \in Object PROVE IsOrderly(s, logs[s][o])'
    <3>1. logs'[s][o] = <<>> \/ (file[s] # None /\ logs'[s][o] = file[s])
      BY DEF Crash
    <3>2. CASE logs'[s][o] = <<>>
      BY <3>2 DEF IsOrderly, IsSeparated
    <3>3. CASE file[s] # None /\ logs'[s][o] = file[s]
      <4>1. IsOrderly(s, file[s])'
        BY <2>1, <3>3
      <4> QED
        BY <1>2, <3>3, <4>1
    <3> QED
      BY <3>1, <3>2, <3>3
  <2> QED
    BY <1>2, <2>1, <2>2 DEF LogInv
<1>14. LastInv'
  BY <1>7 DEF LastInv
<1> QED
  BY <1>6, <1>8, <1>9, <1>10, <1>13, <1>14

----------------------------------------------------------------------------
(* The theorems *)

LEMMA InitIInv == Init => IInv
<1> SUFFICES ASSUME Init PROVE IInv
  OBVIOUS
<1>1. TypeInv
  <2>1. 0 \in 0..MaxCrashes
    BY BoundsAssumption
  <2>2. <<>> \in Seq(Message)
    OBVIOUS
  <2>3. logs \in [Session -> [Object -> Seq(Message)]]
    BY <2>2 DEF Init
  <2> QED
    BY <2>1, <2>3 DEF Init, TypeInv
<1>2. \A t \in Turn : turns[t] = None
  BY DEF Init
<1>3. PlaceInv
  BY <1>2, TurnsAreNumbers DEF PlaceInv
<1>4. TaskInv
  BY <1>2, KindsAssumption, TurnsAreNumbers DEF Init, TaskInv
<1>5. QueueInv
  BY <1>2 DEF Init, QueueInv, Pending
<1>6. LogInv
  BY DEF Init, LogInv, IsOrderly, IsSeparated
<1>7. LastInv
  BY <1>2 DEF LastInv, InProgress
<1> QED
  BY <1>1, <1>3, <1>4, <1>5, <1>6, <1>7 DEF IInv

LEMMA NextIInv == IInv /\ [Next]_vars => IInv'
<1> SUFFICES ASSUME IInv, [Next]_vars PROVE IInv'
  OBVIOUS
<1>1. ASSUME Save \/ SaveFails PROVE IInv'
  BY <1>1, SaveStep
<1>2. ASSUME Crash PROVE IInv'
  BY <1>2, CrashStep
<1>3. ASSUME ResumedTaskEnds PROVE IInv'
  BY <1>3, ResumedTaskEndsStep
<1>4. ASSUME NEW s \in Chats, CreateSession(s) \/ ImportHistory(s) PROVE IInv'
  BY <1>4, CreateSessionStep, ImportHistoryStep
<1>5. ASSUME NEW t \in UserTurn, NEW s \in Chats, RequestTurn(t, s) PROVE IInv'
  BY <1>5, RequestTurnStep
<1>6. ASSUME NEW t \in Turn, StartTurn(t) \/ ProviderReturns(t) PROVE IInv'
  BY <1>6, StartTurnStep, ProviderReturnsStep
<1>7. ASSUME NEW t \in Routed, PlanEnds(t) \/ TaskEnds(t) \/ ResumeTask(t) PROVE IInv'
  BY <1>7, PlanEndsStep, TaskEndsStep, ResumeTaskStep
<1>8. CASE UNCHANGED vars
  <2>1. UNCHANGED <<turns, tail, logs, current, tasks, file, dirty, resuming, crashes>>
    BY <1>8 DEF vars
  <2>2. PlaceInv' /\ TaskInv' /\ QueueInv' /\ LogInv'
    BY <2>1, RestStays, LogsStay DEF IInv
  <2>3. LastInv'
    BY <2>1, LastStays DEF InProgress, IInv
  <2> QED
    BY <2>1, <2>2, <2>3 DEF IInv, TypeInv
<1> QED
  BY <1>1, <1>2, <1>3, <1>4, <1>5, <1>6, <1>7, <1>8 DEF Next

\* The inductive invariant holds in every state.
THEOREM Invariance == Spec => []IInv
<1>1. Init => IInv
  BY InitIInv
<1>2. IInv /\ [Next]_vars => IInv'
  BY NextIInv
<1> QED
  BY <1>1, <1>2, PTL DEF Spec

\* Rows, logs and tasks have their types, and chatTurnQueues holds entries of
\* turns that are not over, in the session of their turns.
THEOREM TypeCorrect == Spec => []TypeOK
<1>1. IInv => TypeOK
  <2> SUFFICES ASSUME IInv PROVE TypeOK
    OBVIOUS
  <2>1. TypeInv /\ QueueInv
    BY DEF IInv
  <2>2. \A s \in Session : tail[s] # None => turns[tail[s]].session = s /\ ~IsSettled(tail[s])
    BY <2>1 DEF QueueInv, Pending, IsSettled
  <2>3. \A s \in Session : file[s] # None => file[s] \in Seq(Message)
    BY <2>1 DEF TypeInv
  <2>4. \A s \in Session, o \in Object : logs[s][o] \in Seq(Message)
    BY <2>1 DEF TypeInv
  <2> QED
    BY <2>1, <2>2, <2>3, <2>4 DEF TypeInv, TypeOK
<1> QED
  BY <1>1, Invariance, PTL

\* The turns of a session do not interleave: its queue lets one of them at a
\* time talk to its provider, and neither a crash, an import nor a routed task
\* that is resumed puts a message between those of a turn, unless a late one.
THEOREM TurnsStayTogether == Spec => []TurnsDoNotInterleave
<1>1. IInv => TurnsDoNotInterleave
  BY DEF IInv, LogInv, IsOrderly, IsSeparated, TurnsDoNotInterleave
<1> QED
  BY <1>1, Invariance, PTL

----------------------------------------------------------------------------
(* Saves: JsonStore implements AtomicStore.                                *)

StoreTypes ==
  /\ memory \subseteq Store!Change /\ made \subseteq Store!Change
  /\ saves \in [Store!Saver -> Store!SaveRow \cup {None}]
  /\ chain \in Seq(Store!Change) /\ rejected = FALSE
  /\ names \in [{"tmp", "file"} -> Store!Saver \cup {None}]
  /\ inodes \in [Store!Saver -> Store!Content]
  /\ overlapped \in BOOLEAN

\* Whether the save of a change waits in the chain.
Waits(c) == \E i \in 1..Len(chain) : chain[i] = c

\* No file was created by a save that has yet to open one, and a change has one
\* save at most.
FreshInv ==
  /\ \A i, j \in 1..Len(chain) : chain[i] = chain[j] => i = j
  /\ \A c \in Store!Change :
       /\ c \notin made => saves[c] = None /\ ~Waits(c)
       /\ Waits(c) => saves[c] = None
       /\ c \notin made \/ Waits(c) \/ Store!At(c, "text") \/ Store!At(c, "open") =>
            c # names["tmp"] /\ c # names["file"]

\* One save is under way at a time, in the stores that queue them.
OneSaveInv ==
  /\ Store!IsQueued => ~overlapped
  /\ ~overlapped => \A s, t \in Store!Running : s = t

\* The text of a save under way includes what the file has; once it is written,
\* the temporary file is whole.
SaveOk(s) ==
  /\ saves[s].text \subseteq memory /\ Store!OnDisk \subseteq saves[s].text
  /\ saves[s].next = "write" =>
       /\ saves[s].fd = names["tmp"] /\ saves[s].fd # None
       /\ inodes[saves[s].fd] = Store!Empty
  /\ saves[s].next = "rename" =>
       names["tmp"] # None /\ inodes[names["tmp"]] = Store!Whole(saves[s].text)

FilesInv ==
  /\ saves[Store!First] # None => names["file"] = None
  /\ names["tmp"] # None => names["tmp"] # names["file"]
  /\ Store!IsLoadable
  /\ Store!OnDisk \subseteq memory /\ memory \subseteq made
  /\ \A s \in Store!Running : SaveOk(s)

StoreInv == StoreTypes /\ FreshInv /\ OneSaveInv /\ (~overlapped => FilesInv)

LEMMA Savers ==
  /\ Store!First \in Store!Saver /\ Store!First \notin Store!Change
  /\ Store!Change \subseteq Store!Saver
  /\ None \notin Store!Saver /\ None \notin Store!SaveRow
  BY SavingAssumption
  DEF Store!JsonStoreAssumption, Store!First, Store!Change, Store!Saver

LEMMA BegunIsRow ==
  ASSUME NEW held, held \subseteq Store!Change
  PROVE  /\ Store!Begun(held) \in Store!SaveRow /\ Store!Begun(held) # None
         /\ Store!Begun(held).text = held /\ Store!Begun(held).next = "text"
  BY Savers DEF Store!Begun, Store!SaveRow

LEMMA StoreInitInv == Store!Init => StoreInv
<1> SUFFICES ASSUME Store!Init PROVE StoreInv
  OBVIOUS
<1> DEFINE begun == IF store \in {"settings", "art"} THEN Store!Begun({}) ELSE None
<1>1. begun \in Store!SaveRow \cup {None} /\ (begun # None => begun = Store!Begun({}))
  BY BegunIsRow
<1>2. saves = [[s \in Store!Saver |-> None] EXCEPT ![Store!First] = begun]
  BY DEF Store!Init, Store!NoSaves
<1> HIDE DEF begun
<1>3. saves \in [Store!Saver -> Store!SaveRow \cup {None}] /\ saves[Store!First] = begun
      /\ \A s \in Store!Saver : s # Store!First => saves[s] = None
  BY <1>1, <1>2, Savers
<1>4. StoreTypes
  <2>1. Store!Empty \in Store!Content
    BY DEF Store!Content, Store!Empty
  <2>2. names \in [{"tmp", "file"} -> Store!Saver \cup {None}]
    BY DEF Store!Init
  <2>3. inodes \in [Store!Saver -> Store!Content]
    BY <2>1 DEF Store!Init
  <2> QED
    BY <1>3, <2>2, <2>3, EmptySeq DEF Store!Init, StoreTypes
<1>5. FreshInv
  BY <1>3, Savers DEF Store!Init, FreshInv, Waits, Store!At
<1>6. OneSaveInv
  BY <1>3 DEF Store!Init, OneSaveInv, Store!Running
<1>7. FilesInv
  <2>1. Store!OnDisk = {} /\ Store!IsLoadable /\ names["file"] = None /\ names["tmp"] = None
    BY DEF Store!Init, Store!OnDisk, Store!IsLoadable
  <2>2. ASSUME NEW s \in Store!Running PROVE SaveOk(s)
    <3>1. saves[s] = Store!Begun({})
      BY <1>1, <1>3, <2>2 DEF Store!Running
    <3> QED
      BY <2>1, <3>1, BegunIsRow DEF SaveOk
  <2> QED
    BY <2>1, <2>2 DEF FilesInv, Store!Init
<1> QED
  BY <1>4, <1>5, <1>6, <1>7 DEF StoreInv

\* A save under way is a row, and the saver has a change to save or is the first.
LEMMA RunningRow ==
  ASSUME StoreInv, NEW s \in Store!Saver, saves[s] # None
  PROVE  /\ s \in Store!Running /\ saves[s] \in Store!SaveRow
         /\ saves[s].text \subseteq Store!Change
         /\ s \in Store!Change => s \in made /\ ~Waits(s)
         /\ ~overlapped => SaveOk(s) /\ \A t \in Store!Saver : saves[t] # None => t = s
<1>1. s \in Store!Running
  BY DEF Store!Running
<1>2. saves[s] \in Store!SaveRow
  BY DEF StoreInv, StoreTypes
<1>3. s \in Store!Change => s \in made /\ ~Waits(s)
  BY DEF StoreInv, FreshInv
<1>4. ASSUME ~overlapped
      PROVE  SaveOk(s) /\ \A t \in Store!Saver : saves[t] # None => t = s
  BY <1>1, <1>4 DEF StoreInv, OneSaveInv, FilesInv, Store!Running
<1> QED
  BY <1>1, <1>2, <1>3, <1>4 DEF Store!SaveRow

\* What the end of a save does to the saves and the chain.
Ended(s) ==
  /\ saves' \in [Store!Saver -> Store!SaveRow \cup {None}]
  /\ chain' \in Seq(Store!Change)
  /\ \A i, j \in 1..Len(chain') : chain'[i] = chain'[j] => i = j
  /\ \A t \in Store!Saver :
       /\ (\E i \in 1..Len(chain') : chain'[i] = t) => Waits(t) /\ saves'[t] = None
       /\ saves'[t] # None =>
            \/ Waits(t) /\ t \in Store!Change /\ saves'[t] = Store!Begun(memory)
            \/ t # s /\ saves'[t] = saves[t]
  /\ ~overlapped => \A t, u \in Store!Saver : saves'[t] # None /\ saves'[u] # None => t = u

LEMMA SaveEnds ==
  ASSUME StoreInv, NEW s \in Store!Saver, saves[s] # None, Store!EndSave(s)
  PROVE  Ended(s)
<1>1. /\ saves \in [Store!Saver -> Store!SaveRow \cup {None}]
      /\ chain \in Seq(Store!Change) /\ memory \subseteq Store!Change
  BY DEF StoreInv, StoreTypes
<1>2. \A t \in Store!Change : Waits(t) => saves[t] = None
  BY DEF StoreInv, FreshInv
<1>3. \A i, j \in 1..Len(chain) : chain[i] = chain[j] => i = j
  BY DEF StoreInv, FreshInv
<1>4. ~overlapped => \A t \in Store!Saver : saves[t] # None => t = s
  BY RunningRow
<1>5. CASE ~rejected' /\ chain # <<>>
  <2> DEFINE head == Head(chain)
             begun == Store!Begun(memory)
  <2>1. saves' = [saves EXCEPT ![s] = None, ![head] = begun] /\ chain' = Tail(chain)
    BY <1>5 DEF Store!EndSave
  <2>2. /\ Len(chain) \in Nat \ {0} /\ head = chain[1] /\ head \in Store!Change
        /\ Tail(chain) \in Seq(Store!Change) /\ Len(Tail(chain)) = Len(chain) - 1
        /\ \A i \in 1..Len(Tail(chain)) : Tail(chain)[i] = chain[i + 1]
    BY <1>1, <1>5, HeadTailProperties, ElementOfSeq, EmptySeq
  <2>3. begun \in Store!SaveRow /\ begun # None
    BY <1>1, BegunIsRow
  <2>4. Waits(head) /\ head \in Store!Saver
    BY <2>2, Savers DEF Waits
  <2> HIDE DEF head, begun
  <2>5. /\ saves' \in [Store!Saver -> Store!SaveRow \cup {None}]
        /\ saves'[head] = begun
        /\ \A t \in Store!Saver : t # head => saves'[t] = IF t = s THEN None ELSE saves[t]
    BY <1>1, <2>1, <2>3, <2>4
  <2>6. \A i, j \in 1..Len(chain') : chain'[i] = chain'[j] => i = j
    BY <1>3, <2>1, <2>2
  <2>7. ASSUME NEW t \in Store!Saver, NEW i \in 1..Len(chain'), chain'[i] = t
        PROVE  Waits(t) /\ saves'[t] = None
    <3>1. chain[i + 1] = t /\ i + 1 \in 1..Len(chain) /\ i + 1 # 1
      BY <2>1, <2>2, <2>7
    <3>2. Waits(t)
      BY <3>1 DEF Waits
    <3>3. t # head
      BY <1>3, <2>2, <3>1
    <3>4. t \in Store!Change
      BY <1>1, <3>1, ElementOfSeq
    <3> QED
      BY <1>2, <2>5, <3>2, <3>3, <3>4
  <2>8. ASSUME NEW t \in Store!Saver, saves'[t] # None
        PROVE  \/ Waits(t) /\ t \in Store!Change /\ saves'[t] = Store!Begun(memory)
               \/ t # s /\ saves'[t] = saves[t]
    BY <2>2, <2>4, <2>5, <2>8 DEF begun
  <2>9. ~overlapped =>
          \A t, u \in Store!Saver : saves'[t] # None /\ saves'[u] # None => t = u
    BY <1>4, <2>5
  <2> QED
    BY <2>1, <2>2, <2>5, <2>6, <2>7, <2>8, <2>9 DEF Ended
<1>6. CASE ~(~rejected' /\ chain # <<>>)
  <2>1. saves' = [saves EXCEPT ![s] = None] /\ chain' = chain
    BY <1>6 DEF Store!EndSave
  <2>2. /\ saves' \in [Store!Saver -> Store!SaveRow \cup {None}]
        /\ \A t \in Store!Saver : saves'[t] = IF t = s THEN None ELSE saves[t]
    BY <1>1, <2>1
  <2>3. ASSUME NEW t \in Store!Saver, NEW i \in 1..Len(chain'), chain'[i] = t
        PROVE  Waits(t) /\ saves'[t] = None
    <3>1. Waits(t) /\ t \in Store!Change
      BY <1>1, <2>1, <2>3, ElementOfSeq DEF Waits
    <3> QED
      BY <1>2, <2>2, <3>1
  <2> QED
    BY <1>1, <1>3, <1>4, <2>1, <2>2, <2>3 DEF Ended
<1> QED
  BY <1>5, <1>6

\* The end of a save keeps what relates the saves to each other.
LEMMA EndKeepsOrder ==
  ASSUME StoreInv, NEW s \in Store!Saver, saves[s] # None, Ended(s),
         UNCHANGED <<store, made, overlapped>>,
         \A c \in Store!Change :
           c # names["tmp"] /\ c # names["file"] => c # names["tmp"]' /\ c # names["file"]'
  PROVE  FreshInv' /\ OneSaveInv'
<1>1. ASSUME NEW c \in Store!Change
      PROVE  /\ c \notin made' => saves'[c] = None /\ ~Waits(c)'
             /\ Waits(c)' => saves'[c] = None
             /\ c \notin made' \/ Waits(c)' \/ Store!At(c, "text")' \/ Store!At(c, "open")' =>
                  c # names["tmp"]' /\ c # names["file"]'
  <2>1. c \in Store!Saver
    BY Savers
  <2>2. Waits(c)' => Waits(c) /\ saves'[c] = None
    BY <2>1 DEF Ended, Waits
  <2>3. c \notin made => saves[c] = None /\ ~Waits(c)
    BY DEF StoreInv, FreshInv
  <2>4. c \notin made => saves'[c] = None
    BY <2>1, <2>3 DEF Ended
  <2>5. Store!At(c, "text")' \/ Store!At(c, "open")' =>
          Waits(c) \/ Store!At(c, "text") \/ Store!At(c, "open")
    BY <2>1 DEF Ended, Store!At
  <2>6. c \notin made \/ Waits(c) \/ Store!At(c, "text") \/ Store!At(c, "open") =>
          c # names["tmp"] /\ c # names["file"]
    BY DEF StoreInv, FreshInv
  <2> QED
    BY <2>2, <2>3, <2>4, <2>5, <2>6
<1>2. FreshInv'
  BY <1>1 DEF Ended, FreshInv
<1>3. OneSaveInv'
  BY DEF Ended, StoreInv, OneSaveInv, Store!Running, Store!IsQueued
<1> QED
  BY <1>2, <1>3

\* A step of a save after which it goes on.
GoesOn(s, row) ==
  /\ row \in Store!SaveRow /\ saves' = [saves EXCEPT ![s] = row]
  /\ row.next \in {"text", "open"} => saves[s].next = "text" /\ UNCHANGED names
  /\ UNCHANGED <<store, made, memory, chain, rejected, overlapped>>

LEMMA GoingOnKeepsOrder ==
  ASSUME StoreInv, NEW s \in Store!Saver, saves[s] # None, NEW row, GoesOn(s, row),
         \A c \in Store!Change : c # s /\ c # names["tmp"] /\ c # names["file"] =>
           c # names["tmp"]' /\ c # names["file"]'
  PROVE  FreshInv' /\ OneSaveInv'
<1>1. /\ saves'[s] = row /\ row # None
      /\ \A t \in Store!Saver : t # s => saves'[t] = saves[t]
  BY Savers DEF GoesOn, StoreInv, StoreTypes
<1>2. s \in Store!Change => s \in made /\ ~Waits(s)
  BY RunningRow
<1>3. ASSUME NEW c \in Store!Change
      PROVE  /\ c \notin made' => saves'[c] = None /\ ~Waits(c)'
             /\ Waits(c)' => saves'[c] = None
             /\ c \notin made' \/ Waits(c)' \/ Store!At(c, "text")' \/ Store!At(c, "open")' =>
                  c # names["tmp"]' /\ c # names["file"]'
  <2>1. c \in Store!Saver
    BY Savers
  <2>2. Waits(c)' = Waits(c) /\ made' = made
    BY DEF GoesOn, Waits
  <2>3. /\ c \notin made => saves[c] = None /\ ~Waits(c)
        /\ Waits(c) => saves[c] = None
        /\ c \notin made \/ Waits(c) \/ Store!At(c, "text") \/ Store!At(c, "open") =>
             c # names["tmp"] /\ c # names["file"]
    BY DEF StoreInv, FreshInv
  <2>4. CASE c # s
    BY <1>1, <2>1, <2>2, <2>3, <2>4 DEF Store!At
  <2>5. CASE c = s
    <3>1. c \in made /\ ~Waits(c)
      BY <1>2, <2>5
    <3>2. Store!At(c, "text")' \/ Store!At(c, "open")' =>
            Store!At(c, "text") /\ UNCHANGED names
      BY <1>1, <2>5 DEF Store!At, GoesOn
    <3> QED
      BY <2>2, <2>3, <3>1, <3>2
  <2> QED
    BY <2>4, <2>5
<1>4. FreshInv'
  BY <1>3 DEF GoesOn, StoreInv, FreshInv
<1>5. OneSaveInv'
  BY <1>1 DEF GoesOn, StoreInv, OneSaveInv, Store!Running, Store!IsQueued
<1> QED
  BY <1>4, <1>5

\* What AtomicStore sees of the file.
LEMMA DiskIsLoaded ==
  ASSUME StoreInv, ~overlapped
  PROVE  FilesInv /\ Store!Disk = Store!OnDisk /\ Store!Disk \subseteq memory
BY DEF StoreInv, FilesInv, Store!Disk

LEMMA DiskStays ==
  ASSUME UNCHANGED names["file"],
         names["file"] # None => UNCHANGED inodes[names["file"]]
  PROVE  UNCHANGED <<Store!Disk, Store!OnDisk, Store!IsLoadable>>
BY DEF Store!Disk, Store!OnDisk, Store!IsLoadable

LEMMA MakeChangeStep ==
  ASSUME StoreInv, NEW c \in Store!Change, Store!MakeChange(c)
  PROVE  StoreInv' /\ (~overlapped => Store!Atomic!Make(c))
<1>1. /\ made' = made \cup {c} /\ memory' = memory \cup {c} /\ c \notin made
      /\ UNCHANGED <<store, rejected, names, inodes>>
      /\ rejected = FALSE
  BY DEF Store!MakeChange, StoreInv, StoreTypes
<1>2. /\ memory' \subseteq Store!Change /\ made' \subseteq Store!Change
      /\ c \in Store!Saver
  BY <1>1, Savers DEF StoreInv, StoreTypes
<1>3. UNCHANGED <<Store!Disk, Store!OnDisk, Store!IsLoadable>>
  BY <1>1, DiskStays
<1>4. ~overlapped => Store!Atomic!Make(c)
  BY <1>1, <1>3, DiskIsLoaded DEF FilesInv, Store!Atomic!Make
<1>5. /\ saves[c] = None /\ ~Waits(c) /\ c # names["tmp"] /\ c # names["file"]
  BY <1>1 DEF StoreInv, FreshInv
<1>6. CASE Store!IsQueued /\ (rejected \/ Store!Running # {})
  <2>1. chain' = Append(chain, c) /\ UNCHANGED <<saves, overlapped>>
    BY <1>6 DEF Store!MakeChange
  <2>2. /\ chain \in Seq(Store!Change) /\ chain' \in Seq(Store!Change)
        /\ Len(chain) \in Nat /\ Len(chain') = Len(chain) + 1
        /\ chain'[Len(chain) + 1] = c
        /\ \A i \in 1..Len(chain) : chain'[i] = chain[i]
    BY <2>1, AppendProperties DEF StoreInv, StoreTypes
  <2>3. StoreTypes'
    BY <1>1, <1>2, <2>1, <2>2 DEF StoreInv, StoreTypes
  <2>4. \A b : Waits(b)' => Waits(b) \/ b = c
    BY <2>2 DEF Waits
  <2>5. \A i, j \in 1..Len(chain') : chain'[i] = chain'[j] => i = j
    BY <1>5, <2>2 DEF StoreInv, FreshInv, Waits
  <2>6. ASSUME NEW b \in Store!Change
        PROVE  /\ b \notin made' => saves'[b] = None /\ ~Waits(b)'
               /\ Waits(b)' => saves'[b] = None
               /\ b \notin made' \/ Waits(b)' \/ Store!At(b, "text")' \/ Store!At(b, "open")' =>
                    b # names["tmp"]' /\ b # names["file"]'
    <3>1. /\ b \notin made => saves[b] = None /\ ~Waits(b)
          /\ Waits(b) => saves[b] = None
          /\ b \notin made \/ Waits(b) \/ Store!At(b, "text") \/ Store!At(b, "open") =>
               b # names["tmp"] /\ b # names["file"]
      BY DEF StoreInv, FreshInv
    <3>2. b \notin made' => b # c /\ b \notin made
      BY <1>1
    <3>3. UNCHANGED <<Store!At(b, "text"), Store!At(b, "open")>>
      BY <2>1 DEF Store!At
    <3> QED
      BY <1>1, <1>5, <2>1, <2>4, <3>1, <3>2, <3>3
  <2>7. FreshInv'
    BY <2>5, <2>6 DEF FreshInv
  <2>8. OneSaveInv'
    BY <1>1, <2>1 DEF StoreInv, OneSaveInv, Store!Running, Store!IsQueued
  <2>9. ASSUME ~overlapped PROVE FilesInv'
    <3>1. FilesInv
      BY <2>9, DiskIsLoaded
    <3>2. ASSUME NEW s \in Store!Running' PROVE SaveOk(s)'
      <4>1. s \in Store!Running /\ SaveOk(s)
        BY <2>1, <3>1, <3>2 DEF Store!Running, FilesInv
      <4> QED
        BY <1>1, <1>3, <2>1, <4>1 DEF SaveOk
    <3> QED
      BY <1>1, <1>3, <2>1, <3>1, <3>2 DEF FilesInv
  <2> QED
    BY <1>4, <2>1, <2>3, <2>7, <2>8, <2>9 DEF StoreInv
<1>7. CASE ~(Store!IsQueued /\ (rejected \/ Store!Running # {}))
  <2> DEFINE begun == Store!Begun(memory')
  <2>1. /\ saves' = [saves EXCEPT ![c] = begun] /\ UNCHANGED chain
        /\ overlapped' = (overlapped \/ Store!Running # {})
    BY <1>7 DEF Store!MakeChange
  <2>2. /\ begun \in Store!SaveRow /\ begun # None
        /\ begun.text = memory' /\ begun.next = "text"
    BY <1>2, BegunIsRow
  <2> HIDE DEF begun
  <2>3. /\ saves' \in [Store!Saver -> Store!SaveRow \cup {None}] /\ saves'[c] = begun
        /\ \A t \in Store!Saver : t # c => saves'[t] = saves[t]
    BY <1>2, <2>1, <2>2 DEF StoreInv, StoreTypes
  <2>4. StoreTypes'
    BY <1>1, <1>2, <2>1, <2>3 DEF StoreInv, StoreTypes
  <2>5. ASSUME NEW b \in Store!Change
        PROVE  /\ b \notin made' => saves'[b] = None /\ ~Waits(b)'
               /\ Waits(b)' => saves'[b] = None
               /\ b \notin made' \/ Waits(b)' \/ Store!At(b, "text")' \/ Store!At(b, "open")' =>
                    b # names["tmp"]' /\ b # names["file"]'
    <3>1. /\ b \notin made => saves[b] = None /\ ~Waits(b)
          /\ Waits(b) => saves[b] = None
          /\ b \notin made \/ Waits(b) \/ Store!At(b, "text") \/ Store!At(b, "open") =>
               b # names["tmp"] /\ b # names["file"]
      BY DEF StoreInv, FreshInv
    <3>2. b \notin made' => b # c /\ b \notin made
      BY <1>1
    <3>3. b \in Store!Saver /\ Waits(b)' = Waits(b)
      BY <2>1, Savers DEF Waits
    <3>4. b # c => UNCHANGED <<Store!At(b, "text"), Store!At(b, "open")>>
      BY <2>3, <3>3 DEF Store!At
    <3> QED
      BY <1>1, <1>5, <2>3, <3>1, <3>2, <3>3, <3>4
  <2>6. FreshInv'
    BY <2>1, <2>5 DEF StoreInv, FreshInv
  <2>7. ASSUME ~overlapped' PROVE ~overlapped /\ \A t \in Store!Saver : saves[t] = None
    BY <2>1, <2>7 DEF Store!Running
  <2>8. OneSaveInv'
    <3>1. Store!IsQueued' => ~overlapped'
      BY <1>1, <1>7, <2>1 DEF StoreInv, OneSaveInv, Store!IsQueued
    <3>2. ~overlapped' => \A t, u \in Store!Running' : t = u
      BY <2>3, <2>7 DEF Store!Running
    <3> QED
      BY <3>1, <3>2 DEF OneSaveInv
  <2>9. ASSUME ~overlapped' PROVE FilesInv'
    <3>1. FilesInv /\ \A t \in Store!Saver : saves[t] = None
      BY <2>7, <2>9, DiskIsLoaded
    <3>2. ASSUME NEW s \in Store!Running' PROVE SaveOk(s)'
      <4>1. s = c
        BY <2>3, <3>1, <3>2 DEF Store!Running
      <4>2. Store!OnDisk' \subseteq memory'
        BY <1>1, <1>3, <3>1 DEF FilesInv
      <4> QED
        BY <2>2, <2>3, <4>1, <4>2 DEF SaveOk
    <3> QED
      BY <1>1, <1>3, <2>3, <3>1, <3>2, Savers DEF FilesInv
  <2> QED
    BY <1>4, <2>4, <2>6, <2>8, <2>9 DEF StoreInv
<1> QED
  BY <1>6, <1>7

\* What is written is of the store's own past, and includes what the file has.
LEMMA TextIsOfStore ==
  ASSUME StoreInv, NEW s \in Store!Saver, saves[s] # None, NEW text \in Store!Texts(s)
  PROVE  /\ text \subseteq Store!Change
         /\ ~overlapped => text \subseteq memory /\ Store!OnDisk \subseteq text
<1>1. memory \subseteq Store!Change /\ saves[s].text \subseteq Store!Change
  BY RunningRow DEF StoreInv, StoreTypes
<1>2. ~overlapped =>
        /\ saves[s].text \subseteq memory /\ Store!OnDisk \subseteq saves[s].text
        /\ Store!OnDisk \subseteq memory
  BY RunningRow DEF StoreInv, FilesInv, SaveOk
<1>3. CASE store = "notifications"
  <2>1. text = saves[s].text
    BY <1>3 DEF Store!Texts
  <2> QED
    BY <1>1, <1>2, <2>1
<1>4. CASE store \in {"settings", "files"}
  <2>1. text = memory
    BY <1>4 DEF Store!Texts
  <2> QED
    BY <1>1, <1>2, <2>1
<1>5. CASE store \notin {"notifications", "settings", "files"}
  <2>1. text \subseteq memory /\ saves[s].text \subseteq text
    BY <1>5 DEF Store!Texts
  <2> QED
    BY <1>1, <1>2, <2>1
<1> QED
  BY <1>3, <1>4, <1>5

LEMMA MakeTextStep ==
  ASSUME StoreInv, NEW s \in Store!Saver, Store!MakeText(s)
  PROVE  StoreInv' /\ UNCHANGED <<memory, Store!Disk>>
<1>1. /\ saves[s] # None /\ saves[s].next = "text"
      /\ UNCHANGED <<store, made, memory, chain, rejected, names, inodes, overlapped>>
  BY DEF Store!MakeText, Store!At
<1>2. PICK text \in Store!Texts(s) :
        saves' = [saves EXCEPT ![s].text = text, ![s].next = "open"]
  BY DEF Store!MakeText
<1> DEFINE row == [saves[s] EXCEPT !.text = text, !.next = "open"]
<1>3. text \subseteq Store!Change
  BY <1>1, TextIsOfStore
<1>4. /\ row \in Store!SaveRow /\ row.text = text /\ row.next = "open"
      /\ saves' = [saves EXCEPT ![s] = row]
  BY <1>1, <1>2, <1>3, RunningRow DEF Store!SaveRow, StoreInv, StoreTypes
<1> HIDE DEF row
<1>5. GoesOn(s, row)
  BY <1>1, <1>4 DEF GoesOn
<1>6. FreshInv' /\ OneSaveInv'
  BY <1>1, <1>5, GoingOnKeepsOrder
<1>7. saves'[s] = row /\ \A t \in Store!Saver : t # s => saves'[t] = saves[t]
  BY <1>4 DEF StoreInv, StoreTypes
<1>8. StoreTypes'
  BY <1>1, <1>4 DEF StoreInv, StoreTypes
<1>9. UNCHANGED <<Store!Disk, Store!OnDisk, Store!IsLoadable>>
  BY <1>1, DiskStays
<1>10. ASSUME ~overlapped PROVE FilesInv'
  <2>1. FilesInv /\ \A t \in Store!Saver : saves[t] # None => t = s
    BY <1>1, <1>10, DiskIsLoaded, RunningRow
  <2>2. text \subseteq memory /\ Store!OnDisk \subseteq text
    BY <1>1, <1>10, TextIsOfStore
  <2>3. ASSUME NEW t \in Store!Running' PROVE SaveOk(t)'
    <3>1. t = s
      BY <1>7, <2>1, <2>3 DEF Store!Running
    <3> QED
      BY <1>1, <1>4, <1>7, <1>9, <2>2, <3>1 DEF SaveOk
  <2>4. saves'[Store!First] # None => saves[Store!First] # None
    BY <1>1, <1>7, Savers
  <2> QED
    BY <1>1, <1>9, <2>1, <2>3, <2>4 DEF FilesInv
<1> QED
  BY <1>1, <1>6, <1>8, <1>9, <1>10 DEF StoreInv

LEMMA OpenFileStep ==
  ASSUME StoreInv, NEW s \in Store!Saver, Store!OpenFile(s)
  PROVE  StoreInv' /\ UNCHANGED memory /\ (~overlapped => UNCHANGED Store!Disk)
<1> DEFINE inode == IF names["tmp"] = None THEN s ELSE names["tmp"]
           row == [saves[s] EXCEPT !.fd = inode, !.next = "write"]
<1>1. /\ saves[s] # None /\ saves[s].next = "open"
      /\ UNCHANGED <<store, made, memory, chain, rejected, overlapped>>
      /\ saves' = [saves EXCEPT ![s].fd = inode, ![s].next = "write"]
      /\ names' = [names EXCEPT !["tmp"] = inode]
      /\ inodes' = [inodes EXCEPT ![inode] = Store!Empty]
  BY DEF Store!OpenFile, Store!At, Store!SavedTo
<1>2. inode \in Store!Saver /\ inode # None
  BY Savers DEF StoreInv, StoreTypes
<1>3. inode = s \/ inode = names["tmp"]
  OBVIOUS
<1>4. ~overlapped => inode # names["file"]
  <2>1. ~overlapped /\ names["tmp"] # None => names["tmp"] # names["file"]
    BY DEF StoreInv, FilesInv
  <2>2. s \in Store!Change => s # names["file"]
    BY <1>1 DEF StoreInv, FreshInv, Store!At
  <2>3. s \notin Store!Change => s = Store!First
    BY DEF Store!Saver
  <2>4. ~overlapped /\ saves[Store!First] # None => names["file"] = None
    BY DEF StoreInv, FilesInv
  <2> QED
    BY <1>1, <2>1, <2>2, <2>3, <2>4, Savers
<1> HIDE DEF inode
<1>5. /\ row \in Store!SaveRow /\ row.fd = inode /\ row.next = "write"
      /\ row.text = saves[s].text /\ saves' = [saves EXCEPT ![s] = row]
  BY <1>1, <1>2, RunningRow DEF Store!SaveRow, StoreInv, StoreTypes
<1> HIDE DEF row
<1>6. /\ names["tmp"]' = inode /\ names["file"]' = names["file"]
      /\ names' \in [{"tmp", "file"} -> Store!Saver \cup {None}]
  BY <1>1, <1>2 DEF StoreInv, StoreTypes
<1>7. /\ inodes' \in [Store!Saver -> Store!Content] /\ inodes'[inode] = Store!Empty
      /\ \A t \in Store!Saver : t # inode => inodes'[t] = inodes[t]
  <2>1. Store!Empty \in Store!Content
    BY DEF Store!Empty, Store!Content
  <2> QED
    BY <1>1, <1>2, <2>1 DEF StoreInv, StoreTypes
<1>8. GoesOn(s, row)
  BY <1>1, <1>5 DEF GoesOn
<1>9. FreshInv' /\ OneSaveInv'
  <2>1. \A c \in Store!Change : c # s /\ c # names["tmp"] /\ c # names["file"] =>
          c # names["tmp"]' /\ c # names["file"]'
    BY <1>3, <1>6
  <2> QED
    BY <1>1, <1>8, <2>1, GoingOnKeepsOrder
<1>10. saves'[s] = row /\ \A t \in Store!Saver : t # s => saves'[t] = saves[t]
  BY <1>5 DEF StoreInv, StoreTypes
<1>11. StoreTypes'
  <2>1. StoreTypes /\ UNCHANGED <<made, memory, chain, rejected, overlapped>>
    BY <1>1 DEF StoreInv
  <2>2. saves' \in [Store!Saver -> Store!SaveRow \cup {None}]
    BY <1>5, <2>1 DEF StoreTypes
  <2> QED
    BY <1>6, <1>7, <2>1, <2>2 DEF StoreTypes
<1>12. ~overlapped => UNCHANGED <<Store!Disk, Store!OnDisk, Store!IsLoadable>>
  <2>1. names["file"] # None => names["file"] \in Store!Saver
    BY DEF StoreInv, StoreTypes
  <2> QED
    BY <1>4, <1>6, <1>7, <2>1, DiskStays
<1>13. ASSUME ~overlapped PROVE FilesInv'
  <2>1. /\ FilesInv /\ SaveOk(s)
        /\ \A t \in Store!Saver : saves[t] # None => t = s
    BY <1>1, <1>13, DiskIsLoaded, RunningRow
  <2>2. ASSUME NEW t \in Store!Running' PROVE SaveOk(t)'
    <3>1. t = s
      BY <1>10, <2>1, <2>2 DEF Store!Running
    <3> QED
      BY <1>1, <1>2, <1>5, <1>6, <1>7, <1>10, <1>12, <1>13, <2>1, <3>1 DEF SaveOk
  <2>3. saves'[Store!First] # None => saves[Store!First] # None
    BY <1>1, <1>10, Savers
  <2> QED
    BY <1>1, <1>4, <1>6, <1>12, <1>13, <2>1, <2>2, <2>3 DEF FilesInv
<1> QED
  BY <1>1, <1>9, <1>11, <1>12, <1>13 DEF StoreInv

LEMMA WriteFileStep ==
  ASSUME StoreInv, NEW s \in Store!Saver, Store!WriteFile(s)
  PROVE  StoreInv' /\ UNCHANGED memory /\ (~overlapped => UNCHANGED Store!Disk)
<1> DEFINE row == [saves[s] EXCEPT !.next = "rename"]
           fd == saves[s].fd
           text == saves[s].text
           content == Store!Over(text, inodes[fd])
<1>1. /\ saves[s] # None /\ saves[s].next = "write"
      /\ UNCHANGED <<store, made, memory, chain, rejected, names, overlapped>>
      /\ saves' = [saves EXCEPT ![s].next = "rename"]
      /\ inodes' = [inodes EXCEPT ![fd] = Store!Over(text, @)]
  BY DEF Store!WriteFile, Store!At
<1>2. /\ row \in Store!SaveRow /\ row.fd = fd /\ row.next = "rename"
      /\ row.text = text /\ saves' = [saves EXCEPT ![s] = row]
      /\ text \subseteq Store!Change /\ fd \in Store!Saver \cup {None}
  BY <1>1, RunningRow DEF Store!SaveRow, StoreInv, StoreTypes
<1> HIDE DEF row, fd, text
<1>3. GoesOn(s, row)
  BY <1>1, <1>2 DEF GoesOn
<1>4. FreshInv' /\ OneSaveInv'
  BY <1>1, <1>3, GoingOnKeepsOrder
<1>5. saves'[s] = row /\ \A t \in Store!Saver : t # s => saves'[t] = saves[t]
  BY <1>2 DEF StoreInv, StoreTypes
<1>6. /\ inodes' \in [Store!Saver -> Store!Content]
      /\ fd \in Store!Saver => inodes'[fd] = content
      /\ \A t \in Store!Saver : t # fd => inodes'[t] = inodes[t]
  <2>1. inodes \in [Store!Saver -> Store!Content]
    BY DEF StoreInv, StoreTypes
  <2>2. fd \in Store!Saver => content \in Store!Content
    BY <1>2, <2>1 DEF Store!Over, Store!Content
  <2> QED
    BY <1>1, <2>1, <2>2
<1>7. StoreTypes'
  BY <1>1, <1>2, <1>6 DEF StoreInv, StoreTypes
<1>8. ASSUME ~overlapped
      PROVE  FilesInv' /\ UNCHANGED Store!Disk
  <2>1. /\ FilesInv /\ SaveOk(s)
        /\ \A t \in Store!Saver : saves[t] # None => t = s
    BY <1>1, <1>8, DiskIsLoaded, RunningRow
  <2>2. /\ fd = names["tmp"] /\ fd \in Store!Saver /\ fd # None
        /\ inodes[fd] = Store!Empty /\ fd # names["file"]
    <3>1. saves[s].fd = names["tmp"] /\ saves[s].fd # None /\ inodes[saves[s].fd] = Store!Empty
      BY <1>1, <2>1 DEF SaveOk
    <3>2. names["tmp"] # None => names["tmp"] # names["file"]
      BY <2>1 DEF FilesInv
    <3> QED
      BY <1>2, <3>1, <3>2 DEF fd
  <2>3. inodes'[fd] = Store!Whole(text)
    <3>1. inodes[fd].text = {}
      BY <2>2 DEF Store!Empty
    <3>2. ({} \subseteq text) = TRUE /\ text \cup {} = text
      OBVIOUS
    <3> QED
      BY <1>6, <2>2, <3>1, <3>2 DEF Store!Over, Store!Whole
  <2>4. UNCHANGED <<Store!Disk, Store!OnDisk, Store!IsLoadable>>
    <3>1. names["file"] # None => names["file"] \in Store!Saver
      BY DEF StoreInv, StoreTypes
    <3> QED
      BY <1>1, <1>6, <2>2, <3>1, DiskStays
  <2>5. ASSUME NEW t \in Store!Running' PROVE SaveOk(t)'
    <3>1. t = s
      BY <1>5, <2>1, <2>5 DEF Store!Running
    <3>2. text \subseteq memory /\ Store!OnDisk \subseteq text
      BY <2>1 DEF SaveOk, text
    <3> QED
      BY <1>1, <1>2, <1>5, <2>2, <2>3, <2>4, <3>1, <3>2 DEF SaveOk
  <2>6. saves'[Store!First] # None => saves[Store!First] # None
    BY <1>1, <1>5, Savers
  <2> QED
    BY <1>1, <2>1, <2>4, <2>5, <2>6 DEF FilesInv
<1> QED
  BY <1>1, <1>4, <1>7, <1>8 DEF StoreInv

LEMMA RenameStep ==
  ASSUME StoreInv, NEW s \in Store!Saver, Store!Rename(s)
  PROVE  StoreInv' /\ (~overlapped => Store!Atomic!Save)
<1>1. /\ saves[s] # None /\ saves[s].next = "rename" /\ Store!EndSave(s)
      /\ UNCHANGED <<store, made, memory, rejected, inodes, overlapped>>
      /\ names["tmp"] # None
      /\ names' = [names EXCEPT !["file"] = names["tmp"], !["tmp"] = None]
  BY DEF Store!Rename, Store!At, Store!SavedTo
<1>2. /\ names["tmp"]' = None /\ names["file"]' = names["tmp"]
      /\ names' \in [{"tmp", "file"} -> Store!Saver \cup {None}]
      /\ names["tmp"] \in Store!Saver
  BY <1>1 DEF StoreInv, StoreTypes
<1>3. Ended(s)
  BY <1>1, SaveEnds
<1>4. FreshInv' /\ OneSaveInv'
  <2>1. \A c \in Store!Change : c # names["tmp"] /\ c # names["file"] =>
          c # names["tmp"]' /\ c # names["file"]'
    BY <1>2, Savers
  <2> QED
    BY <1>1, <1>3, <2>1, EndKeepsOrder
<1>5. StoreTypes'
  <2>1. StoreTypes /\ UNCHANGED <<made, memory, rejected, inodes, overlapped>>
    BY <1>1 DEF StoreInv
  <2> QED
    BY <1>2, <1>3, <2>1 DEF StoreTypes, Ended
<1>6. ASSUME ~overlapped
      PROVE  FilesInv' /\ Store!Atomic!Save
  <2>1. /\ FilesInv /\ SaveOk(s) /\ Store!Disk = Store!OnDisk
        /\ \A t \in Store!Saver : saves[t] # None => t = s
    BY <1>1, <1>6, DiskIsLoaded, RunningRow
  <2>2. /\ inodes[names["tmp"]] = Store!Whole(saves[s].text)
        /\ saves[s].text \subseteq memory /\ Store!OnDisk \subseteq saves[s].text
    BY <1>1, <2>1 DEF SaveOk
  <2>3. Store!IsLoadable' /\ Store!OnDisk' = saves[s].text /\ Store!Disk' = saves[s].text
    BY <1>1, <1>2, <2>2 DEF Store!IsLoadable, Store!OnDisk, Store!Disk, Store!Whole
  <2>4. Store!Atomic!Save
    BY <1>1, <2>1, <2>2, <2>3 DEF Store!Atomic!Save
  <2>5. ASSUME NEW t \in Store!Saver, saves'[t] # None
        PROVE  t # Store!First /\ saves'[t] = Store!Begun(memory)
    BY <1>3, <2>1, <2>5, Savers DEF Ended
  <2>6. ASSUME NEW t \in Store!Running' PROVE SaveOk(t)'
    <3>1. saves'[t] = Store!Begun(memory)
      BY <2>5, <2>6 DEF Store!Running
    <3>2. saves'[t].text = memory /\ saves'[t].next = "text"
      BY <3>1, BegunIsRow DEF StoreInv, StoreTypes
    <3> QED
      BY <1>1, <2>2, <2>3, <3>2 DEF SaveOk
  <2>7. FilesInv'
    BY <1>1, <1>2, <2>1, <2>2, <2>3, <2>5, <2>6, Savers DEF FilesInv
  <2> QED
    BY <2>4, <2>7
<1> QED
  BY <1>1, <1>4, <1>5, <1>6 DEF StoreInv

LEMMA SaveFailsStep ==
  ASSUME StoreInv, NEW s \in Store!Saver, Store!SaveFails(s)
  PROVE  StoreInv' /\ UNCHANGED <<memory, Store!Disk>>
<1>1. /\ saves[s] # None /\ Store!EndSave(s)
      /\ UNCHANGED <<store, made, memory, names, inodes, overlapped>>
      /\ rejected' = FALSE
  BY DEF Store!SaveFails, Store!IsRejected
<1>2. Ended(s)
  BY <1>1, SaveEnds
<1>3. FreshInv' /\ OneSaveInv'
  <2>1. \A c \in Store!Change : c # names["tmp"] /\ c # names["file"] =>
          c # names["tmp"]' /\ c # names["file"]'
    BY <1>1
  <2> QED
    BY <1>1, <1>2, <2>1, EndKeepsOrder
<1>4. StoreTypes'
  BY <1>1, <1>2 DEF StoreInv, StoreTypes, Ended
<1>5. UNCHANGED <<Store!Disk, Store!OnDisk, Store!IsLoadable>>
  BY <1>1, DiskStays
<1>6. ASSUME ~overlapped PROVE FilesInv'
  <2>1. FilesInv /\ \A t \in Store!Saver : saves[t] # None => t = s
    BY <1>1, <1>6, DiskIsLoaded, RunningRow
  <2>2. ASSUME NEW t \in Store!Saver, saves'[t] # None
        PROVE  t # Store!First /\ saves'[t] = Store!Begun(memory)
    BY <1>2, <2>1, <2>2, Savers DEF Ended
  <2>3. ASSUME NEW t \in Store!Running' PROVE SaveOk(t)'
    <3>1. saves'[t] = Store!Begun(memory)
      BY <2>2, <2>3 DEF Store!Running
    <3>2. saves'[t].text = memory /\ saves'[t].next = "text"
      BY <3>1, BegunIsRow DEF StoreInv, StoreTypes
    <3> QED
      BY <1>1, <1>5, <2>1, <3>2 DEF SaveOk, FilesInv
  <2> QED
    BY <1>1, <1>5, <2>1, <2>2, <2>3, Savers DEF FilesInv
<1> QED
  BY <1>1, <1>3, <1>4, <1>5, <1>6 DEF StoreInv

LEMMA StoreCrashStep ==
  ASSUME StoreInv, Store!Crash
  PROVE  StoreInv' /\ (~overlapped => Store!Atomic!Restart)
<1> DEFINE begun ==
      IF names["file"] = None /\ store \in {"settings", "art"} THEN Store!Begun({}) ELSE None
<1>1. /\ memory' = Store!OnDisk /\ chain' = <<>> /\ rejected' = FALSE
      /\ saves' = [[s \in Store!Saver |-> None] EXCEPT ![Store!First] = begun]
      /\ UNCHANGED <<store, made, names, inodes, overlapped>>
  BY DEF Store!Crash, Store!Load, Store!NoSaves
<1>2. /\ begun \in Store!SaveRow \cup {None}
      /\ begun # None => begun = Store!Begun({}) /\ names["file"] = None /\ store # "files"
  BY BegunIsRow
<1> HIDE DEF begun
<1>3. /\ saves' \in [Store!Saver -> Store!SaveRow \cup {None}] /\ saves'[Store!First] = begun
      /\ \A s \in Store!Saver : s # Store!First => saves'[s] = None
  BY <1>1, <1>2, Savers
<1>4. UNCHANGED <<Store!Disk, Store!OnDisk, Store!IsLoadable>>
  BY <1>1, DiskStays
<1>5. StoreTypes'
  <2>1. Store!OnDisk \subseteq Store!Change
    BY DEF Store!OnDisk, StoreInv, StoreTypes, Store!Content
  <2>2. StoreTypes
    BY DEF StoreInv
  <2> QED
    BY <1>1, <1>3, <2>1, <2>2, EmptySeq DEF StoreTypes
<1>6. FreshInv'
  <2>1. ASSUME NEW c \in Store!Change
        PROVE  /\ saves'[c] = None /\ ~Waits(c)' /\ ~Store!At(c, "text")' /\ ~Store!At(c, "open")'
               /\ c \notin made' => c # names["tmp"]' /\ c # names["file"]'
    <3>1. saves'[c] = None
      BY <1>3, Savers
    <3>2. ~Waits(c)'
      BY <1>1 DEF Waits
    <3> QED
      BY <1>1, <3>1, <3>2 DEF StoreInv, FreshInv, Store!At
  <2>2. \A i, j \in 1..Len(chain') : chain'[i] = chain'[j] => i = j
    BY <1>1
  <2> QED
    BY <2>1, <2>2 DEF FreshInv
<1>7. OneSaveInv'
  BY <1>1, <1>3 DEF StoreInv, OneSaveInv, Store!Running, Store!IsQueued
<1>8. ASSUME ~overlapped
      PROVE  FilesInv' /\ Store!Atomic!Restart
  <2>1. FilesInv /\ Store!Disk = Store!OnDisk
    BY <1>8, DiskIsLoaded
  <2>2. Store!Atomic!Restart
    BY <1>1, <1>4, <2>1 DEF Store!Atomic!Restart
  <2>3. ASSUME NEW t \in Store!Running' PROVE SaveOk(t)'
    <3>1. saves'[t] = Store!Begun({}) /\ names["file"] = None
      BY <1>2, <1>3, <2>3 DEF Store!Running
    <3>2. Store!OnDisk = {}
      BY <3>1 DEF Store!OnDisk
    <3>3. saves'[t].text = {} /\ saves'[t].next = "text"
      BY <3>1, BegunIsRow
    <3> QED
      BY <1>4, <3>2, <3>3 DEF SaveOk
  <2>4. saves'[Store!First] # None => names["file"]' = None
    BY <1>1, <1>2, <1>3
  <2>5. Store!OnDisk \subseteq made
    BY <2>1 DEF FilesInv
  <2>6. FilesInv'
    BY <1>1, <1>4, <2>1, <2>3, <2>4, <2>5 DEF FilesInv
  <2> QED
    BY <2>2, <2>6
<1> QED
  BY <1>1, <1>5, <1>6, <1>7, <1>8 DEF StoreInv

LEMMA StoreStaysInv ==
  ASSUME StoreInv,
         UNCHANGED <<store, memory, made, saves, chain, rejected, names, inodes, overlapped>>
  PROVE  StoreInv' /\ UNCHANGED <<memory, Store!Disk>>
<1>1. UNCHANGED <<Store!Disk, Store!OnDisk, Store!IsLoadable>>
  BY DEF Store!Disk, Store!OnDisk, Store!IsLoadable
<1>2. StoreTypes' /\ FreshInv' /\ OneSaveInv'
  BY DEF StoreInv, StoreTypes, FreshInv, OneSaveInv, Waits, Store!At, Store!Running,
         Store!IsQueued
<1>3. ~overlapped' => FilesInv'
  BY <1>1 DEF StoreInv, FilesInv, SaveOk, Store!Running
<1> QED
  BY <1>1, <1>2, <1>3 DEF StoreInv

\* A step of the run keeps the invariant, and is a step of AtomicStore or leaves
\* what it sees alone.
LEMMA StoreNextInv ==
  ASSUME StoreInv, [NodeNext]_nodeVars
  PROVE  /\ StoreInv'
         /\ (store = "files" => ~overlapped') =>
              Store!Atomic!Next \/ UNCHANGED <<memory, Store!Disk>>
<1>1. (store = "files" => ~overlapped') => ~overlapped
  <2>1. overlapped => store = "files"
    BY DEF StoreInv, OneSaveInv, Store!IsQueued
  <2>2. overlapped => overlapped'
    BY DEF NodeNext, nodeVars, storeVars, Store!Next, Store!Crash, Store!MakeChange,
           Store!MakeText, Store!OpenFile, Store!WriteFile, Store!Rename, Store!SaveFails
  <2> QED
    BY <2>1, <2>2
<1>2. CASE Store!Crash
  BY <1>1, <1>2, StoreCrashStep DEF Store!Atomic!Next
<1>3. ASSUME NEW c \in Store!Change, Store!MakeChange(c) PROVE StoreInv' /\
        (~overlapped => Store!Atomic!Next)
  BY <1>3, MakeChangeStep DEF Store!Atomic!Next
<1>4. ASSUME NEW s \in Store!Saver, Store!MakeText(s)
      PROVE  StoreInv' /\ UNCHANGED <<memory, Store!Disk>>
  BY <1>4, MakeTextStep
<1>5. ASSUME NEW s \in Store!Saver, Store!OpenFile(s) \/ Store!WriteFile(s)
      PROVE  StoreInv' /\ (~overlapped => UNCHANGED <<memory, Store!Disk>>)
  BY <1>5, OpenFileStep, WriteFileStep
<1>6. ASSUME NEW s \in Store!Saver, Store!Rename(s)
      PROVE  StoreInv' /\ (~overlapped => Store!Atomic!Next)
  BY <1>6, RenameStep DEF Store!Atomic!Next
<1>7. ASSUME NEW s \in Store!Saver, Store!SaveFails(s)
      PROVE  StoreInv' /\ UNCHANGED <<memory, Store!Disk>>
  BY <1>7, SaveFailsStep
<1>8. CASE UNCHANGED storeVars
  BY <1>8, StoreStaysInv DEF storeVars
<1>9. Store!Next \/ UNCHANGED storeVars
  BY DEF NodeNext, nodeVars
<1> QED
  BY <1>1, <1>2, <1>3, <1>4, <1>5, <1>6, <1>7, <1>8, <1>9 DEF Store!Next

LEMMA StoreInvariance == NodeSpec => []StoreInv
<1>1. NodeInit => StoreInv
  BY StoreInitInv DEF NodeInit
<1>2. StoreInv /\ [NodeNext]_nodeVars => StoreInv'
  BY StoreNextInv
<1> QED
  BY <1>1, <1>2, PTL DEF NodeSpec

\* JsonStore implements AtomicStore, the eventual save apart: a step of it makes
\* a change, puts into the file, at once, what the store holds, restarts the
\* process from the file, or changes nothing that AtomicStore sees.  In the file
\* store (fileStore.ts), whose saves are not queued, this ends when two overlap.
THEOREM SavesAreOneStep == NodeSpec => Store!SavesAreAtomic
<1>1. StoreInv /\ [NodeNext]_nodeVars =>
        [(store = "files" => ~overlapped') => Store!Atomic!Next]_<<memory, Store!Disk>>
  BY StoreNextInv
<1>2. NodeSpec => [][NodeNext]_nodeVars
  BY PTL DEF NodeSpec
<1> QED
  BY <1>1, <1>2, StoreInvariance, PTL DEF Store!SavesAreAtomic

=============================================================================
