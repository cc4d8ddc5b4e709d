--------------------------- MODULE DesktopProofs ---------------------------
(***************************************************************************)
(* Proofs about the desktop application, for any messages, calls, captures *)
(* and requests: that only the message asked for last is heard, that a     *)
(* voice call that is muted or over neither hears nor sends anything, that *)
(* a chat is not sent once its user was told of it, and that the page of   *)
(* the memories shows what was searched for and changed.  Each part has an *)
(* inductive invariant of its own: the parts share no state.               *)
(***************************************************************************)
EXTENDS MCDesktop, Sequences, TLAPS

----------------------------------------------------------------------------
(* Spoken messages (VoicePlayback) *)

PlaybackTypes ==
  /\ generation \in Nat
  /\ made \in Seq(Voice!CallRecord) /\ Len(made) <= MaxCalls
  /\ audio \in {0} \cup DOMAIN made
  /\ sounds \in [Voice!Call -> {"none", "starting", "playing", "paused"}]
  /\ \A c \in Voice!Call : sounds[c] # "none" => c \in DOMAIN made
  /\ phase \in {"idle", "loading", "speaking", "paused", "error"}
  /\ overlapped \in BOOLEAN

\* The second half of a speak() gives its call a number of its own, not above
\* the counter, which the first half of any later call raises.
NumberedInv ==
  /\ \A c \in DOMAIN made : made[c].generation <= generation
  /\ \A c, d \in DOMAIN made :
       made[c].generation = made[d].generation /\ made[c].generation # 0 => c = d
  /\ made # <<>> => generation > 0
  /\ \A c \in DOMAIN made : made[c].at = "synthesizing" => made[c].generation # 0

IsLast(c) == made[c].generation = generation

\* Unless a call came between the halves of a speak(): what sounds, or will,
\* is of the call with the last number and stop() reaches it; while a call
\* waits for the answer to a cancellation nothing sounds, or will.
HeardInv ==
  /\ \A c \in Voice!Call : sounds[c] # "none" => IsLast(c) /\ Voice!Silenced(c)
  /\ audio # 0 => IsLast(audio)
  /\ \A c \in DOMAIN made : made[c].at = "stopping" =>
       /\ audio = 0 /\ \A d \in Voice!Call : sounds[d] = "none"
       /\ \A d \in DOMAIN made : made[d].at = "synthesizing" => ~IsLast(d)
       /\ made[c].message # "stop" => c = Len(made)
  /\ \A c \in Voice!Call : sounds[c] = "playing" => phase # "idle"

PlaybackInv == PlaybackTypes /\ NumberedInv /\ (~overlapped => HeardInv)

----------------------------------------------------------------------------
(* Voice calls (VoiceCall) *)

CaptureTypes ==
  /\ captures \in [Captures -> Talking!Capture]
  /\ capture \in Captures \cup {None} /\ request \in Captures \cup {None}
  /\ active \in BOOLEAN /\ muted \in BOOLEAN /\ raced \in BOOLEAN
  /\ capture # None => captures[capture].at = "recording"
  /\ \A c \in Captures : captures[c].at = "resuming" => captures[c].mic

\* Unless a start was disturbed: one start at a time is under way, and none
\* while a capture is known; a microphone that is on is of one of the two, and
\* of a call that listens.  No audio context was closed under a start.
MicrophoneInv ==
  /\ \A c \in Captures : captures[c].mic => captures[c].at = "resuming" \/ capture = c
  /\ \A c, d \in Talking!Starting : c = d
  /\ Talking!Starting # {} => capture = None
  /\ ~Talking!Listens => \A c \in Captures : ~captures[c].mic
  /\ \A c \in Captures : ~captures[c].closed

\* What the request is: an utterance that is transcribed for a call that
\* listens, or one that slipped through; or one that is over, of a call that
\* ended.
GoodRequest ==
  request # None =>
    /\ captures[request].at \in {"transcribing", "none"} /\ ~captures[request].cancelled
    /\ captures[request].at = "transcribing" => Talking!Listens \/ captures[request].slipped

\* A capture that was cancelled is being transcribed, and not the request any
\* more; the bytes of one are read while the call listens, unless it slips
\* through.
CancelInv ==
  /\ GoodRequest
  /\ \A c \in Captures : captures[c].cancelled => captures[c].at = "transcribing"
  /\ \A c \in Captures :
       captures[c].at = "reading" => Talking!Listens \/ captures[c].slipped

CallInv == CaptureTypes /\ (~raced => MicrophoneInv) /\ CancelInv

----------------------------------------------------------------------------
(* Chats over the relay (AppSocket) *)

\* A request whose user was told of it is over; one that is pending waits for
\* the connection or for its answer; a socket that opens is of a request that
\* is not over.
SentInv ==
  /\ calls \in [Requests -> Call \cup {None}]
  /\ sockets \in [Requests -> [Url -> {"none", "connecting", "open", "closed"}]]
  /\ \A r \in Requests : told[r] # "nothing" => calls[r] = None
  /\ \A r \in pending :
       r \in Requests /\ (At(r, "awaiting") \/ (At(r, "opening") /\ ~calls[r].refused))
  /\ \A r \in Requests, u \in Url :
       sockets[r][u] = "connecting" => At(r, "trying") /\ calls[r].url = u

----------------------------------------------------------------------------
(* The steps of spoken messages *)

\* What the definitions say of a call that was made.
LEMMA MadeCall ==
  ASSUME PlaybackTypes
  PROVE  /\ Len(made) \in Nat /\ DOMAIN made = 1..Len(made)
         /\ DOMAIN made \subseteq Voice!Call /\ 0 \notin Voice!Call
         /\ \A c \in DOMAIN made :
              /\ made[c] \in Voice!CallRecord /\ made[c].generation \in Nat
              /\ made[c].message \in Messages \cup {"stop"}
              /\ made[c].at \in {"stopping", "synthesizing", "over"}
<1>1. made \in Seq(Voice!CallRecord) /\ Len(made) <= MaxCalls
  BY DEF PlaybackTypes
<1>2. \A c \in DOMAIN made : made[c] \in Voice!CallRecord
  BY <1>1
<1>3. Len(made) \in Nat /\ DOMAIN made = 1..Len(made)
  BY <1>1
<1> QED
  BY <1>1, <1>2, <1>3, BoundsAssumption DEF Voice!CallRecord, Voice!Call

\* A cancellation silences everything, and no synthesis is of the last call.
LEMMA BeginStopStep ==
  ASSUME PlaybackInv, NEW m \in Messages \cup {"stop"}, Voice!BeginStop(m)
  PROVE  PlaybackInv'
<1> USE DEF PlaybackInv
<1> DEFINE n == Len(made)
           waits == m # "stop" \/ requestId # 0
           rec == [message |-> m, generation |-> 0,
                   at |-> IF waits THEN "stopping" ELSE "over"]
<1>1. /\ n < MaxCalls /\ generation' = generation + 1 /\ audio' = 0
      /\ sounds' = [c \in Voice!Call |-> IF Voice!Silenced(c) THEN "none" ELSE sounds[c]]
      /\ made' = Append(made, rec)
      /\ phase' \in {phase, "idle"}
      /\ overlapped' = (overlapped \/
           \E c \in DOMAIN made : Voice!At(c, "stopping") /\ made[c].message # "stop")
  BY DEF Voice!BeginStop
<1>2. /\ n \in Nat /\ DOMAIN made = 1..n /\ made \in Seq(Voice!CallRecord)
      /\ DOMAIN made \subseteq Voice!Call /\ generation \in Nat
      /\ \A c \in DOMAIN made : made[c].generation \in Nat
  BY MadeCall DEF PlaybackTypes
<1>3. /\ rec \in Voice!CallRecord /\ rec.generation = 0 /\ rec.at \in {"stopping", "over"}
  BY DEF Voice!CallRecord
<1> HIDE DEF rec
<1>4. /\ made' \in Seq(Voice!CallRecord) /\ Len(made') = n + 1 /\ DOMAIN made' = 1..(n + 1)
      /\ \A c \in 1..n : made'[c] = made[c]
      /\ made'[n + 1] = rec
  BY <1>1, <1>2, <1>3
<1>5. PlaybackTypes'
  <2>1. /\ generation' \in Nat /\ Len(made') <= MaxCalls /\ audio' \in {0} \cup DOMAIN made'
    BY <1>1, <1>2, <1>4, BoundsAssumption
  <2>2. /\ sounds' \in [Voice!Call -> {"none", "starting", "playing", "paused"}]
        /\ \A c \in Voice!Call : sounds'[c] # "none" => c \in DOMAIN made'
    BY <1>1, <1>2, <1>4 DEF PlaybackTypes
  <2>3. /\ phase' \in {"idle", "loading", "speaking", "paused", "error"}
        /\ overlapped' \in BOOLEAN
    BY <1>1 DEF PlaybackTypes
  <2> QED
    BY <1>4, <2>1, <2>2, <2>3 DEF PlaybackTypes
<1>6. NumberedInv'
  <2>1. \A c \in DOMAIN made' : c = n + 1 \/ (c \in DOMAIN made /\ made'[c] = made[c])
    BY <1>2, <1>4
  <2>2. \A c \in DOMAIN made' : made'[c].generation <= generation'
    BY <1>1, <1>2, <1>3, <1>4, <2>1 DEF NumberedInv
  <2>3. \A c, d \in DOMAIN made' :
          made'[c].generation = made'[d].generation /\ made'[c].generation # 0 => c = d
    BY <1>3, <1>4, <2>1 DEF NumberedInv
  <2>4. generation' > 0
    BY <1>1, <1>2
  <2>5. \A c \in DOMAIN made' : made'[c].at = "synthesizing" => made'[c].generation # 0
    BY <1>3, <1>4, <2>1 DEF NumberedInv
  <2> QED
    BY <2>2, <2>3, <2>4, <2>5 DEF NumberedInv
<1>7. ASSUME ~overlapped' PROVE HeardInv'
  <2>1. /\ HeardInv
        /\ \A c \in DOMAIN made : made[c].at = "stopping" => made[c].message = "stop"
    BY <1>1, <1>7 DEF Voice!At
  <2>2. \A c \in Voice!Call : sounds'[c] = "none"
    BY <1>1, <2>1 DEF HeardInv
  <2>3. \A d \in DOMAIN made' : made'[d].at = "synthesizing" => ~IsLast(d)'
    <3> SUFFICES ASSUME NEW d \in DOMAIN made', made'[d].at = "synthesizing"
                 PROVE  made'[d].generation # generation'
      BY DEF IsLast
    <3>1. d \in DOMAIN made /\ made'[d] = made[d]
      BY <1>2, <1>3, <1>4
    <3> QED
      BY <1>1, <1>2, <3>1 DEF NumberedInv
  <2>4. ASSUME NEW c \in DOMAIN made', made'[c].at = "stopping", made'[c].message # "stop"
        PROVE  c = Len(made')
    BY <1>2, <1>4, <2>1, <2>4
  <2> QED
    BY <1>1, <2>2, <2>3, <2>4 DEF HeardInv
<1> QED
  BY <1>5, <1>6, <1>7

\* A call whose state changes keeps the rest of its record.
LEMMA CallGoesOn ==
  ASSUME PlaybackTypes, NEW c \in DOMAIN made, NEW at \in {"synthesizing", "over"},
         NEW g \in Nat,
         made' = [made EXCEPT ![c] = [made[c] EXCEPT !.at = at, !.generation = g]]
  PROVE  /\ made' \in Seq(Voice!CallRecord) /\ Len(made') = Len(made)
         /\ DOMAIN made' = DOMAIN made
         /\ made'[c].message = made[c].message
         /\ made'[c].at = at /\ made'[c].generation = g
         /\ \A d \in DOMAIN made \ {c} : made'[d] = made[d]
         /\ \A d \in Voice!Call : Voice!IsSystem(d)' <=> Voice!IsSystem(d)
<1> DEFINE rec == [made[c] EXCEPT !.at = at, !.generation = g]
<1>1. made \in Seq(Voice!CallRecord) /\ made[c] \in Voice!CallRecord
  BY MadeCall DEF PlaybackTypes
<1>2. /\ rec \in Voice!CallRecord /\ rec.message = made[c].message
      /\ rec.at = at /\ rec.generation = g
  BY <1>1 DEF Voice!CallRecord
<1> HIDE DEF rec
<1>3. made' = [made EXCEPT ![c] = rec]
  BY DEF rec
<1>4. /\ made' \in Seq(Voice!CallRecord) /\ Len(made') = Len(made)
      /\ DOMAIN made' = DOMAIN made /\ made'[c] = rec
      /\ \A d \in DOMAIN made \ {c} : made'[d] = made[d]
  BY <1>1, <1>2, <1>3
<1> QED
  BY <1>2, <1>4 DEF Voice!IsSystem

\* Two calls that have the last number are one.
LEMMA LastIsOne ==
  ASSUME PlaybackTypes, NumberedInv, NEW c \in DOMAIN made, NEW d \in DOMAIN made,
         IsLast(c), IsLast(d)
  PROVE  c = d
<1>1. made # <<>>
  BY MadeCall
<1>2. generation # 0
  BY <1>1 DEF PlaybackTypes, NumberedInv
<1> QED
  BY <1>2 DEF NumberedInv, IsLast

\* A call that is over keeps its number.
LEMMA CallIsOver ==
  ASSUME PlaybackTypes, NumberedInv, NEW c \in DOMAIN made,
         made' = [made EXCEPT ![c] = [made[c] EXCEPT !.at = "over"]],
         generation' = generation
  PROVE  /\ made' \in Seq(Voice!CallRecord) /\ Len(made') = Len(made)
         /\ DOMAIN made' = DOMAIN made /\ made'[c].at = "over"
         /\ \A d \in DOMAIN made \ {c} : made'[d] = made[d]
         /\ \A d \in DOMAIN made : /\ made'[d].generation = made[d].generation
                                   /\ made'[d].message = made[d].message
                                   /\ made'[d].at \in {made[d].at, "over"}
         /\ \A d \in Voice!Call : Voice!IsSystem(d)' <=> Voice!IsSystem(d)
         /\ NumberedInv'
<1>1. made[c] \in Voice!CallRecord /\ made[c].generation \in Nat
  BY MadeCall
<1>2. made' = [made EXCEPT ![c] = [made[c] EXCEPT !.at = "over", !.generation = made[c].generation]]
  BY <1>1 DEF Voice!CallRecord
<1>3. /\ made' \in Seq(Voice!CallRecord) /\ Len(made') = Len(made)
      /\ DOMAIN made' = DOMAIN made
      /\ made'[c].message = made[c].message
      /\ made'[c].at = "over" /\ made'[c].generation = made[c].generation
      /\ \A d \in DOMAIN made \ {c} : made'[d] = made[d]
      /\ \A d \in Voice!Call : Voice!IsSystem(d)' <=> Voice!IsSystem(d)
  BY <1>1, <1>2, CallGoesOn
<1>4. \A d \in DOMAIN made : /\ made'[d].generation = made[d].generation
                             /\ made'[d].message = made[d].message
                             /\ made'[d].at \in {made[d].at, "over"}
  BY <1>3
<1>5. NumberedInv'
  <2>1. made' # <<>> => made # <<>>
    BY MadeCall
  <2> QED
    BY <1>3, <1>4, <2>1 DEF NumberedInv
<1> QED
  BY <1>3, <1>4, <1>5

LEMMA StopEndsStep ==
  ASSUME PlaybackInv, NEW c \in DOMAIN made, Voice!StopEnds(c)
  PROVE  PlaybackInv'
<1> USE DEF PlaybackInv
<1>1. /\ made[c].at = "stopping" /\ phase' = "idle"
      /\ UNCHANGED <<generation, audio, sounds, overlapped>>
      /\ made' = [made EXCEPT ![c] = [made[c] EXCEPT !.at = "over"]]
  BY DEF Voice!StopEnds, Voice!At
<1>2. /\ made' \in Seq(Voice!CallRecord) /\ Len(made') = Len(made)
      /\ DOMAIN made' = DOMAIN made /\ made'[c].at = "over"
      /\ \A d \in DOMAIN made : /\ made'[d].generation = made[d].generation
                                /\ made'[d].message = made[d].message
                                /\ made'[d].at \in {made[d].at, "over"}
      /\ NumberedInv'
  BY <1>1, CallIsOver
<1>3. PlaybackTypes'
  BY <1>1, <1>2 DEF PlaybackTypes
<1>4. ASSUME ~overlapped' PROVE HeardInv'
  <2>1. HeardInv
    BY <1>1, <1>4
  <2>2. audio' = 0 /\ \A d \in Voice!Call : sounds'[d] = "none"
    BY <1>1, <2>1 DEF HeardInv
  <2>3. \A d \in DOMAIN made' : made'[d].at = "synthesizing" => ~IsLast(d)'
    BY <1>1, <1>2, <2>1 DEF HeardInv, IsLast
  <2>4. \A d \in DOMAIN made' : made'[d].at = "stopping" /\ made'[d].message # "stop" =>
          d = Len(made')
    BY <1>1, <1>2, <2>1 DEF HeardInv
  <2> QED
    BY <2>2, <2>3, <2>4 DEF HeardInv
<1> QED
  BY <1>2, <1>3, <1>4

LEMMA SpeakGoesOnStep ==
  ASSUME PlaybackInv, NEW c \in DOMAIN made, Voice!SpeakGoesOn(c)
  PROVE  PlaybackInv'
<1> USE DEF PlaybackInv
<1> DEFINE ready == made[c].message \in SystemVoice \cup cache
<1>1. /\ made[c].at = "stopping" /\ made[c].message # "stop"
      /\ \A k \in DOMAIN made : k < c => made[k].at # "stopping"
      /\ generation' = generation + 1 /\ phase' = "loading" /\ UNCHANGED overlapped
      /\ IF ready THEN Voice!Play(c) ELSE UNCHANGED <<sounds, audio>>
  BY DEF Voice!SpeakGoesOn, Voice!At, Voice!Earlier
<1>2. made[c] \in Voice!CallRecord /\ generation \in Nat /\ c \in Voice!Call /\ c # 0
  BY MadeCall DEF PlaybackTypes
<1>3. PICK at \in {"synthesizing", "over"} :
        made' = [made EXCEPT ![c] = [made[c] EXCEPT !.at = at, !.generation = generation + 1]]
  <2> DEFINE at == IF ready THEN "over" ELSE "synthesizing"
  <2>1. made' = [made EXCEPT ![c].generation = generation + 1, ![c].at = at]
    BY DEF Voice!SpeakGoesOn
  <2>2. at \in {"synthesizing", "over"}
    OBVIOUS
  <2> HIDE DEF at
  <2>3. made' = [made EXCEPT ![c] = [made[c] EXCEPT !.at = at, !.generation = generation + 1]]
    BY <1>2, <2>1, MadeCall DEF PlaybackTypes, Voice!CallRecord
  <2> QED
    BY <2>2, <2>3
<1>4. /\ made' \in Seq(Voice!CallRecord) /\ Len(made') = Len(made)
      /\ DOMAIN made' = DOMAIN made
      /\ made'[c].message = made[c].message
      /\ made'[c].at # "stopping" /\ made'[c].generation = generation'
      /\ \A d \in DOMAIN made \ {c} : made'[d] = made[d]
      /\ \A d \in Voice!Call : Voice!IsSystem(d)' <=> Voice!IsSystem(d)
  <2>1. PICK g \in Nat : g = generation + 1
    BY <1>2
  <2>2. made' = [made EXCEPT ![c] = [made[c] EXCEPT !.at = at, !.generation = g]]
    BY <1>3, <2>1
  <2>3. /\ made' \in Seq(Voice!CallRecord) /\ Len(made') = Len(made)
        /\ DOMAIN made' = DOMAIN made
        /\ made'[c].message = made[c].message
        /\ made'[c].at = at /\ made'[c].generation = g
        /\ \A d \in DOMAIN made \ {c} : made'[d] = made[d]
        /\ \A d \in Voice!Call : Voice!IsSystem(d)' <=> Voice!IsSystem(d)
    BY <2>2, CallGoesOn
  <2>4. at # "stopping" /\ generation' = g
    BY <1>1, <2>1
  <2> QED
    BY <2>3, <2>4
<1>5. \/ audio' = audio /\ sounds' = sounds
      \/ /\ sounds' = [sounds EXCEPT ![c] = "starting"]
         /\ audio' = IF Voice!IsSystem(c) THEN audio ELSE c
  BY <1>1 DEF Voice!Play
<1>6. PlaybackTypes'
  <2>1. /\ sounds' \in [Voice!Call -> {"none", "starting", "playing", "paused"}]
        /\ \A d \in Voice!Call : sounds'[d] # "none" => d \in DOMAIN made'
        /\ audio' \in {0} \cup DOMAIN made'
    BY <1>2, <1>4, <1>5 DEF PlaybackTypes
  <2> QED
    BY <1>1, <1>2, <1>4, <2>1 DEF PlaybackTypes
<1>7. NumberedInv'
  <2>1. \A d \in DOMAIN made \ {c} : made'[d] = made[d] /\ made[d].generation < generation'
    BY <1>1, <1>2, <1>4, MadeCall DEF NumberedInv
  <2>2. \A d \in DOMAIN made' : made'[d].generation <= generation'
    BY <1>1, <1>2, <1>4, <2>1, MadeCall
  <2>3. ASSUME NEW d \in DOMAIN made', NEW e \in DOMAIN made',
               made'[d].generation = made'[e].generation, made'[d].generation # 0
        PROVE  d = e
    <3>1. \A f \in DOMAIN made \ {c} : made'[f].generation # generation'
      BY <1>1, <1>2, <2>1, MadeCall
    <3>2. CASE d = c \/ e = c
      BY <1>4, <2>3, <3>1, <3>2
    <3>3. CASE d # c /\ e # c
      BY <1>4, <2>1, <2>3, <3>3 DEF NumberedInv
    <3> QED
      BY <3>2, <3>3
  <2>4. generation' > 0
    BY <1>1, <1>2
  <2>5. \A d \in DOMAIN made' : made'[d].at = "synthesizing" => made'[d].generation # 0
    BY <1>4, <2>1, <2>4 DEF NumberedInv
  <2> QED
    BY <2>2, <2>3, <2>4, <2>5 DEF NumberedInv
<1>8. ASSUME ~overlapped' PROVE HeardInv'
  <2>1. HeardInv /\ c = Len(made) /\ audio = 0 /\ \A d \in Voice!Call : sounds[d] = "none"
    BY <1>1, <1>8 DEF HeardInv
  <2>2. \A d \in Voice!Call : sounds'[d] # "none" =>
          d = c /\ sounds'[d] = "starting" /\ (d = audio' \/ Voice!IsSystem(d))
    BY <1>2, <1>5, <2>1 DEF PlaybackTypes
  <2>3. \A d \in Voice!Call : sounds'[d] # "none" => IsLast(d)' /\ Voice!Silenced(d)'
    BY <1>4, <2>2 DEF IsLast, Voice!Silenced
  <2>4. audio' # 0 => IsLast(audio)'
    BY <1>4, <1>5, <2>1 DEF IsLast
  <2>5. \A d \in DOMAIN made' : made'[d].at # "stopping"
    BY <1>1, <1>4, <2>1, MadeCall
  <2> QED
    BY <2>2, <2>3, <2>4, <2>5 DEF HeardInv
<1> QED
  BY <1>6, <1>7, <1>8

\* A synthesis that ends is heard if its call is the last one, and then
\* nothing else sounds.
LEMMA SynthesizedStep ==
  ASSUME PlaybackInv, NEW c \in DOMAIN made, Voice!Synthesized(c)
  PROVE  PlaybackInv'
<1> USE DEF PlaybackInv
<1>1. /\ made[c].at = "synthesizing"
      /\ UNCHANGED <<generation, phase, overlapped>>
      /\ made' = [made EXCEPT ![c] = [made[c] EXCEPT !.at = "over"]]
      /\ IF IsLast(c) THEN Voice!Play(c) ELSE UNCHANGED <<sounds, audio>>
  BY DEF Voice!Synthesized, Voice!At, Voice!IsLatest, IsLast
<1>2. /\ made' \in Seq(Voice!CallRecord) /\ Len(made') = Len(made)
      /\ DOMAIN made' = DOMAIN made /\ made'[c].at = "over"
      /\ \A d \in DOMAIN made : /\ made'[d].generation = made[d].generation
                                /\ made'[d].message = made[d].message
                                /\ made'[d].at \in {made[d].at, "over"}
      /\ \A d \in Voice!Call : Voice!IsSystem(d)' <=> Voice!IsSystem(d)
      /\ NumberedInv'
  BY <1>1, CallIsOver
<1>3. c \in Voice!Call /\ c # 0 /\ DOMAIN made \subseteq Voice!Call
  BY MadeCall
<1>4. \A d \in DOMAIN made : IsLast(d)' <=> IsLast(d)
  BY <1>1, <1>2 DEF IsLast
<1>5. ASSUME ~IsLast(c) PROVE PlaybackInv'
  <2>1. UNCHANGED <<sounds, audio>>
    BY <1>1, <1>5
  <2>2. PlaybackTypes'
    BY <1>1, <1>2, <2>1 DEF PlaybackTypes
  <2>3. ASSUME ~overlapped' PROVE HeardInv'
    <3>1. HeardInv
      BY <1>1, <2>3
    <3>2. \A d \in Voice!Call : sounds'[d] # "none" => IsLast(d)' /\ Voice!Silenced(d)'
      BY <1>2, <1>4, <2>1, <3>1 DEF HeardInv, Voice!Silenced, PlaybackTypes
    <3>3. audio' # 0 => IsLast(audio)'
      BY <1>1, <1>2, <2>1, <3>1 DEF HeardInv, IsLast, PlaybackTypes
    <3>4. \A k \in DOMAIN made' : made'[k].at = "stopping" =>
            /\ audio' = 0 /\ \A d \in Voice!Call : sounds'[d] = "none"
            /\ \A d \in DOMAIN made' : made'[d].at = "synthesizing" => ~IsLast(d)'
            /\ made'[k].message # "stop" => k = Len(made')
      BY <1>2, <1>4, <2>1, <3>1 DEF HeardInv
    <3>5. \A d \in Voice!Call : sounds'[d] = "playing" => phase' # "idle"
      BY <1>1, <2>1, <3>1 DEF HeardInv
    <3> QED
      BY <3>2, <3>3, <3>4, <3>5 DEF HeardInv
  <2> QED
    BY <1>2, <2>2, <2>3
<1>6. ASSUME IsLast(c) PROVE PlaybackInv'
  <2>1. /\ sounds' = [sounds EXCEPT ![c] = "starting"]
        /\ audio' = IF Voice!IsSystem(c) THEN audio ELSE c
    BY <1>1, <1>6 DEF Voice!Play
  <2>2. /\ sounds' \in [Voice!Call -> {"none", "starting", "playing", "paused"}]
        /\ \A d \in Voice!Call : sounds'[d] # "none" => d \in DOMAIN made'
        /\ audio' \in {0} \cup DOMAIN made'
    BY <1>2, <1>3, <2>1 DEF PlaybackTypes
  <2>3. PlaybackTypes'
    BY <1>1, <1>2, <2>2 DEF PlaybackTypes
  <2>4. ASSUME ~overlapped' PROVE HeardInv'
    <3>1. HeardInv
      BY <1>1, <2>4
    <3>2. \A d \in Voice!Call : sounds[d] # "none" => d = c
      BY <1>6, <3>1, LastIsOne DEF HeardInv, PlaybackTypes
    <3>3. \A d \in Voice!Call : sounds'[d] # "none" =>
            d = c /\ sounds'[d] = "starting" /\ (d = audio' \/ Voice!IsSystem(d))
      BY <1>3, <2>1, <3>2 DEF PlaybackTypes
    <3>4. \A d \in Voice!Call : sounds'[d] # "none" => IsLast(d)' /\ Voice!Silenced(d)'
      BY <1>2, <1>4, <1>6, <3>3 DEF Voice!Silenced
    <3>5. audio' # 0 => IsLast(audio)'
      <4>1. CASE audio' = c
        BY <1>1, <1>2, <1>6, <4>1 DEF IsLast
      <4>2. CASE audio' = audio
        BY <1>1, <1>2, <3>1, <4>2 DEF HeardInv, IsLast, PlaybackTypes
      <4> QED
        BY <2>1, <4>1, <4>2
    <3>6. \A d \in DOMAIN made' : made'[d].at # "stopping"
      BY <1>1, <1>2, <1>6, <3>1 DEF HeardInv
    <3> QED
      BY <3>3, <3>4, <3>5, <3>6 DEF HeardInv
  <2> QED
    BY <1>2, <2>3, <2>4
<1> QED
  BY <1>5, <1>6

LEMMA NotSynthesizedStep ==
  ASSUME PlaybackInv, NEW c \in DOMAIN made, Voice!NotSynthesized(c)
  PROVE  PlaybackInv'
<1> USE DEF PlaybackInv
<1>1. /\ made[c].at = "synthesizing" /\ phase' \in {phase, "error"}
      /\ UNCHANGED <<generation, audio, sounds, overlapped>>
      /\ made' = [made EXCEPT ![c] = [made[c] EXCEPT !.at = "over"]]
  BY DEF Voice!NotSynthesized, Voice!At
<1>2. /\ made' \in Seq(Voice!CallRecord) /\ Len(made') = Len(made)
      /\ DOMAIN made' = DOMAIN made /\ made'[c].at = "over"
      /\ \A d \in DOMAIN made : /\ made'[d].generation = made[d].generation
                                /\ made'[d].message = made[d].message
                                /\ made'[d].at \in {made[d].at, "over"}
      /\ \A d \in Voice!Call : Voice!IsSystem(d)' <=> Voice!IsSystem(d)
      /\ NumberedInv'
  BY <1>1, CallIsOver
<1>3. \A d \in DOMAIN made : IsLast(d)' <=> IsLast(d)
  BY <1>1, <1>2 DEF IsLast
<1>4. PlaybackTypes'
  BY <1>1, <1>2 DEF PlaybackTypes
<1>5. ASSUME ~overlapped' PROVE HeardInv'
  <2>1. HeardInv
    BY <1>1, <1>5
  <2>2. \A d \in Voice!Call : sounds'[d] # "none" => IsLast(d)' /\ Voice!Silenced(d)'
    BY <1>1, <1>2, <1>3, <2>1 DEF HeardInv, Voice!Silenced, PlaybackTypes
  <2>3. audio' # 0 => IsLast(audio)'
    BY <1>1, <1>2, <2>1 DEF HeardInv, IsLast, PlaybackTypes
  <2>4. \A k \in DOMAIN made' : made'[k].at = "stopping" =>
          /\ audio' = 0 /\ \A d \in Voice!Call : sounds'[d] = "none"
          /\ \A d \in DOMAIN made' : made'[d].at = "synthesizing" => ~IsLast(d)'
          /\ made'[k].message # "stop" => k = Len(made')
    BY <1>1, <1>2, <1>3, <2>1 DEF HeardInv
  <2>5. \A d \in Voice!Call : sounds'[d] = "playing" => phase' # "idle"
    BY <1>1, <2>1 DEF HeardInv
  <2> QED
    BY <2>2, <2>3, <2>4, <2>5 DEF HeardInv
<1> QED
  BY <1>2, <1>4, <1>5

\* An event of a sound leaves no other one behind that plays.
LEMMA EventStep ==
  ASSUME PlaybackInv, NEW c \in DOMAIN made,
         Voice!Starts(c) \/ Voice!Fails(c) \/ Voice!Ends(c)
  PROVE  PlaybackInv'
<1> USE DEF PlaybackInv
<1>1. PICK to \in {"playing", "none"}, shown \in {"speaking", "error", "idle"} :
        /\ sounds[c] # "none" /\ sounds' = [sounds EXCEPT ![c] = to]
        /\ phase' = IF IsLast(c) THEN shown ELSE phase
        /\ to = "playing" => shown = "speaking"
        /\ UNCHANGED <<generation, audio, made, overlapped>>
  BY DEF Voice!Starts, Voice!Fails, Voice!Ends, Voice!Event, Voice!IsLatest, IsLast
<1>2. c \in Voice!Call
  BY MadeCall
<1>3. PlaybackTypes'
  <2>1. /\ sounds' \in [Voice!Call -> {"none", "starting", "playing", "paused"}]
        /\ \A d \in Voice!Call : sounds'[d] # "none" => d \in DOMAIN made
    BY <1>1, <1>2 DEF PlaybackTypes
  <2> QED
    BY <1>1, <2>1 DEF PlaybackTypes
<1>4. NumberedInv'
  BY <1>1 DEF NumberedInv
<1>5. ASSUME ~overlapped' PROVE HeardInv'
  <2>1. HeardInv
    BY <1>1, <1>5
  <2>2. \A d \in Voice!Call : sounds'[d] # "none" => sounds[d] # "none"
    BY <1>1, <1>2 DEF PlaybackTypes
  <2>3. \A d \in Voice!Call : /\ IsLast(d)' <=> IsLast(d)
                              /\ Voice!Silenced(d)' <=> Voice!Silenced(d)
    BY <1>1 DEF IsLast, Voice!Silenced, Voice!IsSystem
  <2>4. audio' # 0 => IsLast(audio)'
    BY <1>1, <2>1 DEF HeardInv, IsLast
  <2>5. \A k \in DOMAIN made' : made'[k].at # "stopping"
    BY <1>1, <1>2, <2>1 DEF HeardInv
  <2>6. \A d \in Voice!Call : sounds[d] # "none" => d = c
    BY <1>1, <1>2, <2>1, LastIsOne DEF HeardInv, PlaybackTypes
  <2>7. \A d \in Voice!Call : sounds'[d] = "playing" => phase' # "idle"
    BY <1>1, <1>2, <2>1, <2>2, <2>6 DEF HeardInv, PlaybackTypes
  <2> QED
    BY <2>1, <2>2, <2>3, <2>4, <2>5, <2>7 DEF HeardInv
<1> QED
  BY <1>3, <1>4, <1>5

\* The pause button changes what sounds, and nothing that does not.
LEMMA PauseStep ==
  ASSUME PlaybackInv, Voice!PauseOrResume
  PROVE  PlaybackInv'
<1> USE DEF PlaybackInv
<1>1. /\ UNCHANGED <<generation, audio, made, overlapped>>
      /\ phase \in {"speaking", "paused"} /\ phase' \in {"speaking", "paused"}
  BY DEF Voice!PauseOrResume
<1>2. /\ sounds' \in [Voice!Call -> {"none", "starting", "playing", "paused"}]
      /\ \A d \in Voice!Call : sounds'[d] # "none" =>
           sounds[d] # "none" \/ (audio # 0 /\ d = audio)
  <2>1. CASE audio # 0
    BY <2>1 DEF Voice!PauseOrResume, PlaybackTypes
  <2>2. CASE audio = 0
    BY <2>2 DEF Voice!PauseOrResume, PlaybackTypes
  <2> QED
    BY <2>1, <2>2
<1>3. PlaybackTypes'
  BY <1>1, <1>2 DEF PlaybackTypes
<1>4. NumberedInv'
  BY <1>1 DEF NumberedInv
<1>5. ASSUME ~overlapped' PROVE HeardInv'
  <2>1. HeardInv
    BY <1>1, <1>5
  <2>2. \A d \in Voice!Call : /\ IsLast(d)' <=> IsLast(d)
                              /\ Voice!Silenced(d)' <=> Voice!Silenced(d)
    BY <1>1 DEF IsLast, Voice!Silenced, Voice!IsSystem
  <2>3. \A d \in Voice!Call : sounds'[d] # "none" => IsLast(d)' /\ Voice!Silenced(d)'
    BY <1>2, <2>1, <2>2 DEF HeardInv, Voice!Silenced
  <2>4. audio' # 0 => IsLast(audio)'
    BY <1>1, <2>1 DEF HeardInv, IsLast
  <2>5. \A k \in DOMAIN made' : made'[k].at = "stopping" =>
          /\ audio' = 0 /\ \A d \in Voice!Call : sounds'[d] = "none"
          /\ \A d \in DOMAIN made' : made'[d].at = "synthesizing" => ~IsLast(d)'
          /\ made'[k].message # "stop" => k = Len(made')
    <3>1. \A d \in DOMAIN made : IsLast(d)' <=> IsLast(d)
      BY <1>1 DEF IsLast
    <3> QED
      BY <1>1, <1>2, <2>1, <3>1 DEF HeardInv, PlaybackTypes
  <2> QED
    BY <1>1, <2>3, <2>4, <2>5 DEF HeardInv
<1> QED
  BY <1>3, <1>4, <1>5

LEMMA VoiceRests ==
  ASSUME PlaybackInv, UNCHANGED voiceVars
  PROVE  PlaybackInv'
BY DEF PlaybackInv, PlaybackTypes, NumberedInv, HeardInv, IsLast, voiceVars,
       Voice!Silenced, Voice!IsSystem

LEMMA VoiceStep ==
  ASSUME PlaybackInv, Voice!Next
  PROVE  PlaybackInv'
<1>1. CASE Voice!Stop
  BY <1>1, BeginStopStep DEF Voice!Stop
<1>2. ASSUME NEW m \in Messages, NEW force \in BOOLEAN, Voice!Speak(m, force)
      PROVE  PlaybackInv'
  BY <1>2, BeginStopStep DEF Voice!Speak
<1>3. CASE Voice!PauseOrResume
  BY <1>3, PauseStep
<1>4. ASSUME NEW c \in DOMAIN made,
             \/ Voice!StopEnds(c) \/ Voice!SpeakGoesOn(c)
             \/ Voice!Synthesized(c) \/ Voice!NotSynthesized(c)
             \/ Voice!Starts(c) \/ Voice!Fails(c) \/ Voice!Ends(c)
      PROVE  PlaybackInv'
  BY <1>4, StopEndsStep, SpeakGoesOnStep, SynthesizedStep, NotSynthesizedStep, EventStep
<1> QED
  BY <1>1, <1>2, <1>3, <1>4 DEF Voice!Next

THEOREM PlaybackInvariance == DesktopSpec => []PlaybackInv
<1>1. DesktopInit => PlaybackInv
  <2>1. 0 \in Nat /\ <<>> \in Seq(Voice!CallRecord) /\ Len(<<>>) = 0 /\ DOMAIN <<>> = {}
    OBVIOUS
  <2>2. ASSUME DesktopInit
        PROVE  /\ generation = 0 /\ audio = 0 /\ phase = "idle" /\ made = <<>>
               /\ sounds = [c \in Voice!Call |-> "none"] /\ overlapped = FALSE
    BY <2>2 DEF DesktopInit, Voice!Init
  <2> QED
    BY <2>1, <2>2, BoundsAssumption
    DEF PlaybackInv, PlaybackTypes, NumberedInv, HeardInv
<1>2. PlaybackInv /\ [DesktopNext]_desktopVars => PlaybackInv'
  BY VoiceStep, VoiceRests DEF DesktopNext, desktopVars
<1> QED
  BY <1>1, <1>2, PTL DEF DesktopSpec

\* While no call comes between the halves of a speak(), what plays is the
\* message of the last call, and something is shown to be spoken.
THEOREM OnlyTheLatestIsHeard == DesktopSpec => []OnlyLatestIsHeard
<1>1. PlaybackInv => OnlyLatestIsHeard
  BY DEF PlaybackInv, HeardInv, IsLast, OnlyLatestIsHeard, Voice!OnlyLatestIsHeard
<1> QED
  BY <1>1, PlaybackInvariance, PTL

----------------------------------------------------------------------------
(* The steps of a voice call *)

CancelledUnsent ==
  \A c \in Captures :
    captures'[c].at = "sending" /\ captures[c].at # "sending" =>
      ~captures[c].cancelled /\ (Talking!Listens \/ captures[c].slipped)

\* A capture that does not record any more, or never did; its microphone stays
\* on only where a start was disturbed.
Leaves(c) ==
  /\ captures'[c].at \notin {"asking", "resuming", "recording"}
  /\ ~raced /\ captures'[c].mic => captures[c].mic /\ captures[c].at \notin {"resuming", "recording"}
  /\ captures'[c].closed => captures[c].closed
  /\ ~captures'[c].cancelled
  /\ captures'[c].at = "sending" =>
       ~captures[c].cancelled /\ (Talking!Listens \/ captures[c].slipped)
  /\ captures'[c].at = "reading" => Talking!Listens

\* Most of the steps end captures, stop the one that is known or let go of it,
\* and start none.
LEMMA LeavesStep ==
  ASSUME CallInv,
         captures' \in [Captures -> Talking!Capture],
         \A c \in Captures : captures'[c] = captures[c] \/ Leaves(c),
         capture' \in {capture, None},
         capture # None /\ capture' # None => captures'[capture] = captures[capture],
         capture # None /\ capture' = None => Leaves(capture),
         request' \in Captures \cup {None}, GoodRequest',
         UNCHANGED <<active, muted, raced>>
  PROVE  CallInv' /\ CancelledUnsent
<1> USE DEF CallInv
<1>1. CaptureTypes'
  <2>1. capture' # None => captures'[capture'].at = "recording"
    BY DEF CaptureTypes
  <2>2. \A c \in Captures : captures'[c].at = "resuming" => captures'[c].mic
    BY DEF CaptureTypes, Leaves
  <2> QED
    BY <2>1, <2>2 DEF CaptureTypes
<1>2. ASSUME ~raced' PROVE MicrophoneInv'
  <2>1. ~raced /\ MicrophoneInv /\ Talking!Listens' = Talking!Listens
    BY <1>2 DEF Talking!Listens
  <2>2. Talking!Starting' \subseteq Talking!Starting
    BY DEF Talking!Starting, Leaves
  <2>3. \A c \in Captures : captures'[c].mic => captures'[c].at = "resuming" \/ capture' = c
    <3> SUFFICES ASSUME NEW c \in Captures, captures'[c].mic
                 PROVE  captures'[c].at = "resuming" \/ capture' = c
      OBVIOUS
    <3>1. captures[c].mic
      BY <2>1 DEF Leaves
    <3>2. captures[c].at = "resuming" \/ capture = c
      BY <2>1, <3>1 DEF MicrophoneInv
    <3>3. ~Leaves(c)
      BY <2>1, <3>2, NoneAssumption DEF Leaves, CaptureTypes
    <3> QED
      BY <3>2, <3>3
  <2>4. ~Talking!Listens' => \A c \in Captures : ~captures'[c].mic
    BY <2>1 DEF MicrophoneInv, Leaves
  <2>5. \A c \in Captures : ~captures'[c].closed
    BY <2>1 DEF MicrophoneInv, Leaves
  <2> QED
    BY <2>1, <2>2, <2>3, <2>4, <2>5 DEF MicrophoneInv
<1>3. CancelInv'
  <2>1. \A c \in Captures : captures'[c].cancelled => captures'[c].at = "transcribing"
    BY DEF CancelInv, Leaves
  <2>2. \A c \in Captures :
          captures'[c].at = "reading" => Talking!Listens' \/ captures'[c].slipped
    BY DEF CancelInv, Leaves, Talking!Listens
  <2> QED
    BY <2>1, <2>2 DEF CancelInv
<1>4. CancelledUnsent
  BY DEF CancelInv, CancelledUnsent, Leaves
<1> QED
  BY <1>1, <1>2, <1>3, <1>4

\* stopVadCapture ends the capture that is known and no other one.
LEMMA StoppedIs ==
  ASSUME CallInv, NEW upload \in BOOLEAN
  PROVE  /\ Talking!Stopped(capture, upload) \in [Captures -> Talking!Capture]
         /\ \A c \in Captures \ {capture} :
              Talking!Stopped(capture, upload)[c] = captures[c]
         /\ \A c \in Captures : c = capture =>
              /\ Talking!Stopped(capture, upload)[c].at \in {"none", "stopping"}
              /\ ~Talking!Stopped(capture, upload)[c].mic
              /\ Talking!Stopped(capture, upload)[c].closed => captures[c].closed
              /\ ~Talking!Stopped(capture, upload)[c].cancelled
<1>1. /\ captures \in [Captures -> Talking!Capture] /\ capture \in Captures \cup {None}
      /\ capture # None => captures[capture].at = "recording" /\ ~captures[capture].cancelled
  BY DEF CallInv, CaptureTypes, CancelInv
<1>2. CASE capture = None
  BY <1>1, <1>2, NoneAssumption DEF Talking!Stopped
<1>3. CASE capture # None
  <2> DEFINE rec == IF upload THEN [captures[capture] EXCEPT !.at = "stopping", !.mic = FALSE]
                              ELSE Talking!NoCapture
  <2>1. Talking!Stopped(capture, upload) = [captures EXCEPT ![capture] = rec]
    BY <1>3 DEF Talking!Stopped
  <2>2. /\ rec \in Talking!Capture /\ rec.at \in {"none", "stopping"}
        /\ ~rec.mic /\ ~rec.cancelled
        /\ rec.closed => captures[capture].closed
    BY <1>1, <1>3 DEF Talking!Capture, Talking!NoCapture
  <2> HIDE DEF rec
  <2> QED
    BY <1>1, <1>3, <2>1, <2>2
<1> QED
  BY <1>2, <1>3

\* One capture goes on, and is not the one that is known.
LEMMA OneLeaves ==
  ASSUME CallInv, NEW c \in Captures,
         captures[c].at \notin {"resuming", "recording"},
         NEW rec \in Talking!Capture,
         rec.at \notin {"asking", "resuming", "recording"},
         rec.mic => captures[c].mic, rec.closed => captures[c].closed, ~rec.cancelled,
         rec.at = "sending" =>
           ~captures[c].cancelled /\ (Talking!Listens \/ captures[c].slipped),
         rec.at = "reading" => Talking!Listens,
         captures' = [captures EXCEPT ![c] = rec],
         \/ request' \in {None, request} \ {c}
         \/ /\ request' = c /\ rec.at \in {"transcribing", "none"}
            /\ rec.at = "transcribing" => Talking!Listens \/ rec.slipped,
         UNCHANGED <<capture, active, muted, raced>>
  PROVE  CallInv' /\ CancelledUnsent
<1>1. /\ captures \in [Captures -> Talking!Capture]
      /\ capture \in Captures \cup {None} /\ request \in Captures \cup {None}
      /\ capture # None => captures[capture].at = "recording"
  BY DEF CallInv, CaptureTypes
<1>2. /\ captures' \in [Captures -> Talking!Capture] /\ captures'[c] = rec
      /\ \A d \in Captures \ {c} : captures'[d] = captures[d]
  BY <1>1
<1>3. Leaves(c)
  BY <1>2 DEF Leaves
<1>4. \A d \in Captures : captures'[d] = captures[d] \/ Leaves(d)
  BY <1>2, <1>3
<1>5. capture # c
  BY <1>1, NoneAssumption
<1>6. capture # None => captures'[capture] = captures[capture]
  BY <1>1, <1>2, <1>5
<1>7. request' \in Captures \cup {None} /\ GoodRequest'
  <2>1. CASE /\ request' = c /\ rec.at \in {"transcribing", "none"}
             /\ rec.at = "transcribing" => Talking!Listens \/ rec.slipped
    BY <1>2, <2>1 DEF GoodRequest, Talking!Listens
  <2>2. CASE request' \in {None, request} \ {c}
    <3>1. request' # None =>
            request' = request /\ request \in Captures \ {c} /\ GoodRequest
      BY <1>1, <2>2 DEF CallInv, CancelInv
    <3> QED
      BY <1>1, <1>2, <2>2, <3>1 DEF GoodRequest, Talking!Listens
  <2> QED
    BY <2>1, <2>2
<1> QED
  BY <1>2, <1>4, <1>6, <1>7, LeavesStep

\* The capture that is known is stopped, and others may end with it.
LEMMA StopLeaves ==
  ASSUME CallInv, NEW upload \in BOOLEAN,
         captures' \in [Captures -> Talking!Capture],
         \A c \in Captures :
           captures'[c] = Talking!Stopped(capture, upload)[c] \/ (Leaves(c) /\ c # request),
         capture' = None, UNCHANGED <<request, active, muted, raced>>
  PROVE  CallInv' /\ CancelledUnsent
<1>1. /\ capture \in Captures \cup {None} /\ request \in Captures \cup {None}
      /\ capture # None => captures[capture].at = "recording"
  BY DEF CallInv, CaptureTypes
<1>2. \A c \in Captures : c = capture => Leaves(c)
  BY StoppedIs DEF Leaves
<1>3. \A c \in Captures : captures'[c] = captures[c] \/ Leaves(c)
  BY <1>2, StoppedIs
<1>4. request' \in Captures \cup {None} /\ GoodRequest'
  <2>1. GoodRequest
    BY DEF CallInv, CancelInv
  <2>2. request # None => captures'[request] = captures[request]
    BY <1>1, <2>1, StoppedIs DEF GoodRequest
  <2> QED
    BY <1>1, <2>1, <2>2 DEF GoodRequest, Talking!Listens
<1> QED
  BY <1>1, <1>2, <1>3, <1>4, LeavesStep

\* Calls, pauses and speech leave the captures as they are.
LEMMA NoCaptureStep ==
  ASSUME CallInv, UNCHANGED <<captures, capture, raced>>,
         active' \in BOOLEAN, muted' \in BOOLEAN, request' = request,
         Talking!Listens => Talking!Listens'
  PROVE  CallInv' /\ CancelledUnsent
<1>1. Talking!Starting' = Talking!Starting
  BY DEF Talking!Starting
<1>2. CaptureTypes' /\ CancelInv'
  BY DEF CallInv, CaptureTypes, CancelInv, GoodRequest
<1>3. ~raced' => MicrophoneInv'
  BY <1>1 DEF CallInv, MicrophoneInv
<1>4. CancelledUnsent
  BY DEF CallInv, CancelInv, CancelledUnsent
<1> QED
  BY <1>2, <1>3, <1>4 DEF CallInv

\* Muting or ending a call; a start that awaits its audio context is disturbed.
LEMMA SilenceStep ==
  ASSUME CallInv, Talking!Silence, active' \in BOOLEAN, muted' \in BOOLEAN
  PROVE  CallInv' /\ CancelledUnsent
<1> DEFINE now == Talking!Stopped(capture, FALSE)
<1>1. /\ now \in [Captures -> Talking!Capture]
      /\ \A c \in Captures \ {capture} : now[c] = captures[c]
      /\ \A c \in Captures : c = capture =>
           /\ now[c].at \in {"none", "stopping"} /\ ~now[c].mic
           /\ now[c].closed => captures[c].closed
           /\ ~now[c].cancelled
  BY StoppedIs
<1>2. /\ captures' = [c \in Captures |->
           IF now[c].at = "resuming" THEN [now[c] EXCEPT !.closed = TRUE]
           ELSE IF now[c].at = "reading" THEN [now[c] EXCEPT !.slipped = TRUE]
           ELSE IF c = request /\ now[c].at = "transcribing" THEN [now[c] EXCEPT !.cancelled = TRUE]
           ELSE now[c]]
      /\ capture' = None /\ request' = None
      /\ raced' = (raced \/ \E c \in Captures : captures[c].at = "resuming")
  BY DEF Talking!Silence
<1> HIDE DEF now
<1>3. /\ captures \in [Captures -> Talking!Capture]
      /\ capture \in Captures \cup {None} /\ request \in Captures \cup {None}
      /\ raced \in BOOLEAN
      /\ capture # None => captures[capture].at = "recording"
      /\ \A c \in Captures : captures[c].at = "resuming" => captures[c].mic
      /\ \A c \in Captures : captures[c].cancelled => captures[c].at = "transcribing"
  BY DEF CallInv, CaptureTypes, CancelInv
<1>4. \A c \in Captures :
        /\ captures'[c] \in Talking!Capture
        /\ captures'[c].at = now[c].at /\ captures'[c].mic = now[c].mic
        /\ now[c].at # "resuming" => captures'[c].closed = now[c].closed
        /\ captures'[c].cancelled => now[c].cancelled \/ now[c].at = "transcribing"
        /\ now[c].at = "reading" => captures'[c].slipped
  <2> SUFFICES ASSUME NEW c \in Captures
               PROVE  /\ captures'[c] \in Talking!Capture
                      /\ captures'[c].at = now[c].at /\ captures'[c].mic = now[c].mic
                      /\ now[c].at # "resuming" => captures'[c].closed = now[c].closed
                      /\ captures'[c].cancelled => now[c].cancelled \/ now[c].at = "transcribing"
                      /\ now[c].at = "reading" => captures'[c].slipped
    OBVIOUS
  <2>1. now[c] \in Talking!Capture
    BY <1>1
  <2>2. CASE now[c].at = "resuming"
    BY <1>2, <2>1, <2>2 DEF Talking!Capture
  <2>3. CASE now[c].at = "reading"
    BY <1>2, <2>1, <2>3 DEF Talking!Capture
  <2>4. CASE now[c].at = "transcribing" /\ c = request
    BY <1>2, <2>1, <2>4 DEF Talking!Capture
  <2>5. CASE now[c].at \notin {"resuming", "reading"} /\ ~(now[c].at = "transcribing" /\ c = request)
    BY <1>2, <2>1, <2>5 DEF Talking!Capture
  <2> QED
    BY <2>2, <2>3, <2>4, <2>5
<1>5. CaptureTypes'
  <2>1. captures' \in [Captures -> Talking!Capture]
    <3>1. captures' = [c \in Captures |-> captures'[c]]
      BY <1>2
    <3> QED
      BY <1>4, <3>1
  <2>2. \A c \in Captures : captures'[c].at = "resuming" => captures'[c].mic
    BY <1>1, <1>3, <1>4
  <2>3. raced' \in BOOLEAN
    BY <1>2, <1>3
  <2> QED
    BY <1>2, <2>1, <2>2, <2>3 DEF CaptureTypes
<1>6. CancelInv'
  <2>1. ASSUME NEW c \in Captures, captures'[c].cancelled
        PROVE  captures'[c].at = "transcribing"
    BY <1>1, <1>3, <1>4, <2>1, NoneAssumption
  <2>2. ASSUME NEW c \in Captures, captures'[c].at = "reading" PROVE captures'[c].slipped
    BY <1>4, <2>2
  <2> QED
    BY <1>2, <2>1, <2>2 DEF CancelInv, GoodRequest
<1>7. ASSUME ~raced' PROVE MicrophoneInv'
  <2>1. ~raced /\ MicrophoneInv /\ \A c \in Captures : captures[c].at # "resuming"
    BY <1>2, <1>7 DEF CallInv
  <2>2. \A c \in Captures : captures'[c].at # "resuming" /\ ~captures'[c].mic
    BY <1>1, <1>4, <2>1 DEF MicrophoneInv
  <2>3. \A c \in Captures : ~captures'[c].closed
    BY <1>1, <1>4, <2>1 DEF MicrophoneInv
  <2>4. \A c, d \in Talking!Starting' : c = d
    <3>1. Talking!Starting' \subseteq Talking!Starting
      BY <1>1, <1>4 DEF Talking!Starting
    <3> QED
      BY <2>1, <3>1 DEF MicrophoneInv
  <2> QED
    BY <1>2, <2>2, <2>3, <2>4 DEF MicrophoneInv
<1>8. CancelledUnsent
  <2>1. ASSUME NEW c \in Captures, captures'[c].at = "sending" PROVE captures[c].at = "sending"
    BY <1>1, <1>4, <2>1
  <2> QED
    BY <2>1 DEF CancelledUnsent
<1> QED
  BY <1>5, <1>6, <1>7, <1>8 DEF CallInv

\* A start begins when the call listens and no capture is known; if another
\* one is under way, both are disturbed.
LEMMA TimerStep ==
  ASSUME CallInv, NEW stale \in BOOLEAN, Talking!TimerFires(stale)
  PROVE  CallInv' /\ CancelledUnsent
<1>1. UNCHANGED <<active, muted, capture, request>>
  BY DEF Talking!TimerFires
<1>2. CASE UNCHANGED <<captures, raced>>
  BY <1>1, <1>2, NoCaptureStep DEF CallInv, CaptureTypes, Talking!Listens
<1>3. ASSUME Talking!MayStart, NEW c \in Captures, captures[c].at = "none",
             captures' = [captures EXCEPT ![c] =
                            [Talking!NoCapture EXCEPT !.at = "asking", !.stale = stale]],
             raced' = (raced \/ Talking!Starting # {})
      PROVE  CallInv' /\ CancelledUnsent
  <2>1. PICK rec \in Talking!Capture :
          /\ captures' = [captures EXCEPT ![c] = rec]
          /\ rec.at = "asking" /\ ~rec.mic /\ ~rec.closed /\ ~rec.cancelled
    <3>1. [Talking!NoCapture EXCEPT !.at = "asking", !.stale = stale] \in Talking!Capture
      BY DEF Talking!NoCapture, Talking!Capture
    <3> QED
      BY <1>3, <3>1 DEF Talking!NoCapture
  <2>2. /\ captures \in [Captures -> Talking!Capture] /\ raced \in BOOLEAN
        /\ capture = None /\ request = None /\ Talking!Listens
    BY <1>3 DEF CallInv, CaptureTypes, Talking!MayStart
  <2>3. /\ captures' \in [Captures -> Talking!Capture] /\ captures'[c] = rec
        /\ \A d \in Captures \ {c} : captures'[d] = captures[d]
    BY <2>1, <2>2
  <2>4. CaptureTypes'
    BY <1>1, <1>3, <2>1, <2>2, <2>3 DEF CallInv, CaptureTypes
  <2>5. CancelInv' /\ CancelledUnsent
    BY <1>1, <2>1, <2>2, <2>3
    DEF CallInv, CancelInv, GoodRequest, CancelledUnsent, Talking!Listens
  <2>6. ASSUME ~raced' PROVE MicrophoneInv'
    <3>1. ~raced /\ MicrophoneInv /\ Talking!Starting = {}
      BY <1>3, <2>6 DEF CallInv
    <3>2. \A d \in Talking!Starting' : d = c
      BY <2>3, <3>1 DEF Talking!Starting
    <3>3. Talking!Listens' /\ capture' = None
      BY <1>1, <2>2 DEF Talking!Listens
    <3>4. \A d \in Captures : captures'[d].mic => captures'[d].at = "resuming"
      BY <2>1, <2>2, <2>3, <3>1, NoneAssumption DEF MicrophoneInv
    <3>5. \A d \in Captures : ~captures'[d].closed
      BY <2>1, <2>3, <3>1 DEF MicrophoneInv
    <3> QED
      BY <3>2, <3>3, <3>4, <3>5 DEF MicrophoneInv
  <2> QED
    BY <2>4, <2>5, <2>6 DEF CallInv
<1> QED
  BY <1>2, <1>3 DEF Talking!TimerFires

\* A capture that is being started goes on to the audio context, or records.
LEMMA StartGoesOn ==
  ASSUME CallInv, NEW c \in Captures, captures[c].at \in {"asking", "resuming"},
         NEW rec \in Talking!Capture, rec.mic, ~rec.cancelled,
         rec.closed => captures[c].closed,
         rec.at \in {"resuming", "recording"},
         \/ /\ rec.at = "recording" /\ capture' = c
            /\ \A d \in Captures : captures'[d] =
                 IF d = c THEN rec
                 ELSE IF d = capture THEN [captures[d] EXCEPT !.at = "lost"] ELSE captures[d]
         \/ /\ rec.at = "resuming" /\ capture' = capture
            /\ \A d \in Captures : captures'[d] = IF d = c THEN rec ELSE captures[d],
         captures' = [d \in Captures |-> captures'[d]],
         ~raced => Talking!Listens,
         UNCHANGED <<request, active, muted, raced>>
  PROVE  CallInv' /\ CancelledUnsent
<1>1. /\ captures \in [Captures -> Talking!Capture]
      /\ capture \in Captures \cup {None} /\ request \in Captures \cup {None}
      /\ capture # None => captures[capture].at = "recording"
      /\ GoodRequest
      /\ \A d \in Captures : captures[d].cancelled => captures[d].at = "transcribing"
      /\ \A d \in Captures :
           captures[d].at = "reading" => Talking!Listens \/ captures[d].slipped
  BY DEF CallInv, CaptureTypes, CancelInv
<1>2. /\ captures'[c] = rec
      /\ \A d \in Captures \ {c} :
           \/ captures'[d] = captures[d]
           \/ d = capture /\ captures'[d] = [captures[d] EXCEPT !.at = "lost"]
  OBVIOUS
<1>3. \A d \in Captures : d # c /\ captures'[d] # captures[d] =>
        captures'[d] \in Talking!Capture /\ captures'[d].at = "lost" /\ ~captures[d].cancelled
        /\ ~captures'[d].cancelled
  BY <1>1, <1>2, NoneAssumption DEF Talking!Capture
<1>4. captures' \in [Captures -> Talking!Capture]
  <2>1. \A d \in Captures : captures'[d] \in Talking!Capture
    BY <1>1, <1>2, <1>3
  <2> QED
    BY <2>1
<1>5. CaptureTypes'
  <2>1. capture' # None => captures'[capture'].at = "recording"
    BY <1>1, <1>2
  <2>2. \A d \in Captures : captures'[d].at = "resuming" => captures'[d].mic
    BY <1>2, <1>3 DEF CallInv, CaptureTypes
  <2> QED
    BY <1>4, <2>1, <2>2 DEF CallInv, CaptureTypes
<1>6. CancelInv'
  <2>1. request # None => captures'[request] = captures[request]
    BY <1>1, <1>2 DEF GoodRequest
  <2>2. \A d \in Captures : captures'[d].cancelled => captures'[d].at = "transcribing"
    BY <1>1, <1>2, <1>3
  <2>3. \A d \in Captures :
          captures'[d].at = "reading" => Talking!Listens' \/ captures'[d].slipped
    BY <1>1, <1>2, <1>3 DEF Talking!Listens
  <2> QED
    BY <1>1, <2>1, <2>2, <2>3 DEF CancelInv, GoodRequest, Talking!Listens
<1>7. CancelledUnsent
  BY <1>1, <1>2, <1>3 DEF CancelledUnsent
<1>8. ASSUME ~raced' PROVE MicrophoneInv'
  <2>1. ~raced /\ MicrophoneInv /\ Talking!Listens
    BY <1>8 DEF CallInv
  <2>2. c \in Talking!Starting /\ capture = None
    BY <2>1 DEF MicrophoneInv, Talking!Starting
  <2>3. \A d \in Captures \ {c} : captures'[d] = captures[d]
    BY <1>2, <2>2, NoneAssumption
  <2>4. \A d \in Captures \ {c} : captures[d].at \notin {"asking", "resuming"}
    BY <2>1, <2>2 DEF MicrophoneInv, Talking!Starting
  <2>5. \A d \in Captures \ {c} : ~captures'[d].mic
    BY <2>1, <2>2, <2>3, <2>4, NoneAssumption DEF MicrophoneInv
  <2>6. \A d \in Talking!Starting' : d = c /\ rec.at = "resuming"
    BY <1>2, <2>3, <2>4 DEF Talking!Starting
  <2>7. \A d \in Captures : ~captures'[d].closed
    BY <1>2, <2>1, <2>3 DEF MicrophoneInv
  <2>8. Talking!Listens'
    BY <2>1 DEF Talking!Listens
  <2>9. \A d \in Captures : captures'[d].mic => captures'[d].at = "resuming" \/ capture' = d
    BY <1>2, <2>5
  <2>10. Talking!Starting' # {} => capture' = None
    BY <2>2, <2>6
  <2> QED
    BY <2>6, <2>7, <2>8, <2>9, <2>10 DEF MicrophoneInv
<1> QED
  BY <1>5, <1>6, <1>7, <1>8 DEF CallInv

\* What a capture is that goes on, and nothing else of it changes.
LEMMA MovedIs ==
  ASSUME NEW old \in Talking!Capture,
         NEW at \in {"resuming", "recording", "lost", "reading", "transcribing", "sending",
                     "replying"}
  PROVE  \E rec \in Talking!Capture :
           /\ rec = [old EXCEPT !.at = at]
           /\ rec.at = at /\ rec.mic = old.mic /\ rec.closed = old.closed
           /\ rec.cancelled = old.cancelled /\ rec.slipped = old.slipped
<1> DEFINE r == [old EXCEPT !.at = at]
<1>1. r \in Talking!Capture
  BY DEF Talking!Capture
<1>2. /\ r.at = at /\ r.mic = old.mic /\ r.closed = old.closed
      /\ r.cancelled = old.cancelled /\ r.slipped = old.slipped
  BY DEF Talking!Capture
<1>3. r = [old EXCEPT !.at = at]
  OBVIOUS
<1> HIDE DEF r
<1> QED
  BY <1>1, <1>2, <1>3

LEMMA GrantedStep ==
  ASSUME CallInv, NEW c \in Captures, Talking!Granted(c)
  PROVE  CallInv' /\ CancelledUnsent
<1>1. /\ captures[c].at = "asking" /\ captures \in [Captures -> Talking!Capture]
      /\ ~captures[c].cancelled
      /\ UNCHANGED <<request, active, muted, raced>>
  BY DEF Talking!Granted, Talking!callVars, CallInv, CaptureTypes, CancelInv
<1>2. CASE ~Talking!Listens
  <2>1. captures' = [captures EXCEPT ![c] = Talking!NoCapture] /\ capture' = capture
    BY <1>2 DEF Talking!Granted, Talking!StillWanted
  <2>2. /\ Talking!NoCapture \in Talking!Capture /\ Talking!NoCapture.at = "none"
        /\ ~Talking!NoCapture.mic /\ ~Talking!NoCapture.closed /\ ~Talking!NoCapture.cancelled
    BY DEF Talking!NoCapture, Talking!Capture
  <2>3. request' \in {None, request} \ {c}
    BY <1>1, NoneAssumption DEF CallInv, CancelInv, GoodRequest
  <2> QED
    BY <1>1, <2>1, <2>2, <2>3, OneLeaves
<1>3. CASE Talking!Listens
  <2>0. PICK now \in Talking!Capture :
          /\ now = [captures[c] EXCEPT !.mic = TRUE]
          /\ now.mic = TRUE /\ now.closed = captures[c].closed
          /\ now.cancelled = captures[c].cancelled
    <3> DEFINE r == [captures[c] EXCEPT !.mic = TRUE]
    <3>1. /\ r \in Talking!Capture /\ r.mic = TRUE /\ r.closed = captures[c].closed
          /\ r.cancelled = captures[c].cancelled
      BY <1>1 DEF Talking!Capture
    <3> HIDE DEF r
    <3>2. r = [captures[c] EXCEPT !.mic = TRUE]
      BY DEF r
    <3> QED
      BY <3>1, <3>2
  <2>1. CASE Talking!Record(c, now)
    <3>1. PICK rec \in Talking!Capture :
            /\ rec = [now EXCEPT !.at = "recording"]
            /\ rec.at = "recording" /\ rec.mic = now.mic /\ rec.closed = now.closed
            /\ rec.cancelled = now.cancelled
      BY MovedIs
    <3>2. /\ capture' = c
          /\ captures' = [d \in Captures |->
               IF d = c THEN rec
               ELSE IF d = capture THEN [captures[d] EXCEPT !.at = "lost"] ELSE captures[d]]
      BY <2>1, <3>1 DEF Talking!Record
    <3> QED
      BY <1>1, <1>3, <2>0, <3>1, <3>2, StartGoesOn
  <2>2. CASE capture' = capture /\ captures' = [captures EXCEPT ![c] = [now EXCEPT !.at = "resuming"]]
    <3>1. PICK rec \in Talking!Capture :
            /\ rec = [now EXCEPT !.at = "resuming"]
            /\ rec.at = "resuming" /\ rec.mic = now.mic /\ rec.closed = now.closed
            /\ rec.cancelled = now.cancelled
      BY MovedIs
    <3>2. /\ captures' = [d \in Captures |-> captures'[d]]
          /\ \A d \in Captures : captures'[d] = IF d = c THEN rec ELSE captures[d]
      BY <1>1, <2>2, <3>1
    <3>3. rec.mic /\ ~rec.cancelled /\ (rec.closed => captures[c].closed)
      BY <1>1, <2>0, <3>1
    <3> QED
      BY <1>1, <1>3, <2>2, <3>1, <3>2, <3>3, StartGoesOn
  <2> QED
    BY <1>3, <2>0, <2>1, <2>2 DEF Talking!Granted, Talking!StillWanted
<1> QED
  BY <1>2, <1>3

\* What the catch of startListening leaves.
LEMMA StartFailsStep ==
  ASSUME CallInv, NEW c \in Captures, captures[c].at \in {"asking", "resuming"},
         NEW rec \in Talking!Capture, rec.at \in {"none", "lost"},
         ~raced /\ rec.mic => FALSE, ~rec.cancelled, rec.closed => captures[c].closed,
         Talking!StartFails(c, rec), UNCHANGED <<request, active, muted, raced>>
  PROVE  CallInv' /\ CancelledUnsent
<1>1. /\ Talking!Stopped(capture, FALSE) \in [Captures -> Talking!Capture]
      /\ captures' = [Talking!Stopped(capture, FALSE) EXCEPT ![c] = rec] /\ capture' = None
  BY StoppedIs DEF Talking!StartFails
<1>2. /\ captures' \in [Captures -> Talking!Capture] /\ captures'[c] = rec
      /\ \A d \in Captures \ {c} : captures'[d] = Talking!Stopped(capture, FALSE)[d]
  BY <1>1
<1>3. Leaves(c) /\ c # request
  BY <1>2, NoneAssumption DEF Leaves, CallInv, CancelInv, GoodRequest
<1> QED
  BY <1>1, <1>2, <1>3, StopLeaves

LEMMA NoCaptureIs ==
  /\ Talking!NoCapture \in Talking!Capture /\ Talking!NoCapture.at = "none"
  /\ ~Talking!NoCapture.mic /\ ~Talking!NoCapture.closed /\ ~Talking!NoCapture.cancelled
BY DEF Talking!NoCapture, Talking!Capture

LEMMA DeniedStep ==
  ASSUME CallInv, NEW c \in Captures, Talking!Denied(c)
  PROVE  CallInv' /\ CancelledUnsent
<1>1. /\ captures[c].at = "asking" /\ Talking!StartFails(c, Talking!NoCapture)
      /\ UNCHANGED <<request, active, muted, raced>>
  BY DEF Talking!Denied, Talking!callVars
<1> QED
  BY <1>1, NoCaptureIs, StartFailsStep

\* The audio context was closed only if the start was disturbed.
LEMMA ResumedStep ==
  ASSUME CallInv, NEW c \in Captures, Talking!Resumed(c)
  PROVE  CallInv' /\ CancelledUnsent
<1>1. /\ captures[c].at = "resuming" /\ captures[c].mic
      /\ captures \in [Captures -> Talking!Capture] /\ ~captures[c].cancelled
      /\ captures[c] \in Talking!Capture
      /\ UNCHANGED <<request, active, muted, raced>>
  BY DEF Talking!Resumed, Talking!callVars, CallInv, CaptureTypes, CancelInv
<1>2. ~raced => Talking!Listens /\ ~captures[c].closed
  BY <1>1 DEF CallInv, MicrophoneInv
<1>3. CASE captures[c].closed
  <2>1. PICK rec \in Talking!Capture :
          /\ rec = [captures[c] EXCEPT !.at = "lost"]
          /\ rec.at = "lost" /\ rec.mic = captures[c].mic
          /\ rec.closed = captures[c].closed /\ rec.cancelled = captures[c].cancelled
    <3> DEFINE r == [captures[c] EXCEPT !.at = "lost"]
    <3>1. /\ r \in Talking!Capture /\ r.at = "lost" /\ r.mic = captures[c].mic
          /\ r.closed = captures[c].closed /\ r.cancelled = captures[c].cancelled
      BY <1>1 DEF Talking!Capture
    <3>2. r = [captures[c] EXCEPT !.at = "lost"]
      OBVIOUS
    <3> HIDE DEF r
    <3> QED
      BY <3>1, <3>2
  <2>2. Talking!StartFails(c, rec)
    BY <1>3, <2>1 DEF Talking!Resumed
  <2> QED
    BY <1>1, <1>2, <1>3, <2>1, <2>2, StartFailsStep
<1>4. CASE ~captures[c].closed
  <2>1. PICK rec \in Talking!Capture :
          /\ rec = [captures[c] EXCEPT !.at = "recording"]
          /\ rec.at = "recording" /\ rec.mic = captures[c].mic
          /\ rec.closed = captures[c].closed /\ rec.cancelled = captures[c].cancelled
    <3> DEFINE r == [captures[c] EXCEPT !.at = "recording"]
    <3>1. /\ r \in Talking!Capture /\ r.at = "recording" /\ r.mic = captures[c].mic
          /\ r.closed = captures[c].closed /\ r.cancelled = captures[c].cancelled
      BY <1>1 DEF Talking!Capture
    <3>2. r = [captures[c] EXCEPT !.at = "recording"]
      OBVIOUS
    <3> HIDE DEF r
    <3> QED
      BY <3>1, <3>2
  <2>2. /\ capture' = c
        /\ captures' = [d \in Captures |->
             IF d = c THEN rec
             ELSE IF d = capture THEN [captures[d] EXCEPT !.at = "lost"] ELSE captures[d]]
    BY <1>4, <2>1 DEF Talking!Resumed, Talking!Record
  <2> QED
    BY <1>1, <1>2, <2>1, <2>2, StartGoesOn
<1> QED
  BY <1>3, <1>4

\* The recorder of the capture that is known stops or fails.
LEMMA RecorderEndsStep ==
  ASSUME CallInv, NEW c \in Captures,
         Talking!UtteranceEnds(c) \/ Talking!NothingHeard(c) \/ Talking!RecorderFails(c)
  PROVE  CallInv' /\ CancelledUnsent
<1>1. PICK upload \in BOOLEAN :
        /\ captures' = Talking!Stopped(capture, upload) /\ capture' = None
        /\ UNCHANGED <<request, active, muted, raced>>
  BY DEF Talking!UtteranceEnds, Talking!NothingHeard, Talking!RecorderFails, Talking!callVars
<1>2. captures' \in [Captures -> Talking!Capture]
  BY <1>1, StoppedIs
<1> QED
  BY <1>1, <1>2, StopLeaves

\* A capture is forgotten, and so may its request be.
LEMMA ForgottenStep ==
  ASSUME CallInv, NEW c \in Captures,
         captures[c].at \notin {"resuming", "recording"},
         captures' = [captures EXCEPT ![c] = Talking!NoCapture],
         request' \in {None, request} \ {c},
         UNCHANGED <<capture, active, muted, raced>>
  PROVE  CallInv' /\ CancelledUnsent
BY NoCaptureIs, OneLeaves

\* The bytes of an utterance are read while its call listens.
LEMMA RecorderStoppedStep ==
  ASSUME CallInv, NEW c \in Captures, Talking!RecorderStopped(c)
  PROVE  CallInv' /\ CancelledUnsent
<1>1. /\ captures[c].at = "stopping" /\ captures[c] \in Talking!Capture
      /\ captures \in [Captures -> Talking!Capture]
      /\ ~captures[c].cancelled /\ request # c /\ None # c
      /\ UNCHANGED <<capture, active, muted, raced>>
  BY NoneAssumption
  DEF Talking!RecorderStopped, Talking!callVars, CallInv, CaptureTypes, CancelInv, GoodRequest
<1>2. CASE /\ captures' = [captures EXCEPT ![c] = Talking!NoCapture]
           /\ request' \in {None, request}
  BY <1>1, <1>2, ForgottenStep
<1>3. CASE /\ captures' = [captures EXCEPT ![c].at = "reading"]
           /\ request' = request /\ Talking!Listens
  <2>1. PICK rec \in Talking!Capture :
          /\ rec = [captures[c] EXCEPT !.at = "reading"]
          /\ rec.at = "reading" /\ rec.mic = captures[c].mic
          /\ rec.closed = captures[c].closed /\ rec.cancelled = captures[c].cancelled
          /\ rec.slipped = captures[c].slipped
    BY <1>1, MovedIs
  <2>2. captures' = [captures EXCEPT ![c] = rec]
    BY <1>3, <2>1
  <2>3. request' \in {None, request} \ {c}
    BY <1>1, <1>3
  <2> QED
    BY <1>1, <1>3, <2>1, <2>2, <2>3, OneLeaves
<1> QED
  BY <1>2, <1>3 DEF Talking!RecorderStopped, Talking!Forget, Talking!Fail

\* It is transcribed whether the call listens or not; if it does not, the
\* utterance slipped through.
LEMMA UtteranceReadStep ==
  ASSUME CallInv, NEW c \in Captures, Talking!UtteranceRead(c)
  PROVE  CallInv' /\ CancelledUnsent
<1>1. /\ captures[c].at = "reading" /\ captures[c] \in Talking!Capture
      /\ captures \in [Captures -> Talking!Capture]
      /\ ~captures[c].cancelled /\ request # c /\ None # c
      /\ Talking!Listens \/ captures[c].slipped
      /\ UNCHANGED <<capture, active, muted, raced>>
  BY NoneAssumption
  DEF Talking!UtteranceRead, Talking!callVars, CallInv, CaptureTypes, CancelInv, GoodRequest
<1>2. CASE /\ captures' = [captures EXCEPT ![c] = Talking!NoCapture]
           /\ request' \in {None, request}
  BY <1>1, <1>2, ForgottenStep
<1>3. CASE /\ captures' = [captures EXCEPT ![c].at = "transcribing"]
           /\ request' = c
  <2>1. PICK rec \in Talking!Capture :
          /\ rec = [captures[c] EXCEPT !.at = "transcribing"]
          /\ rec.at = "transcribing" /\ rec.mic = captures[c].mic
          /\ rec.closed = captures[c].closed /\ rec.cancelled = captures[c].cancelled
          /\ rec.slipped = captures[c].slipped
    BY <1>1, MovedIs
  <2>2. captures' = [captures EXCEPT ![c] = rec]
    BY <1>3, <2>1
  <2>3. rec.at = "transcribing" => Talking!Listens \/ rec.slipped
    BY <1>1, <2>1
  <2> QED
    BY <1>1, <1>3, <2>1, <2>2, <2>3, OneLeaves
<1> QED
  BY <1>2, <1>3 DEF Talking!UtteranceRead, Talking!Fail

\* What was transcribed is sent only for the request that is current, which
\* no cancelled capture is.
LEMMA TranscribedStep ==
  ASSUME CallInv, NEW c \in Captures, Talking!Transcribed(c) \/ Talking!NotTranscribed(c)
  PROVE  CallInv' /\ CancelledUnsent
<1>1. /\ captures[c].at = "transcribing" /\ captures[c] \in Talking!Capture
      /\ captures \in [Captures -> Talking!Capture] /\ None # c
      /\ request = c => ~captures[c].cancelled /\ (Talking!Listens \/ captures[c].slipped)
      /\ UNCHANGED <<capture, active, muted, raced>>
  BY NoneAssumption
  DEF Talking!Transcribed, Talking!NotTranscribed, Talking!callVars,
      CallInv, CaptureTypes, CancelInv, GoodRequest
<1>2. CASE /\ captures' = [captures EXCEPT ![c] = Talking!NoCapture]
           /\ request' \in {None, request}
  <2>1. CASE request' \in {None, request} \ {c}
    BY <1>1, <1>2, <2>1, ForgottenStep
  <2>2. CASE request' = c
    <3>1. /\ Talking!NoCapture.at \notin {"asking", "resuming", "recording", "sending", "reading",
                                          "transcribing"}
          /\ Talking!NoCapture.at \in {"transcribing", "none"}
      BY NoCaptureIs
    <3> QED
      BY <1>1, <1>2, <2>2, <3>1, NoCaptureIs, OneLeaves
  <2> QED
    BY <1>2, <2>1, <2>2
<1>3. CASE /\ captures' = [captures EXCEPT ![c].at = "sending"]
           /\ request' = None /\ Talking!IsCurrent(c)
  <2>1. ~captures[c].cancelled /\ (Talking!Listens \/ captures[c].slipped)
    BY <1>1, <1>3 DEF Talking!IsCurrent
  <2>2. PICK rec \in Talking!Capture :
          /\ rec = [captures[c] EXCEPT !.at = "sending"]
          /\ rec.at = "sending" /\ rec.mic = captures[c].mic
          /\ rec.closed = captures[c].closed /\ rec.cancelled = captures[c].cancelled
    BY <1>1, MovedIs
  <2>3. captures' = [captures EXCEPT ![c] = rec]
    BY <1>3, <2>2
  <2>4. request' \in {None, request} \ {c}
    BY <1>1, <1>3
  <2> QED
    BY <1>1, <2>1, <2>2, <2>3, <2>4, OneLeaves
<1> QED
  BY <1>2, <1>3
  DEF Talking!Transcribed, Talking!NotTranscribed, Talking!Forget, Talking!Fail

\* The reply of a message ends a capture that was begun meanwhile.
LEMMA RepliedStep ==
  ASSUME CallInv, NEW c \in Captures, Talking!Replied(c)
  PROVE  CallInv' /\ CancelledUnsent
<1>1. /\ captures[c].at = "sending" /\ captures[c] \in Talking!Capture
      /\ captures \in [Captures -> Talking!Capture]
      /\ ~captures[c].cancelled /\ c # request /\ c # capture
      /\ UNCHANGED <<request, active, muted, raced>>
  BY NoneAssumption
  DEF Talking!Replied, Talking!callVars, CallInv, CaptureTypes, CancelInv, GoodRequest
<1>2. PICK rec \in Talking!Capture :
        /\ rec = [captures[c] EXCEPT !.at = "replying"]
        /\ rec.at = "replying" /\ rec.mic = captures[c].mic
        /\ rec.closed = captures[c].closed /\ rec.cancelled = captures[c].cancelled
  BY <1>1, MovedIs, ZenonT(30)
<1>3. CASE active
  <2>1. /\ Talking!Stopped(capture, FALSE) \in [Captures -> Talking!Capture]
        /\ Talking!Stopped(capture, FALSE)[c] = captures[c]
    BY <1>1, StoppedIs
  <2>2. /\ captures' = [Talking!Stopped(capture, FALSE) EXCEPT ![c].at = "replying"]
        /\ capture' = None
    BY <1>3 DEF Talking!Replied
  <2>3. /\ captures' \in [Captures -> Talking!Capture] /\ captures'[c] = rec
        /\ \A d \in Captures \ {c} : captures'[d] = Talking!Stopped(capture, FALSE)[d]
    BY <1>2, <2>1, <2>2
  <2>4. Leaves(c)
    BY <1>1, <1>2, <2>3 DEF Leaves
  <2> QED
    BY <1>1, <2>2, <2>3, <2>4, StopLeaves
<1>4. CASE ~active
  <2>1. captures' = [captures EXCEPT ![c] = rec] /\ capture' = capture
    BY <1>2, <1>4 DEF Talking!Replied
  <2>2. request' \in {None, request} \ {c}
    BY <1>1, NoneAssumption
  <2> QED
    BY <1>1, <1>2, <2>1, <2>2, OneLeaves
<1> QED
  BY <1>3, <1>4

LEMMA MessageEndsStep ==
  ASSUME CallInv, NEW c \in Captures, Talking!NotSent(c) \/ Talking!Synthesized(c)
  PROVE  CallInv' /\ CancelledUnsent
<1>1. /\ captures[c].at \in {"sending", "replying"}
      /\ captures' = [captures EXCEPT ![c] = Talking!NoCapture]
      /\ UNCHANGED <<capture, request, active, muted, raced>>
  BY DEF Talking!NotSent, Talking!Synthesized, Talking!callVars
<1>2. request' \in {None, request} \ {c}
  BY <1>1, NoneAssumption DEF CallInv, CancelInv, GoodRequest
<1> QED
  BY <1>1, <1>2, ForgottenStep

\* Speech that ends, and what the user does beside the call.
LEMMA BesideCallStep ==
  ASSUME CallInv,
         \/ Talking!SpeechEnds \/ Talking!StopSpeech \/ Talking!SpeakBesideCall
         \/ Talking!SendBesideCall \/ Talking!SentBesideCall
  PROVE  CallInv' /\ CancelledUnsent
<1>1. UNCHANGED <<request, active, muted, raced>>
  BY DEF Talking!SpeechEnds, Talking!StopSpeech, Talking!SpeakBesideCall,
         Talking!SendBesideCall, Talking!SentBesideCall, Talking!callVars
<1>2. CASE UNCHANGED <<captures, capture>>
  BY <1>1, <1>2, NoCaptureStep DEF CallInv, CaptureTypes, Talking!Listens
<1>3. CASE captures' = Talking!Stopped(capture, FALSE) /\ capture' = None
  BY <1>1, <1>3, StoppedIs, StopLeaves
<1> QED
  BY <1>2, <1>3
  DEF Talking!SpeechEnds, Talking!StopSpeech, Talking!SpeakBesideCall,
      Talking!SendBesideCall, Talking!SentBesideCall

LEMMA TalkingStep ==
  ASSUME CallInv, Talking!Next
  PROVE  CallInv' /\ CancelledUnsent
<1>1. CASE Talking!StartCall \/ Talking!Unmute
  <2>1. /\ UNCHANGED <<captures, capture, raced, request>>
        /\ active' \in BOOLEAN /\ muted' \in BOOLEAN /\ Talking!Listens'
    BY <1>1 DEF Talking!StartCall, Talking!Unmute, Talking!Listens, CallInv, CaptureTypes
  <2> QED
    BY <2>1, NoCaptureStep
<1>2. CASE Talking!EndCall \/ Talking!Mute
  BY <1>2, SilenceStep DEF Talking!EndCall, Talking!Mute, CallInv, CaptureTypes
<1>3. ASSUME NEW stale \in BOOLEAN, Talking!TimerFires(stale)
      PROVE  CallInv' /\ CancelledUnsent
  BY <1>3, TimerStep
<1>4. ASSUME NEW c \in Captures, Talking!GoesOn(c) \/ Talking!RecorderFails(c)
      PROVE  CallInv' /\ CancelledUnsent
  BY <1>4, GrantedStep, DeniedStep, ResumedStep, RecorderEndsStep, RecorderStoppedStep,
     UtteranceReadStep, TranscribedStep, RepliedStep, MessageEndsStep
  DEF Talking!GoesOn
<1>5. CASE \/ Talking!SpeechEnds \/ Talking!StopSpeech \/ Talking!SpeakBesideCall
           \/ Talking!SendBesideCall \/ Talking!SentBesideCall
  BY <1>5, BesideCallStep
<1> QED
  BY <1>1, <1>2, <1>3, <1>4, <1>5 DEF Talking!Next

LEMMA CallRests ==
  ASSUME CallInv, UNCHANGED callVars
  PROVE  CallInv' /\ CancelledUnsent
<1>1. UNCHANGED <<captures, capture, raced, request, active, muted>>
  BY DEF callVars
<1> QED
  BY <1>1, NoCaptureStep DEF CallInv, CaptureTypes, Talking!Listens

LEMMA CallInvariance ==
  /\ DesktopInit => CallInv
  /\ CallInv /\ [DesktopNext]_desktopVars => CallInv' /\ CancelledUnsent
<1>1. ASSUME DesktopInit PROVE CallInv
  <2>1. /\ captures = [c \in Captures |-> Talking!NoCapture] /\ capture = None
        /\ request = None /\ active = FALSE /\ muted = FALSE /\ raced = FALSE
    BY <1>1 DEF DesktopInit, Talking!Init
  <2>2. CaptureTypes /\ CancelInv
    BY <2>1, NoCaptureIs DEF CaptureTypes, CancelInv, GoodRequest
  <2>3. Talking!Starting = {}
    BY <2>1, NoCaptureIs DEF Talking!Starting
  <2>4. MicrophoneInv
    BY <2>1, <2>3, NoCaptureIs DEF MicrophoneInv
  <2> QED
    BY <2>2, <2>4 DEF CallInv
<1>2. CallInv /\ [DesktopNext]_desktopVars => CallInv' /\ CancelledUnsent
  BY TalkingStep, CallRests DEF DesktopNext, desktopVars
<1> QED
  BY <1>1, <1>2

\* A call that is muted or over has no microphone on, unless a start of it was
\* disturbed; and a message is sent only while the call listens, unless it was
\* muted or ended while the bytes of the utterance were read.
THEOREM CallsStayPrivate == DesktopSpec => CallIsPrivate
<1>1. CallInv => Talking!MicrophoneIsOff
  BY DEF CallInv, MicrophoneInv, Talking!MicrophoneIsOff
<1>2. CancelledUnsent =>
        [\A c \in Captures :
           captures'[c].at = "sending" /\ captures[c].at # "sending" =>
             ~captures[c].cancelled /\ (Talking!Listens \/ captures[c].slipped)]_(Talking!vars)
  BY DEF CancelledUnsent
<1>3. DesktopSpec => []Talking!MicrophoneIsOff
  BY <1>1, CallInvariance, PTL DEF DesktopSpec
<1>4. DesktopSpec => Talking!CancelledIsNotSent
  BY <1>2, CallInvariance, PTL DEF DesktopSpec, Talking!CancelledIsNotSent
<1> QED
  BY <1>3, <1>4 DEF CallIsPrivate

----------------------------------------------------------------------------
(* The steps of chats over the relay *)

ToldUnsent == \A r \in Requests : told[r] # "nothing" => sent'[r] = sent[r]

\* The steps that send nothing and leave the sockets of sendRelayChat alone:
\* requests that wait for the connection or for its answer end or go on.
LEMMA SharedEnds ==
  ASSUME SentInv, NEW over \in SUBSET Requests,
         \A r \in over : ~At(r, "trying"),
         calls' = [r \in Requests |-> IF r \in over THEN None ELSE calls[r]],
         \A r \in Requests : told'[r] # "nothing" => told[r] # "nothing" \/ r \in over,
         pending' \subseteq pending \ over, UNCHANGED <<sockets, sent>>
  PROVE  SentInv' /\ ToldUnsent
<1>1. calls' \in [Requests -> Call \cup {None}]
  BY DEF SentInv
<1>2. \A r \in Requests : calls'[r] = None \/ calls'[r] = calls[r]
  OBVIOUS
<1>3. \A r \in Requests : At(r, "trying") => calls'[r] = calls[r]
  OBVIOUS
<1>4. \A r \in Requests : told'[r] # "nothing" => calls'[r] = None
  BY DEF SentInv
<1>5. \A r \in pending' :
        r \in Requests /\ (At(r, "awaiting")' \/ (At(r, "opening")' /\ ~calls'[r].refused))
  <2>1. \A r \in pending' : r \in pending /\ r \in Requests /\ calls'[r] = calls[r]
    BY DEF SentInv
  <2> QED
    BY <2>1 DEF SentInv, At
<1>6. \A r \in Requests, u \in Url :
        sockets'[r][u] = "connecting" => At(r, "trying")' /\ calls'[r].url = u
  BY <1>3 DEF SentInv, At
<1>7. ToldUnsent
  BY DEF ToldUnsent
<1> QED
  BY <1>1, <1>4, <1>5, <1>6, <1>7 DEF SentInv

\* A step of sendRelayChat for one request, whose other socket may open next.
LEMMA TryMoves ==
  ASSUME SentInv, NEW r \in Requests, calls[r] = None \/ At(r, "trying"),
         NEW s \in [Url -> {"none", "connecting", "open", "closed"}],
         NEW call \in Call \cup {None},
         sockets' = [sockets EXCEPT ![r] = s], calls' = [calls EXCEPT ![r] = call],
         \A u \in Url : s[u] = "connecting" =>
           call # None /\ call.at = "trying" /\ call.url = u,
         \A q \in Requests \ {r} : told'[q] = told[q],
         told'[r] # "nothing" => call = None,
         pending' = pending, ToldUnsent
  PROVE  SentInv'
<1>1. /\ calls \in [Requests -> Call \cup {None}]
      /\ sockets \in [Requests -> [Url -> {"none", "connecting", "open", "closed"}]]
  BY DEF SentInv
<1>2. /\ calls' \in [Requests -> Call \cup {None}] /\ calls'[r] = call
      /\ sockets' \in [Requests -> [Url -> {"none", "connecting", "open", "closed"}]]
      /\ sockets'[r] = s
      /\ \A q \in Requests \ {r} : calls'[q] = calls[q] /\ sockets'[q] = sockets[q]
  BY <1>1
<1>3. \A q \in Requests : told'[q] # "nothing" => calls'[q] = None
  BY <1>2 DEF SentInv
<1>4. \A q \in pending' :
        q \in Requests /\ (At(q, "awaiting")' \/ (At(q, "opening")' /\ ~calls'[q].refused))
  <2>1. r \notin pending
    BY DEF SentInv, At
  <2> QED
    BY <1>2, <2>1 DEF SentInv, At
<1>5. \A q \in Requests, u \in Url :
        sockets'[q][u] = "connecting" => At(q, "trying")' /\ calls'[q].url = u
  BY <1>2 DEF SentInv, At
<1> QED
  BY <1>2, <1>3, <1>4, <1>5 DEF SentInv

LEMMA StartTryingStep ==
  ASSUME SentInv, NEW r \in Requests, StartTrying(r)
  PROVE  SentInv' /\ ToldUnsent
<1>1. /\ calls[r] = None /\ told[r] = "nothing" /\ pending' = pending
      /\ sent' = sent /\ told' = told
      /\ sockets \in [Requests -> [Url -> {"none", "connecting", "open", "closed"}]]
  BY DEF StartTrying, SentInv
<1>2. \A u \in Url : sockets[r][u] # "connecting"
  BY <1>1 DEF SentInv, At
<1>3. PICK call \in Call :
        /\ calls' = [calls EXCEPT ![r] = call]
        /\ call # None /\ call.at = "trying" /\ call.url = 1
  <2> DEFINE call == [at |-> "trying", url |-> 1, refused |-> FALSE]
  <2>1. call \in Call /\ call.at = "trying" /\ call.url = 1
    BY DEF Call, Url
  <2>2. call # None
    BY <2>1, NoneAssumption
  <2>3. calls' = [calls EXCEPT ![r] = call]
    BY DEF StartTrying
  <2> HIDE DEF call
  <2> QED
    BY <2>1, <2>2, <2>3
<1>4. PICK s \in [Url -> {"none", "connecting", "open", "closed"}] :
        /\ sockets' = [sockets EXCEPT ![r] = s]
        /\ \A u \in Url \ {1} : s[u] # "connecting"
  <2> DEFINE s == [sockets[r] EXCEPT ![1] = "connecting"]
  <2>1. /\ s \in [Url -> {"none", "connecting", "open", "closed"}]
        /\ \A u \in Url \ {1} : s[u] # "connecting"
    BY <1>1, <1>2 DEF Url
  <2>2. sockets' = [sockets EXCEPT ![r] = s]
    BY <1>1 DEF StartTrying
  <2> HIDE DEF s
  <2> QED
    BY <2>1, <2>2
<1>5. ToldUnsent
  BY <1>1 DEF ToldUnsent
<1>6. \A u \in Url : s[u] = "connecting" => call # None /\ call.at = "trying" /\ call.url = u
  BY <1>3, <1>4
<1> QED
  BY <1>1, <1>3, <1>4, <1>5, <1>6, TryMoves

\* A request that a socket of its own still sends is not over.
LEMMA TryOpensStep ==
  ASSUME SentInv, NEW r \in Requests, NEW u \in Url, TryOpens(r, u)
  PROVE  SentInv' /\ ToldUnsent
<1>1. /\ sockets[r][u] = "connecting" /\ UNCHANGED <<pending, calls, told>>
      /\ sent' = [q \in Requests |-> IF q \in {r} THEN sent[q] + 1 ELSE sent[q]]
      /\ sockets \in [Requests -> [Url -> {"none", "connecting", "open", "closed"}]]
      /\ calls \in [Requests -> Call \cup {None}]
  BY DEF TryOpens, Send, SentInv
<1>2. At(r, "trying") /\ told[r] = "nothing"
  BY <1>1 DEF SentInv, At
<1>3. PICK s \in [Url -> {"none", "connecting", "open", "closed"}] :
        /\ sockets' = [sockets EXCEPT ![r] = s]
        /\ \A v \in Url : s[v] = "connecting" => sockets[r][v] = "connecting"
  <2> DEFINE s == [sockets[r] EXCEPT ![u] = "open"]
  <2>1. /\ s \in [Url -> {"none", "connecting", "open", "closed"}]
        /\ \A v \in Url : s[v] = "connecting" => sockets[r][v] = "connecting"
    BY <1>1
  <2>2. sockets' = [sockets EXCEPT ![r] = s]
    BY <1>1 DEF TryOpens
  <2> HIDE DEF s
  <2> QED
    BY <2>1, <2>2
<1>4. ToldUnsent
  BY <1>1, <1>2 DEF ToldUnsent
<1>5. calls' = [calls EXCEPT ![r] = calls[r]] /\ calls[r] \in Call \cup {None}
  BY <1>1
<1>6. \A v \in Url : s[v] = "connecting" =>
        calls[r] # None /\ calls[r].at = "trying" /\ calls[r].url = v
  BY <1>3 DEF SentInv, At
<1>7. told'[r] # "nothing" => calls[r] = None
  BY <1>1, <1>2
<1> QED
  BY <1>1, <1>2, <1>3, <1>4, <1>5, <1>6, <1>7, TryMoves

\* An attempt that is over closes its socket; the request ends or tries the
\* other address.
LEMMA AttemptEnds ==
  ASSUME SentInv, NEW r \in Requests, At(r, "trying"),
         UNCHANGED <<pending, sent>>,
         \/ \E requestSent \in BOOLEAN : TryAgain(r, requestSent)
         \/ \E what \in Replies :
              sockets' = [sockets EXCEPT ![r] = Finished(r)] /\ Settle({r}, what)
  PROVE  SentInv' /\ ToldUnsent
<1>1. /\ sockets \in [Requests -> [Url -> {"none", "connecting", "open", "closed"}]]
      /\ calls \in [Requests -> Call \cup {None}]
      /\ calls[r] \in Call /\ calls[r].url \in Url /\ calls[r].at = "trying"
  <2>1. calls[r] \in Call /\ calls[r].at = "trying"
    BY DEF SentInv, At
  <2> QED
    BY <2>1 DEF SentInv, Call
<1>2. PICK f \in [Url -> {"none", "connecting", "open", "closed"}] :
        f = Finished(r) /\ \A u \in Url : f[u] # "connecting"
  <2>1. Finished(r) \in [Url -> {"none", "connecting", "open", "closed"}]
    BY <1>1 DEF Finished
  <2>2. \A u \in Url : Finished(r)[u] # "connecting"
    BY <1>1 DEF Finished, SentInv
  <2> QED
    BY <2>1, <2>2
<1>3. ToldUnsent
  BY DEF ToldUnsent
<1>4. ASSUME NEW what, sockets' = [sockets EXCEPT ![r] = Finished(r)], Settle({r}, what)
      PROVE  SentInv'
  <2>1. calls' = [calls EXCEPT ![r] = None] /\ \A q \in Requests \ {r} : told'[q] = told[q]
    BY <1>1, <1>4 DEF Settle
  <2> QED
    BY <1>2, <1>3, <1>4, <2>1, TryMoves
<1>5. ASSUME calls' = [calls EXCEPT ![r].url = 2],
             sockets' = [sockets EXCEPT ![r] = [Finished(r) EXCEPT ![2] = "connecting"]],
             told' = told
      PROVE  SentInv'
  <2>1. PICK call \in Call :
          /\ calls' = [calls EXCEPT ![r] = call]
          /\ call # None /\ call.at = "trying" /\ call.url = 2
    <3> DEFINE call == [calls[r] EXCEPT !.url = 2]
    <3>1. call \in Call /\ call.at = "trying" /\ call.url = 2
      BY <1>1 DEF Url, Call
    <3>2. call # None
      BY <3>1, NoneAssumption
    <3>3. calls' = [calls EXCEPT ![r] = call]
      BY <1>1, <1>5
    <3> HIDE DEF call
    <3> QED
      BY <3>1, <3>2, <3>3
  <2>2. PICK s \in [Url -> {"none", "connecting", "open", "closed"}] :
          /\ sockets' = [sockets EXCEPT ![r] = s]
          /\ \A u \in Url \ {2} : s[u] # "connecting"
    <3> DEFINE s == [f EXCEPT ![2] = "connecting"]
    <3>1. /\ s \in [Url -> {"none", "connecting", "open", "closed"}]
          /\ \A u \in Url \ {2} : s[u] # "connecting"
      BY <1>2 DEF Url
    <3>2. sockets' = [sockets EXCEPT ![r] = s]
      BY <1>2, <1>5
    <3> HIDE DEF s
    <3> QED
      BY <3>1, <3>2
  <2>3. told[r] = "nothing"
    BY DEF SentInv, At
  <2>4. \A u \in Url : s[u] = "connecting" =>
          call # None /\ call.at = "trying" /\ call.url = u
    BY <2>1, <2>2
  <2> QED
    BY <1>3, <1>5, <2>1, <2>2, <2>3, <2>4, TryMoves
<1>6. SentInv'
  BY <1>4, <1>5 DEF TryAgain
<1> QED
  BY <1>3, <1>6

\* When the connection opens every request that waits for it is sent, and none
\* of them is over; that of a rejected promise ends with it.
LEMMA OpensStep ==
  ASSUME SentInv, Opens
  PROVE  SentInv' /\ ToldUnsent
<1> DEFINE waiting == {r \in Requests : At(r, "opening")}
           refused == {r \in waiting : calls[r].refused}
<1>1. /\ sent' = [r \in Requests |-> IF r \in waiting THEN sent[r] + 1 ELSE sent[r]]
      /\ calls' = [r \in Requests |->
           IF r \in refused THEN None
           ELSE IF r \in waiting THEN [calls[r] EXCEPT !.at = "awaiting"] ELSE calls[r]]
      /\ told' = [r \in Requests |-> IF r \in refused THEN "failed" ELSE told[r]]
      /\ UNCHANGED <<pending, sockets>>
  BY DEF Opens, Send
<1>2. \A r \in waiting : calls[r] \in Call /\ calls[r].at = "opening"
  BY DEF SentInv, At
<1>3. \A r \in waiting \ refused :
        calls'[r] \in Call /\ calls'[r].at = "awaiting" /\ calls'[r] # None
  <2> SUFFICES ASSUME NEW r \in waiting \ refused
               PROVE  calls'[r] \in Call /\ calls'[r].at = "awaiting" /\ calls'[r] # None
    OBVIOUS
  <2>1. calls'[r] = [calls[r] EXCEPT !.at = "awaiting"]
    BY <1>1
  <2>2. calls'[r] \in Call /\ calls'[r].at = "awaiting"
    BY <1>2, <2>1 DEF Call
  <2> QED
    BY <2>2, NoneAssumption
<1>4. /\ \A r \in refused : calls'[r] = None
      /\ \A r \in Requests \ waiting : calls'[r] = calls[r] /\ told'[r] = told[r]
      /\ \A r \in Requests \ refused : told'[r] = told[r]
  BY <1>1
<1>5. calls' \in [Requests -> Call \cup {None}]
  <2>1. \A r \in Requests : calls'[r] \in Call \cup {None}
    BY <1>3, <1>4 DEF SentInv
  <2> QED
    BY <1>1, <2>1
<1>6. \A r \in Requests : told'[r] # "nothing" => calls'[r] = None
  BY <1>4 DEF SentInv, At
<1>7. \A r \in pending' :
        r \in Requests /\ (At(r, "awaiting")' \/ (At(r, "opening")' /\ ~calls'[r].refused))
  <2>1. \A r \in pending : r \in waiting \ refused \/ (r \in Requests \ waiting /\ At(r, "awaiting"))
    BY DEF SentInv, At
  <2> QED
    BY <1>1, <1>3, <1>4, <2>1 DEF At
<1>8. \A r \in Requests, u \in Url :
        sockets'[r][u] = "connecting" => At(r, "trying")' /\ calls'[r].url = u
  BY <1>1, <1>4 DEF SentInv, At
<1>9. ToldUnsent
  BY <1>1 DEF ToldUnsent, SentInv, At
<1> QED
  BY <1>1, <1>5, <1>6, <1>7, <1>8, <1>9 DEF SentInv

\* A close event rejects what is pending.
LEMMA RejectStep ==
  ASSUME SentInv, RejectPendingChats, UNCHANGED <<sockets, sent>>
  PROVE  SentInv' /\ ToldUnsent
<1> DEFINE awaiting == {r \in pending : At(r, "awaiting")}
<1>1. /\ pending' = {}
      /\ calls' = [r \in Requests |->
           IF r \in awaiting THEN None
           ELSE IF r \in pending THEN [calls[r] EXCEPT !.refused = TRUE] ELSE calls[r]]
      /\ told' = [r \in Requests |-> IF r \in awaiting THEN "failed" ELSE told[r]]
  BY DEF RejectPendingChats
<1>2. \A r \in pending \ awaiting : calls[r] \in Call /\ At(r, "opening") /\ told[r] = "nothing"
  BY DEF SentInv, At
<1>3. \A r \in pending \ awaiting :
        calls'[r] \in Call /\ calls'[r] # None /\ calls'[r].at = "opening"
  <2> SUFFICES ASSUME NEW r \in pending \ awaiting
               PROVE  calls'[r] \in Call /\ calls'[r] # None /\ calls'[r].at = "opening"
    OBVIOUS
  <2>1. calls'[r] = [calls[r] EXCEPT !.refused = TRUE] /\ r \in Requests
    BY <1>1 DEF SentInv
  <2>2. calls'[r] \in Call /\ calls'[r].at = "opening"
    BY <1>2, <2>1 DEF Call, At
  <2> QED
    BY <2>2, NoneAssumption
<1>4. /\ \A r \in awaiting : calls'[r] = None
      /\ \A r \in Requests \ pending : calls'[r] = calls[r]
      /\ \A r \in Requests \ awaiting : told'[r] = told[r]
  BY <1>1 DEF SentInv
<1>5. calls' \in [Requests -> Call \cup {None}]
  <2>1. \A r \in Requests : calls'[r] \in Call \cup {None}
    BY <1>3, <1>4 DEF SentInv
  <2> QED
    BY <1>1, <2>1
<1>6. \A r \in Requests : told'[r] # "nothing" => calls'[r] = None
  BY <1>2, <1>4 DEF SentInv
<1>7. \A r \in Requests, u \in Url :
        sockets'[r][u] = "connecting" => At(r, "trying")' /\ calls'[r].url = u
  <2>1. \A r \in Requests : At(r, "trying") => r \notin pending
    BY DEF SentInv, At
  <2> QED
    BY <1>4, <2>1 DEF SentInv, At
<1>8. ToldUnsent
  BY DEF ToldUnsent
<1> QED
  BY <1>1, <1>5, <1>6, <1>7, <1>8 DEF SentInv

LEMMA RequestChatStep ==
  ASSUME SentInv, NEW r \in Requests, RequestChat(r)
  PROVE  SentInv' /\ ToldUnsent
<1>1. /\ calls[r] = None /\ told[r] = "nothing" /\ UNCHANGED <<sockets, told>>
      /\ pending' = pending \cup {r}
      /\ sent' = sent \/ sent' = [q \in Requests |-> IF q \in {r} THEN sent[q] + 1 ELSE sent[q]]
  BY DEF RequestChat, Send
<1>2. PICK call \in Call :
        /\ calls' = [calls EXCEPT ![r] = call] /\ call # None
        /\ call.at \in {"awaiting", "opening"} /\ ~call.refused
  <2> DEFINE call == [at |-> IF conn.socket = "open" THEN "awaiting" ELSE "opening",
                      url |-> 1, refused |-> FALSE]
  <2>1. call \in Call /\ call.at \in {"awaiting", "opening"} /\ ~call.refused
    BY DEF Call, Url
  <2>2. call # None
    BY <2>1, NoneAssumption
  <2>3. calls' = [calls EXCEPT ![r] = call]
    BY DEF RequestChat
  <2> HIDE DEF call
  <2> QED
    BY <2>1, <2>2, <2>3
<1>3. /\ calls' \in [Requests -> Call \cup {None}] /\ calls'[r] = call
      /\ \A q \in Requests \ {r} : calls'[q] = calls[q]
  BY <1>2 DEF SentInv
<1>4. \A q \in Requests : told'[q] # "nothing" => calls'[q] = None
  BY <1>1, <1>3 DEF SentInv
<1>5. \A q \in pending' :
        q \in Requests /\ (At(q, "awaiting")' \/ (At(q, "opening")' /\ ~calls'[q].refused))
  BY <1>1, <1>2, <1>3 DEF SentInv, At
<1>6. \A q \in Requests, u \in Url :
        sockets'[q][u] = "connecting" => At(q, "trying")' /\ calls'[q].url = u
  BY <1>1, <1>3 DEF SentInv, At
<1>7. ToldUnsent
  BY <1>1 DEF ToldUnsent
<1> QED
  BY <1>1, <1>3, <1>4, <1>5, <1>6, <1>7 DEF SentInv

LEMMA ChatsRest ==
  ASSUME SentInv, UNCHANGED <<pending, calls, sockets, sent, told>>
  PROVE  SentInv' /\ ToldUnsent
BY DEF SentInv, ToldUnsent, At

LEMMA ChatStep ==
  ASSUME SentInv, Next
  PROVE  SentInv' /\ ToldUnsent
<1>1. CASE Reconnect \/ Breaks \/ \E r \in Requests, reply \in Replies : Carried(r, reply)
  <2>1. UNCHANGED <<pending, calls, sockets, sent, told>>
    BY <1>1 DEF Reconnect, Breaks, Carried
  <2> QED
    BY <2>1, ChatsRest
<1>2. CASE Opens
  BY <1>2, OpensStep
<1>3. CASE CloseEvent
  BY <1>3, RejectStep, ChatsRest DEF CloseEvent
<1>4. CASE Close
  <2> DEFINE over == pending \cup {r \in Requests : At(r, "opening")}
  <2>1. over \in SUBSET Requests /\ \A r \in over : ~At(r, "trying")
    BY DEF SentInv, At
  <2>2. /\ pending' = {} /\ Settle(over, "failed") /\ UNCHANGED <<sockets, sent>>
    BY <1>4 DEF Close
  <2> HIDE DEF over
  <2>3. /\ calls' = [r \in Requests |-> IF r \in over THEN None ELSE calls[r]]
        /\ \A r \in Requests : told'[r] # "nothing" => told[r] # "nothing" \/ r \in over
        /\ pending' \subseteq pending \ over
    BY <2>2 DEF Settle
  <2> QED
    BY <2>1, <2>2, <2>3, SharedEnds
<1>5. ASSUME NEW r \in Requests, RequestChat(r) PROVE SentInv' /\ ToldUnsent
  BY <1>5, RequestChatStep
<1>6. ASSUME NEW r \in Requests,
             SharedTimeout(r) \/ \E reply \in Replies : SharedReply(r, reply)
      PROVE  SentInv' /\ ToldUnsent
  <2>1. PICK what : /\ pending' = pending \ {r} /\ Settle({r}, what) /\ UNCHANGED <<sockets, sent>>
                    /\ At(r, "opening") \/ At(r, "awaiting")
    BY <1>6 DEF SharedTimeout, SharedReply
  <2>2. {r} \in SUBSET Requests /\ \A q \in {r} : ~At(q, "trying")
    BY <2>1 DEF At
  <2>3. /\ calls' = [q \in Requests |-> IF q \in {r} THEN None ELSE calls[q]]
        /\ \A q \in Requests : told'[q] # "nothing" => told[q] # "nothing" \/ q \in {r}
        /\ pending' \subseteq pending \ {r}
    BY <2>1 DEF Settle
  <2> QED
    BY <2>1, <2>2, <2>3, SharedEnds
<1>7. ASSUME NEW r \in Requests, StartTrying(r) PROVE SentInv' /\ ToldUnsent
  BY <1>7, StartTryingStep
<1>8. ASSUME NEW r \in Requests, NEW u \in Url, TryOpens(r, u) PROVE SentInv' /\ ToldUnsent
  BY <1>8, TryOpensStep
<1>9. ASSUME NEW r \in Requests,
             TryTimeout(r) \/ TryBreaks(r) \/ \E reply \in Replies : TryReply(r, reply)
      PROVE  SentInv' /\ ToldUnsent
  <2>1. /\ At(r, "trying") /\ UNCHANGED <<pending, sent>>
        /\ \/ \E requestSent \in BOOLEAN : TryAgain(r, requestSent)
           \/ \E what \in Replies :
                sockets' = [sockets EXCEPT ![r] = Finished(r)] /\ Settle({r}, what)
    BY <1>9 DEF TryTimeout, TryBreaks, TryReply
  <2> QED
    BY <2>1, AttemptEnds
<1> QED
  BY <1>1, <1>2, <1>3, <1>4, <1>5, <1>6, <1>7, <1>8, <1>9 DEF Next

\* A request whose user was told that it failed, or was answered, is not sent
\* again, by whatever connection or socket is still open for it.
THEOREM ToldIsNotSent == DesktopSpec => NotSentAfterTold
<1>1. ASSUME DesktopInit PROVE SentInv
  <2>1. /\ pending = {} /\ calls = [r \in Requests |-> None]
        /\ sockets = [r \in Requests |-> NoSockets] /\ told = [r \in Requests |-> "nothing"]
    BY <1>1 DEF DesktopInit, Init
  <2> QED
    BY <2>1 DEF SentInv, NoSockets
<1>2. SentInv /\ [DesktopNext]_desktopVars => SentInv' /\ ToldUnsent
  BY ChatStep, ChatsRest DEF DesktopNext, desktopVars, vars
<1>3. ToldUnsent => [\A r \in Requests : told[r] # "nothing" => sent'[r] = sent[r]]_vars
  BY DEF ToldUnsent
<1> QED
  BY <1>1, <1>2, <1>3, PTL DEF DesktopSpec, NotSentAfterTold

----------------------------------------------------------------------------
(* The memories on the page of the Memory Mesh (MemoryPage), in variables of *)
(* their own                                                                 *)

CONSTANTS
  Memories, Texts, Queries, Slots, MaxSaves, MaxSteps, MaxErrors

VARIABLES
  memories, overview, tab, query, timer, results, opened, spins, memoryAsks, saves, steps,
  misses, reads, ours, failed

Memory == INSTANCE MemoryPage
  WITH MaxMade <- MaxSaves, MaxFailures <- MaxErrors, stored <- memories, editor <- opened,
       busy <- spins, requests <- memoryAsks, made <- saves, failures <- misses

MemoryTypes ==
  /\ Memory!TypeOK
  /\ reads \in Nat /\ memoryAsks \in [Slots -> Memory!Request \cup {None}]

\* A search that the page hears of is the one that the page shows, and so is what it found
\* unless a search is to come.
SearchInv ==
  /\ timer \/ results # None => query # None /\ tab # "projects"
  /\ \A s \in Slots : Memory!Live(s) /\ memoryAsks[s].does = "search" =>
       /\ memoryAsks[s].query = query /\ memoryAsks[s].tab = tab
       /\ query # None /\ tab # "projects"
  /\ Memory!FoundAsSearched

\* A request that is or will be one of the overview that is not read yet
Coming(s) ==
  /\ Memory!Live(s)
  /\ \/ memoryAsks[s].does = "sync"
     \/ memoryAsks[s].does = "overview" /\ ~memoryAsks[s].answered
     \/ memoryAsks[s].does \in {"save", "remove"} /\ memoryAsks[s].answered

Fetched(s) ==
  memoryAsks[s] # None /\ memoryAsks[s].does = "overview" /\ memoryAsks[s].answered

ReadInv ==
  \A s \in Slots :
    Fetched(s) => memoryAsks[s].rows \in Memory!Rows /\ memoryAsks[s].read \in 1..reads

\* Whoever has the overview that was read last has this memory as it is.
Latest(id) ==
  /\ overview # None /\ overview.read = reads => overview.rows[id] = memories[id]
  /\ \A s \in Slots : Fetched(s) /\ memoryAsks[s].read = reads =>
       memoryAsks[s].rows[id] = memories[id]

\* Of every change of the page the last reading knows, or another one is to come.
RefreshInv ==
  failed = {} => \A id \in ours : (\E s \in Slots : Coming(s)) \/ Latest(id)

MemoryInv ==
  /\ Memory!MemoryPageAssumption
  /\ MemoryTypes /\ SearchInv /\ ReadInv /\ RefreshInv

MemoryTurned(s, q) ==
  /\ memoryAsks' \in [Slots -> Memory!Request \cup {None}]
  /\ memoryAsks'[s] = q
  /\ \A t \in Slots : t # s => memoryAsks'[t] = memoryAsks[t]

LEMMA MemoryTurns ==
  ASSUME MemoryTypes, NEW s \in Slots, NEW q \in Memory!Request \cup {None},
         memoryAsks' = [memoryAsks EXCEPT ![s] = q]
  PROVE  MemoryTurned(s, q)
BY DEF MemoryTypes, MemoryTurned

\* One request is made, served or over, and nothing else that the page shows of its search.
LEMMA TurnKeepsSearch ==
  ASSUME SearchInv, NEW s \in Slots, NEW q, MemoryTurned(s, q),
         UNCHANGED <<tab, query, timer, results>>, failed \subseteq failed',
         q # None /\ ~q.cancelled /\ q.does = "search" =>
           /\ q.query = query /\ q.tab = tab /\ query # None /\ tab # "projects",
         Memory!Live(s) /\ memoryAsks[s].does = "search" =>
           \/ "search" \in failed'
           \/ q # None /\ ~q.cancelled /\ q.does = "search"
  PROVE  SearchInv'
<1>1. \A t \in Slots : memoryAsks'[t] = IF t = s THEN q ELSE memoryAsks[t]
  BY DEF MemoryTurned
<1>2. \A t \in Slots : Memory!Live(t)' /\ memoryAsks'[t].does = "search" =>
        /\ memoryAsks'[t].query = query /\ memoryAsks'[t].tab = tab
        /\ query # None /\ tab # "projects"
  BY <1>1 DEF SearchInv, Memory!Live
<1>3. ASSUME results # None, ~timer, "search" \notin failed',
             \A t \in Slots : ~(Memory!Live(t)' /\ memoryAsks'[t].does = "search")
      PROVE  results.query = query /\ results.tab = tab
  <2>1. \A t \in Slots : ~(Memory!Live(t) /\ memoryAsks[t].does = "search")
    BY <1>1, <1>3 DEF Memory!Live
  <2> QED
    BY <1>3, <2>1 DEF SearchInv, Memory!FoundAsSearched
<1>4. Memory!FoundAsSearched'
  BY <1>3 DEF SearchInv, Memory!FoundAsSearched
<1> QED
  BY <1>2, <1>4 DEF SearchInv

\* The memories, or their owners, may change as long as the page's own changes stay.
LEMMA TurnKeepsRefresh ==
  ASSUME RefreshInv, NEW s \in Slots, NEW q, MemoryTurned(s, q),
         UNCHANGED <<overview, reads>>, failed \subseteq failed',
         \A id \in ours' : id \in ours /\ memories'[id] = memories[id],
         ~(q # None /\ q.does = "overview" /\ q.answered),
         Coming(s) => failed' # {} \/ Coming(s)'
  PROVE  RefreshInv'
<1> SUFFICES ASSUME failed' = {}, NEW id \in ours', ~ \E t \in Slots : Coming(t)'
             PROVE  Latest(id)'
  BY DEF RefreshInv
<1>1. \A t \in Slots : memoryAsks'[t] = IF t = s THEN q ELSE memoryAsks[t]
  BY DEF MemoryTurned
<1>2. ~ \E t \in Slots : Coming(t)
  BY <1>1 DEF Coming, Memory!Live
<1>3. Latest(id)
  BY <1>2 DEF RefreshInv
<1>4. \A t \in Slots : Fetched(t)' => Fetched(t) /\ memoryAsks'[t] = memoryAsks[t]
  BY <1>1 DEF Fetched
<1> QED
  BY <1>3, <1>4 DEF Latest

LEMMA TurnKeepsReads ==
  ASSUME MemoryTypes, ReadInv, NEW s \in Slots, NEW q, MemoryTurned(s, q),
         reads' \in Nat, reads <= reads',
         q # None /\ q.does = "overview" /\ q.answered =>
           q.rows \in Memory!Rows /\ q.read \in 1..reads'
  PROVE  ReadInv'
<1>1. \A t \in Slots : memoryAsks'[t] = IF t = s THEN q ELSE memoryAsks[t]
  BY DEF MemoryTurned
<1> SUFFICES ASSUME NEW t \in Slots, Fetched(t)'
             PROVE  memoryAsks'[t].rows \in Memory!Rows /\ memoryAsks'[t].read \in 1..reads'
  BY DEF ReadInv, Memory!Rows
<1>2. CASE t = s
  BY <1>1, <1>2 DEF Fetched
<1>3. CASE t # s
  <2>1. memoryAsks[t].rows \in Memory!Rows /\ memoryAsks[t].read \in 1..reads
    BY <1>1, <1>3 DEF Fetched, ReadInv
  <2>2. reads \in Nat
    BY DEF MemoryTypes
  <2> QED
    BY <1>1, <1>3, <2>1, <2>2
<1> QED
  BY <1>2, <1>3

LEMMA AssumedStays ==
  ASSUME Memory!MemoryPageAssumption PROVE Memory!MemoryPageAssumption'
BY DEF Memory!MemoryPageAssumption, Memory!Request, Memory!Rows, Memory!Does, Memory!Tab

\* What is assumed of the constants
LEMMA MemoryConstants ==
  ASSUME MemoryInv
  PROVE  /\ None \notin Memories /\ None # "new" /\ "new" \notin Memories
         /\ None \notin Queries /\ None \notin Memory!Request
         /\ None \notin [rows : Memory!Rows, read : Nat]
         /\ None \notin [query : Queries, tab : Memory!Tab]
         /\ MaxSaves \in Nat /\ MaxSteps \in Nat /\ MaxErrors \in Nat
         /\ Memory!MemoryPageAssumption'
BY AssumedStays DEF MemoryInv, Memory!MemoryPageAssumption

LEMMA NewRequests ==
  ASSUME NEW does \in Memory!Does, NEW b \in BOOLEAN, NEW id \in Memories \cup {"new", None},
         NEW row \in Texts \cup {None}
  PROVE  LET q == Memory!NewRequest(does, b, id, row)
         IN q \in Memory!Request /\ q.does = does /\ ~q.answered /\ ~q.cancelled
BY DEF Memory!NewRequest, Memory!Request, Memory!Tab

LEMMA MemorySent ==
  ASSUME MemoryInv, NEW q \in Memory!Request, Memory!Sent(q)
  PROVE  \E s \in Slots : memoryAsks[s] = None /\ MemoryTurned(s, q)
<1> DEFINE s == CHOOSE t \in Memory!Free : TRUE
<1>1. s \in Memory!Free /\ memoryAsks' = [memoryAsks EXCEPT ![s] = q]
  BY DEF Memory!Sent
<1> HIDE DEF s
<1>2. s \in Slots /\ memoryAsks[s] = None
  BY <1>1 DEF Memory!Free
<1> QED
  BY <1>1, <1>2, MemoryTurns DEF MemoryInv

\* A request of the user, who may be in the editor
LEMMA AskKeepsMemories ==
  ASSUME MemoryInv, NEW does \in Memory!Does \ {"search"}, NEW b \in BOOLEAN,
         NEW id \in Memories \cup {"new", None}, NEW row \in Texts \cup {None},
         Memory!Asks(does, b, id, row), spins' \in BOOLEAN,
         UNCHANGED <<memories, overview, tab, query, timer, results, opened, steps, misses,
                     reads, ours, failed>>
  PROVE  MemoryInv'
<1> DEFINE q == Memory!NewRequest(does, b, id, row)
<1>1. q \in Memory!Request /\ q.does = does /\ ~q.answered /\ ~q.cancelled
  BY NewRequests
<1>2. Memory!Sent(q) /\ saves < MaxSaves /\ saves' = saves + 1
  BY DEF Memory!Asks
<1> HIDE DEF q
<1>3. PICK s \in Slots : memoryAsks[s] = None /\ MemoryTurned(s, q)
  BY <1>1, <1>2, MemorySent
<1>4. SearchInv'
  BY <1>1, <1>3, TurnKeepsSearch DEF MemoryInv, Memory!Live
<1>5. ReadInv'
  BY <1>1, <1>3, TurnKeepsReads DEF MemoryInv, MemoryTypes
<1>6. RefreshInv'
  BY <1>1, <1>3, TurnKeepsRefresh DEF MemoryInv, Coming, Memory!Live
<1>7. MemoryTypes'
  BY <1>2, <1>3, MemoryConstants DEF MemoryInv, MemoryTypes, Memory!TypeOK, MemoryTurned
<1> QED
  BY <1>4, <1>5, <1>6, <1>7, MemoryConstants DEF MemoryInv

LEMMA UserKeepsMemories ==
  ASSUME MemoryInv, Memory!SyncDiscovery \/ Memory!SaveOrRemove
  PROVE  MemoryInv'
<1>1. CASE Memory!SyncDiscovery
  BY <1>1, AskKeepsMemories DEF Memory!SyncDiscovery, Memory!Does
<1>2. CASE Memory!SaveOrRemove
  <2>1. opened \in Memories \cup {"new", None} /\ spins' \in BOOLEAN
    BY <1>2 DEF Memory!SaveOrRemove, MemoryInv, MemoryTypes, Memory!TypeOK
  <2>2. /\ UNCHANGED <<memories, overview, tab, query, timer, results, opened, steps, misses,
                       reads, ours, failed>>
        /\ \/ \E row \in Texts : Memory!Asks("save", FALSE, opened, row)
           \/ Memory!Asks("remove", FALSE, opened, None)
    BY <1>2 DEF Memory!SaveOrRemove
  <2>3. {"save", "remove"} \subseteq Memory!Does \ {"search"}
    BY DEF Memory!Does
  <2> QED
    BY <2>1, <2>2, <2>3, AskKeepsMemories
<1> QED
  BY <1>1, <1>2

\* Steps without a request: the editor, and changes that agents make
LEMMA OthersKeepMemories ==
  ASSUME MemoryInv, Memory!OpenEditor \/ Memory!CloseEditor \/ Memory!AgentWrites
  PROVE  MemoryInv'
<1>1. /\ UNCHANGED <<overview, tab, query, timer, results, spins, memoryAsks, saves, misses,
                     reads, failed>>
      /\ steps' \in 0..MaxSteps /\ opened' \in Memories \cup {"new", None}
  BY MemoryConstants
  DEF Memory!OpenEditor, Memory!CloseEditor, Memory!AgentWrites, MemoryInv, MemoryTypes,
      Memory!TypeOK
<1>2. /\ memories' \in Memory!Rows /\ ours' \subseteq Memories
      /\ \A id \in ours' : id \in ours /\ memories'[id] = memories[id]
  <2>1. memories \in Memory!Rows /\ ours \subseteq Memories
    BY DEF MemoryInv, MemoryTypes, Memory!TypeOK
  <2>2. CASE Memory!OpenEditor \/ Memory!CloseEditor
    BY <2>1, <2>2 DEF Memory!OpenEditor, Memory!CloseEditor, Memory!Rows
  <2>3. CASE Memory!AgentWrites
    <3>1. PICK id \in Memories, row \in Texts \cup {None} :
            memories' = [memories EXCEPT ![id] = row] /\ ours' = ours \ {id}
      BY <2>3 DEF Memory!AgentWrites, Memory!Write
    <3> QED
      BY <2>1, <3>1 DEF Memory!Rows
  <2> QED
    BY <2>2, <2>3
<1>3. SearchInv' /\ ReadInv'
  BY <1>1 DEF MemoryInv, SearchInv, Memory!FoundAsSearched, Memory!Live, ReadInv, Fetched,
     Memory!Rows
<1>4. RefreshInv'
  <2>1. \A id \in ours' : Latest(id) => Latest(id)'
    BY <1>1, <1>2 DEF Latest, Fetched
  <2> QED
    BY <1>1, <1>2, <2>1 DEF MemoryInv, RefreshInv, Coming, Memory!Live
<1>5. MemoryTypes'
  BY <1>1, <1>2 DEF MemoryInv, MemoryTypes, Memory!TypeOK, Memory!Rows, Memory!Request
<1> QED
  BY <1>3, <1>4, <1>5, MemoryConstants DEF MemoryInv

\* A new search, of which the page hears when its time has come
LEMMA SearchForKeepsMemories ==
  ASSUME MemoryInv, NEW q \in Queries \cup {None}, NEW t \in Memory!Tab, Memory!SearchFor(q, t)
  PROVE  MemoryInv'
<1>1. /\ query' = q /\ tab' = t /\ timer' = (t # "projects" /\ q # None)
      /\ results' = IF timer' THEN results ELSE None
      /\ steps' \in 0..MaxSteps
      /\ UNCHANGED <<memories, overview, opened, spins, saves, misses, reads, ours, failed>>
  BY MemoryConstants DEF Memory!SearchFor, MemoryInv, MemoryTypes, Memory!TypeOK
<1>2. memoryAsks' = Memory!Cancelled
  BY DEF Memory!SearchFor
<1>3. \A s \in Slots :
        memoryAsks'[s] = IF memoryAsks[s] # None /\ memoryAsks[s].does = "search"
                         THEN [memoryAsks[s] EXCEPT !.cancelled = TRUE] ELSE memoryAsks[s]
  BY <1>2 DEF Memory!Cancelled
<1>4. \A s \in Slots :
        /\ memoryAsks[s] \in Memory!Request \cup {None}
        /\ memoryAsks'[s] \in Memory!Request \cup {None}
        /\ memoryAsks'[s] # None /\ memoryAsks'[s].does = "search" => memoryAsks'[s].cancelled
        /\ ~(memoryAsks[s] # None /\ memoryAsks[s].does = "search") =>
             memoryAsks'[s] = memoryAsks[s]
        /\ memoryAsks[s] # None /\ memoryAsks[s].does = "search" =>
             memoryAsks'[s] # None /\ memoryAsks'[s].does = "search"
  <2> SUFFICES ASSUME NEW s \in Slots
               PROVE  /\ memoryAsks[s] \in Memory!Request \cup {None}
                      /\ memoryAsks'[s] \in Memory!Request \cup {None}
                      /\ memoryAsks'[s] # None /\ memoryAsks'[s].does = "search" =>
                           memoryAsks'[s].cancelled
                      /\ ~(memoryAsks[s] # None /\ memoryAsks[s].does = "search") =>
                           memoryAsks'[s] = memoryAsks[s]
                      /\ memoryAsks[s] # None /\ memoryAsks[s].does = "search" =>
                           memoryAsks'[s] # None /\ memoryAsks'[s].does = "search"
    OBVIOUS
  <2>1. memoryAsks[s] \in Memory!Request \cup {None}
    BY DEF MemoryInv, MemoryTypes
  <2>2. CASE memoryAsks[s] # None /\ memoryAsks[s].does = "search"
    <3>1. PICK r \in Memory!Request : r = memoryAsks[s]
      BY <2>1, <2>2
    <3> DEFINE c == [r EXCEPT !.cancelled = TRUE]
    <3>2. c \in Memory!Request /\ c.cancelled /\ c.does = "search"
      BY <2>2, <3>1 DEF Memory!Request
    <3>3. memoryAsks'[s] = c
      BY <1>3, <2>2, <3>1
    <3> HIDE DEF c
    <3> QED
      BY <2>1, <2>2, <3>2, <3>3, MemoryConstants
  <2>3. CASE ~(memoryAsks[s] # None /\ memoryAsks[s].does = "search")
    <3>1. memoryAsks'[s] = memoryAsks[s]
      BY <1>3, <2>3
    <3> QED
      BY <2>1, <2>3, <3>1
  <2> QED
    BY <2>2, <2>3
<1>5. memoryAsks' \in [Slots -> Memory!Request \cup {None}]
  BY <1>2, <1>4 DEF Memory!Cancelled
<1>6. SearchInv'
  <2>1. \A s \in Slots : ~(Memory!Live(s)' /\ memoryAsks'[s].does = "search")
    BY <1>4 DEF Memory!Live
  <2>2. timer' \/ results' # None => query' # None /\ tab' # "projects"
    BY <1>1
  <2>3. results' # None => timer'
    BY <1>1
  <2> QED
    BY <2>1, <2>2, <2>3 DEF SearchInv, Memory!FoundAsSearched
<1>7. \A s \in Slots :
        /\ Fetched(s)' => Fetched(s) /\ memoryAsks'[s] = memoryAsks[s]
        /\ Coming(s) => Coming(s)'
  BY <1>4 DEF Fetched, Coming, Memory!Live
<1>8. ReadInv'
  BY <1>1, <1>7 DEF MemoryInv, ReadInv, Memory!Rows
<1>9. RefreshInv'
  <2>1. \A id \in ours' : Latest(id) => Latest(id)'
    BY <1>1, <1>7 DEF Latest
  <2> QED
    BY <1>1, <1>7, <2>1 DEF MemoryInv, RefreshInv
<1>10. MemoryTypes'
  <2>1. /\ tab' \in Memory!Tab \cup {None} /\ query' \in Queries \cup {None}
        /\ timer' \in BOOLEAN
        /\ results' = None \/ results' \in [query : Queries, tab : Memory!Tab]
    BY <1>1 DEF MemoryInv, MemoryTypes, Memory!TypeOK
  <2> QED
    BY <1>1, <1>5, <2>1 DEF MemoryInv, MemoryTypes, Memory!TypeOK, Memory!Rows,
       Memory!Request, Memory!Tab, Memory!Does
<1> QED
  BY <1>6, <1>8, <1>9, <1>10, MemoryConstants DEF MemoryInv

LEMMA TimerKeepsMemories ==
  ASSUME MemoryInv, Memory!TimerFires, tab # None PROVE MemoryInv'
<1> DEFINE q == [Memory!NewRequest("search", FALSE, None, None) EXCEPT !.query = query,
                                                                    !.tab = tab]
<1>1. /\ query \in Queries /\ tab \in Memory!Tab \ {"projects"} /\ query # None
  BY MemoryConstants DEF Memory!TimerFires, MemoryInv, SearchInv, MemoryTypes, Memory!TypeOK,
     Memory!Tab
<1>2. /\ q \in Memory!Request /\ q.does = "search" /\ ~q.answered /\ ~q.cancelled
      /\ q.query = query /\ q.tab = tab
  BY <1>1 DEF Memory!NewRequest, Memory!Request, Memory!Does, Memory!Tab
<1>3. /\ Memory!Sent(q) /\ timer' = FALSE
      /\ UNCHANGED <<memories, overview, tab, query, results, opened, spins, saves, steps,
                     misses, reads, ours, failed>>
  BY DEF Memory!TimerFires
<1> HIDE DEF q
<1>4. PICK s \in Slots : memoryAsks[s] = None /\ MemoryTurned(s, q)
  BY <1>2, <1>3, MemorySent
<1>5. \A t \in Slots : memoryAsks'[t] = IF t = s THEN q ELSE memoryAsks[t]
  BY <1>4 DEF MemoryTurned
<1>6. q # None
  BY <1>2, MemoryConstants
<1>7. SearchInv'
  <2>1. Memory!Live(s)' /\ memoryAsks'[s].does = "search"
    BY <1>2, <1>5, <1>6 DEF Memory!Live
  <2>2. \A t \in Slots : Memory!Live(t)' /\ memoryAsks'[t].does = "search" =>
          /\ memoryAsks'[t].query = query /\ memoryAsks'[t].tab = tab
          /\ query # None /\ tab # "projects"
    BY <1>1, <1>2, <1>5 DEF MemoryInv, SearchInv, Memory!Live
  <2> QED
    BY <1>1, <1>3, <2>1, <2>2 DEF SearchInv, Memory!FoundAsSearched
<1>8. ReadInv'
  BY <1>2, <1>3, <1>4, TurnKeepsReads DEF MemoryInv, MemoryTypes
<1>9. RefreshInv'
  BY <1>2, <1>3, <1>4, TurnKeepsRefresh DEF MemoryInv, Coming, Memory!Live
<1>10. MemoryTypes'
  BY <1>3, <1>4 DEF MemoryInv, MemoryTypes, Memory!TypeOK, MemoryTurned
<1> QED
  BY <1>7, <1>8, <1>9, <1>10, MemoryConstants DEF MemoryInv

\* The page is opened anew: only its sync is heard of.
LEMMA OpenKeepsMemories ==
  ASSUME MemoryInv, Memory!Open PROVE MemoryInv'
<1> DEFINE q == Memory!NewRequest("sync", TRUE, None, None)
<1>1. /\ overview' = None /\ tab' = "recent" /\ query' = None /\ timer' = FALSE
      /\ results' = None /\ opened' = None /\ spins' = TRUE /\ steps' \in 0..MaxSteps
      /\ UNCHANGED <<memories, saves, misses, reads, ours, failed>>
  BY MemoryConstants DEF Memory!Open, MemoryInv, MemoryTypes, Memory!TypeOK
<1>2. PICK s \in Slots :
        memoryAsks' = [r \in Slots |->
          IF r = s THEN q
          ELSE IF Memory!IsChange(r) THEN [memoryAsks[r] EXCEPT !.cancelled = TRUE] ELSE None]
  BY DEF Memory!Open
<1>3. /\ q \in Memory!Request /\ q.does = "sync" /\ ~q.answered /\ ~q.cancelled /\ q # None
  <2>1. "sync" \in Memory!Does
    BY DEF Memory!Does
  <2>2. q \in Memory!Request /\ q.does = "sync" /\ ~q.answered /\ ~q.cancelled
    BY <2>1, NewRequests
  <2> HIDE DEF q
  <2> QED
    BY <2>2, MemoryConstants
<1> HIDE DEF q
<1>4. \A r \in Slots :
        /\ memoryAsks'[r] \in Memory!Request \cup {None}
        /\ memoryAsks'[r] # None => r = s \/ (memoryAsks'[r].does \in {"save", "remove"}
                                              /\ memoryAsks'[r].cancelled)
  <2> SUFFICES ASSUME NEW r \in Slots, r # s
               PROVE  /\ memoryAsks'[r] \in Memory!Request \cup {None}
                      /\ memoryAsks'[r] # None => /\ memoryAsks'[r].does \in {"save", "remove"}
                                                  /\ memoryAsks'[r].cancelled
    BY <1>2, <1>3
  <2>1. CASE ~Memory!IsChange(r)
    BY <1>2, <2>1
  <2>2. CASE Memory!IsChange(r)
    <3>1. PICK c \in Memory!Request : c = memoryAsks[r] /\ c.does \in {"save", "remove"}
      BY <2>2 DEF Memory!IsChange, MemoryInv, MemoryTypes
    <3> DEFINE d == [c EXCEPT !.cancelled = TRUE]
    <3>2. d \in Memory!Request /\ d.does \in {"save", "remove"} /\ d.cancelled
      BY <3>1 DEF Memory!Request
    <3>3. memoryAsks'[r] = d
      BY <1>2, <2>2, <3>1
    <3> HIDE DEF d
    <3> QED
      BY <3>2, <3>3
  <2> QED
    BY <2>1, <2>2
<1>5. memoryAsks'[s] = q /\ memoryAsks' \in [Slots -> Memory!Request \cup {None}]
  BY <1>2, <1>4
<1>6. SearchInv'
  <2>1. \A r \in Slots : ~(Memory!Live(r)' /\ memoryAsks'[r].does = "search")
    BY <1>3, <1>4, <1>5 DEF Memory!Live
  <2> QED
    BY <1>1, <2>1 DEF SearchInv, Memory!FoundAsSearched
<1>7. ReadInv'
  BY <1>3, <1>4, <1>5 DEF ReadInv, Fetched
<1>8. RefreshInv'
  BY <1>3, <1>5 DEF RefreshInv, Coming, Memory!Live
<1>9. MemoryTypes'
  BY <1>1, <1>5 DEF MemoryInv, MemoryTypes, Memory!TypeOK, Memory!Rows, Memory!Request,
     Memory!Tab, Memory!Does
<1> QED
  BY <1>6, <1>7, <1>8, <1>9, MemoryConstants DEF MemoryInv

\* Requests that are under way
LEMMA MemoryAsked ==
  ASSUME MemoryInv, NEW s \in Slots, memoryAsks[s] # None
  PROVE  \E r \in Memory!Request : r = memoryAsks[s]
BY DEF MemoryInv, MemoryTypes

\* A change of the memories by the page or by an agent
LEMMA MemoryWritten ==
  ASSUME MemoryInv, NEW id \in Memories, NEW row \in Texts \cup {None}, NEW by,
         Memory!Write(id, row, by)
  PROVE  /\ memories' \in Memory!Rows /\ ours' \subseteq Memories
         /\ by # "page" => \A x \in ours' : x \in ours /\ memories'[x] = memories[x]
<1>1. memories \in Memory!Rows /\ ours \subseteq Memories
  BY DEF MemoryInv, MemoryTypes, Memory!TypeOK
<1>2. memories' \in Memory!Rows /\ \A x \in Memories : x # id => memories'[x] = memories[x]
  BY <1>1 DEF Memory!Write, Memory!Rows
<1> QED
  BY <1>1, <1>2 DEF Memory!Write

LEMMA ServeKeepsMemories ==
  ASSUME MemoryInv, NEW s \in Slots, Memory!Serve(s) PROVE MemoryInv'
<1>1. PICK r \in Memory!Request : r = memoryAsks[s]
  BY MemoryAsked DEF Memory!Serve
<1>2. /\ r # None /\ ~r.answered
      /\ UNCHANGED <<overview, tab, query, timer, results, opened, spins, saves, steps, misses,
                     failed>>
      /\ reads' = IF r.does = "overview" THEN reads + 1 ELSE reads
  BY <1>1 DEF Memory!Serve
<1>3. /\ memories \in Memory!Rows /\ ours \subseteq Memories /\ reads \in Nat
      /\ r.does \in Memory!Does /\ r.cancelled \in BOOLEAN /\ r.row \in Texts \cup {None}
  BY DEF MemoryInv, MemoryTypes, Memory!TypeOK, Memory!Request
<1> DEFINE got == IF r.does = "overview" THEN memories ELSE None
           number == IF r.does = "overview" THEN reads + 1 ELSE 0
           q == [r EXCEPT !.answered = TRUE, !.rows = got, !.read = number]
<1>4. /\ q \in Memory!Request /\ q.answered /\ q.does = r.does /\ q.cancelled = r.cancelled
      /\ q.query = r.query /\ q.tab = r.tab
      /\ r.does = "overview" => q.rows = memories /\ q.read = reads + 1
  <2>1. /\ got \in Memory!Rows \cup {None} /\ number \in Nat
        /\ r.does = "overview" => got = memories /\ number = reads + 1
    BY <1>3
  <2> HIDE DEF got, number
  <2> QED
    BY <2>1 DEF Memory!Request
<1>5. ASSUME NEW x \in {q, None}, MemoryTurned(s, x), memories' \in Memory!Rows,
             ours' \subseteq Memories
      PROVE  MemoryTypes'
  <2>1. reads' \in Nat /\ (overview = None \/ overview \in [rows : Memory!Rows, read : 1..reads'])
    BY <1>2, <1>3 DEF MemoryInv, MemoryTypes, Memory!TypeOK
  <2> HIDE DEF q
  <2> QED
    BY <1>2, <1>5, <2>1 DEF MemoryInv, MemoryTypes, Memory!TypeOK, MemoryTurned
<1>6. ASSUME memoryAsks' = [memoryAsks EXCEPT ![s] = q]
      PROVE  MemoryTurned(s, q)
  BY <1>4, <1>6, MemoryTurns DEF MemoryInv
<1>7. CASE r.cancelled /\ r.does \in {"save", "remove"}
  <2>1. memoryAsks' = [memoryAsks EXCEPT ![s] = None]
    BY <1>1, <1>2, <1>7 DEF Memory!Serve, Memory!IsChange
  <2>2. MemoryTurned(s, None)
    BY <2>1, MemoryTurns DEF MemoryInv
  <2>3. PICK id \in Memories : Memory!Write(id, r.row, "agent")
    BY <1>1, <1>7 DEF Memory!Serve
  <2>4. /\ memories' \in Memory!Rows /\ ours' \subseteq Memories
        /\ \A x \in ours' : x \in ours /\ memories'[x] = memories[x]
    BY <1>3, <2>3, MemoryWritten
  <2>5. reads' = reads
    BY <1>2, <1>7
  <2>6. SearchInv'
    BY <1>1, <1>2, <1>7, <2>2, TurnKeepsSearch DEF MemoryInv
  <2>7. ReadInv'
    BY <1>3, <2>2, <2>5, TurnKeepsReads DEF MemoryInv
  <2>8. RefreshInv'
    BY <1>1, <1>2, <1>7, <2>2, <2>4, <2>5, TurnKeepsRefresh DEF MemoryInv, Coming, Memory!Live
  <2>9. MemoryTypes'
    BY <1>5, <2>2, <2>4
  <2> QED
    BY <2>6, <2>7, <2>8, <2>9, MemoryConstants DEF MemoryInv
<1>8. CASE ~(r.cancelled /\ r.does \in {"save", "remove"})
  <2>1. memoryAsks' = [memoryAsks EXCEPT ![s] = q]
    <3>1. memoryAsks' = [memoryAsks EXCEPT
            ![s].answered = TRUE,
            ![s].rows = IF r.does = "overview" THEN memories ELSE None,
            ![s].read = IF r.does = "overview" THEN reads + 1 ELSE 0]
      BY <1>1, <1>8 DEF Memory!Serve, Memory!IsChange
    <3> QED
      BY <1>1, <3>1 DEF MemoryInv, MemoryTypes
  <2>2. MemoryTurned(s, q)
    BY <1>6, <2>1
  <2>3. memories' \in Memory!Rows /\ ours' \subseteq Memories
    <3>1. CASE r.does \in {"save", "remove"}
      <4>1. PICK id \in Memories, by \in {"agent", "page"} : Memory!Write(id, r.row, by)
        BY <1>1, <3>1 DEF Memory!Serve
      <4> QED
        BY <1>3, <4>1, MemoryWritten
    <3>2. CASE r.does \notin {"save", "remove"}
      BY <1>1, <1>3, <3>2 DEF Memory!Serve
    <3> QED
      BY <3>1, <3>2
  <2>4. MemoryTypes'
    BY <1>5, <2>2, <2>3
  <2> HIDE DEF q
  <2>5. q # None
    BY <1>4, MemoryConstants
  <2>6. SearchInv'
    <3>1. Memory!Live(s) /\ r.does = "search" =>
            /\ r.query = query /\ r.tab = tab /\ query # None /\ tab # "projects"
      BY <1>1 DEF MemoryInv, SearchInv
    <3> QED
      BY <1>1, <1>2, <1>4, <2>2, <2>5, <3>1, TurnKeepsSearch DEF MemoryInv, Memory!Live
  <2>7. reads' \in Nat /\ reads <= reads'
    BY <1>2, <1>3
  <2>8. ReadInv'
    <3>1. q.does = "overview" => q.rows \in Memory!Rows /\ q.read \in 1..reads'
      BY <1>2, <1>3, <1>4
    <3> QED
      BY <2>2, <2>7, <3>1, TurnKeepsReads DEF MemoryInv
  <2>9. RefreshInv'
    <3>1. CASE r.does \in {"sync", "search"}
      <4>1. UNCHANGED <<memories, ours, reads>>
        BY <1>1, <1>2, <3>1 DEF Memory!Serve
      <4>2. Coming(s) => Coming(s)'
        BY <1>1, <1>4, <2>2, <2>5, <3>1 DEF Coming, Memory!Live, MemoryTurned
      <4> QED
        BY <1>2, <1>4, <2>2, <3>1, <4>1, <4>2, TurnKeepsRefresh DEF MemoryInv
    <3>2. CASE r.does = "overview"
      <4>1. UNCHANGED <<memories, ours>> /\ reads' = reads + 1
        BY <1>1, <1>2, <3>2 DEF Memory!Serve
      <4>2. ~(overview' # None /\ overview'.read = reads')
        BY <1>2, <1>3, <4>1 DEF MemoryInv, MemoryTypes, Memory!TypeOK
      <4>3. \A t \in Slots : t # s => ~(Fetched(t)' /\ memoryAsks'[t].read = reads')
        BY <1>3, <2>2, <4>1 DEF MemoryInv, ReadInv, Fetched, MemoryTurned
      <4>4. memoryAsks'[s].rows = memories'
        BY <1>4, <2>2, <3>2, <4>1 DEF MemoryTurned
      <4> QED
        BY <4>2, <4>3, <4>4 DEF RefreshInv, Latest
    <3>3. CASE r.does \in {"save", "remove"}
      <4>1. Coming(s)'
        BY <1>3, <1>4, <1>8, <2>2, <2>5, <3>3 DEF Coming, Memory!Live, MemoryTurned
      <4> QED
        BY <4>1 DEF RefreshInv
    <3> QED
      BY <1>3, <3>1, <3>2, <3>3 DEF Memory!Does
  <2> QED
    BY <2>4, <2>6, <2>8, <2>9, MemoryConstants DEF MemoryInv
<1> QED
  BY <1>7, <1>8

LEMMA AnswerKeepsMemories ==
  ASSUME MemoryInv, NEW s \in Slots, Memory!Answered(s) PROVE MemoryInv'
<1>1. PICK r \in Memory!Request : r = memoryAsks[s]
  BY MemoryAsked DEF Memory!Answered
<1>2. /\ r # None /\ r.answered
      /\ UNCHANGED <<memories, tab, query, timer, saves, steps, misses, reads, ours, failed>>
      /\ overview' = IF r.does = "overview" THEN [rows |-> r.rows, read |-> r.read] ELSE overview
      /\ results' = IF r.does = "search" /\ ~r.cancelled
                    THEN [query |-> r.query, tab |-> r.tab] ELSE results
  BY <1>1 DEF Memory!Answered
<1>3. /\ r.does \in Memory!Does /\ r.spins \in BOOLEAN /\ r.query \in Queries \cup {None}
      /\ r.tab \in Memory!Tab /\ reads \in Nat
  BY DEF MemoryInv, MemoryTypes, Memory!Request
<1>4. opened' \in Memories \cup {"new", None} /\ spins' \in BOOLEAN
  <2>1. opened' \in {opened, None}
    BY <1>1 DEF Memory!Answered, Memory!Closed
  <2>2. spins' = (spins /\ ~(r.does = "overview" /\ r.spins))
    BY <1>1 DEF Memory!Answered
  <2>3. opened' \in Memories \cup {"new", None}
    BY <2>1 DEF MemoryInv, MemoryTypes, Memory!TypeOK
  <2> QED
    BY <2>2, <2>3
<1>5. ASSUME NEW q \in Memory!Request \cup {None}, MemoryTurned(s, q),
             overview' = None \/ overview' \in [rows : Memory!Rows, read : 1..reads],
             results' = None \/ results' \in [query : Queries, tab : Memory!Tab]
      PROVE  MemoryTypes'
  BY <1>2, <1>4, <1>5 DEF MemoryInv, MemoryTypes, Memory!TypeOK, MemoryTurned
<1>6. ASSUME UNCHANGED <<overview, results>>
      PROVE  /\ overview' = None \/ overview' \in [rows : Memory!Rows, read : 1..reads]
             /\ results' = None \/ results' \in [query : Queries, tab : Memory!Tab]
  BY <1>6 DEF MemoryInv, MemoryTypes, Memory!TypeOK
<1>7. CASE r.does \in {"sync", "save", "remove"}
  <2> DEFINE q == Memory!NewRequest("overview", r.spins, None, None)
  <2>1. q \in Memory!Request /\ q.does = "overview" /\ ~q.answered /\ ~q.cancelled
    <3>1. "overview" \in Memory!Does
      BY DEF Memory!Does
    <3> QED
      BY <1>3, <3>1, NewRequests
  <2>2. memoryAsks' = [memoryAsks EXCEPT ![s] = q]
    BY <1>1, <1>7 DEF Memory!Answered, Memory!Refreshed
  <2> HIDE DEF q
  <2>3. MemoryTurned(s, q)
    BY <2>1, <2>2, MemoryTurns DEF MemoryInv
  <2>4. UNCHANGED <<overview, results>>
    BY <1>2, <1>7
  <2>5. MemoryTypes'
    BY <1>5, <1>6, <2>1, <2>3, <2>4
  <2>6. SearchInv'
    BY <1>1, <1>2, <1>7, <2>1, <2>3, <2>4, TurnKeepsSearch DEF MemoryInv
  <2>7. ReadInv'
    BY <1>2, <1>3, <2>1, <2>3, TurnKeepsReads DEF MemoryInv
  <2>8. RefreshInv'
    <3>1. Coming(s)'
      BY <2>1, <2>3, MemoryConstants DEF Coming, Memory!Live, MemoryTurned
    <3> QED
      BY <3>1 DEF RefreshInv
  <2> QED
    BY <2>5, <2>6, <2>7, <2>8, MemoryConstants DEF MemoryInv
<1>8. CASE r.does \in {"search", "overview"}
  <2>1. memoryAsks' = [memoryAsks EXCEPT ![s] = None]
    BY <1>1, <1>8 DEF Memory!Answered
  <2>2. MemoryTurned(s, None)
    BY <2>1, MemoryTurns DEF MemoryInv
  <2>3. ReadInv'
    BY <1>2, <1>3, <2>2, TurnKeepsReads DEF MemoryInv
  <2>4. ~Coming(s)
    BY <1>1, <1>2, <1>8 DEF Coming
  <2>5. CASE r.does = "overview"
    <3>1. r.rows \in Memory!Rows /\ r.read \in 1..reads
      BY <1>1, <1>2, <2>5 DEF MemoryInv, ReadInv, Fetched
    <3>2. overview' \in [rows : Memory!Rows, read : 1..reads] /\ results' = results
      BY <1>2, <2>5, <3>1
    <3>3. MemoryTypes'
      BY <1>5, <2>2, <3>2 DEF MemoryInv, MemoryTypes, Memory!TypeOK
    <3>4. SearchInv'
      BY <1>1, <1>2, <2>2, <2>5, <3>2, TurnKeepsSearch DEF MemoryInv
    <3>5. RefreshInv'
      <4> SUFFICES ASSUME failed = {}, NEW id \in ours, ~ \E t \in Slots : Coming(t)'
                   PROVE  Latest(id)'
        BY <1>2 DEF RefreshInv
      <4>1. \A t \in Slots : memoryAsks'[t] = IF t = s THEN None ELSE memoryAsks[t]
        BY <2>2 DEF MemoryTurned
      <4>2. Latest(id)
        BY <2>4, <4>1 DEF MemoryInv, RefreshInv, Coming, Memory!Live
      <4>3. r.read = reads => r.rows[id] = memories[id]
        BY <1>1, <1>2, <2>5, <4>2 DEF Latest, Fetched
      <4>4. overview'.rows = r.rows /\ overview'.read = r.read
        BY <1>2, <2>5
      <4> QED
        BY <1>2, <4>1, <4>2, <4>3, <4>4 DEF Latest, Fetched
    <3> QED
      BY <2>3, <3>3, <3>4, <3>5, MemoryConstants DEF MemoryInv
  <2>6. CASE r.does = "search"
    <3>1. overview' = overview
      BY <1>2, <2>6
    <3>2. RefreshInv'
      BY <1>2, <2>2, <2>4, <3>1, TurnKeepsRefresh DEF MemoryInv
    <3>3. CASE r.cancelled
      <4>1. results' = results
        BY <1>2, <3>3
      <4>2. SearchInv'
        BY <1>1, <1>2, <2>2, <3>3, <4>1, TurnKeepsSearch DEF MemoryInv, Memory!Live
      <4>3. MemoryTypes'
        BY <1>5, <1>6, <2>2, <3>1, <4>1
      <4> QED
        BY <2>3, <3>2, <4>2, <4>3, MemoryConstants DEF MemoryInv
    <3>4. CASE ~r.cancelled
      <4>1. r.query = query /\ r.tab = tab /\ query # None /\ tab # "projects"
        BY <1>1, <1>2, <2>6, <3>4 DEF MemoryInv, SearchInv, Memory!Live
      <4>2. results' = [query |-> query, tab |-> tab]
        BY <1>2, <2>6, <3>4, <4>1
      <4>3. SearchInv'
        <5>1. \A t \in Slots : Memory!Live(t)' /\ memoryAsks'[t].does = "search" =>
                memoryAsks'[t].query = query /\ memoryAsks'[t].tab = tab
          BY <2>2 DEF MemoryInv, SearchInv, Memory!Live, MemoryTurned
        <5> QED
          BY <1>2, <4>1, <4>2, <5>1 DEF SearchInv, Memory!FoundAsSearched
      <4>4. MemoryTypes'
        <5>1. results' \in [query : Queries, tab : Memory!Tab]
          BY <1>3, <4>1, <4>2
        <5>2. overview' = None \/ overview' \in [rows : Memory!Rows, read : 1..reads]
          BY <3>1 DEF MemoryInv, MemoryTypes, Memory!TypeOK
        <5> QED
          BY <1>5, <2>2, <5>1, <5>2
      <4> QED
        BY <2>3, <3>2, <4>3, <4>4, MemoryConstants DEF MemoryInv
    <3> QED
      BY <3>3, <3>4
  <2> QED
    BY <1>8, <2>5, <2>6
<1> QED
  BY <1>3, <1>7, <1>8 DEF Memory!Does

\* A request ends without an answer that the page reads.
LEMMA LossKeepsMemories ==
  ASSUME MemoryInv, NEW s \in Slots, Memory!Fail(s) \/ Memory!Refused(s) PROVE MemoryInv'
<1>1. PICK r \in Memory!Request : r = memoryAsks[s]
  BY MemoryAsked DEF Memory!Fail, Memory!Refused
<1>2. /\ UNCHANGED <<memories, overview, tab, query, timer, results, opened, saves, steps,
                     reads, ours>>
      /\ memoryAsks' = [memoryAsks EXCEPT ![s] = None]
  BY <1>1 DEF Memory!Fail, Memory!Refused
<1>3. MemoryTurned(s, None)
  BY <1>2, MemoryTurns DEF MemoryInv
<1>4. /\ failed \subseteq failed' /\ failed' \subseteq Memory!Does /\ misses' \in 0..MaxErrors
      /\ \/ ~r.cancelled /\ r.does \in failed'
         \/ r.cancelled
         \/ r.does \in {"save", "remove"} /\ ~r.answered
  <2>1. failed \subseteq Memory!Does /\ misses \in 0..MaxErrors /\ r.does \in Memory!Does
    BY DEF MemoryInv, MemoryTypes, Memory!TypeOK, Memory!Request
  <2>2. CASE Memory!Fail(s)
    BY <1>1, <2>1, <2>2, MemoryConstants DEF Memory!Fail
  <2>3. CASE Memory!Refused(s)
    BY <1>1, <2>1, <2>3 DEF Memory!Refused
  <2> QED
    BY <2>2, <2>3
<1>5. spins' \in BOOLEAN
  <2>1. spins \in BOOLEAN
    BY DEF MemoryInv, MemoryTypes, Memory!TypeOK
  <2>2. spins' = (spins /\ ~r.spins) \/ spins' = spins
    BY <1>1 DEF Memory!Fail, Memory!Refused
  <2> QED
    BY <2>1, <2>2
<1>6. SearchInv'
  BY <1>1, <1>2, <1>3, <1>4, TurnKeepsSearch DEF MemoryInv, Memory!Live
<1>7. ReadInv'
  BY <1>2, <1>3, TurnKeepsReads DEF MemoryInv, MemoryTypes
<1>8. RefreshInv'
  <2>1. Coming(s) => failed' # {}
    BY <1>1, <1>4 DEF Coming, Memory!Live
  <2> QED
    BY <1>2, <1>3, <1>4, <2>1, TurnKeepsRefresh DEF MemoryInv
<1>9. MemoryTypes'
  BY <1>2, <1>3, <1>4, <1>5 DEF MemoryInv, MemoryTypes, Memory!TypeOK, MemoryTurned
<1> QED
  BY <1>6, <1>7, <1>8, <1>9, MemoryConstants DEF MemoryInv

\* The page of the memories shows what was searched for, in whatever order the timer, the
\* answers, the tabs and the editor take turns, and whatever the page changed, once nothing
\* is under way (MemoryView.tsx).
THEOREM MemoriesAreShown ==
  Memory!MemoryPageAssumption /\ Memory!Spec =>
    [](Memory!FoundAsSearched /\ Memory!ChangesAreShown)
<1>1. Memory!MemoryPageAssumption /\ Memory!Init => MemoryInv
  <2> SUFFICES ASSUME Memory!MemoryPageAssumption, Memory!Init PROVE MemoryInv
    OBVIOUS
  <2>1. /\ memories \in Memory!Rows /\ overview = None /\ tab = None /\ query = None
        /\ timer = FALSE /\ results = None /\ opened = None /\ spins = FALSE
        /\ memoryAsks = [s \in Slots |-> None] /\ saves = 0 /\ steps = 0 /\ misses = 0
        /\ reads = 0 /\ ours = {} /\ failed = {}
    BY DEF Memory!Init
  <2>2. MaxSaves \in Nat /\ MaxSteps \in Nat /\ MaxErrors \in Nat
    BY DEF Memory!MemoryPageAssumption
  <2>3. MemoryTypes
    <3>1. /\ memoryAsks \in [Slots -> Memory!Request \cup {None}]
          /\ \A s \in Slots : memoryAsks[s] = None
      BY <2>1
    <3>2. spins \in BOOLEAN /\ timer \in BOOLEAN
      BY <2>1
    <3>3. saves \in 0..MaxSaves /\ steps \in 0..MaxSteps /\ misses \in 0..MaxErrors
      BY <2>1, <2>2
    <3>4. ours \subseteq Memories /\ failed \subseteq Memory!Does /\ reads \in Nat
      BY <2>1
    <3> QED
      BY <2>1, <3>1, <3>2, <3>3, <3>4 DEF MemoryTypes, Memory!TypeOK
  <2>4. SearchInv /\ ReadInv /\ RefreshInv
    BY <2>1 DEF SearchInv, Memory!FoundAsSearched, Memory!Live, ReadInv, Fetched, RefreshInv
  <2> QED
    BY <2>3, <2>4 DEF MemoryInv
<1>2. MemoryInv /\ [Memory!Next]_(Memory!vars) => MemoryInv'
  <2> SUFFICES ASSUME MemoryInv, [Memory!Next]_(Memory!vars) PROVE MemoryInv'
    OBVIOUS
  <2>1. CASE UNCHANGED Memory!vars
    <3>1. MemoryTypes' /\ SearchInv' /\ ReadInv' /\ RefreshInv'
      BY <2>1 DEF Memory!vars, MemoryInv, MemoryTypes, Memory!TypeOK, SearchInv, ReadInv,
         RefreshInv, Memory!FoundAsSearched, Memory!Live, Fetched, Coming, Latest,
         Memory!Rows, Memory!Request, Memory!Tab, Memory!Does
    <3> QED
      BY <3>1, MemoryConstants DEF MemoryInv
  <2>2. CASE Memory!Open
    BY <2>2, OpenKeepsMemories
  <2>3. ASSUME NEW q \in Queries \cup {None}, NEW t \in Memory!Tab, Memory!SearchFor(q, t)
        PROVE  MemoryInv'
    BY <2>3, SearchForKeepsMemories
  <2>4. CASE tab # None /\ Memory!TimerFires
    BY <2>4, TimerKeepsMemories
  <2>5. CASE Memory!SyncDiscovery \/ Memory!SaveOrRemove
    BY <2>5, UserKeepsMemories
  <2>6. CASE Memory!OpenEditor \/ Memory!CloseEditor \/ Memory!AgentWrites
    BY <2>6, OthersKeepMemories
  <2>7. ASSUME NEW s \in Slots,
               \/ Memory!Serve(s) \/ Memory!Answered(s) \/ Memory!Fail(s) \/ Memory!Refused(s)
        PROVE  MemoryInv'
    BY <2>7, ServeKeepsMemories, AnswerKeepsMemories, LossKeepsMemories
  <2>8. tab \in Memory!Tab \cup {None} /\ query \in Queries \cup {None}
    BY DEF MemoryInv, MemoryTypes, Memory!TypeOK
  <2> QED
    BY <2>1, <2>2, <2>3, <2>4, <2>5, <2>6, <2>7, <2>8 DEF Memory!Next
<1>3. MemoryInv => Memory!FoundAsSearched /\ Memory!ChangesAreShown
  BY DEF MemoryInv, SearchInv, RefreshInv, Memory!ChangesAreShown, Coming, Memory!Live, Latest
<1> QED
  BY <1>1, <1>2, <1>3, PTL DEF Memory!Spec

=============================================================================
