--------------------------- MODULE VoicePlayback ---------------------------
(***************************************************************************)
(* Spoken messages in the desktop application: SpeechPlaybackController of *)
(* lib/voicePlayback.ts, whose speak() and stop() wait for the answer of   *)
(* the Electron main process to a cancellation, and whose synthesis may    *)
(* end after another message was asked for.                                *)
(*                                                                         *)
(* Cancellations are answered in the order in which they were sent.  The   *)
(* volume, the text and the size of the cache are left out.                *)
(***************************************************************************)
EXTENDS Integers, Sequences

CONSTANTS
  Messages,         \* messages of the agent
  SystemVoice,      \* those that the voice of the system speaks
  MaxCalls          \* bound: calls of speak and stop

Call == 1..MaxCalls                 \* numbered in their order; 0 is no call

VARIABLES
  generation,
  audio,            \* the call whose audio element is the current one
  sounds,           \* what became of the audio element or the utterance of a call
  held,             \* whether the speech of the system is paused
  requestId,        \* the call that set it
  phase,
  calls,            \* the calls that were made
  spoken, cache,    \* messages
  overlapped        \* whether a call was made between the two halves of a speak()

vars == <<generation, audio, sounds, held, requestId, phase, calls, spoken, cache, overlapped>>

\* A call waits for the end of its stop(), or for the synthesis, or is over.
CallRecord == [message : Messages \cup {"stop"},
               at : {"stopping", "synthesizing", "over"}, generation : Nat]

Init ==
  /\ generation = 0 /\ audio = 0 /\ requestId = 0 /\ phase = "idle"
  /\ sounds = [c \in Call |-> "none"] /\ held = FALSE
  /\ calls = <<>> /\ spoken = {} /\ cache = {} /\ overlapped = FALSE

At(c, at) == c \in DOMAIN calls /\ calls[c].at = at
IsSystem(c) == c \in DOMAIN calls /\ calls[c].message \in SystemVoice

----------------------------------------------------------------------------
(* Calls *)

\* stop() pauses the current audio element and cancels all utterances.
Silenced(c) == c = audio \/ IsSystem(c)

\* The first half of stop(); a speak() waits in any case for its end.
BeginStop(message) ==
  LET waits == message # "stop" \/ requestId # 0 IN
  /\ Len(calls) < MaxCalls
  /\ generation' = generation + 1 /\ audio' = 0
  /\ sounds' = [c \in Call |-> IF Silenced(c) THEN "none" ELSE sounds[c]]
  /\ calls' = Append(calls, [message |-> message, generation |-> 0,
                             at |-> IF waits THEN "stopping" ELSE "over"])
  /\ phase' = IF requestId = 0 THEN "idle" ELSE phase
  /\ overlapped' = (overlapped \/
       \E c \in DOMAIN calls : At(c, "stopping") /\ calls[c].message # "stop")
  /\ UNCHANGED <<held, requestId, spoken, cache>>

Stop == BeginStop("stop")

\* speak(), which a message that was spoken before must force.
Speak(message, force) == (force \/ message \notin spoken) /\ BeginStop(message)

Earlier(c) == \E k \in DOMAIN calls : k < c /\ At(k, "stopping")

\* The cancellation was answered: the second half of stop().
StopEnds(c) ==
  /\ At(c, "stopping") /\ ~Earlier(c) /\ calls[c].message = "stop"
  /\ calls' = [calls EXCEPT ![c].at = "over"]
  /\ requestId' = 0 /\ phase' = "idle"
  /\ UNCHANGED <<generation, audio, sounds, held, spoken, cache, overlapped>>

\* playAudio or playSystem: the sound starts later.
Play(c) ==
  /\ sounds' = [sounds EXCEPT ![c] = "starting"]
  /\ audio' = IF IsSystem(c) THEN audio ELSE c
  /\ spoken' = spoken \cup {calls[c].message}

\* The rest of speak(), up to the synthesis unless it can play at once.
SpeakGoesOn(c) ==
  LET ready == calls[c].message \in SystemVoice \cup cache
  IN
  /\ At(c, "stopping") /\ ~Earlier(c) /\ calls[c].message # "stop"
  /\ generation' = generation + 1
  /\ calls' = [calls EXCEPT ![c].generation = generation + 1,
                            ![c].at = IF ready THEN "over" ELSE "synthesizing"]
  /\ requestId' = c /\ phase' = "loading"
  /\ IF ready THEN Play(c) ELSE UNCHANGED <<sounds, audio, spoken>>
  /\ UNCHANGED <<held, cache, overlapped>>

\* Faulty: the generation is not looked at again.
IsLatest_Always(c) == TRUE

IsLatest(c) == calls[c].generation = generation

\* The synthesis ends after any number of other calls.
Synthesized(c) ==
  /\ At(c, "synthesizing")
  /\ calls' = [calls EXCEPT ![c].at = "over"]
  /\ cache' = cache \cup {calls[c].message}
  /\ IF IsLatest(c) THEN Play(c) ELSE UNCHANGED <<sounds, audio, spoken>>
  /\ UNCHANGED <<generation, held, requestId, phase, overlapped>>

NotSynthesized(c) ==
  /\ At(c, "synthesizing")
  /\ calls' = [calls EXCEPT ![c].at = "over"]
  /\ phase' = IF IsLatest(c) THEN "error" ELSE phase
  /\ UNCHANGED <<generation, audio, sounds, held, requestId, spoken, cache, overlapped>>

----------------------------------------------------------------------------
(* Events of the audio elements and of utterances, and the pause button *)

\* An event of the sound of a call, which counts if the call is the latest.
Event(c, from, to, shown) ==
  /\ sounds[c] \in from
  /\ sounds' = [sounds EXCEPT ![c] = to]
  /\ phase' = IF IsLatest(c) THEN shown ELSE phase
  /\ UNCHANGED <<generation, audio, held, requestId, calls, spoken, cache, overlapped>>

\* A new utterance waits while the speech of the system is paused.
Starts(c) == ~(IsSystem(c) /\ held) /\ Event(c, {"starting"}, "playing", "speaking")
Fails(c) == Event(c, {"starting", "playing"}, "none", "error")
Ends(c) == Event(c, {"playing"}, "none", "idle")

\* pauseOrResume, whose button is there while a message is spoken or paused;
\* an element that starts again reports that it plays.
PauseOrResume ==
  /\ phase \in {"speaking", "paused"}
  /\ IF audio # 0
     THEN /\ sounds' = [sounds EXCEPT ![audio] = IF @ = "paused" THEN "starting" ELSE "paused"]
          /\ phase' = IF sounds[audio] = "paused" THEN phase ELSE "paused"
          /\ UNCHANGED held
     ELSE /\ held' = (phase # "paused")
          /\ phase' = IF phase = "paused" THEN "speaking" ELSE "paused"
          /\ sounds' = [c \in Call |->
               IF held' /\ IsSystem(c) /\ sounds[c] = "playing" THEN "paused"
               ELSE IF ~held' /\ sounds[c] = "paused" THEN "playing" ELSE sounds[c]]
  /\ UNCHANGED <<generation, audio, requestId, calls, spoken, cache, overlapped>>

----------------------------------------------------------------------------

Next ==
  \/ Stop \/ PauseOrResume
  \/ \E m \in Messages, force \in BOOLEAN : Speak(m, force)
  \/ \E c \in DOMAIN calls :
       \/ StopEnds(c) \/ SpeakGoesOn(c) \/ Synthesized(c) \/ NotSynthesized(c)
       \/ Starts(c) \/ Fails(c) \/ Ends(c)

Spec == Init /\ [][Next]_vars

----------------------------------------------------------------------------
(* Properties *)

TypeOK ==
  /\ generation \in 0..2 * MaxCalls
  /\ audio \in {0} \cup Call /\ requestId \in {0} \cup Call
  /\ sounds \in [Call -> {"none", "starting", "playing", "paused"}]
  /\ phase \in {"idle", "loading", "speaking", "paused", "error"}
  /\ calls \in Seq(CallRecord) /\ Len(calls) <= MaxCalls
  /\ spoken \subseteq Messages /\ cache \subseteq Messages
  /\ held \in BOOLEAN /\ overlapped \in BOOLEAN

\* As long as no call comes between the two halves of a speak(), only the
\* message that was asked for last is heard, and none when nothing is shown to
\* be spoken: however late the synthesis of an earlier one ends.
OnlyLatestIsHeard ==
  ~overlapped => \A c \in Call : sounds[c] = "playing" =>
    calls[c].generation = generation /\ phase # "idle"
=============================================================================
