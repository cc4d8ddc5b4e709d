----------------------------- MODULE VoiceCall ------------------------------
(***************************************************************************)
(* A voice call in the desktop application, features/chat/ChatView.tsx:    *)
(* microphone captures, their transcription, the message that is sent and  *)
(* its spoken reply, after which the call listens again.                   *)
(*                                                                         *)
(* A function of a React component sees the state of the rendering it was  *)
(* made in: a capture is stale when it was begun by one that saw busy.     *)
(* What is said, the levels of the microphone, and the delays are left     *)
(* out; a timer fires when its delay and the cooldown are over.            *)
(***************************************************************************)
EXTENDS Integers

CONSTANTS
  Captures,         \* captures, and the messages that come of them
  MaxTimers,        \* bound: timers of startListening that run
  None

VARIABLES
  active, muted,    \* callActiveRef, callMutedRef
  callState,
  captures,
  capture,          \* vadCaptureRef
  request,          \* transcriptionRequestRef
  timers,           \* timers of startListening, stale or not
  busy,             \* busy: a message is being sent
  phase, voice,     \* what is spoken, and the capture whose reply it is
  raced,            \* the call was muted or ended, or a start began, during a start
  disturbed         \* beside the call a message was sent, spoken or stopped, it listened to a
                    \* user whose message was being sent, or ended while an utterance was read

vars == <<active, muted, callState, captures, capture, request, timers, busy, phase, voice,
          raced, disturbed>>

callVars == <<active, muted, raced>>
speech == <<phase, voice>>

\* at: startListening awaits the microphone or the audio context, the capture
\* records, its recorder stops, its bytes are read, it is transcribed, its
\* message is sent, and the reply is made audible.  A lost capture records and
\* is not known.  The call was muted or ended while a capture was transcribed
\* (cancelled), or while its bytes were read (slipped).
Capture ==
  [at : {"none", "asking", "resuming", "recording", "lost", "stopping", "reading",
         "transcribing", "sending", "replying"},
   mic : BOOLEAN, stale : BOOLEAN, closed : BOOLEAN, cancelled : BOOLEAN, slipped : BOOLEAN]

NoCapture ==
  [at |-> "none", mic |-> FALSE, stale |-> FALSE, closed |-> FALSE, cancelled |-> FALSE,
   slipped |-> FALSE]

Init ==
  /\ active = FALSE /\ muted = FALSE /\ callState = "idle"
  /\ captures = [c \in Captures |-> NoCapture]
  /\ capture = None /\ request = None
  /\ timers = [stale \in BOOLEAN |-> 0] /\ busy = FALSE
  /\ phase = "idle" /\ voice = None
  /\ raced = FALSE /\ disturbed = FALSE

Listens == active /\ ~muted

\* The start of a capture that is between two awaits.
Starting == {c \in Captures : captures[c].at \in {"asking", "resuming"}}

After(stale, n) ==
  /\ timers[TRUE] + timers[FALSE] + n <= MaxTimers
  /\ timers' = [timers EXCEPT ![stale] = @ + n]

\* stopVadCapture: the recorder goes on to its stop event, which only matters
\* for an utterance to upload.
Stopped(c, upload) ==
  IF c = None THEN captures
  ELSE [captures EXCEPT ![c] =
          IF upload THEN [@ EXCEPT !.at = "stopping", !.mic = FALSE] ELSE NoCapture]

----------------------------------------------------------------------------
(* The call *)

\* startCall; a second click before the call is shown starts it twice.
StartCall ==
  /\ ~active /\ active' = TRUE /\ muted' = FALSE
  /\ \E n \in {1, 2} : After(busy, n)
  /\ phase' = "idle" /\ voice' = None
  /\ disturbed' = (disturbed \/ busy)
  /\ UNCHANGED <<callState, captures, capture, request, busy, raced>>

\* The capture is stopped, the audio context closed, the transcription cancelled.
Silence ==
  LET now == Stopped(capture, FALSE)
  IN
  /\ captures' = [c \in Captures |->
       IF now[c].at = "resuming" THEN [now[c] EXCEPT !.closed = TRUE]
       ELSE IF now[c].at = "reading" THEN [now[c] EXCEPT !.slipped = TRUE]
       ELSE IF c = request /\ now[c].at = "transcribing" THEN [now[c] EXCEPT !.cancelled = TRUE]
       ELSE now[c]]
  /\ capture' = None /\ request' = None
  /\ raced' = (raced \/ \E c \in Captures : captures[c].at = "resuming")

EndCall ==
  /\ active /\ active' = FALSE /\ muted' = FALSE
  /\ Silence
  /\ phase' = "idle" /\ voice' = None /\ callState' = "idle"
  /\ disturbed' = (disturbed \/ \E c \in Captures : captures[c].at = "reading")
  /\ UNCHANGED <<timers, busy>>

Mute ==
  /\ Listens /\ muted' = TRUE
  /\ Silence /\ callState' = "muted"
  /\ UNCHANGED <<active, timers, busy, phase, voice, disturbed>>

\* The effect of the call sets another timer after a reply that nobody hears.
Unmute ==
  /\ active /\ muted /\ muted' = FALSE
  /\ After(busy, IF callState = "speaking" /\ phase = "idle" THEN 2 ELSE 1)
  /\ disturbed' = (disturbed \/ busy)
  /\ UNCHANGED <<active, callState, captures, capture, request, busy, phase, voice, raced>>

----------------------------------------------------------------------------
(* startListening *)

MayStart == Listens /\ capture = None /\ request = None

\* A timer fires; the start goes on to getUserMedia, or the network is gone.
TimerFires(stale) ==
  /\ timers[stale] > 0 /\ timers' = [timers EXCEPT ![stale] = @ - 1]
  /\ IF MayStart
     THEN \/ /\ \E c \in Captures :
                  /\ captures[c].at = "none"
                  /\ captures' = [captures EXCEPT ![c] =
                                    [NoCapture EXCEPT !.at = "asking", !.stale = stale]]
             /\ raced' = (raced \/ Starting # {})
             /\ UNCHANGED callState
          \/ callState' = "offline" /\ UNCHANGED <<captures, raced>>
     ELSE UNCHANGED <<callState, captures, raced>>
  /\ UNCHANGED <<active, muted, capture, request, busy, phase, voice, disturbed>>

\* The recorder starts; a capture that was there is not known any more.
Record(c, now) ==
  /\ captures' = [d \in Captures |->
       IF d = c THEN [now EXCEPT !.at = "recording"]
       ELSE IF d = capture THEN [captures[d] EXCEPT !.at = "lost"] ELSE captures[d]]
  /\ capture' = c /\ callState' = "listening"

\* A call that ended or was muted meanwhile has no use for the stream.
StillWanted == Listens

Granted(c) ==
  LET now == [captures[c] EXCEPT !.mic = TRUE]
  IN
  /\ captures[c].at = "asking"
  /\ IF ~StillWanted
     THEN captures' = [captures EXCEPT ![c] = NoCapture] /\ UNCHANGED <<capture, callState>>
     ELSE \/ Record(c, now)
          \/ /\ captures' = [captures EXCEPT ![c] = [now EXCEPT !.at = "resuming"]]
             /\ UNCHANGED <<capture, callState>>
  /\ UNCHANGED <<request, timers, busy, disturbed, callVars, speech>>

\* The catch of startListening stops the capture that is known.
StartFails(c, now) ==
  /\ captures' = [Stopped(capture, FALSE) EXCEPT ![c] = now]
  /\ capture' = None /\ callState' = "error"

Denied(c) ==
  /\ captures[c].at = "asking" /\ StartFails(c, NoCapture)
  /\ UNCHANGED <<request, timers, busy, disturbed, callVars, speech>>

\* resume() of a context that was closed fails.
Resumed(c) ==
  /\ captures[c].at = "resuming"
  /\ IF captures[c].closed THEN StartFails(c, [captures[c] EXCEPT !.at = "lost"])
     ELSE Record(c, captures[c])
  /\ UNCHANGED <<request, timers, busy, disturbed, callVars, speech>>

\* measure: an utterance is complete, or nothing is heard for 15 s.
UtteranceEnds(c) ==
  /\ capture = c
  /\ captures' = Stopped(c, TRUE) /\ capture' = None
  /\ UNCHANGED <<callState, request, timers, busy, disturbed, callVars, speech>>

NothingHeard(c) ==
  /\ capture = c
  /\ captures' = Stopped(c, FALSE) /\ capture' = None
  /\ IF Listens THEN After(captures[c].stale, 1) ELSE UNCHANGED timers
  /\ UNCHANGED <<callState, request, busy, disturbed, callVars, speech>>

RecorderFails(c) ==
  /\ capture = c
  /\ captures' = Stopped(c, FALSE) /\ capture' = None /\ callState' = "error"
  /\ UNCHANGED <<request, timers, busy, disturbed, callVars, speech>>

----------------------------------------------------------------------------
(* onstop: transcription and message *)

\* An error of the transcription; it forgets the request of another one too.
Fail(c) ==
  /\ captures' = [captures EXCEPT ![c] = NoCapture] /\ request' = None
  /\ \E s \in {"error", "offline"} : callState' = IF active THEN s ELSE callState
  /\ UNCHANGED <<timers, busy, phase, voice>>

Forget(c) ==
  captures' = [captures EXCEPT ![c] = NoCapture] /\ UNCHANGED <<callState, busy, phase, voice>>

\* The recording is empty, or its bytes are read.
RecorderStopped(c) ==
  /\ captures[c].at = "stopping"
  /\ IF ~Listens THEN Forget(c) /\ UNCHANGED <<request, timers>>
     ELSE \/ /\ captures' = [captures EXCEPT ![c].at = "reading"]
             /\ UNCHANGED <<callState, request, timers, busy, phase, voice>>
          \/ Fail(c)
  /\ UNCHANGED <<capture, disturbed, callVars>>

\* Nothing looks at the call again before the utterance is transcribed.
UtteranceRead(c) ==
  /\ captures[c].at = "reading"
  /\ \/ /\ captures' = [captures EXCEPT ![c].at = "transcribing"]
        /\ request' = c /\ callState' = "processing"
        /\ UNCHANGED <<timers, busy, phase, voice>>
     \/ Fail(c)
  /\ UNCHANGED <<capture, disturbed, callVars>>

\* Faulty: only the call is looked at.
IsCurrent_Active(c) == active

IsCurrent(c) == request = c /\ active

\* The text is an echo of the reply, or a message; sendMessage of a rendering
\* that saw busy does nothing.
Transcribed(c) ==
  /\ captures[c].at = "transcribing"
  /\ IF ~IsCurrent(c) THEN Forget(c) /\ UNCHANGED <<request, timers>>
     ELSE /\ request' = None
          /\ \/ Forget(c) /\ After(captures[c].stale, 1)
             \/ captures[c].stale /\ Forget(c) /\ UNCHANGED timers
             \/ /\ ~captures[c].stale
                /\ captures' = [captures EXCEPT ![c].at = "sending"] /\ busy' = TRUE
                /\ phase' = "idle" /\ voice' = None
                /\ callState' = "processing" /\ UNCHANGED timers
  /\ UNCHANGED <<capture, disturbed, callVars>>

NotTranscribed(c) ==
  /\ captures[c].at = "transcribing" /\ Fail(c)
  /\ UNCHANGED <<capture, disturbed, callVars>>

\* The reply is there and spoken, also after the end of the call.
Replied(c) ==
  /\ captures[c].at = "sending"
  /\ captures' = [(IF active THEN Stopped(capture, FALSE) ELSE captures) EXCEPT ![c].at = "replying"]
  /\ capture' = IF active THEN None ELSE capture
  /\ callState' = IF active THEN "speaking" ELSE callState
  /\ phase' = "loading" /\ voice' = c
  /\ UNCHANGED <<request, timers, busy, disturbed, callVars>>

NotSent(c) ==
  /\ captures[c].at = "sending"
  /\ captures' = [captures EXCEPT ![c] = NoCapture] /\ busy' = FALSE
  /\ IF ~active THEN UNCHANGED <<callState, timers>>
     ELSE \/ callState' = "offline" /\ UNCHANGED timers
          \/ callState' = "reconnecting" /\ After(FALSE, 1)
  /\ UNCHANGED <<capture, request, disturbed, callVars, speech>>

----------------------------------------------------------------------------
(* Speech *)

\* Faulty: a call that only speaks does not listen afterwards.
Effect_Listening(shown) ==
  IF callState = "listening" /\ shown = "idle" /\ Listens THEN After(busy, 1) ELSE UNCHANGED timers

\* The effect of the call, when what is spoken changes.
Effect(shown) ==
  IF callState = "speaking" /\ shown = "idle" /\ Listens THEN After(busy, 1) ELSE UNCHANGED timers

Show(shown) ==
  /\ phase' = shown /\ Effect(shown)
  /\ callState' = IF callState = "speaking" /\ shown = "error" /\ Listens THEN "error" ELSE callState

\* The synthesis of a reply is over; sendMessage ends.
Synthesized(c) ==
  /\ captures[c].at = "replying"
  /\ captures' = [captures EXCEPT ![c] = NoCapture] /\ busy' = FALSE
  /\ IF voice = c THEN \E shown \in {"speaking", "error"} : Show(shown)
     ELSE UNCHANGED <<phase, timers, callState>>
  /\ UNCHANGED <<capture, request, voice, disturbed, callVars>>

SpeechEnds ==
  /\ phase = "speaking" /\ \E shown \in {"idle", "error"} : Show(shown)
  /\ voice' = None
  /\ UNCHANGED <<captures, capture, request, busy, disturbed, callVars>>

\* The user stops the speech.
StopSpeech ==
  /\ phase # "idle" /\ Show("idle") /\ voice' = None
  /\ disturbed' = (disturbed \/ phase = "loading")
  /\ UNCHANGED <<captures, capture, request, busy, callVars>>

\* A typed message is sent, or a message is spoken again: speakAgentMessage
\* stops the capture of a call.
SpeakBesideCall ==
  /\ captures' = (IF active THEN Stopped(capture, FALSE) ELSE captures)
  /\ capture' = IF active THEN None ELSE capture
  /\ phase' = "speaking" /\ voice' = None /\ disturbed' = TRUE
  /\ UNCHANGED <<callState, request, timers, busy, callVars>>

SendBesideCall ==
  /\ ~busy /\ busy' = TRUE /\ Show("idle") /\ voice' = None /\ disturbed' = TRUE
  /\ UNCHANGED <<captures, capture, request, callVars>>

SentBesideCall ==
  /\ busy /\ disturbed /\ \A c \in Captures : captures[c].at \notin {"sending", "replying"}
  /\ busy' = FALSE
  /\ UNCHANGED <<callState, captures, capture, request, timers, phase, voice, disturbed, callVars>>

----------------------------------------------------------------------------

\* The next of the steps that a capture comes to by itself.
GoesOn(c) ==
  \/ Granted(c) \/ Denied(c) \/ Resumed(c)
  \/ UtteranceEnds(c) \/ NothingHeard(c) \/ RecorderStopped(c) \/ UtteranceRead(c)
  \/ Transcribed(c) \/ NotTranscribed(c)
  \/ Replied(c) \/ NotSent(c) \/ Synthesized(c)

Next ==
  \/ StartCall \/ EndCall \/ Mute \/ Unmute
  \/ \E stale \in BOOLEAN : TimerFires(stale)
  \/ \E c \in Captures : GoesOn(c) \/ RecorderFails(c)
  \/ SpeechEnds \/ StopSpeech \/ SpeakBesideCall \/ SendBesideCall \/ SentBesideCall

\* Timers fire, the microphone is granted or denied, a recording ends after
\* 25 s at most, requests have deadlines, and what is spoken ends.
Fairness ==
  /\ \A stale \in BOOLEAN : WF_vars(TimerFires(stale))
  /\ WF_vars(SpeechEnds)
  /\ \A c \in Captures : WF_vars(GoesOn(c))

Spec == Init /\ [][Next]_vars /\ Fairness

----------------------------------------------------------------------------
(* Properties *)

\* The capture that is known records.
TypeOK ==
  /\ active \in BOOLEAN /\ muted \in BOOLEAN /\ busy \in BOOLEAN
  /\ callState \in {"idle", "listening", "processing", "speaking", "muted", "reconnecting",
                    "offline", "error"}
  /\ captures \in [Captures -> Capture]
  /\ capture \in {None} \cup {c \in Captures : captures[c].at = "recording"}
  /\ request \in Captures \cup {None}
  /\ timers \in [BOOLEAN -> 0..MaxTimers]
  /\ phase \in {"idle", "loading", "speaking", "error"} /\ voice \in Captures \cup {None}

\* When a call is muted or over no microphone is on, unless that happened, or
\* a second start began, while a start was under way.
MicrophoneIsOff == ~Listens /\ ~raced => \A c \in Captures : ~captures[c].mic

\* A message is sent only while the call listens, and never when the call was
\* muted or ended while it was transcribed.  Excepted is what slips through:
\* an utterance whose bytes were being read when the call was muted or ended,
\* because the request that a mute cancels is noted only after that, and what
\* is transcribed is not held back by the mute.
CancelledIsNotSent ==
  [][\A c \in Captures :
       captures'[c].at = "sending" /\ captures[c].at # "sending" =>
         ~captures[c].cancelled /\ (Listens \/ captures[c].slipped)]_vars

Waits == Listens /\ callState \notin {"error", "offline"} /\ ~raced /\ ~disturbed

\* A call that is neither muted nor in an error hears its user again and again.
ListensAgain == Waits ~> (capture # None \/ ~Waits)
=============================================================================
