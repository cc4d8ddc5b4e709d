----------------------------- MODULE MCDesktop -----------------------------
(***************************************************************************)
(* The desktop application for TLC: chats over the relay (AppSocket),      *)
(* spoken messages (VoicePlayback) and voice calls (VoiceCall).  They      *)
(* share nothing that the models keep, so a behaviour has one of them at   *)
(* work and the others at rest.                                            *)
(***************************************************************************)
EXTENDS AppSocket

CONSTANTS
  Messages, SystemVoice, MaxCalls, Captures, MaxTimers

ASSUME BoundsAssumption == MaxCalls \in Nat

ASSUME NoneAssumption == None \notin Captures \cup Call

VARIABLES
  part,             \* the part that is at work
  generation, audio, sounds, held, requestId, phase, made, spoken, cache, overlapped,
  active, muted, callState, captures, capture, request, timers, busy, callPhase, voice,
  raced, disturbed

Voice == INSTANCE VoicePlayback WITH calls <- made
Talking == INSTANCE VoiceCall WITH phase <- callPhase

voiceVars ==
  <<generation, audio, sounds, held, requestId, phase, made, spoken, cache, overlapped>>

callVars ==
  <<active, muted, callState, captures, capture, request, timers, busy, callPhase, voice,
    raced, disturbed>>

desktopVars == <<part, vars, voiceVars, callVars>>

DesktopInit ==
  /\ part \in {"chats", "voice", "call"}
  /\ Init /\ Voice!Init /\ Talking!Init

DesktopNext ==
  \/ part = "chats" /\ Next
     /\ UNCHANGED <<part, voiceVars, callVars>>
  \/ part = "voice" /\ Voice!Next
     /\ UNCHANGED <<part, vars, callVars>>
  \/ part = "call" /\ Talking!Next
     /\ UNCHANGED <<part, vars, voiceVars>>

\* A part at rest has no step that is owed to it.
DesktopSpec ==
  /\ DesktopInit /\ [][DesktopNext]_desktopVars
  /\ Fairness /\ Talking!Fairness

\* AppSocket: every chat is answered or fails, and is not sent once it failed.
ChatsKeepTheirWord == EveryRequestSettles /\ NotSentAfterTold

\* VoicePlayback: a message that was superseded or stopped is not heard.
OnlyLatestIsHeard == Voice!OnlyLatestIsHeard

\* VoiceCall: a call that is muted or over neither hears nor sends anything.
CallIsPrivate == []Talking!MicrophoneIsOff /\ Talking!CancelledIsNotSent

\* VoiceCall: a call listens again after every utterance, reply or failure.
ListensAgain == Talking!ListensAgain
=============================================================================
