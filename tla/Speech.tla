------------------------------- MODULE Speech -------------------------------
(***************************************************************************)
(* How the lamp hears: from the voice activity the microphone board        *)
(* reports to the name the Jetson gives to the captured sound.             *)
(*                                                                         *)
(*   Pi      src/device/daemon.py   one loop: board, playback, decisions   *)
(*           src/device/doa.py      one direction for each speech          *)
(*     | numbered events of one session (server.py, publish_event)         *)
(*   Jetson  transport.py           accepts a session's events in order    *)
(*           node.py, audio.py      the interval that labels the sound     *)
(*                                                                         *)
(* A step of the loop ends where it awaits.  Time is a number of samples.  *)
(***************************************************************************)
EXTENDS Naturals, Sequences

CONSTANTS
  MaxSpeech,   \* how many speeches are heard
  Window,      \* samples after which a direction is decided, or rejected
  QueueMax,    \* events the Jetson keeps for its event loop
  MaxFaults    \* exits of the capture, lost boards, lost connections

ASSUME SpeechAssumption ==
  /\ MaxSpeech \in Nat /\ MaxFaults \in Nat
  /\ Window \in Nat \ {0} /\ QueueMax \in Nat \ {0}

Id   == 1 .. MaxSpeech
NoId == 0

VARIABLES
  \* the loop of the daemon
  pc,
  capture,    \* the capture pipeline runs
  clock,      \* its first packet has been seen
  playing,    \* the lamp plays something
  suppressed, \* playback_suppressed
  guard,      \* doa_resume_at lies ahead
  speech,     \* speech_detected, between the look and the observation
  vad,        \* vad_active
  \* the stabilizer
  detected, id, ids, age, terminal,
  decision,   \* of the current speech, while it is acted upon
  \* the event server and the connection
  session, seq, sessions, link, wire,
  \* the Jetson
  jsession, jseq, queue,
  device, accepting, active, \* the capture session and its open interval
  faults,
  \* history
  decided,    \* speeches whose orientation has been published
  startedIn,  \* the session that was told of the current interval
  cutOff,     \* speeches a reset ended without telling
  dropped     \* an event did not find room

loopVars   == <<speech, vad, suppressed, guard>>
doaVars    == <<detected, id, ids, age, terminal, decision>>
serverVars == <<seq, wire>>
linkVars   == <<session, sessions, link>>
jetsonVars == <<jsession, jseq, queue, device, accepting, active, dropped>>
inputVars  == <<capture, clock, playing>>
vars == <<pc, loopVars, doaVars, serverVars, linkVars, jetsonVars, inputVars,
          faults, decided, startedIn, cutOff>>

Event == [s : Nat, n : Nat, id : Id \cup {NoId},
          k : {"start", "end", "capture", "exited", "orientation", "device"}]

TypeOK ==
  /\ pc \in {"top", "restart", "xvf", "observe", "decide", "status", "acquire"}
  /\ {capture, clock, playing, suppressed, guard, speech, vad, detected,
      terminal, accepting, dropped} \subseteq BOOLEAN
  /\ {id, active} \subseteq Id \cup {NoId} /\ ids \in 0 .. MaxSpeech
  /\ age \in 0 .. Window /\ decision \in {"none", "ready", "rejected"}
  /\ link \in {"up", "lost", "closing", "down"} /\ faults \in 0 .. MaxFaults
  /\ {session, jsession, device, startedIn} \subseteq 0 .. sessions
  /\ sessions \in 0 .. MaxFaults + 1
  /\ seq \in Nat /\ jseq \in Nat
  /\ wire \in Seq(Event) /\ queue \in Seq(Event) /\ Len(queue) <= QueueMax
  /\ decided \subseteq Id /\ cutOff \subseteq Id

Init ==
  /\ pc = "top" /\ capture = TRUE /\ clock = FALSE /\ playing = FALSE
  /\ suppressed = FALSE /\ guard = FALSE /\ speech = FALSE /\ vad = FALSE
  /\ detected = FALSE /\ id = NoId /\ ids = 0 /\ age = 0 /\ terminal = FALSE
  /\ decision = "none"
  /\ session = 0 /\ seq = 0 /\ sessions = 0 /\ link = "down" /\ wire = <<>>
  /\ jsession = 0 /\ jseq = 0 /\ queue = <<>>
  /\ device = 0 /\ accepting = TRUE /\ active = NoId
  /\ faults = 0
  /\ decided = {} /\ startedIn = 0 /\ cutOff = {} /\ dropped = FALSE

\* One more of the failures that MaxFaults bounds.
Fails   == faults < MaxFaults /\ faults' = faults + 1
Regular == UNCHANGED faults

-----------------------------------------------------------------------------
(* The event server: an event belongs to the session there is when it is   *)
(* published; without one it is dropped, and what is written to a lost     *)
(* connection never arrives.                                               *)

Publish(k, i) ==
  IF session = 0
    THEN UNCHANGED serverVars
    ELSE /\ seq' = seq + 1
         /\ wire' = IF link = "up"
                      THEN Append(wire, [s |-> session, n |-> seq', k |-> k, id |-> i])
                      ELSE wire

-----------------------------------------------------------------------------
(* The loop of the daemon.                                                 *)

BeyondLoop == UNCHANGED <<linkVars, jetsonVars, playing>>

\* DoaStabilizer.reset()
Reset == /\ detected' = FALSE /\ id' = NoId /\ age' = 0 /\ terminal' = FALSE
         /\ UNCHANGED <<ids, decision>>

\* An interval that is open is forgotten; Jetson does not learn of its end.
CutOff == cutOff' = IF vad THEN cutOff \cup {id} ELSE cutOff

CaptureExited ==
  /\ pc = "top" /\ ~capture
  /\ Publish("exited", NoId) /\ pc' = "restart"
  /\ UNCHANGED <<capture, clock, loopVars, doaVars, decided, startedIn, cutOff>>
  /\ BeyondLoop /\ Regular

RestartCapture ==
  /\ pc = "restart" /\ pc' = "top"
  /\ \/ /\ capture' = TRUE /\ clock' = FALSE /\ Reset /\ vad' = FALSE
        /\ Publish("capture", NoId) /\ Regular
     \/ /\ Publish("exited", NoId) /\ Fails
        /\ UNCHANGED <<capture, clock, vad, doaVars>>
  /\ UNCHANGED <<speech, suppressed, guard, decided, startedIn, cutOff>> /\ BeyondLoop

XvfFails ==
  /\ pc = "top" /\ capture
  /\ Publish("device", NoId) /\ pc' = "xvf" /\ Fails
  /\ UNCHANGED <<capture, clock, loopVars, doaVars, decided, startedIn, cutOff>>
  /\ BeyondLoop

\* The board is opened anew, after any number of attempts.
XvfBack ==
  /\ pc = "xvf" /\ pc' = "top"
  /\ Reset /\ CutOff /\ vad' = FALSE
  /\ Publish("device", NoId)
  /\ UNCHANGED <<capture, clock, speech, suppressed, guard, decided, startedIn>>
  /\ BeyondLoop /\ Regular

\* The capture runs but no packet of it has been seen, or it has just ended.
NoClock ==
  /\ pc = "top" /\ capture /\ ~clock
  /\ Reset /\ CutOff /\ vad' = FALSE
  /\ UNCHANGED <<pc, capture, clock, speech, suppressed, guard, serverVars,
                 decided, startedIn>>
  /\ BeyondLoop /\ Regular

\* Fault: the speech is asked for its name when it has been reset.
BeginPlaybackLate ==
  /\ Reset /\ vad' = FALSE /\ suppressed' = TRUE
  /\ IF vad THEN Publish("end", NoId) ELSE UNCHANGED serverVars

\* The lamp has begun to play: the speech is discarded and its interval ends.
BeginPlayback ==
  /\ Reset /\ vad' = FALSE /\ suppressed' = TRUE
  /\ IF vad THEN Publish("end", id) ELSE UNCHANGED serverVars

(* A reading of the board.  Nothing is heard while the lamp plays, and for *)
(* a moment after it was last seen to.                                     *)
Look ==
  /\ pc = "top" /\ capture /\ clock
  /\ pc' = "observe"
  /\ guard' = (guard \/ playing)
  /\ \E hears \in IF detected \/ ids < MaxSpeech THEN BOOLEAN ELSE {FALSE} :
       speech' = (hears /\ ~playing /\ ~guard)
  /\ \/ playing /\ ~suppressed /\ BeginPlayback
     \/ /\ ~playing /\ suppressed
        /\ Reset /\ vad' = FALSE /\ suppressed' = FALSE /\ UNCHANGED serverVars
     \/ /\ playing = suppressed
        /\ UNCHANGED <<doaVars, vad, suppressed, serverVars>>
  /\ UNCHANGED <<capture, clock, decided, startedIn, cutOff>> /\ BeyondLoop /\ Regular

\* Fault: only a sample of speech is looked at.
ObserveWhileSpeaking ==
  /\ id' = IF speech /\ ~detected THEN ids + 1 ELSE id
  /\ ids' = IF speech /\ ~detected THEN ids + 1 ELSE ids
  /\ detected' = speech
  /\ IF speech /\ ~detected
       THEN age' = 0 /\ terminal' = FALSE /\ decision' = "none"
       ELSE IF id = NoId \/ terminal \/ ~speech
         THEN UNCHANGED <<age, terminal, decision>>
         ELSE /\ age' = IF age < Window THEN age + 1 ELSE age
              /\ decision' \in IF age' = Window THEN {"ready", "rejected"} ELSE {"none", "ready"}
              /\ terminal' = (decision' # "none")

(* DoaStabilizer.observe(): a rising edge begins a speech.  Of each speech *)
(* one direction is decided, when enough samples agree, after its end too, *)
(* or rejected when the window is over.                                    *)
StabilizerObserve ==
  /\ id' = IF speech /\ ~detected THEN ids + 1 ELSE id
  /\ ids' = IF speech /\ ~detected THEN ids + 1 ELSE ids
  /\ detected' = speech
  /\ IF speech /\ ~detected
       THEN age' = 0 /\ terminal' = FALSE /\ decision' = "none"
       ELSE IF id = NoId \/ terminal
         THEN UNCHANGED <<age, terminal, decision>>
         ELSE /\ age' = IF age < Window THEN age + 1 ELSE age
              /\ decision' \in IF age' = Window THEN {"ready", "rejected"} ELSE {"none", "ready"}
              /\ terminal' = (decision' # "none")

Observe ==
  /\ pc = "observe"
  /\ StabilizerObserve
  /\ vad' = speech
  /\ IF speech # vad
       THEN /\ Publish(IF speech THEN "start" ELSE "end", id')
            /\ startedIn' = IF speech THEN session ELSE startedIn
       ELSE UNCHANGED <<serverVars, startedIn>>
  /\ pc' = IF decision' # "none" THEN "decide" ELSE "top"
  /\ UNCHANGED <<capture, clock, speech, suppressed, guard, decided, cutOff>>
  /\ BeyondLoop /\ Regular

\* Fault: the stabilizer does not remember that it has decided.
PublishOrientationAgain ==
  /\ Publish("orientation", id) /\ decided' = decided \cup {id}
  /\ decision' = "none" /\ terminal' = FALSE /\ pc' = "top"

\* Accepted, rejected or failed: the loop reports of the speech and goes on.
PublishOrientation ==
  /\ Publish("orientation", id) /\ decided' = decided \cup {id}
  /\ decision' = "none" /\ UNCHANGED terminal /\ pc' = "top"

(* handle_decision(): a rejected direction is reported.  For another one   *)
(* the motion service is asked for its limits and then to turn; it may     *)
(* refuse or be away, and the direction may lie outside.                   *)
HandleDecision ==
  /\ \/ pc = "decide" /\ decision = "rejected" /\ PublishOrientation
     \/ /\ pc = "decide" /\ decision = "ready" /\ pc' = "status"
        /\ UNCHANGED <<serverVars, decided, decision, terminal>>
     \/ pc \in {"status", "acquire"} /\ PublishOrientation
     \/ /\ pc = "status" /\ pc' = "acquire"
        /\ UNCHANGED <<serverVars, decided, decision, terminal>>
  /\ UNCHANGED <<capture, clock, loopVars, detected, id, ids, age, startedIn, cutOff>>
  /\ BeyondLoop /\ Regular

Loop == \/ CaptureExited \/ RestartCapture \/ XvfFails \/ XvfBack \/ NoClock
        \/ Look \/ Observe \/ HandleDecision

-----------------------------------------------------------------------------
(* What happens to the loop: the lamp plays, the capture begins and ends.  *)

BeyondInputs == UNCHANGED <<pc, speech, vad, suppressed, doaVars, serverVars,
                            linkVars, jetsonVars, decided, startedIn, cutOff>>

PlaybackChanges == /\ playing' = ~playing
                   /\ UNCHANGED <<capture, clock, guard>> /\ BeyondInputs /\ Regular

GuardEnds == /\ guard /\ guard' = FALSE
             /\ UNCHANGED inputVars /\ BeyondInputs /\ Regular

FirstPacket == /\ capture /\ ~clock /\ clock' = TRUE
               /\ UNCHANGED <<capture, playing, guard>> /\ BeyondInputs /\ Regular

CaptureExits == /\ capture /\ capture' = FALSE /\ clock' = FALSE /\ Fails
                /\ UNCHANGED <<playing, guard>> /\ BeyondInputs

Inputs == PlaybackChanges \/ GuardEnds \/ FirstPacket \/ CaptureExits

-----------------------------------------------------------------------------
(* The connection: its end is noticed by one side before the other.        *)

BeyondLink == UNCHANGED <<pc, loopVars, doaVars, inputVars, jetsonVars, decided,
                          startedIn, cutOff>>

Connect ==
  /\ link = "down" /\ link' = "up"
  /\ session' = sessions + 1 /\ sessions' = sessions + 1 /\ seq' = 0
  /\ UNCHANGED wire /\ BeyondLink /\ Regular

JetsonLoses ==
  /\ link = "up" /\ link' = "lost" /\ wire' = <<>>
  /\ UNCHANGED <<session, sessions, seq>> /\ BeyondLink /\ Fails

PiCloses ==
  /\ link = "up" /\ link' = "closing" /\ session' = 0 /\ seq' = 0
  /\ UNCHANGED <<sessions, wire>> /\ BeyondLink /\ Fails

Closed ==
  /\ link = "lost" \/ (link = "closing" /\ wire = <<>>)
  /\ link' = "down" /\ session' = 0 /\ seq' = 0
  /\ UNCHANGED <<sessions, wire>> /\ BeyondLink /\ Regular

Connection == Connect \/ JetsonLoses \/ PiCloses \/ Closed

-----------------------------------------------------------------------------
(* The Jetson: _accept_event() in the transport's read loop, and the event *)
(* loop of the bridge.                                                     *)

BeyondJetson == UNCHANGED <<pc, loopVars, doaVars, inputVars, seq, linkVars,
                            decided, startedIn, cutOff>>

\* The first event of a new session, or the next of the one before.
Follows(e) ==
  IF e.s = jsession THEN e.n = jseq + 1 ELSE e.n = 1

\* Fault: nothing is given up for it.
RoomAlways == queue

\* The oldest event is given up for the new one.
Room == IF Len(queue) = QueueMax THEN Tail(queue) ELSE queue

AcceptEvent ==
  /\ wire # <<>> /\ wire' = Tail(wire)
  /\ LET e == Head(wire)
     IN  IF Follows(e)
           THEN /\ jsession' = e.s /\ jseq' = e.n
                /\ queue' = Append(Room, e)
                /\ dropped' = (dropped \/ Room # queue)
           ELSE UNCHANGED <<jsession, jseq, queue, dropped>>
  /\ UNCHANGED <<device, accepting, active>> /\ BeyondJetson /\ Regular

\* observe_device_session(): all that belongs to the session before is left.
SessionOf(e) ==
  IF device \notin {0, e.s} THEN [accepting |-> TRUE, active |-> NoId]
                            ELSE [accepting |-> accepting, active |-> active]

(* The event loop: an interval begins, or the one that is open ends; an    *)
(* end that does not match is refused.  The capture's exit closes what is  *)
(* open, and nothing is taken until it is back.                            *)
HandleEvent ==
  /\ queue # <<>> /\ queue' = Tail(queue)
  /\ LET e == Head(queue)
         c == SessionOf(e)
     IN  /\ device' = e.s
         /\ accepting' = CASE e.k = "exited"  -> FALSE
                           [] e.k = "capture" -> TRUE
                           [] OTHER -> c.accepting
         /\ active' = CASE e.k = "exited" /\ c.accepting -> NoId
                        [] e.k = "start" /\ c.accepting -> e.id
                        [] e.k = "end" /\ c.accepting /\ c.active = e.id -> NoId
                        [] OTHER -> c.active
  /\ UNCHANGED <<jsession, jseq, dropped, wire>> /\ BeyondJetson /\ Regular

Jetson == AcceptEvent \/ HandleEvent

Next == Loop \/ Inputs \/ Connection \/ Jetson

Spec == Init /\ [][Next]_vars

\* The loop always goes on, and the board is found again.
FairSpec == Spec /\ WF_vars(Loop)
=============================================================================
