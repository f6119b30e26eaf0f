------------------------------ MODULE Playback ------------------------------
(***************************************************************************)
(* How the lamp speaks: a reply on its way from the voice agent to the     *)
(* loudspeaker, and back.                                                  *)
(*                                                                         *)
(*   agent       src/voice-bench/voice/agent.py        turns, barge-in     *)
(*     | messages in order          ^ SPEAK_DONE                           *)
(*   voice node  src/voice-bench/ros/lamp_voice_node.py  one stream a turn *)
(*     | a ROS goal per stream      ^ result                               *)
(*   bridge      lamp_device_bridge/node.py            one goal at a time  *)
(*     | play.start, play.stop      ^ answers, or a lost connection        *)
(*   Pi          src/device/server.py, audio.py        one process         *)
(*                                                                         *)
(* The voice node has a read loop and an executor that runs the callbacks  *)
(* of a goal; an action is what a thread does between two accesses to what *)
(* another one changes.  Frames are not told apart, and the publisher of a *)
(* stream is not modelled: that its goal comes to an end, or that the      *)
(* bridge refuses what it sends, may happen at any time (SessionEnds).     *)
(***************************************************************************)
EXTENDS Naturals, Sequences, FiniteSets

CONSTANTS
  Turns,       \* replies, numbered in the order in which they are begun
  MaxFaults    \* how often a wait may end without what is waited for, or the
               \* connection to the Pi be lost

ASSUME PlaybackAssumption == Turns \in Nat /\ MaxFaults \in Nat

Turn   == 1 .. Turns     \* a turn, its stream, its goal and its process
NoTurn == 0

VARIABLES
  \* the agent
  agent,      \* state
  turn,       \* _turn: the turn that may send
  speak,      \* the thread of each turn in _speak()
  stop, done, \* the events of each turn
  spoke,      \* turns that have sent sound
  impatient,  \* turns that gave up waiting for SPEAK_DONE
  toNode,     \* messages to the voice node
  answers,    \* SPEAK_DONE on their way back
  \* the voice node
  reader,     \* the read loop: ready, or cancelling a stream without a handle
  executor,   \* the stream whose acceptance is being handled
  cur, playDone,
  handle, cancelPending, cancelled, reported, \* of the streams
  abandoned,  \* streams the read loop has stopped waiting for
  \* the bridge
  goal,       \* where the execution of each goal is
  owner,      \* _playback_owner
  cancelReq, results,
  \* the device connection and the Pi
  link,       \* up, lost (the Pi has not noticed yet), down
  faults,     \* how many there have been
  broken,     \* goals whose pending request failed with the connection
  startReq, stopReq,
  proc,       \* the playback process of each stream
  playing,    \* _playback
  stray       \* streams whose process the bridge has given up without a stop

agentVars  == <<agent, turn, speak, stop, done, spoke, impatient>>
nodeVars   == <<reader, executor, cur, playDone, handle, cancelPending,
                cancelled, reported, abandoned>>
bridgeVars == <<goal, owner, results, stray>>
linkVars   == <<link, broken>>
piVars     == <<startReq, stopReq, proc, playing>>
vars == <<faults, agentVars, toNode, answers, nodeVars, bridgeVars, cancelReq, linkVars, piVars>>

Message == [k : {"begin", "audio", "barge"}, t : Turn]

Flags == {stop, done, spoke, impatient, answers, handle, cancelPending,
          cancelled, reported, abandoned, cancelReq, results, broken, stray}

TypeOK ==
  /\ agent \in {"idle", "hearing", "speaking"}
  /\ turn \in Turn \cup {NoTurn}
  /\ speak \in [Turn -> {"none", "begun", "sending", "waiting", "finished"}]
  /\ \A S \in Flags : S \subseteq Turn
  /\ toNode \in Seq(Message) /\ Len(toNode) <= 3 * Turns
  /\ reader \in {"ready", "noHandle", "leaving", "abandoning"}
  /\ executor \in Turn \cup {NoTurn} /\ cur \in Turn \cup {NoTurn}
  /\ playDone \in BOOLEAN
  /\ goal \in [Turn -> {"none", "sent", "accepted", "starting", "playing",
                        "stopping", "cleaning", "done"}]
  /\ owner \in Turn \cup {NoTurn}
  /\ link \in {"up", "lost", "down"} /\ faults \in 0 .. MaxFaults
  /\ startReq \in [Turn -> {"none", "queued", "spawning", "ok", "failed"}]
  /\ stopReq \in [Turn -> {"none", "queued", "draining", "answered"}]
  /\ proc \in [Turn -> {"none", "running", "draining", "ended"}]
  /\ playing \in Turn \cup {NoTurn}

Init ==
  /\ agent = "idle" /\ turn = NoTurn /\ speak = [t \in Turn |-> "none"]
  /\ stop = {} /\ done = {} /\ spoke = {} /\ impatient = {}
  /\ toNode = <<>> /\ answers = {}
  /\ reader = "ready" /\ executor = NoTurn /\ cur = NoTurn /\ playDone = TRUE
  /\ handle = {} /\ cancelPending = {} /\ cancelled = {} /\ reported = {}
  /\ abandoned = {}
  /\ goal = [t \in Turn |-> "none"] /\ owner = NoTurn
  /\ cancelReq = {} /\ results = {}
  /\ link = "up" /\ faults = 0 /\ broken = {}
  /\ startReq = [t \in Turn |-> "none"] /\ stopReq = [t \in Turn |-> "none"]
  /\ proc = [t \in Turn |-> "none"] /\ playing = NoTurn
  /\ stray = {}

-----------------------------------------------------------------------------
(* The agent: one thread handles the microphone frames and the messages of *)
(* the node, one thread per reply thinks and speaks.                       *)

\* One more of the failures that MaxFaults bounds.
Fails   == faults < MaxFaults /\ faults' = faults + 1
Regular == UNCHANGED faults

BeyondAgent == UNCHANGED <<nodeVars, bridgeVars, cancelReq, linkVars, piVars>>

\* LISTENING and THINKING are one state here: a call is heard, nothing is
\* understood, or the lamp itself has something to say.
Hear ==
  /\ turn < Turns
  /\ \/ agent = "idle" /\ agent' = "hearing"
     \/ agent = "hearing" /\ agent' = "idle"
  /\ UNCHANGED <<turn, speak, stop, done, spoke, impatient, toNode, answers>>
  /\ BeyondAgent /\ Regular

\* _begin_turn() and the state SPEAKING: the turn before sends nothing more.
BeginTurn(t) ==
  /\ agent = "hearing" /\ t = turn + 1
  /\ agent' = "speaking" /\ turn' = t
  /\ speak' = [speak EXCEPT ![t] = "begun"]
  /\ stop' = stop \cup ({turn} \ {NoTurn}) /\ done' = done \cup ({turn} \ {NoTurn})
  /\ UNCHANGED <<spoke, impatient, toNode, answers>> /\ BeyondAgent /\ Regular

\* Fault: whatever the thread has to say is sent.
SendAsAnyone(t, k) == toNode' = Append(toNode, [k |-> k, t |-> t])

\* _send_as(): only the turn that is current sends.
SendAs(t, k) == toNode' = IF turn = t THEN Append(toNode, [k |-> k, t |-> t]) ELSE toNode

SendBegin(t) ==
  /\ speak[t] = "begun"
  /\ SendAs(t, "begin")
  /\ speak' = [speak EXCEPT ![t] = "sending"]
  /\ UNCHANGED <<agent, turn, stop, done, spoke, impatient, answers>> /\ BeyondAgent /\ Regular

\* The sentences and the end mark, or the mark alone; the loop looks at stop
\* before each sentence.
SendAudio(t) ==
  /\ speak[t] = "sending"
  /\ SendAs(t, "audio")
  /\ speak' = [speak EXCEPT ![t] = "waiting"]
  /\ \/ t \notin stop /\ spoke' = spoke \cup {t}
     \/ UNCHANGED spoke
  /\ UNCHANGED <<agent, turn, stop, done, impatient, answers>> /\ BeyondAgent /\ Regular

\* The reply has been heard, was interrupted, had no sound, or its end has
\* been waited for too long.  Only the current turn goes back to idle.
FinishTurn(t) ==
  /\ speak[t] = "waiting"
  /\ speak' = [speak EXCEPT ![t] = "finished"]
  /\ agent' = IF agent = "speaking" /\ turn = t THEN "idle" ELSE agent
  /\ \/ /\ t \notin spoke \/ t \in stop \/ t \in done
        /\ UNCHANGED impatient /\ Regular
     \/ impatient' = impatient \cup {t} /\ Fails
  /\ UNCHANGED <<turn, stop, done, spoke, toNode, answers>> /\ BeyondAgent

\* Fault: the agent goes on speaking, and is interrupted again.
BargeInStays ==
  /\ agent = "speaking"
  /\ toNode' = Append(toNode, [k |-> "barge", t |-> turn])
  /\ stop' = stop \cup {turn} /\ done' = done \cup {turn}
  /\ UNCHANGED <<agent, turn, speak, spoke, impatient, answers>> /\ BeyondAgent /\ Regular

\* The user speaks over the lamp: the playback is to be cut off at once.
BargeIn ==
  /\ agent = "speaking"
  /\ toNode' = Append(toNode, [k |-> "barge", t |-> turn])
  /\ stop' = stop \cup {turn} /\ done' = done \cup {turn}
  /\ agent' = "hearing"
  /\ UNCHANGED <<turn, speak, spoke, impatient, answers>> /\ BeyondAgent /\ Regular

\* Fault: the result of any stream ends the turn.
PlayDoneAny(t) ==
  /\ t \in answers
  /\ answers' = answers \ {t} /\ done' = done \cup {turn}
  /\ UNCHANGED <<agent, turn, speak, stop, spoke, impatient, toNode>> /\ BeyondAgent /\ Regular

\* on_play_done(): the late result of an earlier turn is ignored.
PlayDone(t) ==
  /\ t \in answers
  /\ answers' = answers \ {t}
  /\ done' = IF t = turn THEN done \cup {t} ELSE done
  /\ UNCHANGED <<agent, turn, speak, stop, spoke, impatient, toNode>> /\ BeyondAgent /\ Regular

SpeakThread(t) == SendBegin(t) \/ SendAudio(t) \/ FinishTurn(t)

Agent == \/ Hear \/ BargeIn
         \/ \E t \in Turn : BeginTurn(t) \/ SpeakThread(t) \/ PlayDone(t)

-----------------------------------------------------------------------------
(* The voice node: the read loop.                                          *)

BeyondNode == UNCHANGED <<agentVars, owner, results, linkVars, piVars, stray>>

Reads(k, t) == toNode # <<>> /\ Head(toNode) = [k |-> k, t |-> t]

\* _report(): once for every stream, under its own speech id; only the
\* current stream's end allows the next playback.
Report(t, now) ==
  /\ reported' = reported \cup {t} /\ cancelled' = cancelled \cup {t}
  /\ answers' = IF t \in reported THEN answers ELSE answers \cup {t}
  /\ playDone' = (playDone \/ (t = now /\ t \notin reported))

(* A new stream becomes the current one and asks for its goal, unless there *)
(* is no action server.                                                     *)
NewStream(t) ==
  /\ cur' = t /\ toNode' = Tail(toNode) /\ reader' = "ready"
  /\ UNCHANGED <<executor, handle>>
  /\ \/ /\ goal' = [goal EXCEPT ![t] = "sent"] /\ playDone' = FALSE
        /\ UNCHANGED <<cancelled, reported, answers>> /\ Regular
     \/ /\ reported' = reported \cup {t} /\ cancelled' = cancelled \cup {t}
        /\ answers' = answers \cup {t} /\ playDone' = TRUE
        /\ UNCHANGED goal /\ Fails

\* Fault: the end of the playback before is not waited for.
StartPlaybackAtOnce(t) ==
  /\ reader = "ready" /\ Reads("begin", t)
  /\ NewStream(t)
  /\ UNCHANGED <<abandoned, cancelPending, cancelReq>> /\ BeyondNode

StartPlayback(t) ==
  /\ reader = "ready" /\ Reads("begin", t)
  /\ cur # NoTurn => playDone
  /\ NewStream(t)
  /\ UNCHANGED <<abandoned, cancelPending, cancelReq>> /\ BeyondNode

(* Twelve seconds have passed: the stream before is left and its goal is   *)
(* cancelled, now or, when it has no handle yet, once it is accepted.  One *)
(* that is cancelled already is only left behind, in Abandon.              *)
StopWaiting(t) ==
  /\ reader = "ready" /\ Reads("begin", t)
  /\ cur # NoTurn /\ ~playDone
  /\ abandoned' = abandoned \cup {cur}
  /\ cancelled' = cancelled \cup {cur}
  /\ cancelReq' = IF cur \in handle \ cancelled THEN cancelReq \cup {cur} ELSE cancelReq
  /\ reader' = IF cur \in handle \cup cancelled THEN "leaving" ELSE "abandoning"
  /\ Fails
  /\ UNCHANGED <<cur, playDone, toNode, executor, handle, cancelPending, reported,
                 answers, goal>>
  /\ BeyondNode

Abandon(t) ==
  /\ reader \in {"leaving", "abandoning"} /\ Reads("begin", t)
  /\ cancelPending' = IF reader = "leaving" THEN cancelPending ELSE cancelPending \cup {cur}
  /\ NewStream(t)
  /\ UNCHANGED <<abandoned, cancelReq>> /\ BeyondNode

\* publish_frame() and finish_playback() put into the current queue; from
\* there it is the stream's publisher that may bring the goal to its end.
TakeAudio(t) ==
  /\ reader = "ready" /\ Reads("audio", t)
  /\ toNode' = Tail(toNode)
  /\ UNCHANGED <<reader, executor, cur, playDone, handle, cancelPending, cancelled,
                 reported, abandoned, answers, goal, cancelReq>>
  /\ BeyondNode /\ Regular

(* cancel_playback(): a goal with a handle is cancelled.  One that has not *)
(* been accepted yet is marked, in a step of its own.                      *)
CancelPlayback(t) ==
  /\ reader = "ready" /\ Reads("barge", t)
  /\ IF cur = NoTurn \/ cur \in reported
       THEN toNode' = Tail(toNode) /\ UNCHANGED <<cancelled, cancelReq, reader>>
       ELSE /\ cancelled' = cancelled \cup {cur}
            /\ IF cur \in handle
                 THEN /\ cancelReq' = cancelReq \cup {cur} /\ toNode' = Tail(toNode)
                      /\ UNCHANGED reader
                 ELSE reader' = "noHandle" /\ UNCHANGED <<cancelReq, toNode>>
  /\ UNCHANGED <<executor, cur, playDone, handle, cancelPending, reported,
                 abandoned, answers, goal>>
  /\ BeyondNode /\ Regular

MarkCancelPending ==
  /\ reader = "noHandle"
  /\ cancelPending' = cancelPending \cup {cur}
  /\ reader' = "ready" /\ toNode' = Tail(toNode)
  /\ UNCHANGED <<executor, cur, playDone, handle, cancelled, reported,
                 abandoned, answers, goal, cancelReq>>
  /\ BeyondNode /\ Regular

Reader ==
  \/ \E t \in Turn : StartPlayback(t) \/ StopWaiting(t) \/ Abandon(t)
                       \/ TakeAudio(t) \/ CancelPlayback(t)
  \/ MarkCancelPending

-----------------------------------------------------------------------------
(* The voice node: the executor's callbacks and the publishers.            *)

NodeOnly == UNCHANGED <<reader, cur, abandoned, toNode>> /\ BeyondNode /\ Regular

\* _goal_accepted() stores the handle ...
GoalAccepted(t) ==
  /\ executor = NoTurn /\ t \notin handle \cup reported
  /\ goal[t] \notin {"none", "sent"}
  /\ handle' = handle \cup {t} /\ executor' = t
  /\ UNCHANGED <<playDone, cancelPending, cancelled, reported,
                 answers, goal, cancelReq>>
  /\ NodeOnly

\* ... and then looks whether the stream has been cancelled meanwhile.
AfterAccepted(t) ==
  /\ executor = t
  /\ executor' = NoTurn
  /\ IF t \in cancelPending \/ t # cur
       THEN cancelPending' = cancelPending \ {t} /\ cancelReq' = cancelReq \cup {t}
       ELSE UNCHANGED <<cancelPending, cancelReq>>
  /\ UNCHANGED <<playDone, handle, cancelled, reported, answers, goal>>
  /\ NodeOnly

GoalResult(t) ==
  /\ executor = NoTurn /\ t \in handle /\ t \in results
  /\ handle' = handle \ {t}
  /\ Report(t, cur)
  /\ UNCHANGED <<executor, cancelPending, goal, cancelReq>>
  /\ NodeOnly

Callbacks == \E t \in Turn : GoalAccepted(t) \/ AfterAccepted(t) \/ GoalResult(t)

-----------------------------------------------------------------------------
(* The bridge: _play_audio(), one thread for each goal.                    *)

BeyondBridge == UNCHANGED <<agentVars, toNode, answers, nodeVars, cancelReq,
                            link, proc, playing>>

\* The action server takes every goal.
ServerAnswers(t) ==
  /\ goal[t] = "sent"
  /\ goal' = [goal EXCEPT ![t] = "accepted"]
  /\ UNCHANGED <<owner, results, stray, broken, startReq, stopReq>> /\ BeyondBridge /\ Regular

Ends(t) == goal' = [goal EXCEPT ![t] = "done"] /\ results' = results \cup {t}

\* The sender is closed and the ownership given up before the result is sent.
Frees(t) == Ends(t) /\ owner' = NoTurn

\* Fault: the goal that was refused clears the ownership of the other.
BusyClears(t) == /\ goal[t] = "accepted" /\ owner # NoTurn
                 /\ Frees(t)
                 /\ UNCHANGED <<stray, broken, startReq, stopReq>> /\ BeyondBridge /\ Regular

Busy(t) ==
  /\ goal[t] = "accepted" /\ owner # NoTurn
  /\ Ends(t)
  /\ UNCHANGED <<owner, stray, broken, startReq, stopReq>> /\ BeyondBridge /\ Regular

Execute(t) ==
  /\ goal[t] = "accepted" /\ owner = NoTurn
  /\ IF link = "up"
       THEN /\ owner' = t /\ goal' = [goal EXCEPT ![t] = "starting"]
            /\ startReq' = [startReq EXCEPT ![t] = "queued"]
            /\ UNCHANGED results
       ELSE Frees(t) /\ UNCHANGED startReq
  /\ UNCHANGED <<stray, broken, stopReq>> /\ BeyondBridge /\ Regular

StartAnswered(t) ==
  /\ goal[t] = "starting" /\ t \notin broken
  /\ \/ startReq[t] = "ok" /\ goal' = [goal EXCEPT ![t] = "playing"] /\ UNCHANGED <<owner, results>>
     \/ startReq[t] = "failed" /\ Frees(t)
  /\ UNCHANGED <<stray, broken, startReq, stopReq>> /\ BeyondBridge /\ Regular

\* The request failed with its connection; the Pi stops what was started.
StartBroken(t) ==
  /\ goal[t] = "starting" /\ t \in broken
  /\ Frees(t) /\ broken' = broken \ {t}
  /\ UNCHANGED <<stray, startReq, stopReq>> /\ BeyondBridge /\ Regular

\* Three seconds without an answer: nothing was started, says the bridge.
StartTimesOut(t) ==
  /\ goal[t] = "starting" /\ t \notin broken /\ startReq[t] # "failed"
  /\ Frees(t)
  /\ stray' = stray \cup {t} /\ Fails
  /\ UNCHANGED <<broken, startReq, stopReq>> /\ BeyondBridge

AskStop(t, pc) ==
  IF link = "up" /\ stopReq[t] = "none"
    THEN /\ goal' = [goal EXCEPT ![t] = pc] /\ stopReq' = [stopReq EXCEPT ![t] = "queued"]
         /\ UNCHANGED <<owner, results>>
    ELSE IF link = "up" /\ stopReq[t] # "answered"
           THEN goal' = [goal EXCEPT ![t] = pc] /\ UNCHANGED <<owner, results, stopReq>>
           ELSE Frees(t) /\ UNCHANGED stopReq

\* The end of the stream has come, a frame was bad, the sender cannot be
\* opened, or the goal is to be cancelled.
SessionEnds(t) ==
  /\ goal[t] = "playing"
  /\ AskStop(t, "stopping")
  /\ UNCHANGED <<stray, broken, startReq>> /\ BeyondBridge /\ Regular

StopAnswered(t) ==
  /\ goal[t] \in {"stopping", "cleaning"} /\ stopReq[t] = "answered" /\ t \notin broken
  /\ Frees(t)
  /\ UNCHANGED <<stray, broken, startReq, stopReq>> /\ BeyondBridge /\ Regular

(* No answer within three seconds, or no connection: the stop is asked for *)
(* once more.  A second silence ends the goal; six seconds after the first *)
(* request the Pi has killed what does not drain within five.              *)
StopFails(t) ==
  /\ goal[t] \in {"stopping", "cleaning"}
  /\ t \in broken \/ stopReq[t] \in {"queued", "draining"}
  /\ IF goal[t] = "stopping"
       THEN AskStop(t, "cleaning")
       ELSE /\ t \in broken \/ proc[t] \notin {"running", "draining"}
            /\ Frees(t) /\ UNCHANGED stopReq
  /\ broken' = broken \ {t} /\ (IF t \in broken THEN Regular ELSE Fails)
  /\ UNCHANGED <<stray, startReq>> /\ BeyondBridge

Bridge ==
  \E t \in Turn : \/ ServerAnswers(t) \/ Busy(t) \/ Execute(t) \/ StartAnswered(t)
                  \/ StartBroken(t) \/ StartTimesOut(t) \/ SessionEnds(t)
                  \/ StopAnswered(t) \/ StopFails(t)

-----------------------------------------------------------------------------
(* The device connection, and the Pi's server and audio supervisor.        *)

BeyondPi == UNCHANGED <<agentVars, toNode, answers, nodeVars, goal, owner,
                        results, cancelReq>>

Alive(t) == t # NoTurn /\ proc[t] \in {"running", "draining"}

\* The bridge loses its connection: what it waits for fails.
LoseLink ==
  /\ link = "up" /\ link' = "lost" /\ Fails
  /\ broken' = {t \in Turn : goal[t] \in {"starting", "stopping", "cleaning"}}
  /\ UNCHANGED <<piVars, stray>> /\ BeyondPi

\* Fault: the session's end leaves the playback alone.
PiNoticesOnly ==
  /\ link = "lost"
  /\ link' = "down"
  /\ startReq' = [t \in Turn |-> IF startReq[t] \in {"queued", "spawning"}
                                   THEN "failed" ELSE startReq[t]]
  /\ stopReq' = [t \in Turn |-> IF stopReq[t] # "none" THEN "answered" ELSE stopReq[t]]
  /\ UNCHANGED <<broken, proc, playing, stray>> /\ BeyondPi /\ Regular

(* The Pi notices: the owner is given up, the playback is drained, and what *)
(* the session still had in hand is cancelled.                              *)
PiNotices ==
  /\ link = "lost"
  /\ link' = "down"
  /\ startReq' = [t \in Turn |-> IF startReq[t] \in {"queued", "spawning"}
                                   THEN "failed" ELSE startReq[t]]
  /\ stopReq' = [t \in Turn |-> IF stopReq[t] # "none" THEN "answered" ELSE stopReq[t]]
  /\ proc' = IF Alive(playing) THEN [proc EXCEPT ![playing] = "draining"] ELSE proc
  /\ playing' = IF Alive(playing) THEN playing ELSE NoTurn
  /\ UNCHANGED <<broken, stray>> /\ BeyondPi /\ Regular

Reconnect ==
  /\ link = "down" /\ link' = "up"
  /\ UNCHANGED <<broken, piVars, stray>> /\ BeyondPi /\ Regular

\* Fault: another process may be playing.
PlayStartAnyway(t) ==
  /\ link # "down" /\ startReq[t] = "queued"
  /\ startReq' = [startReq EXCEPT ![t] = "spawning"]
  /\ UNCHANGED <<linkVars, stopReq, proc, playing, stray>> /\ BeyondPi /\ Regular

\* play_start() looks for a process that plays before it awaits its own; a
\* request that is too old fails as well.
PlayStart(t) ==
  /\ link # "down" /\ startReq[t] = "queued"
  /\ \/ /\ startReq' = [startReq EXCEPT ![t] =
                          IF Alive(playing) THEN "failed" ELSE "spawning"]
        /\ Regular
     \/ startReq' = [startReq EXCEPT ![t] = "failed"] /\ Fails
  /\ UNCHANGED <<linkVars, stopReq, proc, playing, stray>> /\ BeyondPi

\* The process is there, or it could not be started or ended at once.
PlayStarted(t) ==
  /\ startReq[t] = "spawning"
  /\ \/ /\ startReq' = [startReq EXCEPT ![t] = "ok"]
        /\ proc' = [proc EXCEPT ![t] = "running"] /\ playing' = t /\ Regular
     \/ /\ startReq' = [startReq EXCEPT ![t] = "failed"]
        /\ playing' \in {playing, NoTurn} /\ UNCHANGED proc /\ Fails
  /\ UNCHANGED <<linkVars, stopReq, stray>> /\ BeyondPi

(* play_stop(): of another stream it fails, of a process that has ended it *)
(* is done, otherwise it waits for the drain.  A request that is too old   *)
(* fails and the bridge asks no more.                                      *)
PlayStop(t) ==
  /\ link # "down" /\ stopReq[t] = "queued"
  /\ \/ /\ playing = t /\ Alive(t)
        /\ proc' = [proc EXCEPT ![t] = "draining"]
        /\ stopReq' = [stopReq EXCEPT ![t] = "draining"]
        /\ UNCHANGED <<playing, stray>> /\ Regular
     \/ /\ ~(playing = t /\ Alive(t))
        /\ stopReq' = [stopReq EXCEPT ![t] = "answered"]
        /\ playing' = IF playing = t THEN NoTurn ELSE playing
        /\ UNCHANGED <<proc, stray>> /\ Regular
     \/ /\ stopReq' = [stopReq EXCEPT ![t] = "answered"]
        /\ stray' = stray \cup {t} /\ Fails
        /\ UNCHANGED <<proc, playing>>
  /\ UNCHANGED <<linkVars, startReq>> /\ BeyondPi

(* A process ends: drained or killed after five seconds, and play_stop()   *)
(* forgets it and answers; or by itself, and it stays in _playback.        *)
ProcessEnds(t) ==
  /\ Alive(t)
  /\ proc' = [proc EXCEPT ![t] = "ended"]
  /\ IF proc[t] = "draining"
       THEN /\ playing' = NoTurn
            /\ stopReq' = IF stopReq[t] = "draining"
                            THEN [stopReq EXCEPT ![t] = "answered"] ELSE stopReq
            /\ Regular
       ELSE UNCHANGED <<playing, stopReq>> /\ Fails
  /\ UNCHANGED <<linkVars, startReq, stray>> /\ BeyondPi

Pi == \/ LoseLink \/ PiNotices \/ Reconnect
      \/ \E t \in Turn : PlayStart(t) \/ PlayStarted(t) \/ PlayStop(t) \/ ProcessEnds(t)

Next == Agent \/ Reader \/ Callbacks \/ Bridge \/ Pi

Spec == Init /\ [][Next]_vars
=============================================================================
