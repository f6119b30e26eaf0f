-------------------------- MODULE PlaybackProperties --------------------------
(* What the lamp's speaking promises to the user who listens, and to the   *)
(* next reply.                                                             *)
EXTENDS Playback

(* The sound of a reply goes into its own stream.  A thread that was held  *)
(* up in the synthesis while the user interrupted it wakes up in the next  *)
(* turn and still has sound to send (agent.py:152-154).                    *)
FramesOfOwnTurn ==
  [][\A t \in Turn : Reads("audio", t) /\ toNode' = Tail(toNode) => cur = t]_vars

(* No goal is refused as audio_busy, unless the voice node has given up    *)
(* waiting for the stream before: the result it waits for is sent when the *)
(* bridge is free again (lamp_voice_node.py:114-117).                      *)
NeverBusy ==
  [][\A t \in Turn :
       goal[t] = "accepted" /\ goal'[t] = "done" /\ owner # NoTurn
         => abandoned # {}]_vars

(* The Pi plays for a goal that will stop it, or the connection has just   *)
(* been lost and the session's end will.  Nothing else on the Jetson would *)
(* stop the process: only a start the bridge has given up on while it was  *)
(* still on its way, and a stop that came too late to be obeyed, leave one *)
(* behind, or the next one (node.py:288-292, 327-332; audio.py:301-307).   *)
OwnedPlayback ==
  stray = {} =>
    \A t \in Turn : proc[t] = "running" =>
      goal[t] \in {"starting", "playing", "stopping", "cleaning"} \/ link = "lost"

(* The speaker is used by one process at a time, but for one left behind:  *)
(* play_start() looks at the process before it awaits its own              *)
(* (audio.py:256-259).                                                     *)
OnePlayback ==
  stray = {} => Cardinality({t \in Turn : Alive(t)}) <= 1

(* When the agent believes that its reply has been heard to the end, it    *)
(* has: the lamp is not heard while nobody listens for an interruption     *)
(* (agent.py:602-605).  Not so when the result did not come in time, when  *)
(* the user interrupted, and its process may outlive it after a failure.   *)
IdleIsSilent ==
  \A t \in spoke \ (stop \cup impatient) :
    agent = "idle" /\ turn = t =>
      /\ goal[t] = "done" \/ (goal[t] = "none" /\ t \in reported)
      /\ Alive(t) => faults > 0
=============================================================================
