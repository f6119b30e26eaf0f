--------------------------- MODULE SpeechProperties ---------------------------
(***************************************************************************)
(* What the ways of a speech to its label and to its direction must get    *)
(* right.                                                                  *)
(***************************************************************************)
EXTENDS Speech

\* Everything published has been taken in, and the loop is about to look.
Settled ==
  /\ link = "up" /\ wire = <<>> /\ queue = <<>> /\ pc = "top" /\ capture
  /\ device = session /\ ~dropped

(* The Jetson labels the captured sound with the speech that the Pi hears, *)
(* and with none when it hears none: whatever was lost with a connection,  *)
(* whenever the lamp began to play, and whenever the capture went away.    *)
(* Not so for a speech during which the board was lost: the loop forgets   *)
(* it without a word (daemon.py:286-287).  After a lost connection it is   *)
(* so once the first event of the new session has come (audio.py:166-177). *)
IntervalIsHeard ==
  Settled =>
    /\ active \in {NoId} \cup cutOff \cup (IF vad THEN {id} ELSE {})
    /\ vad /\ startedIn = session => active = id

(* One direction is acted upon for each speech: the lamp is not asked to   *)
(* turn twice for one call (doa.py:158).                                   *)
OneDecision == decision # "none" => id \notin decided

(* Every speech leads to an answer about its direction, which the agent    *)
(* waits for before it speaks; or it is discarded, or another one begins   *)
(* (doa.py:247-249, agent.py:321-332).                                     *)
EverySpeechIsDecided ==
  \A i \in Id : id = i ~> i \in decided \/ id # i
=============================================================================
