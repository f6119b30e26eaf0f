------------------------ MODULE InteractionProperties ------------------------
EXTENDS Interaction

(* A user who is talked with, greeted, or reading by the lamp has not      *)
(* left: the away pose is held alone (tick, s4.py 87-111; may_leave,       *)
(* arbiter.py 114-116).                                                    *)
AwayIsAlone ==
  away => ~Conversation /\ s1State = "idle" /\ ~gaze /\ ~greetTimer

(* The node sends one clip at a time and is busy exactly as long as it     *)
(* plays, whatever refuses it or fails: otherwise no clip, no task light   *)
(* and no away pose would ever start again (_play_commands, node.py        *)
(* 358-402).                                                               *)
OneMotion == Len(playing) <= 1 /\ (motionBusy <=> playing # <<>>)

(* A turn towards a sound is undone only when nobody answered it and       *)
(* nothing else has the head (tick, arbiter.py 129-140).                   *)
SoundTurnIsUnclaimed ==
  [][soundId # NoId /\ soundId' = NoId /\ Len(centers') > Len(centers)
       => /\ soundId \notin answered /\ ~Conversation
          /\ ~HoldsHead /\ ~away /\ ~gaze /\ playing = <<>>]_vars

(* A return to rest is never sent into a conversation: the answer it waits *)
(* for may come after the next turn has begun (_follow, node.py 436-442).  *)
CenterSparesTurn == \A k \in DOMAIN centers : centers[k].over # "turn"

(* "An old off request can complete after a new turn enabled gaze"         *)
(* (_follow, node.py 437): once everything is answered, the face is        *)
(* followed by a turn that wants it, unless the book had the head or the   *)
(* order to stop came from this same turn.                                 *)
OldOffIsRepaired ==
  /\ gazing /\ wanted # NoTurn /\ stopped # NoTurn
  /\ \A k \in DOMAIN asked : asked[k].kind = "aim"
  => stopped >= wanted

(* "Following the face, centring, or interrupting motion would all pull    *)
(* the head off the book" (node.py 406-407): nothing centres the head      *)
(* while the task light holds it.                                          *)
CenterSparesBook == \A k \in DOMAIN centers : centers[k].over # "book"
=============================================================================
