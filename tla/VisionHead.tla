----------------------------- MODULE VisionHead -----------------------------
(***************************************************************************)
(* The two services of the vision node by which the interaction node turns *)
(* the head: follow the face, aim at a book (lamp_vision/node.py).         *)
(*                                                                         *)
(* The node serves its callbacks from several threads and the capture loop *)
(* keeps the lock they need for as long as a frame is analysed, so two     *)
(* requests that wait for it are served in any order.  The book is lit     *)
(* from where the head has centred it (s1_reach is off, line 129).         *)
(***************************************************************************)
EXTENDS Integers, Sequences, SequencesExt

VARIABLES
  visionUp,   \* the services have been announced
  asked,      \* requests not answered yet, in the order they were sent
  following,  \* runtime.following
  aiming,     \* _aiming
  centred,    \* _reach = "held": the book is in the middle of the image
  stopped     \* history: the turn of the last request served, if it was to
              \* stop following; none otherwise

visionVars == <<visionUp, asked, following, aiming, centred, stopped>>

NoTurn == -1

(* A request remembers the turn that sent it (epoch) and whether the lamp  *)
(* returns to its rest when it is answered (after).                        *)
Request(Epochs) ==
  [kind : {"follow", "aim"}, on : BOOLEAN, epoch : Epochs, after : BOOLEAN,
   at : {"asked", "answered"}]

FollowRequest(on, epoch, after) ==
  [kind |-> "follow", on |-> on, epoch |-> epoch, after |-> after,
   at |-> "asked"]

\* Nobody waits for the answer of this one.
AimRequest(on) ==
  [kind |-> "aim", on |-> on, epoch |-> 0, after |-> FALSE, at |-> "asked"]

VisionTypeOK(Epochs) ==
  /\ visionUp \in BOOLEAN /\ following \in BOOLEAN
  /\ aiming \in BOOLEAN /\ centred \in BOOLEAN
  /\ asked \in Seq(Request(Epochs))
  /\ stopped \in Epochs \cup {NoTurn}

VisionInit ==
  /\ visionUp \in BOOLEAN /\ asked = <<>>
  /\ following = FALSE /\ aiming = FALSE /\ centred = FALSE
  /\ stopped = NoTurn

VisionStarts ==
  /\ ~visionUp /\ visionUp' = TRUE
  /\ UNCHANGED <<asked, following, aiming, centred, stopped>>

\* To follow the face ends the aim; to stop following leaves it alone.
ServeFollow(k) ==
  /\ asked[k].kind = "follow" /\ asked[k].at = "asked"
  /\ following' = asked[k].on
  /\ aiming' = (aiming /\ ~asked[k].on)
  /\ centred' = (centred /\ ~asked[k].on)
  /\ asked' = [asked EXCEPT ![k].at = "answered"]
  /\ stopped' = IF asked[k].on THEN NoTurn ELSE asked[k].epoch
  /\ UNCHANGED visionUp

\* To aim ends the following; every request starts the aim over.
ServeAim(k) ==
  /\ asked[k].kind = "aim"
  /\ aiming' = asked[k].on /\ centred' = FALSE
  /\ following' = (following /\ ~asked[k].on)
  /\ asked' = RemoveAt(asked, k)
  /\ stopped' = NoTurn
  /\ UNCHANGED visionUp

\* The capture loop has found the book and centred it.
CentreBook ==
  /\ aiming /\ ~centred /\ centred' = TRUE
  /\ UNCHANGED <<visionUp, asked, following, aiming, stopped>>

VisionStep ==
  \/ VisionStarts \/ CentreBook
  \/ \E k \in DOMAIN asked : ServeFollow(k) \/ ServeAim(k)
=============================================================================
