----------------------------- MODULE Interaction -----------------------------
(***************************************************************************)
(* The interaction node: which scenario moves the head, and when.          *)
(*                                                                         *)
(*   s2.py       a conversation: follow the face, return to rest           *)
(*   s1.py       the task light: aim at a book after the conversation      *)
(*   s4.py       the user left: away pose; came back: greeting, then gaze  *)
(*   arbiter.py  the owner of the head                                     *)
(*   node.py     the callbacks, the requests and goals they send           *)
(*                                                                         *)
(* The node runs one callback at a time.  The tick of one second is a      *)
(* callback of four parts (step), between which no other callback runs.    *)
(* Clocks are abstracted by what has run out when it is looked at.         *)
(***************************************************************************)
EXTENDS VisionHead, FiniteSets

CONSTANTS
  MaxSpeech,   \* how many utterances the microphones report
  MaxAsked,    \* requests to the vision node under way
  MaxCenters   \* goals of return_center under way

ASSUME InteractionAssumption ==
  MaxSpeech \in Nat /\ MaxAsked \in Nat /\ MaxCenters \in Nat

Id    == 1 .. MaxSpeech
NoId  == 0
Epoch == 0 .. MaxSpeech

VARIABLES
  \* s2.py and the node's turn counter
  epoch, activeId, gazing, oriented,
  moved,      \* _gesture_turn is the active turn
  \* arbiter.py
  soundId, answered,
  arbGaze,    \* its copy of "greeting"
  arbBusy,    \* its copy of motion_busy
  \* s4.py and the timer of the greeting
  present, away, absent, returning, gaze, greetTimer,
  \* s1.py
  s1State, aimDone,
  \* node.py: motions and centre goals
  motionBusy, pendingReact, playing, centers,
  step,
  \* history
  wanted      \* the turn that asked vision for the face, none if the book
              \* kept the head from it

turnVars  == <<epoch, activeId, gazing, oriented, moved, wanted>>
soundVars == <<soundId, answered>>
awayVars  == <<present, away, absent, returning, gaze, greetTimer, arbGaze>>
bookVars  == <<s1State, aimDone>>
moveVars  == <<motionBusy, pendingReact, playing>>
vars == <<turnVars, soundVars, awayVars, bookVars, moveVars, arbBusy, centers,
          step, visionVars>>

TypeOK ==
  /\ VisionTypeOK(Epoch)
  /\ epoch \in Epoch /\ activeId \in Id \cup {NoId}
  /\ gazing \in BOOLEAN /\ wanted \in Epoch \cup {NoTurn}
  /\ oriented \in [Id -> {"none", "orienting", "aligned", "failed"}]
  /\ moved \in BOOLEAN /\ soundId \in Id \cup {NoId}
  /\ answered \subseteq Id
  /\ {present, away, returning, gaze, greetTimer, arbGaze} \subseteq BOOLEAN
  /\ absent \in {"no", "fresh", "old"}
  /\ s1State \in {"idle", "pending", "aiming", "lit"} /\ aimDone \in BOOLEAN
  /\ {motionBusy, pendingReact, arbBusy} \subseteq BOOLEAN
  /\ playing \in Seq([motion : {"greeting", "clip"}, more : BOOLEAN,
                      running : BOOLEAN])
  /\ centers \in Seq([epoch : Epoch, running : BOOLEAN, handle : BOOLEAN,
                      over : {"turn", "book", "free"}])
  /\ step \in {"idle", "light", "react", "leave"}

Init ==
  /\ VisionInit
  /\ epoch = 0 /\ activeId = NoId /\ moved = FALSE
  /\ oriented = [i \in Id |-> "none"]
  /\ gazing = FALSE /\ wanted = NoTurn
  /\ soundId = NoId /\ answered = {}
  /\ present = FALSE /\ away = FALSE /\ absent = "no" /\ returning = FALSE
  /\ gaze = FALSE /\ greetTimer = FALSE /\ arbGaze = FALSE
  /\ s1State = "idle" /\ aimDone = FALSE
  /\ motionBusy = FALSE /\ pendingReact = FALSE /\ playing = <<>>
  /\ arbBusy = FALSE /\ centers = <<>> /\ step = "idle"

-----------------------------------------------------------------------------
(* The owner of the head.                                                  *)

Conversation == activeId # NoId

HoldsHead == s1State \in {"aiming", "lit"}

(* fault: the last status of the motion bridge says that the motors cannot *)
(* be used.  It may change before any callback, so it is an input of each. *)
Owner(fault, sound) ==
  IF fault THEN "safety"
  ELSE IF Conversation THEN "s2"
  ELSE IF HoldsHead THEN "s1"
  ELSE IF sound # NoId THEN "s6"
  ELSE IF away \/ arbGaze THEN "s4"
  ELSE "idle"

MayPlay(fault) == Owner(fault, soundId) \in {"s2", "idle"}

\* What the head is used for, whoever is believed to own it.
Use == IF Conversation THEN "turn" ELSE IF HoldsHead THEN "book" ELSE "free"

Room == Len(asked) < MaxAsked /\ Len(centers) < MaxCenters

\* A callback of the node may begin.
Ready == step = "idle" /\ Room

-----------------------------------------------------------------------------
(* Requests and goals.                                                     *)

\* Nothing is sent to a service that has not been announced.
Ask(requests) ==
  /\ asked' = IF visionUp THEN asked \o requests ELSE asked
  /\ UNCHANGED <<visionUp, following, aiming, centred, stopped>>

AskNothing == UNCHANGED visionVars

\* A goal is sent, unless its server is not there.
SendCenter(use) ==
  \/ centers' = Append(centers, [epoch |-> epoch, running |-> FALSE,
                                 handle |-> FALSE, over |-> use])
  \/ UNCHANGED centers

\* The goal of a clip, which one more may follow.
Clip(motion, more) == [motion |-> motion, more |-> more, running |-> FALSE]

\* A clip is sent; without a server the node is free again at once.
Play(motion, more) ==
  \/ motionBusy' = TRUE /\ playing' = Append(playing, Clip(motion, more))
  \/ motionBusy' = FALSE /\ UNCHANGED playing

\* One clip if the head is free; otherwise it is remembered for a while.
React(fault, wait) ==
  IF MayPlay(fault) /\ ~motionBusy
    THEN pendingReact' = FALSE /\ Play("clip", FALSE)
    ELSE pendingReact' = wait /\ UNCHANGED <<motionBusy, playing>>

-----------------------------------------------------------------------------
(* A turn (s2.py).                                                         *)

(* What was said of a turn that is over is not read again; s2.py keeps it  *)
(* until sixteen others have come.                                         *)
Forget(i) == [oriented EXCEPT ![i] = "none"]

NewTurn(i) == i # activeId

(* The wake word, once or again for the same turn.  It takes the head from *)
(* the away pose without a greeting, or from the gaze after the greeting.  *)
(* The order to stop that gaze is dropped when the turn already follows,   *)
(* and the arbiter then keeps its old copy of "greeting".                  *)
Wake(i) ==
  LET new  == NewTurn(i)
      e    == IF new THEN epoch + 1 ELSE epoch
      on   == oriented[i] = "aligned" /\ ~gazing
      off  == ~away /\ gaze /\ ~gazing /\ ~on IN
  /\ Ready /\ (i # activeId => \A j \in answered : i > j)
  /\ activeId' = i /\ epoch' = e /\ moved' = (moved /\ ~new)
  /\ oriented' = IF new /\ Conversation THEN Forget(activeId) ELSE oriented
  /\ gazing' = (gazing \/ on)
  /\ wanted' = IF on /\ ~HoldsHead THEN e ELSE wanted
  /\ answered' = answered \cup {i}
  /\ soundId' = IF i = soundId THEN NoId ELSE soundId
  /\ away' = FALSE /\ gaze' = FALSE
  /\ returning' = (returning /\ ~away)
  /\ absent' = IF away THEN (IF present THEN "no" ELSE "fresh") ELSE absent
  /\ greetTimer' = (greetTimer /\ ~away)
  /\ arbGaze' = (arbGaze /\ ~away /\ ~off)
  /\ Ask((IF off THEN <<FollowRequest(FALSE, e, FALSE)>> ELSE <<>>)
         \o IF on /\ ~HoldsHead THEN <<FollowRequest(TRUE, e, FALSE)>> ELSE <<>>)
  /\ centers' = [k \in DOMAIN centers |->
                   [centers[k] EXCEPT !.handle = @ /\ ~new]]
  /\ UNCHANGED <<present, moveVars, bookVars, arbBusy, step>>

(* What the Pi says of a turn towards an utterance.  "held" stands for its *)
(* refusal because the head is on the user already: s2.py takes that for   *)
(* aligned, arbiter.py for the end of the turn.                            *)
Orientation(i, state) ==
  LET turns == state \in {"orienting", "aligned"}
      on    == i = activeId /\ state \in {"aligned", "held"} /\ ~gazing IN
  /\ Ready /\ i \notin answered \ {activeId}
  /\ i > 1 => oriented[i - 1] # "none" \/ i - 1 \in answered
  /\ oriented[i] \in IF state = "orienting" THEN {"none"} ELSE {"none", "orienting"}
  /\ oriented' = [oriented EXCEPT ![i] = IF state = "held" THEN "aligned" ELSE state]
  /\ soundId' = IF i \in answered THEN soundId
                ELSE IF turns THEN i
                ELSE IF i = soundId THEN NoId ELSE soundId
  /\ gazing' = (gazing \/ on)
  /\ wanted' = IF on /\ ~HoldsHead THEN epoch ELSE wanted
  /\ Ask(IF on /\ ~HoldsHead THEN <<FollowRequest(TRUE, epoch, FALSE)>> ELSE <<>>)
  /\ UNCHANGED <<epoch, activeId, moved, answered, awayVars, bookVars,
                 moveVars, centers, arbBusy, step>>

(* The reply begins, or the words were not understood: a small movement,   *)
(* once for a reply.                                                       *)
Speaking(fault) ==
  /\ Ready /\ Conversation /\ ~moved
  /\ moved' = TRUE /\ React(fault, FALSE)
  /\ AskNothing
  /\ UNCHANGED <<epoch, activeId, gazing, oriented, wanted, soundVars,
                 awayVars, bookVars, centers, arbBusy, step>>

\* Also the gesture that some words call for.
Gesture(fault) ==
  /\ Ready /\ Conversation
  /\ moved' = TRUE /\ React(fault, TRUE)
  /\ AskNothing
  /\ UNCHANGED <<epoch, activeId, gazing, oriented, wanted, soundVars,
                 awayVars, bookVars, centers, arbBusy, step>>

(* The end of a turn: stop following, then return to rest.  A cancelled    *)
(* turn stays where it is, and the book keeps the head from both.          *)
EndTurn(cancelled) ==
  LET off  == gazing /\ ~HoldsHead
      rest == ~cancelled /\ ~HoldsHead IN
  /\ Conversation /\ activeId' = NoId /\ moved' = FALSE
  /\ gazing' = FALSE /\ wanted' = NoTurn /\ oriented' = Forget(activeId)
  /\ Ask(IF off THEN <<FollowRequest(FALSE, epoch, rest)>> ELSE <<>>)
  /\ IF rest /\ ~(off /\ visionUp) THEN SendCenter("free") ELSE UNCHANGED centers
  /\ UNCHANGED epoch

Done ==
  /\ Ready /\ \E cancelled \in BOOLEAN : EndTurn(cancelled)
  /\ UNCHANGED <<soundVars, awayVars, bookVars, moveVars, arbBusy, step>>

\* Fault: the return to rest is not given up when a new turn begins.
RestsAnyway(r) == r.after

RestsAfter(r) == r.after /\ r.epoch = epoch

\* Fault: an old answer is not followed up.
RepairsNothing(r) == FALSE

Repairs(r) == r.epoch # epoch /\ gazing

(* The vision node has answered.  An answer to an older turn turns the     *)
(* gaze of this one on again, whatever it had asked for.                   *)
FollowAnswered(k) ==
  LET r == asked[k] IN
  /\ step = "idle" /\ r.at = "answered"
  /\ asked' = RemoveAt(asked, k)
              \o IF Repairs(r)
                   THEN <<FollowRequest(TRUE, epoch, FALSE)>> ELSE <<>>
  /\ IF RestsAfter(r) THEN SendCenter(Use) ELSE UNCHANGED centers
  /\ UNCHANGED <<visionUp, following, aiming, centred, stopped, turnVars,
                 soundVars, awayVars, bookVars, moveVars, arbBusy, step>>

-----------------------------------------------------------------------------
(* The user leaves and comes back (s4.py).                                 *)

PresenceChanges ==
  /\ Ready /\ present' = ~present
  /\ IF present'
       THEN /\ absent' = "no" /\ returning' = away
       ELSE /\ returning' = FALSE
            /\ absent' = IF absent = "no" /\ ~away THEN "fresh" ELSE absent
  /\ arbGaze' = gaze
  /\ AskNothing
  /\ UNCHANGED <<away, gaze, greetTimer, turnVars, soundVars, bookVars, moveVars,
                 centers, arbBusy, step>>

\* The away pose has been left for long enough: the greeting plays.
Greet ==
  /\ Ready /\ greetTimer /\ greetTimer' = FALSE
  /\ IF motionBusy THEN UNCHANGED <<motionBusy, playing>> ELSE Play("greeting", FALSE)
  /\ AskNothing
  /\ UNCHANGED <<present, away, absent, returning, gaze, arbGaze, pendingReact,
                 turnVars, soundVars, bookVars, centers, arbBusy, step>>

\* The callbacks of a clip, which also answer whoever waits for its end.
OfClip ==
  /\ step = "idle"
  /\ UNCHANGED <<turnVars, soundVars, bookVars, pendingReact, centers, arbBusy, step>>

\* Nothing but the goal of clip k changes, and nothing else is asked for.
OnlyClip == AskNothing /\ UNCHANGED awayVars

ClipAccepted(k) ==
  /\ OfClip /\ OnlyClip /\ ~playing[k].running
  /\ playing' = [playing EXCEPT ![k].running = TRUE] /\ UNCHANGED motionBusy

\* Fault: a refused clip keeps the node busy.
ClipRefusedSilently(k) ==
  /\ OfClip /\ OnlyClip /\ ~playing[k].running
  /\ playing' = RemoveAt(playing, k) /\ UNCHANGED motionBusy

\* The bridge refuses the goal, or the request fails.
ClipRefused(k) ==
  /\ OfClip /\ OnlyClip /\ ~playing[k].running
  /\ playing' = RemoveAt(playing, k) /\ motionBusy' = FALSE

\* The clip has no success, or its result cannot be had: no other follows.
ClipFails(k) ==
  /\ OfClip /\ OnlyClip /\ playing[k].running
  /\ playing' = RemoveAt(playing, k) /\ motionBusy' = FALSE

\* The next clip of the reply, unless the server has gone meanwhile.
ClipIsFollowed(k) ==
  /\ OfClip /\ OnlyClip /\ playing[k].running /\ playing[k].more
  /\ \/ playing' = [playing EXCEPT ![k] = Clip("clip", FALSE)] /\ UNCHANGED motionBusy
     \/ playing' = RemoveAt(playing, k) /\ motionBusy' = FALSE

\* The last clip is over.  The face is followed for a while after a greeting.
ClipEnds(k) ==
  /\ OfClip /\ playing[k].running /\ ~playing[k].more
  /\ playing' = RemoveAt(playing, k) /\ motionBusy' = FALSE
  /\ IF playing[k].motion # "greeting" THEN OnlyClip
     ELSE /\ Room
          /\ gaze' = (gaze \/ ~away) /\ arbGaze' = gaze'
          /\ Ask(IF away \/ gazing THEN <<>>
                 ELSE <<FollowRequest(TRUE, epoch, FALSE)>>)
          /\ UNCHANGED <<present, away, absent, returning, greetTimer>>

ClipStep(k) ==
  \/ ClipAccepted(k) \/ ClipRefused(k) \/ ClipFails(k)
  \/ ClipIsFollowed(k) \/ ClipEnds(k)

-----------------------------------------------------------------------------
(* What the user says to the lamp: the task light, and everything else.    *)
(* The words follow a wake word by less than the wait for the away pose.   *)

AskForBook ==
  /\ Ready /\ answered # {} /\ ~away
  /\ ~HoldsHead /\ s1State' = "pending"
  /\ AskNothing
  /\ UNCHANGED <<aimDone, turnVars, soundVars, awayVars, moveVars, centers, arbBusy, step>>

\* "Enough", or any other request while the book is lit.
ReleaseBook ==
  /\ Ready /\ answered # {} /\ ~away /\ s1State # "idle"
  /\ s1State' = "idle" /\ aimDone' = FALSE
  /\ Ask(IF HoldsHead THEN <<AimRequest(FALSE)>> ELSE <<>>)
  /\ UNCHANGED <<turnVars, soundVars, awayVars, moveVars, centers, arbBusy, step>>

\* The vision node tells how far its aim is; only S1's aim asks for it.
VisionStatus ==
  /\ Ready /\ s1State = "aiming"
  /\ aimDone' = (aiming /\ centred) /\ aimDone' # aimDone
  /\ AskNothing
  /\ UNCHANGED <<s1State, turnVars, soundVars, awayVars, moveVars, centers, arbBusy, step>>

\* The reply of the language model asks for one or two clips.
Cognition(fault) ==
  /\ Ready /\ answered # {} /\ MayPlay(fault) /\ ~motionBusy
  /\ \E more \in BOOLEAN : Play("clip", more)
  /\ AskNothing
  /\ UNCHANGED <<pendingReact, turnVars, soundVars, awayVars, bookVars, centers,
                 arbBusy, step>>

-----------------------------------------------------------------------------
(* The goals of return_center.  The bridge refuses every cancellation, so  *)
(* a goal that is let go of keeps running.                                 *)

CenterAccepted(k) ==
  /\ step = "idle" /\ ~centers[k].running
  /\ \/ centers' = RemoveAt(centers, k)
     \/ centers' = [c \in DOMAIN centers |->
          IF c = k THEN [centers[k] EXCEPT !.running = TRUE,
                                           !.handle = @ \/ centers[k].epoch = epoch]
          ELSE [centers[c] EXCEPT !.handle = @ /\ centers[k].epoch # epoch]]
  /\ AskNothing
  /\ UNCHANGED <<turnVars, soundVars, awayVars, bookVars, moveVars, arbBusy, step>>

CenterFinished(k) ==
  /\ step = "idle" /\ centers[k].running /\ centers' = RemoveAt(centers, k)
  /\ AskNothing
  /\ UNCHANGED <<turnVars, soundVars, awayVars, bookVars, moveVars, arbBusy, step>>

-----------------------------------------------------------------------------
(* The tick of one second.                                                 *)

\* Fault: the head is pulled back in the middle of a motion.
UndoDuringMotion(fault) ==
  /\ soundId # NoId /\ soundId' = NoId
  /\ IF Owner(fault, NoId) = "idle" THEN SendCenter(Use) ELSE UNCHANGED centers
  /\ AskNothing /\ UNCHANGED turnVars

(* A turn towards a sound that no wake word followed is undone after six   *)
(* seconds, unless a motion plays or somebody else has the head.           *)
UndoSoundTurn(fault) ==
  /\ soundId # NoId /\ ~motionBusy /\ soundId' = NoId
  /\ IF Owner(fault, NoId) = "idle" THEN SendCenter(Use) ELSE UNCHANGED centers
  /\ AskNothing /\ UNCHANGED turnVars

\* A turn without a voice event for a minute is closed.
CloseSilentTurn == EndTurn(FALSE) /\ UNCHANGED soundId

\* A part of the tick that has nothing to do is passed over.
AfterLight == IF pendingReact THEN "react" ELSE "leave"

TickSound ==
  /\ Ready /\ arbBusy' = motionBusy
  /\ step' = IF s1State \in {"pending", "aiming"} THEN "light" ELSE AfterLight
  /\ \/ \E fault \in BOOLEAN : UndoSoundTurn(fault)
     \/ CloseSilentTurn
     \/ UNCHANGED <<soundId, centers, turnVars>> /\ AskNothing
  /\ UNCHANGED <<answered, awayVars, bookVars, moveVars>>

\* s1.tick() has nothing to tell.
BookStays ==
  /\ ~(s1State = "pending" /\ ~Conversation /\ ~motionBusy)
  /\ ~(s1State = "aiming" /\ aimDone)
  /\ UNCHANGED <<bookVars, moveVars>> /\ AskNothing

BookStarts ==
  /\ s1State = "pending" /\ ~Conversation /\ ~motionBusy
  /\ s1State' = "aiming" /\ aimDone' = FALSE
  /\ Ask(<<AimRequest(TRUE)>>) /\ UNCHANGED moveVars

BookIsLit ==
  /\ s1State = "aiming" /\ aimDone /\ s1State' = "lit" /\ aimDone' = FALSE
  /\ AskNothing /\ UNCHANGED moveVars

(* The book was not found in time.  The arbiter learns that the head is    *)
(* free only after the reaction has been asked for.                        *)
BookGivesUp ==
  /\ s1State = "aiming" /\ ~aimDone /\ s1State' = "idle"
  /\ Ask(<<AimRequest(FALSE)>>)
  /\ \E fault \in BOOLEAN : React(fault, TRUE)
  /\ UNCHANGED aimDone

TickLight ==
  /\ step = "light"
  /\ BookStays \/ BookStarts \/ BookIsLit \/ BookGivesUp
  /\ step' = IF pendingReact' THEN "react" ELSE "leave"
  /\ UNCHANGED <<turnVars, soundVars, awayVars, arbBusy, centers>>

\* A reaction that waits plays, waits on, or has waited too long.
TickReact ==
  /\ step = "react" /\ step' = "leave"
  /\ \E fault, wait \in BOOLEAN : React(fault, wait)
  /\ AskNothing
  /\ UNCHANGED <<turnVars, soundVars, awayVars, bookVars, arbBusy, centers>>

\* The away pose ends when the face has been seen for two seconds.
ComeBack ==
  /\ away /\ UNCHANGED <<present, absent, gaze>> /\ arbGaze' = gaze
  /\ AskNothing
  /\ \/ returning /\ returning' = FALSE /\ away' = FALSE /\ greetTimer' = TRUE
     \/ UNCHANGED <<returning, away, greetTimer>>

\* Fault: only a motion keeps the user at the desk.
TakenByMotion(fault) == arbBusy

\* Not may_leave(): somebody or something has the head.
Taken(fault) == Owner(fault, soundId) # "idle" \/ arbBusy

(* The wait for the away pose starts over while anything else has the      *)
(* head; it takes at least one free tick.  The gaze may run out before.    *)
Leave ==
  LET counting == absent # "no" \/ ~present
      off      == <<FollowRequest(FALSE, epoch, FALSE)>> IN
  /\ ~away /\ UNCHANGED <<present, returning>>
  /\ \E busy \in {Taken(fault) : fault \in BOOLEAN}, over, long \in BOOLEAN :
       /\ over => gaze
       /\ long => absent = "old" /\ ~busy
       /\ away' = long
       /\ absent' = IF long \/ ~counting THEN "no"
                    ELSE IF busy \/ absent = "no" THEN "fresh" ELSE "old"
       /\ gaze' = (gaze /\ ~over /\ ~long) /\ arbGaze' = gaze'
       /\ greetTimer' = (greetTimer /\ ~long)
       /\ Ask((IF over /\ ~gazing THEN off ELSE <<>>)
              \o IF long THEN off ELSE <<>>)

\* The copy of motion_busy is taken anew before it is read again.
TickLeave ==
  /\ step = "leave" /\ step' = "idle" /\ arbBusy' = FALSE
  /\ ComeBack \/ Leave
  /\ UNCHANGED <<turnVars, soundVars, bookVars, moveVars, centers>>

Tick == TickSound \/ TickLight \/ TickReact \/ TickLeave

-----------------------------------------------------------------------------
Voice ==
  \/ \E i \in Id : Wake(i)
  \/ \E i \in Id, s \in {"orienting", "aligned", "held", "failed"} : Orientation(i, s)
  \/ \E fault \in BOOLEAN : Speaking(fault) \/ Gesture(fault) \/ Cognition(fault)
  \/ Done \/ AskForBook \/ ReleaseBook

Answers ==
  \/ \E k \in DOMAIN asked : FollowAnswered(k)
  \/ \E k \in DOMAIN playing : ClipStep(k)
  \/ \E k \in DOMAIN centers : CenterAccepted(k) \/ CenterFinished(k)

\* No part of a tick reads what the vision node does meanwhile.
Vision ==
  /\ step = "idle" /\ VisionStep
  /\ UNCHANGED <<turnVars, soundVars, awayVars, bookVars, moveVars, arbBusy,
                 centers, step>>

Next == Voice \/ Answers \/ Tick \/ PresenceChanges \/ VisionStatus \/ Greet \/ Vision

Spec == Init /\ [][Next]_vars
=============================================================================
