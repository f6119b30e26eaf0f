-------------------------- MODULE InteractionProofs --------------------------
(***************************************************************************)
(* Theorems of Interaction, for every number of utterances, requests and   *)
(* goals.  What is said of the requests and goals under way is said of     *)
(* their sets: no proof depends on their order.                            *)
(***************************************************************************)
EXTENDS InteractionProperties, SequenceTheorems, TLAPS

-----------------------------------------------------------------------------
(* Sequences as sets.                                                      *)

LEMMA EmptySet == ToSet(<<>>) = {}
  BY DEF ToSet

LEMMA OneSet ==
  ASSUME NEW S, NEW e \in S
  PROVE  <<e>> \in Seq(S) /\ ToSet(<<e>>) = {e} /\ Len(<<e>>) = 1
<1>1. <<e>> \in Seq(S) /\ Len(<<e>>) = 1 /\ DOMAIN <<e>> = {1} /\ <<e>>[1] = e
  OBVIOUS
<1> QED
  BY <1>1 DEF ToSet

LEMMA ConcatSet ==
  ASSUME NEW S, NEW s \in Seq(S), NEW t \in Seq(S)
  PROVE  s \o t \in Seq(S) /\ ToSet(s \o t) = ToSet(s) \cup ToSet(t)
<1>1. /\ s \o t \in Seq(S) /\ DOMAIN (s \o t) = 1 .. Len(s) + Len(t)
      /\ \A i \in 1 .. Len(s) + Len(t) :
           (s \o t)[i] = IF i <= Len(s) THEN s[i] ELSE t[i - Len(s)]
  BY ConcatProperties, LenProperties
<1>2. /\ Len(s) \in Nat /\ DOMAIN s = 1 .. Len(s)
      /\ Len(t) \in Nat /\ DOMAIN t = 1 .. Len(t)
  BY LenProperties
<1>3. ToSet(s \o t) \subseteq ToSet(s) \cup ToSet(t)
  BY <1>1, <1>2 DEF ToSet
<1>4. ToSet(s) \subseteq ToSet(s \o t)
  BY <1>1, <1>2 DEF ToSet
<1>5. ASSUME NEW j \in DOMAIN t
      PROVE  t[j] \in ToSet(s \o t)
  <2>1. j + Len(s) \in DOMAIN (s \o t) /\ (s \o t)[j + Len(s)] = t[j]
    BY <1>1, <1>2
  <2> QED
    BY <2>1 DEF ToSet
<1> QED
  BY <1>1, <1>3, <1>4, <1>5 DEF ToSet

LEMMA AppendSet ==
  ASSUME NEW S, NEW s \in Seq(S), NEW e \in S
  PROVE  Append(s, e) \in Seq(S) /\ ToSet(Append(s, e)) = ToSet(s) \cup {e}
<1>1. Append(s, e) = s \o <<e>>
  BY AppendIsConcat
<1>2. <<e>> \in Seq(S) /\ ToSet(<<e>>) = {e}
  BY OneSet
<1>3. s \o <<e>> \in Seq(S) /\ ToSet(s \o <<e>>) = ToSet(s) \cup ToSet(<<e>>)
  BY <1>2, ConcatSet
<1> QED
  BY <1>1, <1>2, <1>3

LEMMA RemoveAtSet ==
  ASSUME NEW S, NEW s \in Seq(S), NEW k \in DOMAIN s
  PROVE  /\ RemoveAt(s, k) \in Seq(S)
         /\ Len(RemoveAt(s, k)) = Len(s) - 1
         /\ ToSet(RemoveAt(s, k)) \subseteq ToSet(s)
         /\ ToSet(s) \subseteq ToSet(RemoveAt(s, k)) \cup {s[k]}
<1> DEFINE a == SubSeq(s, 1, k - 1)
           b == SubSeq(s, k + 1, Len(s))
<1>1. Len(s) \in Nat /\ DOMAIN s = 1 .. Len(s) /\ k \in 1 .. Len(s)
  BY LenProperties
<1>2. \A i \in 1 .. Len(s) : s[i] \in S
  BY ElementOfSeq
<1>3. /\ a \in Seq(S) /\ Len(a) = k - 1
      /\ \A i \in 1 .. k - 1 : a[i] = s[i]
  <2>1. \A i \in 1 .. k - 1 : s[i] \in S
    BY <1>1, <1>2
  <2>2. /\ a \in Seq(S) /\ Len(a) = IF 1 <= k - 1 THEN (k - 1) - 1 + 1 ELSE 0
        /\ \A i \in 1 .. (k - 1) - 1 + 1 : a[i] = s[1 + i - 1]
    BY <1>1, <2>1, SubSeqProperties
  <2> QED
    BY <1>1, <2>2
<1>4. /\ b \in Seq(S) /\ Len(b) = Len(s) - k
      /\ \A i \in 1 .. Len(s) - k : b[i] = s[k + i]
  <2>1. \A i \in k + 1 .. Len(s) : s[i] \in S
    BY <1>1, <1>2
  <2>2. /\ b \in Seq(S)
        /\ Len(b) = IF k + 1 <= Len(s) THEN Len(s) - (k + 1) + 1 ELSE 0
        /\ \A i \in 1 .. Len(s) - (k + 1) + 1 : b[i] = s[(k + 1) + i - 1]
    BY <1>1, <2>1, SubSeqProperties
  <2> QED
    BY <1>1, <2>2
<1>5. RemoveAt(s, k) = a \o b
  BY DEF RemoveAt
<1> HIDE DEF a, b
<1>6. DOMAIN a = 1 .. k - 1 /\ DOMAIN b = 1 .. Len(s) - k
  BY <1>3, <1>4, LenProperties
<1>7. a \o b \in Seq(S) /\ Len(a \o b) = Len(s) - 1
  <2>1. a \o b \in Seq(S) /\ Len(a \o b) = Len(a) + Len(b)
    BY <1>3, <1>4, ConcatProperties
  <2> QED
    BY <2>1, <1>1, <1>3, <1>4
<1>8. ToSet(a \o b) = ToSet(a) \cup ToSet(b)
  BY <1>3, <1>4, ConcatSet
<1>9. ToSet(a) \subseteq ToSet(s) /\ ToSet(b) \subseteq ToSet(s)
  <2>1. \A i \in DOMAIN a : i \in DOMAIN s /\ a[i] = s[i]
    BY <1>1, <1>3, <1>6
  <2>2. \A i \in DOMAIN b : k + i \in DOMAIN s /\ b[i] = s[k + i]
    BY <1>1, <1>4, <1>6
  <2> QED
    BY <2>1, <2>2 DEF ToSet
<1>10. ASSUME NEW i \in DOMAIN s, i # k
       PROVE  s[i] \in ToSet(a) \cup ToSet(b)
  <2>1. CASE i < k
    <3>1. i \in DOMAIN a /\ a[i] = s[i]
      BY <1>1, <1>3, <1>6, <2>1
    <3> QED
      BY <3>1 DEF ToSet
  <2>2. CASE i > k
    <3>1. i - k \in DOMAIN b /\ b[i - k] = s[i]
      BY <1>1, <1>4, <1>6, <2>2
    <3> QED
      BY <3>1 DEF ToSet
  <2> QED
    BY <1>1, <1>10, <2>1, <2>2
<1>11. ToSet(s) \subseteq ToSet(a \o b) \cup {s[k]}
  BY <1>8, <1>10 DEF ToSet
<1> QED
  BY <1>5, <1>7, <1>8, <1>9, <1>11

-----------------------------------------------------------------------------
(* Types.                                                                  *)

Clips == [motion : {"greeting", "clip"}, more : BOOLEAN, running : BOOLEAN]

Goal == [epoch : Epoch, running : BOOLEAN, handle : BOOLEAN,
         over : {"turn", "book", "free"}]

LEMMA Constants ==
  /\ MaxSpeech \in Nat /\ NoId \notin Id /\ NoId \in Int /\ 0 \in Epoch
  /\ Id \subseteq Epoch /\ Epoch \subseteq Int
  BY InteractionAssumption DEF Id, NoId, Epoch

LEMMA RequestType ==
  ASSUME NEW e \in Epoch, NEW on \in BOOLEAN, NEW after \in BOOLEAN
  PROVE  /\ FollowRequest(on, e, after) \in Request(Epoch)
         /\ AimRequest(on) \in Request(Epoch)
  BY Constants DEF FollowRequest, AimRequest, Request

LEMMA AskType ==
  ASSUME VisionTypeOK(Epoch), NEW q \in Seq(Request(Epoch)), Ask(q)
  PROVE  /\ VisionTypeOK(Epoch)'
         /\ ToSet(asked') = IF visionUp THEN ToSet(asked) \cup ToSet(q) ELSE ToSet(asked)
<1>1. asked \o q \in Seq(Request(Epoch)) /\ ToSet(asked \o q) = ToSet(asked) \cup ToSet(q)
  BY ConcatSet DEF VisionTypeOK
<1> QED
  BY <1>1 DEF VisionTypeOK, Ask

LEMMA PlayType ==
  ASSUME playing \in Seq(Clips), motionBusy \in BOOLEAN,
         NEW m \in {"greeting", "clip"}, NEW more \in BOOLEAN, Play(m, more)
  PROVE  playing' \in Seq(Clips) /\ motionBusy' \in BOOLEAN
<1>1. Append(playing, Clip(m, more)) \in Seq(Clips)
  BY AppendSet DEF Clip, Clips
<1> QED
  BY <1>1 DEF Play

LEMMA ReactType ==
  ASSUME playing \in Seq(Clips), motionBusy \in BOOLEAN,
         NEW fault \in BOOLEAN, NEW wait \in BOOLEAN, React(fault, wait)
  PROVE  /\ playing' \in Seq(Clips)
         /\ motionBusy' \in BOOLEAN /\ pendingReact' \in BOOLEAN
<1>1. Play("clip", FALSE) => playing' \in Seq(Clips) /\ motionBusy' \in BOOLEAN
  BY PlayType
<1> QED
  BY <1>1 DEF React

\* What a callback of a clip leaves alone, and what a greeting adds.
LEMMA ClipShape ==
  ASSUME NEW k, ClipStep(k)
  PROVE  /\ step = "idle"
         /\ UNCHANGED <<turnVars, soundVars, bookVars, pendingReact, centers, arbBusy, step>>
         /\ \/ AskNothing /\ UNCHANGED awayVars
            \/ /\ gaze' = (gaze \/ ~away) /\ arbGaze' = gaze'
               /\ Ask(IF away \/ gazing THEN <<>>
                      ELSE <<FollowRequest(TRUE, epoch, FALSE)>>)
               /\ UNCHANGED <<present, away, absent, returning, greetTimer>>
  BY DEF ClipStep, ClipAccepted, ClipRefused, ClipFails, ClipIsFollowed, ClipEnds,
         OfClip, OnlyClip

\* A clip is released with the node, or goes on with the node busy as before.
LEMMA ClipReleases ==
  ASSUME playing \in Seq(Clips), motionBusy \in BOOLEAN,
         NEW k \in DOMAIN playing, ClipStep(k)
  PROVE  /\ playing' \in Seq(Clips) /\ motionBusy' \in BOOLEAN
         /\ \/ motionBusy' = FALSE /\ Len(playing') = Len(playing) - 1
            \/ UNCHANGED motionBusy /\ Len(playing') = Len(playing)
<1>0. /\ RemoveAt(playing, k) \in Seq(Clips)
      /\ Len(RemoveAt(playing, k)) = Len(playing) - 1
  BY RemoveAtSet
<1>1. ASSUME NEW c \in Clips
      PROVE  /\ [playing EXCEPT ![k] = c] \in Seq(Clips)
             /\ Len([playing EXCEPT ![k] = c]) = Len(playing)
  BY <1>1, ExceptSeq, LenProperties
<1>2. /\ [playing EXCEPT ![k].running = TRUE]
           = [playing EXCEPT ![k] = [playing[k] EXCEPT !.running = TRUE]]
      /\ [playing[k] EXCEPT !.running = TRUE] \in Clips
      /\ Clip("clip", FALSE) \in Clips
  <2>1. playing[k] \in Clips
    BY ElementOfSeq, LenProperties
  <2> QED
    BY <2>1 DEF Clips, Clip
<1>3. CASE motionBusy' = FALSE /\ playing' = RemoveAt(playing, k)
  BY <1>0, <1>3
<1>4. CASE \E c \in Clips : playing' = [playing EXCEPT ![k] = c] /\ UNCHANGED motionBusy
  BY <1>1, <1>4
<1> QED
  BY <1>2, <1>3, <1>4
  DEF ClipStep, ClipAccepted, ClipRefused, ClipFails, ClipIsFollowed, ClipEnds

LEMMA SendCenterType ==
  ASSUME centers \in Seq(Goal), epoch \in Epoch,
         NEW use \in {"turn", "book", "free"}, SendCenter(use)
  PROVE  /\ centers' \in Seq(Goal)
         /\ \A c \in ToSet(centers') : c \in ToSet(centers) \/ c.over = use
<1> DEFINE g == [epoch |-> epoch, running |-> FALSE, handle |-> FALSE, over |-> use]
<1>1. g \in Goal /\ g.over = use
  BY DEF Goal
<1>a. SendCenter(use) <=> centers' = Append(centers, g) \/ UNCHANGED centers
  BY DEF SendCenter
<1> HIDE DEF g
<1>2. Append(centers, g) \in Seq(Goal) /\ ToSet(Append(centers, g)) = ToSet(centers) \cup {g}
  BY <1>1, AppendSet
<1> QED
  BY <1>1, <1>2, <1>a

LEMMA UseType == Use \in {"turn", "book", "free"}
  BY DEF Use

(* Each new turn has an utterance of its own, which the turn counter never *)
(* overtakes.                                                              *)
EpochIsSpoken == epoch = 0 \/ \E j \in answered : epoch <= j

TypeInv == TypeOK /\ EpochIsSpoken

LEMMA TypeInit == Init => TypeInv
<1> SUFFICES ASSUME Init PROVE TypeInv
  OBVIOUS
<1>1. VisionTypeOK(Epoch)
  BY Constants, EmptySeq DEF Init, VisionInit, VisionTypeOK
<1>2. <<>> \in Seq(Clips) /\ <<>> \in Seq(Goal)
  BY EmptySeq
<1> QED
  BY <1>1, <1>2, Constants DEF Init, TypeInv, TypeOK, EpochIsSpoken, Clips, Goal

\* What a callback does to the turn, to the goals and to the requests.
LEMMA EndTurnType ==
  ASSUME TypeInv, NEW cancelled \in BOOLEAN, EndTurn(cancelled)
  PROVE  /\ VisionTypeOK(Epoch)' /\ centers' \in Seq(Goal)
         /\ epoch' = epoch /\ activeId' = NoId
         /\ moved' = FALSE /\ gazing' = FALSE /\ wanted' = NoTurn
         /\ oriented' \in [Id -> {"none", "orienting", "aligned", "failed"}]
<1> DEFINE rest == ~cancelled /\ ~HoldsHead
           q == IF gazing /\ ~HoldsHead THEN <<FollowRequest(FALSE, epoch, rest)>> ELSE <<>>
<1>1. q \in Seq(Request(Epoch))
  <2>1. FollowRequest(FALSE, epoch, rest) \in Request(Epoch)
    BY RequestType DEF TypeInv, TypeOK
  <2> QED
    BY <2>1, OneSet, EmptySeq
<1>2. Ask(q)
  BY DEF EndTurn
<1>3. VisionTypeOK(Epoch)'
  BY <1>1, <1>2, AskType DEF TypeInv, TypeOK
<1>4. centers' \in Seq(Goal)
  <2>1. centers \in Seq(Goal) /\ epoch \in Epoch
    BY DEF TypeInv, TypeOK, Goal
  <2>2. SendCenter("free") \/ UNCHANGED centers
    BY DEF EndTurn
  <2> QED
    BY <2>1, <2>2, SendCenterType
<1> QED
  BY <1>3, <1>4 DEF EndTurn, Forget, TypeInv, TypeOK

LEMMA UndoType ==
  ASSUME TypeInv, NEW fault \in BOOLEAN, UndoSoundTurn(fault)
  PROVE  centers' \in Seq(Goal) /\ soundId' = NoId
<1>1. centers \in Seq(Goal) /\ epoch \in Epoch
  BY DEF TypeInv, TypeOK, Goal
<1> QED
  BY <1>1, SendCenterType, UseType DEF UndoSoundTurn

LEMMA VisionKept ==
  ASSUME VisionTypeOK(Epoch), UNCHANGED visionVars
  PROVE  VisionTypeOK(Epoch)'
  BY DEF visionVars, VisionTypeOK

LEMMA VisionStepType ==
  ASSUME VisionTypeOK(Epoch), VisionStep
  PROVE  VisionTypeOK(Epoch)'
<1>1. CASE VisionStarts
  BY <1>1 DEF VisionStarts, VisionTypeOK
<1>2. CASE CentreBook
  BY <1>2 DEF CentreBook, VisionTypeOK
<1>3. ASSUME NEW k \in DOMAIN asked, ServeFollow(k)
      PROVE  VisionTypeOK(Epoch)'
  <2>1. asked[k] \in Request(Epoch) /\ k \in 1 .. Len(asked)
    BY ElementOfSeq, LenProperties DEF VisionTypeOK
  <2>2. [asked[k] EXCEPT !.at = "answered"] \in Request(Epoch)
    BY <2>1 DEF Request
  <2>3. asked' = [asked EXCEPT ![k] = [asked[k] EXCEPT !.at = "answered"]]
    BY <1>3 DEF ServeFollow
  <2>4. asked' \in Seq(Request(Epoch))
    BY <2>1, <2>2, <2>3, ExceptSeq DEF VisionTypeOK
  <2>5. asked[k].on \in BOOLEAN /\ asked[k].epoch \in Epoch
    BY <2>1 DEF Request
  <2> QED
    BY <1>3, <2>4, <2>5 DEF ServeFollow, VisionTypeOK
<1>4. ASSUME NEW k \in DOMAIN asked, ServeAim(k)
      PROVE  VisionTypeOK(Epoch)'
  <2>1. asked[k] \in Request(Epoch)
    BY ElementOfSeq, LenProperties DEF VisionTypeOK
  <2>2. asked' \in Seq(Request(Epoch))
    BY <1>4, RemoveAtSet DEF ServeAim, VisionTypeOK
  <2>3. asked[k].on \in BOOLEAN
    BY <2>1 DEF Request
  <2> QED
    BY <1>4, <2>2, <2>3 DEF ServeAim, VisionTypeOK
<1> QED
  BY <1>1, <1>2, <1>3, <1>4 DEF VisionStep

\* The turn, the sound and the goals of a wake word.
LEMMA WakeType ==
  ASSUME TypeInv, NEW i \in Id, Wake(i)
  PROVE  TypeInv'
<1> DEFINE new == NewTurn(i)
           e   == IF new THEN epoch + 1 ELSE epoch
           on  == oriented[i] = "aligned" /\ ~gazing
           off == ~away /\ gaze /\ ~gazing /\ ~on
           q1  == IF off THEN <<FollowRequest(FALSE, e, FALSE)>> ELSE <<>>
           q2  == IF on /\ ~HoldsHead THEN <<FollowRequest(TRUE, e, FALSE)>> ELSE <<>>
           let(k) == [centers[k] EXCEPT !.handle = @ /\ ~new]
<1>1. epoch' = e /\ ((e \in Epoch /\ e <= i) \/ e = epoch)
  <2>1. epoch' = e
    BY DEF Wake
  <2>2. CASE new
    <3>1. \A j \in answered : i > j
      BY <2>2 DEF Wake, NewTurn
    <3>2. epoch \in Int /\ i \in Int /\ answered \subseteq Int /\ epoch < i
      BY <3>1, Constants DEF TypeInv, TypeOK, EpochIsSpoken, Id, Epoch
    <3>3. epoch + 1 \in Epoch /\ epoch + 1 <= i
      BY <3>2, Constants DEF Id, Epoch, TypeInv, TypeOK
    <3> QED
      BY <2>1, <2>2, <3>3
  <2> QED
    BY <2>1, <2>2
<1>2. e \in Epoch
  BY <1>1 DEF TypeInv, TypeOK
<1>3. EpochIsSpoken'
  BY <1>1 DEF Wake, EpochIsSpoken, TypeInv, TypeOK
<1>4. q1 \in Seq(Request(Epoch)) /\ q2 \in Seq(Request(Epoch))
  <2>1. /\ FollowRequest(FALSE, e, FALSE) \in Request(Epoch)
        /\ FollowRequest(TRUE, e, FALSE) \in Request(Epoch)
    BY <1>2, RequestType
  <2> QED
    BY <2>1, OneSet, EmptySeq
<1>5. VisionTypeOK(Epoch)'
  <2>1. Ask(q1 \o q2)
    BY DEF Wake
  <2>2. q1 \o q2 \in Seq(Request(Epoch))
    BY <1>4, ConcatSet
  <2> QED
    BY <2>1, <2>2, AskType DEF TypeInv, TypeOK
<1>6. centers' \in Seq(Goal)
  <2>1. centers' = [k \in DOMAIN centers |-> let(k)]
    BY DEF Wake
  <2>2. centers \in Seq(Goal) /\ Len(centers) \in Nat /\ DOMAIN centers = 1 .. Len(centers)
    BY LenProperties DEF TypeInv, TypeOK, Goal
  <2>3. ASSUME NEW k \in 1 .. Len(centers)
        PROVE  let(k) \in Goal
    <3>1. centers[k] \in Goal
      BY <2>2, ElementOfSeq
    <3>2. (centers[k].handle /\ ~new) \in BOOLEAN
      OBVIOUS
    <3> QED
      BY <3>1, <3>2 DEF Goal
  <2> HIDE DEF let
  <2> QED
    BY <2>1, <2>2, <2>3
<1>7. oriented' \in [Id -> {"none", "orienting", "aligned", "failed"}]
  BY DEF Wake, Forget, TypeInv, TypeOK
<1> HIDE DEF new, e, on, off
<1>8. wanted' \in Epoch \cup {NoTurn} /\ epoch' \in Epoch
  BY <1>1, <1>2 DEF Wake, TypeInv, TypeOK, e, on, new
<1> QED
  BY <1>3, <1>5, <1>6, <1>7, <1>8 DEF Wake, TypeInv, TypeOK, moveVars, bookVars, Goal

LEMMA OrientationType ==
  ASSUME TypeInv, NEW i \in Id,
         NEW state \in {"orienting", "aligned", "held", "failed"}, Orientation(i, state)
  PROVE  TypeInv'
<1> DEFINE on == i = activeId /\ state \in {"aligned", "held"} /\ ~gazing
           q  == IF on /\ ~HoldsHead THEN <<FollowRequest(TRUE, epoch, FALSE)>> ELSE <<>>
<1>1. q \in Seq(Request(Epoch))
  <2>1. FollowRequest(TRUE, epoch, FALSE) \in Request(Epoch)
    BY RequestType DEF TypeInv, TypeOK
  <2> QED
    BY <2>1, OneSet, EmptySeq
<1>2. VisionTypeOK(Epoch)'
  <2>1. Ask(q)
    BY DEF Orientation
  <2> QED
    BY <2>1, <1>1, AskType DEF TypeInv, TypeOK
<1>3. oriented' \in [Id -> {"none", "orienting", "aligned", "failed"}]
  BY DEF Orientation, TypeInv, TypeOK
<1>4. wanted' \in Epoch \cup {NoTurn} /\ gazing' \in BOOLEAN
  BY DEF Orientation, TypeInv, TypeOK
<1> QED
  BY <1>2, <1>3, <1>4
  DEF Orientation, TypeInv, TypeOK, EpochIsSpoken, awayVars, bookVars, moveVars

LEMMA VoiceType ==
  ASSUME TypeInv, Voice
  PROVE  TypeInv'
<1>0. /\ VisionTypeOK(Epoch) /\ playing \in Seq(Clips)
      /\ motionBusy \in BOOLEAN /\ pendingReact \in BOOLEAN
  BY DEF TypeInv, TypeOK, Clips
<1>1. ASSUME NEW i \in Id, Wake(i) PROVE TypeInv'
  BY <1>1, WakeType
<1>2. ASSUME NEW i \in Id, NEW s \in {"orienting", "aligned", "held", "failed"},
             Orientation(i, s)
      PROVE  TypeInv'
  BY <1>2, OrientationType
<1>3. ASSUME NEW fault \in BOOLEAN, Speaking(fault) PROVE TypeInv'
  <2>1. playing' \in Seq(Clips) /\ motionBusy' \in BOOLEAN /\ pendingReact' \in BOOLEAN
    BY <1>0, <1>3, ReactType DEF Speaking
  <2>2. VisionTypeOK(Epoch)'
    BY <1>0, <1>3, VisionKept DEF Speaking, AskNothing
  <2> QED
    BY <1>3, <2>1, <2>2
    DEF Speaking, TypeInv, TypeOK, EpochIsSpoken, soundVars, awayVars, bookVars, Clips
<1>4. ASSUME NEW fault \in BOOLEAN, Gesture(fault) PROVE TypeInv'
  <2>1. playing' \in Seq(Clips) /\ motionBusy' \in BOOLEAN /\ pendingReact' \in BOOLEAN
    BY <1>0, <1>4, ReactType DEF Gesture
  <2>2. VisionTypeOK(Epoch)'
    BY <1>0, <1>4, VisionKept DEF Gesture, AskNothing
  <2> QED
    BY <1>4, <2>1, <2>2
    DEF Gesture, TypeInv, TypeOK, EpochIsSpoken, soundVars, awayVars, bookVars, Clips
<1>5. ASSUME NEW fault \in BOOLEAN, Cognition(fault) PROVE TypeInv'
  <2>1. playing' \in Seq(Clips) /\ motionBusy' \in BOOLEAN
    BY <1>0, <1>5, PlayType DEF Cognition
  <2>2. VisionTypeOK(Epoch)'
    BY <1>0, <1>5, VisionKept DEF Cognition, AskNothing
  <2> QED
    BY <1>5, <2>1, <2>2
    DEF Cognition, TypeInv, TypeOK, EpochIsSpoken, turnVars, soundVars, awayVars,
        bookVars, Clips
<1>6. ASSUME Done PROVE TypeInv'
  <2>1. PICK cancelled \in BOOLEAN : EndTurn(cancelled)
    BY <1>6 DEF Done
  <2> QED
    BY <1>6, <2>1, EndTurnType
    DEF Done, TypeInv, TypeOK, EpochIsSpoken, soundVars, awayVars, bookVars, moveVars, Goal
<1>7. ASSUME AskForBook PROVE TypeInv'
  <2>1. VisionTypeOK(Epoch)'
    BY <1>0, <1>7, VisionKept DEF AskForBook, AskNothing
  <2> QED
    BY <1>7, <2>1
    DEF AskForBook, TypeInv, TypeOK, EpochIsSpoken, turnVars, soundVars, awayVars, moveVars
<1>8. ASSUME ReleaseBook PROVE TypeInv'
  <2> DEFINE q == IF HoldsHead THEN <<AimRequest(FALSE)>> ELSE <<>>
  <2>1. q \in Seq(Request(Epoch))
    <3>1. AimRequest(FALSE) \in Request(Epoch)
      BY RequestType, Constants
    <3> QED
      BY <3>1, OneSet, EmptySeq
  <2>2. Ask(q)
    BY <1>8 DEF ReleaseBook
  <2>3. VisionTypeOK(Epoch)'
    BY <1>0, <2>1, <2>2, AskType
  <2> QED
    BY <1>8, <2>3
    DEF ReleaseBook, TypeInv, TypeOK, EpochIsSpoken, turnVars, soundVars, awayVars, moveVars
<1> QED
  BY <1>1, <1>2, <1>3, <1>4, <1>5, <1>6, <1>7, <1>8 DEF Voice

LEMMA AnswersType ==
  ASSUME TypeInv, Answers
  PROVE  TypeInv'
<1>0. /\ VisionTypeOK(Epoch) /\ playing \in Seq(Clips) /\ centers \in Seq(Goal)
      /\ epoch \in Epoch /\ asked \in Seq(Request(Epoch)) /\ motionBusy \in BOOLEAN
      /\ FollowRequest(TRUE, epoch, FALSE) \in Request(Epoch)
  BY RequestType DEF TypeInv, TypeOK, Clips, Goal, VisionTypeOK
<1>1. ASSUME NEW k \in DOMAIN asked, FollowAnswered(k) PROVE TypeInv'
  <2> DEFINE r == asked[k]
             q == IF Repairs(r) THEN <<FollowRequest(TRUE, epoch, FALSE)>> ELSE <<>>
  <2>1. q \in Seq(Request(Epoch)) /\ RemoveAt(asked, k) \in Seq(Request(Epoch))
    BY <1>0, OneSet, EmptySeq, RemoveAtSet
  <2>2. asked' = RemoveAt(asked, k) \o q
    BY <1>1 DEF FollowAnswered
  <2> HIDE DEF q
  <2>3. asked' \in Seq(Request(Epoch))
    BY <2>1, <2>2, ConcatSet
  <2>4. centers' \in Seq(Goal)
    BY <1>0, <1>1, SendCenterType, UseType DEF FollowAnswered
  <2>5. VisionTypeOK(Epoch)'
    <3>1. UNCHANGED <<visionUp, following, aiming, centred, stopped>>
      BY <1>1 DEF FollowAnswered
    <3> QED
      BY <1>0, <2>3, <3>1 DEF VisionTypeOK
  <2>6. UNCHANGED <<turnVars, soundVars, awayVars, bookVars, moveVars, arbBusy, step>>
    BY <1>1 DEF FollowAnswered
  <2> QED
    BY <2>4, <2>5, <2>6
    DEF TypeInv, TypeOK, EpochIsSpoken, turnVars, soundVars,
        awayVars, bookVars, moveVars, Goal
<1>2. ASSUME NEW k \in DOMAIN playing, ClipStep(k) PROVE TypeInv'
  <2>1. playing' \in Seq(Clips) /\ motionBusy' \in BOOLEAN
    BY <1>0, <1>2, ClipReleases
  <2>2. VisionTypeOK(Epoch)'
    <3> DEFINE q == IF away \/ gazing THEN <<>> ELSE <<FollowRequest(TRUE, epoch, FALSE)>>
    <3>1. q \in Seq(Request(Epoch))
      BY <1>0, OneSet, EmptySeq
    <3>2. AskNothing \/ Ask(q)
      BY <1>2, ClipShape
    <3> HIDE DEF q
    <3> QED
      BY <1>0, <3>1, <3>2, AskType, VisionKept DEF AskNothing
  <2>3. {present, away, returning, gaze, greetTimer, arbGaze}' \subseteq BOOLEAN
        /\ absent' = absent
    BY <1>2, ClipShape DEF TypeInv, TypeOK, awayVars
  <2>4. UNCHANGED <<turnVars, soundVars, bookVars, pendingReact, centers, arbBusy, step>>
    BY <1>2, ClipShape
  <2> QED
    BY <2>1, <2>2, <2>3, <2>4
    DEF TypeInv, TypeOK, EpochIsSpoken, turnVars, soundVars, bookVars, Clips
<1>3. ASSUME NEW k \in DOMAIN centers, CenterAccepted(k) \/ CenterFinished(k)
      PROVE  TypeInv'
  <2> DEFINE taken(c) == IF c = k THEN [centers[k] EXCEPT !.running = TRUE,
                                           !.handle = @ \/ centers[k].epoch = epoch]
                         ELSE [centers[c] EXCEPT !.handle = @ /\ centers[k].epoch # epoch]
  <2>1. RemoveAt(centers, k) \in Seq(Goal)
    BY <1>0, RemoveAtSet
  <2>2. Len(centers) \in Nat /\ DOMAIN centers = 1 .. Len(centers)
    BY <1>0, LenProperties
  <2>3. ASSUME NEW c \in 1 .. Len(centers)
        PROVE  taken(c) \in Goal
    <3>1. centers[c] \in Goal /\ centers[k] \in Goal
      BY <1>0, <2>2, ElementOfSeq
    <3>2. /\ (centers[k].handle \/ centers[k].epoch = epoch) \in BOOLEAN
          /\ (centers[c].handle /\ centers[k].epoch # epoch) \in BOOLEAN
      OBVIOUS
    <3> QED
      BY <3>1, <3>2 DEF Goal
  <2>4. centers' = RemoveAt(centers, k) \/ centers' = [c \in DOMAIN centers |-> taken(c)]
    BY <1>3 DEF CenterAccepted, CenterFinished
  <2> HIDE DEF taken
  <2>5. centers' \in Seq(Goal)
    BY <2>1, <2>2, <2>3, <2>4
  <2>6. VisionTypeOK(Epoch)'
    BY <1>0, <1>3, VisionKept DEF CenterAccepted, CenterFinished, AskNothing
  <2> QED
    BY <1>3, <2>5, <2>6
    DEF CenterAccepted, CenterFinished, TypeInv, TypeOK, EpochIsSpoken, turnVars, soundVars,
        awayVars, bookVars, moveVars, Goal
<1> QED
  BY <1>1, <1>2, <1>3 DEF Answers

LEMMA TickType ==
  ASSUME TypeInv, Tick
  PROVE  TypeInv'
<1>0. /\ VisionTypeOK(Epoch) /\ playing \in Seq(Clips) /\ centers \in Seq(Goal)
      /\ motionBusy \in BOOLEAN /\ pendingReact \in BOOLEAN
      /\ epoch \in Epoch
  BY DEF TypeInv, TypeOK, Clips, Goal
<1>1. ASSUME TickSound PROVE TypeInv'
  <2>1. /\ UNCHANGED <<answered, awayVars, bookVars, moveVars>>
        /\ arbBusy' = motionBusy /\ step' \in {"idle", "light", "react", "leave"}
    BY <1>1 DEF TickSound, AfterLight
  <2>2. CASE UNCHANGED <<soundId, centers, turnVars>> /\ AskNothing
    <3>1. VisionTypeOK(Epoch)'
      BY <1>0, <2>2, VisionKept DEF AskNothing
    <3> QED
      BY <2>1, <2>2, <3>1
      DEF TypeInv, TypeOK, EpochIsSpoken, turnVars, awayVars, bookVars, moveVars
  <2>3. CASE CloseSilentTurn
    <3>1. /\ VisionTypeOK(Epoch)' /\ centers' \in Seq(Goal)
          /\ epoch' = epoch /\ activeId' = NoId
          /\ moved' = FALSE /\ gazing' = FALSE /\ wanted' = NoTurn
          /\ oriented' \in [Id -> {"none", "orienting", "aligned", "failed"}]
          /\ soundId' = soundId
      BY <2>3, EndTurnType DEF CloseSilentTurn
    <3> QED
      BY <2>1, <3>1
      DEF TypeInv, TypeOK, EpochIsSpoken, awayVars, bookVars, moveVars, Goal
  <2>4. ASSUME NEW fault \in BOOLEAN, UndoSoundTurn(fault)
        PROVE  TypeInv'
    <3>1. centers' \in Seq(Goal) /\ soundId' = NoId
      BY <2>4, UndoType
    <3>2. UNCHANGED visionVars /\ UNCHANGED turnVars
      BY <2>4 DEF UndoSoundTurn, AskNothing
    <3>3. VisionTypeOK(Epoch)'
      BY <1>0, <3>2, VisionKept
    <3> QED
      BY <2>1, <3>1, <3>2, <3>3
      DEF TypeInv, TypeOK, EpochIsSpoken, turnVars, awayVars, bookVars, moveVars, Goal
  <2> QED
    BY <1>1, <2>2, <2>3, <2>4 DEF TickSound
<1>2. ASSUME TickLight PROVE TypeInv'
  <2>1. /\ UNCHANGED <<turnVars, soundVars, awayVars, arbBusy, centers>>
        /\ step' \in {"react", "leave"}
    BY <1>2 DEF TickLight
  <2>2. /\ AimRequest(TRUE) \in Request(Epoch)
        /\ AimRequest(FALSE) \in Request(Epoch)
    BY RequestType, Constants
  <2>3. /\ <<AimRequest(TRUE)>> \in Seq(Request(Epoch))
        /\ <<AimRequest(FALSE)>> \in Seq(Request(Epoch))
    BY <2>2, OneSet
  <2>4. /\ VisionTypeOK(Epoch)' /\ playing' \in Seq(Clips)
        /\ motionBusy' \in BOOLEAN /\ pendingReact' \in BOOLEAN
        /\ s1State' \in {"idle", "pending", "aiming", "lit"} /\ aimDone' \in BOOLEAN
    <3>0. s1State \in {"idle", "pending", "aiming", "lit"} /\ aimDone \in BOOLEAN
      BY DEF TypeInv, TypeOK
    <3>1. CASE BookStays
      BY <1>0, <3>0, <3>1, VisionKept DEF BookStays, AskNothing, bookVars, moveVars
    <3>2. CASE BookStarts
      <4>1. VisionTypeOK(Epoch)'
        BY <1>0, <2>3, <3>2, AskType DEF BookStarts
      <4> QED
        BY <1>0, <3>2, <4>1 DEF BookStarts, moveVars
    <3>3. CASE BookIsLit
      <4>1. VisionTypeOK(Epoch)'
        BY <1>0, <3>3, VisionKept DEF BookIsLit, AskNothing
      <4> QED
        BY <1>0, <3>3, <4>1 DEF BookIsLit, moveVars
    <3>4. CASE BookGivesUp
      <4>1. VisionTypeOK(Epoch)'
        BY <1>0, <2>3, <3>4, AskType DEF BookGivesUp
      <4>2. PICK fault \in BOOLEAN : React(fault, TRUE)
        BY <3>4 DEF BookGivesUp
      <4>3. playing' \in Seq(Clips) /\ motionBusy' \in BOOLEAN /\ pendingReact' \in BOOLEAN
        BY <1>0, <4>2, ReactType
      <4> QED
        BY <3>0, <3>4, <4>1, <4>3 DEF BookGivesUp
    <3> QED
      BY <1>2, <3>1, <3>2, <3>3, <3>4 DEF TickLight
  <2> QED
    BY <2>1, <2>4
    DEF TypeInv, TypeOK, EpochIsSpoken, turnVars, soundVars, awayVars, Clips
<1>3. ASSUME TickReact PROVE TypeInv'
  <2>1. PICK fault \in BOOLEAN, wait \in BOOLEAN : React(fault, wait)
    BY <1>3 DEF TickReact
  <2>2. playing' \in Seq(Clips) /\ motionBusy' \in BOOLEAN /\ pendingReact' \in BOOLEAN
    BY <1>0, <2>1, ReactType
  <2>3. VisionTypeOK(Epoch)'
    BY <1>0, <1>3, VisionKept DEF TickReact, AskNothing
  <2>4. /\ UNCHANGED <<turnVars, soundVars, awayVars, bookVars, arbBusy, centers>>
        /\ step' = "leave"
    BY <1>3 DEF TickReact
  <2> QED
    BY <2>2, <2>3, <2>4
    DEF TypeInv, TypeOK, EpochIsSpoken, turnVars, soundVars, awayVars, bookVars, Clips
<1>4. ASSUME TickLeave PROVE TypeInv'
  <2>1. /\ UNCHANGED <<turnVars, soundVars, bookVars, moveVars, centers>>
        /\ step' = "idle" /\ arbBusy' = FALSE
    BY <1>4 DEF TickLeave
  <2>2. /\ {present, away, returning, gaze, greetTimer, arbGaze}' \subseteq BOOLEAN
        /\ absent' \in {"no", "fresh", "old"}
    <3>0. /\ {present, away, returning, gaze, greetTimer, arbGaze} \subseteq BOOLEAN
          /\ absent \in {"no", "fresh", "old"}
      BY DEF TypeInv, TypeOK
    <3>1. CASE ComeBack
      BY <3>0, <3>1 DEF ComeBack
    <3>2. CASE Leave
      BY <3>0, <3>2 DEF Leave
    <3> QED
      BY <1>4, <3>1, <3>2 DEF TickLeave
  <2>3. VisionTypeOK(Epoch)'
    <3>1. CASE ComeBack
      BY <1>0, <3>1, VisionKept DEF ComeBack, AskNothing
    <3>2. CASE Leave
      <4> DEFINE off == <<FollowRequest(FALSE, epoch, FALSE)>>
                 q(over, long) == (IF over /\ ~gazing THEN off ELSE <<>>)
                                  \o IF long THEN off ELSE <<>>
      <4>1. PICK over \in BOOLEAN, long \in BOOLEAN : Ask(q(over, long))
        BY <3>2 DEF Leave
      <4>2. off \in Seq(Request(Epoch)) /\ <<>> \in Seq(Request(Epoch))
        BY <1>0, RequestType, OneSet, EmptySeq
      <4> HIDE DEF off
      <4>3. q(over, long) \in Seq(Request(Epoch))
        BY <4>2, ConcatSet
      <4> HIDE DEF q
      <4> QED
        BY <1>0, <4>1, <4>3, AskType
    <3> QED
      BY <1>4, <3>1, <3>2 DEF TickLeave
  <2> QED
    BY <2>1, <2>2, <2>3
    DEF TypeInv, TypeOK, EpochIsSpoken, turnVars, soundVars, bookVars, moveVars
<1> QED
  BY <1>1, <1>2, <1>3, <1>4 DEF Tick

LEMMA TypeStep == TypeInv /\ [Next]_vars => TypeInv'
<1> SUFFICES ASSUME TypeInv, [Next]_vars PROVE TypeInv'
  OBVIOUS
<1>0. VisionTypeOK(Epoch)
  BY DEF TypeInv, TypeOK
<1>1. CASE UNCHANGED vars
  <2>1. VisionTypeOK(Epoch)'
    BY <1>0, <1>1, VisionKept DEF vars
  <2> QED
    BY <1>1, <2>1
    DEF vars, TypeInv, TypeOK, EpochIsSpoken, turnVars, soundVars, awayVars, bookVars,
        moveVars
<1>2. CASE PresenceChanges
  <2>1. VisionTypeOK(Epoch)'
    BY <1>0, <1>2, VisionKept DEF PresenceChanges, AskNothing
  <2>2. /\ {present, away, returning, gaze, greetTimer, arbGaze}' \subseteq BOOLEAN
        /\ absent' \in {"no", "fresh", "old"}
    BY <1>2 DEF PresenceChanges, TypeInv, TypeOK
  <2>3. UNCHANGED <<turnVars, soundVars, bookVars, moveVars, centers, arbBusy, step>>
    BY <1>2 DEF PresenceChanges
  <2> QED
    BY <2>1, <2>2, <2>3
    DEF TypeInv, TypeOK, EpochIsSpoken, turnVars, soundVars, bookVars, moveVars
<1>3. CASE VisionStatus
  <2>1. VisionTypeOK(Epoch)'
    BY <1>0, <1>3, VisionKept DEF VisionStatus, AskNothing
  <2>2. aimDone' \in BOOLEAN
    BY <1>3 DEF VisionStatus
  <2> QED
    BY <1>3, <2>1, <2>2
    DEF VisionStatus, TypeInv, TypeOK, EpochIsSpoken, turnVars, soundVars, awayVars,
        moveVars
<1>4. CASE Greet
  <2>1. VisionTypeOK(Epoch)'
    BY <1>0, <1>4, VisionKept DEF Greet, AskNothing
  <2>2. playing' \in Seq(Clips) /\ motionBusy' \in BOOLEAN
    BY <1>4, PlayType DEF Greet, TypeInv, TypeOK, Clips
  <2>3. /\ {present, away, returning, gaze, greetTimer, arbGaze}' \subseteq BOOLEAN
        /\ absent' \in {"no", "fresh", "old"} /\ pendingReact' \in BOOLEAN
    BY <1>4 DEF Greet, TypeInv, TypeOK
  <2>4. UNCHANGED <<turnVars, soundVars, bookVars, centers, arbBusy, step>>
    BY <1>4 DEF Greet
  <2> QED
    BY <2>1, <2>2, <2>3, <2>4
    DEF TypeInv, TypeOK, EpochIsSpoken, turnVars, soundVars, bookVars, Clips
<1>5. CASE Vision
  <2>1. VisionTypeOK(Epoch)'
    BY <1>0, <1>5, VisionStepType DEF Vision
  <2> QED
    BY <1>5, <2>1
    DEF Vision, TypeInv, TypeOK, EpochIsSpoken, turnVars, soundVars, awayVars, bookVars,
        moveVars
<1> QED
  BY <1>1, <1>2, <1>3, <1>4, <1>5, VoiceType, AnswersType, TickType DEF Next

(* Every variable keeps its type, whatever the number of utterances,       *)
(* requests and goals: the turn counter never passes the utterances heard  *)
(* (_on_wake, s2.py; _on_voice_event, node.py).                            *)
THEOREM Typed == Spec => []TypeOK
<1>1. Init => TypeInv
  BY TypeInit
<1>2. TypeInv /\ [Next]_vars => TypeInv'
  BY TypeStep
<1>3. TypeInv => TypeOK
  BY DEF TypeInv
<1> QED
  BY <1>1, <1>2, <1>3, PTL DEF Spec

-----------------------------------------------------------------------------
(* Clips.                                                                *)

LEMMA PlayAlone ==
  ASSUME playing \in Seq(Clips), OneMotion, ~motionBusy,
         NEW m \in {"greeting", "clip"}, NEW more \in BOOLEAN, Play(m, more)
  PROVE  OneMotion'
<1>1. playing = <<>> /\ Len(playing) = 0
  BY DEF OneMotion
<1> DEFINE c == Clip(m, more)
<1>2. Append(playing, c) # <<>> /\ Len(Append(playing, c)) = 1
  BY <1>1, AppendProperties DEF Clip, Clips
<1>3. \/ motionBusy' = TRUE /\ playing' # <<>> /\ Len(playing') = 1
      \/ motionBusy' = FALSE /\ playing' = <<>> /\ Len(playing') = 0
  BY <1>1, <1>2 DEF Play
<1>4. Len(playing') <= 1
  <2>1. 0 <= 1 /\ 1 <= 1
    OBVIOUS
  <2> QED
    BY <1>3, <2>1, Zenon
<1> QED
  BY <1>3, <1>4, Zenon DEF OneMotion

LEMMA ReactAlone ==
  ASSUME playing \in Seq(Clips), OneMotion,
         NEW fault \in BOOLEAN, NEW wait \in BOOLEAN, React(fault, wait)
  PROVE  OneMotion'
<1>1. CASE MayPlay(fault) /\ ~motionBusy
  BY <1>1, PlayAlone DEF React, Clips
<1>2. CASE ~(MayPlay(fault) /\ ~motionBusy)
  BY <1>2 DEF React, OneMotion
<1> QED
  BY <1>1, <1>2

LEMMA OneMotionStep == TypeInv /\ OneMotion /\ [Next]_vars => OneMotion'
<1> SUFFICES ASSUME TypeInv, OneMotion, [Next]_vars PROVE OneMotion'
  OBVIOUS
<1>0. playing \in Seq(Clips)
  BY DEF TypeInv, TypeOK, Clips
<1>1. CASE UNCHANGED <<motionBusy, playing>>
  BY <1>1 DEF OneMotion
<1>2. ASSUME NEW fault \in BOOLEAN, NEW wait \in BOOLEAN, React(fault, wait)
      PROVE  OneMotion'
  BY <1>0, <1>2, ReactAlone
<1>3. ASSUME NEW fault \in BOOLEAN, Cognition(fault) PROVE OneMotion'
  BY <1>0, <1>3, PlayAlone DEF Cognition, Clips
<1>4. CASE Greet
  <2>1. CASE motionBusy
    BY <1>4, <2>1, <1>1 DEF Greet
  <2>2. CASE ~motionBusy
    BY <1>0, <1>4, <2>2, PlayAlone DEF Greet, Clips
  <2> QED
    BY <2>1, <2>2
<1>5. ASSUME NEW k \in DOMAIN playing, ClipStep(k) PROVE OneMotion'
  <2>1. /\ playing' \in Seq(Clips)
        /\ \/ motionBusy' = FALSE /\ Len(playing') = Len(playing) - 1
           \/ UNCHANGED motionBusy /\ Len(playing') = Len(playing)
    BY <1>0, <1>5, ClipReleases DEF TypeInv, TypeOK
  <2>2. Len(playing) \in Nat /\ Len(playing') \in Nat /\ Len(playing) <= 1
    BY <1>0, <2>1, LenProperties DEF OneMotion
  <2>3. playing # <<>> /\ Len(playing) = 1
    <3>1. DOMAIN playing = 1 .. Len(playing)
      BY <1>0, LenProperties
    <3> QED
      BY <1>0, <1>5, <2>2, <3>1, EmptySeq
  <2>4. CASE motionBusy' = FALSE /\ Len(playing') = Len(playing) - 1
    <3>1. Len(playing') = 0 /\ playing' = <<>>
      BY <2>1, <2>3, <2>4, EmptySeq
    <3> QED
      BY <2>4, <3>1 DEF OneMotion
  <2>5. CASE UNCHANGED motionBusy /\ Len(playing') = Len(playing)
    <3>1. Len(playing') = 1 /\ playing' # <<>>
      BY <2>1, <2>3, <2>5, EmptySeq
    <3> QED
      BY <2>3, <2>5, <3>1 DEF OneMotion
  <2> QED
    BY <2>1, <2>4, <2>5
<1>6. CASE Voice
  <2>1. ASSUME NEW i \in Id, Wake(i) PROVE OneMotion'
    BY <2>1, <1>1 DEF Wake, moveVars
  <2>2. ASSUME NEW i \in Id, NEW s \in {"orienting", "aligned", "held", "failed"},
               Orientation(i, s)
        PROVE  OneMotion'
    BY <2>2, <1>1 DEF Orientation, moveVars
  <2>3. ASSUME NEW fault \in BOOLEAN, Speaking(fault) PROVE OneMotion'
    BY <2>3, <1>2 DEF Speaking
  <2>4. ASSUME NEW fault \in BOOLEAN, Gesture(fault) PROVE OneMotion'
    BY <2>4, <1>2 DEF Gesture
  <2>5. CASE Done
    BY <2>5, <1>1 DEF Done, moveVars
  <2>6. CASE AskForBook
    BY <2>6, <1>1 DEF AskForBook, moveVars
  <2>7. CASE ReleaseBook
    BY <2>7, <1>1 DEF ReleaseBook, moveVars
  <2> QED
    BY <1>3, <1>6, <2>1, <2>2, <2>3, <2>4, <2>5, <2>6, <2>7 DEF Voice
<1>7. CASE Answers
  <2>1. ASSUME NEW k \in DOMAIN asked, FollowAnswered(k) PROVE OneMotion'
    BY <2>1, <1>1 DEF FollowAnswered, moveVars
  <2>2. ASSUME NEW k \in DOMAIN centers, CenterAccepted(k) \/ CenterFinished(k)
        PROVE  OneMotion'
    BY <2>2, <1>1 DEF CenterAccepted, CenterFinished, moveVars
  <2> QED
    BY <1>5, <1>7, <2>1, <2>2 DEF Answers
<1>8. CASE Tick
  <2>1. CASE TickSound
    BY <2>1, <1>1 DEF TickSound, moveVars
  <2>2. CASE TickLight
    <3>1. CASE BookGivesUp
      BY <3>1, <1>2 DEF BookGivesUp
    <3>2. CASE BookStays \/ BookStarts \/ BookIsLit
      BY <3>2, <1>1 DEF BookStays, BookStarts, BookIsLit, moveVars
    <3> QED
      BY <2>2, <3>1, <3>2 DEF TickLight
  <2>3. CASE TickReact
    BY <2>3, <1>2 DEF TickReact
  <2>4. CASE TickLeave
    BY <2>4, <1>1 DEF TickLeave, moveVars
  <2> QED
    BY <1>8, <2>1, <2>2, <2>3, <2>4 DEF Tick
<1>9. CASE PresenceChanges \/ VisionStatus \/ Vision \/ UNCHANGED vars
  BY <1>9, <1>1 DEF PresenceChanges, VisionStatus, Vision, vars, moveVars
<1> QED
  BY <1>4, <1>6, <1>7, <1>8, <1>9 DEF Next

(* One clip plays at a time, and the node is busy exactly while it plays   *)
(* (_play_commands, node.py 358-402).                                      *)
THEOREM MotionIsAlone == Spec => []OneMotion
<1>1. Init => TypeInv /\ OneMotion
  BY TypeInit DEF Init, OneMotion
<1>2. TypeInv /\ OneMotion /\ [Next]_vars => (TypeInv /\ OneMotion)'
  BY TypeStep, OneMotionStep
<1> QED
  BY <1>1, <1>2, PTL DEF Spec

-----------------------------------------------------------------------------
(* The away pose.                                                          *)

(* The copies of the arbiter: as true as the parts of a tick need them,    *)
(* and the task light waits only for a conversation or for a motion.       *)
TickInv ==
  /\ gaze => arbGaze
  /\ step = "light" => (arbBusy <=> motionBusy)
  /\ step \in {"react", "leave"} /\ s1State = "pending" => Conversation \/ arbBusy

AwayInv == AwayIsAlone /\ TickInv

LEMMA AwayStep == TypeInv /\ AwayInv /\ [Next]_vars => AwayInv'
<1> SUFFICES ASSUME TypeInv, AwayInv, [Next]_vars PROVE AwayInv'
  OBVIOUS
<1> USE DEF AwayInv, AwayIsAlone, TickInv
<1>1. CASE UNCHANGED <<away, activeId, s1State, gaze, greetTimer, arbGaze>> /\ step = "idle" /\ step' = "idle"
  BY <1>1 DEF Conversation
<1>2. CASE Voice
  <2>1. ASSUME NEW i \in Id, Wake(i) PROVE AwayInv'
    <3>1. away' = FALSE /\ gaze' = FALSE /\ step' = "idle"
      BY <2>1 DEF Wake, Ready
    <3> QED
      BY <3>1
  <2>2. ASSUME NEW i \in Id, NEW s \in {"orienting", "aligned", "held", "failed"},
               Orientation(i, s)
        PROVE  AwayInv'
    BY <2>2, <1>1 DEF Orientation, Ready, awayVars, bookVars
  <2>3. ASSUME NEW fault \in BOOLEAN, Speaking(fault) \/ Gesture(fault) PROVE AwayInv'
    BY <2>3, <1>1 DEF Speaking, Gesture, Ready, awayVars, bookVars
  <2>4. ASSUME NEW fault \in BOOLEAN, Cognition(fault) PROVE AwayInv'
    BY <2>4, <1>1 DEF Cognition, Ready, turnVars, awayVars, bookVars
  <2>5. CASE Done
    <3>1. /\ activeId' = NoId /\ step' = "idle"
          /\ UNCHANGED <<away, s1State, gaze, greetTimer, arbGaze>>
      BY <2>5 DEF Done, EndTurn, Ready, awayVars, bookVars
    <3> QED
      BY <3>1 DEF Conversation
  <2>6. CASE AskForBook
    <3>1. /\ away' = FALSE /\ step' = "idle" /\ UNCHANGED <<gaze, arbGaze>>
      BY <2>6 DEF AskForBook, Ready, awayVars, TypeInv, TypeOK
    <3> QED
      BY <3>1
  <2>7. CASE ReleaseBook
    <3>1. /\ away' = FALSE /\ step' = "idle" /\ UNCHANGED <<gaze, arbGaze>>
      BY <2>7 DEF ReleaseBook, Ready, awayVars, TypeInv, TypeOK
    <3> QED
      BY <3>1
  <2> QED
    BY <1>2, <2>1, <2>2, <2>3, <2>4, <2>5, <2>6, <2>7 DEF Voice
<1>3. CASE Answers
  <2>1. ASSUME NEW k \in DOMAIN asked, FollowAnswered(k) PROVE AwayInv'
    BY <2>1, <1>1 DEF FollowAnswered, turnVars, awayVars, bookVars
  <2>2. ASSUME NEW k \in DOMAIN centers, CenterAccepted(k) \/ CenterFinished(k)
        PROVE  AwayInv'
    BY <2>2, <1>1 DEF CenterAccepted, CenterFinished, turnVars, awayVars, bookVars
  <2>3. ASSUME NEW k \in DOMAIN playing, ClipStep(k) PROVE AwayInv'
    <3>1. step = "idle" /\ step' = "idle" /\ UNCHANGED <<activeId, s1State>>
      BY <2>3, ClipShape DEF turnVars, bookVars
    <3>2. CASE UNCHANGED awayVars
      BY <1>1, <3>1, <3>2 DEF awayVars
    <3>3. CASE gaze' = (gaze \/ ~away) /\ arbGaze' = gaze' /\ UNCHANGED <<away, greetTimer>>
      BY <3>1, <3>3 DEF Conversation
    <3> QED
      BY <2>3, <3>2, <3>3, ClipShape
  <2> QED
    BY <1>3, <2>1, <2>2, <2>3 DEF Answers
<1>4. CASE Tick
  <2>1. CASE TickSound
    <3>1. /\ UNCHANGED <<away, s1State, gaze, greetTimer, arbGaze, motionBusy, pendingReact>>
          /\ arbBusy' = motionBusy
          /\ step' = IF s1State \in {"pending", "aiming"} THEN "light" ELSE AfterLight
      BY <2>1 DEF TickSound, awayVars, bookVars, moveVars
    <3>2. activeId' \in {activeId, NoId}
      BY <2>1 DEF TickSound, UndoSoundTurn, CloseSilentTurn, EndTurn, turnVars
    <3>3. step' \in {"react", "leave"} => s1State # "pending"
      BY <3>1
    <3>4. step' = "light" => (arbBusy' <=> motionBusy')
      BY <3>1
    <3> QED
      BY <3>1, <3>2, <3>3, <3>4 DEF Conversation
  <2>2. CASE TickLight
    <3>1. /\ UNCHANGED <<away, activeId, gaze, greetTimer, arbGaze, arbBusy>>
          /\ step = "light" /\ step' \in {"react", "leave"}
      BY <2>2 DEF TickLight, turnVars, awayVars
    <3>2. CASE BookStays
      <4>1. s1State' = s1State
        BY <3>2 DEF BookStays, bookVars
      <4>2. s1State = "pending" => Conversation \/ motionBusy
        BY <3>2 DEF BookStays
      <4> QED
        BY <3>1, <4>1, <4>2 DEF Conversation
    <3>3. CASE BookStarts \/ BookIsLit \/ BookGivesUp
      <4>1. s1State # "idle" /\ s1State' # "pending"
        BY <3>3 DEF BookStarts, BookIsLit, BookGivesUp
      <4> QED
        BY <3>1, <4>1
    <3> QED
      BY <2>2, <3>2, <3>3 DEF TickLight
  <2>3. CASE TickReact
    <3>1. /\ UNCHANGED <<away, activeId, s1State, gaze, greetTimer, arbGaze, arbBusy>>
          /\ step = "react" /\ step' = "leave"
      BY <2>3 DEF TickReact, turnVars, awayVars, bookVars
    <3> QED
      BY <3>1 DEF Conversation
  <2>4. CASE TickLeave
    <3>1. UNCHANGED <<activeId, s1State>> /\ step = "leave" /\ step' = "idle"
      BY <2>4 DEF TickLeave, turnVars, bookVars
    <3>2. CASE ComeBack
      <4>1. /\ gaze' = gaze /\ arbGaze' = gaze
            /\ (away' = FALSE \/ UNCHANGED <<away, greetTimer>>)
        BY <3>2 DEF ComeBack
      <4> QED
        BY <3>1, <4>1 DEF Conversation
    <3>3. CASE Leave
      <4>1. PICK fault \in BOOLEAN, over \in BOOLEAN, long \in BOOLEAN :
              /\ long => ~Taken(fault)
              /\ away' = long /\ arbGaze' = gaze'
              /\ gaze' = (gaze /\ ~over /\ ~long)
              /\ greetTimer' = (greetTimer /\ ~long)
        BY <3>3 DEF Leave
      <4>2. CASE ~long
        BY <3>1, <4>1, <4>2
      <4>3. CASE long
        <5>1. ~Conversation /\ ~HoldsHead /\ ~arbBusy
          BY <4>1, <4>3 DEF Taken, Owner
        <5>2. s1State = "idle"
          BY <2>4, <5>1 DEF TickLeave, HoldsHead, TypeInv, TypeOK
        <5> QED
          BY <3>1, <4>1, <4>3, <5>1, <5>2 DEF Conversation
      <4> QED
        BY <4>2, <4>3
    <3> QED
      BY <2>4, <3>2, <3>3 DEF TickLeave
  <2> QED
    BY <1>4, <2>1, <2>2, <2>3, <2>4 DEF Tick
<1>5. CASE PresenceChanges
  <2>1. /\ UNCHANGED <<away, activeId, s1State, gaze, greetTimer>>
        /\ arbGaze' = gaze /\ step' = "idle"
    BY <1>5 DEF PresenceChanges, Ready, turnVars, bookVars
  <2> QED
    BY <2>1 DEF Conversation
<1>6. CASE Greet
  <2>1. /\ UNCHANGED <<away, activeId, s1State, gaze, arbGaze>>
        /\ greetTimer' = FALSE /\ step' = "idle"
    BY <1>6 DEF Greet, Ready, turnVars, bookVars
  <2> QED
    BY <2>1 DEF Conversation
<1>7. CASE VisionStatus
  BY <1>7, <1>1 DEF VisionStatus, Ready, turnVars, awayVars
<1>8. CASE Vision
  BY <1>8, <1>1 DEF Vision, turnVars, awayVars, bookVars
<1>9. CASE UNCHANGED vars
  BY <1>9 DEF vars, turnVars, awayVars, bookVars, moveVars, Conversation
<1> QED
  BY <1>2, <1>3, <1>4, <1>5, <1>6, <1>7, <1>8, <1>9 DEF Next

(* The away pose is held alone: never in a conversation, by the task       *)
(* light, or while a greeting is due (tick, s4.py 87-111).                 *)
THEOREM AwayHeldAlone == Spec => []AwayIsAlone
<1>1. Init => TypeInv /\ AwayInv
  BY TypeInit DEF Init, AwayInv, AwayIsAlone, TickInv
<1>2. TypeInv /\ AwayInv /\ [Next]_vars => (TypeInv /\ AwayInv)'
  BY TypeStep, AwayStep
<1>3. AwayInv => AwayIsAlone
  BY DEF AwayInv
<1> QED
  BY <1>1, <1>2, <1>3, PTL DEF Spec

-----------------------------------------------------------------------------
(* Requests and centre goals.                                              *)

(* The order to stop of an older turn will be followed up: the request to  *)
(* follow is under way, or the answer that sends it again.                 *)
Repair(r) == r.kind = "follow" /\ IF r.at = "asked" THEN r.on ELSE r.epoch < epoch

Owed == \E r \in ToSet(asked) : Repair(r)

OffInv == gazing /\ wanted # NoTurn /\ stopped # NoTurn /\ stopped < wanted => Owed

(* No request is of a later turn, and none that is followed by a return to *)
(* rest is of the turn under way.                                          *)
AnswersInv == \A r \in ToSet(asked) :
  r.epoch <= epoch /\ (r.after /\ r.epoch = epoch => ~Conversation)

WantedInv == (~gazing => wanted = NoTurn) /\ (wanted = NoTurn \/ wanted <= epoch)

SilentInv == ~visionUp => asked = <<>> /\ stopped = NoTurn

RequestInv == OffInv /\ AnswersInv /\ WantedInv /\ SilentInv

LEMMA InSet ==
  ASSUME NEW s, NEW k \in DOMAIN s
  PROVE  s[k] \in ToSet(s)
  BY DEF ToSet

LEMMA ElementType ==
  ASSUME TypeInv
  PROVE  /\ epoch \in Int /\ ToSet(asked) \subseteq Request(Epoch)
         /\ \A r \in ToSet(asked) : r.epoch \in Int
         /\ stopped \in Int /\ wanted \in Int /\ gazing \in BOOLEAN
<1>1. ToSet(asked) \subseteq Request(Epoch)
  BY ElementOfSeq, LenProperties DEF TypeInv, TypeOK, VisionTypeOK, ToSet
<1>2. \A r \in Request(Epoch) : r.epoch \in Int
  BY Constants DEF Request
<1> QED
  BY <1>1, <1>2, Constants DEF TypeInv, TypeOK, VisionTypeOK, NoTurn

LEMMA RequestsKept ==
  ASSUME RequestInv, UNCHANGED visionVars, UNCHANGED <<epoch, activeId, gazing, wanted>>
  PROVE  RequestInv'
<1>1. UNCHANGED <<visionUp, asked, stopped, epoch, activeId, gazing, wanted>>
  BY DEF visionVars
<1>2. OffInv'
  BY <1>1 DEF RequestInv, OffInv, Owed, Repair
<1>3. AnswersInv'
  BY <1>1 DEF RequestInv, AnswersInv, Conversation
<1> QED
  BY <1>1, <1>2, <1>3 DEF RequestInv, WantedInv, SilentInv

(* More is asked: what was owed stays owed, and what is asked anew must    *)
(* fit the turn.                                                           *)
LEMMA RequestsAdded ==
  ASSUME TypeInv, RequestInv, NEW q \in Seq(Request(Epoch)), Ask(q),
         epoch' \in Int, epoch' >= epoch,
         \A r \in ToSet(q) : r.epoch <= epoch' /\ (r.after => activeId' = NoId),
         WantedInv',
         epoch' = epoch => activeId' = activeId \/ activeId' = NoId,
         \/ UNCHANGED <<gazing, wanted>>
         \/ gazing' = FALSE
         \/ wanted' = NoTurn
         \/ visionUp => \E r \in ToSet(q) : r.kind = "follow" /\ r.at = "asked" /\ r.on
  PROVE  RequestInv'
<1>0. UNCHANGED <<visionUp, stopped>>
  BY DEF Ask
<1>1. ToSet(asked') = IF visionUp THEN ToSet(asked) \cup ToSet(q) ELSE ToSet(asked)
  BY AskType DEF TypeInv, TypeOK
<1>2. SilentInv'
  BY <1>0 DEF RequestInv, SilentInv, Ask
<1>3. AnswersInv'
  <2>1. ASSUME NEW r \in ToSet(asked)
        PROVE  r.epoch <= epoch' /\ (r.after /\ r.epoch = epoch' => activeId' = NoId)
    <3>1. r.epoch \in Int /\ epoch \in Int
      BY ElementType
    <3>2. r.epoch <= epoch /\ (r.after /\ r.epoch = epoch => activeId = NoId)
      BY DEF RequestInv, AnswersInv, Conversation
    <3>3. r.epoch = epoch' => r.epoch = epoch /\ epoch' = epoch
      BY <3>1, <3>2
    <3>4. r.epoch <= epoch'
      BY <3>1, <3>2
    <3> QED
      BY <3>2, <3>3, <3>4
  <2>2. \A r \in ToSet(asked') :
           r.epoch <= epoch' /\ (r.after /\ r.epoch = epoch' => activeId' = NoId)
    BY <1>1, <2>1
  <2> QED
    BY <2>2 DEF AnswersInv, Conversation
<1>4. OffInv'
  <2>1. Owed => Owed'
    <3>1. ASSUME NEW r \in ToSet(asked), Repair(r)
          PROVE  Repair(r)'
      BY <3>1, ElementType DEF Repair
    <3> QED
      BY <1>1, <3>1 DEF Owed
  <2>2. CASE UNCHANGED <<gazing, wanted>>
    BY <1>0, <2>1, <2>2 DEF RequestInv, OffInv
  <2>3. CASE gazing' = FALSE \/ wanted' = NoTurn
    BY <2>3 DEF OffInv
  <2>4. CASE visionUp => \E r \in ToSet(q) : r.kind = "follow" /\ r.at = "asked" /\ r.on
    <3>1. CASE ~visionUp
      BY <1>0, <3>1 DEF RequestInv, SilentInv, OffInv
    <3>2. CASE visionUp
      BY <1>1, <2>4, <3>2 DEF OffInv, Owed, Repair
    <3> QED
      BY <3>1, <3>2
  <2> QED
    BY <2>2, <2>3, <2>4
<1> QED
  BY <1>2, <1>3, <1>4 DEF RequestInv

LEMMA FollowFields ==
  ASSUME NEW on, NEW e, NEW after
  PROVE  LET r == FollowRequest(on, e, after) IN
           /\ r.kind = "follow" /\ r.at = "asked" /\ r.on = on
           /\ r.epoch = e /\ r.after = after
  BY DEF FollowRequest

\* A callback that leaves the turn alone asks for the face, or to aim.
LEMMA RequestsOfTurn ==
  ASSUME TypeInv, RequestInv, UNCHANGED <<epoch, activeId, gazing, wanted>>,
         NEW q \in Seq(Request(Epoch)), Ask(q),
         \A r \in ToSet(q) : r.epoch \in {0, epoch} /\ ~r.after
  PROVE  RequestInv'
<1>1. epoch \in Int /\ 0 <= epoch
  BY Constants DEF TypeInv, TypeOK, Epoch
<1>2. epoch' \in Int /\ epoch' >= epoch
      /\ \A r \in ToSet(q) : r.epoch <= epoch' /\ (r.after => activeId' = NoId)
  BY <1>1
<1>3. WantedInv'
  BY DEF RequestInv, WantedInv
<1> QED
  BY <1>2, <1>3, RequestsAdded

LEMMA WakeRequests ==
  ASSUME TypeInv, RequestInv, TypeInv', NEW i \in Id, Wake(i)
  PROVE  RequestInv'
<1> DEFINE new == NewTurn(i)
           e   == IF new THEN epoch + 1 ELSE epoch
           on  == oriented[i] = "aligned" /\ ~gazing
           off == ~away /\ gaze /\ ~gazing /\ ~on
           a   == FollowRequest(FALSE, e, FALSE)
           b   == FollowRequest(TRUE, e, FALSE)
           q1  == IF off THEN <<a>> ELSE <<>>
           q2  == IF on /\ ~HoldsHead THEN <<b>> ELSE <<>>
<1>1. /\ epoch' = e /\ activeId' = i /\ Ask(q1 \o q2)
      /\ gazing' = (gazing \/ on)
      /\ wanted' = IF on /\ ~HoldsHead THEN e ELSE wanted
  BY DEF Wake
<1>2. epoch \in Int /\ epoch' \in Epoch /\ epoch' \in Int /\ epoch' >= epoch
  BY <1>1, Constants DEF TypeInv, TypeOK
<1>3. epoch' = epoch => activeId' = activeId
  BY <1>1, <1>2 DEF NewTurn
<1>4. a \in Request(Epoch) /\ b \in Request(Epoch)
  BY <1>1, <1>2, RequestType
<1>5. /\ a.epoch = e /\ a.after = FALSE
      /\ b.epoch = e /\ b.after = FALSE /\ b.on = TRUE /\ b.kind = "follow" /\ b.at = "asked"
  BY DEF FollowRequest
<1> HIDE DEF a, b
<1>6. /\ q1 \in Seq(Request(Epoch)) /\ ToSet(q1) \subseteq {a}
      /\ q2 \in Seq(Request(Epoch)) /\ ToSet(q2) \subseteq {b}
      /\ on /\ ~HoldsHead => b \in ToSet(q2)
  BY <1>4, OneSet, EmptySeq, EmptySet
<1> HIDE DEF new, e, on, off, q1, q2
<1>7. q1 \o q2 \in Seq(Request(Epoch)) /\ ToSet(q1 \o q2) = ToSet(q1) \cup ToSet(q2)
  BY <1>6, ConcatSet
<1> DEFINE q == q1 \o q2
<1>8. q \in Seq(Request(Epoch)) /\ Ask(q)
  BY <1>1, <1>7
<1>9. \A r \in ToSet(q) : r.epoch <= epoch' /\ (r.after => activeId' = NoId)
  <2>1. \A r \in ToSet(q) : r.epoch = epoch' /\ ~r.after
    BY <1>1, <1>5, <1>6, <1>7
  <2> QED
    BY <1>2, <2>1
<1>10. on /\ ~HoldsHead
         => \E r \in ToSet(q) : r.kind = "follow" /\ r.at = "asked" /\ r.on
  BY <1>5, <1>6, <1>7
<1> HIDE DEF q
<1>11. WantedInv'
  <2>1. on => ~gazing
    BY DEF on
  <2>2. wanted = NoTurn \/ wanted <= epoch
    BY DEF RequestInv, WantedInv
  <2>3. ~gazing => wanted = NoTurn
    BY DEF RequestInv, WantedInv
  <2>4. wanted' = NoTurn \/ wanted' <= epoch'
    BY <1>1, <1>2, <2>2, ElementType
  <2>5. ~gazing' => wanted' = NoTurn
    BY <1>1, <2>3
  <2> QED
    BY <2>4, <2>5 DEF WantedInv
<1>12. \/ UNCHANGED <<gazing, wanted>>
       \/ wanted' = NoTurn
       \/ on /\ ~HoldsHead
  <2>1. CASE on
    BY <1>1, <2>1 DEF on, RequestInv, WantedInv
  <2>2. CASE ~on
    BY <1>1, <2>2, ElementType
  <2> QED
    BY <2>1, <2>2
<1> QED
  BY <1>2, <1>3, <1>8, <1>9, <1>10, <1>11, <1>12, RequestsAdded

LEMMA OrientationRequests ==
  ASSUME TypeInv, RequestInv, NEW i \in Id,
         NEW state \in {"orienting", "aligned", "held", "failed"}, Orientation(i, state)
  PROVE  RequestInv'
<1> DEFINE on == i = activeId /\ state \in {"aligned", "held"} /\ ~gazing
           b  == FollowRequest(TRUE, epoch, FALSE)
           q  == IF on /\ ~HoldsHead THEN <<b>> ELSE <<>>
<1>1. /\ Ask(q) /\ gazing' = (gazing \/ on)
      /\ wanted' = IF on /\ ~HoldsHead THEN epoch ELSE wanted
      /\ UNCHANGED <<epoch, activeId>>
  BY DEF Orientation
<1>2. epoch \in Int /\ epoch \in Epoch /\ wanted \in Int /\ gazing \in BOOLEAN
  BY ElementType DEF TypeInv, TypeOK
<1>3. b \in Request(Epoch)
  BY <1>2, RequestType
<1>4. b.epoch = epoch /\ b.after = FALSE /\ b.on = TRUE /\ b.kind = "follow" /\ b.at = "asked"
  BY DEF FollowRequest
<1> HIDE DEF b
<1>5. /\ q \in Seq(Request(Epoch)) /\ ToSet(q) \subseteq {b}
      /\ on /\ ~HoldsHead => b \in ToSet(q)
  BY <1>3, OneSet, EmptySeq, EmptySet
<1> HIDE DEF q
<1>6. epoch' \in Int /\ epoch' >= epoch
      /\ \A r \in ToSet(q) : r.epoch <= epoch' /\ (r.after => activeId' = NoId)
  BY <1>1, <1>2, <1>4, <1>5
<1>7. on => wanted = NoTurn
  BY DEF RequestInv, WantedInv
<1>8. WantedInv'
  <2>1. wanted' = NoTurn \/ wanted' <= epoch'
    BY <1>1, <1>2 DEF RequestInv, WantedInv
  <2>2. ~gazing' => wanted' = NoTurn
    BY <1>1 DEF RequestInv, WantedInv
  <2> QED
    BY <2>1, <2>2 DEF WantedInv
<1>9. \/ UNCHANGED <<gazing, wanted>>
      \/ wanted' = NoTurn
      \/ \E r \in ToSet(q) : r.kind = "follow" /\ r.at = "asked" /\ r.on
  <2>1. CASE on /\ ~HoldsHead
    BY <1>4, <1>5, <2>1
  <2>2. CASE on /\ HoldsHead
    BY <1>1, <1>7, <2>2
  <2>3. CASE ~on
    BY <1>1, <1>2, <2>3
  <2> QED
    BY <2>1, <2>2, <2>3
<1> HIDE DEF on
<1> QED
  BY <1>1, <1>5, <1>6, <1>8, <1>9, RequestsAdded

LEMMA EndTurnRequests ==
  ASSUME TypeInv, RequestInv, NEW cancelled \in BOOLEAN, EndTurn(cancelled)
  PROVE  RequestInv'
<1> DEFINE rest == ~cancelled /\ ~HoldsHead
           b == FollowRequest(FALSE, epoch, rest)
           q == IF gazing /\ ~HoldsHead THEN <<b>> ELSE <<>>
<1>1. /\ Ask(q) /\ epoch' = epoch /\ activeId' = NoId
      /\ gazing' = FALSE /\ wanted' = NoTurn
  BY DEF EndTurn
<1>2. epoch \in Int /\ epoch \in Epoch
  BY ElementType DEF TypeInv, TypeOK
<1>3. b \in Request(Epoch) /\ b.epoch = epoch
  BY <1>2, RequestType DEF FollowRequest
<1> HIDE DEF b
<1>4. q \in Seq(Request(Epoch)) /\ ToSet(q) \subseteq {b}
  BY <1>3, OneSet, EmptySeq, EmptySet
<1> HIDE DEF q
<1>5. epoch' \in Int /\ epoch' >= epoch
      /\ \A r \in ToSet(q) : r.epoch <= epoch' /\ (r.after => activeId' = NoId)
  BY <1>1, <1>2, <1>3, <1>4
<1>6. WantedInv'
  BY <1>1 DEF WantedInv
<1> QED
  BY <1>1, <1>4, <1>5, <1>6, RequestsAdded

(* The answer that was owed is read: the request to follow is sent again.  *)
LEMMA AnsweredRequests ==
  ASSUME TypeInv, RequestInv, NEW k \in DOMAIN asked, FollowAnswered(k)
  PROVE  RequestInv'
<1> DEFINE r == asked[k]
           b == FollowRequest(TRUE, epoch, FALSE)
           q == IF Repairs(r) THEN <<b>> ELSE <<>>
           rest == RemoveAt(asked, k)
<1>1. /\ asked' = rest \o q /\ r.at = "answered"
      /\ UNCHANGED <<visionUp, stopped, epoch, activeId, gazing, wanted>>
  BY DEF FollowAnswered, turnVars
<1>2. epoch \in Int /\ epoch \in Epoch /\ asked \in Seq(Request(Epoch))
  BY ElementType DEF TypeInv, TypeOK, VisionTypeOK
<1>3. b \in Request(Epoch)
  BY <1>2, RequestType
<1>4. b.epoch = epoch /\ b.after = FALSE /\ b.on = TRUE /\ b.kind = "follow" /\ b.at = "asked"
  BY DEF FollowRequest
<1> HIDE DEF b
<1>5. /\ q \in Seq(Request(Epoch)) /\ ToSet(q) \subseteq {b}
      /\ Repairs(r) => b \in ToSet(q)
  BY <1>3, OneSet, EmptySeq, EmptySet
<1>6. /\ rest \in Seq(Request(Epoch)) /\ ToSet(rest) \subseteq ToSet(asked)
      /\ ToSet(asked) \subseteq ToSet(rest) \cup {r}
  BY <1>2, RemoveAtSet
<1> HIDE DEF q, rest
<1>7. ToSet(asked') = ToSet(rest) \cup ToSet(q)
  BY <1>1, <1>5, <1>6, ConcatSet
<1>8. SilentInv'
  <2>1. asked # <<>>
    <3>1. Len(asked) \in Nat /\ k \in 1 .. Len(asked)
      BY <1>2, LenProperties
    <3> QED
      BY <3>1
  <2> QED
    BY <1>1, <2>1 DEF RequestInv, SilentInv
<1>9. WantedInv'
  BY <1>1 DEF RequestInv, WantedInv
<1>10. AnswersInv'
  <2>1. \A x \in ToSet(asked) : x.epoch <= epoch /\ (x.after /\ x.epoch = epoch => ~Conversation)
    BY DEF RequestInv, AnswersInv
  <2>2. b.epoch <= epoch /\ ~b.after
    BY <1>2, <1>4
  <2>3. \A x \in ToSet(asked') : x.epoch <= epoch /\ (x.after /\ x.epoch = epoch => ~Conversation)
    BY <1>5, <1>6, <1>7, <2>1, <2>2
  <2> QED
    BY <1>1, <2>3 DEF AnswersInv, Conversation
<1>11. OffInv'
  <2> SUFFICES ASSUME gazing, Owed PROVE Owed'
    BY <1>1 DEF RequestInv, OffInv
  <2>1. PICK x \in ToSet(asked) : Repair(x)
    BY DEF Owed
  <2>2. CASE x \in ToSet(rest)
    BY <1>1, <1>7, <2>1, <2>2 DEF Owed, Repair
  <2>3. CASE x = r
    <3>1. r \in ToSet(asked) /\ r.epoch \in Int
      BY InSet, ElementType
    <3>2. r.epoch < epoch
      BY <1>1, <2>1, <2>3 DEF Repair
    <3>3. Repairs(r)
      BY <1>2, <3>1, <3>2 DEF Repairs
    <3>4. b \in ToSet(asked')
      BY <1>5, <1>7, <3>3
    <3> QED
      BY <1>1, <1>4, <3>4 DEF Owed, Repair
  <2> QED
    BY <1>6, <2>1, <2>2, <2>3
<1> QED
  BY <1>8, <1>9, <1>10, <1>11 DEF RequestInv

\* The vision node serves a request.
LEMMA ServedRequests ==
  ASSUME TypeInv, RequestInv, VisionStep, UNCHANGED <<epoch, activeId, gazing, wanted>>
  PROVE  RequestInv'
<1>0. /\ asked \in Seq(Request(Epoch)) /\ epoch \in Int /\ wanted \in Int
      /\ wanted = NoTurn \/ wanted <= epoch
  BY ElementType DEF TypeInv, TypeOK, VisionTypeOK, RequestInv, WantedInv
<1>1. WantedInv'
  BY DEF RequestInv, WantedInv
<1>2. CASE VisionStarts
  <2>1. visionUp' = TRUE /\ UNCHANGED <<asked, stopped>>
    BY <1>2 DEF VisionStarts
  <2>2. OffInv' /\ AnswersInv' /\ SilentInv'
    BY <2>1 DEF RequestInv, OffInv, Owed, Repair, AnswersInv, Conversation, SilentInv
  <2> QED
    BY <1>1, <2>2 DEF RequestInv
<1>3. CASE CentreBook
  <2>1. UNCHANGED <<visionUp, asked, stopped>>
    BY <1>3 DEF CentreBook
  <2>2. OffInv' /\ AnswersInv' /\ SilentInv'
    BY <2>1 DEF RequestInv, OffInv, Owed, Repair, AnswersInv, Conversation, SilentInv
  <2> QED
    BY <1>1, <2>2 DEF RequestInv
<1>4. ASSUME NEW k \in DOMAIN asked, ServeFollow(k)
      PROVE  RequestInv'
  <2> DEFINE r == asked[k]
             s == [r EXCEPT !.at = "answered"]
  <2>1. /\ asked' = [asked EXCEPT ![k] = s] /\ r.kind = "follow" /\ UNCHANGED visionUp
        /\ stopped' = IF r.on THEN NoTurn ELSE r.epoch
    BY <1>4 DEF ServeFollow
  <2>2. r \in Request(Epoch) /\ r \in ToSet(asked) /\ r.epoch \in Int
    BY InSet, ElementType
  <2>3. s.kind = "follow" /\ s.at = "answered" /\ s.epoch = r.epoch /\ s.after = r.after
    BY <2>1, <2>2 DEF Request
  <2> HIDE DEF r, s
  <2>4. DOMAIN asked' = DOMAIN asked /\ asked'[k] = s
        /\ \A j \in DOMAIN asked : j # k => asked'[j] = asked[j]
    <3>1. \E D : asked \in [D -> Request(Epoch)]
      <4>1. asked \in [1 .. Len(asked) -> Request(Epoch)]
        BY <1>0, ElementOfSeq, LenProperties
      <4> QED
        BY <4>1
    <3> QED
      BY <2>1, <3>1
  <2>5. s \in ToSet(asked') /\ ToSet(asked') \subseteq ToSet(asked) \cup {s}
    BY <2>4 DEF ToSet
  <2>6. AnswersInv'
    <3>1. \A x \in ToSet(asked) : x.epoch <= epoch /\ (x.after /\ x.epoch = epoch => ~Conversation)
      BY DEF RequestInv, AnswersInv
    <3>2. s.epoch <= epoch /\ (s.after /\ s.epoch = epoch => ~Conversation)
      BY <2>2, <2>3, <3>1
    <3>3. \A x \in ToSet(asked') : x.epoch <= epoch /\ (x.after /\ x.epoch = epoch => ~Conversation)
      BY <2>5, <3>1, <3>2
    <3> QED
      BY <3>3 DEF AnswersInv, Conversation
  <2>7. OffInv'
    <3> SUFFICES ASSUME gazing', wanted' # NoTurn, stopped' # NoTurn, stopped' < wanted'
                 PROVE  Owed'
      BY DEF OffInv
    <3>1. s.epoch < epoch
      BY <1>0, <2>1, <2>2, <2>3
    <3> QED
      BY <2>3, <2>5, <3>1 DEF Owed, Repair
  <2>8. visionUp' = TRUE
    <3>1. asked # <<>>
      <4>1. Len(asked) \in Nat /\ k \in 1 .. Len(asked)
        BY <1>0, LenProperties
      <4> QED
        BY <4>1
    <3> QED
      BY <2>1, <3>1 DEF RequestInv, SilentInv, TypeInv, TypeOK, VisionTypeOK
  <2> QED
    BY <1>1, <2>6, <2>7, <2>8 DEF RequestInv, SilentInv
<1>5. ASSUME NEW k \in DOMAIN asked, ServeAim(k)
      PROVE  RequestInv'
  <2>1. asked' = RemoveAt(asked, k) /\ stopped' = NoTurn /\ UNCHANGED visionUp
    BY <1>5 DEF ServeAim
  <2>2. ToSet(asked') \subseteq ToSet(asked)
    BY <1>0, <2>1, RemoveAtSet
  <2>3. AnswersInv'
    BY <2>2 DEF RequestInv, AnswersInv, Conversation
  <2>4. OffInv'
    BY <2>1 DEF OffInv
  <2>5. SilentInv'
    <3>1. asked # <<>>
      <4>1. Len(asked) \in Nat /\ k \in 1 .. Len(asked)
        BY <1>0, LenProperties
      <4> QED
        BY <4>1
    <3> QED
      BY <2>1, <3>1 DEF RequestInv, SilentInv
  <2> QED
    BY <1>1, <2>3, <2>4, <2>5 DEF RequestInv
<1> QED
  BY <1>2, <1>3, <1>4, <1>5 DEF VisionStep

LEMMA RequestsStep == TypeInv /\ RequestInv /\ [Next]_vars => RequestInv'
<1> SUFFICES ASSUME TypeInv, RequestInv, [Next]_vars PROVE RequestInv'
  OBVIOUS
<1>a. CASE UNCHANGED visionVars /\ UNCHANGED <<epoch, activeId, gazing, wanted>>
  BY <1>a, RequestsKept
<1>b. /\ <<AimRequest(TRUE)>> \in Seq(Request(Epoch))
      /\ <<AimRequest(FALSE)>> \in Seq(Request(Epoch))
      /\ <<FollowRequest(TRUE, epoch, FALSE)>> \in Seq(Request(Epoch))
      /\ <<FollowRequest(FALSE, epoch, FALSE)>> \in Seq(Request(Epoch))
      /\ <<>> \in Seq(Request(Epoch)) /\ ToSet(<<>>) = {}
      /\ ToSet(<<AimRequest(TRUE)>>) = {AimRequest(TRUE)}
      /\ ToSet(<<AimRequest(FALSE)>>) = {AimRequest(FALSE)}
      /\ ToSet(<<FollowRequest(TRUE, epoch, FALSE)>>) = {FollowRequest(TRUE, epoch, FALSE)}
      /\ ToSet(<<FollowRequest(FALSE, epoch, FALSE)>>) = {FollowRequest(FALSE, epoch, FALSE)}
  <2>1. epoch \in Epoch
    BY DEF TypeInv, TypeOK
  <2>2. /\ AimRequest(TRUE) \in Request(Epoch)
        /\ AimRequest(FALSE) \in Request(Epoch)
        /\ FollowRequest(TRUE, epoch, FALSE) \in Request(Epoch)
        /\ FollowRequest(FALSE, epoch, FALSE) \in Request(Epoch)
    BY <2>1, RequestType, Constants
  <2> QED
    BY <2>2, OneSet, EmptySeq, EmptySet
<1>c. \A on \in BOOLEAN :
        /\ AimRequest(on).epoch = 0 /\ ~AimRequest(on).after
        /\ FollowRequest(on, epoch, FALSE).epoch = epoch
        /\ ~FollowRequest(on, epoch, FALSE).after
  BY DEF AimRequest, FollowRequest
<1>1. CASE Voice
  <2>1. ASSUME NEW i \in Id, Wake(i) PROVE RequestInv'
    BY <2>1, WakeRequests, WakeType
  <2>2. ASSUME NEW i \in Id, NEW s \in {"orienting", "aligned", "held", "failed"},
               Orientation(i, s)
        PROVE  RequestInv'
    BY <2>2, OrientationRequests
  <2>3. ASSUME NEW fault \in BOOLEAN, Speaking(fault) \/ Gesture(fault) \/ Cognition(fault)
        PROVE  RequestInv'
    BY <2>3, <1>a DEF Speaking, Gesture, Cognition, AskNothing, turnVars
  <2>4. CASE Done
    BY <2>4, EndTurnRequests DEF Done
  <2>5. CASE AskForBook
    BY <2>5, <1>a DEF AskForBook, AskNothing, turnVars
  <2>6. CASE ReleaseBook
    <3>1. PICK q \in {<<AimRequest(FALSE)>>, <<>>} : Ask(q)
      BY <2>6 DEF ReleaseBook
    <3>2. q \in Seq(Request(Epoch)) /\ \A r \in ToSet(q) : r.epoch \in {0, epoch} /\ ~r.after
      BY <1>b, <1>c
    <3>3. UNCHANGED <<epoch, activeId, gazing, wanted>>
      BY <2>6 DEF ReleaseBook, turnVars
    <3> QED
      BY <3>1, <3>2, <3>3, RequestsOfTurn
  <2> QED
    BY <1>1, <2>1, <2>2, <2>3, <2>4, <2>5, <2>6 DEF Voice
<1>2. CASE Answers
  <2>1. ASSUME NEW k \in DOMAIN asked, FollowAnswered(k) PROVE RequestInv'
    BY <2>1, AnsweredRequests
  <2>2. ASSUME NEW k \in DOMAIN centers, CenterAccepted(k) \/ CenterFinished(k)
        PROVE  RequestInv'
    BY <2>2, <1>a DEF CenterAccepted, CenterFinished, AskNothing, turnVars
  <2>3. ASSUME NEW k \in DOMAIN playing, ClipStep(k) PROVE RequestInv'
    <3>1. UNCHANGED <<epoch, activeId, gazing, wanted>>
      BY <2>3, ClipShape DEF turnVars
    <3>2. CASE AskNothing
      BY <1>a, <3>1, <3>2 DEF AskNothing
    <3>3. CASE ~AskNothing
      <4>1. PICK q \in {<<FollowRequest(TRUE, epoch, FALSE)>>, <<>>} : Ask(q)
        BY <2>3, <3>3, ClipShape
      <4>2. q \in Seq(Request(Epoch)) /\ \A r \in ToSet(q) : r.epoch \in {0, epoch} /\ ~r.after
        BY <1>b, <1>c
      <4> QED
        BY <3>1, <4>1, <4>2, RequestsOfTurn
    <3> QED
      BY <3>2, <3>3
  <2> QED
    BY <1>2, <2>1, <2>2, <2>3 DEF Answers
<1>3. CASE Tick
  <2>1. CASE TickSound
    <3>1. ASSUME NEW fault \in BOOLEAN, UndoSoundTurn(fault) PROVE RequestInv'
      BY <3>1, <1>a DEF UndoSoundTurn, AskNothing, turnVars
    <3>2. CASE CloseSilentTurn
      BY <3>2, EndTurnRequests DEF CloseSilentTurn
    <3>3. CASE UNCHANGED <<soundId, centers, turnVars>> /\ AskNothing
      BY <3>3, <1>a DEF AskNothing, turnVars
    <3> QED
      BY <2>1, <3>1, <3>2, <3>3 DEF TickSound
  <2>2. CASE TickLight
    <3>1. UNCHANGED <<epoch, activeId, gazing, wanted>>
      BY <2>2 DEF TickLight, turnVars
    <3>2. CASE AskNothing
      BY <1>a, <3>1, <3>2 DEF AskNothing
    <3>3. CASE ~AskNothing
      <4>1. PICK q \in {<<AimRequest(TRUE)>>, <<AimRequest(FALSE)>>} : Ask(q)
        BY <2>2, <3>3 DEF TickLight, BookStays, BookStarts, BookIsLit, BookGivesUp
      <4>2. q \in Seq(Request(Epoch)) /\ \A r \in ToSet(q) : r.epoch \in {0, epoch} /\ ~r.after
        BY <1>b, <1>c
      <4> QED
        BY <3>1, <4>1, <4>2, RequestsOfTurn
    <3> QED
      BY <3>2, <3>3
  <2>3. CASE TickReact
    BY <2>3, <1>a DEF TickReact, AskNothing, turnVars
  <2>4. CASE TickLeave
    <3>1. UNCHANGED <<epoch, activeId, gazing, wanted>>
      BY <2>4 DEF TickLeave, turnVars
    <3>2. CASE AskNothing
      BY <1>a, <3>1, <3>2 DEF AskNothing
    <3>3. CASE ~AskNothing
      <4> DEFINE off == <<FollowRequest(FALSE, epoch, FALSE)>>
      <4>1. PICK p \in {off, <<>>}, q \in {off, <<>>} : Ask(p \o q)
        BY <2>4, <3>3 DEF TickLeave, ComeBack, Leave
      <4>2. /\ p \in Seq(Request(Epoch)) /\ \A r \in ToSet(p) : r.epoch \in {0, epoch} /\ ~r.after
            /\ q \in Seq(Request(Epoch)) /\ \A r \in ToSet(q) : r.epoch \in {0, epoch} /\ ~r.after
        BY <1>b, <1>c
      <4> HIDE DEF off
      <4>3. p \o q \in Seq(Request(Epoch)) /\ ToSet(p \o q) = ToSet(p) \cup ToSet(q)
        BY <4>2, ConcatSet
      <4>4. \A r \in ToSet(p \o q) : r.epoch \in {0, epoch} /\ ~r.after
        BY <4>2, <4>3
      <4> QED
        BY <3>1, <4>1, <4>3, <4>4, RequestsOfTurn
    <3> QED
      BY <3>2, <3>3
  <2> QED
    BY <1>3, <2>1, <2>2, <2>3, <2>4 DEF Tick
<1>4. CASE PresenceChanges \/ VisionStatus \/ Greet
  BY <1>4, <1>a DEF PresenceChanges, VisionStatus, Greet, AskNothing, turnVars
<1>5. CASE Vision
  BY <1>5, ServedRequests DEF Vision, turnVars
<1>6. CASE UNCHANGED vars
  BY <1>6, <1>a DEF vars, turnVars
<1> QED
  BY <1>1, <1>2, <1>3, <1>4, <1>5, <1>6 DEF Next

LEMMA RequestsInit == Init => RequestInv
<1> SUFFICES ASSUME Init PROVE RequestInv
  OBVIOUS
<1>1. asked = <<>> /\ stopped = NoTurn /\ wanted = NoTurn /\ ToSet(asked) = {}
  BY EmptySet DEF Init, VisionInit
<1> QED
  BY <1>1 DEF RequestInv, OffInv, AnswersInv, WantedInv, SilentInv

(* An order to stop that an older turn gave is made up for: when nothing   *)
(* is left to answer, the last order to stop is of this turn or of a later *)
(* one than the turn that wants the face (_follow, node.py 425-442).       *)
THEOREM OffIsRepaired == Spec => []OldOffIsRepaired
<1>1. Init => TypeInv /\ RequestInv
  BY TypeInit, RequestsInit
<1>2. TypeInv /\ RequestInv /\ [Next]_vars => (TypeInv /\ RequestInv)'
  BY TypeStep, RequestsStep
<1>3. TypeInv /\ RequestInv => OldOffIsRepaired
  <2> SUFFICES ASSUME TypeInv, RequestInv, gazing, wanted # NoTurn, stopped # NoTurn,
                      \A k \in DOMAIN asked : asked[k].kind = "aim"
               PROVE  stopped >= wanted
    BY DEF OldOffIsRepaired
  <2>1. ~Owed
    BY DEF Owed, Repair, ToSet
  <2> QED
    BY <2>1, ElementType DEF RequestInv, OffInv
<1> QED
  BY <1>1, <1>2, <1>3, PTL DEF Spec

-----------------------------------------------------------------------------
(* Where a return to rest is sent from.                                    *)

\* The goals of this state are goals of the last one, or are not over a turn.
SparesTurn == \A c \in ToSet(centers) : c.over # "turn"

LEMMA OverKept ==
  ASSUME centers' \in Seq(Goal), centers \in Seq(Goal), SparesTurn,
         DOMAIN centers' = DOMAIN centers,
         \A k \in DOMAIN centers : centers'[k].over = centers[k].over
  PROVE  SparesTurn'
  BY DEF SparesTurn, ToSet

LEMMA SentSpares ==
  ASSUME TypeInv, SparesTurn, NEW use \in {"book", "free"},
         SendCenter(use) \/ UNCHANGED centers
  PROVE  SparesTurn'
<1>1. centers \in Seq(Goal) /\ epoch \in Epoch
  BY DEF TypeInv, TypeOK, Goal
<1>2. CASE SendCenter(use)
  <2>1. \A c \in ToSet(centers') : c \in ToSet(centers) \/ c.over = use
    BY <1>1, <1>2, SendCenterType
  <2> QED
    BY <2>1 DEF SparesTurn
<1> QED
  BY <1>2 DEF SparesTurn

LEMMA CentersStep == TypeInv /\ RequestInv /\ SparesTurn /\ [Next]_vars => SparesTurn'
<1> SUFFICES ASSUME TypeInv, RequestInv, SparesTurn, [Next]_vars PROVE SparesTurn'
  OBVIOUS
<1>0. /\ centers \in Seq(Goal) /\ epoch \in Epoch
      /\ Len(centers) \in Nat /\ DOMAIN centers = 1 .. Len(centers)
      /\ \A k \in 1 .. Len(centers) : centers[k] \in Goal
  BY LenProperties, ElementOfSeq DEF TypeInv, TypeOK, Goal
<1>a. CASE UNCHANGED centers
  BY <1>a DEF SparesTurn
<1>b. ~Conversation => Use \in {"book", "free"}
  BY DEF Use
<1>1. ASSUME NEW i \in Id, Wake(i) PROVE SparesTurn'
  <2> DEFINE let(k) == [centers[k] EXCEPT !.handle = @ /\ ~NewTurn(i)]
  <2>1. centers' = [k \in DOMAIN centers |-> let(k)]
    BY <1>1 DEF Wake
  <2>2. \A k \in DOMAIN centers : let(k).over = centers[k].over
    BY <1>0 DEF Goal
  <2> HIDE DEF let
  <2> QED
    BY <2>1, <2>2 DEF SparesTurn, ToSet
<1>2. ASSUME NEW cancelled \in BOOLEAN, EndTurn(cancelled) PROVE SparesTurn'
  BY <1>2, SentSpares DEF EndTurn
<1>3. ASSUME NEW k \in DOMAIN asked, FollowAnswered(k) PROVE SparesTurn'
  <2>1. CASE RestsAfter(asked[k])
    <3>1. asked[k] \in ToSet(asked)
      BY InSet
    <3>2. ~Conversation
      BY <2>1, <3>1 DEF RestsAfter, RequestInv, AnswersInv
    <3> QED
      BY <1>3, <1>b, <2>1, <3>2, SentSpares DEF FollowAnswered
  <2>2. CASE ~RestsAfter(asked[k])
    BY <1>3, <1>a, <2>2 DEF FollowAnswered
  <2> QED
    BY <2>1, <2>2
<1>4. ASSUME NEW k \in DOMAIN centers, CenterAccepted(k) \/ CenterFinished(k)
      PROVE  SparesTurn'
  <2> DEFINE taken(c) == IF c = k THEN [centers[k] EXCEPT !.running = TRUE,
                                           !.handle = @ \/ centers[k].epoch = epoch]
                         ELSE [centers[c] EXCEPT !.handle = @ /\ centers[k].epoch # epoch]
  <2>1. centers' = RemoveAt(centers, k) \/ centers' = [c \in DOMAIN centers |-> taken(c)]
    BY <1>4 DEF CenterAccepted, CenterFinished
  <2>2. \A c \in DOMAIN centers : taken(c).over = centers[c].over
    BY <1>0 DEF Goal
  <2> HIDE DEF taken
  <2>3. CASE centers' = RemoveAt(centers, k)
    <3>1. ToSet(centers') \subseteq ToSet(centers)
      BY <1>0, <2>3, RemoveAtSet
    <3> QED
      BY <3>1 DEF SparesTurn
  <2>4. CASE centers' = [c \in DOMAIN centers |-> taken(c)]
    BY <2>2, <2>4 DEF SparesTurn, ToSet
  <2> QED
    BY <2>1, <2>3, <2>4
<1>5. ASSUME NEW fault \in BOOLEAN, UndoSoundTurn(fault) PROVE SparesTurn'
  <2>1. CASE Owner(fault, NoId) = "idle"
    <3>1. ~Conversation
      BY <2>1 DEF Owner
    <3> QED
      BY <1>5, <1>b, <2>1, <3>1, SentSpares DEF UndoSoundTurn
  <2>2. CASE Owner(fault, NoId) # "idle"
    BY <1>5, <1>a, <2>2 DEF UndoSoundTurn
  <2> QED
    BY <2>1, <2>2
<1>6. CASE Voice
  <2>1. ASSUME NEW i \in Id, NEW s \in {"orienting", "aligned", "held", "failed"},
               Orientation(i, s)
        PROVE  SparesTurn'
    BY <2>1, <1>a DEF Orientation
  <2>2. ASSUME NEW fault \in BOOLEAN, Speaking(fault) \/ Gesture(fault) \/ Cognition(fault)
        PROVE  SparesTurn'
    BY <2>2, <1>a DEF Speaking, Gesture, Cognition
  <2>3. CASE Done
    BY <2>3, <1>2 DEF Done
  <2>4. CASE AskForBook \/ ReleaseBook
    BY <2>4, <1>a DEF AskForBook, ReleaseBook
  <2> QED
    BY <1>1, <1>6, <2>1, <2>2, <2>3, <2>4 DEF Voice
<1>7. CASE Answers
  <2>1. ASSUME NEW k \in DOMAIN playing, ClipStep(k) PROVE SparesTurn'
    BY <2>1, <1>a, ClipShape
  <2> QED
    BY <1>3, <1>4, <1>7, <2>1 DEF Answers
<1>8. CASE Tick
  <2>1. CASE TickSound
    BY <2>1, <1>5, <1>2, <1>a DEF TickSound, CloseSilentTurn
  <2>2. CASE TickLight \/ TickReact \/ TickLeave
    BY <2>2, <1>a DEF TickLight, TickReact, TickLeave
  <2> QED
    BY <1>8, <2>1, <2>2 DEF Tick
<1>9. CASE PresenceChanges \/ VisionStatus \/ Greet \/ Vision \/ UNCHANGED vars
  BY <1>9, <1>a DEF PresenceChanges, VisionStatus, Greet, Vision, vars
<1> QED
  BY <1>6, <1>7, <1>8, <1>9 DEF Next

(* No return to rest is sent into a conversation (_follow, node.py         *)
(* 436-442): whoever waits for an answer to send it gives it up when a new *)
(* turn has begun.                                                         *)
THEOREM CenterSpares == Spec => []CenterSparesTurn
<1>1. Init => TypeInv /\ RequestInv /\ SparesTurn
  BY TypeInit, RequestsInit, EmptySet DEF Init, SparesTurn
<1>2. TypeInv /\ RequestInv /\ SparesTurn /\ [Next]_vars
        => (TypeInv /\ RequestInv /\ SparesTurn)'
  BY TypeStep, RequestsStep, CentersStep
<1>3. SparesTurn => CenterSparesTurn
  BY DEF SparesTurn, CenterSparesTurn, ToSet
<1> QED
  BY <1>1, <1>2, <1>3, PTL DEF Spec

-----------------------------------------------------------------------------
(* A turn towards a sound.                                                 *)

SoundIsNew == soundId \notin answered

LEMMA SoundStep == TypeInv /\ SoundIsNew /\ [Next]_vars => SoundIsNew'
<1> SUFFICES ASSUME TypeInv, SoundIsNew, [Next]_vars PROVE SoundIsNew'
  OBVIOUS
<1>0. NoId \notin answered
  BY Constants DEF TypeInv, TypeOK
<1>a. CASE answered' = answered /\ soundId' \in {soundId, NoId}
  BY <1>0, <1>a DEF SoundIsNew
<1>1. ASSUME NEW i \in Id, Wake(i) PROVE SoundIsNew'
  BY <1>0, <1>1, Constants DEF Wake, SoundIsNew
<1>2. ASSUME NEW i \in Id, NEW s \in {"orienting", "aligned", "held", "failed"},
             Orientation(i, s)
      PROVE  SoundIsNew'
  BY <1>0, <1>2 DEF Orientation, SoundIsNew
<1>3. CASE Voice
  <2>1. ASSUME NEW fault \in BOOLEAN, Speaking(fault) \/ Gesture(fault) \/ Cognition(fault)
        PROVE  SoundIsNew'
    BY <2>1, <1>a DEF Speaking, Gesture, Cognition, soundVars
  <2>2. CASE Done \/ AskForBook \/ ReleaseBook
    BY <2>2, <1>a DEF Done, AskForBook, ReleaseBook, soundVars
  <2> QED
    BY <1>1, <1>2, <1>3, <2>1, <2>2 DEF Voice
<1>4. CASE Answers
  BY <1>4, <1>a, ClipShape DEF Answers, FollowAnswered, CenterAccepted, CenterFinished, soundVars
<1>5. CASE Tick
  <2>1. CASE TickSound
    BY <2>1, <1>a DEF TickSound, UndoSoundTurn, CloseSilentTurn
  <2>2. CASE TickLight \/ TickReact \/ TickLeave
    BY <2>2, <1>a DEF TickLight, TickReact, TickLeave, soundVars
  <2> QED
    BY <1>5, <2>1, <2>2 DEF Tick
<1>6. CASE PresenceChanges \/ VisionStatus \/ Greet \/ Vision \/ UNCHANGED vars
  BY <1>6, <1>a DEF PresenceChanges, VisionStatus, Greet, Vision, vars, soundVars
<1> QED
  BY <1>3, <1>4, <1>5, <1>6 DEF Next

\* What the undoing of a sound turn has looked at.
LEMMA UndoIsUnclaimed ==
  ASSUME TypeInv, OneMotion, AwayInv, SoundIsNew, [Next]_vars,
         soundId # NoId, soundId' = NoId, Len(centers') > Len(centers)
  PROVE  /\ soundId \notin answered /\ ~Conversation
         /\ ~HoldsHead /\ ~away /\ ~gaze /\ playing = <<>>
<1>0. Len(centers) \in Nat
  BY LenProperties DEF TypeInv, TypeOK
<1>a. soundId' # soundId
  OBVIOUS
<1>b. Len(centers') # Len(centers)
  BY <1>0
<1>1. PICK fault \in BOOLEAN : UndoSoundTurn(fault)
  <2>1. ASSUME NEW i \in Id, Wake(i) PROVE FALSE
    <3> DEFINE let(k) == [centers[k] EXCEPT !.handle = @ /\ ~NewTurn(i)]
    <3>1. centers' = [k \in DOMAIN centers |-> let(k)]
      BY <2>1 DEF Wake
    <3> HIDE DEF let
    <3>2. DOMAIN centers = 1 .. Len(centers)
      BY LenProperties DEF TypeInv, TypeOK
    <3>3. Len(centers') = Len(centers)
      BY <1>0, <3>1, <3>2
    <3> QED
      BY <1>b, <3>3
  <2>2. ASSUME NEW i \in Id, NEW s \in {"orienting", "aligned", "held", "failed"},
               Orientation(i, s)
        PROVE  FALSE
    BY <1>b, <2>2 DEF Orientation
  <2>3. ASSUME NEW f \in BOOLEAN, Speaking(f) \/ Gesture(f) \/ Cognition(f)
        PROVE  FALSE
    BY <1>a, <2>3 DEF Speaking, Gesture, Cognition, soundVars
  <2>4. ~(Done \/ AskForBook \/ ReleaseBook)
    BY <1>a
    DEF Done, AskForBook, ReleaseBook, soundVars
  <2>5. ~Answers
    BY <1>a, ClipShape
    DEF Answers, FollowAnswered, CenterAccepted, CenterFinished, soundVars
  <2>6. ~(TickLight \/ TickReact \/ TickLeave)
    BY <1>a
    DEF TickLight, TickReact, TickLeave, soundVars
  <2>7. ~(PresenceChanges \/ VisionStatus \/ Greet \/ Vision \/ UNCHANGED vars)
    BY <1>a
    DEF PresenceChanges, VisionStatus, Greet, Vision, vars, soundVars
  <2>8. TickSound
    <3>1. ~Voice
      BY <2>1, <2>2, <2>3, <2>4 DEF Voice
    <3> QED
      BY <2>5, <2>6, <2>7, <3>1, Zenon DEF Next, Tick
  <2>9. ~CloseSilentTurn /\ ~UNCHANGED <<soundId, centers, turnVars>>
    BY <1>a DEF CloseSilentTurn
  <2> QED
    BY <2>8, <2>9 DEF TickSound
<1>2. ~motionBusy /\ Owner(fault, NoId) = "idle"
  BY <1>1, <1>b DEF UndoSoundTurn
<1>3. ~Conversation /\ ~HoldsHead /\ ~away /\ ~arbGaze
  BY <1>2 DEF Owner
<1>4. ~gaze
  BY <1>3 DEF AwayInv, TickInv
<1>5. playing = <<>>
  BY <1>2 DEF OneMotion
<1> QED
  BY <1>3, <1>4, <1>5 DEF SoundIsNew

(* A turn towards a sound is undone only when nobody answered it and       *)
(* nothing else has the head (tick, arbiter.py 129-140).                   *)
THEOREM UndoneUnclaimed == Spec => SoundTurnIsUnclaimed
<1> DEFINE Inv == TypeInv /\ OneMotion /\ AwayInv /\ SoundIsNew
           Step == soundId # NoId /\ soundId' = NoId /\ Len(centers') > Len(centers)
                     => /\ soundId \notin answered /\ ~Conversation
                        /\ ~HoldsHead /\ ~away /\ ~gaze /\ playing = <<>>
<1>1. Init => Inv
  BY TypeInit DEF Init, OneMotion, AwayInv, AwayIsAlone, TickInv, SoundIsNew
<1>2. Inv /\ [Next]_vars => Inv'
  BY TypeStep, OneMotionStep, AwayStep, SoundStep
<1>3. Inv /\ [Next]_vars => [Step]_vars
  BY UndoIsUnclaimed
<1>4. SoundTurnIsUnclaimed <=> [][Step]_vars
  BY DEF SoundTurnIsUnclaimed
<1> HIDE DEF Inv, Step
<1> QED
  BY <1>1, <1>2, <1>3, <1>4, PTL DEF Spec
=============================================================================
