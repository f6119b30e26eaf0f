------------------------- MODULE MCMotionController -------------------------
(***************************************************************************)
(* Instances of MotionController for TLC: the requests each run may send.  *)
(***************************************************************************)
EXTENDS MotionControllerProperties

\* A request with the fields its kind does not read at fixed values.
Cmd(i, k) ==
  [id |-> i, kind |-> k, origin |-> "remote", speech |-> NoSpeech, target |-> i,
   replace |-> FALSE, repeat |-> 1]

Local(i, k) == [Cmd(i, k) EXCEPT !.origin = "local"]

Turn(i, s) == [Local(i, "orientation.acquire") EXCEPT !.speech = s]

\* Shared ids, both origins, both slots and the queue.
MailboxMenu ==
  {Cmd("i1", "track.point"), Local("i1", "system.heartbeat"),
   Cmd("i2", "track.point"), [Cmd("i3", "motion.play") EXCEPT !.repeat = 2]}

\* Everything that moves the arm, each under an id of its own.
ArmMenu ==
  {[Cmd("i1", "motion.play") EXCEPT !.repeat = 2],
   [Cmd("i2", "motion.play") EXCEPT !.replace = TRUE],
   [Cmd("i3", "motion.cancel") EXCEPT !.target = "i1"],
   Cmd("i4", "motion.interrupt"),
   Cmd("i5", "track.point"), Cmd("i6", "track.bearing"), Cmd("i7", "track.clear"),
   Cmd("i8", "face.step"), Cmd("i9", "face.clear"),
   Cmd("i10", "task_light.place"), Cmd("i11", "task_light.clear"),
   [Cmd("i12", "task_light.cancel") EXCEPT !.target = "i10"],
   Cmd("i13", "away.hold"), Cmd("i14", "away.clear"),
   Cmd("i15", "orientation.hold"), Turn("i16", "s1"), Turn("i17", "s2"),
   Local("i18", "orientation.return_center")}

\* One turn, a return, and the away pose that refuses turns.
AwayMenu ==
  {Turn("i1", "s1"), Local("i3", "orientation.return_center"),
   Cmd("i4", "away.hold"), Cmd("i5", "away.clear")}

\* What must end or be answered: turns of two utterances, one of them asked for
\* twice, tracking, a return.
LiveMenu ==
  {Turn("i1", "s1"), Turn("i2", "s2"), Turn("i3", "s1"), Cmd("i4", "track.point"),
   Local("i5", "orientation.return_center")}

IdsOf(menu) == {r.id : r \in menu}

MailboxIds == IdsOf(MailboxMenu)
ArmIds  == IdsOf(ArmMenu)
AwayIds == IdsOf(AwayMenu)
LiveIds == IdsOf(LiveMenu)

AnyEvent == {"disconnect", "eof", "stop", "fault"}
Losses == {"disconnect"}
LiveEvents == {"disconnect", "eof", "stop", "miss"}
NoEvent == {}

Sensorless == {"none"}
AllBands == {"cool", "warm", "hot"}
TwoUtterances == {"s1", "s2"}
=============================================================================
