---------------------------- MODULE CaptureLabels ----------------------------
(***************************************************************************)
(* Which speech a captured frame of sound belongs to.                      *)
(*                                                                         *)
(* The Pi stamps the beginning and the end of a speech with the RTP clock  *)
(* of its capture, which it extrapolates from a packet                     *)
(* (src/device/audio.py).  The Jetson receives the frames by another way,  *)
(* delays them, and compares the stamps, all modulo 2^32                   *)
(* (lamp_device_bridge/audio.py).  Speech models when the events come;     *)
(* here is what the arithmetic of their stamps tells.                      *)
(***************************************************************************)
EXTENDS Integers, Sequences

CONSTANTS
  Modulus,  \* RTP_MODULUS: 2^32
  PreRoll,  \* pre_roll_frames * RTP_FRAME_TICKS: 9600
  Kept      \* completed speeches that are remembered: 8

ASSUME LabelAssumption ==
  /\ Modulus \in Nat \ {0} /\ Modulus % 2 = 0
  /\ PreRoll \in Nat /\ Kept \in Nat \ {0}

Stamp == 0 .. Modulus - 1

\* The clock of the capture, some ticks after its last packet.
At(packet, elapsed) == (packet + elapsed) % Modulus

\* How far a stamp lies behind another one, if negative before it.
RtpDelta(value, reference) ==
  ((value - reference + Modulus \div 2) % Modulus) - Modulus \div 2

NoSpeech == [id |-> "none"]

\* What is remembered: the last speeches that are over, and the open one.
Silence == [completed |-> <<>>, open |-> NoSpeech]

Begins(c, stamp, speech) ==
  [c EXCEPT !.open = [id |-> speech, start |-> stamp]]

\* An end that does not match the open speech is refused.
Ends(c, stamp, speech) ==
  IF c.open.id # speech THEN c
  ELSE LET all  == Append(c.completed,
                     [id |-> speech, start |-> c.open.start, end |-> stamp])
           from == IF Len(all) > Kept THEN 2 ELSE 1 IN
       [completed |-> SubSeq(all, from, Len(all)), open |-> NoSpeech]

\* From the pre-roll before the start of a speech on.
Reaches(speech, stamp) ==
  RtpDelta(stamp, (speech.start - PreRoll) % Modulus) >= 0

Covers(speech, stamp) ==
  Reaches(speech, stamp) /\ RtpDelta(stamp, speech.end) <= 0

\* The speech of a frame: the latest that covers it, else the open one.
SpeechOf(c, stamp) ==
  LET over == {i \in DOMAIN c.completed : Covers(c.completed[i], stamp)} IN
  IF over # {}
    THEN c.completed[CHOOSE i \in over : \A j \in over : i >= j].id
  ELSE IF c.open # NoSpeech /\ Reaches(c.open, stamp) THEN c.open.id
  ELSE NoSpeech.id
=============================================================================
