------------------------------ MODULE MCSpeech ------------------------------
(* Two speeches and one failure, wherever it strikes; and two speeches on  *)
(* a capture clock of a few ticks, wherever it wraps.                      *)
EXTENDS SpeechProperties, CaptureLabels

Time == 0 .. 2 * Modulus

(* Two speeches as the Pi stamps them: the clock is extrapolated from a    *)
(* packet that came before.                                                *)
Heard(packet, s1, e1, s2) ==
  LET stamp(t) == At(packet % Modulus, t - packet) IN
  Begins(Ends(Begins(Silence, stamp(s1), "first"), stamp(e1), "first"),
         stamp(s2), "second")

\* The speech of a frame for somebody who knows the time without a wrap.
TrueSpeech(s1, e1, s2, t) ==
  IF s1 - PreRoll <= t /\ t <= e1 THEN "first"
  ELSE IF s2 - PreRoll <= t THEN "second" ELSE "none"

ASSUME LabelsAreTrue ==
  \A s1, e1, s2, packet \in Time :
    packet <= s1 /\ s1 <= e1 /\ e1 < s2 /\ e1 - s1 + PreRoll < Modulus \div 2 =>
      \A t \in Time :
        s1 - PreRoll <= t /\ t - s1 + PreRoll < Modulus
        /\ s2 - PreRoll - t <= Modulus \div 2 /\ t - s2 + PreRoll < Modulus \div 2
        => SpeechOf(Heard(packet, s1, e1, s2), t % Modulus)
             = TrueSpeech(s1, e1, s2, t)
=============================================================================
