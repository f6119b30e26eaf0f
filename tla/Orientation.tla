---------------------------- MODULE Orientation ----------------------------
(***************************************************************************)
(* The base-yaw orientation coordinator of src/motion/orientation.py as    *)
(* operators on its state: a sound turn (Acquire), the return to the       *)
(* centre, the release, the note that the remote controller went away and  *)
(* the observation made once per control period.                           *)
(*                                                                         *)
(* Angles are abstracted to what the coordinator decides from them: a turn *)
(* starts aligned or not, an observation is within the settle window or    *)
(* not.  Times are counted in control periods and saturate at the          *)
(* threshold they are compared with.                                       *)
(***************************************************************************)
EXTENDS Naturals

CONSTANTS
  Speech,          \* identities of utterances
  NoSpeech,        \* "no utterance"
  AcquireTimeout,  \* periods until a turn that does not settle times out
  SettleTicks,     \* periods of settled observations that end a movement
  DisconnectHold   \* periods the anchor is kept after a disconnection

ASSUME OrientationAssumption ==
  /\ NoSpeech \notin Speech
  /\ AcquireTimeout \in Nat \ {0}
  /\ SettleTicks \in Nat \ {0}
  /\ DisconnectHold \in Nat \ {0}

OrientationState ==
  {"idle", "orienting", "aligned", "timeout", "returning", "centered"}

(***************************************************************************)
(* age counts the periods from _started_at.  settle and lost are 0 while   *)
(* _settle_since and _disconnected_at are None, and one more than the      *)
(* periods since then otherwise.  age and settle are dead outside a        *)
(* movement and kept 0 there.                                              *)
(***************************************************************************)
Orientation ==
  [state : OrientationState, speech : Speech \cup {NoSpeech},
   age : 0 .. AcquireTimeout, settle : 0 .. SettleTicks,
   lost : 0 .. DisconnectHold + 1]

IdleOrientation ==
  [state |-> "idle", speech |-> NoSpeech, age |-> 0, settle |-> 0, lost |-> 0]

\* Fault: a new anchor does not reset the note of the disconnection.
AcquireKeepsLoss(o, s, lightBusy, aligned) ==
  IF s = o.speech \/ lightBusy
    THEN o
    ELSE [o EXCEPT !.state = IF aligned THEN "aligned" ELSE "orienting",
                   !.speech = s, !.age = 0, !.settle = 0]

(* A known utterance and a busy task light leave the coordinator as it is. *)
Acquire(o, s, lightBusy, aligned) ==
  IF s = o.speech \/ lightBusy
    THEN o
    ELSE [state |-> IF aligned THEN "aligned" ELSE "orienting", speech |-> s,
          age |-> 0, settle |-> 0, lost |-> 0]

ReturnCenter(o) ==
  [o EXCEPT !.state = "returning", !.age = 0, !.settle = 0, !.lost = 0]

Release == IdleOrientation

Disconnected(o) == [o EXCEPT !.lost = 1]

Saturating(n, bound) == IF n < bound THEN n + 1 ELSE bound

(* One control period later: the elapsed times as the next observation     *)
(* will compare them.                                                      *)
Elapse(o) ==
  [o EXCEPT !.age  = IF o.state = "orienting" THEN Saturating(@, AcquireTimeout) ELSE 0,
            !.lost = IF @ = 0 THEN 0 ELSE Saturating(@, DisconnectHold + 1)]

(* A period without an observation: the arm counts as settled meanwhile if *)
(* it was.                                                                 *)
Unobserved(o) ==
  [Elapse(o) EXCEPT !.settle = IF @ = 0 THEN 0 ELSE Saturating(@, SettleTicks)]

\* Fault: only a turn that has not settled is given up.
HoldExpiredOrienting(o) == o.state = "orienting" /\ o.lost > DisconnectHold

HoldExpired(o) ==
  o.state \in {"orienting", "aligned", "timeout"} /\ o.lost > DisconnectHold

\* Fault: no timeout.
ReachedUntimed(o, n) ==
  IF n = SettleTicks
    THEN IF o.state = "orienting" THEN "aligned" ELSE "centered"
    ELSE o.state

(* The state a movement reaches with n consecutive settled observations.   *)
(* A turn that settles in the very period it would time out is aligned.    *)
Reached(o, n) ==
  IF n = SettleTicks
    THEN IF o.state = "orienting" THEN "aligned" ELSE "centered"
    ELSE IF o.state = "orienting" /\ o.age = AcquireTimeout THEN "timeout" ELSE o.state

Observe(o, settled) ==
  IF HoldExpired(o) THEN ReturnCenter(o)
  ELSE IF o.state \notin {"orienting", "returning"} THEN Elapse(o)
  ELSE LET n == IF settled THEN Saturating(o.settle, SettleTicks) ELSE 0
           s == Reached(o, n)
       IN Elapse([o EXCEPT !.state = s, !.settle = IF s = o.state THEN n ELSE 0])
=============================================================================
