----------------------------- MODULE MCMotionLink -----------------------------
(* Instances of MotionLink for TLC.                                        *)
EXTENDS MotionLinkProperties, TLC

Symmetry == Permutations(Goal)
=============================================================================
