----------------------------- MODULE MCPlayback -----------------------------
(* Two replies and one failure, wherever it strikes.                       *)
EXTENDS PlaybackProperties
=============================================================================
