---------------------------- MODULE MCInteraction ----------------------------
(* Two utterances, two requests and one return to rest under way.          *)
EXTENDS InteractionProperties
=============================================================================
