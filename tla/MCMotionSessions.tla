-------------------------- MODULE MCMotionSessions --------------------------
(***************************************************************************)
(* Instances of MotionSessions for TLC.                                    *)
(***************************************************************************)
EXTENDS MotionSessionsProperties

\* One remote request and one local request that two clients may share.
SharedMenu == {[id |-> "i1", origin |-> "remote"], [id |-> "i2", origin |-> "local"]}

SharedIds == {r.id : r \in SharedMenu}

=============================================================================
