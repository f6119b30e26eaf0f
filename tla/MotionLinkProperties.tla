------------------------- MODULE MotionLinkProperties -------------------------
(***************************************************************************)
(* What a motion that was asked for over the network must get right.       *)
(***************************************************************************)
EXTENDS MotionLink

(* The arm moves for a goal only while somebody waits for that very goal,  *)
(* or until the loss of its session is noticed - by the server, then by    *)
(* the controller.  Nothing else stops a motion nobody waits for, except   *)
(* that goals that timed out are left alone, and those whose cancellation  *)
(* did (_lost, transport.py 241-252; _handle, middleware_server.py         *)
(* 156-159; wait_cancelable, action_wait.py 31-48).                        *)
MovingIsAwaited ==
  \A g \in Goal : moving = g =>
    \/ future[Play(g)] = "pending" /\ goal[g] \in Awaiting
    \/ g \in gaveUp
    \/ lost
    \/ LET c == from[Play(g)] IN Owns(c) /\ c \in cut

\* The command of a goal may still reach the arm, or is moving it.
MayMove(g) ==
  \/ moving = g
  \/ Play(g) \in Range(queue)
  \/ future[Play(g)] = "submitted"
  \/ \E c \in Conn : handler[c] # "ended" /\ Play(g) \in Range(toPi[c])

(* What the goal reports is what the arm did: succeeded means that its     *)
(* motion was completed, canceled that it will not move the arm any more,  *)
(* in whatever order the answers of the motion and of its cancellation     *)
(* come and whatever connection they belong to (_play, node.py 124-143;    *)
(* wait_cancelable, action_wait.py 31-48).                                 *)
EndIsTrue ==
  \A g \in Goal :
    /\ goal[g] = "succeeded" => result[Play(g)] = "completed"
    /\ goal[g] = "canceled" => ~MayMove(g)

(* Whoever waits for a motion hears of its end, although the connection    *)
(* may break unnoticed: the bridge has its timeouts, the diagnostic        *)
(* client, which has none, its heartbeat (request and _heartbeats,         *)
(* remote_client.py 122-162).  It waits for a connection as long as it     *)
(* takes.                                                                  *)
EveryGoalEnds ==
  \A g \in Goal :
    (goal[g] = "waiting" /\ (client = "cli" => future[Play(g)] = "pending"))
      ~> goal[g] \in Ended
=============================================================================
