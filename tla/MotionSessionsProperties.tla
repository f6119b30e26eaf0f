---------------------- MODULE MotionSessionsProperties ----------------------
(***************************************************************************)
(* What the transports of the motion daemon must get right.                *)
(***************************************************************************)
EXTENDS MotionSessions

(* At most one remote client controls the lamp: an authenticated handler   *)
(* that still reads requests is the one _owner names, and _owner never     *)
(* names a handler that has ended (_handle, middleware_server.py 134-142). *)
SoleOwner ==
  /\ \A c \in auth : conn[c] = "open" => session = c
  /\ session # NoConn => conn[session] = "open"

Asks(c, t) == \E i \in Slot : reply[c][i].t = t

Waits(c, t) == \E i \in Slot : reply[c][i] = [t |-> t, stage |-> "wait"]

(* A local command that the owner has not begun has somebody waiting for   *)
(* it: whichever way its clients left, a sound turn nobody waits for is    *)
(* not carried out later (_release_ticket, local_control.py 117-128).      *)
WaitingIsHeld ==
  \A t \in Created(ledger) :
    Unstarted(t) => \E c \in Local : Waits(c, t)

(* Nobody loses a command because another client of the same ticket left:  *)
(* a ticket is invalidated only when no connection that is still open      *)
(* waits for it (_ticket_holders, local_control.py 43-45).                 *)
LastHolderInvalidates ==
  [][\A t \in invalidated' \ invalidated :
       \A c \in Local : conn[c] = "open" => ~Waits(c, t)]_vars

(* A remote session that ended leaves no command behind, except until the  *)
(* owner's next tick sees the disconnection: a command in flight was asked *)
(* for by a session that is still open (remote_disconnected() before       *)
(* _owner is given up, middleware_server.py 156-159).                      *)
LostSessionLeavesNothing ==
  \A t \in ledger.pending :
    ledger.req[t].origin = "remote" /\ thread = "running" =>
      disconnect \/ \E c \in Remote : conn[c] = "open" /\ Asks(c, t)

(* The arm is parked when no thread can move it any more and no connection *)
(* is left that could ask for it (_serve, middleware_server.py 227-263).   *)
ParkedIsStill ==
  serve = "parked" =>
    /\ thread # "running"
    /\ thread = "ended" => ledger.pending = {}
    /\ \A c \in Conn : conn[c] = "none"

(* The shutdown ends without the deadline that kills the process, provided *)
(* no connection is caught between its acceptance and the first step of    *)
(* its handler, which close() does not see (MotionTcpServer.close,         *)
(* middleware_server.py 62-76): with a client that stays, only the         *)
(* deadline ends that one.                                                 *)
ShutdownCompletes ==
  (serve = "joining" /\ \A c \in Remote : conn[c] # "accepted")
    ~> (serve \in {"parked", "killed"})
=============================================================================
