--------------------------- MODULE TicketLifecycle ---------------------------
(***************************************************************************)
(* What the motion controller promises a client about a command ticket,    *)
(* whatever the arm, the mailbox and the other clients do                  *)
(* (CommandTicket and CommandResult in src/motion/controller.py): it is    *)
(* open from its submission, may be accepted once, and ends once, with one *)
(* result that never changes.  No request id has two tickets that are both *)
(* still to end.                                                           *)
(***************************************************************************)
CONSTANTS Ticket, Id, NoId

VARIABLES phase, id

Ended == {"completed", "failed", "cancelled"}

Phases == {"unborn", "open", "accepted"} \cup Ended

Live(t) == phase[t] \in {"open", "accepted"}

Init == phase = [t \in Ticket |-> "unborn"] /\ id = [t \in Ticket |-> NoId]

\* Where one step may take a ticket.
After(p) ==
  CASE p = "unborn"   -> {"unborn", "open", "failed"}
    [] p = "open"     -> {"open", "accepted"} \cup Ended
    [] p = "accepted" -> {"accepted"} \cup Ended
    [] p \in Ended    -> {p}

(* One step may take several tickets further: a disconnection ends all of  *)
(* them.  A ticket gets its id when it is submitted.                       *)
Step ==
  /\ phase' \in [Ticket -> Phases]
  /\ id' \in [Ticket -> Id \cup {NoId}]
  /\ \A t \in Ticket :
       /\ phase'[t] \in After(phase[t])
       /\ phase[t] # "unborn" => id'[t] = id[t]
       /\ (phase'[t] = "unborn") = (id'[t] = NoId)
  /\ \A t, u \in Ticket : (Live(t)' /\ Live(u)' /\ t # u) => id'[t] # id'[u]

Spec == Init /\ [][Step]_<<phase, id>>
=============================================================================
