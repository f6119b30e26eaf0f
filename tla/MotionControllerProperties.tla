--------------------- MODULE MotionControllerProperties ---------------------
(***************************************************************************)
(* What makes the motion controller correct, over MotionController.        *)
(***************************************************************************)
EXTENDS MotionController

CONSTANT NoId   \* the id of a ticket that does not exist yet

ASSUME NoIdAssumption == NoId \notin Id

Open(t) == t \in Created(ledger) /\ ledger.done[t] = "none"

-----------------------------------------------------------------------------
(* Tickets.                                                                *)

(* A ticket is in flight exactly while it exists without a final result.   *)
(* Submission, cancellation, the disconnection, the fault and the end of   *)
(* every handler must agree on both, under every interleaving.             *)
PendingIffOpen == ledger.pending = {t \in Ticket : Open(t)}

Holders(t) ==
  {p \in {"queue"} : \E i \in DOMAIN queue : queue[i] = t} \cup
  {p \in {"latest"} : \E k \in TrackKinds : latest[k] = t} \cup
  {p \in {"took"} : \E k \in TrackKinds : took[k] = t} \cup
  {p \in {"cur"} : cur = t} \cup
  {p \in {"active"} : active = t} \cup
  {p \in {"task"} : task = t} \cup
  {p \in {"turn"} : turn = t} \cup
  {p \in {"back"} : back = t}

(* No ticket is lost and none is answered twice over: whatever is in       *)
(* flight waits in exactly one place - the queue, a tracking slot, the     *)
(* owner's hands or one of the four tickets in progress - from which it    *)
(* will be finished.                                                       *)
OneHolder == \A t \in ledger.pending : Cardinality(Holders(t)) = 1

(* No two tickets of one request id are in flight, even when the bounded   *)
(* cache of recent results has forgotten the first.                        *)
OneInFlightPerId ==
  \A t, u \in ledger.pending : ledger.req[t].id = ledger.req[u].id => t = u

(* Once begun, a command is still the one its client waits for: the owner  *)
(* never carries out a command that was cancelled while it lay between the *)
(* queue and the owner's claim.                                            *)
BegunIsWaitedFor == pc = "apply" => cur \in ledger.pending

(* A request that is sent again is not carried out again, unless the cache *)
(* has forgotten it: two accepted tickets of one id have at least as many  *)
(* other commands beside them as the cache of recent results holds.        *)
ExecutedOnce ==
  \A t, u \in Created(ledger) :
    (/\ t # u /\ ledger.req[t].id = ledger.req[u].id
     /\ ledger.ack[t] = "accepted" /\ ledger.ack[u] = "accepted")
    => Cardinality(Created(ledger) \ {t, u}) >= RecentMax

(* Nobody waits for a controller that has ended: whatever was submitted    *)
(* before, during or after its shutdown has a final result.                *)
EndedAnswersAll == pc = "ended" => ledger.pending = {}

(* A local command waits for the owner untouched: until the owner begins   *)
(* it only its own clients, the loss of the remote session or the end of   *)
(* the owner take it away, and once begun it stays begun until it ends, so *)
(* that no client cancels it any more (controller.py 202-220).  This is    *)
(* what MotionSessions takes of the owner.                                 *)
LocalsAwaitTheOwner ==
  [][\A t \in ledger.pending :
       ledger.req[t].origin = "local" =>
         IF ledger.req[t].id \in ledger.started
           THEN t \in ledger'.pending => ledger.req[t].id \in ledger'.started
           ELSE \/ t \in ledger'.pending /\ ledger'.ack[t] = "none"
                \/ t \in invalidated' \ invalidated
                \/ ledger'.pending = {} /\ ((disconnect /\ ~disconnect') \/ pc' = "ended")]_vars

(* The controller implements the life cycle its clients rely on.           *)
Phase(t) ==
  IF t \notin Created(ledger) THEN "unborn"
  ELSE IF ledger.done[t] # "none" THEN ledger.done[t]
  ELSE IF ledger.ack[t] = "accepted" THEN "accepted" ELSE "open"

Lifecycle ==
  INSTANCE TicketLifecycle WITH
    phase <- [t \in Ticket |-> Phase(t)],
    id    <- [t \in Ticket |-> IF t \in Created(ledger) THEN ledger.req[t].id ELSE NoId]

ImplementsLifecycle == Lifecycle!Spec

-----------------------------------------------------------------------------
(* Motion.                                                                 *)

(* While the shoulder is too warm nothing drives the arm: no motion, task  *)
(* light, tracking, face following or away pose, in whatever order the     *)
(* temperature, the commands and the ends of clips fall in a tick.         *)
WarmShoulderRests ==
  alert => /\ active = NoTicket /\ turn = NoTicket /\ back = NoTicket
           /\ arm.light # "held" /\ ~arm.away /\ ~arm.tracking
           /\ arm.face # "following"

(* The base, too, stays where it is while the shoulder is too warm.        *)
WarmShoulderDoesNotTurn == alert => ori.state = "idle"

(* In safe wait no motion and no task light is in progress.                *)
SafeWaitIsQuiet == safeWait => active = NoTicket /\ task = NoTicket

(* The head follows a target only while some observation of it is younger  *)
(* than its time to live.                                                  *)
TrackingIsLeased == arm.tracking => sources # {}

(* Between ticks a sound turn that a client waits for is still turning, so *)
(* that its settling or its timeout will end the ticket; and a client      *)
(* waits for a turn or for a return to the centre, never for both.         *)
TurnIsInProgress ==
  pc = "idle" => /\ turn # NoTicket => ori.state = "orienting"
                 /\ turn = NoTicket \/ back = NoTicket

(* The base turns to the utterance its ticket names until that ticket is   *)
(* ended.  Only the turn that an away pose refused takes the anchor from   *)
(* another ticket, when the pose ends.                                     *)
TurnKeepsItsAnchor ==
  [][(turn # NoTicket /\ turn' = turn /\ ori'.speech # ori.speech)
       => pc = "apply" /\ ledger.req[cur].kind = "away.clear"]_vars

(* Between ticks the ticket of a return to the centre is in progress only  *)
(* while the base returns: an accepted return ends centred or replaced.    *)
ReturnTicketIsCurrent == (pc = "idle" /\ back # NoTicket) => ori.state = "returning"

(* The return that follows a disconnection, DisconnectHold periods later,  *)
(* never takes the base away from a turn or a return a client waits for.   *)
AutonomousReturnIsFree ==
  [][(pc = "settle" /\ ori.state # "returning" /\ ori'.state = "returning")
       => turn = NoTicket /\ back = NoTicket]_vars

-----------------------------------------------------------------------------
(* Invariants that the steps preserve: what the properties above rest on.  *)

(* Whatever waits in the queue or in the owner's hands has been submitted, *)
(* so that the owner reads a request and not an empty ticket.              *)
HandsCreated ==
  /\ \A i \in DOMAIN queue : queue[i] \in Created(ledger)
  /\ pc \in {"begin", "apply"} => cur \in Created(ledger)

TypeInv == TypeOK /\ HandsCreated

(* A turn or a return that a client waits for has reset the note of a lost *)
(* connection; a turn is orienting, except that the deferred turn of an    *)
(* away pose may be aligned at once, and is ended in the same tick.        *)
TurnInv ==
  /\ turn = NoTicket \/ back = NoTicket
  /\ ori.lost > 0 => turn = NoTicket /\ back = NoTicket
  /\ turn # NoTicket =>
       \/ ori.state = "orienting"
       \/ ori.state = "aligned" /\ pc \in {"step", "settle", "shutdown"}

-----------------------------------------------------------------------------
(* Liveness, under the fairness of the owner thread.                       *)

(* Every submitted command is answered: accepted, or given its result.     *)
EveryCommandIsAnswered ==
  \A t \in Ticket : t \in Created(ledger) ~> ledger.ack[t] # "none"

(* Every accepted sound turn ends, by settling or by its timeout.          *)
EverySoundTurnEnds ==
  \A t \in Ticket :
    (ledger.ack[t] = "accepted" /\ ledger.req[t].kind = "orientation.acquire")
      ~> ledger.done[t] # "none"

(* Once the connection stops flapping, the base does not stay turned away  *)
(* for ever: the anchor is given up, or a client has asked for a new turn  *)
(* or return.  (Every disconnection starts the hold anew, so a connection  *)
(* that is lost again within each hold keeps the anchor.)                  *)
AnchorIsReleased ==
  <>[]~disconnect =>
    ((ori.lost > 0 /\ ori.state \in {"orienting", "aligned", "timeout"})
       ~> (ori.lost = 0 \/ pc = "ended"))
=============================================================================
