------------------------ MODULE MotionControllerLedger ------------------------
(***************************************************************************)
(* Theorems about the tickets of MotionController: where a ticket in       *)
(* flight waits, that its result comes once, that a request that is sent   *)
(* again is carried out once, and that a local command waits for the owner *)
(* untouched.  The assumptions and the types are those of                  *)
(* MotionControllerProofs.                                                 *)
(***************************************************************************)
EXTENDS MotionControllerProofs

-----------------------------------------------------------------------------
(* The inductive invariant.                                                *)

InQueue(t) == \E i \in DOMAIN queue : queue[i] = t

Carries(t, kinds) ==
  t # NoTicket => t \in Created(ledger) /\ ledger.req[t].kind \in kinds

(* Every hand holds a ticket of its own kinds, so that two tickets in      *)
(* progress are never the same, nor one of them an observation.            *)
HandsInv ==
  /\ \A k \in TrackKinds : Carries(latest[k], {k}) /\ Carries(took[k], {k})
  /\ \A i \in DOMAIN queue : Carries(queue[i], Kinds \ TrackKinds)
  /\ Carries(cur, Kinds \ TrackKinds)
  /\ Carries(active, {"motion.play"}) /\ Carries(task, {"task_light.place"})
  /\ Carries(turn, {"orientation.acquire"})
  /\ Carries(back, {"orientation.return_center"})

Slots == {active, task, turn, back}

(* Nothing lies in two places and nothing in flight lies nowhere.  The     *)
(* owner's hands are empty when it takes something into them.              *)
PlaceInv ==
  /\ \A i, j \in DOMAIN queue : queue[i] = queue[j] => i = j
  /\ cur # NoTicket => ~InQueue(cur)
  /\ \A x \in Slots : x # NoTicket => x # cur /\ ~InQueue(x)
  /\ \A k \in TrackKinds : latest[k] # NoTicket => took[k] # latest[k]
  /\ \A t \in ledger.pending :
       \/ InQueue(t)
       \/ \E k \in TrackKinds : latest[k] = t \/ took[k] = t
       \/ t = cur \/ t \in Slots

IdleHands ==
  /\ pc \notin {"begin", "apply", "shutdown"} => cur = NoTicket
  /\ pc \notin {"observe", "shutdown"} => took = NoTracks

(* What waits in the queue is in flight, or it is marked as invalidated,   *)
(* which nothing in flight is.                                             *)
QueueInv ==
  /\ invalidated \subseteq Created(ledger) \ ledger.pending
  /\ \A i \in DOMAIN queue : queue[i] \in ledger.pending \cup invalidated

(* What the owner has claimed stays in flight and claimed.                 *)
ClaimInv ==
  /\ pc = "begin" => cur \in ledger.pending \cup invalidated
  /\ pc = "apply" => cur \in ledger.pending /\ ledger.req[cur].id \in ledger.started

EndInv ==
  /\ pc \in {"shutdown", "ended"} => stopped
  /\ pc = "ended" => ledger.pending = {}

MailInv ==
  /\ Books(ledger) /\ HandsInv /\ PlaceInv /\ QueueInv
  /\ IdleHands /\ ClaimInv /\ EndInv

LEMMA MailTypes ==
  ASSUME TypeInv
  PROVE  /\ ledger \in Ledger /\ Created(ledger) \subseteq Ticket /\ NoTicket \notin Ticket
         /\ queue \in Seq(Ticket) /\ DOMAIN queue = 1 .. Len(queue) /\ Len(queue) \in Nat
         /\ \A i \in DOMAIN queue : queue[i] \in Ticket /\ queue[i] \in Created(ledger)
         /\ latest \in [TrackKinds -> Ticket \cup {NoTicket}]
         /\ took \in [TrackKinds -> Ticket \cup {NoTicket}]
         /\ NoTracks \in [TrackKinds -> {NoTicket}]
         /\ TrackKinds \subseteq Kinds
         /\ \A t \in Created(ledger) : ledger.req[t].kind \in Kinds /\ ledger.req[t] \in Menu
<1>1. \A r \in Menu : r.kind \in Kinds
  BY ControllerAssumption DEF Request
<1>2. \A t \in Created(ledger) : ledger.req[t] \in Menu
  BY RequestInHand DEF TypeInv, TypeOK
<1>. QED
  BY <1>1, <1>2 DEF TypeInv, TypeOK, HandsCreated, Created, Ticket, NoTicket, NoTracks,
                    TrackKinds, Kinds

-----------------------------------------------------------------------------
(* Steps of the owner that end tickets and may put the command in hand     *)
(* into a slot.                                                            *)

SlotMove(x, y, S, kind) ==
  \/ y = x
  \/ /\ x \in S \cup {NoTicket}
     /\ \/ y = NoTicket
        \/ y = cur /\ cur' = NoTicket /\ ledger.req[cur].kind = kind

Moves(S) ==
  /\ S \subseteq Slots \cup {NoTicket, cur}
  /\ Reduced(ledger, ledger', S)
  /\ SlotMove(active, active', S, "motion.play")
  /\ SlotMove(task, task', S, "task_light.place")
  /\ SlotMove(turn, turn', S, "orientation.acquire")
  /\ SlotMove(back, back', S, "orientation.return_center")
  /\ \/ cur' = cur
     \/ cur' = NoTicket /\ cur \in S \cup Slots'
  /\ UNCHANGED <<queue, latest, took, invalidated>>

LEMMA MovesMail ==
  ASSUME TypeInv, MailInv, NEW S, Moves(S),
         pc' \notin {"begin", "apply", "ended"}, pc' = "shutdown" => stopped',
         pc' # "shutdown" => cur' = NoTicket,
         pc' \notin {"observe", "shutdown"} => took' = NoTracks
  PROVE  MailInv'
<1>1. /\ ledger'.req = ledger.req /\ Created(ledger') = Created(ledger)
      /\ ledger'.pending = ledger.pending \ S /\ Books(ledger')
      /\ UNCHANGED <<queue, latest, took, invalidated>>
      /\ cur' = cur \/ cur' = NoTicket
  BY DEF Moves, Reduced
<1>2. \A t \in ledger.pending : t \in Ticket /\ t # NoTicket
  BY MailTypes DEF MailInv, Books
<1>3. HandsInv'
  <2>1. \A t, kinds : Carries(t, kinds)' <=>
          (t' # NoTicket => t' \in Created(ledger) /\ ledger.req[t'].kind \in kinds)
    BY <1>1 DEF Carries
  <2>2. ASSUME NEW x, NEW y, NEW kind, SlotMove(x, y, S, kind),
               x # NoTicket => x \in Created(ledger) /\ ledger.req[x].kind = kind
        PROVE  y # NoTicket => y \in Created(ledger) /\ ledger.req[y].kind = kind
    BY <2>2 DEF SlotMove, MailInv, HandsInv, Carries
  <2>. QED
    BY <1>1, <2>2 DEF MailInv, HandsInv, Carries, Moves
<1>4. PlaceInv'
  <2>1. \A t : InQueue(t)' <=> \E i \in DOMAIN queue : queue[i] = t'
    BY <1>1 DEF InQueue
  <2>2. cur' # NoTicket => ~InQueue(cur)'
    BY <1>1 DEF MailInv, PlaceInv, InQueue
  <2>3. ASSUME NEW x \in Slots, NEW y, NEW kind, SlotMove(x, y, S, kind), y # NoTicket
        PROVE  y # cur' /\ ~(\E i \in DOMAIN queue : queue[i] = y)
    BY <1>1, <2>3 DEF SlotMove, MailInv, PlaceInv, InQueue
  <2>4. \A y \in Slots' : y # NoTicket => y # cur' /\ ~(\E i \in DOMAIN queue : queue[i] = y)
    BY <2>3 DEF Moves, Slots
  <2>5. ASSUME NEW t \in ledger'.pending
        PROVE  \/ \E i \in DOMAIN queue : queue[i] = t
               \/ \E k \in TrackKinds : latest[k] = t \/ took[k] = t
               \/ t = cur' \/ t \in Slots'
    <3>1. t \in ledger.pending /\ t \notin S /\ t # NoTicket
      BY <1>1, <1>2
    <3>2. CASE t \in Slots
      BY <3>1, <3>2 DEF Moves, SlotMove, Slots
    <3>3. CASE t = cur
      BY <3>1, <3>3 DEF Moves
    <3>. QED
      BY <3>1, <3>2, <3>3 DEF MailInv, PlaceInv, InQueue
  <2>. QED
    BY <1>1, <2>2, <2>4, <2>5 DEF MailInv, PlaceInv, InQueue
<1>5. QueueInv'
  <2>1. \A i \in DOMAIN queue : queue[i] \notin S
    BY MailTypes DEF Moves, MailInv, PlaceInv, InQueue
  <2>. QED
    BY <1>1, <2>1 DEF MailInv, QueueInv
<1>. QED
  BY <1>1, <1>3, <1>4, <1>5 DEF MailInv, IdleHands, ClaimInv, EndInv

-----------------------------------------------------------------------------
(* The handlers.                                                           *)

(* What the ends of a handler do to a ledger whose other tickets it has    *)
(* already seen to.                                                        *)
LEMMA EndingReduces ==
  ASSUME NEW X, NEW b, Reduced(ledger, b, X), cur \in Created(ledger)
  PROVE  /\ Reduced(ledger, Accepted(b, cur), X)
         /\ Reduced(ledger, Done(b), X \cup {cur})
         /\ Reduced(ledger, Failed(b), X \cup {cur})
         /\ Reduced(ledger, Finished(b, {cur}, "completed"), X \cup {cur})
<1>1. b \in Ledger /\ Books(b) /\ cur \in Created(b)
  BY DEF Reduced
<1>2. {"completed", "failed"} \subseteq Terminal
  BY DEF Terminal
<1>3. ASSUME NEW c, Reduced(ledger, c, X), NEW state \in Terminal
      PROVE  Reduced(ledger, Finished(c, {cur}, state), X \cup {cur})
  <2>1. c \in Ledger /\ Books(c) /\ {cur} \cap Ticket \subseteq Created(c)
    BY <1>3 DEF Reduced
  <2>2. Reduced(c, Finished(c, {cur}, state), {cur})
    BY <2>1, FinishedReduces
  <2>. QED
    BY <1>3, <2>2, ReducedTwice
<1>4. Reduced(ledger, Accepted(b, cur), X)
  <2>1. Reduced(b, Accepted(b, cur), {})
    BY <1>1, AcceptedReduces
  <2>2. Reduced(ledger, Accepted(b, cur), X \cup {})
    BY <2>1, ReducedTwice
  <2>3. X \cup {} = X
    OBVIOUS
  <2>. QED
    BY <2>2, <2>3
<1>. QED
  BY <1>2, <1>3, <1>4 DEF Done, Failed

(* Cancelling tickets in progress.                                         *)
LEMMA SlotsReduce ==
  ASSUME TypeInv, MailInv, NEW X, X \subseteq Slots \cup {NoTicket}, NEW state \in Terminal
  PROVE  Reduced(ledger, Finished(ledger, X, state), X)
<1>1. ledger \in Ledger /\ Books(ledger) /\ NoTicket \notin Ticket
  BY MailTypes DEF MailInv
<1>2. X \cap Ticket \subseteq Created(ledger)
  BY <1>1 DEF MailInv, HandsInv, Carries, Slots
<1>. QED
  BY <1>1, <1>2, FinishedReduces

LEMMA HandlerMoves ==
  ASSUME TypeInv, MailInv, ApplyCommand
  PROVE  /\ \E S : Moves(S)
         /\ pc' = "step" /\ cur' = NoTicket /\ took' = took /\ pc = "apply"
<1>1. pc = "apply" /\ cur \in Created(ledger)
  BY DEF ApplyCommand, Applying, TypeInv, HandsCreated, Refuse, Query, PlayMotion,
         CancelPlay, Interrupt, AcquireDuplicate, AcquireDeferred, AcquireTurn,
         Acquiring, ReturnToCenter, HoldOrientation, PlaceTaskLight, PlaceUnsafe,
         ReleaseTaskLight, ClearTrack, StepFace, ClearFaceFollow, HoldAway, ReleaseAway
<1>2. /\ pc' = "step" /\ cur' = NoTicket
      /\ UNCHANGED <<queue, latest, took, invalidated>>
  BY DEF ApplyCommand, Applying, mailVars, Refuse, Query, PlayMotion,
         CancelPlay, Interrupt, AcquireDuplicate, AcquireDeferred, AcquireTurn,
         Acquiring, ReturnToCenter, HoldOrientation, PlaceTaskLight, PlaceUnsafe,
         ReleaseTaskLight, ClearTrack, StepFace, ClearFaceFollow, HoldAway, ReleaseAway
<1>3. Reduced(ledger, ledger, {})
  BY MailTypes, ReducedByNothing DEF MailInv
<1>4. ASSUME NEW X, X \subseteq Slots \cup {NoTicket}
      PROVE  Reduced(ledger, Finished(ledger, X, "cancelled"), X)
  BY <1>4, SlotsReduce DEF Terminal
<1>5. ASSUME NEW X, X \subseteq Slots \cup {NoTicket}, NEW b, Reduced(ledger, b, X),
             \/ ledger' = Done(b)
             \/ ledger' = Failed(b)
             \/ ledger' = Finished(b, {cur}, "completed"),
             active' \in {active} \cup (IF active \in X THEN {NoTicket} ELSE {}),
             task' \in {task} \cup (IF task \in X THEN {NoTicket} ELSE {}),
             turn' \in {turn} \cup (IF turn \in X THEN {NoTicket} ELSE {}),
             back' \in {back} \cup (IF back \in X THEN {NoTicket} ELSE {})
      PROVE  Moves(X \cup {cur})
  <2>1. Reduced(ledger, ledger', X \cup {cur})
    BY <1>1, <1>5, EndingReduces
  <2>. QED
    BY <1>2, <1>5, <2>1 DEF Moves, SlotMove
<1>6. ASSUME \/ ledger' = Done(ledger)
             \/ ledger' = Failed(ledger)
             \/ ledger' = Finished(ledger, {cur}, "completed"),
             UNCHANGED <<active, task, turn, back>>
      PROVE  Moves({} \cup {cur})
  BY <1>3, <1>5, <1>6
<1>. USE DEF Applying, CancelMotion, CancelTask, motionVars, taskVars, turnVars, workVars
<1>a. CASE \/ Refuse \/ Query \/ AcquireDuplicate \/ AcquireDeferred \/ HoldOrientation
           \/ ClearTrack \/ StepFace \/ ClearFaceFollow
           \/ \E refused \in BOOLEAN : HoldAway(refused)
           \/ \E recent, aligned \in BOOLEAN : ReleaseAway(recent, aligned)
  <2>1. /\ \/ ledger' = Done(ledger)
           \/ ledger' = Failed(ledger)
           \/ ledger' = Finished(ledger, {cur}, "completed")
        /\ UNCHANGED <<active, task, turn, back>>
    BY <1>a DEF Refuse, Query, AcquireDuplicate, AcquireDeferred, HoldOrientation,
                ClearTrack, StepFace, ClearFaceFollow, HoldAway, ReleaseAway
  <2>. QED
    BY <1>1, <1>2, <1>6, <2>1
<1>b. CASE CancelPlay \/ Interrupt
  <2>1. ledger' = Done(Finished(ledger, {active, task}, "cancelled"))
    BY <1>b DEF CancelPlay, Interrupt
  <2>2. Reduced(ledger, Finished(ledger, {active, task}, "cancelled"), {active, task})
    BY <1>4 DEF Slots
  <2>3. active' = NoTicket /\ task' = NoTicket /\ UNCHANGED <<turn, back>>
    BY <1>b DEF CancelPlay, Interrupt
  <2>4. Moves({active, task} \cup {cur})
    BY <1>5, <2>1, <2>2, <2>3 DEF Slots
  <2>. QED
    BY <1>1, <1>2, <2>4
<1>c. CASE ReleaseTaskLight \/ PlaceUnsafe
  <2>1. Reduced(ledger, Finished(ledger, {task}, "cancelled"), {task})
    BY <1>4 DEF Slots
  <2>2. Reduced(ledger, Accepted(Finished(ledger, {task}, "cancelled"), cur), {task})
    BY <1>1, <2>1, EndingReduces
  <2>3. \/ ledger' = Done(Finished(ledger, {task}, "cancelled"))
        \/ ledger' = Failed(Accepted(Finished(ledger, {task}, "cancelled"), cur))
    BY <1>c DEF ReleaseTaskLight, PlaceUnsafe, Failed
  <2>4. task' = NoTicket /\ UNCHANGED <<active, turn, back>>
    BY <1>c DEF ReleaseTaskLight, PlaceUnsafe
  <2>5. Moves({task} \cup {cur})
    BY <1>5, <2>1, <2>2, <2>3, <2>4 DEF Slots
  <2>. QED
    BY <1>1, <1>2, <2>5
<1>7. ASSUME NEW X, X \subseteq Slots \cup {NoTicket},
             ledger' = Accepted(Finished(ledger, X, "cancelled"), cur)
      PROVE  Reduced(ledger, ledger', X)
  BY <1>1, <1>4, <1>7, EndingReduces
<1>d. CASE PlayMotion
  <2>1. Reduced(ledger, ledger', {active})
    BY <1>d, <1>7 DEF PlayMotion, Slots
  <2>2. Moves({active})
    BY <1>2, <1>d, <2>1 DEF PlayMotion, Moves, SlotMove, Slots
  <2>. QED
    BY <1>1, <1>2, <2>2
<1>e. CASE PlaceTaskLight
  <2>1. Reduced(ledger, ledger', {task})
    BY <1>e, <1>7 DEF PlaceTaskLight, Slots
  <2>2. Moves({task})
    BY <1>2, <1>e, <2>1 DEF PlaceTaskLight, Moves, SlotMove, Slots
  <2>. QED
    BY <1>1, <1>2, <2>2
<1>f. CASE ReturnToCenter
  <2>1. Reduced(ledger, ledger', {turn, back})
    BY <1>f, <1>7 DEF ReturnToCenter, Slots
  <2>2. Moves({turn, back})
    BY <1>2, <1>f, <2>1 DEF ReturnToCenter, Moves, SlotMove, Slots
  <2>. QED
    BY <1>1, <1>2, <2>2
<1>g. ASSUME NEW aligned \in BOOLEAN, AcquireTurn(aligned)
      PROVE  \E S : Moves(S)
  <2> DEFINE replaced == Accepted(Finished(ledger, {back, turn}, "cancelled"), cur)
  <2>1. /\ ledger' = IF aligned THEN Done(replaced) ELSE replaced
        /\ turn' = IF aligned THEN NoTicket ELSE cur
        /\ back' = NoTicket /\ UNCHANGED <<active, task>>
        /\ ledger.req[cur].kind = "orientation.acquire"
    BY <1>g DEF AcquireTurn, Acquiring
  <2>2. Reduced(ledger, replaced, {back, turn})
    BY <1>1, <1>4, EndingReduces DEF Slots
  <2> HIDE DEF replaced
  <2>3. CASE aligned
    <3>1. Moves({back, turn} \cup {cur})
      BY <1>5, <2>1, <2>2, <2>3 DEF Slots
    <3>. QED
      BY <3>1
  <2>4. CASE ~aligned
    <3>1. Moves({back, turn})
      BY <1>2, <2>1, <2>2, <2>4 DEF Moves, SlotMove, Slots
    <3>. QED
      BY <3>1
  <2>. QED
    BY <2>3, <2>4
<1>. QED
  BY <1>1, <1>2, <1>a, <1>b, <1>c, <1>d, <1>e, <1>f, <1>g DEF ApplyCommand

-----------------------------------------------------------------------------
(* The other sections of the tick.                                         *)

\* What a step owes to the tickets.
Kept == MailInv' /\ Later(ledger, ledger')

LEMMA MovesKept ==
  ASSUME TypeInv, MailInv, NEW S, Moves(S),
         pc' \notin {"begin", "apply", "ended"}, pc' = "shutdown" => stopped',
         pc' # "shutdown" => cur' = NoTicket,
         pc' \notin {"observe", "shutdown"} => took' = NoTracks
  PROVE  Kept
<1>1. MailInv'
  BY MovesMail
<1>2. Later(ledger, ledger')
  BY DEF Moves, Reduced
<1>. QED
  BY <1>1, <1>2 DEF Kept

(* Nothing of the tickets changes.                                         *)
LEMMA StillKept ==
  ASSUME TypeInv, MailInv,
         UNCHANGED <<ledger, queue, latest, took, invalidated, cur, active, task, turn, back>>,
         \/ pc' = pc /\ (stopped => stopped')
         \/ /\ pc' \notin {"begin", "apply", "ended"}
            /\ pc' = "shutdown" => stopped'
            /\ pc' # "shutdown" => cur' = NoTicket
            /\ pc' \notin {"observe", "shutdown"} => took' = NoTracks
  PROVE  Kept
<1>1. Later(ledger, ledger')
  BY DEF Later
<1>2. MailInv'
  BY DEF MailInv, Books, HandsInv, Carries, PlaceInv, InQueue, Slots, QueueInv, IdleHands,
         ClaimInv, EndInv, Created
<1>. QED
  BY <1>1, <1>2 DEF Kept

LEMMA MonitorMoves ==
  ASSUME TypeInv, MailInv, NEW a, MonitorTemperature(a),
         UNCHANGED <<queue, latest, took, invalidated, cur>>
  PROVE  \E S : Moves(S)
<1>1. CASE OverTemperature(a)
  <2>1. Reduced(ledger, ledger', {active, task, turn, back})
    BY <1>1, SlotsReduce DEF OverTemperature, Slots, Terminal
  <2>2. Moves({active, task, turn, back})
    BY <1>1, <2>1 DEF OverTemperature, CancelMotion, CancelTask, Moves, SlotMove, Slots
  <2>. QED
    BY <2>2
<1>2. CASE WithinTemperature(a)
  <2>1. ledger' = ledger /\ UNCHANGED <<active, task, turn, back>>
    BY <1>2 DEF WithinTemperature, motionVars, taskVars, turnVars
  <2>2. Reduced(ledger, ledger', {})
    BY <2>1, MailTypes, ReducedByNothing DEF MailInv
  <2>3. Moves({})
    BY <2>1, <2>2 DEF Moves, SlotMove
  <2>. QED
    BY <2>3
<1>. QED
  BY <1>1, <1>2 DEF MonitorTemperature

LEMMA TickKept ==
  ASSUME TypeInv, MailInv, StartTick \/ PassGate \/ TracksDone \/ ApplyCommand \/ StepRuntime
  PROVE  Kept
<1>. USE DEF MailInv, IdleHands, mailVars, tickVars
<1>1. CASE StartTick
  <2>1. /\ UNCHANGED <<queue, latest, took, invalidated, cur>>
        /\ cur = NoTicket /\ took = NoTracks /\ pc' = "gate"
        /\ MonitorTemperature(arm)
    BY <1>1 DEF StartTick
  <2>2. \E S : Moves(S)
    BY <2>1, MonitorMoves
  <2>. QED
    BY <2>1, <2>2, MovesKept
<1>2. CASE PassGate
  BY <1>2, StillKept DEF PassGate, workVars, motionVars, taskVars, turnVars
<1>3. CASE TracksDone
  BY <1>3, StillKept DEF TracksDone, workVars, motionVars, taskVars, turnVars
<1>4. CASE ApplyCommand
  <2>1. /\ \E S : Moves(S)
        /\ pc' = "step" /\ cur' = NoTicket /\ took' = took /\ pc = "apply"
    BY <1>4, HandlerMoves
  <2>2. took' = NoTracks
    BY <2>1
  <2>. QED
    BY <2>1, <2>2, MovesKept
<1>5. CASE StepRuntime
  <2>1. PICK a \in Stepped(arm) : MonitorTemperature(a)
    BY <1>5 DEF StepRuntime
  <2>2. /\ UNCHANGED <<queue, latest, took, invalidated, cur>>
        /\ cur = NoTicket /\ took = NoTracks /\ pc' = "settle"
    BY <1>5 DEF StepRuntime
  <2>3. \E S : Moves(S)
    BY <2>1, <2>2, MonitorMoves
  <2>. QED
    BY <2>2, <2>3, MovesKept
<1>. QED
  BY <1>1, <1>2, <1>3, <1>4, <1>5

LEMMA SettleKept ==
  ASSUME TypeInv, MailInv, NEW yawSettled, NEW slow, NEW lit, Settle(yawSettled, slow, lit)
  PROVE  Kept
<1> DEFINE o == Observe(ori, yawSettled)
           S == EndedTurns(o) \cup EndedMotion(slow) \cup EndedTask(lit, slow)
<1>1. /\ pc = "settle" /\ pc' = "idle"
      /\ ObserveOrientation(o)
      /\ active' = IF EndedMotion(slow) = {} THEN active ELSE NoTicket
      /\ task' = task
      /\ ledger' = Finished(ledger, S, "completed")
      /\ UNCHANGED <<mailVars, tickVars>>
  BY DEF Settle
<1>2. EndedTurns(o) \subseteq {turn, back} /\ EndedTask(lit, slow) \subseteq {task}
  BY DEF EndedTurns, EndedTask
<1>3. EndedMotion(slow) \in {{}, {active}}
  BY DEF EndedMotion
<1>4. /\ turn' = IF turn \in EndedTurns(o) THEN NoTicket ELSE turn
      /\ back' = IF back \in EndedTurns(o) THEN NoTicket ELSE back
  BY <1>1 DEF ObserveOrientation
<1> HIDE DEF o
<1>5. S \subseteq Slots
  BY <1>2, <1>3 DEF Slots
<1>6. Reduced(ledger, ledger', S)
  BY <1>1, <1>5, SlotsReduce DEF Terminal
<1>7. /\ active' = active \/ (active' = NoTicket /\ active \in S)
      /\ turn' = turn \/ (turn' = NoTicket /\ turn \in S)
      /\ back' = back \/ (back' = NoTicket /\ back \in S)
  BY <1>1, <1>3, <1>4
<1> HIDE DEF S
<1>8. Moves(S)
  BY <1>1, <1>5, <1>6, <1>7 DEF Moves, SlotMove, mailVars, tickVars
<1>. QED
  BY <1>1, <1>8, MovesKept DEF MailInv, IdleHands, tickVars

LEMMA FaultKept ==
  ASSUME TypeInv, MailInv,
         Fault \/ MissSlot \/ \E yawSettled \in BOOLEAN : FaultRepeating(yawSettled)
  PROVE  Kept
<1>1. CASE Fault
  BY <1>1, StillKept
     DEF Fault, MailInv, IdleHands, mailVars, tickVars, workVars, motionVars, taskVars, turnVars
<1>2. CASE MissSlot
  BY <1>2, StillKept
     DEF MissSlot, mailVars, tickVars, motionVars, taskVars
<1>3. ASSUME NEW yawSettled \in BOOLEAN, FaultRepeating(yawSettled)
      PROVE  Kept
  <2> DEFINE S == EndedTurns(Observe(ori, yawSettled))
  <2>1. /\ turn' = IF turn \in S THEN NoTicket ELSE turn
        /\ back' = IF back \in S THEN NoTicket ELSE back
        /\ ledger' = Finished(ledger, S, "completed")
        /\ pc' = "shutdown" /\ stopped'
        /\ UNCHANGED <<queue, latest, invalidated, took, cur, active, task>>
    BY <1>3 DEF FaultRepeating, ObserveOrientation, tickVars, motionVars, taskVars
  <2>2. S \subseteq {turn, back}
    BY DEF EndedTurns
  <2> HIDE DEF S
  <2>3. Reduced(ledger, ledger', S)
    BY <2>1, <2>2, SlotsReduce DEF Slots, Terminal
  <2>4. Moves(S)
    BY <2>1, <2>2, <2>3 DEF Moves, SlotMove, Slots
  <2>. QED
    BY <2>1, <2>4, MovesKept
<1>. QED
  BY <1>1, <1>2, <1>3

(* What was taken out of a slot is answered.                               *)
LEMMA TrackKept ==
  ASSUME TypeInv, MailInv, NEW k \in TrackKinds, RefuseTrack(k) \/ ObserveTrack(k)
  PROVE  Kept
<1>1. /\ pc = "observe" /\ pc' = pc /\ cur = NoTicket
      /\ took[k] # NoTicket /\ took' = [took EXCEPT ![k] = NoTicket]
      /\ UNCHANGED <<queue, latest, invalidated, cur, active, task, turn, back>>
  BY DEF RefuseTrack, ObserveTrack, NextTrack, mailVars, workVars, motionVars, taskVars,
         turnVars, MailInv, IdleHands
<1>2. /\ took[k] \in Created(ledger) /\ ledger.req[took[k]].kind = k
      /\ Books(ledger) /\ ledger \in Ledger
  BY <1>1, MailTypes DEF MailInv, HandsInv, Carries
<1>3. Reduced(ledger, ledger', {took[k]})
  <2>1. {"completed", "failed"} \subseteq Terminal
    BY DEF Terminal
  <2>2. CASE RefuseTrack(k)
    <3>1. ledger' = Finished(ledger, {took[k]}, "failed")
      BY <2>2 DEF RefuseTrack
    <3>. QED
      BY <1>2, <2>1, <3>1, FinishedReduces
  <2>3. CASE ObserveTrack(k)
    <3> DEFINE b == Accepted(ledger, took[k])
    <3>1. Reduced(ledger, b, {})
      BY <1>2, AcceptedReduces
    <3>2. ledger' = Finished(b, {took[k]}, "completed")
      BY <2>3 DEF ObserveTrack
    <3> HIDE DEF b
    <3>3. b \in Ledger /\ Books(b) /\ {took[k]} \cap Ticket \subseteq Created(b)
      BY <1>2, <3>1 DEF Reduced
    <3>4. Reduced(b, ledger', {took[k]})
      BY <2>1, <3>2, <3>3, FinishedReduces
    <3>5. Reduced(ledger, ledger', {} \cup {took[k]})
      BY <3>1, <3>4, ReducedTwice
    <3>6. {} \cup {took[k]} = {took[k]}
      OBVIOUS
    <3>. QED
      BY <3>5, <3>6
  <2>. QED
    BY <2>2, <2>3
<1>4. /\ ledger'.req = ledger.req /\ Created(ledger') = Created(ledger)
      /\ ledger'.pending = ledger.pending \ {took[k]} /\ Books(ledger')
      /\ Later(ledger, ledger')
  BY <1>3 DEF Reduced
<1>5. \A j \in TrackKinds : took'[j] = IF j = k THEN NoTicket ELSE took[j]
  BY <1>1, MailTypes
<1>6. HandsInv'
  BY <1>1, <1>4, <1>5 DEF MailInv, HandsInv, Carries
<1>7. PlaceInv'
  BY <1>1, <1>4, <1>5 DEF MailInv, PlaceInv, InQueue, Slots
<1>8. QueueInv'
  <2>1. \A i \in DOMAIN queue : queue[i] # took[k]
    BY <1>1, <1>2, MailTypes DEF MailInv, HandsInv, Carries
  <2>. QED
    BY <1>1, <1>4, <2>1 DEF MailInv, QueueInv
<1>9. IdleHands' /\ ClaimInv' /\ EndInv'
  BY <1>1 DEF IdleHands, ClaimInv, EndInv
<1>. QED
  BY <1>4, <1>6, <1>7, <1>8, <1>9 DEF Kept, MailInv

(* Both slots are emptied into the owner's hands.                          *)
LEMMA TakeLatestKept ==
  ASSUME TypeInv, MailInv, TakeLatest
  PROVE  Kept
<1>1. /\ pc = "track" /\ pc' = "observe" /\ cur = NoTicket /\ took = NoTracks
      /\ took' = latest /\ latest' = NoTracks
      /\ UNCHANGED <<ledger, queue, invalidated, cur, active, task, turn, back>>
  BY DEF TakeLatest, workVars, motionVars, taskVars, turnVars, MailInv, IdleHands
<1>2. \A k \in TrackKinds : latest'[k] = NoTicket /\ took[k] = NoTicket
  BY <1>1 DEF NoTracks
<1>3. Later(ledger, ledger')
  BY <1>1 DEF Later
<1>4. HandsInv'
  BY <1>1, <1>2 DEF MailInv, HandsInv, Carries, Created
<1>5. PlaceInv'
  <2>1. \A t \in ledger.pending : t # NoTicket
    BY MailTypes DEF MailInv, Books
  <2>. QED
    BY <1>1, <1>2, <2>1 DEF MailInv, PlaceInv, InQueue, Slots
<1>6. QueueInv' /\ IdleHands' /\ ClaimInv' /\ EndInv' /\ Books(ledger')
  BY <1>1 DEF MailInv, QueueInv, IdleHands, ClaimInv, EndInv, Created
<1>. QED
  BY <1>3, <1>4, <1>5, <1>6 DEF Kept, MailInv

(* The oldest command is taken out of the queue.                           *)
LEMMA TakeCommandKept ==
  ASSUME TypeInv, MailInv, TakeCommand
  PROVE  Kept
<1>1. /\ pc = "take" /\ cur = NoTicket /\ took = NoTracks
      /\ UNCHANGED <<ledger, latest, invalidated, took, active, task, turn, back>>
  BY DEF TakeCommand, workVars, motionVars, taskVars, turnVars, MailInv, IdleHands
<1>2. CASE queue = <<>>
  BY <1>1, <1>2, StillKept DEF TakeCommand
<1>3. CASE queue # <<>>
  <2>1. pc' = "begin" /\ cur' = queue[1] /\ queue' = Tail(queue)
    BY <1>3, MailTypes DEF TakeCommand
  <2>2. /\ 1 \in DOMAIN queue
        /\ \A i \in DOMAIN queue' : i + 1 \in DOMAIN queue /\ queue'[i] = queue[i + 1]
        /\ \A i \in DOMAIN queue : i # 1 => i - 1 \in DOMAIN queue' /\ queue'[i - 1] = queue[i]
        /\ \A i \in DOMAIN queue' : i + 1 # 1 /\ i \in Nat
    BY <1>3, <2>1, MailTypes
  <2>3. Later(ledger, ledger')
    BY <1>1 DEF Later
  <2>4. HandsInv'
    BY <1>1, <2>1, <2>2 DEF MailInv, HandsInv, Carries, Created
  <2>5. PlaceInv'
    <3>1. \A i, j \in DOMAIN queue' : queue'[i] = queue'[j] => i = j
      <4>1. ASSUME NEW i \in DOMAIN queue', NEW j \in DOMAIN queue', queue'[i] = queue'[j]
            PROVE  i = j
        <5>1. i + 1 = j + 1
          BY <2>2, <4>1 DEF MailInv, PlaceInv
        <5>. QED
          BY <2>2, <5>1
      <4>. QED
        BY <4>1
    <3>2. ~InQueue(cur)'
      BY <2>1, <2>2 DEF MailInv, PlaceInv, InQueue
    <3>3. \A x \in Slots : x # NoTicket => x # cur' /\ ~(\E i \in DOMAIN queue' : queue'[i] = x)
      BY <2>1, <2>2 DEF MailInv, PlaceInv, InQueue
    <3>4. \A t \in ledger.pending : t # NoTicket
      BY MailTypes DEF MailInv, Books
    <3>5. \A t : InQueue(t) => t = cur' \/ \E i \in DOMAIN queue' : queue'[i] = t
      BY <2>1, <2>2 DEF InQueue
    <3>. QED
      BY <1>1, <3>1, <3>2, <3>3, <3>4, <3>5 DEF MailInv, PlaceInv, InQueue, Slots
  <2>6. QueueInv' /\ IdleHands' /\ ClaimInv' /\ EndInv' /\ Books(ledger')
    BY <1>1, <2>1, <2>2 DEF MailInv, QueueInv, IdleHands, ClaimInv, EndInv, Created
  <2>. QED
    BY <2>3, <2>4, <2>5, <2>6 DEF Kept, MailInv
<1>. QED
  BY <1>2, <1>3

(* The owner claims what is still in flight, and drops what was cancelled  *)
(* in the meantime.                                                        *)
LEMMA BeginKept ==
  ASSUME TypeInv, MailInv, Begin
  PROVE  Kept
<1>1. /\ pc = "begin" /\ took = NoTracks /\ cur \in ledger.pending \cup invalidated
      /\ cur \in Created(ledger) /\ cur # NoTicket /\ ledger \in Ledger
      /\ UNCHANGED <<queue, latest, took, active, task, turn, back>>
  BY MailTypes DEF Begin, workVars, motionVars, taskVars, turnVars, MailInv, IdleHands,
         ClaimInv, TypeInv, HandsCreated
<1>2. CASE cur \in invalidated
  <2>1. /\ pc' = "step" /\ cur' = NoTicket /\ ledger' = ledger
        /\ invalidated' = invalidated \ {cur} /\ cur \notin ledger.pending
    BY <1>2 DEF Begin, MailInv, QueueInv
  <2>2. Later(ledger, ledger')
    BY <2>1 DEF Later
  <2>3. HandsInv' /\ PlaceInv'
    BY <1>1, <2>1 DEF MailInv, HandsInv, Carries, Created, PlaceInv, InQueue, Slots
  <2>4. QueueInv'
    BY <1>1, <2>1 DEF MailInv, QueueInv, PlaceInv, InQueue, Created
  <2>5. IdleHands' /\ ClaimInv' /\ EndInv' /\ Books(ledger')
    BY <1>1, <2>1 DEF MailInv, IdleHands, ClaimInv, EndInv
  <2>. QED
    BY <2>2, <2>3, <2>4, <2>5 DEF Kept, MailInv
<1>3. CASE cur \notin invalidated
  <2>1. /\ pc' = "apply" /\ cur' = cur /\ invalidated' = invalidated
        /\ ledger' = [ledger EXCEPT !.started = @ \cup {ledger.req[cur].id}]
        /\ cur \in ledger.pending
    BY <1>1, <1>3 DEF Begin
  <2>2. /\ ledger'.req = ledger.req /\ ledger'.ack = ledger.ack
        /\ ledger'.done = ledger.done /\ ledger'.pending = ledger.pending
        /\ ledger.req[cur].id \in ledger'.started
    BY <1>1, <2>1 DEF Ledger
  <2>3. Books(ledger') /\ Created(ledger') = Created(ledger)
    BY <2>2, SameBooks DEF MailInv, Created
  <2>4. Later(ledger, ledger')
    BY <2>2, <2>3 DEF Later
  <2>5. HandsInv'
    BY <1>1, <2>1, <2>2, <2>3 DEF MailInv, HandsInv, Carries
  <2>6. PlaceInv'
    BY <1>1, <2>1, <2>2 DEF MailInv, PlaceInv, InQueue, Slots
  <2>7. QueueInv'
    BY <1>1, <2>1, <2>2, <2>3 DEF MailInv, QueueInv
  <2>8. IdleHands' /\ ClaimInv' /\ EndInv'
    BY <1>1, <2>1, <2>2 DEF MailInv, IdleHands, ClaimInv, EndInv
  <2>. QED
    BY <2>3, <2>4, <2>5, <2>6, <2>7, <2>8 DEF Kept, MailInv
<1>. QED
  BY <1>2, <1>3

(* Nothing is left in flight by a disconnection and by the end.            *)
LEMMA WipeKept ==
  ASSUME TypeInv, MailInv, SafeDisconnect \/ Shutdown
  PROVE  Kept
<1> DEFINE S == IF pc = "gate" THEN ledger.pending \cup Slots ELSE ledger.pending
<1>1. /\ queue' = <<>> /\ latest' = NoTracks /\ took' = NoTracks /\ cur' = NoTicket
      /\ active' = NoTicket /\ task' = NoTicket /\ turn' = NoTicket /\ back' = NoTicket
      /\ invalidated' \subseteq invalidated
      /\ pc' = "step" \/ (pc' = "ended" /\ stopped')
  BY DEF SafeDisconnect, Shutdown, CancelMotion, CancelTask, tickVars, MailInv, IdleHands, EndInv
<1>2. \E state \in Terminal : ledger' = Finished(ledger, S, state)
  <2>1. CASE SafeDisconnect
    <3>1. ledger' = Finished(ledger, ledger.pending \cup {active, task, turn, back}, "cancelled")
      BY <2>1 DEF SafeDisconnect
    <3>2. S = ledger.pending \cup {active, task, turn, back}
      BY <2>1 DEF SafeDisconnect, Slots
    <3>. QED
      BY <3>1, <3>2 DEF Terminal
  <2>2. CASE Shutdown
    <3>1. S = ledger.pending
      BY <2>2 DEF Shutdown
    <3>. QED
      BY <2>2, <3>1 DEF Shutdown, Terminal
  <2>. QED
    BY <2>1, <2>2
<1>3. S \cap Ticket \subseteq Created(ledger) /\ ledger.pending \subseteq S
  BY MailTypes DEF MailInv, Books, HandsInv, Carries, Slots
<1> HIDE DEF S
<1>4. Reduced(ledger, ledger', S)
  BY <1>2, <1>3, FinishedReduces, MailTypes DEF MailInv
<1>5. /\ ledger'.pending = {} /\ Created(ledger') = Created(ledger)
      /\ Books(ledger') /\ Later(ledger, ledger')
  BY <1>3, <1>4 DEF Reduced
<1>6. DOMAIN queue' = {} /\ \A k \in TrackKinds : latest'[k] = NoTicket /\ took'[k] = NoTicket
  BY <1>1 DEF NoTracks
<1>7. HandsInv'
  BY <1>1, <1>6 DEF HandsInv, Carries
<1>8. PlaceInv'
  BY <1>1, <1>5, <1>6 DEF PlaceInv, InQueue, Slots
<1>9. QueueInv'
  BY <1>1, <1>5, <1>6 DEF MailInv, QueueInv
<1>10. IdleHands' /\ ClaimInv' /\ EndInv'
  BY <1>1, <1>5 DEF IdleHands, ClaimInv, EndInv
<1>. QED
  BY <1>5, <1>7, <1>8, <1>9, <1>10 DEF Kept, MailInv

-----------------------------------------------------------------------------
(* Network threads.                                                        *)

(* The owner's hands, which no network thread touches.                     *)
SameHands ==
  UNCHANGED <<pc, cur, took, active, task, turn, back>> /\ (stopped => stopped')

(* A ticket is created; it takes a place or ends at once, and the          *)
(* observation whose slot it takes is ended in its stead.                  *)
LEMMA GrownKept ==
  ASSUME TypeInv, MailInv, SameHands, pc # "ended" \/ ledger'.pending = ledger.pending,
         invalidated' = invalidated,
         NEW t \in Ticket, NEW r \in Menu, NEW S, Grown(ledger, ledger', t, r, S),
         \/ S = {t} /\ UNCHANGED <<queue, latest>>
         \/ S = {} /\ r.kind \notin TrackKinds /\ queue' = Append(queue, t) /\ latest' = latest
         \/ /\ r.kind \in TrackKinds /\ S = {latest[r.kind]}
            /\ latest' = [latest EXCEPT ![r.kind] = t] /\ queue' = queue
  PROVE  Kept
<1>1. /\ Books(ledger') /\ Later(ledger, ledger')
      /\ t \notin Created(ledger) /\ Created(ledger') = Created(ledger) \cup {t}
      /\ ledger'.req[t] = r /\ \A u \in Created(ledger) : ledger'.req[u] = ledger.req[u]
      /\ ledger'.pending = (ledger.pending \cup {t}) \ S
      /\ \A u \in ledger.pending \ S :
           ledger.req[u].id \in ledger'.started <=> ledger.req[u].id \in ledger.started
  BY DEF Grown
<1>2. /\ t # NoTicket /\ r.kind \in Kinds
      /\ ledger.pending \subseteq Created(ledger)
  BY MailTypes, ControllerAssumption DEF MailInv, Books, Request
<1>3. \A x, kinds :
        Carries(x, kinds) => (x # NoTicket => x # t /\ x \in Created(ledger')
                                              /\ ledger'.req[x].kind \in kinds)
  BY <1>1 DEF Carries
<1>4. \/ /\ DOMAIN queue' = DOMAIN queue
         /\ \A i \in DOMAIN queue : queue'[i] = queue[i]
      \/ /\ queue' = Append(queue, t)
         /\ DOMAIN queue' = DOMAIN queue \cup {Len(queue) + 1} /\ Len(queue) + 1 \notin DOMAIN queue
         /\ queue'[Len(queue) + 1] = t /\ r.kind \notin TrackKinds /\ S = {}
         /\ \A i \in DOMAIN queue : queue'[i] = queue[i]
  <2>1. CASE queue' = queue
    BY <2>1
  <2>2. CASE S = {} /\ r.kind \notin TrackKinds /\ queue' = Append(queue, t)
    <3>1. queue \in Seq(Ticket) /\ DOMAIN queue = 1 .. Len(queue) /\ Len(queue) \in Nat
      BY MailTypes
    <3>2. t \in Ticket
      OBVIOUS
    <3>3. /\ DOMAIN Append(queue, t) = 1 .. Len(queue) + 1
          /\ Append(queue, t)[Len(queue) + 1] = t
          /\ \A i \in DOMAIN queue : Append(queue, t)[i] = queue[i]
      BY <3>1
    <3>4. 1 .. Len(queue) + 1 = DOMAIN queue \cup {Len(queue) + 1} /\ Len(queue) + 1 \notin DOMAIN queue
      BY <3>1
    <3>. QED
      BY <2>2, <3>3, <3>4
  <2>. QED
    BY <2>1, <2>2
<1>5. \A k \in TrackKinds : latest'[k] = latest[k] \/ (latest'[k] = t /\ r.kind = k)
  BY MailTypes
<1>6. \A i \in DOMAIN queue' : queue'[i] = t \/ \E j \in DOMAIN queue : queue[j] = queue'[i]
  BY <1>4
<1>7. HandsInv'
  <2>1. \A k \in TrackKinds : Carries(latest[k], {k})' /\ Carries(took[k], {k})'
    BY <1>1, <1>3, <1>5 DEF MailInv, HandsInv, SameHands, Carries
  <2>2. \A i \in DOMAIN queue' : Carries(queue[i], Kinds \ TrackKinds)'
    BY <1>1, <1>2, <1>3, <1>4 DEF MailInv, HandsInv, Carries
  <2>3. /\ Carries(cur, Kinds \ TrackKinds)'
        /\ Carries(active, {"motion.play"})' /\ Carries(task, {"task_light.place"})'
        /\ Carries(turn, {"orientation.acquire"})'
        /\ Carries(back, {"orientation.return_center"})'
    BY <1>3 DEF MailInv, HandsInv, SameHands, Carries
  <2>. QED
    BY <2>1, <2>2, <2>3 DEF HandsInv
<1>8. \A i \in DOMAIN queue : queue[i] # t
  BY <1>1, MailTypes
<1>9. PlaceInv'
  <2>1. \A i, j \in DOMAIN queue' : queue'[i] = queue'[j] => i = j
    BY <1>4, <1>8 DEF MailInv, PlaceInv
  <2>2. cur' # NoTicket => ~InQueue(cur)'
    BY <1>1, <1>6 DEF MailInv, PlaceInv, InQueue, SameHands, HandsInv, Carries
  <2>3. \A x \in Slots : x # NoTicket => x \in Created(ledger)
    BY DEF Slots, MailInv, HandsInv, Carries
  <2>4. \A x \in Slots' : x # NoTicket => x # cur' /\ ~(\E i \in DOMAIN queue' : queue'[i] = x)
    BY <1>1, <1>6, <2>3 DEF MailInv, PlaceInv, InQueue, SameHands, Slots
  <2>5. \A k \in TrackKinds : latest'[k] # NoTicket => took'[k] # latest'[k]
    BY <1>1, <1>2, <1>5 DEF MailInv, PlaceInv, SameHands, HandsInv, Carries
  <2>6. ASSUME NEW u \in ledger'.pending
        PROVE  \/ \E i \in DOMAIN queue' : queue'[i] = u
               \/ \E k \in TrackKinds : latest'[k] = u \/ took'[k] = u
               \/ u = cur' \/ u \in Slots'
    <3>1. CASE u = t
      <4>1. t \notin S
        BY <1>1, <3>1
      <4>2. CASE S = {} /\ queue' = Append(queue, t)
        BY <1>4, <3>1, <4>2, <1>8
      <4>3. CASE r.kind \in TrackKinds /\ latest' = [latest EXCEPT ![r.kind] = t]
        BY <3>1, <4>3, MailTypes
      <4>. QED
        BY <4>1, <4>2, <4>3
    <3>2. CASE u # t
      <4>1. u \in ledger.pending /\ u \notin S
        BY <1>1, <3>2
      <4>2. \A i \in DOMAIN queue : \E j \in DOMAIN queue' : queue'[j] = queue[i]
        BY <1>4
      <4>3. \A k \in TrackKinds : latest[k] = u => latest'[k] = u
        BY <4>1, MailTypes
      <4>. QED
        BY <4>1, <4>2, <4>3 DEF MailInv, PlaceInv, InQueue, SameHands, Slots
    <3>. QED
      BY <3>1, <3>2
  <2>. QED
    BY <2>1, <2>2, <2>4, <2>5, <2>6 DEF PlaceInv, InQueue
<1>10. S = {t} \/ \A i \in DOMAIN queue : queue[i] \notin S
  BY MailTypes DEF MailInv, HandsInv, Carries
<1>11. QueueInv'
  <2>1. invalidated' \subseteq Created(ledger') \ ledger'.pending
    BY <1>1 DEF MailInv, QueueInv
  <2>2. ASSUME NEW i \in DOMAIN queue'
        PROVE  queue'[i] \in ledger'.pending \cup invalidated'
    BY <1>1, <1>4, <1>8, <1>10 DEF MailInv, QueueInv
  <2>. QED
    BY <2>1, <2>2 DEF QueueInv
<1>12. cur # NoTicket => cur # t /\ cur \notin S /\ cur \in Created(ledger)
  BY <1>1 DEF MailInv, HandsInv, Carries
<1>13. ClaimInv'
  <2>1. pc \in {"begin", "apply"} => cur # NoTicket
    BY MailTypes DEF TypeInv, HandsCreated
  <2>. QED
    BY <1>1, <1>12, <2>1 DEF MailInv, ClaimInv, SameHands
<1>14. IdleHands' /\ EndInv'
  BY DEF MailInv, IdleHands, EndInv, SameHands
<1>. QED
  BY <1>1, <1>7, <1>9, <1>11, <1>13, <1>14 DEF Kept, MailInv

LEMMA SubmitKept ==
  ASSUME TypeInv, MailInv, Submit
  PROVE  Kept
<1> DEFINE t == NextTicket
<1>1. PICK r \in Menu :
        \/ SubmitKnown(r)
        \/ /\ t \in Ticket
           /\ \/ SubmitCollision(r, t) \/ SubmitStopped(r, t)
              \/ SubmitTracking(r, t) \/ SubmitDiscrete(r, t)
  BY DEF Submit
<1>2. /\ SameHands /\ invalidated' = invalidated /\ stopped' = stopped
      /\ ledger \in Ledger /\ Books(ledger) /\ t = Fresh(ledger)
  BY MailTypes DEF Submit, SameHands, ownerVars, tickVars, workVars, motionVars, taskVars,
                   turnVars, MailInv, NextTicket, Fresh
<1>3. pc = "ended" => stopped
  BY DEF MailInv, EndInv
<1>4. "failed" \in Terminal /\ "cancelled" \in Terminal
  BY DEF Terminal
<1> HIDE DEF t
<1>5. CASE SubmitKnown(r)
  <2>1. PICK u \in Known(ledger, r.id) :
          /\ ledger' = IF ledger.recent[u] > 0
                         THEN [ledger EXCEPT !.recent = Remember(@, {u})] ELSE ledger
          /\ UNCHANGED <<queue, latest>>
    BY <1>5 DEF SubmitKnown
  <2>2. {u} \in SUBSET Ticket
    BY DEF Known, Created
  <2>3. Reduced(ledger, ledger', {})
    BY <1>2, <2>1, <2>2, RememberedReduces, ReducedByNothing
  <2>4. /\ ledger'.req = ledger.req /\ Created(ledger') = Created(ledger)
        /\ ledger'.pending = ledger.pending /\ Books(ledger') /\ Later(ledger, ledger')
        /\ \A v \in ledger.pending :
             ledger.req[v].id \in ledger'.started <=> ledger.req[v].id \in ledger.started
    BY <2>3 DEF Reduced
  <2>5. HandsInv' /\ PlaceInv' /\ QueueInv'
    <3>1. HandsInv'
      BY <1>2, <2>1, <2>4 DEF MailInv, HandsInv, Carries, SameHands
    <3>2. PlaceInv'
      BY <1>2, <2>1, <2>4 DEF MailInv, PlaceInv, InQueue, Slots, SameHands
    <3>3. QueueInv'
      BY <1>2, <2>1, <2>4 DEF MailInv, QueueInv
    <3>. QED
      BY <3>1, <3>2, <3>3
  <2>6. IdleHands' /\ ClaimInv' /\ EndInv'
    BY <1>2, <2>4 DEF MailInv, IdleHands, ClaimInv, EndInv, SameHands
  <2>. QED
    BY <2>4, <2>5, <2>6 DEF Kept, MailInv
<1>6. ASSUME t \in Ticket, Grown(ledger, ledger', t, r, {t}), UNCHANGED <<queue, latest>>
      PROVE  Kept
  <2>1. ledger'.pending = ledger.pending
    <3>1. t \notin ledger.pending /\ ledger'.pending = (ledger.pending \cup {t}) \ {t}
      BY <1>2, <1>6 DEF Grown, Books
    <3>. QED
      BY <3>1
  <2>. QED
    BY <1>2, <1>6, <2>1, GrownKept
<1>7. CASE t \in Ticket /\ SubmitCollision(r, t)
  <2>1. ledger' = Finished(Entered(ledger, t, r), {t}, "failed") /\ UNCHANGED <<queue, latest>>
    BY <1>7 DEF SubmitCollision, Entered
  <2>2. Grown(ledger, ledger', t, r, {t})
    BY <1>2, <1>7, <2>1, RefusedGrows
  <2>. QED
    BY <1>6, <1>7, <2>1, <2>2
<1>8. ASSUME t \in Ticket, Known(ledger, r.id) = {}, UNCHANGED <<queue, latest>>,
             ledger' = Finished(Opened(ledger, t, r), {t}, "failed")
      PROVE  Kept
  <2>1. {t} \cap Ticket \subseteq Created(ledger) \cup {t}
    OBVIOUS
  <2>2. Grown(ledger, ledger', t, r, {t})
    BY <1>2, <1>4, <1>8, <2>1, GrownFinished
  <2>. QED
    BY <1>6, <1>8, <2>2
<1>9. CASE t \in Ticket /\ SubmitStopped(r, t)
  BY <1>8, <1>9 DEF SubmitStopped
<1>10. CASE t \in Ticket /\ SubmitTracking(r, t)
  <2> DEFINE old == latest[r.kind]
  <2>1. /\ Known(ledger, r.id) = {} /\ ~stopped /\ r.kind \in TrackKinds
        /\ latest' = [latest EXCEPT ![r.kind] = t] /\ queue' = queue
        /\ ledger' = Finished(Opened(ledger, t, r), {old}, "cancelled")
    BY <1>10 DEF SubmitTracking, Admits
  <2>2. old = NoTicket \/ old \in Created(ledger)
    BY <2>1 DEF MailInv, HandsInv, Carries
  <2>3. NoTicket \notin Ticket /\ t \notin Created(ledger)
    BY <1>2, FreshTicket, MailTypes
  <2> HIDE DEF old
  <2>4. {old} \cap Ticket \subseteq Created(ledger) \cup {t} /\ t \notin {old}
    BY <1>10, <2>2, <2>3
  <2>5. Grown(ledger, ledger', t, r, {old})
    BY <1>2, <1>4, <1>10, <2>1, <2>4, GrownFinished
  <2>. QED
    BY <1>2, <1>3, <1>10, <2>1, <2>5, GrownKept DEF old
<1>11. CASE t \in Ticket /\ SubmitDiscrete(r, t)
  <2>1. /\ Known(ledger, r.id) = {} /\ ~stopped /\ r.kind \notin TrackKinds /\ latest' = latest
        /\ \/ queue' = Append(queue, t) /\ ledger' = Opened(ledger, t, r)
           \/ queue' = queue /\ ledger' = Finished(Opened(ledger, t, r), {t}, "failed")
    BY <1>11 DEF SubmitDiscrete, Admits, Enqueue
  <2>2. CASE ledger' = Opened(ledger, t, r) /\ queue' = Append(queue, t)
    <3>1. Grown(ledger, ledger', t, r, {})
      BY <1>2, <1>11, <2>1, <2>2, OpenedGrows
    <3>. QED
      BY <1>2, <1>3, <1>11, <2>1, <2>2, <3>1, GrownKept
  <2>. QED
    BY <1>8, <1>11, <2>1, <2>2
<1>. QED
  BY <1>1, <1>5, <1>7, <1>9, <1>10, <1>11

(* A ticket that the owner has not begun is cancelled.                     *)
LEMMA InvalidateKept ==
  ASSUME TypeInv, MailInv, NEW t \in Ticket, InvalidateUnstarted(t)
  PROVE  Kept
<1>1. /\ t \in ledger.pending /\ ledger.req[t].id \notin ledger.started
      /\ invalidated' = invalidated \cup {t}
      /\ ledger' = Finished(ledger, {t}, "cancelled")
      /\ queue' = queue /\ latest' = latest /\ SameHands
  BY DEF InvalidateUnstarted, Unstarted, SameHands, ownerVars, tickVars, workVars,
         motionVars, taskVars, turnVars
<1>2. t \in Created(ledger) /\ ledger \in Ledger /\ Books(ledger) /\ "cancelled" \in Terminal
  BY <1>1, MailTypes DEF MailInv, Books, Terminal
<1>3. Reduced(ledger, ledger', {t})
  <2>1. {t} \cap Ticket \subseteq Created(ledger)
    BY <1>2
  <2>. QED
    BY <1>1, <1>2, <2>1, FinishedReduces
<1>4. /\ ledger'.req = ledger.req /\ Created(ledger') = Created(ledger)
      /\ ledger'.pending = ledger.pending \ {t} /\ Books(ledger') /\ Later(ledger, ledger')
      /\ \A v \in ledger.pending \ {t} :
           ledger.req[v].id \in ledger'.started <=> ledger.req[v].id \in ledger.started
  BY <1>3 DEF Reduced
<1>5. HandsInv'
  BY <1>1, <1>4 DEF MailInv, HandsInv, Carries, SameHands
<1>6. PlaceInv'
  BY <1>1, <1>4 DEF MailInv, PlaceInv, InQueue, Slots, SameHands
<1>7. QueueInv'
  BY <1>1, <1>2, <1>4 DEF MailInv, QueueInv
<1>8. pc = "apply" => cur # t
  BY <1>1 DEF MailInv, ClaimInv
<1>9. IdleHands' /\ ClaimInv' /\ EndInv'
  BY <1>1, <1>4, <1>8 DEF MailInv, IdleHands, ClaimInv, EndInv, SameHands
<1>. QED
  BY <1>4, <1>5, <1>6, <1>7, <1>9 DEF Kept, MailInv

LEMMA NetworkKept ==
  ASSUME TypeInv, MailInv, Network
  PROVE  Kept
<1>1. CASE RemoteDisconnected \/ Stop
  BY <1>1, StillKept
     DEF RemoteDisconnected, Stop, ownerVars, tickVars, workVars, motionVars, taskVars, turnVars
<1>. QED
  BY <1>1, SubmitKept, InvalidateKept DEF Network

-----------------------------------------------------------------------------
(* Every step, and what follows.                                           *)

LEMMA StepKept == TypeInv /\ MailInv /\ [Next]_vars => Kept
<1>. SUFFICES ASSUME TypeInv, MailInv, [Next]_vars PROVE Kept
  OBVIOUS
<1>1. CASE UNCHANGED vars
  BY <1>1, StillKept
     DEF vars, mailVars, ownerVars, tickVars, workVars, motionVars, taskVars, turnVars
<1>2. CASE Tick
  BY <1>2, TickKept, TakeLatestKept, TrackKept, TakeCommandKept, BeginKept, SettleKept, WipeKept
     DEF Tick, ApplyTracking
<1>. QED
  BY <1>1, <1>2, NetworkKept, FaultKept DEF Next

LEMMA InitMailInv == Init => MailInv
<1>. SUFFICES ASSUME Init PROVE MailInv
  OBVIOUS
<1>1. Books(ledger) /\ Created(ledger) = {} /\ ledger.pending = {}
  BY EmptyBooks DEF Init, EmptyLedger
<1>2. HandsInv
  BY DEF Init, HandsInv, Carries, NoTracks
<1>3. PlaceInv
  BY <1>1 DEF Init, PlaceInv, InQueue, Slots, NoTracks
<1>4. QueueInv /\ IdleHands /\ ClaimInv /\ EndInv
  BY <1>1 DEF Init, QueueInv, IdleHands, ClaimInv, EndInv
<1>. QED
  BY <1>1, <1>2, <1>3, <1>4 DEF MailInv

LEMMA MailInvariant == Spec => []MailInv
<1>1. TypeInv /\ MailInv /\ [Next]_vars => MailInv'
  BY StepKept DEF Kept
<1>. QED
  BY <1>1, InitMailInv, TypeCorrect, PTL DEF Spec

(* What is in flight is what has no final result.                          *)
THEOREM InFlight == Spec => []PendingIffOpen
<1>1. TypeInv /\ MailInv => PendingIffOpen
  BY MailTypes DEF MailInv, Books, PendingIffOpen, Open
<1>. QED
  BY <1>1, TypeCorrect, MailInvariant, PTL

(* No two tickets of one request id are in flight.                         *)
THEOREM OneOfAnId == Spec => []OneInFlightPerId
<1>1. MailInv => OneInFlightPerId
  BY DEF MailInv, Books, OneInFlightPerId
<1>. QED
  BY <1>1, MailInvariant, PTL

(* What the owner carries out has not been cancelled under its hands.      *)
THEOREM NothingCancelledBegins == Spec => []BegunIsWaitedFor
<1>1. MailInv => BegunIsWaitedFor
  BY DEF MailInv, ClaimInv, BegunIsWaitedFor
<1>. QED
  BY <1>1, MailInvariant, PTL

(* Nobody waits for a controller that has ended.                           *)
THEOREM EndAnswers == Spec => []EndedAnswersAll
<1>1. MailInv => EndedAnswersAll
  BY DEF MailInv, EndInv, EndedAnswersAll
<1>. QED
  BY <1>1, MailInvariant, PTL

(* Whatever is in flight waits in exactly one place.                       *)
THEOREM NoTicketIsLost == Spec => []OneHolder
<1>1. ASSUME TypeInv, MailInv, NEW t \in ledger.pending
      PROVE  Cardinality(Holders(t)) = 1
  <2> DEFINE kind == ledger.req[t].kind
             Q == \E i \in DOMAIN queue : queue[i] = t
             L == \E k \in TrackKinds : latest[k] = t
             K == \E k \in TrackKinds : took[k] = t
  <2>1. t # NoTicket
    BY <1>1, MailTypes DEF MailInv, Books
  <2>2. /\ L \/ K => kind \in TrackKinds
        /\ Q \/ cur = t => kind \notin TrackKinds
        /\ active = t => kind = "motion.play"
        /\ task = t => kind = "task_light.place"
        /\ turn = t => kind = "orientation.acquire"
        /\ back = t => kind = "orientation.return_center"
    BY <1>1, <2>1 DEF MailInv, HandsInv, Carries
  <2>3. ~(L /\ K)
    <3>1. ASSUME NEW j \in TrackKinds, NEW k \in TrackKinds, latest[j] = t, took[k] = t
          PROVE  FALSE
      BY <1>1, <2>1, <3>1 DEF MailInv, PlaceInv, HandsInv, Carries
    <3>. QED
      BY <3>1
  <2>4. /\ ~(Q /\ cur = t)
        /\ t \in Slots => ~Q /\ cur # t
    BY <1>1, <2>1 DEF MailInv, PlaceInv, InQueue
  <2>5. Q \/ L \/ K \/ cur = t \/ active = t \/ task = t \/ turn = t \/ back = t
    BY <1>1 DEF MailInv, PlaceInv, InQueue, Slots
  <2>6. Holders(t) = {p \in {"queue"} : Q} \cup {p \in {"latest"} : L}
                       \cup {p \in {"took"} : K} \cup {p \in {"cur"} : cur = t}
                       \cup {p \in {"active"} : active = t} \cup {p \in {"task"} : task = t}
                       \cup {p \in {"turn"} : turn = t} \cup {p \in {"back"} : back = t}
    BY DEF Holders
  <2> HIDE DEF Q, L, K, kind
  <2>7. \E p \in {"queue", "latest", "took", "cur", "active", "task", "turn", "back"} :
          Holders(t) = {p}
    <3>1. CASE Q
      BY <2>2, <2>3, <2>4, <2>6, <3>1 DEF TrackKinds, Slots
    <3>2. CASE L
      BY <2>2, <2>3, <2>4, <2>6, <3>2 DEF TrackKinds, Slots
    <3>3. CASE K
      BY <2>2, <2>3, <2>4, <2>6, <3>3 DEF TrackKinds, Slots
    <3>4. CASE cur = t
      BY <2>2, <2>3, <2>4, <2>6, <3>4 DEF TrackKinds, Slots
    <3>5. CASE active = t
      BY <2>2, <2>3, <2>4, <2>6, <3>5 DEF TrackKinds, Slots
    <3>6. CASE task = t
      BY <2>2, <2>3, <2>4, <2>6, <3>6 DEF TrackKinds, Slots
    <3>7. CASE turn = t
      BY <2>2, <2>3, <2>4, <2>6, <3>7 DEF TrackKinds, Slots
    <3>8. CASE back = t
      BY <2>2, <2>3, <2>4, <2>6, <3>8 DEF TrackKinds, Slots
    <3>. QED
      BY <2>5, <3>1, <3>2, <3>3, <3>4, <3>5, <3>6, <3>7, <3>8
  <2>. QED
    BY <2>7, FS_Singleton
<1>2. TypeInv /\ MailInv => OneHolder
  BY <1>1 DEF OneHolder
<1>. QED
  BY <1>2, TypeCorrect, MailInvariant, PTL

-----------------------------------------------------------------------------
(* The cache of recent results.                                            *)

\* A ledger on the way from one state to the next.
Sound(b) == b \in Ledger /\ Cached(b)

LEMMA EndingSound ==
  ASSUME NEW b, Sound(b), NEW t
  PROVE  /\ Sound(Accepted(b, t))
         /\ \A S : \A state \in Terminal : Sound(Finished(b, S, state))
  BY AcceptedCached, FinishedCached DEF Sound

LEMMA HandlerCached ==
  ASSUME TypeInv, Cached(ledger), ApplyCommand
  PROVE  Cached(ledger')
<1>1. Sound(ledger) /\ {"completed", "failed", "cancelled"} \subseteq Terminal
  BY DEF TypeInv, TypeOK, Sound, Terminal
<1>2. ASSUME NEW b, Sound(b)
      PROVE  /\ Sound(Accepted(b, cur)) /\ Sound(Done(b)) /\ Sound(Failed(b))
             /\ Sound(Finished(b, {cur}, "completed"))
             /\ Sound(Failed(Accepted(b, cur)))
  BY <1>1, <1>2, EndingSound DEF Done, Failed
<1>3. ASSUME NEW X
      PROVE  Sound(Finished(ledger, X, "cancelled"))
  BY <1>1, EndingSound
<1>4. CASE \/ Refuse \/ Query \/ AcquireDuplicate \/ AcquireDeferred \/ HoldOrientation
           \/ ClearTrack \/ StepFace \/ ClearFaceFollow
           \/ \E refused \in BOOLEAN : HoldAway(refused)
           \/ \E recent, aligned \in BOOLEAN : ReleaseAway(recent, aligned)
  <2>1. \/ ledger' = Done(ledger) \/ ledger' = Failed(ledger)
        \/ ledger' = Finished(ledger, {cur}, "completed")
    BY <1>4 DEF Refuse, Query, AcquireDuplicate, AcquireDeferred, HoldOrientation, ClearTrack,
                StepFace, ClearFaceFollow, HoldAway, ReleaseAway
  <2>2. Sound(ledger')
    BY <1>1, <1>2, <2>1
  <2>. QED
    BY <2>2 DEF Sound
<1>5. CASE CancelPlay \/ Interrupt \/ ReleaseTaskLight
  <2>1. \/ ledger' = Done(Finished(ledger, {active, task}, "cancelled"))
        \/ ledger' = Done(Finished(ledger, {task}, "cancelled"))
    BY <1>5 DEF CancelPlay, Interrupt, ReleaseTaskLight
  <2>2. Sound(ledger')
    BY <1>2, <1>3, <2>1
  <2>. QED
    BY <2>2 DEF Sound
<1>6. CASE PlayMotion \/ PlaceTaskLight \/ PlaceUnsafe \/ ReturnToCenter
  <2>1. \/ ledger' = Accepted(Finished(ledger, {active}, "cancelled"), cur)
        \/ ledger' = Accepted(Finished(ledger, {task}, "cancelled"), cur)
        \/ ledger' = Failed(Accepted(Finished(ledger, {task}, "cancelled"), cur))
        \/ ledger' = Accepted(Finished(ledger, {turn, back}, "cancelled"), cur)
    BY <1>6 DEF PlayMotion, PlaceTaskLight, PlaceUnsafe, ReturnToCenter, Failed
  <2>2. Sound(ledger')
    BY <1>2, <1>3, <2>1
  <2>. QED
    BY <2>2 DEF Sound
<1>7. ASSUME NEW aligned \in BOOLEAN, AcquireTurn(aligned)
      PROVE  Cached(ledger')
  <2> DEFINE replaced == Accepted(Finished(ledger, {back, turn}, "cancelled"), cur)
  <2>1. ledger' = IF aligned THEN Done(replaced) ELSE replaced
    BY <1>7 DEF AcquireTurn
  <2>2. Sound(replaced)
    BY <1>2, <1>3
  <2> HIDE DEF replaced
  <2>3. Sound(ledger')
    BY <1>2, <2>1, <2>2
  <2>. QED
    BY <2>3 DEF Sound
<1>. QED
  BY <1>4, <1>5, <1>6, <1>7 DEF ApplyCommand

LEMMA SubmitCached ==
  ASSUME TypeInv, MailInv, Cached(ledger), Submit
  PROVE  Cached(ledger')
<1> DEFINE t == NextTicket
<1>1. PICK r \in Menu :
        \/ SubmitKnown(r)
        \/ /\ t \in Ticket
           /\ \/ SubmitCollision(r, t) \/ SubmitStopped(r, t)
              \/ SubmitTracking(r, t) \/ SubmitDiscrete(r, t)
  BY DEF Submit
<1>2. /\ ledger \in Ledger /\ Books(ledger) /\ t = Fresh(ledger)
      /\ "failed" \in Terminal /\ "cancelled" \in Terminal
  BY MailTypes DEF MailInv, NextTicket, Fresh, Terminal
<1> HIDE DEF t
<1>3. CASE SubmitKnown(r)
  <2>1. PICK u \in Known(ledger, r.id) :
          ledger' = IF ledger.recent[u] > 0
                      THEN [ledger EXCEPT !.recent = Remember(@, {u})] ELSE ledger
    BY <1>3 DEF SubmitKnown
  <2>2. u \in Ticket
    BY DEF Known, Created
  <2>. QED
    BY <1>2, <2>1, <2>2, TouchedCached
<1>4. CASE t \in Ticket /\ SubmitCollision(r, t)
  <2>1. ledger' = Finished(Entered(ledger, t, r), {t}, "failed")
    BY <1>4 DEF SubmitCollision, Entered
  <2>. QED
    BY <1>2, <1>4, <2>1, RefusedCached
<1>5. CASE t \in Ticket /\ (SubmitStopped(r, t) \/ SubmitTracking(r, t) \/ SubmitDiscrete(r, t))
  <2>1. /\ Known(ledger, r.id) = {}
        /\ \/ ledger' = Opened(ledger, t, r)
           \/ \E S : \E state \in Terminal : ledger' = Finished(Opened(ledger, t, r), S, state)
    BY <1>2, <1>5 DEF SubmitStopped, SubmitTracking, SubmitDiscrete, Admits, Enqueue
  <2>2. Sound(Opened(ledger, t, r))
    BY <1>2, <1>5, <2>1, OpenedCached DEF Sound
  <2>3. Sound(ledger')
    BY <2>1, <2>2, EndingSound
  <2>. QED
    BY <2>3 DEF Sound
<1>. QED
  BY <1>1, <1>3, <1>4, <1>5

LEMMA StepCached == TypeInv /\ MailInv /\ Cached(ledger) /\ [Next]_vars => Cached(ledger')
<1>. SUFFICES ASSUME TypeInv, MailInv, Cached(ledger), [Next]_vars PROVE Cached(ledger')
  OBVIOUS
<1>1. Sound(ledger) /\ {"completed", "failed", "cancelled"} \subseteq Terminal
  BY DEF TypeInv, TypeOK, Sound, Terminal
<1>2. ASSUME \/ ledger' = ledger
             \/ \E S : \E state \in Terminal : ledger' = Finished(ledger, S, state)
             \/ \E t : \E S : \E state \in Terminal :
                  ledger' = Finished(Accepted(ledger, t), S, state)
      PROVE  Cached(ledger')
  <2>1. Sound(ledger')
    BY <1>1, <1>2, EndingSound
  <2>. QED
    BY <2>1 DEF Sound
<1>3. CASE UNCHANGED vars
  BY <1>2, <1>3 DEF vars
<1>4. CASE Network
  <2>1. CASE Submit
    BY <2>1, SubmitCached
  <2>2. CASE ~Submit
    <3>1. \/ ledger' = ledger
          \/ \E t : ledger' = Finished(ledger, {t}, "cancelled")
      BY <1>4, <2>2 DEF Network, RemoteDisconnected, InvalidateUnstarted, Stop
    <3>. QED
      BY <1>1, <1>2, <3>1
  <2>. QED
    BY <2>1, <2>2
<1>5. ASSUME NEW a, MonitorTemperature(a)
      PROVE  Cached(ledger')
  <2>1. \/ ledger' = ledger
        \/ ledger' = Finished(ledger, {active, task, turn, back}, "cancelled")
    BY <1>5 DEF MonitorTemperature, OverTemperature, WithinTemperature
  <2>. QED
    BY <1>1, <1>2, <2>1
<1>6. CASE StartTick \/ StepRuntime
  BY <1>5, <1>6 DEF StartTick, StepRuntime
<1>7. CASE SafeDisconnect \/ Shutdown
  <2>1. \E S : \E state \in {"failed", "cancelled"} : ledger' = Finished(ledger, S, state)
    BY <1>7 DEF SafeDisconnect, Shutdown
  <2>. QED
    BY <1>1, <1>2, <2>1
<1>8. CASE PassGate \/ TakeLatest \/ TracksDone \/ TakeCommand \/ MissSlot \/ Fault
  BY <1>2, <1>8 DEF PassGate, TakeLatest, TracksDone, TakeCommand, MissSlot, Fault
<1>9. CASE ApplyTracking
  <2>1. PICK k \in TrackKinds : RefuseTrack(k) \/ ObserveTrack(k)
    BY <1>9 DEF ApplyTracking
  <2>2. \/ ledger' = Finished(ledger, {took[k]}, "failed")
        \/ ledger' = Finished(Accepted(ledger, took[k]), {took[k]}, "completed")
    BY <2>1 DEF RefuseTrack, ObserveTrack
  <2>. QED
    BY <1>1, <1>2, <2>2
<1>10. CASE Begin
  <2>1. CASE ledger' = ledger
    BY <1>2, <2>1
  <2>2. CASE ledger' # ledger
    <3>1. /\ ledger' = [ledger EXCEPT !.started = @ \cup {ledger.req[cur].id}]
          /\ cur \in Created(ledger)
      BY <1>10, <2>2 DEF Begin, TypeInv, HandsCreated
    <3>2. ledger.req[cur].id \in Id
      BY <3>1, RequestInHand DEF TypeInv, TypeOK
    <3>. QED
      BY <1>1, <3>1, <3>2, StartedCached DEF Sound
  <2>. QED
    BY <2>1, <2>2
<1>11. CASE ApplyCommand
  BY <1>11, HandlerCached
<1>12. CASE \/ \E yawSettled, slow, lit \in BOOLEAN : Settle(yawSettled, slow, lit)
            \/ \E yawSettled \in BOOLEAN : FaultRepeating(yawSettled)
  <2>1. \E S : ledger' = Finished(ledger, S, "completed")
    BY <1>12 DEF Settle, FaultRepeating
  <2>. QED
    BY <1>1, <1>2, <2>1
<1>. QED
  BY <1>3, <1>4, <1>6, <1>7, <1>8, <1>9, <1>10, <1>11, <1>12 DEF Next, Tick

LEMMA CacheInvariant == Spec => []Cached(ledger)
<1>1. Init => Cached(ledger)
  BY EmptyCached DEF Init
<1>2. TypeInv /\ MailInv /\ Cached(ledger) /\ [Next]_vars => Cached(ledger)'
  BY StepCached
<1>. QED
  BY <1>1, <1>2, TypeCorrect, MailInvariant, PTL DEF Spec

(* A repeated request is carried out again only after it was forgotten.    *)
THEOREM RepeatedOnlyForgotten == Spec => []ExecutedOnce
<1>1. Cached(ledger) => ExecutedOnce
  <2>1. "accepted" \notin Terminal
    BY DEF Terminal
  <2>. QED
    BY <2>1 DEF Cached, ExecutedOnce
<1>. QED
  BY <1>1, CacheInvariant, PTL

-----------------------------------------------------------------------------
(* What the owner owes to the local clients.                               *)

Begun(t) == ledger.req[t].id \in ledger.started

(* What is in progress has been begun, and so has what was accepted.       *)
BegunInv ==
  /\ \A x \in Slots : x \in ledger.pending => Begun(x)
  /\ \A t \in ledger.pending : ledger.ack[t] = "accepted" => Begun(t)

\* A ledger on the way to the next, in which nothing but t has been accepted.
OnlyAccepts(b, t) ==
  b \in Ledger /\ \A u \in Ticket \ {t} : b.ack[u] = "accepted" => ledger.ack[u] = "accepted"

LEMMA EndingAccepts ==
  ASSUME NEW t \in Ticket \cup {NoTicket}, NEW b, OnlyAccepts(b, t)
  PROVE  /\ \A S : \A state \in Terminal : OnlyAccepts(Finished(b, S, state), t)
         /\ t \in Ticket => OnlyAccepts(Accepted(b, t), t)
<1>1. b \in Ledger /\ "accepted" \notin Terminal
  BY DEF OnlyAccepts, Terminal
<1>2. ASSUME NEW S, NEW state \in Terminal
      PROVE  OnlyAccepts(Finished(b, S, state), t)
  <2> DEFINE c == Finished(b, S, state)
  <2>1. /\ c \in Ledger
        /\ \A u \in Ticket :
             c.ack[u] = IF u \in S /\ b.ack[u] = "none" THEN state ELSE b.ack[u]
    BY <1>1, FinishedFields
  <2> HIDE DEF c
  <2>2. OnlyAccepts(c, t)
    BY <1>1, <2>1 DEF OnlyAccepts
  <2>. QED
    BY <2>2 DEF c
<1>3. ASSUME t \in Ticket
      PROVE  OnlyAccepts(Accepted(b, t), t)
  <2> DEFINE c == Accepted(b, t)
  <2>1. /\ c \in Ledger
        /\ \A u \in Ticket :
             c.ack[u] = IF u = t /\ b.ack[u] = "none" THEN "accepted" ELSE b.ack[u]
    BY <1>1, <1>3, AcceptedFields
  <2> HIDE DEF c
  <2>2. OnlyAccepts(c, t)
    BY <2>1 DEF OnlyAccepts
  <2>. QED
    BY <2>2 DEF c
<1>. QED
  BY <1>2, <1>3

LEMMA HandlerAccepts ==
  ASSUME TypeInv, ApplyCommand
  PROVE  pc = "apply" /\ OnlyAccepts(ledger', cur)
<1>1. /\ pc = "apply" /\ cur \in Ticket /\ OnlyAccepts(ledger, cur)
      /\ {"completed", "failed", "cancelled"} \subseteq Terminal
  <2>1. pc = "apply"
    BY DEF ApplyCommand, Applying, Refuse, Query, PlayMotion,
           CancelPlay, Interrupt, AcquireDuplicate, AcquireDeferred, AcquireTurn,
           Acquiring, ReturnToCenter, HoldOrientation, PlaceTaskLight, PlaceUnsafe,
           ReleaseTaskLight, ClearTrack, StepFace, ClearFaceFollow, HoldAway, ReleaseAway
  <2>. QED
    BY <2>1 DEF TypeInv, TypeOK, HandsCreated, Created, OnlyAccepts, Terminal
<1>2. ASSUME NEW b, OnlyAccepts(b, cur)
      PROVE  /\ OnlyAccepts(Accepted(b, cur), cur) /\ OnlyAccepts(Done(b), cur)
             /\ OnlyAccepts(Failed(b), cur)
             /\ OnlyAccepts(Finished(b, {cur}, "completed"), cur)
             /\ OnlyAccepts(Failed(Accepted(b, cur)), cur)
  BY <1>1, <1>2, EndingAccepts DEF Done, Failed
<1>3. ASSUME NEW X
      PROVE  OnlyAccepts(Finished(ledger, X, "cancelled"), cur)
  BY <1>1, EndingAccepts
<1>4. CASE \/ Refuse \/ Query \/ AcquireDuplicate \/ AcquireDeferred \/ HoldOrientation
           \/ ClearTrack \/ StepFace \/ ClearFaceFollow
           \/ \E refused \in BOOLEAN : HoldAway(refused)
           \/ \E recent, aligned \in BOOLEAN : ReleaseAway(recent, aligned)
  <2>1. \/ ledger' = Done(ledger) \/ ledger' = Failed(ledger)
        \/ ledger' = Finished(ledger, {cur}, "completed")
    BY <1>4 DEF Refuse, Query, AcquireDuplicate, AcquireDeferred, HoldOrientation, ClearTrack,
                StepFace, ClearFaceFollow, HoldAway, ReleaseAway
  <2>. QED
    BY <1>1, <1>2, <2>1
<1>5. CASE CancelPlay \/ Interrupt \/ ReleaseTaskLight
  <2>1. \/ ledger' = Done(Finished(ledger, {active, task}, "cancelled"))
        \/ ledger' = Done(Finished(ledger, {task}, "cancelled"))
    BY <1>5 DEF CancelPlay, Interrupt, ReleaseTaskLight
  <2>. QED
    BY <1>1, <1>2, <1>3, <2>1
<1>6. CASE PlayMotion \/ PlaceTaskLight \/ PlaceUnsafe \/ ReturnToCenter
  <2>1. \/ ledger' = Accepted(Finished(ledger, {active}, "cancelled"), cur)
        \/ ledger' = Accepted(Finished(ledger, {task}, "cancelled"), cur)
        \/ ledger' = Failed(Accepted(Finished(ledger, {task}, "cancelled"), cur))
        \/ ledger' = Accepted(Finished(ledger, {turn, back}, "cancelled"), cur)
    BY <1>6 DEF PlayMotion, PlaceTaskLight, PlaceUnsafe, ReturnToCenter, Failed
  <2>. QED
    BY <1>1, <1>2, <1>3, <2>1
<1>7. ASSUME NEW aligned \in BOOLEAN, AcquireTurn(aligned)
      PROVE  OnlyAccepts(ledger', cur)
  <2> DEFINE replaced == Accepted(Finished(ledger, {back, turn}, "cancelled"), cur)
  <2>1. ledger' = IF aligned THEN Done(replaced) ELSE replaced
    BY <1>7 DEF AcquireTurn
  <2>2. OnlyAccepts(replaced, cur)
    BY <1>2, <1>3
  <2> HIDE DEF replaced
  <2>. QED
    BY <1>2, <2>1, <2>2
<1>. QED
  BY <1>1, <1>4, <1>5, <1>6, <1>7 DEF ApplyCommand

LEMMA SubmitAccepts ==
  ASSUME TypeInv, MailInv, Submit
  PROVE  OnlyAccepts(ledger', NoTicket)
<1> DEFINE t == NextTicket
<1>1. PICK r \in Menu :
        \/ SubmitKnown(r)
        \/ /\ t \in Ticket
           /\ \/ SubmitCollision(r, t) \/ SubmitStopped(r, t)
              \/ SubmitTracking(r, t) \/ SubmitDiscrete(r, t)
  BY DEF Submit
<1>2. /\ ledger \in Ledger /\ OnlyAccepts(ledger, NoTicket)
      /\ "failed" \in Terminal /\ "cancelled" \in Terminal
  BY MailTypes DEF OnlyAccepts, Terminal
<1> HIDE DEF t
<1>3. CASE SubmitKnown(r)
  <2>1. PICK u \in Known(ledger, r.id) :
          ledger' = IF ledger.recent[u] > 0
                      THEN [ledger EXCEPT !.recent = Remember(@, {u})] ELSE ledger
    BY <1>3 DEF SubmitKnown
  <2>2. Remember(ledger.recent, {u}) \in [Ticket -> 0 .. RecentMax]
    BY <1>2, RememberType DEF Ledger, Known, Created
  <2>3. ledger' \in Ledger /\ ledger'.ack = ledger.ack
    BY <1>2, <2>1, <2>2 DEF Ledger
  <2>. QED
    BY <2>3 DEF OnlyAccepts
<1>4. ASSUME t \in Ticket
      PROVE  /\ OnlyAccepts(Entered(ledger, t, r), NoTicket)
             /\ OnlyAccepts(Opened(ledger, t, r), NoTicket)
  <2>1. Entered(ledger, t, r) \in Ledger /\ Opened(ledger, t, r) \in Ledger
    BY <1>2, <1>4, OpenedType DEF Entered
  <2>2. Entered(ledger, t, r).ack = ledger.ack /\ Opened(ledger, t, r).ack = ledger.ack
    BY <1>2 DEF Entered, Opened, Ledger
  <2>. QED
    BY <2>1, <2>2 DEF OnlyAccepts
<1>5. CASE /\ t \in Ticket
           /\ \/ SubmitCollision(r, t) \/ SubmitStopped(r, t)
              \/ SubmitTracking(r, t) \/ SubmitDiscrete(r, t)
  <2>1. PICK b \in {Entered(ledger, t, r), Opened(ledger, t, r)} :
          \/ ledger' = b
          \/ \E S : \E state \in {"failed", "cancelled"} : ledger' = Finished(b, S, state)
    BY <1>5 DEF SubmitCollision, SubmitStopped, SubmitTracking, SubmitDiscrete, Enqueue, Entered
  <2>2. OnlyAccepts(b, NoTicket)
    BY <1>4, <1>5, <2>1
  <2>. QED
    BY <1>2, <2>1, <2>2, EndingAccepts
<1>. QED
  BY <1>1, <1>3, <1>5

(* What is accepted while it is in flight is the command in hand.          *)
LEMMA StepAccepts ==
  ASSUME TypeInv, MailInv, [Next]_vars, NEW u \in Ticket, u \in ledger'.pending,
         ledger'.ack[u] = "accepted"
  PROVE  ledger.ack[u] = "accepted" \/ (u = cur /\ pc = "apply")
<1>1. /\ OnlyAccepts(ledger, NoTicket) /\ ledger \in Ledger /\ NoTicket \notin Ticket
      /\ {"completed", "failed", "cancelled"} \subseteq Terminal
  BY MailTypes DEF OnlyAccepts, Terminal
<1>2. ASSUME OnlyAccepts(ledger', NoTicket)
      PROVE  ledger.ack[u] = "accepted"
  BY <1>1, <1>2 DEF OnlyAccepts
<1>3. ASSUME \/ ledger' = ledger
             \/ \E S : \E state \in Terminal : ledger' = Finished(ledger, S, state)
      PROVE  ledger.ack[u] = "accepted"
  <2>1. OnlyAccepts(ledger', NoTicket)
    BY <1>1, <1>3, EndingAccepts
  <2>. QED
    BY <1>2, <2>1
<1>4. CASE UNCHANGED vars
  BY <1>3, <1>4 DEF vars
<1>5. CASE Network
  <2>1. CASE Submit
    BY <1>2, <2>1, SubmitAccepts
  <2>2. CASE ~Submit
    <3>1. \/ ledger' = ledger
          \/ \E t : ledger' = Finished(ledger, {t}, "cancelled")
      BY <1>5, <2>2 DEF Network, RemoteDisconnected, InvalidateUnstarted, Stop
    <3>. QED
      BY <1>1, <1>3, <3>1
  <2>. QED
    BY <2>1, <2>2
<1>6. ASSUME NEW a, MonitorTemperature(a)
      PROVE  ledger.ack[u] = "accepted"
  <2>1. \/ ledger' = ledger
        \/ ledger' = Finished(ledger, {active, task, turn, back}, "cancelled")
    BY <1>6 DEF MonitorTemperature, OverTemperature, WithinTemperature
  <2>. QED
    BY <1>1, <1>3, <2>1
<1>7. CASE StartTick \/ StepRuntime
  BY <1>6, <1>7 DEF StartTick, StepRuntime
<1>8. CASE SafeDisconnect \/ Shutdown
  <2>1. \E S : \E state \in {"failed", "cancelled"} : ledger' = Finished(ledger, S, state)
    BY <1>8 DEF SafeDisconnect, Shutdown
  <2>. QED
    BY <1>1, <1>3, <2>1
<1>9. CASE PassGate \/ TakeLatest \/ TracksDone \/ TakeCommand \/ MissSlot \/ Fault
  BY <1>3, <1>9 DEF PassGate, TakeLatest, TracksDone, TakeCommand, MissSlot, Fault
<1>10. ASSUME NEW k \in TrackKinds, RefuseTrack(k) \/ ObserveTrack(k)
       PROVE  ledger.ack[u] = "accepted"
  <2>1. CASE RefuseTrack(k)
    BY <1>1, <1>3, <2>1 DEF RefuseTrack
  <2>2. CASE ObserveTrack(k)
    <3> DEFINE b == Accepted(ledger, took[k])
    <3>1. took[k] \in Ticket /\ ledger' = Finished(b, {took[k]}, "completed")
      BY <2>2, MailTypes DEF ObserveTrack, NextTrack
    <3>2. b \in Ledger /\ \A v \in Ticket \ {took[k]} : b.ack[v] = ledger.ack[v]
      BY <1>1, <3>1, AcceptedFields
    <3> HIDE DEF b
    <3>3. /\ ledger'.pending = b.pending \ {took[k]}
          /\ ledger'.ack[u] = IF u \in {took[k]} /\ b.ack[u] = "none" THEN "completed" ELSE b.ack[u]
      BY <1>1, <3>1, <3>2, FinishedFields
    <3>. QED
      BY <3>2, <3>3
  <2>. QED
    BY <1>10, <2>1, <2>2
<1>11. CASE Begin
  BY <1>1, <1>3, <1>11 DEF Begin, Ledger
<1>12. CASE ApplyCommand
  BY <1>12, HandlerAccepts DEF OnlyAccepts
<1>13. CASE \/ \E yawSettled, slow, lit \in BOOLEAN : Settle(yawSettled, slow, lit)
            \/ \E yawSettled \in BOOLEAN : FaultRepeating(yawSettled)
  <2>1. \E S : ledger' = Finished(ledger, S, "completed")
    BY <1>13 DEF Settle, FaultRepeating
  <2>. QED
    BY <1>1, <1>3, <2>1
<1>. QED
  BY <1>4, <1>5, <1>7, <1>8, <1>9, <1>10, <1>11, <1>12, <1>13 DEF Next, Tick, ApplyTracking

\* A ticket in flight is left so, and a claim of the owner's is kept.
Spared(t) == t \in ledger'.pending /\ (Begun(t) => ledger.req[t].id \in ledger'.started)

\* What may end a ticket: being carried out, a newer observation, its
\* clients, the loss of the session, the end of the owner.
Goes(t) ==
  /\ t \notin ledger'.pending
  /\ \/ Begun(t)
     \/ ledger.req[t].origin # "local"
     \/ t \in invalidated' \ invalidated
     \/ ledger'.pending = {} /\ ((disconnect /\ ~disconnect') \/ pc' = "ended")

LEMMA TracksAreRemote ==
  ASSUME TypeInv, NEW t \in Created(ledger), ledger.req[t].kind \in TrackKinds
  PROVE  ledger.req[t].origin # "local"
<1>1. ledger.req[t] \in Request
  BY MailTypes, ControllerAssumption
<1>. QED
  BY <1>1 DEF Request, LocalKinds, TrackKinds

LEMMA ReducedSpares ==
  ASSUME NEW S, Reduced(ledger, ledger', S), NEW t \in ledger.pending
  PROVE  IF t \in S THEN t \notin ledger'.pending ELSE Spared(t)
  BY DEF Reduced, Spared, Begun

(* A handler ends what it has in hand or in progress, which is begun.      *)
LEMMA MovesSpares ==
  ASSUME TypeInv, MailInv, BegunInv, NEW S, Moves(S), pc \notin {"begin", "shutdown"},
         NEW t \in ledger.pending
  PROVE  Spared(t) \/ Goes(t)
<1>1. t # NoTicket /\ Reduced(ledger, ledger', S) /\ S \subseteq Slots \cup {NoTicket, cur}
  BY MailTypes DEF MailInv, Books, Moves
<1>2. cur = NoTicket \/ (pc = "apply" /\ Begun(cur))
  BY DEF MailInv, IdleHands, ClaimInv, Begun
<1>3. t \in S => Begun(t)
  BY <1>1, <1>2 DEF BegunInv
<1>. QED
  BY <1>1, <1>3, ReducedSpares DEF Goes

LEMMA SubmitSpares ==
  ASSUME TypeInv, MailInv, Submit, NEW t \in ledger.pending
  PROVE  Spared(t) \/ Goes(t)
<1> DEFINE new == NextTicket
<1>1. PICK r \in Menu :
        \/ SubmitKnown(r)
        \/ /\ new \in Ticket
           /\ \/ SubmitCollision(r, new) \/ SubmitStopped(r, new)
              \/ SubmitTracking(r, new) \/ SubmitDiscrete(r, new)
  BY DEF Submit
<1>2. /\ ledger \in Ledger /\ Books(ledger) /\ new = Fresh(ledger)
      /\ "failed" \in Terminal /\ "cancelled" \in Terminal
      /\ t \in Created(ledger) /\ t \in Ticket
  BY MailTypes DEF MailInv, Books, NextTicket, Fresh, Terminal
<1> HIDE DEF new
<1>3. CASE SubmitKnown(r)
  <2>1. PICK u \in Known(ledger, r.id) :
          ledger' = IF ledger.recent[u] > 0
                      THEN [ledger EXCEPT !.recent = Remember(@, {u})] ELSE ledger
    BY <1>3 DEF SubmitKnown
  <2>2. ledger'.pending = ledger.pending /\ ledger'.started = ledger.started
    BY <1>2, <2>1 DEF Ledger
  <2>. QED
    BY <2>2 DEF Spared, Begun
<1>4. ASSUME new \in Ticket, NEW S, Grown(ledger, ledger', new, r, S), t \notin S
      PROVE  Spared(t)
  BY <1>4 DEF Grown, Spared, Begun
<1>5. new \in Ticket => t # new
  BY <1>2, FreshTicket
<1>6. CASE new \in Ticket /\ SubmitCollision(r, new)
  <2>1. ledger' = Finished(Entered(ledger, new, r), {new}, "failed")
    BY <1>6 DEF SubmitCollision, Entered
  <2>2. Grown(ledger, ledger', new, r, {new})
    BY <1>2, <1>6, <2>1, RefusedGrows
  <2>. QED
    BY <1>4, <1>5, <1>6, <2>2
<1>7. ASSUME new \in Ticket, Known(ledger, r.id) = {},
             ledger' = Finished(Opened(ledger, new, r), {new}, "failed")
      PROVE  Spared(t)
  <2>1. {new} \cap Ticket \subseteq Created(ledger) \cup {new}
    OBVIOUS
  <2>2. Grown(ledger, ledger', new, r, {new})
    BY <1>2, <1>7, <2>1, GrownFinished
  <2>. QED
    BY <1>4, <1>5, <1>7, <2>2
<1>8. CASE new \in Ticket /\ SubmitTracking(r, new)
  <2> DEFINE old == latest[r.kind]
  <2>1. /\ Known(ledger, r.id) = {} /\ r.kind \in TrackKinds
        /\ ledger' = Finished(Opened(ledger, new, r), {old}, "cancelled")
    BY <1>8 DEF SubmitTracking, Admits
  <2>2. old = NoTicket \/ (old \in Created(ledger) /\ ledger.req[old].kind = r.kind)
    BY <2>1 DEF MailInv, HandsInv, Carries
  <2>3. NoTicket \notin Ticket /\ new \notin Created(ledger)
    BY <1>2, <1>8, FreshTicket, MailTypes
  <2> HIDE DEF old
  <2>4. {old} \cap Ticket \subseteq Created(ledger) \cup {new} /\ new \notin {old}
    BY <1>8, <2>2, <2>3
  <2>5. Grown(ledger, ledger', new, r, {old})
    BY <1>2, <1>8, <2>1, <2>4, GrownFinished
  <2>6. CASE t = old
    <3>1. ledger.req[t].origin # "local"
      BY <1>2, <2>1, <2>2, <2>3, <2>6, TracksAreRemote
    <3>2. t \notin ledger'.pending
      BY <2>5, <2>6 DEF Grown
    <3>. QED
      BY <3>1, <3>2 DEF Goes
  <2>. QED
    BY <1>4, <1>8, <2>5, <2>6
<1>9. CASE new \in Ticket /\ (SubmitStopped(r, new) \/ SubmitDiscrete(r, new))
  <2>1. /\ Known(ledger, r.id) = {}
        /\ \/ ledger' = Opened(ledger, new, r)
           \/ ledger' = Finished(Opened(ledger, new, r), {new}, "failed")
    BY <1>9 DEF SubmitStopped, SubmitDiscrete, Admits, Enqueue
  <2>2. CASE ledger' = Opened(ledger, new, r)
    <3>1. Grown(ledger, ledger', new, r, {})
      BY <1>2, <1>9, <2>1, <2>2, OpenedGrows
    <3>. QED
      BY <1>4, <1>9, <3>1
  <2>. QED
    BY <1>7, <1>9, <2>1, <2>2
<1>. QED
  BY <1>1, <1>3, <1>6, <1>8, <1>9

LEMMA StepSpares ==
  ASSUME TypeInv, MailInv, BegunInv, [Next]_vars, NEW t \in ledger.pending
  PROVE  Spared(t) \/ Goes(t)
<1>1. /\ ledger \in Ledger /\ Books(ledger) /\ t \in Created(ledger) /\ t \in Ticket
      /\ {"completed", "failed", "cancelled"} \subseteq Terminal
  BY MailTypes DEF MailInv, Books, Terminal
<1>2. ASSUME ledger'.pending = ledger.pending, ledger.started \subseteq ledger'.started
      PROVE  Spared(t) \/ Goes(t)
  BY <1>2 DEF Spared, Begun
<1>3. ASSUME NEW S, S \cap Ticket \subseteq Created(ledger), NEW state \in Terminal,
             ledger' = Finished(ledger, S, state)
      PROVE  ledger'.pending = ledger.pending \ S /\ (t \notin S => Spared(t))
  <2>1. Reduced(ledger, ledger', S)
    BY <1>1, <1>3, FinishedReduces
  <2>. QED
    BY <2>1, ReducedSpares DEF Reduced
<1>4. CASE UNCHANGED vars
  BY <1>2, <1>4 DEF vars
<1>5. CASE Submit
  BY <1>5, SubmitSpares
<1>6. CASE RemoteDisconnected \/ Stop
  BY <1>2, <1>6 DEF RemoteDisconnected, Stop
<1>7. ASSUME NEW u \in Ticket, InvalidateUnstarted(u)
      PROVE  Spared(t) \/ Goes(t)
  <2>1. /\ u \in ledger.pending /\ invalidated' = invalidated \cup {u}
        /\ ledger' = Finished(ledger, {u}, "cancelled")
    BY <1>7 DEF InvalidateUnstarted, Unstarted
  <2>2. u \notin invalidated /\ {u} \cap Ticket \subseteq Created(ledger)
    BY <2>1 DEF MailInv, QueueInv, Books
  <2>3. ledger'.pending = ledger.pending \ {u} /\ (t \notin {u} => Spared(t))
    BY <1>1, <1>3, <2>1, <2>2
  <2>. QED
    BY <2>1, <2>2, <2>3 DEF Goes
<1>8. CASE Network
  BY <1>5, <1>6, <1>7, <1>8 DEF Network
<1>9. ASSUME NEW a, MonitorTemperature(a), pc \notin {"begin", "shutdown"},
             UNCHANGED <<queue, latest, took, invalidated, cur>>
      PROVE  Spared(t) \/ Goes(t)
  BY <1>9, MonitorMoves, MovesSpares
<1>10. CASE StartTick \/ StepRuntime
  BY <1>9, <1>10 DEF StartTick, StepRuntime, mailVars, tickVars
<1>11. CASE ApplyCommand
  <2>1. pc = "apply" /\ \E S : Moves(S)
    BY <1>11, HandlerMoves
  <2>. QED
    BY <2>1, MovesSpares
<1>12. CASE SafeDisconnect \/ Shutdown
  <2>1. /\ (disconnect /\ ~disconnect') \/ pc' = "ended"
        /\ \E S : \E state \in {"failed", "cancelled"} :
             ledger' = Finished(ledger, S, state) /\ ledger.pending \subseteq S
    BY <1>12 DEF SafeDisconnect, Shutdown
  <2>2. ledger'.pending = {}
    BY <1>1, <2>1, FinishedFields
  <2>. QED
    BY <2>1, <2>2 DEF Goes
<1>13. CASE PassGate \/ TakeLatest \/ TracksDone \/ TakeCommand \/ MissSlot \/ Fault
  BY <1>2, <1>13 DEF PassGate, TakeLatest, TracksDone, TakeCommand, MissSlot, Fault
<1>14. ASSUME NEW k \in TrackKinds, RefuseTrack(k) \/ ObserveTrack(k)
       PROVE  Spared(t) \/ Goes(t)
  <2>1. took[k] \in Created(ledger) /\ ledger.req[took[k]].kind = k
    BY <1>14, MailTypes DEF RefuseTrack, ObserveTrack, NextTrack, MailInv, HandsInv, Carries
  <2>2. Reduced(ledger, ledger', {took[k]})
    <3>1. CASE RefuseTrack(k)
      BY <1>1, <2>1, <3>1, FinishedReduces DEF RefuseTrack
    <3>2. CASE ObserveTrack(k)
      <4> DEFINE b == Accepted(ledger, took[k])
      <4>1. Reduced(ledger, b, {})
        BY <1>1, <2>1, AcceptedReduces
      <4>2. ledger' = Finished(b, {took[k]}, "completed")
        BY <3>2 DEF ObserveTrack
      <4> HIDE DEF b
      <4>3. b \in Ledger /\ Books(b) /\ {took[k]} \cap Ticket \subseteq Created(b)
        BY <2>1, <4>1 DEF Reduced
      <4>4. Reduced(b, ledger', {took[k]})
        BY <1>1, <4>2, <4>3, FinishedReduces
      <4>5. Reduced(ledger, ledger', {} \cup {took[k]})
        BY <4>1, <4>4, ReducedTwice
      <4>6. {} \cup {took[k]} = {took[k]}
        OBVIOUS
      <4>. QED
        BY <4>5, <4>6
    <3>. QED
      BY <1>14, <3>1, <3>2
  <2>3. IF t = took[k] THEN t \notin ledger'.pending ELSE Spared(t)
    BY <2>2, ReducedSpares
  <2>4. t = took[k] => ledger.req[t].origin # "local"
    BY <2>1, TracksAreRemote
  <2>. QED
    BY <2>3, <2>4 DEF Goes
<1>15. CASE Begin
  <2>1. ledger'.pending = ledger.pending /\ ledger.started \subseteq ledger'.started
    BY <1>1, <1>15 DEF Begin, Ledger
  <2>. QED
    BY <1>2, <2>1
<1>16. CASE \/ \E yawSettled, slow, lit \in BOOLEAN : Settle(yawSettled, slow, lit)
            \/ \E yawSettled \in BOOLEAN : FaultRepeating(yawSettled)
  <2>1. \E S : ledger' = Finished(ledger, S, "completed") /\ S \subseteq Slots
    BY <1>16 DEF Settle, FaultRepeating, EndedTurns, EndedMotion, EndedTask, Slots
  <2>2. PICK S : ledger' = Finished(ledger, S, "completed") /\ S \subseteq Slots
    BY <2>1
  <2>3. S \cap Ticket \subseteq Created(ledger)
    BY <2>2, MailTypes DEF MailInv, HandsInv, Carries, Slots
  <2>4. ledger'.pending = ledger.pending \ S /\ (t \notin S => Spared(t))
    BY <1>1, <1>3, <2>2, <2>3
  <2>5. t \in S => Begun(t)
    BY <2>2 DEF BegunInv
  <2>. QED
    BY <2>4, <2>5 DEF Goes
<1>. QED
  BY <1>4, <1>8, <1>10, <1>11, <1>12, <1>13, <1>14, <1>15, <1>16 DEF Next, Tick, ApplyTracking

(* Only the command that is carried out is put into a slot.                *)
LEMMA StepSlots ==
  ASSUME TypeInv, MailInv, [Next]_vars, NEW x \in Slots', x # NoTicket
  PROVE  x \in Slots \/ (x = cur /\ pc = "apply")
<1>1. ASSUME UNCHANGED <<active, task, turn, back>>
      PROVE  x \in Slots
  BY <1>1 DEF Slots
<1>2. ASSUME \E S : Moves(S), pc \notin {"begin", "shutdown"}
      PROVE  x \in Slots \/ (x = cur /\ pc = "apply")
  BY <1>2 DEF Moves, SlotMove, Slots, MailInv, IdleHands
<1>. USE DEF workVars, motionVars, taskVars, turnVars
<1>3. CASE UNCHANGED vars \/ Network
  BY <1>1, <1>3 DEF vars, ownerVars, Network, Submit, RemoteDisconnected, InvalidateUnstarted, Stop
<1>4. CASE StartTick \/ StepRuntime
  <2>1. pc \notin {"begin", "shutdown"} /\ \E a : MonitorTemperature(a)
    BY <1>4 DEF StartTick, StepRuntime
  <2>2. UNCHANGED <<queue, latest, took, invalidated, cur>>
    BY <1>4 DEF StartTick, StepRuntime, mailVars, tickVars
  <2>. QED
    BY <1>2, <2>1, <2>2, MonitorMoves
<1>5. CASE ApplyCommand
  BY <1>2, <1>5, HandlerMoves
<1>6. CASE SafeDisconnect \/ Shutdown
  BY <1>6 DEF SafeDisconnect, Shutdown, CancelMotion, CancelTask, Slots
<1>7. CASE \/ PassGate \/ TakeLatest \/ TracksDone \/ TakeCommand \/ MissSlot \/ Fault
           \/ Begin \/ ApplyTracking
  BY <1>1, <1>7 DEF PassGate, TakeLatest, TracksDone, TakeCommand, MissSlot, Fault, Begin,
                    ApplyTracking, RefuseTrack, ObserveTrack, NextTrack
<1>8. CASE \/ \E yawSettled, slow, lit \in BOOLEAN : Settle(yawSettled, slow, lit)
           \/ \E yawSettled \in BOOLEAN : FaultRepeating(yawSettled)
  BY <1>8 DEF Settle, FaultRepeating, ObserveOrientation, Slots
<1>. QED
  BY <1>3, <1>4, <1>5, <1>6, <1>7, <1>8 DEF Next, Tick

LEMMA StepBegun == TypeInv /\ MailInv /\ MailInv' /\ BegunInv /\ [Next]_vars => BegunInv'
<1>. SUFFICES ASSUME TypeInv, MailInv, MailInv', BegunInv, [Next]_vars PROVE BegunInv'
  OBVIOUS
<1>1. Later(ledger, ledger')
  BY StepKept DEF Kept
<1>2. pc = "apply" => cur \in ledger.pending /\ Begun(cur)
  BY DEF MailInv, ClaimInv, Begun
<1>3. ASSUME NEW t \in ledger.pending, t \in ledger'.pending, Begun(t)
      PROVE  Begun(t)'
  <2>1. Spared(t)
    BY <1>3, StepSpares DEF Goes
  <2>2. ledger'.req[t] = ledger.req[t]
    BY <1>1 DEF Later, MailInv, Books
  <2>. QED
    BY <1>3, <2>1, <2>2 DEF Spared, Begun
\* Nothing that has ended is in flight again.
<1>4. ASSUME NEW t \in Created(ledger), t \in ledger'.pending
      PROVE  t \in ledger.pending
  BY <1>1, <1>4 DEF Later, MailInv, Books
<1>5. ASSUME NEW x \in Slots', x \in ledger'.pending
      PROVE  Begun(x)'
  <2>1. ledger'.pending \subseteq Ticket /\ NoTicket \notin Ticket
    BY MailTypes DEF MailInv, Books, Created
  <2>2. x \in Slots \/ (x = cur /\ pc = "apply")
    BY <1>5, <2>1, StepSlots
  <2>3. x \in ledger.pending /\ Begun(x)
    <3>1. x \in Created(ledger)
      BY <1>2, <1>5, <2>1, <2>2 DEF MailInv, HandsInv, Carries, Slots, Books
    <3>. QED
      BY <1>2, <1>4, <1>5, <2>2, <3>1 DEF BegunInv
  <2>. QED
    BY <1>3, <1>5, <2>3
<1>6. ASSUME NEW t \in ledger'.pending, ledger'.ack[t] = "accepted"
      PROVE  Begun(t)'
  <2>1. t \in Ticket
    BY DEF MailInv, Books, Created
  <2>2. ledger.ack[t] = "accepted" \/ (t = cur /\ pc = "apply")
    BY <1>6, <2>1, StepAccepts
  <2>3. t \in ledger.pending /\ Begun(t)
    <3>1. CASE ledger.ack[t] = "accepted"
      BY <1>4, <2>1, <3>1 DEF MailInv, Books, BegunInv
    <3>. QED
      BY <1>2, <2>2, <3>1
  <2>. QED
    BY <1>3, <2>3
<1>. QED
  BY <1>5, <1>6 DEF BegunInv

LEMMA BegunInvariant == Spec => []BegunInv
<1>1. Init => BegunInv
  BY EmptyBooks DEF Init, BegunInv, EmptyLedger
<1>2. TypeInv /\ MailInv /\ MailInv' /\ BegunInv /\ [Next]_vars => BegunInv'
  BY StepBegun
<1>. QED
  BY <1>1, <1>2, TypeCorrect, MailInvariant, PTL DEF Spec

(* A local command waits for the owner untouched, and once begun it stays  *)
(* begun until it ends.                                                    *)
THEOREM LocalsWait == Spec => LocalsAwaitTheOwner
<1> DEFINE Waits(t) ==
             IF ledger.req[t].id \in ledger.started
               THEN t \in ledger'.pending => ledger.req[t].id \in ledger'.started
               ELSE \/ t \in ledger'.pending /\ ledger'.ack[t] = "none"
                    \/ t \in invalidated' \ invalidated
                    \/ ledger'.pending = {} /\ ((disconnect /\ ~disconnect') \/ pc' = "ended")
<1>1. ASSUME TypeInv, TypeInv', MailInv, MailInv', BegunInv, [Next]_vars,
             NEW t \in ledger.pending, ledger.req[t].origin = "local"
      PROVE  Waits(t)
  <2>1. Spared(t) \/ Goes(t)
    BY <1>1, StepSpares
  <2>2. ASSUME ~Begun(t), t \in ledger'.pending
        PROVE  ledger'.ack[t] = "none"
    <3>1. t \in Ticket
      BY <1>1 DEF MailInv, Books, Created
    <3>2. pc = "apply" => t # cur
      BY <1>1, <2>2 DEF MailInv, ClaimInv, Begun
    <3>3. ledger'.ack[t] # "accepted"
      BY <1>1, <2>2, <3>1, <3>2, StepAccepts DEF BegunInv
    <3>4. ledger'.ack[t] \notin Terminal
      BY <1>1, <2>2 DEF MailInv, Books
    <3>5. ledger' \in Ledger
      BY <1>1 DEF TypeInv, TypeOK
    <3>. QED
      BY <3>1, <3>3, <3>4, <3>5 DEF Ledger
  <2>. QED
    BY <1>1, <2>1, <2>2 DEF Spared, Goes, Begun
<1>2. TypeInv /\ TypeInv' /\ MailInv /\ MailInv' /\ BegunInv /\ [Next]_vars
        => [\A t \in ledger.pending : ledger.req[t].origin = "local" => Waits(t)]_vars
  BY <1>1
<1>. QED
  BY <1>2, TypeCorrect, MailInvariant, BegunInvariant, PTL DEF Spec, LocalsAwaitTheOwner

-----------------------------------------------------------------------------
(* The anchor of a turn.                                                   *)

LEMMA ObserveKeepsSpeech ==
  ASSUME NEW o \in Orientation, NEW yawSettled
  PROVE  Observe(o, yawSettled).speech = o.speech
<1>. DEFINE n == IF yawSettled THEN Saturating(o.settle, SettleTicks) ELSE 0
            s == Reached(o, n)
            m == IF s = o.state THEN n ELSE 0
            next == [o EXCEPT !.state = s, !.settle = m]
<1>1. CASE HoldExpired(o)
  BY <1>1 DEF Observe, ReturnCenter, Orientation
<1>2. CASE ~HoldExpired(o) /\ o.state \notin {"orienting", "returning"}
  BY <1>2 DEF Observe, Elapse, Orientation
<1>3. CASE ~HoldExpired(o) /\ o.state \in {"orienting", "returning"}
  <2>1. Observe(o, yawSettled) = Elapse(next)
    BY <1>3 DEF Observe
  <2>. HIDE DEF n, s, m
  <2>2. Elapse(next).speech = o.speech
    BY DEF Elapse, Orientation
  <2>. QED
    BY <2>1, <2>2
<1>. QED
  BY <1>1, <1>2, <1>3

(* While a client waits for a turn the base turns to the utterance of that *)
(* turn; only the end of an away pose, which makes the turn that the pose  *)
(* refused, takes the base elsewhere.                                      *)
THEOREM AnchorIsKept == Spec => TurnKeepsItsAnchor
<1>1. ASSUME TypeInv, MailInv, [Next]_vars
      PROVE  [(turn # NoTicket /\ turn' = turn /\ ori'.speech # ori.speech)
                => pc = "apply" /\ ledger.req[cur].kind = "away.clear"]_vars
  <2>. SUFFICES ASSUME Next, turn # NoTicket, turn' = turn, ori'.speech # ori.speech
                PROVE  pc = "apply" /\ ledger.req[cur].kind = "away.clear"
    BY <1>1
  <2>1. ori \in Orientation /\ ori' # ori
    BY <1>1 DEF TypeInv, TypeOK
  <2>2. ASSUME ApplyCommand
        PROVE  \E recent, aligned \in BOOLEAN : ReleaseAway(recent, aligned)
    <3>1. ASSUME NEW aligned \in BOOLEAN, AcquireTurn(aligned) PROVE FALSE
      <4>1. turn' \in {NoTicket, cur}
        BY <3>1 DEF AcquireTurn
      <4>2. turn # cur
        BY <1>1 DEF MailInv, PlaceInv, Slots
      <4>. QED
        BY <4>1, <4>2
    <3>2. ~ReturnToCenter
      BY DEF ReturnToCenter
    <3>3. \/ ori' = ori \/ ReturnToCenter
          \/ \E aligned \in BOOLEAN : AcquireTurn(aligned)
          \/ \E recent, aligned \in BOOLEAN : ReleaseAway(recent, aligned)
      BY <2>2
         DEF workVars, turnVars, ApplyCommand, Refuse, Query, PlayMotion, CancelPlay,
             Interrupt, AcquireDuplicate, AcquireDeferred, HoldOrientation, PlaceTaskLight,
             PlaceUnsafe, ReleaseTaskLight, ClearTrack, StepFace, ClearFaceFollow, HoldAway
    <3>. QED
      BY <2>1, <3>1, <3>2, <3>3
  <2>3. ~Network
    BY <2>1
       DEF Network, Submit, RemoteDisconnected, InvalidateUnstarted, Unstarted, Stop,
           ownerVars, workVars, turnVars
  <2>4. ASSUME NEW a, MonitorTemperature(a) PROVE FALSE
    BY <2>1, <2>4 DEF MonitorTemperature, OverTemperature, WithinTemperature, turnVars
  <2>5. ~(\/ PassGate \/ TakeLatest \/ ApplyTracking \/ TracksDone
          \/ TakeCommand \/ Begin \/ Fault \/ SafeDisconnect \/ Shutdown)
    BY <2>1 DEF PassGate, TakeLatest, ApplyTracking, RefuseTrack, ObserveTrack, NextTrack,
                TracksDone, TakeCommand, Begin, Fault, SafeDisconnect, Shutdown,
                workVars, turnVars
  <2>6. ~MissSlot
    <3>1. Unobserved(ori).speech = ori.speech
      BY <2>1 DEF Unobserved, Elapse, Orientation
    <3>. QED
      BY <3>1 DEF MissSlot
  <2>7. ASSUME NEW yawSettled \in BOOLEAN, ObserveOrientation(Observe(ori, yawSettled))
        PROVE  FALSE
    BY <2>1, <2>7, ObserveKeepsSpeech DEF ObserveOrientation
  <2>8. ~(StartTick \/ StepRuntime)
    BY <2>4 DEF StartTick, StepRuntime
  <2>9. ApplyCommand
    BY <2>3, <2>5, <2>6, <2>7, <2>8 DEF Next, Tick, Settle, FaultRepeating
  <2>. QED
    BY <2>2, <2>9 DEF ReleaseAway, Applying
<1>. QED
  BY <1>1, TypeCorrect, MailInvariant, PTL DEF Spec, TurnKeepsItsAnchor

-----------------------------------------------------------------------------
(* The controller implements the life cycle of a ticket.                   *)

LEMMA PhaseStep ==
  ASSUME TypeInv, TypeInv', MailInv, MailInv', Later(ledger, ledger'), NEW t \in Ticket
  PROVE  Phase(t)' \in Lifecycle!After(Phase(t))
<1>1. /\ ledger.done[t] \in {"none", "completed", "failed", "cancelled"}
      /\ ledger'.done[t] \in {"none", "completed", "failed", "cancelled"}
  BY DEF TypeInv, TypeOK, Ledger, Terminal
<1>2. CASE t \notin Created(ledger)
  <2>1. t \in Created(ledger') =>
          ledger'.done[t] = "failed" \/ (ledger'.done[t] = "none" /\ ledger'.ack[t] = "none")
    BY <1>2 DEF Later
  <2>2. Phase(t) = "unborn" /\ Phase(t)' \in {"unborn", "open", "failed"}
    BY <1>2, <2>1 DEF Phase
  <2>. QED
    BY <2>2 DEF Lifecycle!After, Lifecycle!Ended
<1>3. CASE t \in Created(ledger)
  <2>1. /\ t \in Created(ledger')
        /\ ledger.done[t] # "none" => ledger'.done[t] = ledger.done[t]
        /\ ledger.ack[t] # "none" => ledger'.ack[t] = ledger.ack[t]
    BY <1>3 DEF Later
  <2>2. CASE ledger.done[t] # "none"
    <3>1. Phase(t) = ledger.done[t] /\ Phase(t)' = ledger.done[t]
      BY <1>3, <2>1, <2>2 DEF Phase
    <3>. QED
      BY <1>1, <2>2, <3>1 DEF Lifecycle!After, Lifecycle!Ended
  <2>3. CASE ledger.done[t] = "none" /\ ledger.ack[t] = "accepted"
    <3>1. Phase(t) = "accepted" /\ Phase(t)' \in {"accepted", "completed", "failed", "cancelled"}
      BY <1>1, <1>3, <2>1, <2>3 DEF Phase
    <3>. QED
      BY <3>1 DEF Lifecycle!After, Lifecycle!Ended
  <2>4. CASE ledger.done[t] = "none" /\ ledger.ack[t] # "accepted"
    <3>1. /\ Phase(t) = "open"
          /\ Phase(t)' \in {"open", "accepted", "completed", "failed", "cancelled"}
      BY <1>1, <1>3, <2>1, <2>4 DEF Phase
    <3>. QED
      BY <3>1 DEF Lifecycle!After, Lifecycle!Ended
  <2>. QED
    BY <2>2, <2>3, <2>4
<1>. QED
  BY <1>2, <1>3

(* After a step, too, a phase names what the ledger says of a ticket.      *)
LEMMA PhaseMeans ==
  ASSUME TypeInv', MailInv', NEW t \in Ticket
  PROVE  /\ Phase(t)' \in Lifecycle!Phases
         /\ Phase(t)' = "unborn" <=> t \notin Created(ledger')
         /\ Phase(t)' \in {"open", "accepted"} <=> t \in ledger'.pending
         /\ t \in Created(ledger') => ledger'.req[t].id \in Id /\ ledger'.req[t].id # NoId
<1>1. ledger'.done[t] \in {"none", "completed", "failed", "cancelled"} /\ ledger' \in Ledger
  BY DEF TypeInv, TypeOK, Ledger, Terminal
<1>2. t \in ledger'.pending <=> t \in Created(ledger') /\ ledger'.done[t] = "none"
  BY DEF MailInv, Books
<1>3. t \in Created(ledger') => ledger'.req[t].id \in Id /\ ledger'.req[t].id # NoId
  BY <1>1, RequestInHand, NoIdAssumption
<1>. QED
  BY <1>1, <1>2, <1>3 DEF Phase, Lifecycle!Phases, Lifecycle!Ended

(* A client that watches a ticket sees it open, accepted at most once and  *)
(* ended once, with a result that never changes.                           *)
THEOREM TicketsLive == Spec => ImplementsLifecycle
<1> DEFINE phases == [t \in Ticket |-> Phase(t)]
           ids == [t \in Ticket |-> IF t \in Created(ledger) THEN ledger.req[t].id ELSE NoId]
<1>1. Init => Lifecycle!Init
  <2>1. Init => \A t \in Ticket : t \notin Created(ledger)
    BY EmptyBooks DEF Init
  <2>. QED
    BY <2>1 DEF Lifecycle!Init, Phase
<1>2. ASSUME TypeInv, TypeInv', MailInv, MailInv', Later(ledger, ledger')
      PROVE  Lifecycle!Step
  <2>1. \A t \in Ticket :
          /\ Phase(t)' \in Lifecycle!Phases
          /\ Phase(t)' = "unborn" <=> t \notin Created(ledger')
          /\ Phase(t)' \in {"open", "accepted"} <=> t \in ledger'.pending
          /\ t \in Created(ledger') => ledger'.req[t].id \in Id /\ ledger'.req[t].id # NoId
    BY <1>2, PhaseMeans
  <2>2. \A t \in Ticket : Phase(t)' \in Lifecycle!After(Phase(t))
    BY <1>2, PhaseStep
  <2>3. \A t \in Ticket :
          phases[t] = Phase(t) /\ phases'[t] = Phase(t)'
          /\ ids[t] = (IF t \in Created(ledger) THEN ledger.req[t].id ELSE NoId)
          /\ ids'[t] = (IF t \in Created(ledger') THEN ledger'.req[t].id ELSE NoId)
    OBVIOUS
  <2>4. phases' \in [Ticket -> Lifecycle!Phases]
    BY <2>1
  <2>5. ids' \in [Ticket -> Id \cup {NoId}]
    BY <2>1
  <2>6. \A t \in Ticket : (phases'[t] = "unborn") <=> (ids'[t] = NoId)
    BY <2>1, <2>3
  <2>7. \A t \in Ticket : phases[t] # "unborn" => ids'[t] = ids[t]
    <3>1. \A t \in Ticket : phases[t] # "unborn" => t \in Created(ledger)
      BY <2>3 DEF Phase
    <3>2. \A t \in Created(ledger) : t \in Created(ledger') /\ ledger'.req[t] = ledger.req[t]
      BY <1>2 DEF Later
    <3>. QED
      BY <2>3, <3>1, <3>2
  <2>8. \A t, u \in Ticket :
          /\ phases'[t] \in {"open", "accepted"} /\ phases'[u] \in {"open", "accepted"}
          /\ t # u
          => ids'[t] # ids'[u]
    <3>1. ledger'.pending \subseteq Created(ledger')
      BY <1>2 DEF MailInv, Books
    <3>2. \A t, u \in ledger'.pending : ledger'.req[t].id = ledger'.req[u].id => t = u
      BY <1>2 DEF MailInv, Books
    <3>. QED
      BY <2>1, <2>3, <3>1, <3>2
  <2>9. \A t \in Ticket : phases'[t] \in Lifecycle!After(phases[t])
    BY <2>2, <2>3
  <2> HIDE DEF phases, ids
  <2>. QED
    BY <2>4, <2>5, <2>6, <2>7, <2>8, <2>9 DEF Lifecycle!Step, Lifecycle!Live, phases, ids
<1>. QED
  BY <1>1, <1>2, StepKept, TypeCorrect, MailInvariant, PTL
     DEF ImplementsLifecycle, Lifecycle!Spec, Spec, Kept
=============================================================================
