----------------------- MODULE MotionControllerProofs -----------------------
(***************************************************************************)
(* Theorems of MotionController, for every number of tickets and queue     *)
(* places, every menu of requests, every timing constant and every choice  *)
(* of events.                                                              *)
(***************************************************************************)
EXTENDS MotionControllerProperties, TicketLedgerProofs

-----------------------------------------------------------------------------
(* The endings of a handler.                                               *)
LEMMA DoneType ==
  ASSUME NEW b \in Ledger
  PROVE  /\ Done(b) \in Ledger /\ Done(b).req = b.req
         /\ Failed(b) \in Ledger /\ Failed(b).req = b.req
BY AcceptedType, FinishedType DEF Done, Failed, Terminal

-----------------------------------------------------------------------------
(* The orientation coordinator.                                            *)

LEMMA SaturatingType ==
  ASSUME NEW bound \in Nat, NEW n \in 0 .. bound
  PROVE  Saturating(n, bound) \in 0 .. bound
BY DEF Saturating

(* Every operation yields a state of the coordinator.                      *)
LEMMA AcquireType ==
  ASSUME NEW o \in Orientation, NEW s \in Speech, NEW lightBusy, NEW aligned
  PROVE  Acquire(o, s, lightBusy, aligned) \in Orientation
BY OrientationAssumption DEF Acquire, Orientation, OrientationState

LEMMA ReturnType ==
  ASSUME NEW o \in Orientation
  PROVE  ReturnCenter(o) \in Orientation /\ Disconnected(o) \in Orientation
<1>1. /\ "returning" \in OrientationState
      /\ 0 \in 0 .. AcquireTimeout
      /\ 0 \in 0 .. SettleTicks
      /\ {0, 1} \subseteq 0 .. DisconnectHold + 1
  BY OrientationAssumption DEF OrientationState
<1>2. ReturnCenter(o) \in Orientation
  BY <1>1 DEF ReturnCenter, Orientation
<1>3. Disconnected(o) \in Orientation
  BY <1>1 DEF Disconnected, Orientation
<1>. QED
  BY <1>2, <1>3

LEMMA ReleaseType == Release \in Orientation
BY OrientationAssumption DEF Release, IdleOrientation, Orientation, OrientationState

LEMMA ElapseType ==
  ASSUME NEW o \in Orientation
  PROVE  Elapse(o) \in Orientation /\ Elapse(o).state = o.state
<1>. DEFINE age == IF o.state = "orienting" THEN Saturating(o.age, AcquireTimeout) ELSE 0
            lost == IF o.lost = 0 THEN 0 ELSE Saturating(o.lost, DisconnectHold + 1)
<1>1. age \in 0 .. AcquireTimeout
  BY OrientationAssumption DEF Saturating, Orientation
<1>2. lost \in 0 .. DisconnectHold + 1
  BY OrientationAssumption DEF Saturating, Orientation
<1>3. Elapse(o) = [o EXCEPT !.age = age, !.lost = lost]
  BY DEF Elapse, Orientation
<1>. HIDE DEF age, lost
<1>. QED
  BY <1>1, <1>2, <1>3 DEF Orientation

LEMMA UnobservedType ==
  ASSUME NEW o \in Orientation
  PROVE  /\ Unobserved(o) \in Orientation
         /\ Unobserved(o).state = o.state
         /\ Unobserved(o).lost > 0 => o.lost > 0
<1>1. Elapse(o) \in Orientation
  BY ElapseType
<1>2. ASSUME NEW n \in 0 .. SettleTicks
      PROVE  (IF n = 0 THEN 0 ELSE Saturating(n, SettleTicks)) \in 0 .. SettleTicks
  BY OrientationAssumption DEF Saturating
<1>3. Elapse(o).state = o.state /\ (Elapse(o).lost > 0 => o.lost > 0)
  BY OrientationAssumption DEF Elapse, Orientation
<1>. HIDE DEF Elapse
<1>4. Unobserved(o) \in Orientation
  BY <1>1, <1>2 DEF Unobserved, Orientation
<1>. QED
  BY <1>1, <1>3, <1>4 DEF Unobserved, Orientation

LEMMA ReachedType ==
  ASSUME NEW o \in Orientation, NEW n
  PROVE  Reached(o, n) \in OrientationState
BY DEF Reached, Orientation, OrientationState

LEMMA ObserveType ==
  ASSUME NEW o \in Orientation, NEW yawSettled
  PROVE  Observe(o, yawSettled) \in Orientation
<1>1. CASE HoldExpired(o)
  BY <1>1, ReturnType DEF Observe
<1>2. CASE ~HoldExpired(o) /\ o.state \notin {"orienting", "returning"}
  BY <1>2, ElapseType DEF Observe
<1>3. CASE ~HoldExpired(o) /\ o.state \in {"orienting", "returning"}
  <2>. DEFINE n == IF yawSettled THEN Saturating(o.settle, SettleTicks) ELSE 0
              s == Reached(o, n)
              next == [o EXCEPT !.state = s, !.settle = IF s = o.state THEN n ELSE 0]
  <2>1. n \in 0 .. SettleTicks
    BY OrientationAssumption DEF Saturating, Orientation
  <2>2. s \in OrientationState
    BY ReachedType
  <2>3. Observe(o, yawSettled) = Elapse(next)
    BY <1>3 DEF Observe
  <2>. HIDE DEF n, s
  <2>4. next \in Orientation
    <3>1. (IF s = o.state THEN n ELSE 0) \in 0 .. SettleTicks
      BY <2>1, OrientationAssumption
    <3>. QED
      BY <2>2, <3>1 DEF Orientation
  <2>. QED
    BY <2>3, <2>4, ElapseType
<1>. QED
  BY <1>1, <1>2, <1>3

-----------------------------------------------------------------------------
(* The layers of the arm.                                                  *)

LEMMA ArmType ==
  ASSUME NEW a \in Arm
  PROVE  /\ ClearTracking(a) \in Arm
         /\ ClearFace(a) \in Arm
         /\ ClearAway(a) \in Arm
         /\ ClearTaskLight(a) \in Arm
         /\ BargeIn(a) \in Arm
         /\ Stepped(a) \subseteq Arm
<1>1. ClearTracking(a) \in Arm /\ ClearFace(a) \in Arm /\ ClearAway(a) \in Arm
  BY DEF ClearTracking, ClearFace, ClearAway, Arm
<1>2. ClearTaskLight(a) \in Arm /\ BargeIn(a) \in Arm
  BY DEF ClearTaskLight, BargeIn, Arm
<1>3. Stepped(a) \subseteq Arm
  BY DEF Stepped, Arm
<1>. QED
  BY <1>1, <1>2, <1>3

-----------------------------------------------------------------------------
(* Type correctness.                                                       *)

(* A ticket that exists carries a request of the menu.                     *)
LEMMA RequestInHand ==
  ASSUME NEW b \in Ledger, NEW t \in Created(b)
  PROVE  /\ t \in Ticket
         /\ b.req[t] \in Menu
         /\ b.req[t].id \in Id
         /\ b.req[t].speech \in Speech \cup {NoSpeech}
         /\ b.req[t].kind = "orientation.acquire" => b.req[t].speech \in Speech
         /\ b.req[t].repeat \in 1 .. 3
<1>1. t \in Ticket /\ b.req[t] \in Menu
  BY LedgerAssumption DEF Created, Ledger
<1>2. b.req[t] \in Request
  BY <1>1, ControllerAssumption
<1>. QED
  BY <1>1, <1>2 DEF Request

LEMMA InitTypeInv == Init => TypeInv
<1>. SUFFICES ASSUME Init PROVE TypeInv
  OBVIOUS
<1>1. ledger \in Ledger
  BY LedgerAssumption DEF Init, EmptyLedger, Ledger
<1>2. ori \in Orientation
  BY ReleaseType DEF Init, Release
<1>3. arm \in Arm
  BY DEF Init, Arm
<1>4. TypeOK
  <2>1. queue \in Seq(Ticket) /\ Len(queue) <= QueueMax
    BY ControllerAssumption DEF Init
  <2>2. latest \in [TrackKinds -> Ticket \cup {NoTicket}]
        /\ took \in [TrackKinds -> Ticket \cup {NoTicket}]
    BY DEF Init, NoTracks
  <2>3. /\ settled \in 0 .. SettledTicks /\ taskSettled \in 0 .. SettledTicks
        /\ repeats \in 0 .. 2
    BY ControllerAssumption DEF Init
  <2>. QED
    BY <1>1, <1>2, <1>3, <2>1, <2>2, <2>3 DEF Init, TypeOK, PCs
<1>5. HandsCreated
  BY DEF Init, HandsCreated
<1>. QED
  BY <1>4, <1>5 DEF TypeInv

(* Submission: a new ticket is number NextTicket, or there is none.        *)
LEMMA SubmitTypeInv ==
  ASSUME TypeInv, Submit
  PROVE  TypeInv'
<1>. USE DEF TypeInv
<1>1. PICK r \in Menu :
        \/ SubmitKnown(r)
        \/ /\ NextTicket \in Ticket
           /\ \/ SubmitCollision(r, NextTicket)
              \/ SubmitStopped(r, NextTicket)
              \/ SubmitTracking(r, NextTicket)
              \/ SubmitDiscrete(r, NextTicket)
  BY DEF Submit
<1>. DEFINE t == NextTicket
<1>2. UNCHANGED <<invalidated, disconnect, stopped, fault, ownerVars>>
  BY DEF Submit
<1>3. ASSUME ledger' \in Ledger, Created(ledger) \subseteq Created(ledger'),
             queue' \in Seq(Ticket), Len(queue') <= QueueMax,
             \A i \in DOMAIN queue' : queue'[i] \in Created(ledger'),
             latest' \in [TrackKinds -> Ticket \cup {NoTicket}]
      PROVE  TypeInv'
  BY <1>2, <1>3
     DEF TypeOK, HandsCreated, ownerVars, tickVars, motionVars, taskVars, turnVars,
         holdVars, workVars, bodyVars, heatVars
<1>4. CASE SubmitKnown(r)
  <2>1. ledger' \in Ledger /\ ledger'.req = ledger.req
    <3>1. PICK u \in Known(ledger, r.id) :
            ledger' = IF ledger.recent[u] > 0
                        THEN [ledger EXCEPT !.recent = Remember(@, {u})] ELSE ledger
      BY <1>4 DEF SubmitKnown
    <3>2. Remember(ledger.recent, {u}) \in [Ticket -> 0 .. RecentMax]
      BY RememberType DEF TypeOK, Ledger, Known, Created
    <3>. QED
      BY <3>1, <3>2 DEF TypeOK, Ledger
  <2>. QED
    BY <1>3, <1>4, <2>1 DEF SubmitKnown, Created, TypeOK, HandsCreated
<1>5. CASE t \in Ticket /\ SubmitCollision(r, t)
  <2>. DEFINE b == [ledger EXCEPT !.req[t] = r]
  <2>1. b \in Ledger /\ Created(b) = Created(ledger) \cup {t}
    BY <1>5, OpenedType DEF TypeOK
  <2>2. ledger' = Finished(b, {t}, "failed")
    BY <1>5 DEF SubmitCollision
  <2>3. ledger' \in Ledger /\ Created(ledger') = Created(b)
    BY <2>1, <2>2, FinishedType DEF Created, Terminal
  <2>. QED
    BY <1>3, <1>5, <2>1, <2>3 DEF SubmitCollision, TypeOK, HandsCreated
<1>6. CASE /\ t \in Ticket
           /\ SubmitStopped(r, t) \/ SubmitTracking(r, t) \/ SubmitDiscrete(r, t)
  <2>. DEFINE b == Opened(ledger, t, r)
  <2>1. b \in Ledger /\ Created(b) = Created(ledger) \cup {t}
    BY <1>6, OpenedType DEF TypeOK
  <2>2. ASSUME NEW S, NEW state \in Terminal
        PROVE  Finished(b, S, state) \in Ledger /\ Created(Finished(b, S, state)) = Created(b)
    BY <2>1, FinishedType DEF Created
  <2>3. ledger' \in Ledger /\ Created(ledger') = Created(ledger) \cup {t}
    BY <1>6, <2>1, <2>2 DEF SubmitStopped, SubmitTracking, SubmitDiscrete, Admits,
                            Enqueue, Terminal
  <2>4. queue' = queue \/ (queue' = Append(queue, t) /\ Len(queue) < QueueMax)
    BY <1>6 DEF SubmitStopped, SubmitTracking, SubmitDiscrete, Admits, Enqueue, HasRoom
  <2>5. /\ queue' \in Seq(Ticket) /\ Len(queue') <= QueueMax
        /\ \A i \in DOMAIN queue' : queue'[i] \in Created(ledger')
    BY <1>6, <2>3, <2>4, ControllerAssumption DEF TypeOK, HandsCreated
  <2>6. latest' \in [TrackKinds -> Ticket \cup {NoTicket}]
    BY <1>6 DEF SubmitStopped, SubmitTracking, SubmitDiscrete, Admits, Enqueue, TypeOK
  <2>. QED
    BY <1>3, <2>3, <2>5, <2>6
<1>. QED
  BY <1>1, <1>4, <1>5, <1>6

LEMMA NetworkTypeInv ==
  ASSUME TypeInv, Network
  PROVE  TypeInv'
<1>. USE DEF TypeInv
<1>1. CASE Submit
  BY <1>1, SubmitTypeInv
<1>2. CASE RemoteDisconnected
  BY <1>2 DEF RemoteDisconnected, ownerVars, tickVars, motionVars, taskVars, turnVars,
              holdVars, workVars, bodyVars, heatVars, TypeOK, HandsCreated
<1>3. ASSUME NEW t \in Ticket, InvalidateUnstarted(t)
      PROVE  TypeInv'
  <2>1. ledger' \in Ledger /\ Created(ledger') = Created(ledger)
    BY <1>3, FinishedType DEF InvalidateUnstarted, Unstarted, TypeOK, Terminal, Created
  <2>2. invalidated' \subseteq Ticket
    BY <1>3 DEF InvalidateUnstarted, Unstarted, TypeOK
  <2>3. UNCHANGED <<queue, latest, disconnect, stopped, fault, ownerVars>>
    BY <1>3 DEF InvalidateUnstarted, Unstarted
  <2>. QED
    BY <2>1, <2>2, <2>3
       DEF ownerVars, tickVars, motionVars, taskVars, turnVars, holdVars, workVars,
           bodyVars, heatVars, TypeOK, HandsCreated
<1>4. CASE Stop
  BY <1>4 DEF Stop, ownerVars, tickVars, motionVars, taskVars, turnVars, holdVars,
              workVars, bodyVars, heatVars, TypeOK, HandsCreated
<1>. QED
  BY <1>1, <1>2, <1>3, <1>4 DEF Network

(* What a handler must leave in order for the step to keep TypeInv.        *)
LEMMA HandlerTypeInv ==
  ASSUME TypeInv,
         pc' = "step", cur' = NoTicket,
         UNCHANGED <<mailVars, status, took, heatVars>>,
         ledger' \in Ledger, ledger'.req = ledger.req,
         active' \in Ticket \cup {NoTicket}, repeats' \in 0 .. 2,
         settled' \in 0 .. SettledTicks,
         task' \in Ticket \cup {NoTicket}, taskSettled' \in 0 .. SettledTicks,
         turn' \in Ticket \cup {NoTicket}, back' \in Ticket \cup {NoTicket},
         held' \in BOOLEAN, deferred' \in Speech \cup {NoSpeech},
         sources' \subseteq TrackKinds, safeWait' \in BOOLEAN,
         arm' \in Arm, ori' \in Orientation
  PROVE  TypeInv'
BY DEF TypeInv, TypeOK, HandsCreated, mailVars, heatVars, Created, PCs

(* One discrete command is applied.                                        *)
LEMMA ApplyTypeInv ==
  ASSUME TypeInv, ApplyCommand
  PROVE  TypeInv'
<1>. USE DEF TypeInv
<1>1. cur \in Created(ledger) /\ ledger \in Ledger /\ cur \in Ticket
  BY RequestInHand
     DEF ApplyCommand, Applying, HandsCreated, TypeOK, Refuse, Query, PlayMotion,
         CancelPlay, Interrupt, AcquireDuplicate, AcquireDeferred, AcquireTurn,
         Acquiring, ReturnToCenter, HoldOrientation, PlaceTaskLight, PlaceUnsafe,
         ReleaseTaskLight, ClearTrack, StepFace, ClearFaceFollow, HoldAway, ReleaseAway
<1>2. /\ ledger.req[cur].speech \in Speech \cup {NoSpeech}
      /\ ledger.req[cur].kind = "orientation.acquire" => ledger.req[cur].speech \in Speech
      /\ ledger.req[cur].repeat - 1 \in 0 .. 2
  BY <1>1, RequestInHand
<1>3. ASSUME NEW b \in Ledger, b.req = ledger.req
      PROVE  /\ Done(b) \in Ledger /\ Done(b).req = ledger.req
             /\ Failed(b) \in Ledger /\ Failed(b).req = ledger.req
             /\ Accepted(b, cur) \in Ledger /\ Accepted(b, cur).req = ledger.req
  BY <1>3, DoneType, AcceptedType
<1>4. ASSUME NEW b \in Ledger, b.req = ledger.req, NEW S, NEW state \in Terminal
      PROVE  Finished(b, S, state) \in Ledger /\ Finished(b, S, state).req = ledger.req
  BY <1>4, FinishedType
<1>5. {"failed", "completed", "cancelled"} \subseteq Terminal /\ 0 \in 0 .. SettledTicks
  BY ControllerAssumption DEF Terminal
<1>. USE <1>1, <1>3, <1>4, <1>5, HandlerTypeInv
<1>. USE DEF TypeOK, Applying, CancelMotion, CancelTask, motionVars, taskVars,
             turnVars, holdVars, workVars, bodyVars
<1>a. CASE Refuse
  BY <1>a DEF Refuse
<1>b. CASE Query
  BY <1>b DEF Query
<1>c. CASE PlayMotion
  <2>1. arm' \in Arm
    <3>1. arm \in Arm /\ arm' = [arm EXCEPT !.clip = TRUE]
      BY <1>c DEF PlayMotion
    <3>. QED
      BY ONLY <3>1 DEF Arm
  <2>2. ledger' \in Ledger /\ ledger'.req = ledger.req
    BY <1>c DEF PlayMotion
  <2>. QED
    BY <1>c, <1>2, <2>1, <2>2 DEF PlayMotion
<1>d. CASE CancelPlay
  BY <1>d, ArmType DEF CancelPlay
<1>e. CASE Interrupt
  BY <1>e, ArmType DEF Interrupt
<1>f. CASE AcquireDuplicate
  BY <1>f DEF AcquireDuplicate
<1>g. CASE AcquireDeferred
  BY <1>g, <1>2 DEF AcquireDeferred
<1>h. ASSUME NEW aligned \in BOOLEAN, AcquireTurn(aligned)
      PROVE  TypeInv'
  <2>1. ori' \in Orientation
    BY <1>h, <1>2, AcquireType DEF AcquireTurn, Acquiring
  <2>2. ledger' \in Ledger /\ ledger'.req = ledger.req
    BY <1>h DEF AcquireTurn, Acquiring
  <2>. QED
    BY <1>h, <2>1, <2>2 DEF AcquireTurn, Acquiring
<1>i. CASE ReturnToCenter
  BY <1>i, ReturnType DEF ReturnToCenter
<1>j. CASE HoldOrientation
  BY <1>j DEF HoldOrientation
<1>k. CASE PlaceTaskLight
  <2>1. arm' \in Arm
    BY <1>k DEF PlaceTaskLight, Arm
  <2>2. ledger' \in Ledger /\ ledger'.req = ledger.req
    BY <1>k DEF PlaceTaskLight
  <2>. QED
    BY <1>k, <2>1, <2>2 DEF PlaceTaskLight
<1>l. CASE PlaceUnsafe
  BY <1>l, ArmType DEF PlaceUnsafe
<1>m. CASE ReleaseTaskLight
  BY <1>m, ArmType DEF ReleaseTaskLight
<1>n. CASE ClearTrack
  BY <1>n, ArmType DEF ClearTrack, mailVars
<1>o. CASE StepFace
  BY <1>o DEF StepFace, Arm
<1>p. CASE ClearFaceFollow
  BY <1>p, ArmType DEF ClearFaceFollow
<1>q. ASSUME NEW refused \in BOOLEAN, HoldAway(refused)
      PROVE  TypeInv'
  <2>1. ClearFace(arm) \in Arm
    BY ArmType
  <2>2. arm' \in Arm
    BY <1>q, <2>1 DEF HoldAway, Arm
  <2>3. ledger' \in Ledger /\ ledger'.req = ledger.req
    BY <1>q DEF HoldAway
  <2>. QED
    BY <1>q, <2>2, <2>3 DEF HoldAway
<1>r. ASSUME NEW recent \in BOOLEAN, NEW aligned \in BOOLEAN, ReleaseAway(recent, aligned)
      PROVE  TypeInv'
  BY <1>r, ArmType, AcquireType DEF ReleaseAway
<1>. QED
  BY <1>a, <1>b, <1>c, <1>d, <1>e, <1>f, <1>g, <1>h, <1>i, <1>j, <1>k, <1>l, <1>m,
     <1>n, <1>o, <1>p, <1>q, <1>r
     DEF ApplyCommand

(* The temperature checks.                                                 *)
LEMMA MonitorType ==
  ASSUME TypeOK, NEW a \in Arm, temp' \in Temperatures, MonitorTemperature(a)
  PROVE  /\ ledger' \in Ledger /\ ledger'.req = ledger.req
         /\ active' \in Ticket \cup {NoTicket} /\ repeats' \in 0 .. 2
         /\ settled' \in 0 .. SettledTicks
         /\ task' \in Ticket \cup {NoTicket} /\ taskSettled' \in 0 .. SettledTicks
         /\ turn' \in Ticket \cup {NoTicket} /\ back' \in Ticket \cup {NoTicket}
         /\ safeWait' \in BOOLEAN /\ alert' \in BOOLEAN
         /\ arm' \in Arm /\ ori' \in Orientation
<1>1. CASE OverTemperature(a)
  <2>1. ledger' \in Ledger /\ ledger'.req = ledger.req
    BY <1>1, FinishedType DEF OverTemperature, TypeOK, Terminal
  <2>2. arm' \in Arm /\ ori' \in Orientation
    BY <1>1, ArmType, ReleaseType DEF OverTemperature
  <2>3. 0 \in 0 .. SettledTicks
    BY ControllerAssumption
  <2>. QED
    BY <1>1, <2>1, <2>2, <2>3 DEF OverTemperature, CancelMotion, CancelTask
<1>2. CASE WithinTemperature(a)
  <2>1. arm' \in Arm
    BY <1>2, ArmType DEF WithinTemperature
  <2>. QED
    BY <1>2, <2>1 DEF WithinTemperature, TypeOK, motionVars, taskVars, turnVars
<1>. QED
  BY <1>1, <1>2 DEF MonitorTemperature

(* The end of the tick.                                                    *)
LEMMA SettleTypeInv ==
  ASSUME TypeInv, NEW yawSettled \in BOOLEAN, NEW slow \in BOOLEAN, NEW lit \in BOOLEAN,
         Settle(yawSettled, slow, lit)
  PROVE  TypeInv'
<1>. USE DEF TypeInv
<1>1. ledger' \in Ledger /\ ledger'.req = ledger.req
  BY FinishedType DEF Settle, TypeOK, Terminal
<1>2. ori' \in Orientation
  BY ObserveType DEF Settle, ObserveOrientation, TypeOK
<1>3. ASSUME NEW n \in 0 .. SettledTicks, NEW go \in BOOLEAN
      PROVE  Count(n, go) \in 0 .. SettledTicks
  BY SaturatingType, ControllerAssumption DEF Count
<1>4. MotionSettled(slow) \in 0 .. SettledTicks
  <2>1. arm.clip \in BOOLEAN /\ (~arm.clip /\ slow) \in BOOLEAN /\ 0 \in 0 .. SettledTicks
    BY ControllerAssumption DEF TypeOK, Arm
  <2>. QED
    BY <1>3, <2>1 DEF MotionSettled, TypeOK
<1>5. TaskCount(lit, slow) \in 0 .. SettledTicks
  BY <1>3 DEF TaskCount, TypeOK
<1>6. repeats' \in 0 .. 2
  BY DEF Settle, RepeatsClip, TypeOK
<1>7. arm' \in Arm
  <2>1. arm \in Arm /\ (arm' = arm \/ arm' = [arm EXCEPT !.clip = TRUE])
    BY DEF Settle, TypeOK
  <2>. QED
    BY ONLY <2>1 DEF Arm
<1>8. status' \in {"idle", "busy", "safe_wait", "stopped", "fault"}
  BY DEF Settle, StatusNow
<1>9. /\ active' \in Ticket \cup {NoTicket}
      /\ turn' \in Ticket \cup {NoTicket} /\ back' \in Ticket \cup {NoTicket}
      /\ task' \in Ticket \cup {NoTicket} /\ pc' = "idle"
      /\ settled' \in 0 .. SettledTicks /\ taskSettled' \in 0 .. SettledTicks
  BY <1>4, <1>5 DEF Settle, ObserveOrientation, TypeOK
<1>10. UNCHANGED <<mailVars, tickVars, holdVars, sources, safeWait, heatVars>>
  BY DEF Settle
<1>. HIDE DEF TypeInv
<1>. QED
  BY <1>1, <1>2, <1>6, <1>7, <1>8, <1>9, <1>10
     DEF TypeInv, TypeOK, HandsCreated, mailVars, tickVars, holdVars, workVars,
         bodyVars, heatVars, Created, PCs

(* The end of a tick that fails half way.                                  *)
LEMMA FaultRepeatingTypeInv ==
  ASSUME TypeInv, NEW yawSettled \in BOOLEAN, FaultRepeating(yawSettled)
  PROVE  TypeInv'
<1>1. ledger' \in Ledger /\ ledger'.req = ledger.req
  BY FinishedType DEF FaultRepeating, TypeInv, TypeOK, Terminal
<1>2. ori' \in Orientation
  BY ObserveType DEF FaultRepeating, ObserveOrientation, TypeInv, TypeOK
<1>3. /\ turn' \in Ticket \cup {NoTicket} /\ back' \in Ticket \cup {NoTicket}
      /\ pc' = "shutdown" /\ fault' = TRUE /\ stopped' = TRUE
  BY DEF FaultRepeating, ObserveOrientation, TypeInv, TypeOK
<1>4. UNCHANGED <<queue, latest, invalidated, disconnect, status, tickVars, motionVars,
                  taskVars, holdVars, bodyVars>>
  BY DEF FaultRepeating
<1>. QED
  BY <1>1, <1>2, <1>3, <1>4
     DEF TypeInv, TypeOK, HandsCreated, tickVars, motionVars, taskVars, holdVars,
         bodyVars, heatVars, Created, PCs

(* Every other section of the tick.                                        *)
LEMMA SectionTypeInv ==
  ASSUME TypeInv,
         \/ StartTick \/ MissSlot \/ SafeDisconnect \/ PassGate \/ TakeLatest
         \/ ApplyTracking \/ TracksDone \/ TakeCommand \/ Begin \/ StepRuntime
         \/ Fault \/ Shutdown
  PROVE  TypeInv'
<1>. USE DEF TypeInv
<1>1. ASSUME NEW S, NEW state \in Terminal
      PROVE  /\ Finished(ledger, S, state) \in Ledger
             /\ Finished(ledger, S, state).req = ledger.req
  BY FinishedType DEF TypeOK
<1>2. /\ "failed" \in Terminal /\ "completed" \in Terminal /\ "cancelled" \in Terminal
      /\ 0 \in 0 .. SettledTicks
  BY ControllerAssumption DEF Terminal
<1>3. NoTracks \in [TrackKinds -> Ticket \cup {NoTicket}]
  BY DEF NoTracks
<1>4. queue \in Seq(Ticket) /\ Len(queue) <= QueueMax /\ QueueMax \in Nat \ {0}
      /\ <<>> \in Seq(Ticket) /\ Len(<<>>) = 0
  BY ControllerAssumption DEF TypeOK
<1>. USE DEF mailVars, tickVars, motionVars, taskVars, turnVars, holdVars, workVars,
             bodyVars, heatVars
<1>a. CASE StartTick
  BY <1>a, MonitorType DEF StartTick, TypeOK, HandsCreated, Created, PCs
<1>b. CASE MissSlot
  BY <1>b, UnobservedType DEF MissSlot, TypeOK, HandsCreated, StatusNow, Created
<1>c. CASE SafeDisconnect
  <2>1. ledger' \in Ledger /\ ledger'.req = ledger.req
    BY <1>c, <1>1, <1>2 DEF SafeDisconnect
  <2>2. arm' \in Arm /\ ori' \in Orientation
    BY <1>c, ArmType, ReturnType DEF SafeDisconnect, TypeOK
  <2>3. /\ queue' = <<>> /\ latest' = NoTracks
        /\ invalidated' \subseteq Ticket /\ disconnect' \in BOOLEAN
    BY <1>c DEF SafeDisconnect, TypeOK
  <2>4. /\ active' = NoTicket /\ repeats' = 0 /\ settled' = 0
        /\ task' = NoTicket /\ taskSettled' = 0
        /\ turn' = NoTicket /\ back' = NoTicket
        /\ sources' = {} /\ safeWait' = TRUE /\ pc' = "step"
        /\ UNCHANGED <<stopped, fault, status, tickVars, holdVars, heatVars>>
    BY <1>c DEF SafeDisconnect, CancelMotion, CancelTask
  <2>. QED
    BY <1>2, <1>3, <1>4, <2>1, <2>2, <2>3, <2>4 DEF TypeOK, HandsCreated, PCs
<1>d. CASE PassGate
  BY <1>d DEF PassGate, TypeOK, HandsCreated, PCs
<1>e. CASE TakeLatest
  <2>1. arm' \in Arm
    BY <1>e, ArmType DEF TakeLatest, TypeOK
  <2>. QED
    BY <1>e, <1>3, <2>1 DEF TakeLatest, TypeOK, HandsCreated, PCs
<1>f. ASSUME NEW k \in TrackKinds, RefuseTrack(k) \/ ObserveTrack(k)
      PROVE  TypeInv'
  <2>1. ledger' \in Ledger /\ ledger'.req = ledger.req
    BY <1>f, <1>1, <1>2, AcceptedType, FinishedType DEF RefuseTrack, ObserveTrack, TypeOK
  <2>2. arm' \in Arm
    <3>1. arm \in Arm /\ (arm' = arm \/ arm' = [arm EXCEPT !.tracking = TRUE])
      BY <1>f DEF RefuseTrack, ObserveTrack, TypeOK
    <3>. QED
      BY ONLY <3>1 DEF Arm
  <2>3. /\ sources' \subseteq TrackKinds /\ safeWait' \in BOOLEAN
        /\ took' \in [TrackKinds -> Ticket \cup {NoTicket}]
        /\ UNCHANGED <<queue, latest>>
    BY <1>f DEF RefuseTrack, ObserveTrack, NextTrack, TypeOK
  <2>4. UNCHANGED <<mailVars, pc, status, cur, motionVars, taskVars, turnVars, holdVars,
                    heatVars>>
    BY <1>f DEF RefuseTrack, ObserveTrack, NextTrack
  <2>. QED
    BY <2>1, <2>2, <2>3, <2>4 DEF TypeOK, HandsCreated, Created
<1>g. CASE TracksDone
  BY <1>g DEF TracksDone, TypeOK, HandsCreated, PCs
<1>h. CASE TakeCommand
  <2>1. CASE queue = <<>>
    BY <1>h, <2>1 DEF TakeCommand, TypeOK, HandsCreated, PCs
  <2>2. CASE queue # <<>>
    <3>1. /\ Tail(queue) \in Seq(Ticket) /\ Len(Tail(queue)) <= QueueMax
          /\ Head(queue) \in Ticket /\ Head(queue) = queue[1] /\ 1 \in DOMAIN queue
          /\ \A i \in DOMAIN Tail(queue) :
               i + 1 \in DOMAIN queue /\ Tail(queue)[i] = queue[i + 1]
      BY <1>4, <2>2
    <3>. QED
      BY <1>h, <2>2, <3>1 DEF TakeCommand, TypeOK, HandsCreated, PCs
  <2>. QED
    BY <2>1, <2>2
<1>i. CASE Begin
  <2>1. ledger.req[cur].id \in Id
    BY <1>i, RequestInHand DEF Begin, TypeOK, HandsCreated
  <2>2. ledger' \in Ledger /\ ledger'.req = ledger.req
    <3>1. /\ ledger \in Ledger
          /\ \/ ledger' = ledger
             \/ ledger' = [ledger EXCEPT !.started = @ \cup {ledger.req[cur].id}]
      BY <1>i DEF Begin, TypeOK
    <3>. QED
      BY <2>1, <3>1 DEF Ledger
  <2>3. /\ pc' \in {"step", "apply"} /\ cur' \in {cur, NoTicket}
        /\ pc' = "apply" => cur' = cur
        /\ pc = "begin" /\ invalidated' \subseteq invalidated
    BY <1>i DEF Begin
  <2>4. UNCHANGED <<queue, latest, disconnect, stopped, fault, status, took, motionVars,
                    taskVars, turnVars, holdVars, sources, safeWait, heatVars, arm>>
    BY <1>i DEF Begin
  <2>. QED
    BY <2>2, <2>3, <2>4 DEF TypeOK, HandsCreated, Created, PCs
<1>j. CASE StepRuntime
  <2>1. PICK a \in Arm : MonitorTemperature(a)
    BY <1>j, ArmType DEF StepRuntime, TypeOK
  <2>. QED
    BY <1>j, <2>1, MonitorType DEF StepRuntime, TypeOK, HandsCreated, Created, PCs
<1>k. CASE Fault
  BY <1>k DEF Fault, TypeOK, HandsCreated, PCs
<1>l. CASE Shutdown
  <2>1. ledger' \in Ledger /\ ledger'.req = ledger.req
    <3>1. \/ ledger' = Finished(ledger, ledger.pending, "failed")
          \/ ledger' = Finished(ledger, ledger.pending, "cancelled")
      BY <1>l DEF Shutdown
    <3>. QED
      BY <1>1, <1>2, <3>1
  <2>2. arm' \in Arm /\ ori' \in Orientation
    BY <1>l, ArmType, ReleaseType DEF Shutdown, TypeOK
  <2>. QED
    BY <1>l, <1>3, <1>4, <2>1, <2>2 DEF Shutdown, StatusNow, TypeOK, HandsCreated, PCs
<1>. QED
  BY <1>a, <1>b, <1>c, <1>d, <1>e, <1>f, <1>g, <1>h, <1>i, <1>j, <1>k, <1>l
     DEF ApplyTracking

LEMMA StepTypeInv == TypeInv /\ [Next]_vars => TypeInv'
<1>. SUFFICES ASSUME TypeInv, [Next]_vars PROVE TypeInv'
  OBVIOUS
<1>1. CASE Next
  <2>1. CASE Network
    BY <2>1, NetworkTypeInv
  <2>2. CASE ApplyCommand
    BY <2>2, ApplyTypeInv
  <2>3. CASE \E yawSettled, slow, lit \in BOOLEAN : Settle(yawSettled, slow, lit)
    BY <2>3, SettleTypeInv
  <2>4. CASE \E yawSettled \in BOOLEAN : FaultRepeating(yawSettled)
    BY <2>4, FaultRepeatingTypeInv
  <2>. QED
    BY <1>1, <2>1, <2>2, <2>3, <2>4, SectionTypeInv DEF Next, Tick
<1>2. CASE UNCHANGED vars
  BY <1>2 DEF vars, ownerVars, mailVars, tickVars, motionVars, taskVars, turnVars,
              holdVars, workVars, bodyVars, heatVars, TypeInv, TypeOK, HandsCreated,
              Created
<1>. QED
  BY <1>1, <1>2

(* Every variable keeps its type, and the queue and the owner's hands hold *)
(* only tickets that were submitted: no handler reads a request that is    *)
(* not there.                                                              *)
THEOREM TypeCorrect == Spec => []TypeInv
BY InitTypeInv, StepTypeInv, PTL DEF Spec

(* In particular every variable keeps its type.                            *)
THEOREM Typed == Spec => []TypeOK
BY TypeCorrect, PTL DEF TypeInv

-----------------------------------------------------------------------------
(* What the arm is doing.                                                  *)

(* What an operation on the layers ends, and what it cannot start.         *)
LEMMA ArmEffects ==
  ASSUME NEW a \in Arm
  PROVE  /\ ClearTracking(a).tracking = FALSE
         /\ \A b \in {ClearFace(a), ClearAway(a), BargeIn(a), ClearTaskLight(a)} :
              b.tracking = a.tracking
         /\ ClearFace(a).face # "following"
         /\ \A b \in {ClearTracking(a), ClearAway(a), BargeIn(a), ClearTaskLight(a)} :
              b.face = a.face
         /\ ClearAway(a).away = FALSE
         /\ \A b \in {ClearTracking(a), ClearFace(a), BargeIn(a), ClearTaskLight(a)} :
              b.away = a.away
         /\ BargeIn(a).light # "held" /\ ClearTaskLight(a).light # "held"
         /\ \A b \in {ClearTracking(a), ClearFace(a), ClearAway(a)} : b.light = a.light
BY DEF ClearTracking, ClearFace, ClearAway, BargeIn, ClearTaskLight, Arm

(* A step of the blender only lets envelopes close.                        *)
LEMMA SteppedEffects ==
  ASSUME NEW a \in Arm, NEW b \in Stepped(a)
  PROVE  /\ b \in Arm
         /\ b.light = "held" => a.light = "held"
         /\ b.away = a.away
         /\ b.face = "following" => a.face = "following"
         /\ b.tracking => a.tracking
<1>1. b \in Arm
  BY ArmType
<1>. QED
  BY <1>1 DEF Stepped, Arm

MotionInv == WarmShoulderRests /\ SafeWaitIsQuiet /\ TrackingIsLeased

(* The alert ends everything that moves the arm; the temperature alone     *)
(* starts nothing.                                                         *)
LEMMA MonitorMotionInv ==
  ASSUME TypeInv, MotionInv, NEW a \in Arm, MonitorTemperature(a), UNCHANGED sources,
         a.light = "held" => arm.light = "held",
         a.away = arm.away,
         a.face = "following" => arm.face = "following",
         a.tracking => arm.tracking
  PROVE  MotionInv'
<1>. USE DEF MotionInv, WarmShoulderRests, SafeWaitIsQuiet, TrackingIsLeased
<1>1. CASE OverTemperature(a)
  <2>. DEFINE b == ClearTracking(a)
              c == ClearFace(b)
              d == ClearAway(c)
  <2>1. b \in Arm /\ b.tracking = FALSE
    BY ArmType, ArmEffects
  <2>. HIDE DEF b
  <2>2. c \in Arm /\ c.tracking = FALSE /\ c.face # "following"
    BY <2>1, ArmType, ArmEffects
  <2>. HIDE DEF c
  <2>3. d \in Arm /\ d.tracking = FALSE /\ d.face # "following" /\ d.away = FALSE
    BY <2>2, ArmType, ArmEffects
  <2>4. arm' = BargeIn(d)
    BY <1>1 DEF OverTemperature, b, c
  <2>. HIDE DEF d
  <2>5. /\ arm'.tracking = FALSE /\ arm'.face # "following"
        /\ arm'.away = FALSE /\ arm'.light # "held"
    BY <2>3, <2>4, ArmEffects
  <2>6. active' = NoTicket /\ task' = NoTicket /\ turn' = NoTicket /\ back' = NoTicket
    BY <1>1 DEF OverTemperature, CancelMotion, CancelTask
  <2>. QED
    BY <2>5, <2>6
<1>2. CASE WithinTemperature(a)
  <2>1. /\ arm'.light = a.light /\ arm'.face = a.face /\ arm'.tracking = a.tracking
        /\ arm'.away => arm.away
    BY <1>2, ArmEffects DEF WithinTemperature
  <2>2. /\ alert' => alert
        /\ UNCHANGED <<active, task, turn, back, safeWait>>
    BY <1>2 DEF WithinTemperature, TypeInv, TypeOK, motionVars, taskVars, turnVars
  <2>. QED
    BY <2>1, <2>2
<1>. QED
  BY <1>1, <1>2 DEF MonitorTemperature

(* A command that moves the arm is refused while the shoulder is warm, and *)
(* ends safe wait; a command that ends a movement ends its ticket too.     *)
LEMMA ApplyMotionInv ==
  ASSUME TypeInv, MotionInv, ApplyCommand
  PROVE  MotionInv'
<1>. USE DEF MotionInv, WarmShoulderRests, SafeWaitIsQuiet, TrackingIsLeased, Applying,
             AllowedWhileWarm, CancelMotion, CancelTask, motionVars, taskVars,
             turnVars, holdVars, workVars, bodyVars, heatVars
<1>1. arm \in Arm /\ alert \in BOOLEAN
  BY DEF TypeInv, TypeOK
<1>a. CASE Refuse
  BY <1>a DEF Refuse
<1>b. CASE Query
  BY <1>b DEF Query
<1>c. CASE PlayMotion
  BY <1>c, <1>1 DEF PlayMotion, Arm
<1>d. CASE CancelPlay
  BY <1>d, <1>1, ArmEffects DEF CancelPlay
<1>e. CASE Interrupt
  <2>1. BargeIn(arm) \in Arm /\ arm' = ClearFace(BargeIn(arm))
    BY <1>e, <1>1, ArmType DEF Interrupt
  <2>2. /\ arm'.light # "held" /\ arm'.away = arm.away
        /\ arm'.tracking = arm.tracking /\ arm'.face # "following"
    BY <1>1, <2>1, ArmEffects
  <2>. QED
    BY <1>e, <2>2 DEF Interrupt
<1>f. CASE AcquireDuplicate
  BY <1>f DEF AcquireDuplicate
<1>g. CASE AcquireDeferred
  BY <1>g DEF AcquireDeferred
<1>h. ASSUME NEW aligned \in BOOLEAN, AcquireTurn(aligned)
      PROVE  MotionInv'
  BY <1>h DEF AcquireTurn, Acquiring
<1>i. CASE ReturnToCenter
  BY <1>i DEF ReturnToCenter
<1>j. CASE HoldOrientation
  BY <1>j DEF HoldOrientation
<1>k. CASE PlaceTaskLight
  BY <1>k, <1>1 DEF PlaceTaskLight, Arm
<1>l. CASE PlaceUnsafe
  BY <1>l, <1>1, ArmEffects DEF PlaceUnsafe
<1>m. CASE ReleaseTaskLight
  BY <1>m, <1>1, ArmEffects DEF ReleaseTaskLight
<1>n. CASE ClearTrack
  BY <1>n, <1>1, ArmEffects DEF ClearTrack
<1>o. CASE StepFace
  BY <1>o, <1>1 DEF StepFace, Arm
<1>p. CASE ClearFaceFollow
  BY <1>p, <1>1, ArmEffects DEF ClearFaceFollow
<1>q. ASSUME NEW refused \in BOOLEAN, HoldAway(refused)
      PROVE  MotionInv'
  <2>1. arm'.tracking = ClearFace(arm).tracking
    BY <1>q, <1>1, ArmType DEF HoldAway, Arm
  <2>2. arm'.tracking = arm.tracking
    BY <1>1, <2>1, ArmEffects
  <2>. QED
    BY <1>q, <2>2 DEF HoldAway
<1>r. ASSUME NEW recent \in BOOLEAN, NEW aligned \in BOOLEAN, ReleaseAway(recent, aligned)
      PROVE  MotionInv'
  BY <1>r, <1>1, ArmEffects DEF ReleaseAway
<1>. QED
  BY <1>a, <1>b, <1>c, <1>d, <1>e, <1>f, <1>g, <1>h, <1>i, <1>j, <1>k, <1>l, <1>m,
     <1>n, <1>o, <1>p, <1>q, <1>r
     DEF ApplyCommand

LEMMA StepMotionInv == TypeInv /\ MotionInv /\ [Next]_vars => MotionInv'
<1>. SUFFICES ASSUME TypeInv, MotionInv, [Next]_vars PROVE MotionInv'
  OBVIOUS
<1>. USE DEF mailVars, tickVars, motionVars, taskVars, turnVars, holdVars, workVars,
             bodyVars, heatVars
<1>1. arm \in Arm
  BY DEF TypeInv, TypeOK
<1>2. CASE Network
  <2>1. UNCHANGED ownerVars
    BY <1>2 DEF Network, Submit, RemoteDisconnected, InvalidateUnstarted, Unstarted, Stop
  <2>. QED
    BY <2>1 DEF ownerVars, MotionInv, WarmShoulderRests, SafeWaitIsQuiet, TrackingIsLeased
<1>3. CASE ApplyCommand
  BY <1>3, ApplyMotionInv
<1>4. CASE StartTick
  BY <1>1, <1>4, MonitorMotionInv DEF StartTick
<1>5. CASE StepRuntime
  <2>1. PICK a \in Stepped(arm) : MonitorTemperature(a)
    BY <1>5 DEF StepRuntime
  <2>2. UNCHANGED sources
    BY <1>5 DEF StepRuntime
  <2>. QED
    BY <1>1, <2>1, <2>2, SteppedEffects, MonitorMotionInv
<1>6. ASSUME NEW yawSettled \in BOOLEAN, NEW slow \in BOOLEAN, NEW lit \in BOOLEAN,
             Settle(yawSettled, slow, lit)
      PROVE  MotionInv'
  <2>1. /\ arm'.light = arm.light /\ arm'.away = arm.away /\ arm'.face = arm.face
        /\ arm'.tracking = arm.tracking
    <3>1. arm' = arm \/ arm' = [arm EXCEPT !.clip = TRUE]
      BY <1>6 DEF Settle
    <3>. QED
      BY <1>1, <3>1 DEF Arm
  <2>2. /\ active' \in {active, NoTicket} /\ task' = task
        /\ turn' \in {turn, NoTicket} /\ back' \in {back, NoTicket}
        /\ UNCHANGED <<alert, safeWait, sources>>
    BY <1>6 DEF Settle, ObserveOrientation
  <2>. QED
    BY <2>1, <2>2 DEF MotionInv, WarmShoulderRests, SafeWaitIsQuiet, TrackingIsLeased
<1>7. ASSUME NEW k \in TrackKinds, RefuseTrack(k) \/ ObserveTrack(k)
      PROVE  MotionInv'
  BY <1>1, <1>7
     DEF RefuseTrack, ObserveTrack, NextTrack, MotionInv, WarmShoulderRests,
         SafeWaitIsQuiet, TrackingIsLeased, Arm
<1>8. CASE TakeLatest
  <2>1. arm' = arm \/ (arm' = ClearTracking(arm) /\ sources' = {})
    BY <1>8 DEF TakeLatest
  <2>2. sources # {} /\ sources' = {} => arm' = ClearTracking(arm)
    BY <1>8 DEF TakeLatest
  <2>3. sources' \subseteq sources
    BY <1>8 DEF TakeLatest
  <2>4. UNCHANGED <<active, task, turn, back, alert, safeWait>>
    BY <1>8 DEF TakeLatest
  <2>5. /\ arm'.light = arm.light /\ arm'.away = arm.away /\ arm'.face = arm.face
        /\ arm'.tracking => arm' = arm
        /\ ~ClearTracking(arm).tracking
    BY <1>1, <2>1, ArmEffects
  <2>6. TrackingIsLeased'
    BY <2>2, <2>3, <2>5 DEF MotionInv, TrackingIsLeased
  <2>7. arm'.tracking => arm.tracking
    BY <2>5
  <2>. QED
    BY <2>4, <2>5, <2>6, <2>7 DEF MotionInv, WarmShoulderRests, SafeWaitIsQuiet
<1>9. CASE SafeDisconnect \/ Shutdown
  <2>1. /\ arm'.light # "held" /\ arm'.tracking = FALSE
        /\ arm'.face = "following" => arm.face = "following"
        /\ arm'.away => arm.away
    <3>1. CASE arm' = BargeIn(ClearTracking(ClearFace(arm)))
      BY <1>1, <3>1 DEF BargeIn, ClearTaskLight, ClearTracking, ClearFace, Arm
    <3>2. CASE arm' = BargeIn(ClearAway(ClearFace(ClearTracking(arm))))
      BY <1>1, <3>2 DEF BargeIn, ClearTaskLight, ClearTracking, ClearFace, ClearAway, Arm
    <3>. QED
      BY <1>9, <3>1, <3>2 DEF SafeDisconnect, Shutdown
  <2>2. /\ active' = NoTicket /\ task' = NoTicket /\ turn' = NoTicket /\ back' = NoTicket
        /\ alert' = alert
    BY <1>9 DEF SafeDisconnect, Shutdown, CancelMotion, CancelTask
  <2>. QED
    BY <2>1, <2>2 DEF MotionInv, WarmShoulderRests, SafeWaitIsQuiet, TrackingIsLeased
<1>10. CASE \/ MissSlot \/ PassGate \/ TracksDone \/ TakeCommand \/ Begin \/ Fault
            \/ UNCHANGED vars
  BY <1>10
     DEF MissSlot, PassGate, TracksDone, TakeCommand, Begin, Fault, vars, ownerVars,
         MotionInv, WarmShoulderRests, SafeWaitIsQuiet, TrackingIsLeased
<1>11. ASSUME NEW yawSettled \in BOOLEAN, FaultRepeating(yawSettled)
       PROVE  MotionInv'
  <2>1. /\ turn' \in {turn, NoTicket} /\ back' \in {back, NoTicket}
        /\ UNCHANGED <<motionVars, taskVars, bodyVars>>
    BY <1>11 DEF FaultRepeating, ObserveOrientation
  <2>. QED
    BY <2>1 DEF MotionInv, WarmShoulderRests, SafeWaitIsQuiet, TrackingIsLeased
<1>. QED
  BY <1>2, <1>3, <1>4, <1>5, <1>6, <1>7, <1>8, <1>9, <1>10, <1>11
     DEF Next, Tick, ApplyTracking

LEMMA InitMotionInv == Init => MotionInv
BY DEF Init, MotionInv, WarmShoulderRests, SafeWaitIsQuiet, TrackingIsLeased

LEMMA MotionInvariant == Spec => []MotionInv
BY InitMotionInv, StepMotionInv, TypeCorrect, PTL DEF Spec

(* From the temperature alert until the shoulder has cooled, no motion,    *)
(* task light, tracking, face following or away pose is in progress,       *)
(* however commands, clips and checks fall within the ticks.               *)
THEOREM WarmShoulder == Spec => []WarmShoulderRests
BY MotionInvariant, PTL DEF MotionInv

(* Safe wait has neither a motion nor a task light in progress.            *)
THEOREM SafeWait == Spec => []SafeWaitIsQuiet
BY MotionInvariant, PTL DEF MotionInv

(* A target is followed only under the lease of an observation.            *)
THEOREM Leases == Spec => []TrackingIsLeased
BY MotionInvariant, PTL DEF MotionInv

-----------------------------------------------------------------------------
(* Sound turns and returns.                                                *)

(* A new anchor forgets the lost connection, and is turned to or reached.  *)
LEMMA AcquireEffects ==
  ASSUME NEW o \in Orientation, NEW s, NEW lightBusy, NEW aligned
  PROVE  LET n == Acquire(o, s, lightBusy, aligned) IN
           \/ n = o
           \/ n.lost = 0 /\ n.speech = s /\ n.state \in {"orienting", "aligned"}
BY DEF Acquire

(* Without a lost connection an observation ends a turn or leaves it.      *)
LEMMA ObserveEffects ==
  ASSUME NEW o \in Orientation, o.lost = 0, NEW yawSettled
  PROVE  /\ Observe(o, yawSettled).lost = 0
         /\ o.state \in {"orienting", "aligned"} =>
              Observe(o, yawSettled).state \in {"orienting", "aligned", "timeout"}
<1>1. ~HoldExpired(o)
  BY OrientationAssumption DEF HoldExpired
<1>2. CASE o.state \notin {"orienting", "returning"}
  BY <1>1, <1>2 DEF Observe, Elapse, Orientation
<1>3. CASE o.state \in {"orienting", "returning"}
  <2>. DEFINE n == IF yawSettled THEN Saturating(o.settle, SettleTicks) ELSE 0
              s == Reached(o, n)
              m == IF s = o.state THEN n ELSE 0
              next == [o EXCEPT !.state = s, !.settle = m]
  <2>1. Observe(o, yawSettled) = Elapse(next)
    BY <1>1, <1>3 DEF Observe
  <2>2. o.state = "orienting" => s \in {"orienting", "aligned", "timeout"}
    BY DEF Reached
  <2>. HIDE DEF n, s, m
  <2>3. next.lost = 0 /\ next.state = s
    BY DEF Orientation
  <2>4. Elapse(next).lost = 0 /\ Elapse(next).state = s
    BY <2>3 DEF Elapse, Orientation
  <2>. QED
    BY <1>3, <2>1, <2>2, <2>4
<1>. QED
  BY <1>2, <1>3

(* An observation starts a return only when the connection was lost.       *)
LEMMA ReturnOnlyWhenLost ==
  ASSUME NEW o \in Orientation, NEW yawSettled,
         o.state # "returning", Observe(o, yawSettled).state = "returning"
  PROVE  o.lost > 0
<1>1. CASE HoldExpired(o)
  BY <1>1, OrientationAssumption DEF HoldExpired, Orientation
<1>2. CASE ~HoldExpired(o) /\ o.state # "orienting"
  BY <1>2, ElapseType DEF Observe
<1>3. CASE ~HoldExpired(o) /\ o.state = "orienting"
  <2>. DEFINE n == IF yawSettled THEN Saturating(o.settle, SettleTicks) ELSE 0
              s == Reached(o, n)
              m == IF s = o.state THEN n ELSE 0
              next == [o EXCEPT !.state = s, !.settle = m]
  <2>1. Observe(o, yawSettled) = Elapse(next)
    BY <1>3 DEF Observe
  <2>2. s # "returning"
    BY <1>3 DEF Reached
  <2>. HIDE DEF n, s, m
  <2>3. Elapse(next).state = s
    BY DEF Elapse, Orientation
  <2>. QED
    BY <2>1, <2>2, <2>3
<1>. QED
  BY <1>1, <1>2, <1>3

LEMMA ObserveTurnInv ==
  ASSUME TypeInv, TurnInv, NEW yawSettled \in BOOLEAN,
         ObserveOrientation(Observe(ori, yawSettled))
  PROVE  TurnInv'
<1>. DEFINE o == Observe(ori, yawSettled)
<1>1. /\ ori \in Orientation /\ ori' = o
      /\ turn' = IF turn \in EndedTurns(o) THEN NoTicket ELSE turn
      /\ back' = IF back \in EndedTurns(o) THEN NoTicket ELSE back
  BY DEF ObserveOrientation, TypeInv, TypeOK
<1>. HIDE DEF o
<1>2. ori.lost = 0 => ori'.lost = 0
  BY <1>1, ObserveEffects DEF o
<1>3. ori.lost \in Nat /\ (ori.lost > 0 \/ ori.lost = 0)
  BY <1>1, OrientationAssumption DEF Orientation
<1>4. turn' \in {turn, NoTicket} /\ back' \in {back, NoTicket}
  BY <1>1
<1>5. turn' # NoTicket => ori'.state = "orienting"
  <2>. SUFFICES ASSUME turn' # NoTicket PROVE ori'.state = "orienting"
    OBVIOUS
  <2>1. turn # NoTicket /\ ori.lost = 0 /\ ori.state \in {"orienting", "aligned"}
    BY <1>3, <1>4 DEF TurnInv
  <2>2. o.state \in {"orienting", "aligned", "timeout"}
    BY <1>1, <2>1, ObserveEffects DEF o
  <2>. QED
    BY <1>1, <2>2 DEF EndedTurns
<1>6. ori'.lost > 0 => turn' = NoTicket /\ back' = NoTicket
  BY <1>2, <1>3, <1>4 DEF TurnInv
<1>. QED
  BY <1>4, <1>5, <1>6 DEF TurnInv

LEMMA ApplyTurnInv ==
  ASSUME TypeInv, TurnInv, ApplyCommand
  PROVE  TurnInv'
<1>1. pc = "apply" /\ pc' = "step" /\ ori \in Orientation
  BY DEF ApplyCommand, Applying, TypeInv, TypeOK, Refuse, Query, PlayMotion,
         CancelPlay, Interrupt, AcquireDuplicate, AcquireDeferred, AcquireTurn,
         Acquiring, ReturnToCenter, HoldOrientation, PlaceTaskLight, PlaceUnsafe,
         ReleaseTaskLight, ClearTrack, StepFace, ClearFaceFollow, HoldAway, ReleaseAway
<1>2. ASSUME NEW aligned \in BOOLEAN, AcquireTurn(aligned)
      PROVE  TurnInv'
  <2>1. /\ ori'.lost = 0 /\ ori'.state = IF aligned THEN "aligned" ELSE "orienting"
        /\ back' = NoTicket /\ turn' = IF aligned THEN NoTicket ELSE cur
    BY <1>2 DEF AcquireTurn, Acquiring, Acquire
  <2>. QED
    BY <2>1 DEF TurnInv
<1>3. CASE ReturnToCenter
  <2>1. ori'.lost = 0 /\ turn' = NoTicket
    BY <1>1, <1>3 DEF ReturnToCenter, ReturnCenter, Orientation
  <2>. QED
    BY <2>1 DEF TurnInv
<1>4. ASSUME NEW recent \in BOOLEAN, NEW aligned \in BOOLEAN, ReleaseAway(recent, aligned)
      PROVE  TurnInv'
  <2>1. \/ ori' = ori
        \/ ori'.lost = 0 /\ ori'.state \in {"orienting", "aligned"}
    <3>1. \/ ori' = ori
          \/ ori' = Acquire(ori, deferred, LightBusy, aligned)
      BY <1>4 DEF ReleaseAway
    <3>. QED
      BY <1>1, <3>1, AcquireEffects
  <2>2. UNCHANGED <<turn, back>>
    BY <1>4 DEF ReleaseAway
  <2>. QED
    BY <1>1, <2>1, <2>2 DEF TurnInv
<1>5. CASE UNCHANGED turnVars
  BY <1>1, <1>5 DEF TurnInv, turnVars
<1>. QED
  BY <1>2, <1>3, <1>4, <1>5
     DEF workVars, turnVars, ApplyCommand, Refuse, Query, PlayMotion, CancelPlay,
         Interrupt, AcquireDuplicate, AcquireDeferred, HoldOrientation, PlaceTaskLight,
         PlaceUnsafe, ReleaseTaskLight, ClearTrack, StepFace, ClearFaceFollow, HoldAway

LEMMA StepTurnInv == TypeInv /\ TurnInv /\ [Next]_vars => TurnInv'
<1>. SUFFICES ASSUME TypeInv, TurnInv, [Next]_vars PROVE TurnInv'
  OBVIOUS
<1>1. CASE Network
  <2>1. UNCHANGED ownerVars
    BY <1>1 DEF Network, Submit, RemoteDisconnected, InvalidateUnstarted, Unstarted, Stop
  <2>. QED
    BY <2>1 DEF ownerVars, workVars, turnVars, TurnInv
<1>2. CASE ApplyCommand
  BY <1>2, ApplyTurnInv
<1>3. ASSUME NEW a, MonitorTemperature(a), StartTick \/ StepRuntime
      PROVE  TurnInv'
  <2>1. \/ turn' = NoTicket /\ back' = NoTicket
        \/ UNCHANGED <<turn, back, ori>>
    BY <1>3 DEF MonitorTemperature, OverTemperature, WithinTemperature, turnVars
  <2>2. \/ pc = "idle" /\ pc' = "gate"
        \/ pc = "step" /\ pc' = "settle"
    <3>1. StartTick => pc = "idle" /\ pc' = "gate"
      BY DEF StartTick
    <3>2. StepRuntime => pc = "step" /\ pc' = "settle"
      BY DEF StepRuntime
    <3>. QED
      BY <1>3, <3>1, <3>2
  <2>. QED
    BY <2>1, <2>2 DEF TurnInv
<1>4. CASE \/ \E yawSettled, slow, lit \in BOOLEAN : Settle(yawSettled, slow, lit)
           \/ \E yawSettled \in BOOLEAN : FaultRepeating(yawSettled)
  BY <1>4, ObserveTurnInv DEF Settle, FaultRepeating
<1>5. CASE SafeDisconnect \/ Shutdown
  <2>1. turn' = NoTicket /\ back' = NoTicket
    BY <1>5 DEF SafeDisconnect, Shutdown
  <2>. QED
    BY <2>1 DEF TurnInv
<1>6. CASE \/ PassGate \/ TakeLatest \/ ApplyTracking \/ TracksDone
           \/ TakeCommand \/ Begin \/ Fault \/ UNCHANGED vars
  <2>1. UNCHANGED <<turn, back, ori>>
    BY <1>6 DEF PassGate, TakeLatest, ApplyTracking, RefuseTrack, ObserveTrack,
                NextTrack, TracksDone, TakeCommand, Begin, Fault, vars, ownerVars,
                workVars, turnVars
  <2>2. pc \in {"step", "settle", "shutdown"} => pc' \in {pc, "shutdown"}
    BY <1>6 DEF PassGate, TakeLatest, ApplyTracking, RefuseTrack, ObserveTrack,
                NextTrack, TracksDone, TakeCommand, Begin, Fault, vars, ownerVars
  <2>. QED
    BY <2>1, <2>2 DEF TurnInv
<1>7. CASE MissSlot
  <2>1. turn' = turn /\ back' = back /\ pc' = pc /\ ori' = Unobserved(ori)
    BY <1>7 DEF MissSlot
  <2>2. ori \in Orientation
    BY DEF TypeInv, TypeOK
  <2>3. ori'.state = ori.state /\ (ori'.lost > 0 => ori.lost > 0)
    BY <2>1, <2>2, UnobservedType
  <2>. QED
    BY <2>1, <2>3 DEF TurnInv
<1>. QED
  BY <1>1, <1>2, <1>3, <1>4, <1>5, <1>6, <1>7 DEF Next, Tick, StartTick, StepRuntime

LEMMA InitTurnInv == Init => TurnInv
BY DEF Init, IdleOrientation, TurnInv

LEMMA TurnInvariant == Spec => []TurnInv
BY InitTurnInv, StepTurnInv, TypeCorrect, PTL DEF Spec

(* Between ticks a client that waits for a turn waits for one that is in   *)
(* progress, and never for a turn and a return at once.                    *)
THEOREM Turns == Spec => []TurnIsInProgress
<1>1. TurnInv => TurnIsInProgress
  BY DEF TurnInv, TurnIsInProgress
<1>. QED
  BY <1>1, TurnInvariant, PTL

(* The return after a lost connection never interrupts a turn or a return  *)
(* that a client waits for.                                                *)
THEOREM AutonomousReturns == Spec => AutonomousReturnIsFree
<1>1. ASSUME TypeInv, TurnInv, [Next]_vars
      PROVE  [(pc = "settle" /\ ori.state # "returning" /\ ori'.state = "returning")
                => turn = NoTicket /\ back = NoTicket]_vars
  <2>. SUFFICES ASSUME Next, pc = "settle", ori.state # "returning",
                       ori'.state = "returning"
                PROVE  turn = NoTicket /\ back = NoTicket
    BY <1>1
  <2>1. PICK yawSettled \in BOOLEAN : ori' = Observe(ori, yawSettled)
    <3>1. ori' # ori
      OBVIOUS
    <3>2. ~Network
      BY <3>1
         DEF Network, Submit, RemoteDisconnected, InvalidateUnstarted, Unstarted, Stop,
             ownerVars, workVars, turnVars
    <3>3. ~ApplyCommand
      BY DEF ApplyCommand, Applying, Refuse, Query, PlayMotion, CancelPlay, Interrupt,
             AcquireDuplicate, AcquireDeferred, AcquireTurn, Acquiring, ReturnToCenter,
             HoldOrientation, PlaceTaskLight, PlaceUnsafe, ReleaseTaskLight,
             ClearTrack, StepFace, ClearFaceFollow, HoldAway, ReleaseAway
    <3>4. ~Fault
      BY <3>1 DEF Fault, workVars, turnVars
    <3>5. ~(\/ StartTick \/ MissSlot \/ SafeDisconnect \/ PassGate \/ TakeLatest
            \/ ApplyTracking \/ TracksDone \/ TakeCommand \/ Begin \/ StepRuntime
            \/ Shutdown)
      BY DEF StartTick, MissSlot, SafeDisconnect, PassGate, TakeLatest, ApplyTracking,
             RefuseTrack, ObserveTrack, NextTrack, TracksDone, TakeCommand, Begin,
             StepRuntime, Shutdown
    <3>. QED
      BY <3>2, <3>3, <3>4, <3>5
         DEF Next, Tick, Settle, FaultRepeating, ObserveOrientation
  <2>2. ori \in Orientation
    BY <1>1 DEF TypeInv, TypeOK
  <2>3. ori.lost > 0
    BY <2>1, <2>2, ReturnOnlyWhenLost
  <2>. QED
    BY <1>1, <2>3 DEF TurnInv
<1>. QED
  BY <1>1, TurnInvariant, TypeCorrect, PTL DEF Spec, AutonomousReturnIsFree

=============================================================================
