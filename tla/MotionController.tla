-------------------------- MODULE MotionController --------------------------
(***************************************************************************)
(* The motion controller of the Pi daemon (src/motion/controller.py): a    *)
(* mailbox that network threads fill under a lock, and one owner thread    *)
(* that empties it once per control period and moves the arm.              *)
(*                                                                         *)
(* Each action of a network thread is one critical section of the lock.    *)
(* The owner's tick is cut where another thread may see or change what the *)
(* tick uses: pc names the section that comes next.  What only the owner   *)
(* touches between two sections is part of the section before it.          *)
(*                                                                         *)
(* Whether a request has expired, a target is reachable, the arm has       *)
(* settled and so on is data the controller is given, and is chosen freely *)
(* where the code reads it.                                                *)
(***************************************************************************)
EXTENDS Orientation, TicketLedger, Sequences

CONSTANTS
  QueueMax,      \* discrete commands the mailbox holds (32 in the code)
  SettledTicks,  \* settled periods that complete a motion (5 in the code)
  Temperatures,  \* bands the shoulder sensor reports; {"none"} without sensor
  Events         \* bound: what may befall the controller in this instance

Kinds ==
  {"motion.play", "motion.cancel", "motion.interrupt", "motion.status",
   "motion.list", "system.heartbeat", "track.point", "track.bearing",
   "track.clear", "face.step", "face.clear", "task_light.place",
   "task_light.cancel", "task_light.clear", "away.hold", "away.clear",
   "orientation.hold", "orientation.acquire", "orientation.return_center",
   "orientation.status"}

LocalKinds ==
  {"orientation.acquire", "orientation.return_center", "orientation.status",
   "system.heartbeat"}

LocalOnly == LocalKinds \ {"system.heartbeat"}

TrackKinds == {"track.point", "track.bearing"}

\* Commands that are still carried out while the shoulder is too warm.
AllowedWhileWarm ==
  {"motion.status", "motion.list", "system.heartbeat", "motion.interrupt",
   "task_light.clear", "track.clear", "face.clear", "away.clear"}

(* A request: speech matters to orientation.acquire, target (a request id) *)
(* to the two cancels, replace and repeat to motion.play.                  *)
Request ==
  {r \in [id : Id, kind : Kinds, origin : {"local", "remote"},
          speech : Speech \cup {NoSpeech}, target : Id,
          replace : BOOLEAN, repeat : 1 .. 3] :
     /\ r.origin = "local" => r.kind \in LocalKinds
     /\ r.origin = "remote" => r.kind \notin LocalOnly
     /\ r.kind = "orientation.acquire" => r.speech # NoSpeech}

\* at most 45 degrees, above that, at least 55 degrees
Bands == {"cool", "warm", "hot"}

ASSUME ControllerAssumption ==
  /\ QueueMax \in Nat \ {0}
  /\ SettledTicks \in Nat \ {0}
  /\ Menu \subseteq Request
  /\ Temperatures \subseteq Bands \cup {"none"} /\ Temperatures # {}
  /\ Events \subseteq {"disconnect", "eof", "stop", "fault", "miss"}

VARIABLES
  \* the mailbox, guarded by the lock
  ledger,       \* tickets and their futures
  queue,        \* discrete commands, oldest first
  latest,       \* the newest tracking command of each kind
  invalidated,  \* queued tickets whose client went away
  disconnect,   \* the remote client went away
  stopped,      \* _stop_event
  fault,        \* an exception ended the owner
  status,       \* the state last published
  \* the owner
  pc,           \* the section of the tick that comes next
  cur,          \* the discrete command in hand
  took,         \* the tracking commands in hand
  active,       \* ticket of the expressive motion
  repeats,      \* repetitions it has left
  settled,      \* settled periods since its clip ended
  task,         \* ticket of the task light, kept after its completion
  taskSettled,
  turn,         \* _orientation_ticket: the sound turn in progress
  back,         \* _return_ticket: the return to the centre in progress
  held,         \* the orientation hold is running: the user is in view
  deferred,     \* utterance whose turn the away pose refused
  sources,      \* tracking kinds whose last observation has not expired
  safeWait,
  alert,        \* the shoulder is too warm
  \* the runtime the owner advances
  temp,         \* last temperature reading
  arm,          \* motion layers
  ori           \* orientation coordinator

mailVars   == <<queue, latest, invalidated, disconnect, stopped, fault>>
tickVars   == <<cur, took>>
motionVars == <<active, repeats, settled>>
taskVars   == <<task, taskSettled>>
turnVars   == <<turn, back, ori>>
holdVars   == <<held, deferred>>
heatVars   == <<alert, temp>>
workVars   == <<motionVars, taskVars, turnVars, holdVars>>
bodyVars   == <<sources, safeWait, heatVars, arm>>
ownerVars  == <<status, pc, tickVars, workVars, bodyVars>>
vars       == <<ledger, mailVars, ownerVars>>

PCs == {"idle", "gate", "track", "observe", "take", "begin", "apply", "step",
        "settle", "shutdown", "ended"}

Arm == [clip : BOOLEAN,                            \* primitive.busy
        light : {"closed", "held", "releasing"},   \* task_light, busy unless closed
        away : BOOLEAN,                            \* away_pose.active
        face : {"off", "following", "returning"},  \* face_follow
        tracking : BOOLEAN]                        \* track has a target

TypeOK ==
  /\ ledger \in Ledger
  /\ queue \in Seq(Ticket) /\ Len(queue) <= QueueMax
  /\ latest \in [TrackKinds -> Ticket \cup {NoTicket}]
  /\ invalidated \subseteq Ticket
  /\ disconnect \in BOOLEAN /\ stopped \in BOOLEAN /\ fault \in BOOLEAN
  /\ status \in {"idle", "busy", "safe_wait", "stopped", "fault"}
  /\ pc \in PCs
  /\ cur \in Ticket \cup {NoTicket}
  /\ took \in [TrackKinds -> Ticket \cup {NoTicket}]
  /\ active \in Ticket \cup {NoTicket} /\ repeats \in 0 .. 2
  /\ settled \in 0 .. SettledTicks
  /\ task \in Ticket \cup {NoTicket} /\ taskSettled \in 0 .. SettledTicks
  /\ turn \in Ticket \cup {NoTicket} /\ back \in Ticket \cup {NoTicket}
  /\ held \in BOOLEAN /\ deferred \in Speech \cup {NoSpeech}
  /\ sources \subseteq TrackKinds
  /\ safeWait \in BOOLEAN
  /\ alert \in BOOLEAN /\ temp \in Temperatures
  /\ arm \in Arm
  /\ ori \in Orientation

NoTracks == [k \in TrackKinds |-> NoTicket]

Init ==
  /\ ledger = EmptyLedger
  /\ queue = <<>> /\ latest = NoTracks /\ invalidated = {}
  /\ disconnect = FALSE /\ stopped = FALSE /\ fault = FALSE
  /\ status = "idle"
  /\ pc = "idle" /\ cur = NoTicket /\ took = NoTracks
  /\ active = NoTicket /\ repeats = 0 /\ settled = 0
  /\ task = NoTicket /\ taskSettled = 0
  /\ turn = NoTicket /\ back = NoTicket
  /\ held = FALSE /\ deferred = NoSpeech
  /\ sources = {} /\ safeWait = FALSE
  /\ alert = FALSE /\ temp \in Temperatures
  /\ arm = [clip |-> FALSE, light |-> "closed", away |-> FALSE,
            face |-> "off", tracking |-> FALSE]
  /\ ori = IdleOrientation

-----------------------------------------------------------------------------
(* Network threads.                                                        *)

NextTicket == Cardinality(Created(ledger)) + 1

\* The same request again, from the same side: the ticket it already has.
SubmitKnown(r) ==
  \E t \in Known(ledger, r.id) :
    /\ ledger.req[t].origin = r.origin
    /\ ledger' = IF ledger.recent[t] > 0
                   THEN [ledger EXCEPT !.recent = Remember(@, {t})] ELSE ledger
    /\ UNCHANGED <<queue, latest>>

\* The id belongs to the other side: a ticket that is refused at once.
SubmitCollision(r, t) ==
  /\ \E u \in Known(ledger, r.id) : ledger.req[u].origin # r.origin
  /\ ledger' = Finished([ledger EXCEPT !.req[t] = r], {t}, "failed")
  /\ UNCHANGED <<queue, latest>>

SubmitStopped(r, t) ==
  /\ Known(ledger, r.id) = {}
  /\ fault \/ stopped
  /\ ledger' = Finished(Opened(ledger, t, r), {t}, "failed")
  /\ UNCHANGED <<queue, latest>>

Admits(r) == Known(ledger, r.id) = {} /\ ~fault /\ ~stopped

\* Fault: the observation that loses its slot is forgotten.
SubmitTrackingDrops(r, t) ==
  /\ Admits(r) /\ r.kind \in TrackKinds
  /\ latest' = [latest EXCEPT ![r.kind] = t]
  /\ ledger' = Opened(ledger, t, r)
  /\ UNCHANGED queue

\* Tracking is not queued: the newest command of its kind takes the slot.
SubmitTracking(r, t) ==
  /\ Admits(r) /\ r.kind \in TrackKinds
  /\ latest' = [latest EXCEPT ![r.kind] = t]
  /\ ledger' = Finished(Opened(ledger, t, r), {latest[r.kind]}, "cancelled")
  /\ UNCHANGED queue

HasRoom == Len(queue) < QueueMax

\* Fault: a queue that is full gives up its oldest command.
EnqueueEvicts(r, t) ==
  /\ queue' = Append(IF HasRoom THEN queue ELSE Tail(queue), t)
  /\ ledger' = Finished(Opened(ledger, t, r), IF HasRoom THEN {} ELSE {Head(queue)}, "failed")
  /\ UNCHANGED latest

Enqueue(r, t) ==
  /\ IF HasRoom
       THEN queue' = Append(queue, t) /\ ledger' = Opened(ledger, t, r)
       ELSE queue' = queue /\ ledger' = Finished(Opened(ledger, t, r), {t}, "failed")
  /\ UNCHANGED latest

\* Fault: a stopped controller still takes commands.
SubmitDiscreteAlways(r, t) ==
  Known(ledger, r.id) = {} /\ r.kind \notin TrackKinds /\ Enqueue(r, t)

SubmitDiscrete(r, t) == Admits(r) /\ r.kind \notin TrackKinds /\ Enqueue(r, t)

Submit ==
  /\ \E r \in Menu :
       \/ SubmitKnown(r)
       \/ /\ NextTicket \in Ticket
          /\ \/ SubmitCollision(r, NextTicket)
             \/ SubmitStopped(r, NextTicket)
             \/ SubmitTracking(r, NextTicket)
             \/ SubmitDiscrete(r, NextTicket)
  /\ UNCHANGED <<invalidated, disconnect, stopped, fault, ownerVars>>

RemoteDisconnected ==
  /\ "disconnect" \in Events
  /\ disconnect' = TRUE
  /\ UNCHANGED <<ledger, queue, latest, invalidated, stopped, fault, ownerVars>>

Unstarted(t) ==
  /\ t \in ledger.pending /\ ledger.req[t].origin = "local"
  /\ ledger.req[t].id \notin ledger.started
  /\ ledger.ack[t] = "none"

\* Fault: the ticket is only marked, and the owner drops marked tickets.
InvalidateSilently(t) ==
  /\ "eof" \in Events /\ Unstarted(t)
  /\ invalidated' = invalidated \cup {t}
  /\ UNCHANGED <<ledger, queue, latest, disconnect, stopped, fault, ownerVars>>

(* The last local client that waits for t has gone: t is cancelled unless  *)
(* the owner has begun it or answered it.                                  *)
InvalidateUnstarted(t) ==
  /\ "eof" \in Events /\ Unstarted(t)
  /\ invalidated' = invalidated \cup {t}
  /\ ledger' = Finished(ledger, {t}, "cancelled")
  /\ UNCHANGED <<queue, latest, disconnect, stopped, fault, ownerVars>>

Stop ==
  /\ "stop" \in Events
  /\ ~stopped
  /\ stopped' = TRUE
  /\ UNCHANGED <<ledger, queue, latest, invalidated, disconnect, fault, ownerVars>>

Network ==
  \/ Submit
  \/ RemoteDisconnected
  \/ \E t \in Ticket : InvalidateUnstarted(t)
  \/ Stop

-----------------------------------------------------------------------------
(* What the controller asks of the runtime (src/motion/runtime.py), by its *)
(* effect on the layers (src/motion/layers.py).                            *)

ClearTracking(a)  == [a EXCEPT !.tracking = FALSE]
ClearFace(a)      == [a EXCEPT !.face = IF @ = "off" THEN "off" ELSE "returning"]
ClearAway(a)      == [a EXCEPT !.away = FALSE]
ClearTaskLight(a) == [a EXCEPT !.light = IF @ = "closed" THEN "closed" ELSE "releasing"]
\* The interrupted clip stays busy while its envelope closes.
BargeIn(a)        == ClearTaskLight(a)

\* One step of the blender: envelopes that close may have closed, and the track
\* is dropped when it has coasted for too long without an observation.
Stepped(a) ==
  [clip : {a.clip, FALSE},
   light : {a.light} \cup (IF a.light = "releasing" THEN {"closed"} ELSE {}),
   away : {a.away},
   face : {a.face} \cup (IF a.face = "returning" THEN {"off"} ELSE {}),
   tracking : {a.tracking, FALSE}]

LightBusy == arm.light # "closed"

\* What _publish_status() reports.
StatusNow(isStopped, isFault, waits, busy) ==
  IF isFault THEN "fault"
  ELSE IF isStopped THEN "stopped"
  ELSE IF waits THEN "safe_wait"
  ELSE IF busy THEN "busy" ELSE "idle"

Busy(a, moving, o) ==
  \/ moving # NoTicket
  \/ a.clip
  \/ a.light # "closed"
  \/ o.state \in {"orienting", "returning"}

-----------------------------------------------------------------------------
(* The owner thread: one tick, section by section.                         *)

CancelMotion == active' = NoTicket /\ repeats' = 0 /\ settled' = 0
CancelTask   == task' = NoTicket /\ taskSettled' = 0

(* _monitor_task_light_temperature(), with a the layers as they are.  The  *)
(* temperature that trips the alert drops every target and every ticket    *)
(* but leaves the leases of the tracking sources to run out.               *)
OverTemperature(a) ==
  /\ ~alert /\ temp' = "hot"
  /\ alert' = TRUE
  /\ arm' = BargeIn(ClearAway(ClearFace(ClearTracking(a))))
  /\ ori' = Release
  /\ ledger' = Finished(ledger, {active, task, turn, back}, "cancelled")
  /\ CancelMotion /\ CancelTask
  /\ turn' = NoTicket /\ back' = NoTicket
  /\ safeWait' = TRUE

WithinTemperature(a) ==
  /\ alert \/ temp' # "hot"
  /\ alert' = (alert /\ temp' # "cool")
  /\ arm' = IF temp' \in {"warm", "hot"} THEN ClearAway(a) ELSE a
  /\ UNCHANGED <<ledger, motionVars, taskVars, turnVars, safeWait>>

MonitorTemperature(a) == OverTemperature(a) \/ WithinTemperature(a)

\* The tick begins; the orientation hold may have run out since the last one.
StartTick ==
  /\ pc = "idle" /\ ~stopped
  /\ pc' = "gate"
  /\ temp' = temp /\ MonitorTemperature(arm)
  /\ held' \in {held, FALSE}
  /\ UNCHANGED <<mailVars, status, tickVars, deferred, sources>>

\* A control period the loop was too late for: it only publishes the status.
MissSlot ==
  /\ "miss" \in Events
  /\ pc = "idle" /\ ~stopped
  /\ ori' = Unobserved(ori)
  /\ status' = StatusNow(stopped, fault, safeWait, Busy(arm, active, ori))
  /\ UNCHANGED <<ledger, mailVars, pc, tickVars, motionVars, taskVars, turn, back,
                 holdVars, bodyVars>>

(* _safe_disconnect(): everything in the mailbox and in progress ends, the *)
(* orientation anchor stays.  No command is taken in this tick.            *)
SafeDisconnect ==
  /\ pc = "gate" /\ disconnect
  /\ pc' = "step"
  /\ disconnect' = FALSE
  /\ queue' = <<>> /\ latest' = NoTracks
  /\ invalidated' = invalidated \ {queue[i] : i \in DOMAIN queue}
  /\ ledger' = Finished(ledger, ledger.pending \cup {active, task, turn, back}, "cancelled")
  /\ arm' = BargeIn(ClearAway(ClearFace(ClearTracking(arm))))
  /\ sources' = {}
  /\ CancelMotion /\ CancelTask
  /\ turn' = NoTicket /\ back' = NoTicket
  /\ ori' = Disconnected(ori)
  /\ safeWait' = TRUE
  /\ UNCHANGED <<stopped, fault, status, tickVars, holdVars, heatVars>>

PassGate ==
  /\ pc = "gate" /\ ~disconnect
  /\ pc' = "track"
  /\ UNCHANGED <<ledger, mailVars, status, tickVars, workVars, bodyVars>>

\* Fault: the leases run out, the target stays.
TakeLatestKeeps ==
  /\ pc = "track"
  /\ pc' = "observe"
  /\ took' = latest /\ latest' = NoTracks
  /\ sources' \in SUBSET sources
  /\ UNCHANGED <<ledger, queue, invalidated, disconnect, stopped, fault, status, cur,
                 workVars, safeWait, heatVars, arm>>

\* Both slots are emptied at once; leases of earlier observations may expire.
TakeLatest ==
  /\ pc = "track"
  /\ pc' = "observe"
  /\ took' = latest /\ latest' = NoTracks
  /\ sources' \in SUBSET sources
  /\ arm' = IF sources # {} /\ sources' = {} THEN ClearTracking(arm) ELSE arm
  /\ UNCHANGED <<ledger, queue, invalidated, disconnect, stopped, fault, status, cur,
                 workVars, safeWait, heatVars>>

\* The point is handled before the bearing.
NextTrack(k) ==
  /\ pc = "observe"
  /\ took[k] # NoTicket
  /\ k = "track.bearing" => took["track.point"] = NoTicket
  /\ took' = [took EXCEPT ![k] = NoTicket]
  /\ UNCHANGED <<mailVars, pc, status, cur, workVars, heatVars>>

\* Too warm, or past its time to live.
RefuseTrack(k) ==
  /\ NextTrack(k)
  /\ ledger' = Finished(ledger, {took[k]}, "failed")
  /\ UNCHANGED <<sources, safeWait, arm>>

\* Fault: the alert is not consulted.
ObserveTrackWarm(k) ==
  /\ NextTrack(k)
  /\ arm' = [arm EXCEPT !.tracking = TRUE]
  /\ sources' = sources \cup {k}
  /\ safeWait' = FALSE
  /\ ledger' = Finished(Accepted(ledger, took[k]), {took[k]}, "completed")

ObserveTrack(k) ==
  /\ NextTrack(k)
  /\ ~alert
  /\ arm' = [arm EXCEPT !.tracking = TRUE]
  /\ sources' = sources \cup {k}
  /\ safeWait' = FALSE
  /\ ledger' = Finished(Accepted(ledger, took[k]), {took[k]}, "completed")

TracksDone ==
  /\ pc = "observe" /\ took = NoTracks
  /\ pc' = "take"
  /\ UNCHANGED <<ledger, mailVars, status, tickVars, workVars, bodyVars>>

ApplyTracking ==
  \E k \in TrackKinds : RefuseTrack(k) \/ ObserveTrack(k)

\* get_nowait() takes the queue's own lock only.
TakeCommand ==
  /\ pc = "take"
  /\ IF queue = <<>>
       THEN pc' = "step" /\ UNCHANGED <<cur, queue>>
       ELSE pc' = "begin" /\ cur' = Head(queue) /\ queue' = Tail(queue)
  /\ UNCHANGED <<ledger, latest, invalidated, disconnect, stopped, fault, status,
                 took, workVars, bodyVars>>

\* Fault: the command is claimed whatever became of its client.
BeginAnyway ==
  /\ pc = "begin"
  /\ pc' = "apply" /\ cur' = cur
  /\ ledger' = [ledger EXCEPT !.started = @ \cup {ledger.req[cur].id}]
  /\ UNCHANGED <<queue, latest, invalidated, disconnect, stopped, fault, status, took,
                 workVars, bodyVars>>

\* _begin(): claim the command, unless its client went away meanwhile.
Begin ==
  /\ pc = "begin"
  /\ IF cur \in invalidated
       THEN /\ pc' = "step" /\ cur' = NoTicket
            /\ invalidated' = invalidated \ {cur} /\ ledger' = ledger
       ELSE /\ pc' = "apply" /\ cur' = cur
            /\ invalidated' = invalidated
            /\ ledger' = [ledger EXCEPT !.started = @ \cup {ledger.req[cur].id}]
  /\ UNCHANGED <<queue, latest, disconnect, stopped, fault, status, took, workVars,
                 bodyVars>>

-----------------------------------------------------------------------------
(* _apply_one_discrete_command(): the handlers.                            *)

Applying(kinds) ==
  /\ pc = "apply"
  /\ ledger.req[cur].kind \in kinds
  /\ alert => ledger.req[cur].kind \in AllowedWhileWarm
  /\ pc' = "step" /\ cur' = NoTicket
  /\ UNCHANGED <<mailVars, status, took, heatVars, sources>>

Done(b)   == Finished(Accepted(b, cur), {cur}, "completed")
Failed(b) == Finished(b, {cur}, "failed")

(* Every early return that fails the command and changes nothing else:     *)
(* expired, too warm, busy, unknown motion, not found, blocked ...         *)
Refuse ==
  /\ pc = "apply"
  /\ pc' = "step" /\ cur' = NoTicket
  /\ ledger' = Failed(ledger)
  /\ UNCHANGED <<mailVars, status, took, workVars, bodyVars>>

\* motion.status, motion.list, system.heartbeat, orientation.status
Query ==
  /\ Applying({"motion.status", "motion.list", "system.heartbeat", "orientation.status"})
  /\ ledger' = Done(ledger)
  /\ UNCHANGED <<workVars, safeWait, arm>>

PlayMotion ==
  /\ Applying({"motion.play"})
  /\ (active = NoTicket /\ ~arm.clip) \/ ledger.req[cur].replace
  /\ arm' = [arm EXCEPT !.clip = TRUE]
  /\ ledger' = Accepted(Finished(ledger, {active}, "cancelled"), cur)
  /\ active' = cur /\ repeats' = ledger.req[cur].repeat - 1 /\ settled' = 0
  /\ safeWait' = FALSE
  /\ UNCHANGED <<taskVars, turnVars, holdVars>>

CancelPlay ==
  /\ Applying({"motion.cancel"})
  /\ active # NoTicket /\ ledger.req[active].id = ledger.req[cur].target
  /\ arm' = BargeIn(arm)
  /\ ledger' = Done(Finished(ledger, {active, task}, "cancelled"))
  /\ CancelMotion /\ CancelTask
  /\ UNCHANGED <<turnVars, holdVars, safeWait>>

\* Fault: the task light's ticket is left behind.
InterruptKeepsTask ==
  /\ Applying({"motion.interrupt"})
  /\ arm' = ClearFace(BargeIn(arm))
  /\ ledger' = Done(Finished(ledger, {active}, "cancelled"))
  /\ CancelMotion
  /\ safeWait' = TRUE
  /\ UNCHANGED <<taskVars, turnVars, holdVars>>

Interrupt ==
  /\ Applying({"motion.interrupt"})
  /\ arm' = ClearFace(BargeIn(arm))
  /\ ledger' = Done(Finished(ledger, {active, task}, "cancelled"))
  /\ CancelMotion /\ CancelTask
  /\ safeWait' = TRUE
  /\ UNCHANGED <<turnVars, holdVars>>

\* The utterance already owns the anchor: its ticket completes unaccepted.
AcquireDuplicate ==
  /\ Applying({"orientation.acquire"})
  /\ ori.speech = ledger.req[cur].speech
  /\ ledger' = Finished(ledger, {cur}, "completed")
  /\ UNCHANGED <<workVars, safeWait, arm>>

AcquireDeferred ==
  /\ Applying({"orientation.acquire"})
  /\ ori.speech # ledger.req[cur].speech
  /\ arm.away
  /\ deferred' = ledger.req[cur].speech
  /\ ledger' = Failed(ledger)
  /\ UNCHANGED <<motionVars, taskVars, turnVars, held, safeWait, arm>>

Acquiring(aligned) ==
  /\ Applying({"orientation.acquire"})
  /\ ori.speech # ledger.req[cur].speech
  /\ ~arm.away /\ arm.face # "following" /\ ~held /\ ~LightBusy
  /\ ori' = Acquire(ori, ledger.req[cur].speech, LightBusy, aligned)
  /\ back' = NoTicket

\* Fault: a turn that is aligned at once leaves the older turn's ticket alone.
AcquireTurnKeeps(aligned) ==
  /\ Acquiring(aligned)
  /\ ledger' = IF aligned
                 THEN Done(Finished(ledger, {back}, "cancelled"))
                 ELSE Accepted(Finished(ledger, {back, turn}, "cancelled"), cur)
  /\ turn' = IF aligned THEN turn ELSE cur
  /\ UNCHANGED <<motionVars, taskVars, holdVars, safeWait, arm>>

AcquireTurn(aligned) ==
  /\ Acquiring(aligned)
  /\ LET replaced == Accepted(Finished(ledger, {back, turn}, "cancelled"), cur)
     IN ledger' = IF aligned THEN Done(replaced) ELSE replaced
  /\ turn' = IF aligned THEN NoTicket ELSE cur
  /\ UNCHANGED <<motionVars, taskVars, holdVars, safeWait, arm>>

\* Fault: the return does not end the turn it replaces.
ReturnToCenterKeeps ==
  /\ Applying({"orientation.return_center"})
  /\ active = NoTicket /\ ~arm.clip /\ ~LightBusy
  /\ ori' = ReturnCenter(ori)
  /\ ledger' = Accepted(Finished(ledger, {back}, "cancelled"), cur)
  /\ back' = cur
  /\ safeWait' = FALSE
  /\ UNCHANGED <<motionVars, taskVars, turn, holdVars, arm>>

ReturnToCenter ==
  /\ Applying({"orientation.return_center"})
  /\ active = NoTicket /\ ~arm.clip /\ ~LightBusy
  /\ ori' = ReturnCenter(ori)
  /\ ledger' = Accepted(Finished(ledger, {turn, back}, "cancelled"), cur)
  /\ turn' = NoTicket /\ back' = cur
  /\ safeWait' = FALSE
  /\ UNCHANGED <<motionVars, taskVars, holdVars, arm>>

HoldOrientation ==
  /\ Applying({"orientation.hold"})
  /\ held' = TRUE
  /\ ledger' = Done(ledger)
  /\ UNCHANGED <<motionVars, taskVars, turnVars, deferred, safeWait, arm>>

PlaceTaskLight ==
  /\ Applying({"task_light.place"})
  /\ arm' = [arm EXCEPT !.light = "held"]
  /\ ledger' = Accepted(Finished(ledger, {task}, "cancelled"), cur)
  /\ task' = cur /\ taskSettled' = 0
  /\ safeWait' = FALSE
  /\ UNCHANGED <<motionVars, turnVars, holdVars>>

\* The target is unsafe: an older hold is given up as well.
PlaceUnsafe ==
  /\ Applying({"task_light.place"})
  /\ arm' = ClearTaskLight(arm)
  /\ ledger' = Finished(Accepted(Finished(ledger, {task}, "cancelled"), cur), {cur}, "failed")
  /\ CancelTask
  /\ UNCHANGED <<motionVars, turnVars, holdVars, safeWait>>

ReleaseTaskLight ==
  /\ Applying({"task_light.cancel", "task_light.clear"})
  /\ ledger.req[cur].kind = "task_light.cancel" =>
       task # NoTicket /\ ledger.req[task].id = ledger.req[cur].target
  /\ arm' = ClearTaskLight(arm)
  /\ ledger' = Done(Finished(ledger, {task}, "cancelled"))
  /\ CancelTask
  /\ UNCHANGED <<motionVars, turnVars, holdVars, safeWait>>

ClearTrack ==
  /\ pc = "apply" /\ ledger.req[cur].kind = "track.clear"
  /\ pc' = "step" /\ cur' = NoTicket
  /\ arm' = ClearTracking(arm)
  /\ sources' = {}
  /\ ledger' = Done(ledger)
  /\ UNCHANGED <<mailVars, status, took, workVars, safeWait, heatVars>>

StepFace ==
  /\ Applying({"face.step"})
  /\ ~LightBusy /\ active = NoTicket
  /\ arm' = [arm EXCEPT !.face = "following"]
  /\ ledger' = Done(ledger)
  /\ UNCHANGED <<workVars, safeWait>>

ClearFaceFollow ==
  /\ Applying({"face.clear"})
  /\ arm' = ClearFace(arm)
  /\ ledger' = Done(ledger)
  /\ UNCHANGED <<workVars, safeWait>>

\* Face following ends even when the pose is then refused for its torque.
HoldAway(refused) ==
  /\ Applying({"away.hold"})
  /\ temp \notin {"warm", "hot"} /\ ~LightBusy /\ active = NoTicket
  /\ arm' = [ClearFace(arm) EXCEPT !.away = IF refused THEN @ ELSE TRUE]
  /\ ledger' = IF refused THEN Failed(ledger) ELSE Done(ledger)
  /\ UNCHANGED <<workVars, safeWait>>

(* The turn that the away pose refused is made now if it is recent enough, *)
(* without a ticket of its own.                                            *)
ReleaseAway(recent, aligned) ==
  /\ Applying({"away.clear"})
  /\ arm' = ClearAway(arm)
  /\ deferred' = NoSpeech
  /\ ori' = IF deferred # NoSpeech /\ recent /\ ~held
              THEN Acquire(ori, deferred, LightBusy, aligned) ELSE ori
  /\ ledger' = Done(ledger)
  /\ UNCHANGED <<motionVars, taskVars, turn, back, held, safeWait>>

ApplyCommand ==
  \/ Refuse \/ Query \/ PlayMotion \/ CancelPlay \/ Interrupt
  \/ AcquireDuplicate \/ AcquireDeferred
  \/ \E aligned \in BOOLEAN : AcquireTurn(aligned)
  \/ ReturnToCenter \/ HoldOrientation
  \/ PlaceTaskLight \/ PlaceUnsafe \/ ReleaseTaskLight
  \/ ClearTrack \/ StepFace \/ ClearFaceFollow
  \/ \E refused \in BOOLEAN : HoldAway(refused)
  \/ \E recent, aligned \in BOOLEAN : ReleaseAway(recent, aligned)

-----------------------------------------------------------------------------
(* The second half of the tick, the end of the owner, the specification.   *)

\* runtime.step(), which may sample the temperature, and the second check of it.
StepRuntime ==
  /\ pc = "step"
  /\ pc' = "settle"
  /\ temp' \in Temperatures
  /\ \E a \in Stepped(arm) : MonitorTemperature(a)
  /\ UNCHANGED <<mailVars, status, tickVars, holdVars, sources>>

\* _observe_orientation()
EndedTurns(o) ==
  (IF o.state \in {"aligned", "timeout"} THEN {turn} ELSE {}) \cup
  (IF o.state = "centered" THEN {back} ELSE {})

ObserveOrientation(o) ==
  /\ ori' = o
  /\ turn' = IF turn \in EndedTurns(o) THEN NoTicket ELSE turn
  /\ back' = IF back \in EndedTurns(o) THEN NoTicket ELSE back

Count(n, go) == IF go THEN Saturating(n, SettledTicks) ELSE 0

\* _update_active_ticket() for the motion: repeat the clip, wait, complete.
RepeatsClip == active # NoTicket /\ ~arm.clip /\ repeats > 0

MotionSettled(slow) ==
  IF active = NoTicket THEN settled
  ELSE IF RepeatsClip THEN 0
  ELSE Count(settled, ~arm.clip /\ slow)

EndedMotion(slow) ==
  IF active # NoTicket /\ ~RepeatsClip /\ MotionSettled(slow) = SettledTicks
    THEN {active} ELSE {}

\* ... and for the task light, whose ticket stays until it is replaced.
TaskOpen == task # NoTicket /\ ledger.done[task] = "none"

TaskCount(lit, slow) ==
  IF TaskOpen THEN Count(taskSettled, arm.light = "held" /\ lit /\ slow) ELSE taskSettled

EndedTask(lit, slow) ==
  IF TaskOpen /\ TaskCount(lit, slow) = SettledTicks THEN {task} ELSE {}

(* The observation of the yaw and of the arm's speed completes tickets,    *)
(* and the status is published.                                            *)
Settle(yawSettled, slow, lit) ==
  LET o == Observe(ori, yawSettled)
      a == IF RepeatsClip THEN [arm EXCEPT !.clip = TRUE] ELSE arm
      moving == IF EndedMotion(slow) = {} THEN active ELSE NoTicket
  IN /\ pc = "settle"
     /\ pc' = "idle"
     /\ ObserveOrientation(o)
     /\ arm' = a
     /\ active' = moving
     /\ repeats' = IF RepeatsClip THEN repeats - 1 ELSE repeats
     /\ settled' = MotionSettled(slow)
     /\ task' = task /\ taskSettled' = TaskCount(lit, slow)
     /\ ledger' = Finished(ledger, EndedTurns(o) \cup EndedMotion(slow)
                                     \cup EndedTask(lit, slow), "completed")
     /\ status' = StatusNow(stopped, fault, safeWait, Busy(a, moving, o))
     /\ UNCHANGED <<mailVars, tickVars, holdVars, sources, safeWait, heatVars>>

(* The clip to be repeated cannot be loaded: the turns the observation has *)
(* ended are completed, whatever comes later in the tick does not happen.  *)
FaultRepeating(yawSettled) ==
  LET o == Observe(ori, yawSettled)
  IN /\ "fault" \in Events
     /\ pc = "settle" /\ RepeatsClip
     /\ pc' = "shutdown"
     /\ ObserveOrientation(o)
     /\ ledger' = Finished(ledger, EndedTurns(o), "completed")
     /\ fault' = TRUE /\ stopped' = TRUE
     /\ UNCHANGED <<queue, latest, invalidated, disconnect, status, tickVars, motionVars,
                    taskVars, holdVars, bodyVars>>

\* Any other exception: a sensor or motor failure, a clip that cannot be loaded.
Fault ==
  /\ "fault" \in Events
  /\ pc \in {"idle", "observe", "apply", "step", "settle"}
  /\ pc = "idle" => ~stopped
  /\ pc' = "shutdown"
  /\ fault' = TRUE /\ stopped' = TRUE
  /\ UNCHANGED <<ledger, queue, latest, invalidated, disconnect, status, tickVars,
                 workVars, bodyVars>>

(* _shutdown(), after a stop request or a fault.                           *)
Shutdown ==
  /\ pc = "shutdown" \/ (pc = "idle" /\ stopped)
  /\ pc' = "ended"
  /\ queue' = <<>> /\ latest' = NoTracks
  /\ invalidated' = invalidated \ {queue[i] : i \in DOMAIN queue}
  /\ ledger' = Finished(ledger, ledger.pending, IF fault THEN "failed" ELSE "cancelled")
  /\ active' = NoTicket /\ task' = NoTicket /\ turn' = NoTicket /\ back' = NoTicket
  /\ arm' = BargeIn(ClearTracking(ClearFace(arm)))
  /\ ori' = Release
  /\ status' = StatusNow(stopped, fault, safeWait, FALSE)
  /\ cur' = NoTicket /\ took' = NoTracks
  /\ UNCHANGED <<disconnect, stopped, fault, repeats, settled, taskSettled, holdVars,
                 sources, safeWait, heatVars>>

Tick ==
  \/ StartTick \/ SafeDisconnect \/ PassGate
  \/ TakeLatest \/ ApplyTracking \/ TracksDone
  \/ TakeCommand \/ Begin \/ ApplyCommand
  \/ StepRuntime
  \/ \E yawSettled, slow, lit \in BOOLEAN : Settle(yawSettled, slow, lit)
  \/ Shutdown

Next ==
  \/ Network \/ Tick \/ MissSlot
  \/ Fault \/ \E yawSettled \in BOOLEAN : FaultRepeating(yawSettled)

Spec == Init /\ [][Next]_vars

(* The operating system runs the owner thread: the control loop never      *)
(* stops making ticks for good.  Network threads, failures and missed      *)
(* periods owe nothing.                                                    *)
FairSpec == Spec /\ WF_vars(Tick)
=============================================================================
