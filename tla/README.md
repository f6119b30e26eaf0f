# Talking Lamp: specifications, model checks and proofs

TLA+ models of the control software of the Talking Lamp, a five-joint desk lamp
that turns to whoever speaks, lights the desk and talks. The Raspberry Pi owns the
arm, the microphones, the speaker and the LEDs; the Jetson runs vision, speech and
the interaction logic and talks to the Pi over TCP. The models follow the source
under `src/`; line numbers below refer to it.

Six parts of the system are modelled, each with a specification of its own, its
properties, its runs and its theorems: the **motion
controller** through which every movement passes, the **sessions** that bring it commands,
the **link** over which a motion is asked for from afar, the way of the lamp's voice to the
loudspeaker (**playback**), the way of a speech to its label and direction
(**speech**), and the node that decides who moves the head (**interaction**).

## 1. Inventory

| Component | State it keeps | Operations | Talks to | What is hard, what makes it correct |
| --- | --- | --- | --- | --- |
| **Motion controller** `src/motion/controller.py` | tickets with two futures each, ids in flight / begun / recently answered, a bounded queue, two tracking slots, the disconnect flag, four tickets in progress, safe wait, temperature alert | `submit`, `remote_disconnected`, `invalidate_unstarted`, `stop` (network threads); `tick_once`, `run` (owner thread) | sessions above it, runtime below it | two threads around one lock; a tick that releases it between its sections; cancellation from seven sides. Every ticket ends exactly once; nothing moves a warm or waiting arm; turns and returns agree with their tickets |
| **Orientation coordinator** `src/motion/orientation.py` | state of the base yaw, its utterance, three timers | acquire, return, release, disconnected, observe | controller (owner thread only) | settle / timeout / ten-second hold in one period; which of them wins |
| **Layers and runtime** `src/motion/layers.py`, `runtime.py`, `kalman.py` | busy and active flags, envelopes, filter | start, clear, interrupt, step | controller, backend | a clip or light stays busy while its envelope closes; a track coasts and is dropped |
| **Hardware backend** `src/motion/hardware_backend.py` | last pose, temperature | send, measured | runtime | samples the temperature in the middle of a tick; raises |
| **Motion TCP server, daemon** `src/motion/middleware_server.py` | the one authenticated session, its pending replies, heartbeat deadline; servers, owner thread | sessions, forwarding, shutdown | controller, remote client | a stale disconnect flag against a new session; the order of the shutdown (has deadlocked) |
| **Local socket** `src/motion/local_control.py` | connections, holders of shared tickets | submit, forward, release on EOF | controller, device daemon | the last holder of a ticket leaves while the owner begins it |
| **Remote client** `src/motion/remote_client.py` | futures per id, connection, heartbeat | request, reconnect | TCP server | no replay after a loss; heartbeat against reconnection |
| **Device server** `src/device/server.py` | the one session, event sender, sequence | requests, events, disconnect cleanup | audio, LED, bridge | ownership given up before an awaited cleanup |
| **Audio supervisor** `src/device/audio.py` | capture and playback processes, RTP anchor | start, stop, disconnect, close | device server | check-then-await; 32-bit clock |
| **DOA loop** `src/device/doa.py`, `daemon.py`, `coordinator.py` | utterance window, VAD edge, playback guard | observe, poll, decide, request a turn | XVF3800, local socket, device server | one decision per utterance; every activity start has an end |
| **Interaction** `jetson_ws/.../lamp_interaction` | owner of the head, away and greeting state, epoch, pending returns, a clip in progress | scenario events, ticks, ROS callbacks | motion bridge, vision, voice | late callbacks of an older epoch; flags only a callback releases |
| **Vision node** `jetson_ws/.../lamp_vision/node.py` | following, aiming, reach | two services, capture loop | interaction | several threads, one lock held while a frame is analysed |
| **Device bridge** `jetson_ws/.../lamp_device_bridge` | session and sequence, event queue of 256, pending requests, playback session, open interval | reconnect, requests, cancelable goals, labels | device server, voice node | gaps in a sequence; a request given up that is still carried out |
| **Motion bridge** `jetson_ws/.../lamp_motion_bridge` | pending goals | goals, cancellations | TCP server, interaction | cancel racing completion |
| **Voice agent and node** `voice-bench/voice/agent.py`, `ros/lamp_voice_node.py` | turn number, state, one thread per reply; stream, goal handle, cancel marks | barge-in, speaking, playback goals | bridge | a thread of an interrupted reply that wakes in the next turn |
| **Cognition** `src/cognition` | prompts | per turn | interaction | text processing |
| **LeLamp runtime** `lelamp_runtime` | one-slot event service, motors, recordings | dispatch, stop | - | only its motor follower is used, by the hardware backend |
| **Simulation, tools, deployment, hardware files** | - | - | - | not part of the running system |

How a sound turn travels: the DOA loop decides on a direction and requests
`orientation.acquire` on the local socket (`Speech`); the session submits it
(`MotionSessions`) to the controller, whose owner thread takes it from the queue in
some later tick and starts the coordinator; ticks later the coordinator reports
aligned or timeout, the ticket's future is resolved (`MotionController`), the session
forwards it, and the device daemon publishes an event that the interaction node takes
for a turn towards a sound (`Interaction`). Meanwhile the words of the user become a
reply that the agent sends to the loudspeaker (`Playback`), which silences the DOA loop.
`PROJECT.json` lists the hazards on these ways, each at its line.

## 2. What is modelled

| Module | Models | Kind |
| --- | --- | --- |
| `TicketLifecycle` | what a client may rely on about one command ticket | abstract specification |
| `TicketLedger` | the tickets: futures, ids in flight, begun, recently answered (`controller.py` 68-82, 135-192) | operators on a record, used by `MotionController` and `MotionSessions` |
| `Orientation` | the orientation coordinator (`orientation.py`) | operators on a record |
| `MotionController` | the mailbox, the network threads' operations and the owner's tick (`controller.py` 100-697) with what it asks of the layers | state machine |
| `MotionSessions` | the TCP server, the local socket and the daemon's life (`middleware_server.py`, `local_control.py`), above the ledger of tickets | state machine |
| `MotionLink` | a motion asked for over the network: goal or client, transport, connections, sessions, the motion in progress (`lamp_motion_bridge/node.py`, `action_wait.py`, the bridges' `transport.py`, `remote_client.py`, with what `middleware_server.py` and `controller.py` do to it) | state machine |
| `Playback` | agent, voice node, bridge, device server and audio supervisor while the lamp speaks | state machine |
| `Speech` | device loop, stabilizer, event server, connection and the bridge's interval while it listens | state machine |
| `CaptureLabels` | the arithmetic of RTP stamps: `CaptureRtpClock.at`, `rtp_delta`, the speech of a frame | operators |
| `VisionHead` | the vision node's two services and what they do to following and aiming | state machine, part of `Interaction` |
| `Interaction` | the arbiter, scenarios S1, S2, S4 and the node | state machine |
| `*Properties`, `MC*` | the properties of each state machine; instances for TLC | |
| `TicketLedgerProofs`, `MotionControllerProofs`, `MotionControllerLedger`, `MotionSessionsProofs`, `MotionLinkProofs`, `PlaybackProofs`, `SpeechProofs`, `InteractionProofs` | the theorems and the lemmas of the ledger | proofs |

### The motion controller

`ledger` is the bookkeeping of tickets, numbered in the order `submit()` creates them.
`queue`, `latest`, `invalidated`, `disconnect`, `stopped`, `fault` are the rest of
what the lock guards (`_commands`, `_latest_point` / `_latest_bearing`,
`_invalidated`, `_disconnect`, `_stop_event`, `_fault`). The owner's variables are
`active`, `task`, `turn`, `back` (the four tickets in progress: `_active`,
`_task_ticket`, `_orientation_ticket`, `_return_ticket`), `repeats`, `settled`,
`taskSettled`, `held` (the orientation hold is running), `deferred`
(`_deferred_turn`), `sources` (keys of `_tracking_expires`), `safeWait`, `alert`,
and below them `temp`, `arm` (the layers' flags) and `ori` (the coordinator).

A network thread's operation is one critical section of the lock, so one action:
`Submit` (with one disjunct per return path: known, collision, stopped or fault,
tracking slot, queue), `RemoteDisconnected`, `InvalidateUnstarted`, `Stop`.

The owner's tick is cut where another thread can see or change something it uses;
`pc` names the next section:

    idle -StartTick-> gate -PassGate-> track -TakeLatest-> observe -(per command)-> observe
         -TracksDone-> take -TakeCommand-> begin -Begin-> apply -(a handler)-> step
         -StepRuntime-> settle -Settle-> idle
    gate -SafeDisconnect-> step          take -(empty queue)-> step
    idle -MissSlot-> idle                any -Fault-> shutdown -Shutdown-> ended

In particular a local client can leave between `get_nowait()` and `_begin()`, a
command can arrive while the owner works on another one, and a disconnection can be
reported at any point but takes effect only at the gate of the next tick. A handler of
`_apply_one_discrete_command()` runs without the lock but changes only what the owner
owns and its tickets, so each is one action, its early returns included: `Refuse` is
every early return that only fails the command, `AcquireDuplicate`, `AcquireDeferred`
and `PlaceUnsafe` are those that do more. The trailing effects (acceptance, result,
cancellation of replaced tickets) are part of the action. `FaultRepeating` is the
exception half way through the end of a tick.

### The sessions

All coroutines of the daemon share one event loop, so an action is what one of them does
between two awaits. `conn` is where the handler of each connection is (accepted but not
yet run, open, unwinding), `session` is `_owner`, `reply` the `forward()` tasks of a
connection (at most `PendingMax`, 64 in the code), `holders` is `_ticket_holders`. The
owner thread is kept only as what it does to tickets, on the same `TicketLedger` as the
controller: `Begin`, `Progress`, `SafeDisconnect`, `ThreadEnds`. What it takes of the owner for
local commands is `LocalsAwaitTheOwner` of the controller, which is a theorem
(`LocalsWait`). `serve` is the line
`_serve()` has reached: start of both listeners, the blocking join, `close()` and
`wait_closed()` of each server, parking; `Kill` is the deadline of 15 s.

### The link

One goal of the motion bridge, or one request of the diagnostic client, on its way to the
arm and back. `goal[g]` is the thread that waits (`wait_cancelable()`), `future` the
requests inside the transport, `conn` and `up` what the transport believes of its
connection, `toPi` and `toJetson` the bytes under way, `handler` the sessions of the Pi,
`queue`, `moving` and `result` as much of the controller as a motion and its cancellation
see. The two clients share the actions; `client` says who it is where they differ: the
bridge has timeouts and cancellations and refuses to send without a connection, the
diagnostic client waits for a connection and closes one whose heartbeat is not answered.

A connection can break at any time (`Break`) and each side goes on until it notices, or
never does: bytes already written may still be read and carried out, a result may be written
into a connection nobody reads, and the Pi refuses the next connection while it believes in
the old one. Any first line makes a connection the owner of the server, a heartbeat's
too, so that `Authenticate` needs no command under way. Acceptances are left out (neither
client acts upon them), and so is the deadline of `wait_cancelable()` itself, which is one
second later than the timeout of the request it waits for. `MotionSessions` has the server
and `MotionController` the controller in full; here they are cut down to what a motion
crosses.

### Playback

Four processes in a row, connected by an ordered channel to the voice node (`toNode`), a
ROS goal, and two requests to the Pi. `speak[t]` is the thread of a reply inside
`_speak()`, which outlives the turn it was begun for; `reader` and `executor` are the two
threads of the voice node, cut between the accesses to the goal's handle and to the mark
that asks for its cancellation; `goal[t]` is the place of the bridge's execution of a
goal, `startReq`, `stopReq`, `proc` and `playing` are the Pi's requests, processes and
`_playback`, cut at every await of `play_start()`, `play_stop()` and of the cleanup after
a disconnection. `abandoned` and `stray` record who has given up on what.

### Speech

The loop of the device daemon is cut at its awaits (`pc`), the stabilizer is inside the
step that observes. `wire` and `queue` are the events on the connection and in the
bridge's bounded queue, numbered per session; `device`, `accepting`, `active` are the
bridge's capture session and its open interval. A connection is lost on one side before
the other.

### The interaction node

The node runs one callback at a time, so a callback is an action; the tick of one second
is one callback of four parts (`step`), between which nothing but the tick runs. `asked`
are requests to the vision node not answered yet, each with the epoch that its callback
remembers; `centers` are the goals of `return_center`. The arbiter's copies of what it is
told (`arbGaze`, `arbBusy`) are variables of their own, because they are not always true.
The state of the motors may change before any callback and is an input (`fault`).

### Abstractions

* Data that is decided on but not computed here - has a command expired, is a point
  reachable, has the yaw settled, is a direction stable, is an answer of the language
  model a gesture - is chosen freely where the code reads it.
* A result keeps its state (`completed`, `failed`, `cancelled`), not its code, message or
  data. The shoulder temperature has three bands, cut at 45 and 55 degrees, and changes
  only inside `runtime.step()`.
* Timers of the coordinator and of the stabilizer count periods or samples and saturate
  at the threshold they are compared with. Timers of seconds (leases, response timeouts,
  waits of the agent, of the arbiter and of S4) may end at any time they are looked at;
  those whose end is a failure are counted by `MaxFaults`.
* Frames of sound are not told apart, only whose turn they are of. Stamps are arithmetic
  in `CaptureLabels`.
* Logging, wording, layout and `KeyboardInterrupt` (a stop) are left out.

## 3. Runs

Breadth-first, with deadlock checked except where the system may really stop: the owner
of the arm ends after a stop or a fault, the daemon is parked, and a lamp that has given
all its replies has nothing more to say.

| Run | Instance | Shows |
| --- | --- | --- |
| `mailbox` | 3 tickets; two tracking commands, a local heartbeat and a twice-repeated motion over three ids, one shared by both origins; queue 1, cache 1; all events | `OneHolder`, `BegunIsWaitedFor`, `ExecutedOnce` (with a third command a request is indeed forgotten and carried out again), `EndedAnswersAll`, `LocalsAwaitTheOwner` (the local heartbeat waits untouched in the full queue through remote commands and their cancellation), and that the controller implements `TicketLifecycle` (`ImplementsLifecycle`). 0.6 million states |
| `arm` | 2 tickets out of the 18 commands that move or stop the arm, all temperature bands, disconnections; turn timeout and hold of 1 period | `WarmShoulderRests`, `SafeWaitIsQuiet`, `TrackingIsLeased`, `TurnIsInProgress`, `TurnKeepsItsAnchor`, `AutonomousReturnIsFree`. 1.5 million states |
| `live` | 2 tickets out of two turns and a repeated one, a tracking command, a return; disconnections, local EOFs, stop, missed periods; `FairSpec` | `EveryCommandIsAnswered`, `EverySoundTurnEnds`, `AnchorIsReleased` |
| `sessions` | 2 remote and 2 local clients, of which the remote ones need not leave; a remote ticket or a local one that both local clients may share, one pending reply each; `FairSpec` | `SoleOwner`, `WaitingIsHeld`, `LastHolderInvalidates`, `LostSessionLeavesNothing`, `ParkedIsStill`, `ShutdownCompletes`. 67 thousand states |
| `link` | 2 goals that may replace each other's motion, one waited for at a time, 2 connections, with symmetry | `TypeOK`, `MovingIsAwaited`, `EndIsTrue`. 4.4 million states |
| `link_live` | 1 goal, 3 connections; `FairSpec` | `EveryGoalEnds`. 0.15 million states |
| `playback` | 2 replies, 1 fault | `TypeOK`, `FramesOfOwnTurn`, `NeverBusy`, `OwnedPlayback`, `OnePlayback`, `IdleIsSilent`. 1.4 million states |
| `speech` | 2 speeches, window of 2 samples, queue of 2 events, 1 fault; `FairSpec`. Also `LabelsAreTrue`: every two speeches and every frame on a clock of 8 ticks, wherever it wraps | `TypeOK`, `IntervalIsHeard`, `OneDecision`, `EverySpeechIsDecided`. 0.4 million states |
| `interaction` | 2 utterances, 2 requests and 1 return under way | `AwayIsAlone`, `OneMotion`, `SoundTurnIsUnclaimed`, `CenterSparesTurn`, `OldOffIsRepaired`. The goal of a clip is refused, fails, is followed by another or ends in actions of its own. 3.6 million states |
| `warm_turn` | motion controller, 3 tickets, one turn, a return, away pose; all bands | finding: `WarmShoulderDoesNotTurn` is violated |
| `return_ticket` | motion controller, 4 tickets of the same menu, no sensor | finding: `ReturnTicketIsCurrent` is violated |
| `center_over_book` | interaction, 1 utterance | finding: `CenterSparesBook` is violated |

**Bounds.** Two or three tickets let one command be in progress, one in the queue or
in the owner's hands and one arrive. A queue and a cache of one entry are full, and
forget, at once: 32 and 256 differ only in how long that takes; the same holds of the 64
pending replies and the 256 events of the bridge. Settle times, timeouts and windows of
one or two periods make every order of their ends possible. Two remote clients are what
a takeover needs; two local ones what a shared ticket needs. One ticket of either origin is
enough to be lost, shared or left behind; what several of them at once add is proved, as
are all the invariants of `sessions`. `arm` takes two commands out of many rather than many
out of a few: what a third one could add to turns and heat is proved too
(`AnchorIsKept`, `Turns`, `WarmShoulder`). Two goals and two connections are an older motion
and the one that replaces it, or a broken connection and the next. Two replies are an
interrupted one and the next, two speeches and two utterances likewise; two requests are
what it takes for the vision node to serve an old one last. One fault anywhere: a second
one mostly repeats the first, and the state space of two does not fit the time of a run.
The theorems of section 4 hold for every value of the constants.

**Fairness.**

* `MotionController`: `WF_vars(Tick)`: the owner's loop keeps making ticks. The operating
  system schedules the thread and no section of a tick blocks for good (`get_nowait`, a
  lock held only for short sections, `sleep` bounded by the period). Nothing is assumed of
  network threads or failures, and of missed periods only that the loop does not miss
  every one for ever.
* `MotionSessions`: the event loop runs every coroutine that can go on (`Handle`,
  `Unwind`, the shutdown), the owner thread ends after a stop, a cancelled handler ends,
  and a local client leaves within its response timeout (`src/device/motion_client.py`).
  Nothing makes a remote client leave, and the deadline of the shutdown is not relied on.
* `MotionLink`: the threads that wait, the event loops of both ends and the owner thread do
  what they can; a request of the bridge times out (240 s, a cancellation 3 s), and a broken
  connection is closed by the diagnostic client, whose heartbeat is not answered on it
  (`remote_client.py` 117-127). That the bridge or the server notices a break, or that there
  is a new connection, is not assumed; the diagnostic client waits for one as long as it
  takes, which `EveryGoalEnds` leaves out.
* `Speech`: `WF_vars(Loop)`: the device daemon's loop goes on and the board is found
  again (`XvfBack` follows any number of attempts).

`Playback` and `Interaction` have safety properties only.

**Mutants.** Each property has a plausible bug next to the definition it would sit in
(the operators marked `Fault:`): a dropped guard, a lookup in the wrong table, a ticket
not ended, a hold released twice, a thread not joined, an answer not compared with the
epoch. Replacing the definition by its mutant violates the property in the same run.

**What the properties except.** Some hold only with an exception, which the property
names and a hazard in `PROJECT.json` explains:

* `TurnKeepsItsAnchor`: the deferred turn of the two findings below.
* `ShutdownCompletes`: a remote connection accepted but not yet handled when `close()`
  copies the handlers is not cancelled and is waited for until the deadline.
* `MovingIsAwaited`: a goal that timed out, or whose cancellation did (`gaveUp`): the bridge
  reports an end and leaves the motion alone; and the time until the server and then the
  controller notice that a connection is gone.
* `OwnedPlayback`, `OnePlayback`: a start that the bridge gave up on while it was under
  way leaves a process that nobody stops (`stray`); so does a stop that came too late.
* `NeverBusy`: a stream for which the voice node stopped waiting (`abandoned`).
* `IntervalIsHeard`: a speech that was cut off because the board was lost, or because the
  clock of the capture was (`cutOff`), stays the label until the next event.
* `IdleIsSilent`: a reply that was interrupted or not confirmed in time.
* `OldOffIsRepaired`: a turn whose face the book kept the head from.

### What the runs found

* **`warm_turn`** - while the temperature alert is on, `away.clear` is still carried out,
  and its handler makes the sound turn that the away pose had refused
  (`_turn_deferred`, `controller.py` 527-537) without looking at the alert. The safety
  scenario (`docs/task-light-safety-scenarios.md` 12-13) says that new movements are
  refused until the shoulder has cooled.
* **`return_ticket`** - the same turn takes the base from an accepted return to the
  centre but does not end the return's ticket, as `orientation.acquire` does
  (418-421). The ticket stays in progress with no return behind it.
* **`center_over_book`** - the answer to the order to stop following, which the end of a
  turn sends, brings the head back to rest if no new turn has begun
  (`lamp_interaction/node.py` 441-442). It does not look at the task light, which may have
  taken the head since; the comment at 406-407 says that centring would pull the head off
  the book.

The first two are the one exception that `TurnKeepsItsAnchor` names; every other way of
starting a turn ends the older ticket.

## 4. Proofs

Checked by TLAPS for every value of the constants, from the named assumptions of the
modules (`OrientationAssumption`, `LedgerAssumption`, `ControllerAssumption`,
`NoIdAssumption`, `SessionAssumption`, `LinkAssumption`, `PlaybackAssumption`, `SpeechAssumption`,
`InteractionAssumption`, `LabelAssumption`); nothing else is assumed.

**The ledger** (`TicketLedgerProofs`, lemmas only). What the operators of
`TicketLedger` keep, for whoever keeps such a ledger. `Books` is the invariant: tickets
are numbered without gaps, one that does not exist has no result, in flight is exactly
what has no final result, and of each request id only one ticket is in flight. `Reduced`
says that a step ended the tickets of a set and did nothing else, `Grown` that it created
one; both imply `Later`: no result ever changes. They compose (`ReducedTwice`,
`GrownFinished`), so a handler is a chain of them. `Newest` says what the ranks of the cache
of recent results are: there is an order of age among the tickets ever remembered, and a
ticket has as many ranks less than `RecentMax` as tickets were remembered after it, down to
none. `RememberOrder` shows that `Remember` keeps such an order, for every size of the cache.
`Cached` adds that whatever is in flight, accepted or unanswered was remembered once, and
that of two such tickets of one id the first was forgotten.

**The motion controller** (`MotionControllerProofs`, `MotionControllerLedger`).

* `TypeCorrect`, `Typed`. `TypeOK` is not inductive: a handler reads the request of the
  ticket in hand, which has fields only if the ticket exists. `TypeInv` adds
  `HandsCreated`: what waits in the queue or in the owner's hands has been submitted.
* `WarmShoulder`, `SafeWait`, `Leases` follow from `MotionInv`, which needs of the layers
  only what each operation and each step of the blender may change; `Turns` and
  `AutonomousReturns` from `TurnInv`: a ticket of a turn or of a return has reset the note
  of a lost connection, and a turn is orienting except in the tick that aligns it.
* `InFlight`, `OneOfAnId`, `NoTicketIsLost`, `NothingCancelledBegins`, `EndAnswers`,
  `AnchorIsKept` and the refinement `TicketsLive` follow from `MailInv`: `Books`;
  `HandsInv`, each place holds tickets of its own kinds (a motion in progress is a
  `motion.play`), which is what keeps two places from holding the same ticket; `PlaceInv`, no ticket is in the queue, in hand
  or in progress twice, and each one in flight lies somewhere; `QueueInv`, what is queued
  is in flight or marked as invalidated, and nothing marked is in flight; `IdleHands` and
  `ClaimInv`, the owner's hands are empty between its sections and what it has claimed can
  no longer be cancelled by a local client; `EndInv`. A handler is `Moves(S)`: it ends the
  tickets of `S` and may put the command in hand into one slot; `MovesMail` shows once that
  this keeps the invariant, `HandlerMoves` that each handler is one.
* `RepeatedOnlyForgotten` (`ExecutedOnce`) follows from `Cached`, which every step keeps
  because the ledger after it is the ledger before it with tickets accepted, finished,
  opened or refused. A request enters only when no ticket of its id is known; one that is
  neither in flight nor cached was forgotten, so `RecentMax` tickets are newer than it.
* `LocalsWait` (`LocalsAwaitTheOwner`) follows from `BegunInv`: what is in progress, and
  what was accepted, has been begun. `StepAccepts` shows that only the command in hand is
  accepted, `StepSpares` that a step leaves a local command that is not begun in flight
  (`Spared`) or takes it away in one of the three ways the property names (`Goes`): a
  handler ends only the command in hand and what is in progress, a full tracking slot gives
  up a remote observation, a full queue refuses the newcomer.

**The sessions** (`MotionSessionsProofs`). `Shape` is the type of everything but the
counts of holders, with `Books` of the ledger. `OneOwner` follows from `OwnerInv` (the
authenticated handler that still reads is the owner, and there is no other),
`ParkingIsLast` from `ShutInv` (what each stage of the shutdown leaves of listeners,
connections and thread; a thread that has ended has answered everything),
`NothingOutlivesItsSession` from `LostInv` (a remote command in flight is awaited, or the
loss of its session has yet to be dealt with). `Typed`, `NoTurnIsForgotten` and the action
property `OthersKeepTheirTurn` follow from `HoldInv`: the count of holders of a ticket is
the number of replies that wait for its first result.

**The link** (`MotionLinkProofs`). `Typed` from `TypeInv`, which adds that a transport that
is up has a connection. Neither safety property is inductive: what moves the arm was once
a line on a connection, then a command in the queue. `LinkInv` follows a command from the
future to the arm and back. `AskInv`: a goal's two requests are made and sent in order, and
a cancellation fails while its motion is awaited only on a connection that has broken or by
a timeout. `PlaceInv`: a command is on one connection, in the queue or in progress, never
twice. `WayInv`: what is on its way has been sent and has no result anywhere, neither with
the controller, nor on the wire, nor in its future, and what the wire tells is true or a
failure. `OwnedInv`: what the server has read came from the owner, who is still there
unless the loss has yet to be dealt with, and somebody waits at the other end of its
connection or that end has let go. `MovesForSomebody` is `OwnedInv` of the motion in
progress, `EndsAreTrue` follows from `AskInv` and `WayInv`. A step of the controller takes
commands off the way by giving them a result; `ControllerKeeps` shows that once for all
five.

**Playback** (`PlaybackProofs`). `SpeakingInv` follows a reply from the agent to the Pi.
`TurnInv`: turns are begun in order, no turn sends more than three messages, and the agent
leaves a turn only when it was interrupted or its thread is through. `QueueInv`: messages
come in the order of the turns, and of a turn the sound comes after its only begin, which
has been sent exactly when its thread is past it. `StreamInv`: a stream has its goal after
the result of the one before, unless that one was abandoned, and the bridge executes one
goal. `RequestInv` and `ProcessInv`: what a goal has asked of the Pi at each of its places,
and, as long as nothing is `stray`, that the process that plays is the one the Pi knows of,
that one start at a time is under way and that what runs belongs to a goal that will stop it
or to a connection whose loss is about to be noticed. `FaultlessInv`: without a failure a
goal that is over has left nothing playing. `OwnFrames` follows from `QueueInv`,
`NextReplyTaken` from `StreamInv`, `PlaybackOwned` and `SpeakerAlone` from `ProcessInv`,
`SilentWhenIdle` from all of them. `PlaybackTyped` needs `TurnInv` too: it bounds what waits
for the voice node.

**Speech** (`SpeechProofs`). `OneTurnPerSpeech` from `DecisionInv`: the loop acts upon one
decision at a time, of a speech that has not been answered, and a speech that is still
being decided has not been answered either. `IntervalHeard` says that the Jetson believes
what the Pi hears once everything is handled; its invariant has to say what it will believe
while events are on the way. `Leads(es, x, y)`: handling the events `es` in order makes the
label `y` of the label `x`. `HearInv`: unless an event was dropped, the queue leads the
present label to some `q` and, while the connection is up, the wire leads `q` to a label that
is what the loop's own state calls for (`Told`), or to one of an older session if nothing was
sent in this one. Events taken from the wire or the queue shorten a path, published ones
lengthen it (`LeadsTail`, `LeadsAppend`). Beside it: `WireInv`, the wire holds the last
events of the session and the Jetson has accepted all before them; `SessionInv`, sessions
end with a failure and what is on the way belongs to one that was; `LoopInv`, the interval is
open exactly while speech is detected, and no speech is detected while playback suppresses it.

**The interaction node** (`InteractionProofs`). `Typed` from `TypeInv`, which adds that
the turn counter is an utterance's (`EpochIsSpoken`). `MotionIsAlone` is inductive given
the types. `AwayHeldAlone` needs of the arbiter's copies what `TickInv` says: they are as
true as the parts of a tick need them. `OffIsRepaired` and `CenterSpares` rest on
`RequestInv`, about requests that have not been answered yet: an order to stop following
older than the turn that wants the face still has its repair among the answers to come
(`OffInv`), no request is of a later turn, and none that is followed by a return to rest is
of the turn under way (`AnswersInv`). `UndoneUnclaimed` is an action property. The sequence
of requests enters only as the set of its members.

**Labels** (`SpeechProofs`, last part). What the stamps of `CaptureLabels` mean on a clock
of any width, against a clock that never wraps. `ClockIsTrue`: the stamp extrapolated from
any packet before is the true time modulo the width. `CoversOwnFrames` and `CoversExactly`:
a speech that is over covers its own frames from the pre-roll on, and those whole turns
later. `LastAreRemembered`: begun and ended in order, the last `Kept` speeches are
remembered with their true stamps. `LatestIsNamed` puts them together: the name that the
wrapped stamps give a frame (`SpeechOf`) is the one that true time gives it - of the latest
remembered speech it fell into, else of the open one, else none - if each remembered speech
is less than a turn of the clock away (24.9 h; `Near`) and the open one began less than half
a turn away. `HoldsExactly` and `OpenExactly` bridge the two clocks for one speech.
`LabelsAreTrue` in `MCSpeech` evaluates the arithmetic on a small clock.

The type invariants of `MotionController`, `MotionSessions` and `Interaction`, that a
ticket is in flight exactly while it has no final result (`InFlight`) and that no two
tickets in flight have one request id (`OneOfAnId`, which the refinement of the life cycle
implies) are proved only and no run repeats them.

**Only model-checked.** All liveness (`EveryCommandIsAnswered`, `EverySoundTurnEnds`,
`AnchorIsReleased`, `ShutdownCompletes`, `EveryGoalEnds`, `EverySpeechIsDecided`): fairness
and `ENABLED` are beyond the prover. The three findings are counterexamples of TLC. Every
invariant and action property of a passing run is a theorem.

## 5. Not modelled, and why

* Kinematics, trajectories, clips, blending and filtering are real-valued numerics; the
  drivers of LEDs, microphone board and servos are device I/O; image processing,
  recognition, prompting and synthesis compute data; simulation, benches, tools and
  deployment are not part of the running system. Together they are the larger part of the
  lines of the repository (`bench/`, `tools/`, `sim/`, `lelamp/`, the geometry of
  `vision/` and `motion/`), so the mapped share of all lines is small although the control
  of the daemons and nodes is covered.
* **Remote client and motion bridge.** Commands without an answer (tracking, face steps,
  the away pose), the services, the published status, the end of the client and its command
  line. The goal of the task light follows the same code as that of a motion.
  `Interaction` takes of the bridge that a goal is accepted or refused, ends later, and
  cannot be cancelled.
* **Interaction.** Publishing the owner, holding the orientation, light colours, the
  interrupt request, the branch `s1_reach=True` (off by default), the topic
  `face_follow_active`, the vision node's re-centring fallback and the eviction of answered
  utterances after sixteen. `TurnOrchestrator` of `turn.py` is used by tests only.
* **Device server.** Authentication, heartbeat and LED requests; the requests of audio
  and the events are in `Playback` and `Speech`.
* **Playback.** Which frames are sent and the publisher's thread; recognition, language
  model and wake words. **Speech.** Angles, and the delay of captured frames.

Worth doing next: that `MotionLink`'s server and controller are what `MotionSessions` and
`MotionController` promise of one motion (a refinement); liveness of `Playback` (every
reply ends) under the timeouts that the agent has.
