------------------------------ MODULE MotionLink ------------------------------
(***************************************************************************)
(* A motion from the one who asks for it to the arm and back: a goal of    *)
(* the motion bridge (lamp_motion_bridge/node.py, lamp_device_bridge's     *)
(* action_wait.py and transport.py) or a request of the diagnostic client  *)
(* (src/motion/remote_client.py), the connections to the Pi, the sessions  *)
(* of its TCP server and, of the motion controller, the queue and the one  *)
(* motion in progress (MotionController models the rest of it).            *)
(*                                                                         *)
(* The two clients share the actions; what only one of them does says so.  *)
(* A connection can break at any time, and neither side need notice at     *)
(* once: what has been written may still be read, or be gone.  Commands    *)
(* other than motion.play and its motion.cancel are left out, and so are   *)
(* the acceptances, which change nothing for either client, and the end of *)
(* a client.                                                               *)
(***************************************************************************)
EXTENDS Integers, Sequences, FiniteSets, Functions

CONSTANTS
  Goal,
  NoGoal,
  Replacing,   \* goals with replace_current
  Concurrent,  \* goals that may be waited for at a time
  MaxConn      \* connections in a behaviour

ASSUME LinkAssumption ==
  /\ NoGoal \notin Goal /\ Replacing \subseteq Goal
  /\ Concurrent \in Nat \ {0} /\ MaxConn \in Nat \ {0}

VARIABLES
  client,    \* who is at this end: the bridge or the diagnostic client
  \* those who ask
  goal,      \* each goal and the thread that waits for it
  gaveUp,    \* goals that timed out, or whose cancellation did
  \* the transport
  future,    \* the future of each request
  conn,      \* number of the current connection
  up,        \* it is believed to stand
  \* the network
  toPi, toJetson,
  cut,       \* connections of which one side has let go
  \* the Pi
  handler,   \* the server's handler of each connection
  from,      \* the connection each command came by
  told,      \* commands whose result the server has sent
  queue, moving, result,
  lost       \* the controller's note of a lost session

askVars  == <<client, goal, gaveUp>>
linkVars == <<future, conn, up>>
netVars  == <<toPi, toJetson, cut>>
piVars   == <<handler, from, told, queue, moving, result, lost>>
vars     == <<askVars, linkVars, netVars, piVars>>

Conn     == 1 .. MaxConn
Request  == {"play", "cancel"} \X Goal
Terminal == {"completed", "failed", "cancelled"}
Play(g)   == <<"play", g>>
Cancel(g) == <<"cancel", g>>

Awaiting == {"waiting", "cancelling", "final"}
Ended    == {"succeeded", "canceled", "aborted"}

TypeOK ==
  /\ client \in {"bridge", "cli"}
  /\ goal \in [Goal -> {"none"} \cup Awaiting \cup Ended]
  /\ gaveUp \subseteq Goal
  /\ future \in [Request -> {"none", "submitted", "pending", "error"} \cup Terminal]
  /\ conn \in 0 .. MaxConn /\ up \in BOOLEAN
  /\ toPi \in [Conn -> Seq(Request)]
  /\ toJetson \in [Conn -> Seq(Request \X Terminal)]
  /\ cut \subseteq Conn
  /\ handler \in [Conn -> {"none", "open", "owner", "ended"}]
  /\ from \in [Request -> 0 .. MaxConn]
  /\ told \subseteq Request
  /\ queue \in Seq(Request)
  /\ moving \in Goal \cup {NoGoal}
  /\ result \in [Request -> {"none"} \cup Terminal]
  /\ lost \in BOOLEAN

Init ==
  /\ client \in {"bridge", "cli"}
  /\ goal = [g \in Goal |-> "none"] /\ gaveUp = {}
  /\ future = [r \in Request |-> "none"]
  /\ conn = 0 /\ up = FALSE
  /\ toPi = [c \in Conn |-> <<>>] /\ toJetson = [c \in Conn |-> <<>>] /\ cut = {}
  /\ handler = [c \in Conn |-> "none"]
  /\ from = [r \in Request |-> 0] /\ told = {}
  /\ queue = <<>> /\ moving = NoGoal
  /\ result = [r \in Request |-> "none"] /\ lost = FALSE

-----------------------------------------------------------------------------
(* The goal and its thread: _play(), _cancelable_request() and             *)
(* wait_cancelable() of the bridge, request() of the diagnostic client.    *)

Execute(g) ==
  /\ goal[g] = "none"
  /\ Cardinality({h \in Goal : goal[h] \in Awaiting}) < Concurrent
  /\ goal' = [goal EXCEPT ![g] = "waiting"]
  /\ future' = [future EXCEPT ![Play(g)] = "submitted"]
  /\ UNCHANGED <<client, gaveUp, conn, up, netVars, piVars>>

(* The future is done: its result becomes the goal's.  An exception ends   *)
(* the callback, and with it the goal.                                     *)
Resolve(g) ==
  /\ goal[g] = "waiting"
  /\ future[Play(g)] \in Terminal \cup {"error"}
  /\ goal' = [goal EXCEPT ![g] =
                IF future[Play(g)] = "completed" THEN "succeeded" ELSE "aborted"]
  /\ UNCHANGED <<client, gaveUp, linkVars, netVars, piVars>>

(* A poll that found the future undone sees that the goal is to be         *)
(* cancelled, which it may be at any time; by then the future may be done. *)
SendCancel(g) ==
  /\ client = "bridge" /\ goal[g] = "waiting"
  /\ goal' = [goal EXCEPT ![g] = "cancelling"]
  /\ future' = [future EXCEPT ![Cancel(g)] = "submitted"]
  /\ UNCHANGED <<client, gaveUp, conn, up, netVars, piVars>>

\* Whatever the Pi answers, the goal's own result is waited for.
CancelAnswered(g) ==
  /\ goal[g] = "cancelling" /\ future[Cancel(g)] \in Terminal
  /\ goal' = [goal EXCEPT ![g] = "final"]
  /\ UNCHANGED <<client, gaveUp, linkVars, netVars, piVars>>

\* The cancellation raises: the goal ends without its result.
CancelRaises(g) ==
  /\ goal[g] = "cancelling" /\ future[Cancel(g)] = "error"
  /\ goal' = [goal EXCEPT ![g] = "aborted"]
  /\ UNCHANGED <<client, gaveUp, linkVars, netVars, piVars>>

\* Fault: a result that did not come counts as well.
ResolveCanceledAnyway(g) ==
  /\ goal[g] = "final"
  /\ future[Play(g)] \in Terminal \cup {"error"}
  /\ goal' = [goal EXCEPT ![g] = "canceled"]
  /\ UNCHANGED <<client, gaveUp, linkVars, netVars, piVars>>

(* The result of a goal whose cancellation was sent: it is reported as     *)
(* canceled even when it was completed before the cancellation came.       *)
ResolveCanceled(g) ==
  /\ goal[g] = "final"
  /\ future[Play(g)] \in Terminal \cup {"error"}
  /\ goal' = [goal EXCEPT ![g] =
                IF future[Play(g)] = "error" THEN "aborted" ELSE "canceled"]
  /\ UNCHANGED <<client, gaveUp, linkVars, netVars, piVars>>

GoalThread(g) ==
  \/ Resolve(g) \/ SendCancel(g)
  \/ CancelAnswered(g) \/ CancelRaises(g) \/ ResolveCanceled(g)

-----------------------------------------------------------------------------
(* The transport.                                                          *)

Connect ==
  /\ ~up /\ conn < MaxConn
  /\ conn' = conn + 1 /\ up' = TRUE
  /\ handler' = [handler EXCEPT ![conn + 1] = "open"]
  /\ UNCHANGED <<askVars, future, netVars,
                 from, told, queue, moving, result, lost>>

\* A line written to a handler that has ended is gone.
Written(r) ==
  toPi' = IF handler[conn] = "ended" THEN toPi
                                     ELSE [toPi EXCEPT ![conn] = Append(@, r)]

(* request(): the line is written at once, or not at all: the bridge does  *)
(* not wait for a connection, the diagnostic client does.  The loop takes  *)
(* a goal's requests in the order in which they were submitted to it.  A   *)
(* broken connection may fail the write before the read loop ends.         *)
Send(r) ==
  /\ future[r] = "submitted"
  /\ r[1] = "cancel" => future[Play(r[2])] # "submitted"
  /\ \/ /\ up
        /\ future' = [future EXCEPT ![r] = "pending"]
        /\ Written(r)
     \/ /\ (~up /\ client = "bridge") \/ (up /\ conn \in cut)
        /\ future' = [future EXCEPT ![r] = "error"]
        /\ UNCHANGED toPi
  /\ UNCHANGED <<askVars, conn, up, toJetson, cut, piVars>>

\* The bridge waits for its answers for so long: 240 s, a cancellation's 3 s.
Timeout(r) ==
  /\ client = "bridge" /\ future[r] = "pending"
  /\ future' = [future EXCEPT ![r] = "error"]
  /\ gaveUp' = gaveUp \cup {r[2]}
  /\ UNCHANGED <<client, goal, conn, up, netVars, piVars>>

\* The read loop gives a result to the request of its id, if one still waits.
ReadAnswer ==
  /\ up /\ toJetson[conn] # <<>>
  /\ LET m == Head(toJetson[conn]) IN
       future' = IF future[m[1]] = "pending"
                   THEN [future EXCEPT ![m[1]] = m[2]] ELSE future
  /\ toJetson' = [toJetson EXCEPT ![conn] = Tail(@)]
  /\ UNCHANGED <<askVars, conn, up, toPi, cut, piVars>>

\* Fault: the requests wait for the next connection.
KeepPending == future' = future

FailPending ==
  future' = [r \in Request |-> IF future[r] = "pending" THEN "error" ELSE future[r]]

\* Unread answers go with the connection.
Dropped ==
  /\ up' = FALSE
  /\ cut' = cut \cup {conn}
  /\ toJetson' = [toJetson EXCEPT ![conn] = <<>>]

(* The read loop ends: everything that waits for an answer fails, and      *)
(* nothing is sent again.  The diagnostic client also closes a connection  *)
(* whose heartbeat is not answered in time.                                *)
Lose ==
  /\ up /\ (conn \in cut \/ client = "cli")
  /\ FailPending /\ Dropped
  /\ UNCHANGED <<askVars, conn, toPi, piVars>>

\* The connection breaks; either side may go on without knowing.
Break(c) ==
  /\ c <= conn /\ c \notin cut
  /\ cut' = cut \cup {c}
  /\ UNCHANGED <<askVars, linkVars, toPi, toJetson, piVars>>

Transport ==
  \/ Connect \/ ReadAnswer \/ Lose
  \/ \E r \in Request : Send(r) \/ Timeout(r)
  \/ \E c \in Conn : Break(c)

-----------------------------------------------------------------------------
(* The server of the Pi.                                                   *)

Owns(c) == handler[c] = "owner"

Ends(c) == handler' = [handler EXCEPT ![c] = "ended"]

(* The first line of a connection, be it a heartbeat, makes it the owner   *)
(* of the server.                                                          *)
Authenticate(c) ==
  /\ handler[c] = "open"
  /\ \A d \in Conn : ~Owns(d)
  /\ handler' = [handler EXCEPT ![c] = "owner"]
  /\ UNCHANGED <<askVars, linkVars, netVars, from, told, queue, moving, result, lost>>

\* Another connection owns the server, perhaps one that nobody uses any more.
Refuse(c) ==
  /\ handler[c] = "open"
  /\ \E d \in Conn : Owns(d)
  /\ Ends(c) /\ cut' = cut \cup {c}
  /\ toJetson' = [toJetson EXCEPT ![c] = IF toPi[c] = <<>> THEN @
                                        ELSE Append(@, <<Head(toPi[c]), "failed">>)]
  /\ toPi' = [toPi EXCEPT ![c] = <<>>]
  /\ UNCHANGED <<askVars, linkVars, from, told, queue, moving, result, lost>>

\* A command is submitted to the controller.
Receive(c) ==
  /\ Owns(c) /\ toPi[c] # <<>>
  /\ queue' = Append(queue, Head(toPi[c]))
  /\ from' = [from EXCEPT ![Head(toPi[c])] = c]
  /\ toPi' = [toPi EXCEPT ![c] = Tail(@)]
  /\ UNCHANGED <<askVars, linkVars, toJetson, cut, handler, told, moving, result, lost>>

\* Fault: the controller is not told that its client has gone.
EndSessionSilently(c) ==
  /\ handler[c] \in {"open", "owner"}
  /\ Ends(c) /\ cut' = cut \cup {c}
  /\ toPi' = [toPi EXCEPT ![c] = <<>>]
  /\ UNCHANGED <<askVars, linkVars, toJetson,
                 from, told, queue, moving, result, lost>>

(* The end of the stream, a heartbeat that is 2.5 s late, or an error: the *)
(* owner reports the loss and gives up the server.                         *)
EndSession(c) ==
  /\ handler[c] \in {"open", "owner"}
  /\ lost' = (lost \/ Owns(c))
  /\ Ends(c) /\ cut' = cut \cup {c}
  /\ toPi' = [toPi EXCEPT ![c] = <<>>]
  /\ UNCHANGED <<askVars, linkVars, toJetson, from, told, queue, moving, result>>

(* forward(): the result goes to the connection that asked, while it       *)
(* lasts.                                                                  *)
Forward(r) ==
  /\ from[r] # 0 /\ Owns(from[r])
  /\ result[r] # "none" /\ r \notin told
  /\ told' = told \cup {r}
  /\ toJetson' = IF up /\ from[r] = conn
                   THEN [toJetson EXCEPT ![conn] = Append(@, <<r, result[r]>>)]
                   ELSE toJetson
  /\ UNCHANGED <<askVars, linkVars, toPi, cut, handler, from, queue, moving, result, lost>>

Server == \/ \E c \in Conn : Authenticate(c) \/ Refuse(c) \/ Receive(c) \/ EndSession(c)
          \/ \E r \in Request : Forward(r)

-----------------------------------------------------------------------------
(* The motion controller: one command a step, in the order of the queue.   *)

ControllerOnly == UNCHANGED <<askVars, linkVars, netVars, handler, from, told>>

\* Old results are kept: a command that has one is over.
EndsWith(S, state) ==
  result' = [r \in Request |-> IF r \in S /\ result[r] = "none" THEN state ELSE result[r]]

InProgress == IF moving = NoGoal THEN {} ELSE {Play(moving)}

\* Expired, unknown, too warm: refused before the arm is looked at.
RefuseCommand ==
  /\ queue # <<>> /\ queue' = Tail(queue)
  /\ EndsWith({Head(queue)}, "failed")
  /\ UNCHANGED <<moving, lost>> /\ ControllerOnly

\* Fault: the command is noted, not the goal.
PlayMotionWhole(g) ==
  /\ queue # <<>> /\ Head(queue) = Play(g) /\ queue' = Tail(queue)
  /\ moving = NoGoal \/ g \in Replacing
  /\ EndsWith(InProgress, "cancelled")
  /\ moving' = Head(queue)
  /\ UNCHANGED lost /\ ControllerOnly

PlayMotion(g) ==
  /\ queue # <<>> /\ Head(queue) = Play(g) /\ queue' = Tail(queue)
  /\ moving = NoGoal \/ g \in Replacing
  /\ EndsWith(InProgress, "cancelled")
  /\ moving' = g
  /\ UNCHANGED lost /\ ControllerOnly

CancelMotion(g) ==
  /\ queue # <<>> /\ Head(queue) = Cancel(g) /\ queue' = Tail(queue)
  /\ moving = g /\ moving' = NoGoal
  /\ result' = [result EXCEPT ![Play(g)] = "cancelled", ![Cancel(g)] = "completed"]
  /\ UNCHANGED lost /\ ControllerOnly

\* The motion ends, is interrupted, or is stopped for the shoulder's heat.
Finish ==
  /\ moving # NoGoal /\ moving' = NoGoal
  /\ \E s \in {"completed", "cancelled"} : EndsWith(InProgress, s)
  /\ UNCHANGED <<queue, lost>> /\ ControllerOnly

\* The lost session takes with it everything in the mailbox and in progress.
SafeDisconnect ==
  /\ lost /\ lost' = FALSE
  /\ EndsWith(Range(queue) \cup InProgress, "cancelled")
  /\ queue' = <<>> /\ moving' = NoGoal
  /\ ControllerOnly

Controller ==
  \/ RefuseCommand \/ Finish \/ SafeDisconnect
  \/ \E g \in Goal : PlayMotion(g) \/ CancelMotion(g)

-----------------------------------------------------------------------------

Next ==
  \/ \E g \in Goal : Execute(g) \/ GoalThread(g)
  \/ Transport \/ Server \/ Controller

Spec == Init /\ [][Next]_vars

(* The event loops and the threads serve what they can; answers that do    *)
(* not come are given up by the bridge, and a connection that carries no   *)
(* heartbeat by the diagnostic client.  That a broken connection is        *)
(* noticed, by the bridge or by the server, is not assumed, nor that there *)
(* is a new one.                                                           *)
FairSpec ==
  /\ Spec
  /\ \A g \in Goal : WF_vars(GoalThread(g))
  /\ \A r \in Request : WF_vars(Send(r)) /\ WF_vars(Timeout(r)) /\ WF_vars(Forward(r))
  /\ WF_vars(ReadAnswer) /\ WF_vars(client = "cli" /\ conn \in cut /\ Lose)
  /\ \A c \in Conn : WF_vars(Authenticate(c)) /\ WF_vars(Refuse(c)) /\ WF_vars(Receive(c))
  /\ WF_vars(Controller)
=============================================================================
