--------------------------- MODULE MotionSessions ---------------------------
(***************************************************************************)
(* The transports of the Pi motion daemon and its life from start to       *)
(* parking: the TCP server with its one authenticated session              *)
(* (src/motion/middleware_server.py), the local socket whose clients may   *)
(* share a ticket (src/motion/local_control.py), and the shutdown.         *)
(*                                                                         *)
(* All coroutines of the daemon share one event loop, so an action is what *)
(* a coroutine does between two awaits.  The owner thread of the motion    *)
(* controller runs beside the loop; of it only what it does to tickets is  *)
(* kept here (MotionController models it), on the ledger of tickets.       *)
(*                                                                         *)
(* A line is read and handled in one step.  Its errors are one event:      *)
(* whether a bad line ends the connection (a wrong token, the third error  *)
(* in a row) or not is chosen freely.                                      *)
(***************************************************************************)
EXTENDS TicketLedger

CONSTANTS
  Remote,      \* connections there may be to the TCP server at a time
  Local,       \* and to the local socket
  NoConn,
  PendingMax   \* unanswered requests a connection may have (64 in the code)

Conn == Remote \cup Local

SideOf(c) == IF c \in Remote THEN "remote" ELSE "local"

ASSUME SessionAssumption ==
  /\ Remote \cap Local = {}
  /\ NoConn \notin Conn
  /\ PendingMax \in Nat \ {0}
  /\ \A r \in Menu : r.origin \in {"remote", "local"}

VARIABLES
  \* the connections
  conn,         \* none, accepted (handler not yet run), open, closing
  auth,         \* remote connections that have authenticated
  session,      \* _owner: the connection that owns the TCP server
  cancelled,    \* connections whose handler close() has cancelled
  reply,        \* the forward() tasks of each connection, at most PendingMax
  holders,      \* _ticket_holders: how many local forwards hold a ticket
  \* the controller
  ledger,
  invalidated,  \* queued tickets that are skipped when their turn comes
  disconnect,   \* the remote client went away
  stopped,      \* _stop_event
  thread,       \* the owner thread
  \* the daemon
  serve,        \* where _serve() is
  listening     \* listeners that are open

connVars == <<conn, auth, session, cancelled, reply, holders>>
ctrlVars == <<ledger, invalidated, disconnect, stopped, thread>>
mainVars == <<serve, listening>>
vars     == <<connVars, ctrlVars, mainVars>>

Slot == 1 .. PendingMax

NoForward == [t |-> NoTicket, stage |-> "done"]

\* A forward waits for the acceptance or for the second, terminal result; it
\* holds its ticket until the first.
Forward == [t : Ticket, stage : {"wait", "second"}] \cup {NoForward}

TypeOK ==
  /\ conn \in [Conn -> {"none", "accepted", "open", "closing"}]
  /\ auth \subseteq Remote /\ session \in Remote \cup {NoConn}
  /\ cancelled \subseteq Conn
  /\ reply \in [Conn -> [Slot -> Forward]]
  /\ holders \in [Ticket -> Nat]
  /\ ledger \in Ledger
  /\ invalidated \subseteq Ticket
  /\ disconnect \in BOOLEAN /\ stopped \in BOOLEAN
  /\ thread \in {"unstarted", "running", "ended"}
  /\ serve \in {"starting", "tcpUp", "running", "joining", "closingTcp",
                "closingLocal", "parked", "killed"}
  /\ listening \subseteq {"remote", "local"}

Init ==
  /\ conn = [c \in Conn |-> "none"] /\ auth = {} /\ session = NoConn
  /\ cancelled = {}
  /\ reply = [c \in Conn |-> [i \in Slot |-> NoForward]] /\ holders = [t \in Ticket |-> 0]
  /\ ledger = EmptyLedger /\ invalidated = {}
  /\ disconnect = FALSE /\ stopped = FALSE /\ thread = "unstarted"
  /\ serve = "starting" /\ listening = {}

\* owner.join() blocks the event loop; afterwards the process has ended.
LoopRuns == serve \notin {"joining", "parked", "killed"}

-----------------------------------------------------------------------------
(* The controller's side of a ticket.                                      *)

\* A terminal result: that there is one matters here, not which.
Result == CHOOSE s \in Terminal : TRUE

NextTicket == Cardinality(Created(ledger)) + 1

\* The same request again, from the same side: the ticket it already has.
SubmitKnown(r, t) ==
  /\ t \in Known(ledger, r.id) /\ ledger.req[t].origin = r.origin
  /\ ledger' = IF ledger.recent[t] > 0
                 THEN [ledger EXCEPT !.recent = Remember(@, {t})] ELSE ledger

\* A ticket that fails at once: its id belongs to the other side, the
\* controller has stopped, or its queue is full.
SubmitRefused(r, t) ==
  /\ t = NextTicket /\ t \in Ticket
  /\ \/ /\ \E u \in Known(ledger, r.id) : ledger.req[u].origin # r.origin
        /\ ledger' = Finished([ledger EXCEPT !.req[t] = r], {t}, Result)
     \/ /\ Known(ledger, r.id) = {}
        /\ ledger' = Finished(Opened(ledger, t, r), {t}, Result)

SubmitAdmitted(r, t) ==
  /\ t = NextTicket /\ t \in Ticket
  /\ Known(ledger, r.id) = {} /\ ~stopped
  /\ ledger' = Opened(ledger, t, r)

Submit(r, t) == SubmitKnown(r, t) \/ SubmitRefused(r, t) \/ SubmitAdmitted(r, t)

Unstarted(t) ==
  /\ ledger.req[t].origin = "local"
  /\ t \in ledger.pending
  /\ ledger.req[t].id \notin ledger.started
  /\ ledger.ack[t] = "none"

ThreadOnly == UNCHANGED <<connVars, stopped, mainVars>>

\* Fault: only what the owner has begun is cancelled.
SafeDisconnectBegun ==
  /\ thread = "running" /\ disconnect
  /\ disconnect' = FALSE
  /\ ledger' = Finished(ledger,
                 {t \in ledger.pending : ledger.req[t].id \in ledger.started}, Result)
  /\ invalidated' = {}
  /\ UNCHANGED thread /\ ThreadOnly

\* The loss of the remote client cancels everything in the mailbox.
SafeDisconnect ==
  /\ thread = "running" /\ disconnect
  /\ disconnect' = FALSE
  /\ ledger' = Finished(ledger, ledger.pending, Result)
  /\ invalidated' = {}
  /\ UNCHANGED thread /\ ThreadOnly

\* _begin() claims a ticket, or skips one whose client has left.
Begin(t) ==
  /\ thread = "running"
  /\ \/ /\ t \in invalidated
        /\ invalidated' = invalidated \ {t} /\ UNCHANGED ledger
     \/ /\ t \in ledger.pending /\ ledger.req[t].id \notin ledger.started
        /\ ledger' = [ledger EXCEPT !.started = @ \cup {ledger.req[t].id}]
        /\ UNCHANGED invalidated
  /\ UNCHANGED <<disconnect, thread>> /\ ThreadOnly

\* A command in progress is accepted, then ends; tracking is never begun.
Progress(t) ==
  /\ thread = "running"
  /\ t \in ledger.pending
  /\ ledger.req[t].id \in ledger.started \/ ledger.req[t].origin = "remote"
  /\ \/ ledger' = Accepted(ledger, t)
     \/ ledger' = Finished(ledger, {t}, Result)
  /\ UNCHANGED <<invalidated, disconnect, thread>> /\ ThreadOnly

\* The loop ends after a stop or on an exception and answers everything.
ThreadEnds ==
  /\ thread = "running"
  /\ thread' = "ended" /\ stopped' = TRUE
  /\ ledger' = Finished(ledger, ledger.pending, Result)
  /\ invalidated' = {}
  /\ UNCHANGED <<disconnect, connVars, mainVars>>

OwnerThread ==
  \/ SafeDisconnect
  \/ \E t \in Ticket : Begin(t) \/ Progress(t)
  \/ ThreadEnds

-----------------------------------------------------------------------------
(* One connection.                                                         *)

\* A client connects: the handler is a task that has not run yet.
Connect(c) ==
  /\ LoopRuns /\ conn[c] = "none" /\ SideOf(c) \in listening
  /\ conn' = [conn EXCEPT ![c] = "accepted"]
  /\ UNCHANGED <<auth, session, cancelled, reply, holders, ctrlVars, mainVars>>

Handle(c) ==
  /\ LoopRuns /\ conn[c] = "accepted"
  /\ conn' = [conn EXCEPT ![c] = "open"]
  /\ UNCHANGED <<auth, session, cancelled, reply, holders, ctrlVars, mainVars>>

Reading(c) == LoopRuns /\ conn[c] = "open" /\ c \notin cancelled

Free(c) == {i \in Slot : reply[c][i] = NoForward}

\* Fault: a connection that was refused gives up the ownership of another.
EndOfAny(c) ==
  /\ conn' = [conn EXCEPT ![c] = "closing"]
  /\ IF c \in Remote THEN disconnect' = TRUE /\ session' = NoConn
                     ELSE UNCHANGED <<disconnect, session>>

(* The handler leaves its loop.  If it owned the server it reports the     *)
(* loss and gives up the ownership before it unwinds.                      *)
EndOf(c) ==
  /\ conn' = [conn EXCEPT ![c] = "closing"]
  /\ IF c \in auth THEN disconnect' = TRUE /\ session' = NoConn
                   ELSE UNCHANGED <<disconnect, session>>

(* The end of the stream, a heartbeat deadline that passed, a line that    *)
(* ends the connection, or a cancellation.                                 *)
EndSession(c) ==
  /\ LoopRuns /\ conn[c] = "open"
  /\ EndOf(c)
  /\ UNCHANGED <<auth, cancelled, reply, holders,
                 ledger, invalidated, stopped, thread, mainVars>>

\* A second remote client: refused, and its handler ends.
Refuse(c) ==
  /\ Reading(c) /\ c \in Remote \ auth /\ session # NoConn
  /\ EndOf(c)
  /\ UNCHANGED <<auth, cancelled, reply, holders,
                 ledger, invalidated, stopped, thread, mainVars>>

(* A good request.  The first one of a remote connection makes it the      *)
(* owner, before the number of pending replies is looked at.               *)
Request(c, r, t) ==
  /\ Reading(c) /\ r.origin = SideOf(c)
  /\ c \in Remote \ auth => session = NoConn
  /\ Submit(r, t)
  /\ \E i \in Free(c) : reply' = [reply EXCEPT ![c][i] = [t |-> t, stage |-> "wait"]]
  /\ IF c \in Remote
       THEN /\ auth' = auth \cup {c} /\ session' = c
            /\ UNCHANGED holders
       ELSE /\ holders' = [holders EXCEPT ![t] = @ + 1]
            /\ UNCHANGED <<auth, session>>
  /\ UNCHANGED <<conn, cancelled, invalidated, disconnect, stopped, thread, mainVars>>

TooManyPending(c) ==
  /\ Reading(c)
  /\ Free(c) = {}
  /\ EndOf(c)
  /\ UNCHANGED <<auth, cancelled, reply, holders,
                 ledger, invalidated, stopped, thread, mainVars>>

\* Fault: the first holder that leaves takes the ticket with it.
ReleaseFirst(c, i) ==
  LET f == reply[c][i] IN
  IF c \in Local /\ f.stage = "wait"
    THEN /\ holders' = [holders EXCEPT ![f.t] = @ - 1]
         /\ IF Unstarted(f.t)
              THEN /\ ledger' = Finished(ledger, {f.t}, Result)
                   /\ invalidated' = invalidated \cup {f.t}
              ELSE UNCHANGED <<ledger, invalidated>>
    ELSE UNCHANGED <<holders, ledger, invalidated>>

\* Fault: the last holder leaves and the controller is not told.
ReleaseSilently(c, i) ==
  LET f == reply[c][i] IN
  /\ holders' = IF c \in Local /\ f.stage = "wait" THEN [holders EXCEPT ![f.t] = @ - 1] ELSE holders
  /\ UNCHANGED <<ledger, invalidated>>

(* The forward gives up its hold; the last one to do so invalidates the    *)
(* ticket, which has an effect only while the owner has not begun it.      *)
Release(c, i) ==
  LET f == reply[c][i] IN
  IF c \in Local /\ f.stage = "wait"
    THEN /\ holders' = [holders EXCEPT ![f.t] = @ - 1]
         /\ IF holders[f.t] = 1 /\ Unstarted(f.t)
              THEN /\ ledger' = Finished(ledger, {f.t}, Result)
                   /\ invalidated' = invalidated \cup {f.t}
              ELSE UNCHANGED <<ledger, invalidated>>
    ELSE UNCHANGED <<holders, ledger, invalidated>>

Drops(c, i) == reply' = [reply EXCEPT ![c][i] = NoForward]

Answered(f) == (f.stage = "wait" /\ ledger.ack[f.t] # "none")
                 \/ (f.stage = "second" /\ ledger.done[f.t] # "none")

(* forward() wakes up with a result and sends it.  The hold ends with the  *)
(* first result.  (A send that fails closes the writer: the handler sees   *)
(* the end of the stream, which EndSession may be at any time.)            *)
ForwardResult(c, i) ==
  /\ LoopRuns /\ conn[c] = "open" /\ Answered(reply[c][i])
  /\ Release(c, i)
  /\ IF reply[c][i].stage = "wait" /\ ledger.ack[reply[c][i].t] = "accepted"
       THEN reply' = [reply EXCEPT ![c][i].stage = "second"]
       ELSE Drops(c, i)
  /\ UNCHANGED <<conn, auth, session, cancelled, disconnect, stopped, thread, mainVars>>

\* The handler that ends cancels its forwards, which end one by one.
CancelForward(c, i) ==
  /\ LoopRuns /\ conn[c] = "closing" /\ i \notin Free(c)
  /\ Release(c, i) /\ Drops(c, i)
  /\ UNCHANGED <<conn, auth, session, cancelled, disconnect, stopped, thread, mainVars>>

Close(c) ==
  /\ LoopRuns /\ conn[c] = "closing" /\ Free(c) = Slot
  /\ conn' = [conn EXCEPT ![c] = "none"]
  /\ auth' = auth \ {c} /\ cancelled' = cancelled \ {c}
  /\ UNCHANGED <<session, reply, holders, ctrlVars, mainVars>>

Unwind(c) == \/ \E i \in Slot : CancelForward(c, i)
             \/ Close(c)

Connection(c) ==
  \/ Connect(c) \/ Handle(c)
  \/ EndSession(c) \/ Refuse(c) \/ TooManyPending(c)
  \/ \E r \in Menu, t \in Ticket : Request(c, r, t)
  \/ \E i \in Slot : ForwardResult(c, i)
  \/ Unwind(c)

-----------------------------------------------------------------------------
(* _serve(): start, wait, and shut down in an order that can end.          *)

StartTcp ==
  /\ serve = "starting"
  /\ serve' = "tcpUp" /\ listening' = {"remote"}
  /\ UNCHANGED <<connVars, ctrlVars>>

\* Both listeners are up before the owner takes its first step.
StartLocal ==
  /\ serve = "tcpUp"
  /\ serve' = "running" /\ listening' = listening \cup {"local"}
  /\ thread' = "running"
  /\ UNCHANGED <<connVars, ledger, invalidated, disconnect, stopped>>

(* A signal, a listener that cannot be opened or fails, or the end of the  *)
(* owner thread.  stop() and join() follow without an await.               *)
StopAndJoin ==
  /\ serve \in {"starting", "tcpUp", "running"}
  /\ serve' = "joining" /\ stopped' = TRUE
  /\ \/ UNCHANGED listening
     \/ serve = "tcpUp" /\ listening' = listening \cup {"local"}
  /\ UNCHANGED <<connVars, ledger, invalidated, disconnect, thread>>

LiveOf(side) == {c \in Conn : SideOf(c) = side /\ conn[c] \in {"open", "closing"}}

AllClosed(side) == \A c \in Conn : SideOf(c) = side => conn[c] = "none"

\* Fault: the handlers are not cancelled before they are waited for.
CloseTcpWaits ==
  /\ serve = "joining" /\ thread # "running"
  /\ serve' = "closingTcp" /\ listening' = listening \ {"remote"}
  /\ UNCHANGED <<cancelled, conn, auth, session, reply, holders, ctrlVars>>

\* Fault: the owner is not waited for.
CloseTcpUnjoined ==
  /\ serve = "joining"
  /\ serve' = "closingTcp" /\ listening' = listening \ {"remote"}
  /\ cancelled' = cancelled \cup LiveOf("remote")
  /\ UNCHANGED <<conn, auth, session, reply, holders, ctrlVars>>

\* The listener closes and every handler that has begun is cancelled.
CloseTcp ==
  /\ serve = "joining" /\ thread # "running"
  /\ serve' = "closingTcp" /\ listening' = listening \ {"remote"}
  /\ cancelled' = cancelled \cup LiveOf("remote")
  /\ UNCHANGED <<conn, auth, session, reply, holders, ctrlVars>>

\* wait_closed() waits for every connection, cancelled or not.
CloseLocal ==
  /\ serve = "closingTcp" /\ AllClosed("remote")
  /\ serve' = "closingLocal" /\ listening' = listening \ {"local"}
  /\ cancelled' = cancelled \cup LiveOf("local")
  /\ UNCHANGED <<conn, auth, session, reply, holders, ctrlVars>>

Park ==
  /\ serve = "closingLocal" /\ AllClosed("local")
  /\ serve' = "parked"
  /\ UNCHANGED <<connVars, ctrlVars, listening>>

\* The deadline of 15 s: the process dies wherever it is, without parking.
Kill ==
  /\ serve \in {"joining", "closingTcp", "closingLocal"}
  /\ serve' = "killed" /\ listening' = {} /\ thread' = "ended"
  /\ conn' = [c \in Conn |-> "none"] /\ auth' = {} /\ session' = NoConn
  /\ cancelled' = {}
  /\ reply' = [c \in Conn |-> [i \in Slot |-> NoForward]]
  /\ holders' = [t \in Ticket |-> 0]
  /\ ledger' = EmptyLedger /\ invalidated' = {}
  /\ disconnect' = FALSE /\ UNCHANGED stopped

Shutdown == CloseTcp \/ CloseLocal \/ Park

Daemon == StartTcp \/ StartLocal \/ StopAndJoin \/ Shutdown \/ Kill

Next == Daemon \/ OwnerThread \/ \E c \in Conn : Connection(c)

Spec == Init /\ [][Next]_vars

(* The loop serves every coroutine that can run, the owner thread ends     *)
(* after a stop, a local client leaves within its response timeout         *)
(* (src/device/motion_client.py).  Nothing makes a remote client leave and *)
(* nothing relies on the deadline.                                         *)
FairSpec ==
  /\ Spec
  /\ WF_vars(Shutdown) /\ WF_vars(stopped /\ ThreadEnds)
  /\ \A c \in Conn :
       /\ WF_vars(Handle(c)) /\ WF_vars(Unwind(c))
       /\ WF_vars(c \in cancelled /\ EndSession(c))
  /\ \A c \in Local : WF_vars(EndSession(c))
=============================================================================
