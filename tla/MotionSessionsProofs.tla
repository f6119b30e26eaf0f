------------------------- MODULE MotionSessionsProofs -------------------------
(***************************************************************************)
(* Theorems of MotionSessions, for every set of connections, every number  *)
(* of tickets and of pending replies and every menu of requests.           *)
(***************************************************************************)
EXTENDS MotionSessionsProperties, TicketLedgerProofs

-----------------------------------------------------------------------------
(* Types.  The counts of holders are left to the invariant that says what  *)
(* they count.                                                             *)

Shape ==
  /\ conn \in [Conn -> {"none", "accepted", "open", "closing"}]
  /\ auth \subseteq Remote /\ session \in Remote \cup {NoConn}
  /\ cancelled \subseteq Conn
  /\ reply \in [Conn -> [Slot -> Forward]]
  /\ ledger \in Ledger /\ Books(ledger)
  /\ invalidated \subseteq Ticket
  /\ disconnect \in BOOLEAN /\ stopped \in BOOLEAN
  /\ thread \in {"unstarted", "running", "ended"}
  /\ serve \in {"starting", "tcpUp", "running", "joining", "closingTcp",
                "closingLocal", "parked", "killed"}
  /\ listening \subseteq {"remote", "local"}

LEMMA ResultType == Result \in Terminal
<1>1. \E s \in Terminal : TRUE
  BY DEF Terminal
<1>. QED
  BY <1>1 DEF Result

LEMMA Sides ==
  /\ Remote \subseteq Conn /\ Local \subseteq Conn /\ NoConn \notin Conn
  /\ \A c \in Conn : c \in Remote <=> SideOf(c) = "remote"
  /\ \A c \in Conn : c \in Local <=> SideOf(c) = "local"
  BY SessionAssumption DEF Conn, SideOf

(* A request that is submitted gives a ticket that exists, of the side it  *)
(* came from; no other ticket loses its result or its claim.               *)
LEMMA SubmitEffects ==
  ASSUME ledger \in Ledger, Books(ledger), NEW r \in Menu, NEW t \in Ticket,
         Submit(r, t)
  PROVE  /\ ledger' \in Ledger /\ Books(ledger')
         /\ t \in Created(ledger') /\ Created(ledger') = Created(ledger) \cup {t}
         /\ ledger'.req[t].origin = r.origin
         /\ \A u \in Created(ledger) :
              /\ ledger'.req[u] = ledger.req[u]
              /\ ledger'.ack[u] = ledger.ack[u]
         /\ ledger.pending \subseteq ledger'.pending
         /\ ledger'.pending \subseteq ledger.pending \cup {t}
         /\ stopped => ledger'.pending = ledger.pending
         /\ \A u \in ledger.pending :
              ledger.req[u].id \in ledger'.started <=> ledger.req[u].id \in ledger.started
<1> USE ResultType
<1>0. NextTicket = Fresh(ledger) /\ Created(ledger) \subseteq Ticket
  BY DEF NextTicket, Fresh, Created
<1>1. CASE SubmitKnown(r, t)
  <2>1. t \in Created(ledger) /\ ledger.req[t].origin = r.origin
    BY <1>1 DEF SubmitKnown, Known
  <2>2. Remember(ledger.recent, {t}) \in [Ticket -> 0 .. RecentMax]
    BY RememberType DEF Ledger
  <2>3. /\ ledger' \in Ledger /\ ledger'.req = ledger.req /\ ledger'.ack = ledger.ack
        /\ ledger'.done = ledger.done /\ ledger'.pending = ledger.pending
        /\ ledger'.started = ledger.started
    BY <1>1, <2>2 DEF SubmitKnown, Ledger
  <2>4. Books(ledger') /\ Created(ledger') = Created(ledger)
    BY <2>3, SameBooks DEF Created
  <2>. QED
    BY <2>1, <2>3, <2>4
<1>2. CASE SubmitRefused(r, t)
  <2>1. t = Fresh(ledger) /\ t \notin Created(ledger)
    BY <1>0, <1>2, FreshTicket DEF SubmitRefused
  <2>2. CASE ledger' = Finished([ledger EXCEPT !.req[t] = r], {t}, Result)
    <3>1. /\ ledger' \in Ledger /\ Books(ledger') /\ Created(ledger') = Created(ledger) \cup {t}
          /\ ledger'.req = [ledger.req EXCEPT ![t] = r]
          /\ ledger'.pending = ledger.pending /\ ledger'.started = ledger.started
          /\ \A u \in Ticket \ {t} : ledger'.ack[u] = ledger.ack[u]
      <4>1. ledger' = Finished(Entered(ledger, t, r), {t}, Result)
        BY <2>2 DEF Entered
      <4>2. RefusedIn(ledger, Finished(Entered(ledger, t, r), {t}, Result), t, r)
        BY <2>1, RefusedBooks
      <4>3. RefusedIn(ledger, ledger', t, r)
        BY <4>1, <4>2, Zenon
      <4>. QED
        BY <4>3 DEF RefusedIn
    <3>2. /\ ledger'.req[t] = r
          /\ \A u \in Created(ledger) : ledger'.req[u] = ledger.req[u]
      BY <1>0, <2>1, <3>1 DEF Ledger
    <3>. QED
      BY <1>0, <2>1, <3>1, <3>2
  <2>3. CASE /\ Known(ledger, r.id) = {}
             /\ ledger' = Finished(Opened(ledger, t, r), {t}, Result)
    <3> DEFINE b == Opened(ledger, t, r)
    <3>1. /\ b \in Ledger /\ Books(b) /\ Created(b) = Created(ledger) \cup {t}
          /\ b.req = [ledger.req EXCEPT ![t] = r]
          /\ b.pending = ledger.pending \cup {t}
          /\ b.ack = ledger.ack /\ b.started = ledger.started
      BY <2>1, <2>3, OpenedBooks
    <3>2. b.req[t] = r /\ \A u \in Created(ledger) : b.req[u] = ledger.req[u]
      BY <1>0, <2>1, <3>1 DEF Ledger
    <3>3. t \notin ledger.pending /\ ledger.pending \subseteq Created(ledger)
      BY <2>1 DEF Books
    <3> HIDE DEF b
    <3>4. /\ ledger' \in Ledger /\ ledger'.req = b.req /\ Created(ledger') = Created(b)
          /\ ledger'.pending = b.pending \ {t}
          /\ \A u \in Ticket :
               ledger'.ack[u] = IF u \in {t} /\ b.ack[u] = "none" THEN Result ELSE b.ack[u]
      BY <2>3, <3>1, FinishedFields DEF b
    <3>5. {t} \cap Ticket \subseteq Created(b)
      BY <3>1
    <3>6. Books(ledger')
      BY <2>3, <3>1, <3>5, FinishedBooks DEF b
    <3>7. ASSUME NEW u \in ledger.pending
          PROVE  ledger.req[u].id \in ledger'.started <=> ledger.req[u].id \in ledger.started
      <4>1. u \in b.pending /\ u \notin {t}
        BY <3>1, <3>3
      <4>2. b.req[u].id \in ledger'.started <=> b.req[u].id \in b.started
        BY <2>3, <3>1, <4>1, FinishedClaims DEF b
      <4>. QED
        BY <3>1, <3>2, <3>3, <4>2
    <3>8. \A u \in Created(ledger) : ledger'.ack[u] = ledger.ack[u]
      BY <1>0, <2>1, <3>1, <3>4
    <3>. QED
      BY <3>1, <3>2, <3>3, <3>4, <3>6, <3>7, <3>8
  <2>. QED
    BY <1>2, <2>2, <2>3 DEF SubmitRefused
<1>3. CASE SubmitAdmitted(r, t)
  <2>1. /\ t = Fresh(ledger) /\ t \notin Created(ledger) /\ ~stopped
        /\ Known(ledger, r.id) = {} /\ ledger' = Opened(ledger, t, r)
    BY <1>0, <1>3, FreshTicket DEF SubmitAdmitted
  <2>2. /\ ledger' \in Ledger /\ Books(ledger') /\ Created(ledger') = Created(ledger) \cup {t}
        /\ ledger'.req = [ledger.req EXCEPT ![t] = r]
        /\ ledger'.pending = ledger.pending \cup {t}
        /\ ledger'.ack = ledger.ack /\ ledger'.started = ledger.started
    BY <2>1, OpenedBooks
  <2>3. ledger'.req[t] = r /\ \A u \in Created(ledger) : ledger'.req[u] = ledger.req[u]
    BY <1>0, <2>1, <2>2 DEF Ledger
  <2>. QED
    BY <2>1, <2>2, <2>3
<1>. QED
  BY <1>1, <1>2, <1>3 DEF Submit

(* What Release() may do to the ledger, and what the owner thread does.    *)
LEMMA ReleaseEffects ==
  ASSUME Shape, NEW c \in Conn, NEW i \in Slot, Release(c, i)
  PROVE  /\ ledger' \in Ledger /\ Books(ledger')
         /\ invalidated' \subseteq Ticket
         /\ ledger'.pending \subseteq ledger.pending
<1>1. CASE ledger' = ledger /\ invalidated' = invalidated
  BY <1>1 DEF Shape
<1>2. CASE /\ Unstarted(reply[c][i].t)
           /\ ledger' = Finished(ledger, {reply[c][i].t}, Result)
           /\ invalidated' = invalidated \cup {reply[c][i].t}
  <2> DEFINE t == reply[c][i].t
  <2>1. t \in ledger.pending /\ t \in Created(ledger) /\ t \in Ticket
    BY <1>2 DEF Unstarted, Shape, Books, Created
  <2> HIDE DEF t
  <2>2. ledger \in Ledger /\ Books(ledger)
    BY DEF Shape
  <2>3. /\ ledger' \in Ledger /\ Books(ledger')
        /\ ledger'.pending = ledger.pending \ {t}
    BY <1>2, <2>1, <2>2, ResultType, FinishedFields, FinishedBooks DEF t
  <2>. QED
    BY <1>2, <2>1, <2>3 DEF Shape, t
<1>. QED
  BY <1>1, <1>2 DEF Release

LEMMA OwnerEffects ==
  ASSUME Shape, OwnerThread
  PROVE  /\ ledger' \in Ledger /\ Books(ledger')
         /\ invalidated' \subseteq Ticket /\ disconnect' \in BOOLEAN
         /\ ledger'.pending \subseteq ledger.pending
         /\ ledger'.req = ledger.req
         /\ thread = "running" /\ UNCHANGED <<connVars, mainVars>>
         /\ \/ ThreadEnds
            \/ UNCHANGED <<stopped, thread>>
<1> USE ResultType
<1>1. /\ ledger \in Ledger /\ Books(ledger) /\ ledger.pending \subseteq Created(ledger)
      /\ Created(ledger) \subseteq Ticket
  BY DEF Shape, Books, Created
<1>2. ASSUME NEW S \in SUBSET ledger.pending
      PROVE  /\ Finished(ledger, S, Result) \in Ledger
             /\ Books(Finished(ledger, S, Result))
             /\ Finished(ledger, S, Result).pending \subseteq ledger.pending
             /\ Finished(ledger, S, Result).req = ledger.req
  <2>1. S \cap Ticket \subseteq Created(ledger)
    BY <1>1
  <2>. QED
    BY <1>1, <2>1, FinishedFields, FinishedBooks
<1>3. CASE SafeDisconnect
  BY <1>2, <1>3 DEF SafeDisconnect, ThreadOnly
<1>4. ASSUME NEW t \in Ticket, Begin(t)
      PROVE  /\ ledger' \in Ledger /\ Books(ledger') /\ ledger'.pending = ledger.pending
             /\ ledger'.req = ledger.req
             /\ invalidated' \subseteq Ticket
  <2>1. ledger' = ledger \/ ledger' = [ledger EXCEPT !.started = @ \cup {ledger.req[t].id}]
    BY <1>4 DEF Begin
  <2>2. CASE ledger' = ledger
    BY <1>1, <1>4, <2>2 DEF Begin, Shape
  <2>3. CASE /\ t \in ledger.pending
             /\ ledger' = [ledger EXCEPT !.started = @ \cup {ledger.req[t].id}]
    <3>1. ledger.req[t].id \in Id
      BY <1>1, <2>3, LedgerAssumption DEF Created, Ledger
    <3>2. /\ ledger' \in Ledger /\ ledger'.req = ledger.req /\ ledger'.ack = ledger.ack
          /\ ledger'.done = ledger.done /\ ledger'.pending = ledger.pending
      BY <1>1, <2>3, <3>1 DEF Ledger
    <3>3. Books(ledger')
      BY <1>1, <3>2, SameBooks
    <3>. QED
      BY <1>4, <3>2, <3>3 DEF Begin, Shape
  <2>. QED
    BY <1>4, <2>2, <2>3 DEF Begin
<1>5. ASSUME NEW t \in Ticket, Progress(t)
      PROVE  /\ ledger' \in Ledger /\ Books(ledger') /\ ledger'.pending \subseteq ledger.pending
             /\ ledger'.req = ledger.req
  <2>1. t \in ledger.pending /\ t \in Created(ledger)
    BY <1>1, <1>5 DEF Progress
  <2>2. CASE ledger' = Accepted(ledger, t)
    BY <1>1, <2>1, <2>2, AcceptedFields, AcceptedBooks
  <2>3. CASE ledger' = Finished(ledger, {t}, Result)
    <3>1. {t} \in SUBSET ledger.pending
      BY <2>1
    <3>. QED
      BY <1>2, <2>3, <3>1
  <2>. QED
    BY <1>5, <2>2, <2>3 DEF Progress
<1>6. CASE ThreadEnds
  BY <1>2, <1>6 DEF ThreadEnds, Shape
<1>7. ASSUME NEW t \in Ticket, Begin(t) \/ Progress(t)
      PROVE  /\ thread = "running" /\ UNCHANGED <<connVars, mainVars, stopped, thread, disconnect>>
             /\ disconnect \in BOOLEAN
             /\ Progress(t) => UNCHANGED invalidated
  BY <1>7 DEF Begin, Progress, ThreadOnly, Shape
<1>8. invalidated \subseteq Ticket
  BY DEF Shape
<1>9. ASSUME NEW t \in Ticket, Begin(t) \/ Progress(t)
      PROVE  /\ ledger' \in Ledger /\ Books(ledger')
             /\ invalidated' \subseteq Ticket /\ disconnect' \in BOOLEAN
             /\ ledger'.pending \subseteq ledger.pending /\ ledger'.req = ledger.req
             /\ thread = "running" /\ UNCHANGED <<connVars, mainVars, stopped, thread>>
  BY <1>4, <1>5, <1>7, <1>8, <1>9
<1>. QED
  BY <1>3, <1>6, <1>9 DEF OwnerThread

(* What a connection waits for, after one of its replies has changed.      *)
LEMMA ReplyChanges ==
  ASSUME NEW R \in [Conn -> [Slot -> Forward]], NEW c \in Conn, NEW i \in Slot,
         NEW f \in Forward
  PROVE  /\ [R EXCEPT ![c][i] = f] \in [Conn -> [Slot -> Forward]]
         /\ \A d \in Conn, j \in Slot :
              [R EXCEPT ![c][i] = f][d][j] = IF d = c /\ j = i THEN f ELSE R[d][j]
  OBVIOUS

LEMMA Forwards ==
  /\ NoForward \in Forward
  /\ \A t \in Ticket : [t |-> t, stage |-> "wait"] \in Forward
  /\ \A f \in Forward : f.stage \in {"wait", "second"} => f.t \in Ticket
  /\ \A f \in Forward : f.stage = "done" => f = NoForward
  /\ \A f \in Forward : f.stage = "wait" => f = [t |-> f.t, stage |-> "wait"]
  BY DEF Forward, NoForward

(* A reply gives way to the second one or to none.                         *)
LEMMA ResultChanges ==
  ASSUME Shape, NEW c \in Conn, NEW i \in Slot, ForwardResult(c, i)
  PROVE  \E f \in Forward :
           /\ reply' = [reply EXCEPT ![c][i] = f]
           /\ \/ f = NoForward
              \/ /\ f = [t |-> reply[c][i].t, stage |-> "second"]
                 /\ reply[c][i].stage = "wait" /\ ledger.ack[reply[c][i].t] = "accepted"
<1> DEFINE g == reply[c][i]
<1>1. reply \in [Conn -> [Slot -> Forward]] /\ g \in Forward
  BY DEF Shape
<1>2. CASE g.stage = "wait" /\ ledger.ack[g.t] = "accepted"
  <2>1. reply' = [reply EXCEPT ![c][i].stage = "second"]
    BY <1>2 DEF ForwardResult
  <2> DEFINE f == [t |-> g.t, stage |-> "second"]
  <2>2. g = [t |-> g.t, stage |-> "wait"] /\ f \in Forward
    BY <1>1, <1>2 DEF Forward, NoForward
  <2>3. [g EXCEPT !.stage = "second"] = f
    BY <2>2
  <2>4. reply' = [reply EXCEPT ![c][i] = f]
    BY <1>1, <2>1, <2>3
  <2>. QED
    BY <1>2, <2>2, <2>4
<1>3. CASE ~(g.stage = "wait" /\ ledger.ack[g.t] = "accepted")
  <2>1. reply' = [reply EXCEPT ![c][i] = NoForward]
    BY <1>3 DEF ForwardResult, Drops
  <2>. QED
    BY <2>1, Forwards
<1>. QED
  BY <1>2, <1>3

(* What a connection does to the rest of the daemon.                       *)
ConnectionFrame(c) ==
  /\ UNCHANGED <<stopped, thread, mainVars>>
  /\ stopped => ledger'.pending \subseteq ledger.pending
  /\ \A d \in Conn \ {c} : conn'[d] = conn[d]
  /\ conn[c] = "none" => SideOf(c) \in listening

LEMMA StepEnds ==
  ASSUME Shape, NEW c \in Conn, EndSession(c) \/ Refuse(c) \/ TooManyPending(c)
  PROVE  Shape' /\ ConnectionFrame(c)
<1>1. /\ conn[c] = "open" /\ EndOf(c)
      /\ UNCHANGED <<auth, cancelled, reply, holders, ledger, invalidated, stopped,
                     thread, mainVars>>
  BY DEF EndSession, Refuse, TooManyPending, Reading
<1>2. conn' = [conn EXCEPT ![c] = "closing"]
  BY <1>1 DEF EndOf
<1>3. disconnect' \in BOOLEAN /\ session' \in Remote \cup {NoConn}
  <2>1. disconnect' = TRUE \/ disconnect' = disconnect
    BY <1>1 DEF EndOf
  <2>2. disconnect \in BOOLEAN
    BY DEF Shape
  <2>3. disconnect' \in BOOLEAN
    BY <2>1, <2>2, Zenon
  <2>. QED
    BY <1>1, <2>3 DEF EndOf, Shape
<1>4. Shape'
  BY <1>1, <1>2, <1>3 DEF Shape, mainVars
<1>. QED
  BY <1>1, <1>2, <1>4 DEF ConnectionFrame, Shape

LEMMA StepConnect ==
  ASSUME Shape, NEW c \in Conn, Connect(c) \/ Handle(c)
  PROVE  Shape' /\ ConnectionFrame(c)
<1>1. /\ conn' = [conn EXCEPT ![c] = "accepted"] \/ conn' = [conn EXCEPT ![c] = "open"]
      /\ conn[c] = "none" => SideOf(c) \in listening
      /\ UNCHANGED <<auth, session, cancelled, reply, holders, ctrlVars, mainVars>>
  BY DEF Connect, Handle
<1>2. conn' \in [Conn -> {"none", "accepted", "open", "closing"}]
  BY <1>1 DEF Shape
<1>3. Shape'
  BY <1>1, <1>2 DEF Shape, ctrlVars, mainVars
<1>. QED
  BY <1>1, <1>3 DEF ConnectionFrame, ctrlVars, Shape

LEMMA StepRequest ==
  ASSUME Shape, NEW c \in Conn, NEW r \in Menu, NEW t \in Ticket, Request(c, r, t)
  PROVE  Shape' /\ ConnectionFrame(c)
<1>1. /\ ledger' \in Ledger /\ Books(ledger')
      /\ stopped => ledger'.pending = ledger.pending
  BY SubmitEffects DEF Request, Shape
<1>2. reply' \in [Conn -> [Slot -> Forward]]
  <2>1. PICK i \in Free(c) : reply' = [reply EXCEPT ![c][i] = [t |-> t, stage |-> "wait"]]
    BY DEF Request
  <2>2. i \in Slot /\ [t |-> t, stage |-> "wait"] \in Forward
    BY Forwards DEF Free
  <2>3. reply \in [Conn -> [Slot -> Forward]]
    BY DEF Shape
  <2>. QED
    BY <2>1, <2>2, <2>3, ReplyChanges
<1>3. auth' \subseteq Remote /\ session' \in Remote \cup {NoConn}
  BY DEF Request, Shape
<1>4. /\ conn[c] = "open"
      /\ UNCHANGED <<conn, cancelled, invalidated, disconnect, stopped, thread, mainVars>>
  BY DEF Request, Reading
<1>5. Shape'
  BY <1>1, <1>2, <1>3, <1>4 DEF Shape, mainVars
<1>. QED
  BY <1>1, <1>4, <1>5 DEF ConnectionFrame

LEMMA StepReplies ==
  ASSUME Shape, NEW c \in Conn, NEW i \in Slot, ForwardResult(c, i) \/ CancelForward(c, i)
  PROVE  Shape' /\ ConnectionFrame(c)
<1>1. /\ Release(c, i) /\ conn[c] # "none"
      /\ UNCHANGED <<conn, auth, session, cancelled, disconnect, stopped, thread, mainVars>>
  BY DEF ForwardResult, CancelForward
<1>2. /\ ledger' \in Ledger /\ Books(ledger') /\ invalidated' \subseteq Ticket
      /\ ledger'.pending \subseteq ledger.pending
  BY <1>1, ReleaseEffects
<1>3. reply' \in [Conn -> [Slot -> Forward]]
  <2>1. \E f \in Forward : reply' = [reply EXCEPT ![c][i] = f]
    BY ResultChanges, Forwards DEF CancelForward, Drops
  <2>. QED
    BY <2>1, ReplyChanges DEF Shape
<1>4. Shape'
  BY <1>1, <1>2, <1>3 DEF Shape, mainVars
<1>. QED
  BY <1>1, <1>2, <1>4 DEF ConnectionFrame

LEMMA StepClose ==
  ASSUME Shape, NEW c \in Conn, Close(c)
  PROVE  Shape' /\ ConnectionFrame(c)
<1>1. /\ conn[c] = "closing" /\ conn' = [conn EXCEPT ![c] = "none"]
      /\ auth' \subseteq auth /\ cancelled' \subseteq cancelled
      /\ UNCHANGED <<session, reply, holders, ctrlVars, mainVars>>
  BY DEF Close
<1>2. Shape'
  BY <1>1 DEF Shape, ctrlVars, mainVars
<1>. QED
  BY <1>1, <1>2 DEF ConnectionFrame, ctrlVars, Shape

LEMMA StepConnection ==
  ASSUME Shape, NEW c \in Conn, Connection(c)
  PROVE  Shape' /\ ConnectionFrame(c)
  BY StepEnds, StepConnect, StepRequest, StepReplies, StepClose, Zenon
     DEF Connection, Unwind

LEMMA StepDaemon ==
  ASSUME Shape, Daemon
  PROVE  Shape'
<1>1. CASE Kill
  <2>1. EmptyLedger \in Ledger /\ Books(EmptyLedger)
    BY EmptyBooks
  <2>2. /\ ledger' \in Ledger /\ Books(ledger')
        /\ conn' \in [Conn -> {"none", "accepted", "open", "closing"}]
        /\ auth' \subseteq Remote /\ session' \in Remote \cup {NoConn}
        /\ cancelled' \subseteq Conn /\ invalidated' \subseteq Ticket
        /\ thread' = "ended" /\ serve' = "killed" /\ listening' = {}
    BY <1>1, <2>1 DEF Kill
  <2>3. reply' \in [Conn -> [Slot -> Forward]]
    BY <1>1, Forwards DEF Kill
  <2>4. disconnect' \in BOOLEAN /\ stopped' \in BOOLEAN
    BY <1>1, Zenon DEF Kill, Shape
  <2>. QED
    BY <2>2, <2>3, <2>4 DEF Shape
<1>2. CASE StopAndJoin
  <2>1. stopped' \in BOOLEAN
    BY <1>2, Zenon DEF StopAndJoin
  <2>. QED
    BY <1>2, <2>1 DEF StopAndJoin, Shape, connVars
<1>3. CASE StartTcp \/ StartLocal
  BY <1>3 DEF StartTcp, StartLocal, Shape, connVars, ctrlVars
<1>4. CASE Shutdown
  <2>1. \A side : LiveOf(side) \subseteq Conn
    BY DEF LiveOf
  <2>2. cancelled' \subseteq Conn
    BY <1>4, <2>1 DEF Shutdown, CloseTcp, CloseLocal, Park, connVars, Shape
  <2>. QED
    BY <1>4, <2>2 DEF Shutdown, CloseTcp, CloseLocal, Park, connVars, ctrlVars, Shape
<1>. QED
  BY <1>1, <1>2, <1>3, <1>4 DEF Daemon

LEMMA StepOwner ==
  ASSUME Shape, OwnerThread
  PROVE  Shape'
<1>1. /\ ledger' \in Ledger /\ Books(ledger')
      /\ invalidated' \subseteq Ticket /\ disconnect' \in BOOLEAN
      /\ UNCHANGED <<connVars, mainVars>>
      /\ \/ ThreadEnds
         \/ UNCHANGED <<stopped, thread>>
  BY OwnerEffects
<1>2. stopped' \in BOOLEAN /\ thread' \in {"unstarted", "running", "ended"}
  <2>1. CASE ThreadEnds
    BY <2>1, Zenon DEF ThreadEnds
  <2>2. CASE UNCHANGED <<stopped, thread>>
    BY <2>2 DEF Shape
  <2>. QED
    BY <1>1, <2>1, <2>2
<1>. QED
  BY <1>1, <1>2 DEF Shape, connVars, mainVars

LEMMA StepShape == Shape /\ [Next]_vars => Shape'
<1>1. ASSUME Shape, UNCHANGED vars
      PROVE  Shape'
  BY <1>1 DEF Shape, vars, connVars, ctrlVars, mainVars
<1>. QED
  BY <1>1, StepConnection, StepDaemon, StepOwner DEF Next

LEMMA InitShape == Init => Shape
<1>1. ASSUME Init
      PROVE  /\ ledger \in Ledger /\ Books(ledger)
             /\ reply \in [Conn -> [Slot -> Forward]]
  BY <1>1, EmptyBooks, Forwards DEF Init
<1>2. Init => disconnect \in BOOLEAN /\ stopped \in BOOLEAN
  BY Zenon DEF Init
<1>. QED
  BY <1>1, <1>2 DEF Init, Shape

LEMMA Shaped == Spec => []Shape
  BY InitShape, StepShape, PTL DEF Spec

-----------------------------------------------------------------------------
(* The owner of the TCP server.                                            *)

(* An authenticated handler has begun and has not returned, and the owner  *)
(* is the authenticated handler that still reads.                          *)
OwnerInv ==
  /\ \A c \in auth : conn[c] \in {"open", "closing"}
  /\ \A c \in auth : conn[c] = "open" => session = c
  /\ session # NoConn => session \in auth /\ conn[session] = "open"

LEMMA EndsOwner ==
  ASSUME Shape, OwnerInv, NEW c \in Conn, EndOf(c), conn[c] = "open", auth' = auth
  PROVE  OwnerInv'
<1>1. conn' = [conn EXCEPT ![c] = "closing"] /\ auth \subseteq Conn
  BY Sides DEF EndOf, Shape
<1>2. /\ conn'[c] = "closing"
      /\ \A d \in Conn \ {c} : conn'[d] = conn[d]
  BY <1>1 DEF Shape
<1>3. CASE c \in auth
  <2>1. session = c /\ session' = NoConn
    BY <1>3 DEF EndOf, OwnerInv
  <2>. QED
    BY <1>1, <1>2, <2>1 DEF OwnerInv
<1>4. CASE c \notin auth
  <2>1. session' = session
    BY <1>4 DEF EndOf
  <2>. QED
    BY <1>1, <1>2, <1>4, <2>1 DEF OwnerInv
<1>. QED
  BY <1>3, <1>4

LEMMA ConnectionOwner ==
  ASSUME Shape, OwnerInv, NEW c \in Conn, Connection(c)
  PROVE  OwnerInv'
<1>1. auth \subseteq Conn /\ NoConn \notin Conn
  BY Sides DEF Shape
<1>2. CASE EndSession(c) \/ Refuse(c) \/ TooManyPending(c)
  BY <1>2, EndsOwner DEF EndSession, Refuse, TooManyPending, Reading
<1>3. CASE Connect(c) \/ Handle(c)
  <2>1. conn[c] \in {"none", "accepted"} /\ UNCHANGED <<auth, session>>
    BY <1>3 DEF Connect, Handle
  <2>2. \A d \in Conn \ {c} : conn'[d] = conn[d]
    BY <1>3 DEF Connect, Handle, Shape
  <2>3. c \notin auth
    BY <2>1 DEF OwnerInv
  <2>. QED
    BY <1>1, <2>1, <2>2, <2>3 DEF OwnerInv
<1>4. ASSUME NEW r \in Menu, NEW t \in Ticket, Request(c, r, t)
      PROVE  OwnerInv'
  <2>1. conn[c] = "open" /\ conn' = conn /\ (c \in Remote \ auth => session = NoConn)
    BY <1>4 DEF Request, Reading
  <2>2. CASE c \in Remote
    <3>1. auth' = auth \cup {c} /\ session' = c
      BY <1>4, <2>2 DEF Request
    <3>. QED
      BY <1>1, <2>1, <2>2, <3>1 DEF OwnerInv
  <2>3. CASE c \notin Remote
    BY <1>4, <2>1, <2>3 DEF Request, OwnerInv
  <2>. QED
    BY <2>2, <2>3
<1>5. ASSUME NEW i \in Slot, ForwardResult(c, i) \/ CancelForward(c, i)
      PROVE  OwnerInv'
  BY <1>5 DEF ForwardResult, CancelForward, OwnerInv
<1>6. CASE Close(c)
  <2>1. conn[c] = "closing" /\ auth' = auth \ {c} /\ session' = session
    BY <1>6 DEF Close
  <2>2. \A d \in Conn \ {c} : conn'[d] = conn[d]
    BY <1>6 DEF Close, Shape
  <2>. QED
    BY <1>1, <2>1, <2>2 DEF OwnerInv
<1>. QED
  BY <1>2, <1>3, <1>4, <1>5, <1>6 DEF Connection, Unwind

LEMMA StepOwnerInv == Shape /\ OwnerInv /\ [Next]_vars => OwnerInv'
<1>1. ASSUME OwnerInv, UNCHANGED <<conn, auth, session>>
      PROVE  OwnerInv'
  BY <1>1 DEF OwnerInv
<1>2. ASSUME Shape, OwnerInv, OwnerThread
      PROVE  OwnerInv'
  <2>1. UNCHANGED <<conn, auth, session>>
    BY <1>2, OwnerEffects DEF connVars
  <2>. QED
    BY <1>1, <1>2, <2>1
<1>3. ASSUME Shape, OwnerInv, Daemon
      PROVE  OwnerInv'
  <2>1. CASE Kill
    BY <2>1 DEF Kill, OwnerInv
  <2>2. CASE ~Kill
    <3>1. UNCHANGED <<conn, auth, session>>
      BY <1>3, <2>2 DEF Daemon, StartTcp, StartLocal, StopAndJoin, Shutdown, CloseTcp,
         CloseLocal, Park, connVars
    <3>. QED
      BY <1>1, <1>3, <3>1
  <2>. QED
    BY <2>1, <2>2
<1>4. ASSUME OwnerInv, UNCHANGED vars
      PROVE  OwnerInv'
  BY <1>1, <1>4 DEF vars, connVars
<1>. QED
  BY <1>2, <1>3, <1>4, ConnectionOwner DEF Next

(* A second remote client is refused, whatever moment it comes and however *)
(* slowly the handler before it unwinds (_handle, middleware_server.py     *)
(* 134-159).                                                               *)
THEOREM OneOwner == Spec => []SoleOwner
<1>1. Init => OwnerInv
  BY DEF Init, OwnerInv
<1>2. OwnerInv => SoleOwner
  BY DEF OwnerInv, SoleOwner
<1>. QED
  BY <1>1, <1>2, StepOwnerInv, Shaped, PTL DEF Spec

-----------------------------------------------------------------------------
(* The shutdown.                                                           *)

(* What each stage of the shutdown leaves behind: the stop, the thread, no *)
(* listener and at last no connection.  A thread that has ended answered   *)
(* everything, and nothing is admitted any more.                           *)
ShutInv ==
  /\ serve \in {"starting", "tcpUp"} => thread = "unstarted"
  /\ serve \notin {"starting", "tcpUp", "running"} => stopped
  /\ serve \in {"closingTcp", "closingLocal", "parked", "killed"} =>
       thread # "running" /\ "remote" \notin listening
  /\ serve \in {"closingLocal", "parked", "killed"} =>
       "local" \notin listening /\ AllClosed("remote")
  /\ serve \in {"parked", "killed"} => AllClosed("local")
  /\ thread = "ended" => stopped /\ ledger.pending = {}

LEMMA ConnectionShut ==
  ASSUME Shape, ShutInv, NEW c \in Conn, ConnectionFrame(c)
  PROVE  ShutInv'
<1>1. /\ UNCHANGED <<stopped, thread, serve, listening>>
      /\ stopped => ledger'.pending \subseteq ledger.pending
      /\ \A d \in Conn \ {c} : conn'[d] = conn[d]
      /\ conn[c] = "none" => SideOf(c) \in listening
  BY DEF ConnectionFrame, mainVars
<1>2. ASSUME NEW side, AllClosed(side), side \notin listening
      PROVE  AllClosed(side)'
  BY <1>1, <1>2 DEF AllClosed
<1>. QED
  BY <1>1, <1>2 DEF ShutInv

LEMMA StepShutInv == Shape /\ ShutInv /\ [Next]_vars => ShutInv'
<1>1. ASSUME Shape, ShutInv, NEW c \in Conn, Connection(c)
      PROVE  ShutInv'
  BY <1>1, StepConnection, ConnectionShut
<1>2. ASSUME Shape, ShutInv, OwnerThread
      PROVE  ShutInv'
  <2>1. /\ ledger'.pending \subseteq ledger.pending /\ thread = "running"
        /\ UNCHANGED <<conn, serve, listening>>
        /\ ThreadEnds \/ UNCHANGED <<stopped, thread>>
    BY <1>2, OwnerEffects DEF connVars, mainVars
  <2>2. CASE ThreadEnds
    <3>1. thread' = "ended" /\ stopped' = TRUE /\ ledger' = Finished(ledger, ledger.pending, Result)
      BY <2>2 DEF ThreadEnds
    <3>2. ledger'.pending = ledger.pending \ ledger.pending
      BY <1>2, <3>1, ResultType, FinishedFields DEF Shape
    <3>3. ledger'.pending = {}
      BY <3>2
    <3>4. stopped'
      BY <3>1, Zenon
    <3>. QED
      BY <1>2, <2>1, <3>1, <3>3, <3>4 DEF ShutInv, AllClosed
  <2>3. CASE UNCHANGED <<stopped, thread>>
    BY <1>2, <2>1, <2>3 DEF ShutInv, AllClosed
  <2>. QED
    BY <2>1, <2>2, <2>3
<1>3. ASSUME Shape, ShutInv, Daemon
      PROVE  ShutInv'
  <2>1. CASE StartTcp \/ StartLocal
    BY <1>3, <2>1 DEF StartTcp, StartLocal, ShutInv, AllClosed, connVars, ctrlVars
  <2>2. CASE StopAndJoin
    <3>1. stopped'
      BY <2>2, Zenon DEF StopAndJoin
    <3>. QED
      BY <1>3, <2>2, <3>1 DEF StopAndJoin, ShutInv, AllClosed, connVars
  <2>3. CASE CloseTcp
    BY <1>3, <2>3 DEF CloseTcp, ShutInv, AllClosed, ctrlVars
  <2>4. CASE CloseLocal
    BY <1>3, <2>4 DEF CloseLocal, ShutInv, AllClosed, ctrlVars
  <2>5. CASE Park
    BY <1>3, <2>5 DEF Park, ShutInv, AllClosed, connVars, ctrlVars
  <2>6. CASE Kill
    <3>1. AllClosed("remote")' /\ AllClosed("local")'
      BY <2>6 DEF Kill, AllClosed
    <3>2. ledger'.pending = {} /\ stopped' = stopped
      BY <2>6 DEF Kill, EmptyLedger
    <3>. QED
      BY <1>3, <2>6, <3>1, <3>2 DEF Kill, ShutInv
  <2>. QED
    BY <1>3, <2>1, <2>2, <2>3, <2>4, <2>5, <2>6 DEF Daemon, Shutdown
<1>4. ASSUME ShutInv, UNCHANGED vars
      PROVE  ShutInv'
  BY <1>4 DEF ShutInv, AllClosed, vars, connVars, ctrlVars, mainVars
<1>. QED
  BY <1>1, <1>2, <1>3, <1>4 DEF Next

(* The order of the shutdown: the arm is parked by the last one who can    *)
(* move it (_serve, middleware_server.py 227-263).                         *)
THEOREM ParkingIsLast == Spec => []ParkedIsStill
<1>1. Init => ShutInv
  BY DEF Init, ShutInv
<1>2. ShutInv => ParkedIsStill
  BY Sides DEF ShutInv, AllClosed, ParkedIsStill, SideOf
<1>. QED
  BY <1>1, <1>2, StepShutInv, Shaped, PTL DEF Spec

-----------------------------------------------------------------------------
(* A session that was lost.                                                *)

Awaited(t) == \E c \in Remote, i \in Slot : conn[c] = "open" /\ reply[c][i].t = t

(* Only an authenticated connection has replies to wait for.  Until the    *)
(* owner has ended - before its first step, too - a remote command in      *)
(* flight is awaited, or the loss of its session has yet to be dealt with. *)
LostInv ==
  /\ \A c \in Remote \ auth, i \in Slot : reply[c][i] = NoForward
  /\ \A t \in ledger.pending :
       ledger.req[t].origin = "remote" /\ thread # "ended" => disconnect \/ Awaited(t)

(* An answered reply is of a ticket that is no longer in flight, or it is  *)
(* the acceptance, after which the same ticket is still asked for.         *)
LEMMA AnsweredEnds ==
  ASSUME Shape, NEW f \in Forward, Answered(f)
  PROVE  /\ f.stage \in {"wait", "second"}
         /\ (f.stage = "wait" /\ ledger.ack[f.t] = "accepted") \/ f.t \notin ledger.pending
<1>1. f.stage \in {"wait", "second"} /\ f.t \in Ticket
  BY Forwards DEF Answered
<1>2. ledger.ack[f.t] \in {"none", "accepted"} \cup Terminal
  BY <1>1 DEF Shape, Ledger
<1>3. ASSUME f.t \in ledger.pending
      PROVE  f.t \in Created(ledger) /\ ledger.done[f.t] = "none"
  BY <1>3 DEF Shape, Books
<1>4. ASSUME f.t \in ledger.pending
      PROVE  ledger.ack[f.t] \notin Terminal
  BY <1>3, <1>4 DEF Shape, Books
<1>. QED
  BY <1>1, <1>2, <1>3, <1>4 DEF Answered

LEMMA ConnectionLost ==
  ASSUME Shape, Shape', OwnerInv, LostInv, NEW c \in Conn, Connection(c)
  PROVE  LostInv'
<1>1. /\ Remote \subseteq Conn /\ auth \subseteq Remote
      /\ reply \in [Conn -> [Slot -> Forward]]
      /\ conn \in [Conn -> {"none", "accepted", "open", "closing"}]
      /\ ledger \in Ledger /\ Books(ledger)
  BY Sides DEF Shape
<1>2. /\ 0 \notin Ticket /\ NoForward.t \notin Ticket /\ NoForward.stage = "done"
      /\ ledger.pending \subseteq Created(ledger) /\ Created(ledger) \subseteq Ticket
  BY <1>1 DEF Ticket, NoForward, NoTicket, Books, Created
<1>3. CASE EndSession(c) \/ Refuse(c) \/ TooManyPending(c)
  <2>1. EndOf(c) /\ UNCHANGED <<auth, reply, ledger, thread>>
    BY <1>3 DEF EndSession, Refuse, TooManyPending
  <2>2. \A d \in Conn \ {c} : conn'[d] = conn[d]
    BY <1>1, <2>1 DEF EndOf
  <2>3. c \in auth => disconnect'
    BY <2>1, Zenon DEF EndOf
  <2>4. c \notin auth => disconnect' = disconnect
    BY <2>1 DEF EndOf
  <2>5. ASSUME NEW t \in ledger.pending, Awaited(t), c \notin auth
        PROVE  Awaited(t)'
    <3>1. PICK d \in Remote, i \in Slot : conn[d] = "open" /\ reply[d][i].t = t
      BY <2>5 DEF Awaited
    <3>2. d # c
      BY <1>2, <2>5, <3>1 DEF LostInv
    <3>. QED
      BY <1>1, <2>1, <2>2, <3>1, <3>2 DEF Awaited
  <2>. QED
    BY <2>1, <2>3, <2>4, <2>5 DEF LostInv
<1>4. CASE Connect(c) \/ Handle(c)
  <2>1. /\ conn[c] # "open" /\ UNCHANGED <<auth, reply, ledger, thread, disconnect>>
        /\ \A d \in Conn \ {c} : conn'[d] = conn[d]
    BY <1>1, <1>4 DEF Connect, Handle, ctrlVars
  <2>2. \A t : Awaited(t) => Awaited(t)'
    BY <1>1, <2>1 DEF Awaited
  <2>. QED
    BY <2>1, <2>2 DEF LostInv
<1>5. ASSUME NEW r \in Menu, NEW t \in Ticket, Request(c, r, t)
      PROVE  LostInv'
  <2>1. /\ conn[c] = "open" /\ r.origin = SideOf(c) /\ Submit(r, t)
        /\ UNCHANGED <<conn, disconnect, thread>>
        /\ auth' = IF c \in Remote THEN auth \cup {c} ELSE auth
    BY <1>5 DEF Request, Reading
  <2>2. PICK i \in Free(c) : reply' = [reply EXCEPT ![c][i] = [t |-> t, stage |-> "wait"]]
    BY <1>5 DEF Request
  <2>3. i \in Slot /\ reply[c][i] = NoForward
    BY DEF Free
  <2>4. \A d \in Conn, j \in Slot :
          reply'[d][j] = IF d = c /\ j = i THEN [t |-> t, stage |-> "wait"] ELSE reply[d][j]
    BY <1>1, <2>2, <2>3, ReplyChanges, Forwards
  <2>5. /\ ledger'.req[t].origin = r.origin
        /\ \A u \in Created(ledger) : ledger'.req[u] = ledger.req[u]
        /\ ledger'.pending \subseteq ledger.pending \cup {t}
    BY <1>1, <2>1, SubmitEffects
  <2>6. \A d \in Remote \ auth', j \in Slot : reply'[d][j] = NoForward
    BY <1>1, <2>1, <2>4 DEF LostInv
  <2>7. ASSUME NEW u \in ledger.pending, Awaited(u)
        PROVE  Awaited(u)'
    <3>1. PICK d \in Remote, j \in Slot : conn[d] = "open" /\ reply[d][j].t = u
      BY <2>7 DEF Awaited
    <3>2. ~(d = c /\ j = i)
      BY <1>2, <2>3, <3>1
    <3>3. reply'[d][j] = reply[d][j]
      BY <1>1, <2>4, <3>2
    <3>. QED
      BY <2>1, <3>1, <3>3 DEF Awaited
  <2>8. ASSUME ledger'.req[t].origin = "remote"
        PROVE  Awaited(t)'
    <3>1. c \in Remote
      BY <2>1, <2>5, <2>8, Sides
    <3>2. reply'[c][i].t = t
      BY <2>3, <2>4
    <3>. QED
      BY <2>1, <2>3, <3>1, <3>2 DEF Awaited
  <2>. QED
    BY <1>2, <2>1, <2>5, <2>6, <2>7, <2>8 DEF LostInv
<1>6. ASSUME NEW i \in Slot, ForwardResult(c, i) \/ CancelForward(c, i)
      PROVE  LostInv'
  <2>1. /\ UNCHANGED <<conn, auth, disconnect, thread>> /\ Release(c, i)
        /\ conn[c] \in {"open", "closing"}
    BY <1>6 DEF ForwardResult, CancelForward
  <2>2. ledger'.pending \subseteq ledger.pending /\ ledger'.req = ledger.req
    <3>1. \/ ledger' = ledger
          \/ ledger' = Finished(ledger, {reply[c][i].t}, Result)
      BY <2>1 DEF Release
    <3>. QED
      BY <1>1, <3>1, ResultType, FinishedFields
  <2>3. reply[c][i] # NoForward /\ reply[c][i] \in Forward
    BY <1>1, <1>2, <1>6, AnsweredEnds DEF ForwardResult, CancelForward, Free
  <2>4. c \in Remote => c \in auth
    BY <2>3 DEF LostInv
  <2>5. PICK f \in Forward :
          /\ reply' = [reply EXCEPT ![c][i] = f]
          /\ conn[c] = "open" => f.t = reply[c][i].t \/ reply[c][i].t \notin ledger.pending
    <3>1. CASE ForwardResult(c, i)
      <4>1. PICK f \in Forward :
              /\ reply' = [reply EXCEPT ![c][i] = f]
              /\ \/ f = NoForward
                 \/ f = [t |-> reply[c][i].t, stage |-> "second"]
        BY <3>1, ResultChanges
      <4>2. CASE f = NoForward
        <5>1. Answered(reply[c][i])
          BY <3>1 DEF ForwardResult
        <5>2. ASSUME reply[c][i].stage = "wait", ledger.ack[reply[c][i].t] = "accepted"
              PROVE  FALSE
          <6>1. reply' = [reply EXCEPT ![c][i].stage = "second"]
            BY <3>1, <5>2 DEF ForwardResult
          <6>2. reply'[c][i].stage = "second"
            BY <1>1, <2>3, <5>2, <6>1 DEF Forward, NoForward
          <6>3. reply'[c][i] = NoForward
            BY <1>1, <4>1, <4>2
          <6>. QED
            BY <1>2, <6>2, <6>3
        <5>3. reply[c][i].t \notin ledger.pending
          BY <2>3, <5>1, <5>2, AnsweredEnds
        <5>. QED
          BY <4>1, <5>3
      <4>3. CASE f = [t |-> reply[c][i].t, stage |-> "second"]
        BY <4>1, <4>3
      <4>. QED
        BY <4>1, <4>2, <4>3
    <3>2. CASE CancelForward(c, i)
      BY <3>2, Forwards DEF CancelForward, Drops
    <3>. QED
      BY <1>6, <3>1, <3>2
  <2>6. \A d \in Conn, j \in Slot :
          reply'[d][j] = IF d = c /\ j = i THEN f ELSE reply[d][j]
    BY <1>1, <2>5, ReplyChanges
  <2>7. \A d \in Remote \ auth', j \in Slot : reply'[d][j] = NoForward
    BY <1>1, <2>1, <2>4, <2>6 DEF LostInv
  <2>8. ASSUME NEW u \in ledger.pending, Awaited(u)
        PROVE  Awaited(u)'
    <3>1. PICK d \in Remote, j \in Slot : conn[d] = "open" /\ reply[d][j].t = u
      BY <2>8 DEF Awaited
    <3>2. reply'[d][j].t = u
      BY <1>1, <2>5, <2>6, <3>1
    <3>. QED
      BY <2>1, <3>1, <3>2 DEF Awaited
  <2>. QED
    BY <2>1, <2>2, <2>7, <2>8 DEF LostInv
<1>7. CASE Close(c)
  <2>1. /\ conn[c] = "closing" /\ Free(c) = Slot /\ auth' = auth \ {c}
        /\ UNCHANGED <<reply, ledger, thread, disconnect>>
        /\ \A d \in Conn \ {c} : conn'[d] = conn[d]
    BY <1>1, <1>7 DEF Close, ctrlVars
  <2>2. \A i \in Slot : reply[c][i] = NoForward
    BY <2>1 DEF Free
  <2>3. \A t : Awaited(t) => Awaited(t)'
    BY <1>1, <2>1 DEF Awaited
  <2>. QED
    BY <2>1, <2>2, <2>3 DEF LostInv
<1>. QED
  BY <1>3, <1>4, <1>5, <1>6, <1>7 DEF Connection, Unwind

LEMMA StepLostInv == Shape /\ Shape' /\ OwnerInv /\ ShutInv /\ LostInv /\ [Next]_vars => LostInv'
<1>1. ASSUME LostInv, UNCHANGED <<conn, auth, reply, ledger, disconnect>>,
             thread = "ended" => thread' = "ended"
      PROVE  LostInv'
  BY <1>1 DEF LostInv, Awaited
<1>2. ASSUME Shape, LostInv, OwnerThread
      PROVE  LostInv'
  <2>1. /\ ledger'.pending \subseteq ledger.pending /\ ledger'.req = ledger.req
        /\ thread = "running" /\ UNCHANGED <<conn, auth, reply>>
    BY <1>2, OwnerEffects DEF connVars
  <2>2. CASE SafeDisconnect
    <3>1. ledger'.pending = ledger.pending \ ledger.pending
      BY <1>2, <2>2, ResultType, FinishedFields DEF SafeDisconnect, Shape
    <3>. QED
      BY <1>2, <2>1, <3>1 DEF LostInv
  <2>3. CASE ~SafeDisconnect
    <3>1. disconnect' = disconnect
      BY <1>2, <2>3 DEF OwnerThread, Begin, Progress, ThreadEnds
    <3>. QED
      BY <1>2, <2>1, <3>1 DEF LostInv, Awaited
  <2>. QED
    BY <2>2, <2>3
<1>3. ASSUME ShutInv, LostInv, Daemon
      PROVE  LostInv'
  <2>1. CASE Kill
    <3>1. reply' = [c \in Conn |-> [i \in Slot |-> NoForward]] /\ ledger'.pending = {}
      BY <2>1 DEF Kill, EmptyLedger
    <3>. QED
      BY <3>1, Sides DEF LostInv
  <2>2. CASE ~Kill
    <3>1. UNCHANGED <<conn, auth, reply, ledger, disconnect>>
      BY <1>3, <2>2 DEF Daemon, StartTcp, StartLocal, StopAndJoin, Shutdown, CloseTcp,
         CloseLocal, Park, connVars, ctrlVars
    <3>2. thread = "ended" => thread' = "ended"
      BY <1>3, <2>2 DEF Daemon, StartTcp, StartLocal, StopAndJoin, Shutdown, CloseTcp,
         CloseLocal, Park, ctrlVars, ShutInv
    <3>. QED
      BY <1>1, <1>3, <3>1, <3>2
  <2>. QED
    BY <2>1, <2>2
<1>4. ASSUME LostInv, UNCHANGED vars
      PROVE  LostInv'
  BY <1>1, <1>4 DEF vars, connVars, ctrlVars
<1>. QED
  BY <1>2, <1>3, <1>4, ConnectionLost DEF Next

(* The loss of a session is reported before the next one may begin, and    *)
(* no command of the lost one outlives the owner's next tick (_handle,     *)
(* middleware_server.py 156-159).                                          *)
THEOREM NothingOutlivesItsSession == Spec => []LostSessionLeavesNothing
<1>1. Init => OwnerInv /\ ShutInv /\ LostInv
  BY Sides DEF Init, OwnerInv, ShutInv, LostInv, EmptyLedger
<1>2. LostInv => LostSessionLeavesNothing
  BY DEF LostInv, LostSessionLeavesNothing, Awaited, Asks
<1>. QED
  BY <1>1, <1>2, StepOwnerInv, StepShutInv, StepLostInv, Shaped, PTL DEF Spec

-----------------------------------------------------------------------------
(* Who waits for a local command.                                          *)

\* The local replies that hold ticket t.
Waiting(t) ==
  {p \in Local \X Slot : reply[p[1]][p[2]] = [t |-> t, stage |-> "wait"]}

(* The count of holders is the number of replies that wait for the first   *)
(* result, and a local command that the owner has not begun has one.       *)
HoldInv ==
  /\ holders \in [Ticket -> Nat]
  /\ \A t \in Ticket : IsFiniteSet(Waiting(t)) /\ holders[t] = Cardinality(Waiting(t))
  /\ \A t \in Ticket : Unstarted(t) => Waiting(t) # {}

LEMMA WaitingChanges ==
  ASSUME Shape, NEW c \in Conn, NEW i \in Slot, NEW f \in Forward,
         reply' = [reply EXCEPT ![c][i] = f], NEW t \in Ticket
  PROVE  Waiting(t)' = IF c \in Local /\ f = [t |-> t, stage |-> "wait"]
                         THEN Waiting(t) \cup {<<c, i>>} ELSE Waiting(t) \ {<<c, i>>}
<1>1. \A d \in Conn, j \in Slot :
        reply'[d][j] = IF d = c /\ j = i THEN f ELSE reply[d][j]
  BY ReplyChanges DEF Shape
<1> DEFINE w == [t |-> t, stage |-> "wait"]
<1>2. Waiting(t)' = {p \in Local \X Slot : reply'[p[1]][p[2]] = w}
  BY DEF Waiting
<1>3. Waiting(t) = {p \in Local \X Slot : reply[p[1]][p[2]] = w}
  BY DEF Waiting
<1>4. \A p \in Local \X Slot :
        /\ p[1] \in Conn /\ p[2] \in Slot
        /\ (p[1] = c /\ p[2] = i) <=> p = <<c, i>>
        /\ reply'[p[1]][p[2]] = IF p = <<c, i>> THEN f ELSE reply[p[1]][p[2]]
  BY <1>1, Sides
<1>5. c \in Local <=> <<c, i>> \in Local \X Slot
  OBVIOUS
<1> HIDE DEF w
<1>. QED
  BY <1>2, <1>3, <1>4, <1>5 DEF w

LEMMA ConnectionHold ==
  ASSUME Shape, HoldInv, NEW c \in Conn, Connection(c)
  PROVE  HoldInv'
<1>1. ledger \in Ledger /\ Books(ledger) /\ reply \in [Conn -> [Slot -> Forward]]
  BY DEF Shape
<1>2. /\ ledger.pending \subseteq Created(ledger) /\ Created(ledger) \subseteq Ticket
      /\ \A t \in Ticket : [t |-> t, stage |-> "wait"] # NoForward
  BY <1>1 DEF Books, Created, NoForward
<1>3. ASSUME UNCHANGED <<reply, holders, ledger>>
      PROVE  HoldInv'
  BY <1>3 DEF HoldInv, Waiting, Unstarted
<1>4. CASE \/ EndSession(c) \/ Refuse(c) \/ TooManyPending(c)
           \/ Connect(c) \/ Handle(c) \/ Close(c)
  BY <1>3, <1>4 DEF EndSession, Refuse, TooManyPending, Connect, Handle, Close, ctrlVars
<1>5. ASSUME NEW r \in Menu, NEW t \in Ticket, Request(c, r, t)
      PROVE  HoldInv'
  <2>1. PICK i \in Free(c) : reply' = [reply EXCEPT ![c][i] = [t |-> t, stage |-> "wait"]]
    BY <1>5 DEF Request
  <2>2. /\ i \in Slot /\ reply[c][i] = NoForward
        /\ [t |-> t, stage |-> "wait"] \in Forward
    BY Forwards DEF Free
  <2>3. \A u \in Ticket : <<c, i>> \notin Waiting(u)
    BY <1>2, <2>2 DEF Waiting
  <2>4. ASSUME NEW u \in Ticket
        PROVE  Waiting(u)' = IF c \in Local /\ u = t THEN Waiting(u) \cup {<<c, i>>}
                                                     ELSE Waiting(u)
    <3>1. Waiting(u)' = IF c \in Local /\ [t |-> t, stage |-> "wait"] = [t |-> u, stage |-> "wait"]
                          THEN Waiting(u) \cup {<<c, i>>} ELSE Waiting(u) \ {<<c, i>>}
      BY <2>1, <2>2, WaitingChanges
    <3>2. [t |-> t, stage |-> "wait"] = [t |-> u, stage |-> "wait"] <=> u = t
      OBVIOUS
    <3>. QED
      BY <2>3, <3>1, <3>2
  <2>5. \A u \in Ticket : holders'[u] = IF c \in Local /\ u = t THEN holders[u] + 1
                                                               ELSE holders[u]
    BY <1>5, Sides, SessionAssumption DEF Request, HoldInv, Conn
  <2>6. holders' \in [Ticket -> Nat]
    BY <1>5 DEF Request, HoldInv
  <2>7. ASSUME NEW u \in Ticket
        PROVE  IsFiniteSet(Waiting(u)') /\ holders'[u] = Cardinality(Waiting(u)')
    <3>1. IsFiniteSet(Waiting(u)) /\ holders[u] = Cardinality(Waiting(u))
      BY DEF HoldInv
    <3>2. /\ IsFiniteSet(Waiting(u) \cup {<<c, i>>})
          /\ Cardinality(Waiting(u) \cup {<<c, i>>}) = Cardinality(Waiting(u)) + 1
      BY <2>3, <3>1, FS_AddElement
    <3>. QED
      BY <2>4, <2>5, <3>1, <3>2
  <2>8. /\ ledger'.req[t].origin = r.origin /\ r.origin = SideOf(c)
        /\ \A u \in Created(ledger) :
             ledger'.req[u] = ledger.req[u] /\ ledger'.ack[u] = ledger.ack[u]
        /\ ledger'.pending \subseteq ledger.pending \cup {t}
        /\ \A u \in ledger.pending :
             ledger.req[u].id \in ledger'.started <=> ledger.req[u].id \in ledger.started
    BY <1>1, <1>5, SubmitEffects DEF Request
  <2>9. ASSUME NEW u \in Ticket, Unstarted(u)'
        PROVE  Waiting(u)' # {}
    <3>1. CASE u = t
      <4>1. c \in Local
        BY <2>8, <2>9, <3>1, Sides DEF Unstarted
      <4>. QED
        BY <2>4, <3>1, <4>1
    <3>2. CASE u # t
      <4>1. Unstarted(u)
        BY <1>2, <2>8, <2>9, <3>2 DEF Unstarted
      <4>. QED
        BY <2>4, <3>2, <4>1 DEF HoldInv
    <3>. QED
      BY <3>1, <3>2
  <2>. QED
    BY <2>6, <2>7, <2>9 DEF HoldInv
<1>6. ASSUME NEW i \in Slot, ForwardResult(c, i) \/ CancelForward(c, i)
      PROVE  HoldInv'
  <2> DEFINE g == reply[c][i]
  <2>1. Release(c, i) /\ g \in Forward
    BY <1>1, <1>6 DEF ForwardResult, CancelForward
  <2>2. PICK f \in Forward : reply' = [reply EXCEPT ![c][i] = f] /\ f.stage # "wait"
    <3>1. CASE ForwardResult(c, i)
      BY <3>1, ResultChanges DEF NoForward
    <3>2. CASE CancelForward(c, i)
      BY <3>2, Forwards DEF CancelForward, Drops, NoForward
    <3>. QED
      BY <1>6, <3>1, <3>2
  <2>3. ASSUME NEW u \in Ticket
        PROVE  Waiting(u)' = Waiting(u) \ {<<c, i>>}
    <3>1. f # [t |-> u, stage |-> "wait"]
      BY <2>2
    <3>. QED
      BY <2>2, <3>1, WaitingChanges
  <2>4. CASE ~(c \in Local /\ g.stage = "wait")
    <3>1. UNCHANGED <<holders, ledger>>
      BY <2>1, <2>4 DEF Release
    <3>2. \A u \in Ticket : <<c, i>> \notin Waiting(u)
      BY <2>4 DEF Waiting
    <3>3. \A u \in Ticket : Waiting(u)' = Waiting(u)
      BY <2>3, <3>2
    <3>. QED
      BY <3>1, <3>3 DEF HoldInv, Unstarted
  <2>5. CASE c \in Local /\ g.stage = "wait"
    <3> DEFINE t == g.t
    <3>1. /\ g = [t |-> t, stage |-> "wait"] /\ t \in Ticket
          /\ holders' = [holders EXCEPT ![t] = @ - 1]
          /\ IF holders[t] = 1 /\ Unstarted(t)
               THEN ledger' = Finished(ledger, {t}, Result)
               ELSE ledger' = ledger
      BY <2>1, <2>5, Forwards DEF Release
    <3> HIDE DEF t
    <3>2. <<c, i>> \in Waiting(t) /\ \A u \in Ticket \ {t} : <<c, i>> \notin Waiting(u)
      BY <2>5, <3>1 DEF Waiting
    <3>3. /\ IsFiniteSet(Waiting(t) \ {<<c, i>>})
          /\ Cardinality(Waiting(t) \ {<<c, i>>}) = Cardinality(Waiting(t)) - 1
      BY <3>1, <3>2, FS_RemoveElement DEF HoldInv
    <3>4. Cardinality(Waiting(t) \ {<<c, i>>}) \in Nat
      BY <3>3, FS_CardinalityType
    <3>5. holders[t] = Cardinality(Waiting(t)) /\ holders[t] \in Nat
      BY <3>1 DEF HoldInv
    <3>6. holders' \in [Ticket -> Nat]
      BY <3>1, <3>3, <3>4, <3>5 DEF HoldInv
    <3>7. ASSUME NEW u \in Ticket
          PROVE  IsFiniteSet(Waiting(u)') /\ holders'[u] = Cardinality(Waiting(u)')
      <4>1. CASE u = t
        <5>1. holders'[t] = holders[t] - 1
          BY <3>1 DEF HoldInv
        <5>. QED
          BY <2>3, <3>1, <3>3, <3>5, <4>1, <5>1
      <4>2. CASE u # t
        <5>1. Waiting(u)' = Waiting(u)
          BY <2>3, <3>2, <4>2
        <5>2. holders'[u] = holders[u]
          BY <3>1, <4>2 DEF HoldInv
        <5>. QED
          BY <5>1, <5>2 DEF HoldInv
      <4>. QED
        BY <4>1, <4>2
    <3>8. ASSUME NEW u \in Ticket, Unstarted(u)'
          PROVE  Waiting(u)' # {}
      <4>1. CASE holders[t] = 1 /\ Unstarted(t)
        <5>1. /\ ledger' = Finished(ledger, {t}, Result)
              /\ ledger'.req = ledger.req /\ ledger'.pending = ledger.pending \ {t}
              /\ \A v \in Ticket :
                   ledger'.ack[v] = IF v \in {t} /\ ledger.ack[v] = "none" THEN Result
                                                                    ELSE ledger.ack[v]
          BY <1>1, <3>1, <4>1, ResultType, FinishedFields
        <5>2. u \in ledger.pending /\ u # t
          BY <3>8, <5>1 DEF Unstarted
        <5>3. ledger.req[u].id \in ledger'.started <=> ledger.req[u].id \in ledger.started
          BY <1>1, <5>1, <5>2, ResultType, FinishedClaims
        <5>4. Unstarted(u)
          BY <3>8, <5>1, <5>2, <5>3 DEF Unstarted
        <5>. QED
          BY <2>3, <3>2, <5>2, <5>4 DEF HoldInv
      <4>2. CASE ~(holders[t] = 1 /\ Unstarted(t))
        <5>1. ledger' = ledger
          BY <3>1, <4>2
        <5>2. Unstarted(u)
          BY <3>8, <5>1 DEF Unstarted
        <5>3. Waiting(u) # {}
          BY <5>2 DEF HoldInv
        <5>4. CASE u # t
          BY <2>3, <3>2, <5>3, <5>4
        <5>5. CASE u = t
          <6>1. holders[t] # 1
            BY <4>2, <5>2, <5>5
          <6>2. Cardinality(Waiting(t) \ {<<c, i>>}) # 0
            BY <3>3, <3>5, <6>1
          <6>3. Waiting(t) \ {<<c, i>>} # {}
            BY <6>2, FS_EmptySet
          <6>. QED
            BY <2>3, <3>1, <5>5, <6>3
        <5>. QED
          BY <5>4, <5>5
      <4>. QED
        BY <4>1, <4>2
    <3>. QED
      BY <3>6, <3>7, <3>8 DEF HoldInv
  <2>. QED
    BY <2>4, <2>5
<1>. QED
  BY <1>4, <1>5, <1>6 DEF Connection, Unwind

(* The owner thread begins or ends tickets, and never takes back a claim   *)
(* of one that stays.                                                      *)
LEMMA OwnerHold ==
  ASSUME Shape, HoldInv, OwnerThread
  PROVE  HoldInv'
<1>1. /\ ledger \in Ledger /\ Books(ledger) /\ Created(ledger) \subseteq Ticket
      /\ ledger.pending \subseteq Created(ledger)
  BY DEF Shape, Books, Created
<1>2. UNCHANGED <<reply, holders>>
  BY OwnerEffects DEF connVars
<1>3. ASSUME NEW S, ledger' = Finished(ledger, S, Result), NEW u \in Ticket, Unstarted(u)'
      PROVE  Unstarted(u)
  <2>1. /\ ledger'.req = ledger.req /\ ledger'.pending = ledger.pending \ S
        /\ \A v \in Ticket :
             ledger'.ack[v] = IF v \in S /\ ledger.ack[v] = "none" THEN Result ELSE ledger.ack[v]
    BY <1>1, <1>3, ResultType, FinishedFields
  <2>2. u \in ledger.pending /\ u \notin S
    BY <1>3, <2>1 DEF Unstarted
  <2>3. ledger.req[u].id \in ledger'.started <=> ledger.req[u].id \in ledger.started
    BY <1>1, <1>3, <2>2, ResultType, FinishedClaims
  <2>. QED
    BY <1>3, <2>1, <2>2, <2>3 DEF Unstarted
<1>4. ASSUME NEW t \in Ticket, ledger' = Accepted(ledger, t), NEW u \in Ticket, Unstarted(u)'
      PROVE  Unstarted(u)
  <2>1. /\ ledger'.req = ledger.req /\ ledger'.pending = ledger.pending
        /\ ledger'.started = ledger.started
        /\ \A v \in Ticket :
             ledger'.ack[v] = IF v = t /\ ledger.ack[v] = "none" THEN "accepted" ELSE ledger.ack[v]
    BY <1>1, <1>4, AcceptedFields
  <2>. QED
    BY <1>4, <2>1 DEF Unstarted
<1>5. ASSUME NEW t \in Ticket, Begin(t), NEW u \in Ticket, Unstarted(u)'
      PROVE  Unstarted(u)
  <2>1. \/ ledger' = ledger
        \/ ledger' = [ledger EXCEPT !.started = @ \cup {ledger.req[t].id}]
    BY <1>5 DEF Begin
  <2>. QED
    BY <1>1, <1>5, <2>1 DEF Unstarted, Ledger
<1>6. ASSUME NEW u \in Ticket, Unstarted(u)'
      PROVE  Unstarted(u)
  BY <1>3, <1>4, <1>5, <1>6 DEF OwnerThread, SafeDisconnect, Progress, ThreadEnds
<1>. QED
  BY <1>2, <1>6 DEF HoldInv, Waiting

LEMMA NobodyHolds ==
  ASSUME holders' = [t \in Ticket |-> 0], ledger' = EmptyLedger,
         reply' = [c \in Conn |-> [i \in Slot |-> NoForward]]
  PROVE  HoldInv'
<1>1. \A t \in Ticket : NoForward # [t |-> t, stage |-> "wait"]
  BY DEF NoForward
<1>2. \A t \in Ticket : Waiting(t)' = {}
  BY <1>1, Sides DEF Waiting
<1>3. IsFiniteSet({}) /\ Cardinality({}) = 0
  BY FS_EmptySet
<1>4. \A t \in Ticket : ~Unstarted(t)'
  BY DEF Unstarted, EmptyLedger
<1>. QED
  BY <1>2, <1>3, <1>4 DEF HoldInv

LEMMA StepHoldInv == Shape /\ HoldInv /\ [Next]_vars => HoldInv'
<1>1. ASSUME HoldInv, UNCHANGED <<reply, holders, ledger>>
      PROVE  HoldInv'
  BY <1>1 DEF HoldInv, Waiting, Unstarted
<1>2. ASSUME HoldInv, Daemon
      PROVE  HoldInv'
  <2>1. CASE Kill
    BY <2>1, NobodyHolds DEF Kill
  <2>2. CASE ~Kill
    BY <1>1, <1>2, <2>2 DEF Daemon, StartTcp, StartLocal, StopAndJoin, Shutdown, CloseTcp,
       CloseLocal, Park, connVars, ctrlVars
  <2>. QED
    BY <2>1, <2>2
<1>3. ASSUME HoldInv, UNCHANGED vars
      PROVE  HoldInv'
  BY <1>1, <1>3 DEF vars, connVars, ctrlVars
<1>. QED
  BY <1>2, <1>3, ConnectionHold, OwnerHold DEF Next

LEMMA InitHoldInv == Init => HoldInv
<1>1. ASSUME Init
      PROVE  HoldInv
  <2>1. \A t \in Ticket : NoForward # [t |-> t, stage |-> "wait"]
    BY DEF NoForward
  <2>2. \A t \in Ticket : Waiting(t) = {}
    BY <1>1, <2>1, Sides DEF Init, Waiting
  <2>3. IsFiniteSet({}) /\ Cardinality({}) = 0
    BY FS_EmptySet
  <2>4. \A t \in Ticket : ~Unstarted(t)
    BY <1>1 DEF Init, Unstarted, EmptyLedger
  <2>. QED
    BY <1>1, <2>2, <2>3, <2>4 DEF Init, HoldInv
<1>. QED
  BY <1>1

LEMMA Holding == Spec => []HoldInv
  BY InitHoldInv, StepHoldInv, Shaped, PTL DEF Spec

(* The variables keep their types; that a count of holders never falls     *)
(* below zero rests on what it counts.                                     *)
THEOREM Typed == Spec => []TypeOK
<1>1. Shape /\ HoldInv => TypeOK
  BY DEF Shape, HoldInv, TypeOK
<1>. QED
  BY <1>1, Shaped, Holding, PTL

(* A sound turn that the owner has not begun has somebody waiting for it,  *)
(* in whatever order its clients came and left (_release_ticket,           *)
(* local_control.py 117-128).                                              *)
THEOREM NoTurnIsForgotten == Spec => []WaitingIsHeld
<1>1. Shape /\ HoldInv => WaitingIsHeld
  <2>1. ASSUME Shape, HoldInv, NEW t \in Created(ledger), Unstarted(t)
        PROVE  \E c \in Local : Waits(c, t)
    <3>1. t \in Ticket
      BY DEF Created
    <3>2. PICK p \in Waiting(t) : TRUE
      BY <2>1, <3>1 DEF HoldInv
    <3>. QED
      BY <3>2 DEF Waiting, Waits
  <2>. QED
    BY <2>1 DEF WaitingIsHeld
<1>. QED
  BY <1>1, Shaped, Holding, PTL

(* A ticket is invalidated for want of a holder only when nobody who is    *)
(* still connected waits for it (_ticket_holders, local_control.py 43-45). *)
THEOREM OthersKeepTheirTurn == Spec => LastHolderInvalidates
<1>1. ASSUME Shape, HoldInv, [Next]_vars, NEW t \in invalidated' \ invalidated,
             NEW d \in Local, conn[d] = "open", Waits(d, t)
      PROVE  FALSE
  <2>1. PICK c \in Conn, i \in Slot : Connection(c) /\ (ForwardResult(c, i) \/ CancelForward(c, i))
    BY <1>1 DEF Next, vars, ctrlVars, connVars, OwnerThread, SafeDisconnect, Begin, Progress,
       ThreadEnds, Daemon, StartTcp, StartLocal, StopAndJoin, Shutdown, CloseTcp, CloseLocal,
       Park, Kill, Connection, Unwind, Connect, Handle, EndSession, Refuse, TooManyPending,
       Request, Close
  <2> DEFINE g == reply[c][i]
  <2>2. /\ c \in Local /\ g.stage = "wait" /\ holders[g.t] = 1 /\ Unstarted(g.t)
        /\ t = g.t
    BY <1>1, <2>1 DEF ForwardResult, CancelForward, Release
  <2>3. g \in Forward /\ t \in Ticket /\ g = [t |-> t, stage |-> "wait"]
    BY <1>1, <2>2, Forwards DEF Shape
  <2>4. conn[c] = "closing"
    <3>1. ~Answered(g)
      BY <2>2 DEF Answered, Unstarted
    <3>. QED
      BY <2>1, <3>1 DEF ForwardResult, CancelForward
  <2>5. PICK j \in Slot : reply[d][j] = [t |-> t, stage |-> "wait"]
    BY <1>1 DEF Waits
  <2>6. <<c, i>> \in Waiting(t) /\ <<d, j>> \in Waiting(t) /\ <<c, i>> # <<d, j>>
    BY <1>1, <2>2, <2>3, <2>4, <2>5 DEF Waiting
  <2>7. IsFiniteSet(Waiting(t)) /\ Cardinality(Waiting(t)) = 1
    BY <1>1, <2>2, <2>3 DEF HoldInv
  <2>8. Cardinality(Waiting(t) \ {<<c, i>>}) = 0 /\ IsFiniteSet(Waiting(t) \ {<<c, i>>})
    BY <2>6, <2>7, FS_RemoveElement
  <2>9. Waiting(t) \ {<<c, i>>} = {}
    BY <2>8, FS_EmptySet
  <2>. QED
    BY <2>6, <2>9
<1>2. Shape /\ HoldInv /\ [Next]_vars =>
        [\A t \in invalidated' \ invalidated :
           \A c \in Local : conn[c] = "open" => ~Waits(c, t)]_vars
  BY <1>1
<1>. QED
  BY <1>2, Shaped, Holding, PTL DEF Spec, LastHolderInvalidates
=============================================================================
