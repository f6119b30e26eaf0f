--------------------------- MODULE MotionLinkProofs ---------------------------
(***************************************************************************)
(* Theorems about MotionLink: the types, and its two safety properties.    *)
(***************************************************************************)
EXTENDS MotionLinkProperties, TLAPS

-----------------------------------------------------------------------------
(* The inductive invariant.                                                *)

TypeInv == TypeOK /\ (up => conn \in Conn)

Sent(r) == future[r] \notin {"none", "submitted"}

(* A goal's thread and the requests it has made: none is made twice, and   *)
(* the cancellation is sent after the motion.  If the cancellation fails   *)
(* while the motion is awaited, its connection has let go or it was given  *)
(* up.                                                                     *)
AskInv ==
  \A g \in Goal :
    /\ goal[g] = "none" <=> future[Play(g)] = "none"
    /\ goal[g] \in {"none", "waiting"} => future[Cancel(g)] = "none"
    /\ future[Play(g)] = "submitted" => goal[g] \in Awaiting
    /\ Sent(Cancel(g)) => Sent(Play(g))
    /\ future[Cancel(g)] = "error" =>
         g \in gaveUp \/ future[Play(g)] # "pending" \/ conn \in cut
    /\ goal[g] = "succeeded" => future[Play(g)] = "completed"
    /\ goal[g] = "canceled" => future[Play(g)] \in Terminal

\* Nothing is awaited without a connection, or served before there is one.
PendingInv ==
  /\ \A r \in Request : future[r] = "pending" => up
  /\ \A c \in Conn : handler[c] # "none" => c <= conn

(* Where a command can be on its way to its end.                           *)
OnWire(r)  == \E c \in Conn : r \in Range(toPi[c])
OnTheWay(r) == OnWire(r) \/ r \in Range(queue) \/ r \in InProgress

(* It has ended, as far as somebody on the way back knows.                 *)
Over(r) ==
  \/ result[r] # "none"
  \/ future[r] \in Terminal
  \/ \E c \in Conn : \E m \in Range(toJetson[c]) : m[1] = r

(* A command is in one place at a time.                                    *)
PlaceInv ==
  /\ \A c \in Conn : IsInjective(toPi[c])
  /\ IsInjective(queue)
  /\ \A c, d \in Conn : c # d => Range(toPi[c]) \cap Range(toPi[d]) = {}
  /\ \A c \in Conn : Range(toPi[c]) \cap Range(queue) = {}
  /\ \A c \in Conn : Range(toPi[c]) \cap InProgress = {}
  /\ Range(queue) \cap InProgress = {}

(* What is on its way has been sent and has not ended, and what is told    *)
(* of its end is true.                                                     *)
WayInv ==
  \A r \in Request :
    /\ OnTheWay(r) => Sent(r) /\ ~Over(r)
    /\ Over(r) => Sent(r)
    /\ future[r] = "completed" => result[r] = "completed"
    /\ \A c \in Conn : \A m \in Range(toJetson[c]) :
         m[1] = r => m[2] \in {result[r], "failed"}

(* Somebody waits for the motion at the other end of its connection, or    *)
(* the connection has let go.                                              *)
Attended(g, c) ==
  \/ c \in cut
  \/ g \in gaveUp
  \/ future[Play(g)] = "pending" /\ goal[g] \in Awaiting /\ c = conn

(* What the controller has of a goal came from the owner of the server,    *)
(* who is still there unless the loss has yet to be dealt with.            *)
OwnedInv ==
  \A g \in Goal :
    /\ \A c \in Conn : Play(g) \in Range(toPi[c]) => Attended(g, c)
    /\ Play(g) \in Range(queue) \cup InProgress =>
         \/ lost
         \/ /\ from[Play(g)] \in Conn /\ Owns(from[Play(g)])
            /\ Attended(g, from[Play(g)])

LinkInv == AskInv /\ PendingInv /\ PlaceInv /\ WayInv /\ OwnedInv

-----------------------------------------------------------------------------
(* Sequences and requests.                                                 *)

LEMMA TailRange ==
  ASSUME NEW S, NEW s \in Seq(S), s # <<>>
  PROVE  /\ Head(s) \in Range(s) /\ Head(s) \in S /\ Tail(s) \in Seq(S)
         /\ Range(s) = {Head(s)} \cup Range(Tail(s))
         /\ IsInjective(s) => IsInjective(Tail(s)) /\ Head(s) \notin Range(Tail(s))
<1>1. /\ Len(s) \in Nat \ {0} /\ Head(s) = s[1] /\ Tail(s) \in Seq(S)
      /\ DOMAIN s = 1 .. Len(s) /\ DOMAIN Tail(s) = 1 .. (Len(s) - 1)
      /\ \A i \in 1 .. (Len(s) - 1) : Tail(s)[i] = s[i + 1]
  OBVIOUS
<1>2. Head(s) \in Range(s) /\ Head(s) \in S
  BY <1>1 DEF Range
<1>3. Range(s) \subseteq {Head(s)} \cup Range(Tail(s))
  <2>. SUFFICES ASSUME NEW i \in 1 .. Len(s), i # 1
                PROVE  s[i] \in Range(Tail(s))
    BY <1>1 DEF Range
  <2>1. i - 1 \in 1 .. (Len(s) - 1) /\ (i - 1) + 1 = i
    BY <1>1
  <2>. QED
    BY <1>1, <2>1 DEF Range
<1>4. Range(Tail(s)) \subseteq Range(s)
  BY <1>1 DEF Range
<1>5. ASSUME IsInjective(s)
      PROVE  IsInjective(Tail(s)) /\ Head(s) \notin Range(Tail(s))
  BY <1>1, <1>5 DEF IsInjective, Range
<1>. QED
  BY <1>1, <1>2, <1>3, <1>4, <1>5

LEMMA AppendRange ==
  ASSUME NEW S, NEW s \in Seq(S), NEW x \in S
  PROVE  /\ Append(s, x) \in Seq(S)
         /\ Range(Append(s, x)) = Range(s) \cup {x}
         /\ IsInjective(s) /\ x \notin Range(s) => IsInjective(Append(s, x))
<1>1. /\ Len(s) \in Nat /\ Append(s, x) \in Seq(S)
      /\ DOMAIN s = 1 .. Len(s) /\ DOMAIN Append(s, x) = 1 .. (Len(s) + 1)
      /\ \A i \in 1 .. Len(s) : Append(s, x)[i] = s[i]
      /\ Append(s, x)[Len(s) + 1] = x
  OBVIOUS
<1>2. \A i \in 1 .. (Len(s) + 1) : i \in 1 .. Len(s) \/ i = Len(s) + 1
  BY <1>1
<1>3. Range(Append(s, x)) = Range(s) \cup {x}
  BY <1>1, <1>2 DEF Range
<1>4. IsInjective(s) /\ x \notin Range(s) => IsInjective(Append(s, x))
  BY <1>1, <1>2 DEF IsInjective, Range
<1>. QED
  BY <1>1, <1>3, <1>4

LEMMA EmptyRange == Range(<<>>) = {} /\ IsInjective(<<>>)
BY DEF Range, IsInjective

LEMMA Requests ==
  /\ \A g \in Goal : Play(g) \in Request /\ Cancel(g) \in Request
  /\ \A g, h \in Goal : Play(g) # Cancel(h)
  /\ \A g, h \in Goal : Play(g) = Play(h) => g = h
  /\ \A g, h \in Goal : Cancel(g) = Cancel(h) => g = h
  /\ \A g \in Goal : Play(g)[2] = g /\ Cancel(g)[2] = g
  /\ \A g \in Goal : Play(g)[1] = "play" /\ Cancel(g)[1] = "cancel"
  /\ \A r \in Request : r[2] \in Goal /\ (r = Play(r[2]) \/ r = Cancel(r[2]))
BY DEF Request, Play, Cancel

-----------------------------------------------------------------------------
(* Types.                                                                  *)

LEMMA Constants ==
  /\ NoGoal \notin Goal /\ MaxConn \in Nat \ {0} /\ 0 \notin Conn
  /\ Conn \subseteq 0 .. MaxConn
BY LinkAssumption DEF Conn

LEMMA InitTypeInv == Init => TypeInv
<1>. SUFFICES ASSUME Init PROVE TypeInv
  OBVIOUS
<1>1. <<>> \in Seq(Request) /\ <<>> \in Seq(Request \X Terminal)
  OBVIOUS
<1>2. /\ toPi \in [Conn -> Seq(Request)] /\ queue \in Seq(Request)
      /\ toJetson \in [Conn -> Seq(Request \X Terminal)]
  BY <1>1 DEF Init
<1>3. conn \in 0 .. MaxConn /\ from \in [Request -> 0 .. MaxConn]
  BY Constants DEF Init
<1>. QED
  BY <1>2, <1>3 DEF Init, TypeInv, TypeOK

LEMMA AskTypes ==
  ASSUME TypeInv, NEW g \in Goal, Execute(g) \/ GoalThread(g)
  PROVE  TypeInv'
<1>1. /\ UNCHANGED <<client, gaveUp, conn, up, netVars, piVars>>
      /\ goal' \in [Goal -> {"none"} \cup Awaiting \cup Ended]
      /\ \/ future' = future
         \/ \E r \in Request : future' = [future EXCEPT ![r] = "submitted"]
  BY Requests DEF TypeInv, TypeOK, Execute, GoalThread, Resolve, SendCancel, CancelAnswered,
                  CancelRaises, ResolveCanceled, linkVars, Awaiting, Ended
<1>2. future' \in [Request -> {"none", "submitted", "pending", "error"} \cup Terminal]
  BY <1>1 DEF TypeInv, TypeOK
<1>. QED
  BY <1>1, <1>2 DEF TypeInv, TypeOK, netVars, piVars

LEMMA TransportTypes ==
  ASSUME TypeInv, Transport
  PROVE  TypeInv'
<1>. USE Constants
<1>1. CASE Connect
  <2>1. conn + 1 \in Conn
    BY <1>1 DEF TypeInv, TypeOK, Connect, Conn
  <2>. QED
    BY <1>1, <2>1 DEF TypeInv, TypeOK, Connect, askVars, netVars
<1>2. ASSUME NEW r \in Request, Send(r) PROVE TypeInv'
  <2>1. toPi' \in [Conn -> Seq(Request)]
    <3>1. CASE up /\ Written(r)
      <4>1. toPi[conn] \in Seq(Request) /\ Append(toPi[conn], r) \in Seq(Request)
        BY <3>1, AppendRange DEF TypeInv, TypeOK
      <4>. QED
        BY <3>1, <4>1 DEF Written, TypeInv, TypeOK
    <3>. QED
      BY <1>2, <3>1 DEF Send, TypeInv, TypeOK
  <2>. QED
    BY <1>2, <2>1 DEF TypeInv, TypeOK, Send, askVars, piVars
<1>3. ASSUME NEW r \in Request, Timeout(r) PROVE TypeInv'
  BY <1>3, Requests DEF TypeInv, TypeOK, Timeout, netVars, piVars
<1>4. CASE ReadAnswer
  <2>1. /\ toJetson[conn] \in Seq(Request \X Terminal)
        /\ Head(toJetson[conn]) \in Request \X Terminal
        /\ Tail(toJetson[conn]) \in Seq(Request \X Terminal)
    BY <1>4, TailRange DEF ReadAnswer, TypeInv, TypeOK
  <2>2. Head(toJetson[conn])[1] \in Request /\ Head(toJetson[conn])[2] \in Terminal
    BY <2>1
  <2>. QED
    BY <1>4, <2>1, <2>2 DEF TypeInv, TypeOK, ReadAnswer, askVars, piVars
<1>5. CASE Lose
  <2>1. <<>> \in Seq(Request \X Terminal)
    OBVIOUS
  <2>. QED
    BY <1>5, <2>1 DEF TypeInv, TypeOK, Lose, FailPending, Dropped, askVars, piVars
<1>6. ASSUME NEW c \in Conn, Break(c) PROVE TypeInv'
  BY <1>6 DEF TypeInv, TypeOK, Break, askVars, linkVars, piVars
<1>. QED
  BY <1>1, <1>2, <1>3, <1>4, <1>5, <1>6 DEF Transport

LEMMA ServerTypes ==
  ASSUME TypeInv, Server
  PROVE  TypeInv'
<1>. USE Constants DEF askVars, linkVars, netVars, Ends
<1>1. ASSUME NEW c \in Conn, Authenticate(c) PROVE TypeInv'
  BY <1>1 DEF TypeInv, TypeOK, Authenticate
<1>2. ASSUME NEW c \in Conn, Refuse(c) PROVE TypeInv'
  <2>1. toPi' \in [Conn -> Seq(Request)]
    BY <1>2 DEF TypeInv, TypeOK, Refuse
  <2>2. toJetson' \in [Conn -> Seq(Request \X Terminal)]
    <3>1. CASE toPi[c] # <<>>
      <4>1. toPi[c] \in Seq(Request)
        BY DEF TypeInv, TypeOK
      <4>2. <<Head(toPi[c]), "failed">> \in Request \X Terminal
        BY <3>1, <4>1, TailRange DEF Terminal
      <4>3. Append(toJetson[c], <<Head(toPi[c]), "failed">>) \in Seq(Request \X Terminal)
        BY <4>2, AppendRange DEF TypeInv, TypeOK
      <4>. QED
        BY <1>2, <3>1, <4>3 DEF TypeInv, TypeOK, Refuse
    <3>. QED
      BY <1>2, <3>1 DEF TypeInv, TypeOK, Refuse
  <2>. QED
    BY <1>2, <2>1, <2>2 DEF TypeInv, TypeOK, Refuse
<1>3. ASSUME NEW c \in Conn, Receive(c) PROVE TypeInv'
  <2>1. /\ toPi[c] \in Seq(Request) /\ Head(toPi[c]) \in Request
        /\ Tail(toPi[c]) \in Seq(Request)
    BY <1>3, TailRange DEF TypeInv, TypeOK, Receive
  <2>2. Append(queue, Head(toPi[c])) \in Seq(Request)
    BY <2>1, AppendRange DEF TypeInv, TypeOK
  <2>. QED
    BY <1>3, <2>1, <2>2 DEF TypeInv, TypeOK, Receive
<1>4. ASSUME NEW c \in Conn, EndSession(c) PROVE TypeInv'
  <2>1. <<>> \in Seq(Request)
    OBVIOUS
  <2>2. lost' \in BOOLEAN
    BY <1>4 DEF TypeInv, TypeOK, EndSession
  <2>. QED
    BY <1>4, <2>1, <2>2 DEF TypeInv, TypeOK, EndSession
<1>5. ASSUME NEW r \in Request, Forward(r) PROVE TypeInv'
  <2>1. toJetson' \in [Conn -> Seq(Request \X Terminal)]
    <3>1. CASE up /\ from[r] = conn
      <4>1. result[r] \in Terminal
        BY <1>5 DEF TypeInv, TypeOK, Forward
      <4>2. conn \in Conn /\ toJetson[conn] \in Seq(Request \X Terminal)
        BY <3>1 DEF TypeInv, TypeOK
      <4>3. Append(toJetson[conn], <<r, result[r]>>) \in Seq(Request \X Terminal)
        BY <4>1, <4>2, AppendRange
      <4>. QED
        BY <1>5, <3>1, <4>3 DEF TypeInv, TypeOK, Forward
    <3>. QED
      BY <1>5, <3>1 DEF TypeInv, TypeOK, Forward
  <2>. QED
    BY <1>5, <2>1 DEF TypeInv, TypeOK, Forward
<1>. QED
  BY <1>1, <1>2, <1>3, <1>4, <1>5 DEF Server

LEMMA ControllerTypes ==
  ASSUME TypeInv, Controller
  PROVE  TypeInv'
<1>. USE Constants DEF ControllerOnly, askVars, linkVars, netVars
<1>1. queue # <<>> => Tail(queue) \in Seq(Request) /\ Head(queue) \in Request
  BY TailRange DEF TypeInv, TypeOK
<1>2. \A S : \A s \in Terminal :
        EndsWith(S, s) => result' \in [Request -> {"none"} \cup Terminal]
  BY DEF EndsWith, TypeInv, TypeOK
<1>3. CASE RefuseCommand
  BY <1>1, <1>2, <1>3 DEF RefuseCommand, TypeInv, TypeOK, Terminal
<1>4. ASSUME NEW g \in Goal, PlayMotion(g) PROVE TypeInv'
  BY <1>1, <1>2, <1>4 DEF PlayMotion, TypeInv, TypeOK, Terminal
<1>5. ASSUME NEW g \in Goal, CancelMotion(g) PROVE TypeInv'
  BY <1>1, <1>5, Requests DEF CancelMotion, TypeInv, TypeOK, Terminal
<1>6. CASE Finish
  BY <1>2, <1>6 DEF Finish, TypeInv, TypeOK, Terminal
<1>7. CASE SafeDisconnect
  <2>1. <<>> \in Seq(Request)
    OBVIOUS
  <2>. QED
    BY <1>2, <1>7, <2>1 DEF SafeDisconnect, TypeInv, TypeOK, Terminal
<1>. QED
  BY <1>3, <1>4, <1>5, <1>6, <1>7 DEF Controller

LEMMA StepTypeInv == TypeInv /\ [Next]_vars => TypeInv'
<1>1. TypeInv /\ UNCHANGED vars => TypeInv'
  BY DEF vars, askVars, linkVars, netVars, piVars, TypeInv, TypeOK
<1>. QED
  BY <1>1, AskTypes, TransportTypes, ServerTypes, ControllerTypes DEF Next

LEMMA TypeCorrect == Spec => []TypeInv
BY InitTypeInv, StepTypeInv, PTL DEF Spec

(* Every variable keeps its type, for any number of goals and connections. *)
THEOREM Typed == Spec => []TypeOK
BY TypeCorrect, PTL DEF TypeInv

-----------------------------------------------------------------------------
(* Goals and their threads.                                                *)

LEMMA InitLinkInv == Init => LinkInv
<1>. SUFFICES ASSUME Init PROVE LinkInv
  OBVIOUS
<1>1. AskInv /\ PendingInv
  BY Requests DEF Init, AskInv, PendingInv, Sent, Terminal
<1>2. /\ \A c \in Conn : Range(toPi[c]) = {} /\ IsInjective(toPi[c])
      /\ \A c \in Conn : Range(toJetson[c]) = {}
      /\ Range(queue) = {} /\ IsInjective(queue) /\ InProgress = {}
  BY EmptyRange DEF Init, InProgress
<1>3. PlaceInv
  BY <1>2 DEF PlaceInv
<1>4. WayInv
  BY <1>2 DEF Init, WayInv, OnTheWay, OnWire, Over, Terminal
<1>5. OwnedInv
  BY <1>2 DEF OwnedInv
<1>. QED
  BY <1>1, <1>3, <1>4, <1>5 DEF LinkInv

LEMMA AskStep ==
  ASSUME TypeInv, LinkInv, NEW g \in Goal, Execute(g) \/ GoalThread(g)
  PROVE  LinkInv'
<1>. USE DEF LinkInv
<1>1. UNCHANGED <<gaveUp, conn, up, netVars, piVars>>
  BY DEF Execute, GoalThread, Resolve, SendCancel, CancelAnswered, CancelRaises,
         ResolveCanceled, linkVars
<1>2. \A h \in Goal : h # g =>
        /\ goal'[h] = goal[h]
        /\ future'[Play(h)] = future[Play(h)] /\ future'[Cancel(h)] = future[Cancel(h)]
  BY Requests DEF Execute, GoalThread, Resolve, SendCancel, CancelAnswered, CancelRaises,
                  ResolveCanceled, linkVars, TypeInv, TypeOK
<1>3. /\ Execute(g) \/ SendCancel(g) \/ future' = future
      /\ Execute(g) =>
           /\ goal[g] = "none" /\ goal'[g] = "waiting"
           /\ future[Play(g)] = "none"
           /\ future' = [future EXCEPT ![Play(g)] = "submitted"]
      /\ SendCancel(g) =>
           /\ goal[g] = "waiting" /\ goal'[g] = "cancelling"
           /\ future[Cancel(g)] = "none"
           /\ future' = [future EXCEPT ![Cancel(g)] = "submitted"]
  BY DEF Execute, GoalThread, Resolve, SendCancel, CancelAnswered, CancelRaises,
         ResolveCanceled, linkVars, TypeInv, TypeOK, AskInv
<1>4. \A r \in Request : \/ future'[r] = future[r]
                         \/ future[r] = "none" /\ future'[r] = "submitted"
  BY <1>3, Requests DEF TypeInv, TypeOK
<1>5. AskInv'
  <2>. SUFFICES ASSUME NEW h \in Goal PROVE AskInv!(h)'
    BY DEF AskInv
  <2>1. CASE h # g
    BY <1>1, <1>2, <2>1 DEF AskInv, Sent, netVars
  <2>2. CASE h = g
    <3>1. CASE Execute(g)
      BY <1>1, <1>3, <2>2, <3>1, Requests
         DEF AskInv, Sent, netVars, TypeInv, TypeOK, Awaiting
    <3>2. CASE SendCancel(g)
      BY <1>1, <1>3, <2>2, <3>2, Requests
         DEF AskInv, Sent, netVars, TypeInv, TypeOK, Awaiting
    <3>3. CASE Resolve(g) \/ CancelAnswered(g) \/ CancelRaises(g) \/ ResolveCanceled(g)
      BY <1>1, <2>2, <3>3, Requests
         DEF Resolve, CancelAnswered, CancelRaises, ResolveCanceled, linkVars,
             AskInv, Sent, netVars, TypeInv, TypeOK, Awaiting, Terminal
    <3>. QED
      BY <3>1, <3>2, <3>3 DEF GoalThread
  <2>. QED
    BY <2>1, <2>2
<1>6. PendingInv'
  BY <1>1, <1>4 DEF PendingInv, piVars
<1>7. PlaceInv'
  BY <1>1 DEF PlaceInv, InProgress, netVars, piVars
<1>8. WayInv'
  <2>1. \A r \in Request : /\ Sent(r) <=> Sent(r)'
                           /\ Over(r) <=> Over(r)'
                           /\ OnTheWay(r) <=> OnTheWay(r)'
                           /\ future'[r] = "completed" => future[r] = "completed"
    BY <1>1, <1>4 DEF Sent, Over, OnTheWay, OnWire, InProgress, netVars, piVars, Terminal
  <2>. QED
    BY <1>1, <2>1 DEF WayInv, netVars, piVars
<1>9. OwnedInv'
  <2>1. ASSUME NEW h \in Goal, NEW c, Attended(h, c)
        PROVE  Attended(h, c)'
    <3>1. CASE h # g \/ Execute(g) \/ SendCancel(g)
      BY <1>1, <1>2, <1>3, <1>4, <2>1, <3>1, Requests DEF Attended, netVars, Awaiting
    <3>2. CASE h = g /\ (Resolve(g) \/ ResolveCanceled(g))
      BY <1>1, <2>1, <3>2 DEF Resolve, ResolveCanceled, Attended, netVars, Terminal
    <3>3. CASE h = g /\ CancelAnswered(g)
      BY <1>1, <2>1, <3>3
         DEF CancelAnswered, Attended, netVars, linkVars, Awaiting, TypeInv, TypeOK
    <3>4. CASE h = g /\ CancelRaises(g)
      BY <1>1, <2>1, <3>4 DEF CancelRaises, Attended, netVars, AskInv
    <3>. QED
      BY <3>1, <3>2, <3>3, <3>4 DEF GoalThread
  <2>. QED
    BY <1>1, <2>1 DEF OwnedInv, InProgress, Owns, netVars, piVars
<1>. QED
  BY <1>5, <1>6, <1>7, <1>8, <1>9

-----------------------------------------------------------------------------
(* The transport.                                                          *)

LEMMA ConnectStep ==
  ASSUME TypeInv, LinkInv, Connect
  PROVE  LinkInv'
<1>. USE DEF LinkInv
<1>1. /\ ~up /\ conn' = conn + 1 /\ conn \in Nat /\ conn + 1 \in Conn
      /\ handler' = [handler EXCEPT ![conn + 1] = "open"]
      /\ UNCHANGED <<goal, gaveUp, future, toPi, toJetson, cut, from, queue, moving,
                     result, lost>>
  BY Constants DEF Connect, askVars, netVars, TypeInv, TypeOK, Conn
<1>2. \A r \in Request : future[r] # "pending"
  BY <1>1 DEF PendingInv
<1>3. AskInv'
  BY <1>1, <1>2, Requests DEF AskInv, Sent
<1>4. PendingInv'
  BY <1>1, <1>2 DEF PendingInv, TypeInv, TypeOK, Conn
<1>5. PlaceInv'
  BY <1>1 DEF PlaceInv, InProgress
<1>6. WayInv'
  BY <1>1 DEF WayInv, OnTheWay, OnWire, InProgress, Over, Sent
<1>7. OwnedInv'
  <2>1. \A h \in Goal, c \in Conn : Attended(h, c) => Attended(h, c)'
    BY <1>1, <1>2, Requests DEF Attended
  <2>2. ASSUME NEW c \in Conn, Owns(c) PROVE Owns(c)'
    <3>1. c <= conn /\ c \in Nat
      BY <2>2, Constants DEF Owns, PendingInv, Conn
    <3>2. c # conn + 1
      BY <1>1, <3>1
    <3>. QED
      BY <1>1, <2>2, <3>2 DEF Owns, TypeInv, TypeOK
  <2>. QED
    BY <1>1, <2>1, <2>2 DEF OwnedInv, InProgress
<1>. QED
  BY <1>3, <1>4, <1>5, <1>6, <1>7

LEMMA SendStep ==
  ASSUME TypeInv, LinkInv, NEW r \in Request, Send(r)
  PROVE  LinkInv'
<1>. USE DEF LinkInv
<1>1. /\ future[r] = "submitted" /\ conn \in 0 .. MaxConn
      /\ r[1] = "cancel" => future[Play(r[2])] # "submitted"
      /\ UNCHANGED <<goal, gaveUp, conn, up, toJetson, cut, handler, from, queue, moving,
                     result, lost>>
  BY DEF Send, askVars, piVars, TypeInv, TypeOK
<1>2. \/ /\ up /\ conn \in Conn /\ future' = [future EXCEPT ![r] = "pending"] /\ Written(r)
      \/ /\ ~up \/ conn \in cut
         /\ future' = [future EXCEPT ![r] = "error"] /\ toPi' = toPi
  BY DEF Send, TypeInv
<1>3. future \in [Request -> {"none", "submitted", "pending", "error"} \cup Terminal]
  BY DEF TypeInv, TypeOK
<1>4. ~OnTheWay(r) /\ ~Over(r)
  BY <1>1 DEF WayInv, Sent
<1>5. AskInv'
  <2>. SUFFICES ASSUME NEW h \in Goal PROVE AskInv!(h)'
    BY DEF AskInv
  <2>1. CASE r = Play(h)
    BY <1>1, <1>2, <1>3, <2>1, Requests DEF AskInv, Sent, Terminal
  <2>2. CASE r = Cancel(h)
    <3>1. /\ future[Play(h)] \notin {"none", "submitted"} /\ Play(h) # r
          /\ goal[h] \notin {"none", "waiting"}
      BY <1>1, <2>2, Requests DEF AskInv
    <3>2. ~up => future[Play(h)] # "pending"
      BY Requests DEF PendingInv
    <3>. QED
      BY <1>1, <1>2, <1>3, <2>2, <3>1, <3>2, Requests DEF AskInv, Sent, Terminal
  <2>3. CASE r # Play(h) /\ r # Cancel(h)
    BY <1>1, <1>2, <1>3, <2>3, Requests DEF AskInv, Sent
  <2>. QED
    BY <2>1, <2>2, <2>3
<1>6. PendingInv'
  BY <1>1, <1>2, <1>3 DEF PendingInv
<1>7. \/ toPi' = toPi
      \/ /\ conn \in Conn
         /\ toPi' = [toPi EXCEPT ![conn] = Append(@, r)]
         /\ Range(toPi'[conn]) = Range(toPi[conn]) \cup {r}
         /\ IsInjective(toPi[conn]) => IsInjective(toPi'[conn])
         /\ future'[r] = "pending"
  <2>1. CASE /\ up /\ conn \in Conn /\ future' = [future EXCEPT ![r] = "pending"]
             /\ toPi' = [toPi EXCEPT ![conn] = Append(@, r)]
    <3>1. toPi[conn] \in Seq(Request) /\ toPi'[conn] = Append(toPi[conn], r)
      BY <2>1 DEF TypeInv, TypeOK
    <3>2. r \notin Range(toPi[conn])
      BY <1>4, <2>1 DEF OnTheWay, OnWire
    <3>. QED
      BY <1>3, <2>1, <3>1, <3>2, AppendRange
  <2>. QED
    BY <1>2, <2>1 DEF Written
<1>8. \A c \in Conn : \/ Range(toPi'[c]) = Range(toPi[c])
                     \/ /\ c = conn /\ future'[r] = "pending"
                        /\ Range(toPi'[c]) = Range(toPi[c]) \cup {r}
  BY <1>7 DEF TypeInv, TypeOK
<1>9. PlaceInv'
  <2>1. \A c \in Conn : IsInjective(toPi'[c])
    BY <1>7 DEF PlaceInv, TypeInv, TypeOK
  <2>2. \A c \in Conn : r \notin Range(toPi[c])
    BY <1>4 DEF OnTheWay, OnWire
  <2>3. r \notin Range(queue) /\ r \notin InProgress
    BY <1>4 DEF OnTheWay
  <2>. QED
    BY <1>1, <1>8, <2>1, <2>2, <2>3 DEF PlaceInv, InProgress
<1>10. WayInv'
  <2>1. \A x \in Request :
          /\ x # r => future'[x] = future[x]
          /\ Over(x)' <=> Over(x)
          /\ Sent(x)' <=> Sent(x) \/ x = r
          /\ OnTheWay(x)' => OnTheWay(x) \/ x = r
    BY <1>1, <1>2, <1>3, <1>8
       DEF Over, Sent, OnTheWay, OnWire, InProgress, Terminal
  <2>2. future'[r] # "completed"
    BY <1>2, <1>3
  <2>. QED
    BY <1>1, <1>4, <2>1, <2>2 DEF WayInv
<1>11. OwnedInv'
  <2>. SUFFICES ASSUME NEW h \in Goal PROVE OwnedInv!(h)'
    BY DEF OwnedInv
  <2>1. CASE r # Play(h)
    <3>1. future'[Play(h)] = future[Play(h)]
      BY <1>2, <1>3, <2>1, Requests
    <3>2. \A c : Attended(h, c) <=> Attended(h, c)'
      BY <1>1, <3>1 DEF Attended
    <3>. QED
      BY <1>1, <1>8, <2>1, <3>2 DEF OwnedInv, InProgress, Owns
  <2>2. CASE r = Play(h)
    <3>1. Play(h) \notin Range(queue) \cup InProgress
      BY <1>4, <2>2 DEF OnTheWay
    <3>2. \A c \in Conn : Play(h) \in Range(toPi'[c]) => c = conn /\ future'[r] = "pending"
      BY <1>4, <1>8, <2>2 DEF OnTheWay, OnWire
    <3>3. goal'[h] \in Awaiting
      BY <1>1, <2>2 DEF AskInv
    <3>. QED
      BY <1>1, <2>2, <3>1, <3>2, <3>3 DEF Attended, InProgress
  <2>. QED
    BY <2>1, <2>2
<1>. QED
  BY <1>5, <1>6, <1>9, <1>10, <1>11

LEMMA TimeoutStep ==
  ASSUME TypeInv, LinkInv, NEW r \in Request, Timeout(r)
  PROVE  LinkInv'
<1>. USE DEF LinkInv
<1>1. /\ future[r] = "pending" /\ future' = [future EXCEPT ![r] = "error"]
      /\ gaveUp' = gaveUp \cup {r[2]}
      /\ UNCHANGED <<goal, conn, up, toPi, toJetson, cut, handler, from, queue, moving,
                     result, lost>>
  BY DEF Timeout, netVars, piVars
<1>2. future \in [Request -> {"none", "submitted", "pending", "error"} \cup Terminal]
  BY DEF TypeInv, TypeOK
<1>3. AskInv'
  <2>. SUFFICES ASSUME NEW h \in Goal PROVE AskInv!(h)'
    BY DEF AskInv
  <2>1. CASE r = Play(h)
    BY <1>1, <1>2, <2>1, Requests DEF AskInv, Sent, Terminal
  <2>2. CASE r = Cancel(h)
    BY <1>1, <1>2, <2>2, Requests DEF AskInv, Sent, Terminal
  <2>3. CASE r # Play(h) /\ r # Cancel(h)
    BY <1>1, <1>2, <2>3, Requests DEF AskInv, Sent
  <2>. QED
    BY <2>1, <2>2, <2>3
<1>4. PendingInv'
  BY <1>1, <1>2 DEF PendingInv
<1>5. PlaceInv'
  BY <1>1 DEF PlaceInv, InProgress
<1>6. WayInv'
  <2>1. \A x \in Request :
          /\ Over(x)' <=> Over(x)
          /\ Sent(x)' <=> Sent(x)
          /\ OnTheWay(x)' <=> OnTheWay(x)
          /\ future'[x] = "completed" => future[x] = "completed"
    BY <1>1, <1>2 DEF Over, Sent, OnTheWay, OnWire, InProgress, Terminal
  <2>. QED
    BY <1>1, <2>1 DEF WayInv
<1>7. OwnedInv'
  <2>1. \A h \in Goal : \A c : Attended(h, c) => Attended(h, c)'
    BY <1>1, <1>2, Requests DEF Attended
  <2>. QED
    BY <1>1, <2>1 DEF OwnedInv, InProgress, Owns
<1>. QED
  BY <1>3, <1>4, <1>5, <1>6, <1>7

LEMMA ReadAnswerStep ==
  ASSUME TypeInv, LinkInv, ReadAnswer
  PROVE  LinkInv'
<1>. USE DEF LinkInv
<1>. DEFINE m == Head(toJetson[conn])
<1>1. /\ conn \in Conn /\ toJetson[conn] \in Seq(Request \X Terminal)
      /\ toJetson[conn] # <<>>
      /\ toJetson' = [toJetson EXCEPT ![conn] = Tail(@)]
      /\ UNCHANGED <<goal, gaveUp, conn, up, toPi, cut, handler, from, queue, moving,
                     result, lost>>
  BY DEF ReadAnswer, askVars, piVars, TypeInv, TypeOK
<1>2. /\ m \in Range(toJetson[conn]) /\ m[1] \in Request /\ m[2] \in Terminal
      /\ Range(Tail(toJetson[conn])) \subseteq Range(toJetson[conn])
  <2>1. m \in Request \X Terminal
    BY <1>1, TailRange
  <2>. QED
    BY <1>1, <2>1, TailRange
<1>3. \/ future' = future
      \/ future[m[1]] = "pending" /\ future' = [future EXCEPT ![m[1]] = m[2]]
  BY DEF ReadAnswer
<1>. HIDE DEF m
<1>4. future \in [Request -> {"none", "submitted", "pending", "error"} \cup Terminal]
  BY DEF TypeInv, TypeOK
<1>5. Over(m[1]) /\ ~OnTheWay(m[1]) /\ m[2] \in {result[m[1]], "failed"}
  BY <1>1, <1>2 DEF WayInv, Over
<1>6. \A c \in Conn : Range(toJetson'[c]) \subseteq Range(toJetson[c])
  BY <1>1, <1>2 DEF TypeInv, TypeOK
<1>7. AskInv'
  <2>. SUFFICES ASSUME NEW h \in Goal PROVE AskInv!(h)'
    BY DEF AskInv
  <2>1. CASE m[1] = Play(h)
    BY <1>1, <1>2, <1>3, <1>4, <2>1, Requests DEF AskInv, Sent, Terminal
  <2>2. CASE m[1] = Cancel(h)
    BY <1>1, <1>2, <1>3, <1>4, <2>2, Requests DEF AskInv, Sent, Terminal
  <2>3. CASE m[1] # Play(h) /\ m[1] # Cancel(h)
    BY <1>1, <1>3, <1>4, <2>3, Requests DEF AskInv, Sent
  <2>. QED
    BY <2>1, <2>2, <2>3
<1>8. PendingInv'
  BY <1>1, <1>2, <1>3, <1>4 DEF PendingInv, Terminal
<1>9. PlaceInv'
  BY <1>1 DEF PlaceInv, InProgress
<1>10. WayInv'
  <2>1. \A x \in Request :
          /\ x # m[1] => future'[x] = future[x]
          /\ Over(x)' => Over(x)
          /\ Sent(x)' <=> Sent(x)
          /\ OnTheWay(x)' <=> OnTheWay(x)
    BY <1>1, <1>2, <1>3, <1>4, <1>5, <1>6
       DEF Over, Sent, OnTheWay, OnWire, InProgress, Terminal
  <2>2. future'[m[1]] = "completed" => result[m[1]] = "completed"
    BY <1>2, <1>3, <1>4, <1>5 DEF WayInv
  <2>. QED
    BY <1>1, <1>6, <2>1, <2>2 DEF WayInv
<1>11. OwnedInv'
  <2>1. \A h \in Goal : OnTheWay(Play(h)) => future'[Play(h)] = future[Play(h)]
    BY <1>2, <1>3, <1>4, <1>5, Requests
  <2>2. \A h \in Goal : \A c :
          OnTheWay(Play(h)) /\ Attended(h, c) => Attended(h, c)'
    BY <1>1, <2>1 DEF Attended
  <2>. QED
    BY <1>1, <2>2 DEF OwnedInv, InProgress, Owns, OnTheWay, OnWire
<1>. QED
  BY <1>7, <1>8, <1>9, <1>10, <1>11

LEMMA LoseStep ==
  ASSUME TypeInv, LinkInv, Lose
  PROVE  LinkInv'
<1>. USE DEF LinkInv
<1>1. /\ conn \in Conn /\ cut' = cut \cup {conn}
      /\ future' = [r \in Request |->
                      IF future[r] = "pending" THEN "error" ELSE future[r]]
      /\ toJetson' = [toJetson EXCEPT ![conn] = <<>>]
      /\ UNCHANGED <<goal, gaveUp, conn, toPi, handler, from, queue, moving, result, lost>>
  BY DEF Lose, FailPending, Dropped, askVars, piVars, TypeInv
<1>2. \A r \in Request : /\ future'[r] # "pending"
                         /\ Sent(r)' <=> Sent(r)
                         /\ future[r] # "pending" => future'[r] = future[r]
                         /\ future'[r] \in Terminal => future'[r] = future[r]
  BY <1>1 DEF Sent, Terminal
<1>3. \A c \in Conn : Range(toJetson'[c]) \subseteq Range(toJetson[c])
  BY <1>1, EmptyRange DEF TypeInv, TypeOK
<1>4. AskInv'
  BY <1>1, <1>2, Requests DEF AskInv, Terminal, Sent
<1>5. PendingInv'
  BY <1>1, <1>2 DEF PendingInv
<1>6. PlaceInv'
  BY <1>1 DEF PlaceInv, InProgress
<1>7. WayInv'
  <2>1. \A x \in Request :
          /\ Over(x)' => Over(x)
          /\ OnTheWay(x)' <=> OnTheWay(x)
          /\ future'[x] = "completed" => future[x] = "completed"
    BY <1>1, <1>2, <1>3 DEF Over, OnTheWay, OnWire, InProgress, Terminal
  <2>. QED
    BY <1>1, <1>2, <1>3, <2>1 DEF WayInv
<1>8. OwnedInv'
  <2>1. \A h \in Goal : \A c : Attended(h, c) => Attended(h, c)'
    BY <1>1 DEF Attended
  <2>. QED
    BY <1>1, <2>1 DEF OwnedInv, InProgress, Owns
<1>. QED
  BY <1>4, <1>5, <1>6, <1>7, <1>8

LEMMA BreakStep ==
  ASSUME TypeInv, LinkInv, NEW c \in Conn, Break(c)
  PROVE  LinkInv'
<1>. USE DEF LinkInv
<1>1. /\ cut \subseteq cut'
      /\ UNCHANGED <<goal, gaveUp, future, conn, up, toPi, toJetson, handler, from, queue,
                     moving, result, lost>>
  BY DEF Break, askVars, linkVars, piVars
<1>2. AskInv' /\ PendingInv' /\ PlaceInv'
  BY <1>1 DEF AskInv, PendingInv, PlaceInv, Sent, InProgress
<1>3. WayInv'
  BY <1>1 DEF WayInv, OnTheWay, OnWire, InProgress, Over, Sent
<1>4. OwnedInv'
  BY <1>1 DEF OwnedInv, Attended, InProgress, Owns
<1>. QED
  BY <1>2, <1>3, <1>4

-----------------------------------------------------------------------------
(* The server.                                                             *)

(* Those who ask are not concerned by a step of the Pi.                    *)
LEMMA PiStep ==
  ASSUME LinkInv, UNCHANGED <<goal, gaveUp, future, conn, up>>, cut \subseteq cut',
         \A c \in Conn : handler'[c] # "none" => handler[c] # "none"
  PROVE  /\ AskInv' /\ PendingInv'
         /\ \A g \in Goal : \A c : Attended(g, c) => Attended(g, c)'
BY DEF LinkInv, AskInv, PendingInv, Sent, Attended

LEMMA AuthenticateStep ==
  ASSUME TypeInv, LinkInv, NEW c \in Conn, Authenticate(c)
  PROVE  LinkInv'
<1>. USE DEF LinkInv
<1>1. /\ handler[c] = "open" /\ handler' = [handler EXCEPT ![c] = "owner"]
      /\ UNCHANGED <<goal, gaveUp, future, conn, up, toPi, toJetson, cut, from, queue,
                     moving, result, lost>>
  BY DEF Authenticate, askVars, linkVars, netVars
<1>2. \A d \in Conn : /\ handler'[d] # "none" => handler[d] # "none"
                      /\ Owns(d) => Owns(d)'
  BY <1>1 DEF Owns, TypeInv, TypeOK
<1>3. /\ AskInv' /\ PendingInv'
      /\ \A g \in Goal : \A d : Attended(g, d) => Attended(g, d)'
  BY <1>1, <1>2, PiStep
<1>4. PlaceInv' /\ WayInv'
  BY <1>1 DEF PlaceInv, WayInv, OnTheWay, OnWire, InProgress, Over, Sent
<1>5. OwnedInv'
  BY <1>1, <1>2, <1>3 DEF OwnedInv, InProgress
<1>. QED
  BY <1>3, <1>4, <1>5

LEMMA RefuseStep ==
  ASSUME TypeInv, LinkInv, NEW c \in Conn, Refuse(c)
  PROVE  LinkInv'
<1>. USE DEF LinkInv
<1>1. /\ handler[c] = "open" /\ handler' = [handler EXCEPT ![c] = "ended"]
      /\ cut' = cut \cup {c}
      /\ toPi' = [toPi EXCEPT ![c] = <<>>]
      /\ UNCHANGED <<goal, gaveUp, future, conn, up, from, queue, moving, result, lost>>
  BY DEF Refuse, Ends, askVars, linkVars
<1>2. \A d \in Conn : /\ handler'[d] # "none" => handler[d] # "none"
                      /\ Owns(d) => Owns(d)'
  BY <1>1 DEF Owns, TypeInv, TypeOK
<1>3. /\ AskInv' /\ PendingInv'
      /\ \A g \in Goal : \A d : Attended(g, d) => Attended(g, d)'
  BY <1>1, <1>2, PiStep
<1>4. /\ Range(toPi'[c]) = {} /\ IsInjective(toPi'[c])
      /\ \A d \in Conn : d # c => toPi'[d] = toPi[d]
  BY <1>1, EmptyRange DEF TypeInv, TypeOK
<1>5. \A d \in Conn : Range(toPi'[d]) \subseteq Range(toPi[d])
  BY <1>4
<1>6. PlaceInv'
  BY <1>1, <1>4, <1>5 DEF PlaceInv, InProgress
<1>7. WayInv'
  <2>1. \A r \in Request : /\ Sent(r)' <=> Sent(r)
                           /\ OnTheWay(r)' => OnTheWay(r)
    BY <1>1, <1>5 DEF Sent, OnTheWay, OnWire, InProgress
  <2>2. CASE toPi[c] = <<>>
    <3>1. toJetson' = toJetson
      BY <2>2 DEF Refuse, TypeInv, TypeOK
    <3>. QED
      BY <1>1, <2>1, <3>1 DEF WayInv, Over
  <2>3. CASE toPi[c] # <<>>
    <3>1. PICK x \in Request : x = Head(toPi[c]) /\ x \in Range(toPi[c])
      <4>1. toPi[c] \in Seq(Request)
        BY DEF TypeInv, TypeOK
      <4>. QED
        BY <2>3, <4>1, TailRange
    <3>. DEFINE m == <<x, "failed">>
    <3>2. /\ toJetson' = [toJetson EXCEPT ![c] = Append(@, m)]
          /\ Range(Append(toJetson[c], m)) = Range(toJetson[c]) \cup {m}
      <4>1. toJetson[c] \in Seq(Request \X Terminal) /\ m \in Request \X Terminal
        BY DEF TypeInv, TypeOK, Terminal
      <4>. QED
        BY <2>3, <3>1, <4>1, AppendRange DEF Refuse
    <3>3. m[1] = x /\ m[2] = "failed"
      OBVIOUS
    <3>. HIDE DEF m
    <3>4. \A d \in Conn :
            /\ Range(toJetson[d]) \subseteq Range(toJetson'[d])
            /\ Range(toJetson'[d]) \subseteq Range(toJetson[d]) \cup {m}
      BY <3>2 DEF TypeInv, TypeOK
    <3>5. OnTheWay(x) /\ ~OnTheWay(x)'
      <4>1. \A d \in Conn : x \notin Range(toPi'[d])
        BY <1>4, <3>1 DEF PlaceInv
      <4>2. x \notin Range(queue) /\ x \notin InProgress
        BY <3>1 DEF PlaceInv
      <4>3. OnTheWay(x)
        BY <3>1 DEF OnTheWay, OnWire
      <4>4. ~OnWire(x)' /\ queue' = queue /\ InProgress' = InProgress
        BY <1>1, <4>1 DEF OnWire, InProgress
      <4>. QED
        BY <4>2, <4>3, <4>4 DEF OnTheWay
    <3>6. \A r \in Request : Over(r)' => Over(r) \/ r = x
      BY <1>1, <3>3, <3>4 DEF Over
    <3>7. \A r \in Request : \A d \in Conn : \A n \in Range(toJetson'[d]) :
            n[1] = r => n[2] \in {result[r], "failed"}
      BY <3>3, <3>4 DEF WayInv
    <3>8. ASSUME NEW r \in Request
          PROVE  /\ OnTheWay(r)' => Sent(r)' /\ ~Over(r)'
                 /\ Over(r)' => Sent(r)'
      BY <2>1, <3>5, <3>6, <3>8 DEF WayInv
    <3>9. \A r \in Request : future'[r] = "completed" => result'[r] = "completed"
      BY <1>1 DEF WayInv
    <3>. QED
      BY <1>1, <3>7, <3>8, <3>9 DEF WayInv
  <2>. QED
    BY <2>2, <2>3
<1>8. OwnedInv'
  BY <1>1, <1>2, <1>3, <1>5 DEF OwnedInv, InProgress
<1>. QED
  BY <1>3, <1>6, <1>7, <1>8

LEMMA ReceiveStep ==
  ASSUME TypeInv, LinkInv, NEW c \in Conn, Receive(c)
  PROVE  LinkInv'
<1>. USE DEF LinkInv
<1>. DEFINE x == Head(toPi[c])
<1>1. /\ Owns(c) /\ toPi[c] # <<>> /\ toPi[c] \in Seq(Request) /\ queue \in Seq(Request)
      /\ queue' = Append(queue, x)
      /\ from' = [from EXCEPT ![x] = c]
      /\ toPi' = [toPi EXCEPT ![c] = Tail(@)]
      /\ UNCHANGED <<goal, gaveUp, future, conn, up, toJetson, cut, handler, moving, result,
                     lost>>
  BY DEF Receive, askVars, linkVars, TypeInv, TypeOK
<1>2. /\ x \in Range(toPi[c]) /\ x \in Request
      /\ Range(toPi[c]) = {x} \cup Range(Tail(toPi[c]))
      /\ IsInjective(Tail(toPi[c])) /\ x \notin Range(Tail(toPi[c]))
  BY <1>1, TailRange DEF PlaceInv
<1>3. /\ x \notin Range(queue) /\ x \notin InProgress
      /\ \A d \in Conn : d # c => x \notin Range(toPi[d])
  BY <1>2 DEF PlaceInv
<1>4. Range(queue') = Range(queue) \cup {x} /\ IsInjective(queue')
  BY <1>1, <1>2, <1>3, AppendRange DEF PlaceInv
<1>5. /\ toPi'[c] = Tail(toPi[c])
      /\ \A d \in Conn : d # c => toPi'[d] = toPi[d]
  BY <1>1 DEF TypeInv, TypeOK
<1>. HIDE DEF x
<1>6. \A d \in Conn : /\ Range(toPi'[d]) \subseteq Range(toPi[d])
                      /\ x \notin Range(toPi'[d])
                      /\ IsInjective(toPi'[d])
  BY <1>2, <1>3, <1>5 DEF PlaceInv
<1>7. /\ AskInv' /\ PendingInv'
      /\ \A g \in Goal : \A d : Attended(g, d) => Attended(g, d)'
  BY <1>1, PiStep
<1>8. PlaceInv'
  <2>1. InProgress' = InProgress
    BY <1>1 DEF InProgress
  <2>2. \A d, e \in Conn : d # e => Range(toPi'[d]) \cap Range(toPi'[e]) = {}
    BY <1>6 DEF PlaceInv
  <2>3. /\ \A d \in Conn : Range(toPi'[d]) \cap Range(queue') = {}
        /\ \A d \in Conn : Range(toPi'[d]) \cap InProgress' = {}
    BY <1>4, <1>6, <2>1 DEF PlaceInv
  <2>4. Range(queue') \cap InProgress' = {}
    BY <1>3, <1>4, <2>1 DEF PlaceInv
  <2>. QED
    BY <1>4, <1>6, <2>2, <2>3, <2>4 DEF PlaceInv
<1>9. WayInv'
  <2>1. \A r \in Request : /\ Sent(r)' <=> Sent(r)
                           /\ Over(r)' <=> Over(r)
                           /\ OnTheWay(r)' => OnTheWay(r)
    BY <1>1, <1>2, <1>4, <1>6 DEF Sent, Over, OnTheWay, OnWire, InProgress
  <2>. QED
    BY <1>1, <2>1 DEF WayInv
<1>10. OwnedInv'
  <2>. SUFFICES ASSUME NEW g \in Goal PROVE OwnedInv!(g)'
    BY DEF OwnedInv
  <2>1. \A d \in Conn : Play(g) \in Range(toPi'[d]) => Attended(g, d)'
    BY <1>6, <1>7 DEF OwnedInv
  <2>2. CASE Play(g) = x
    <3>1. Attended(g, c)' /\ from'[Play(g)] = c
      BY <1>1, <1>2, <1>7, <2>2 DEF OwnedInv, TypeInv, TypeOK
    <3>. QED
      BY <1>1, <2>1, <3>1 DEF Owns
  <2>3. CASE Play(g) # x
    <3>1. from'[Play(g)] = from[Play(g)]
      BY <1>1, <2>3, Requests DEF TypeInv, TypeOK
    <3>2. Play(g) \in (Range(queue) \cup InProgress)' => Play(g) \in Range(queue) \cup InProgress
      BY <1>1, <1>4, <2>3 DEF InProgress
    <3>. QED
      BY <1>1, <1>7, <2>1, <3>1, <3>2 DEF OwnedInv, Owns
  <2>. QED
    BY <2>2, <2>3
<1>. QED
  BY <1>7, <1>8, <1>9, <1>10

LEMMA EndSessionStep ==
  ASSUME TypeInv, LinkInv, NEW c \in Conn, EndSession(c)
  PROVE  LinkInv'
<1>. USE DEF LinkInv
<1>1. /\ handler[c] # "none" /\ handler' = [handler EXCEPT ![c] = "ended"]
      /\ lost' = (lost \/ Owns(c))
      /\ cut' = cut \cup {c}
      /\ toPi' = [toPi EXCEPT ![c] = <<>>]
      /\ UNCHANGED <<goal, gaveUp, future, conn, up, toJetson, from, queue, moving, result>>
  BY DEF EndSession, Ends, askVars, linkVars
<1>2. \A d \in Conn : /\ handler'[d] # "none" => handler[d] # "none"
                      /\ Owns(d) => Owns(d)' \/ lost'
  BY <1>1 DEF Owns, TypeInv, TypeOK
<1>3. /\ AskInv' /\ PendingInv'
      /\ \A g \in Goal : \A d : Attended(g, d) => Attended(g, d)'
  BY <1>1, <1>2, PiStep
<1>4. \A d \in Conn : /\ Range(toPi'[d]) \subseteq Range(toPi[d])
                      /\ IsInjective(toPi[d]) => IsInjective(toPi'[d])
  BY <1>1, EmptyRange DEF TypeInv, TypeOK
<1>5. PlaceInv'
  BY <1>1, <1>4 DEF PlaceInv, InProgress
<1>6. WayInv'
  <2>1. \A r \in Request : /\ Sent(r)' <=> Sent(r)
                           /\ Over(r)' <=> Over(r)
                           /\ OnTheWay(r)' => OnTheWay(r)
    BY <1>1, <1>4 DEF Sent, Over, OnTheWay, OnWire, InProgress
  <2>. QED
    BY <1>1, <2>1 DEF WayInv
<1>7. OwnedInv'
  BY <1>1, <1>2, <1>3, <1>4 DEF OwnedInv, InProgress
<1>. QED
  BY <1>3, <1>5, <1>6, <1>7

LEMMA ForwardStep ==
  ASSUME TypeInv, LinkInv, NEW r \in Request, Forward(r)
  PROVE  LinkInv'
<1>. USE DEF LinkInv
<1>. DEFINE m == <<r, result[r]>>
<1>1. /\ result[r] # "none" /\ result[r] \in Terminal
      /\ UNCHANGED <<goal, gaveUp, future, conn, up, toPi, cut, handler, from, queue, moving,
                     result, lost>>
  BY DEF Forward, askVars, linkVars, TypeInv, TypeOK
<1>2. \A d \in Conn : Range(toJetson'[d]) \subseteq Range(toJetson[d]) \cup {m}
  <2>1. CASE up /\ from[r] = conn
    <3>1. conn \in Conn /\ toJetson[conn] \in Seq(Request \X Terminal)
      BY <2>1 DEF TypeInv, TypeOK
    <3>2. Range(Append(toJetson[conn], m)) = Range(toJetson[conn]) \cup {m}
      BY <1>1, <3>1, AppendRange
    <3>. QED
      BY <2>1, <3>1, <3>2 DEF Forward, TypeInv, TypeOK
  <2>2. CASE ~(up /\ from[r] = conn)
    BY <2>2 DEF Forward
  <2>. QED
    BY <2>1, <2>2
<1>3. m[1] = r /\ m[2] = result[r]
  OBVIOUS
<1>. HIDE DEF m
<1>4. /\ AskInv' /\ PendingInv'
      /\ \A g \in Goal : \A d : Attended(g, d) => Attended(g, d)'
  BY <1>1, PiStep
<1>5. PlaceInv'
  BY <1>1 DEF PlaceInv, InProgress
<1>6. WayInv'
  <2>1. \A x \in Request : /\ Sent(x)' <=> Sent(x)
                           /\ Over(x)' => Over(x)
                           /\ OnTheWay(x)' <=> OnTheWay(x)
    BY <1>1, <1>2, <1>3 DEF Sent, Over, OnTheWay, OnWire, InProgress
  <2>2. \A x \in Request : \A d \in Conn : \A n \in Range(toJetson'[d]) :
          n[1] = x => n[2] \in {result[x], "failed"}
    BY <1>2, <1>3 DEF WayInv
  <2>. QED
    BY <1>1, <2>1, <2>2 DEF WayInv
<1>7. OwnedInv'
  BY <1>1, <1>4 DEF OwnedInv, InProgress, Owns
<1>. QED
  BY <1>4, <1>5, <1>6, <1>7

-----------------------------------------------------------------------------
(* The motion controller.                                                  *)

(* A step of the controller takes commands off the way by giving them a    *)
(* result, and puts none on it.                                            *)
LEMMA ControllerKeeps ==
  ASSUME TypeInv, LinkInv, ControllerOnly,
         NEW S \in SUBSET Request,
         \A r \in S : OnTheWay(r),
         \A r \in Request \ S : result'[r] = result[r],
         Range(queue') \cup InProgress' \subseteq (Range(queue) \cup InProgress) \ S,
         Range(queue') \cap InProgress' = {}, IsInjective(queue'),
         \A r \in S : ~OnWire(r),
         ~lost' => ~lost \/ Range(queue') \cup InProgress' = {}
  PROVE  LinkInv'
<1>. USE DEF LinkInv
<1>1. UNCHANGED <<goal, gaveUp, future, conn, up, toPi, toJetson, cut, handler, from>>
  BY DEF ControllerOnly, askVars, linkVars, netVars
<1>2. /\ AskInv' /\ PendingInv'
      /\ \A g \in Goal : \A d : Attended(g, d) => Attended(g, d)'
  BY <1>1, PiStep
<1>3. PlaceInv'
  BY <1>1 DEF PlaceInv
<1>4. WayInv'
  <2>1. \A r \in Request : /\ Sent(r)' <=> Sent(r)
                           /\ OnTheWay(r)' => OnTheWay(r) /\ r \notin S
    BY <1>1 DEF Sent, OnTheWay, OnWire
  <2>2. \A r \in Request : Over(r)' => Over(r) \/ r \in S
    BY <1>1 DEF Over
  <2>3. ASSUME NEW r \in S
        PROVE  /\ Sent(r) /\ future[r] \notin Terminal
               /\ \A c \in Conn : \A m \in Range(toJetson[c]) : m[1] # r
    BY DEF WayInv, Over
  <2>4. \A r \in Request : \A c \in Conn : \A m \in Range(toJetson'[c]) :
          m[1] = r => m[2] \in {result'[r], "failed"}
    BY <1>1, <2>3 DEF WayInv
  <2>5. \A r \in Request : future'[r] = "completed" => result'[r] = "completed"
    BY <1>1, <2>3 DEF WayInv, Terminal
  <2>. QED
    BY <2>1, <2>2, <2>3, <2>4, <2>5 DEF WayInv
<1>5. OwnedInv'
  BY <1>1, <1>2 DEF OwnedInv, Owns
<1>. QED
  BY <1>2, <1>3, <1>4, <1>5

LEMMA HeadOfQueue ==
  ASSUME TypeInv, PlaceInv, queue # <<>>
  PROVE  /\ Head(queue) \in Range(queue) /\ Head(queue) \in Request
         /\ Range(Tail(queue)) = Range(queue) \ {Head(queue)}
         /\ IsInjective(Tail(queue)) /\ Head(queue) \notin InProgress
         /\ ~OnWire(Head(queue))
<1>1. queue \in Seq(Request) /\ IsInjective(queue)
  BY DEF TypeInv, TypeOK, PlaceInv
<1>2. /\ Head(queue) \in Range(queue) /\ Head(queue) \in Request
      /\ Range(queue) = {Head(queue)} \cup Range(Tail(queue))
      /\ IsInjective(Tail(queue)) /\ Head(queue) \notin Range(Tail(queue))
  BY <1>1, TailRange
<1>. QED
  BY <1>2 DEF PlaceInv, OnWire

LEMMA InProgressFacts ==
  ASSUME TypeInv, PlaceInv
  PROVE  /\ InProgress \subseteq Request
         /\ \A r \in InProgress : r \notin Range(queue) /\ ~OnWire(r)
BY Requests DEF InProgress, TypeInv, TypeOK, PlaceInv, OnWire

LEMMA ControllerStep ==
  ASSUME TypeInv, LinkInv, Controller
  PROVE  LinkInv'
<1>1. PlaceInv
  BY DEF LinkInv
<1>2. CASE RefuseCommand
  <2>1. /\ queue # <<>> /\ queue' = Tail(queue) /\ InProgress' = InProgress
        /\ lost' = lost /\ ControllerOnly
        /\ \A r \in Request \ {Head(queue)} : result'[r] = result[r]
    BY <1>2 DEF RefuseCommand, EndsWith, InProgress, TypeInv, TypeOK
  <2>. DEFINE S == {Head(queue)}
  <2>2. /\ S \in SUBSET Request /\ \A r \in S : OnTheWay(r) /\ ~OnWire(r)
        /\ Range(queue') \cup InProgress' \subseteq (Range(queue) \cup InProgress) \ S
        /\ Range(queue') \cap InProgress' = {} /\ IsInjective(queue')
    BY <1>1, <2>1, HeadOfQueue DEF OnTheWay, PlaceInv
  <2>. QED
    BY <2>1, <2>2, ControllerKeeps
<1>3. ASSUME NEW g \in Goal, PlayMotion(g) PROVE LinkInv'
  <2>1. /\ queue # <<>> /\ Head(queue) = Play(g) /\ queue' = Tail(queue)
        /\ moving' = g /\ lost' = lost /\ ControllerOnly
        /\ \A r \in Request \ InProgress : result'[r] = result[r]
    BY <1>3 DEF PlayMotion, EndsWith, TypeInv, TypeOK
  <2>2. InProgress' = {Head(queue)}
    BY <2>1, Constants DEF InProgress
  <2>3. /\ InProgress \in SUBSET Request /\ \A r \in InProgress : OnTheWay(r) /\ ~OnWire(r)
        /\ Range(queue') \cup InProgress' \subseteq (Range(queue) \cup InProgress) \ InProgress
        /\ Range(queue') \cap InProgress' = {} /\ IsInjective(queue')
    BY <1>1, <2>1, <2>2, HeadOfQueue, InProgressFacts DEF OnTheWay
  <2>. QED
    BY <2>1, <2>3, ControllerKeeps
<1>4. ASSUME NEW g \in Goal, CancelMotion(g) PROVE LinkInv'
  <2>. DEFINE S == {Play(g), Cancel(g)}
  <2>1. /\ queue # <<>> /\ Head(queue) = Cancel(g) /\ queue' = Tail(queue)
        /\ moving = g /\ moving' = NoGoal /\ lost' = lost /\ ControllerOnly
        /\ \A r \in Request \ S : result'[r] = result[r]
    BY <1>4 DEF CancelMotion, TypeInv, TypeOK
  <2>2. InProgress' = {} /\ InProgress = {Play(g)}
    BY <2>1, Constants DEF InProgress
  <2>3. /\ S \in SUBSET Request /\ \A r \in S : OnTheWay(r) /\ ~OnWire(r)
        /\ Range(queue') \cup InProgress' \subseteq (Range(queue) \cup InProgress) \ S
        /\ Range(queue') \cap InProgress' = {} /\ IsInjective(queue')
    BY <1>1, <2>1, <2>2, HeadOfQueue, InProgressFacts DEF OnTheWay
  <2>. HIDE DEF S
  <2>. QED
    BY <2>1, <2>3, ControllerKeeps
<1>5. CASE Finish
  <2>1. /\ moving' = NoGoal /\ queue' = queue /\ lost' = lost /\ ControllerOnly
        /\ \A r \in Request \ InProgress : result'[r] = result[r]
    BY <1>5 DEF Finish, EndsWith, TypeInv, TypeOK
  <2>2. InProgress' = {}
    BY <2>1 DEF InProgress
  <2>3. /\ InProgress \in SUBSET Request /\ \A r \in InProgress : OnTheWay(r) /\ ~OnWire(r)
        /\ Range(queue') \cup InProgress' \subseteq (Range(queue) \cup InProgress) \ InProgress
        /\ Range(queue') \cap InProgress' = {} /\ IsInjective(queue')
    BY <1>1, <2>1, <2>2, InProgressFacts DEF OnTheWay, PlaceInv
  <2>. QED
    BY <2>1, <2>3, ControllerKeeps
<1>6. CASE SafeDisconnect
  <2>. DEFINE S == Range(queue) \cup InProgress
  <2>1. /\ moving' = NoGoal /\ queue' = <<>> /\ ControllerOnly
        /\ \A r \in Request \ S : result'[r] = result[r]
    BY <1>6 DEF SafeDisconnect, EndsWith, TypeInv, TypeOK
  <2>2. InProgress' = {} /\ Range(queue') = {} /\ IsInjective(queue')
    BY <2>1, EmptyRange DEF InProgress
  <2>3. queue \in Seq(Request) /\ Range(queue) \subseteq Request
    BY DEF TypeInv, TypeOK, Range
  <2>4. S \in SUBSET Request /\ \A r \in S : OnTheWay(r) /\ ~OnWire(r)
    BY <1>1, <2>3, InProgressFacts DEF OnTheWay, OnWire, PlaceInv
  <2>5. Range(queue') \cup InProgress' = {}
    BY <2>2
  <2>. HIDE DEF S
  <2>. QED
    BY <2>1, <2>2, <2>4, <2>5, ControllerKeeps
<1>. QED
  BY <1>2, <1>3, <1>4, <1>5, <1>6 DEF Controller

-----------------------------------------------------------------------------
(* The invariant, and what it is for.                                      *)

LEMMA StepLinkInv == TypeInv /\ LinkInv /\ [Next]_vars => LinkInv'
<1>. SUFFICES ASSUME TypeInv, LinkInv, [Next]_vars PROVE LinkInv'
  OBVIOUS
<1>1. CASE UNCHANGED vars
  BY <1>1 DEF vars, askVars, linkVars, netVars, piVars, LinkInv, AskInv, PendingInv,
              PlaceInv, WayInv, OwnedInv, Sent, OnTheWay, OnWire, InProgress, Over,
              Attended, Owns
<1>2. CASE Transport
  BY <1>2, ConnectStep, SendStep, TimeoutStep, ReadAnswerStep, LoseStep, BreakStep
     DEF Transport
<1>3. CASE Server
  BY <1>3, AuthenticateStep, RefuseStep, ReceiveStep, EndSessionStep, ForwardStep
     DEF Server
<1>. QED
  BY <1>1, <1>2, <1>3, AskStep, ControllerStep DEF Next

LEMMA LinkInvariant == Spec => [](TypeInv /\ LinkInv)
<1>1. TypeInv /\ LinkInv /\ [Next]_vars => (TypeInv /\ LinkInv)'
  BY StepTypeInv, StepLinkInv
<1>. QED
  BY <1>1, InitTypeInv, InitLinkInv, PTL DEF Spec

(* Whatever breaks, and however often: the arm moves only for a goal that  *)
(* somebody waits for, or until the loss of its session is noticed, unless *)
(* the goal was given up.                                                  *)
THEOREM MovesForSomebody == Spec => []MovingIsAwaited
<1>1. TypeInv /\ LinkInv => MovingIsAwaited
  <2>. SUFFICES ASSUME TypeInv, LinkInv, NEW g \in Goal, moving = g
                PROVE  MovingIsAwaited!(g)!2
    BY DEF MovingIsAwaited
  <2>1. Play(g) \in InProgress
    BY Constants DEF InProgress
  <2>. QED
    BY <2>1 DEF LinkInv, OwnedInv, Attended
<1>. QED
  BY <1>1, LinkInvariant, PTL

(* What a goal reports is what the arm did, in whatever order the answers  *)
(* come and whatever connection they belong to.                            *)
THEOREM EndsAreTrue == Spec => []EndIsTrue
<1>1. TypeInv /\ LinkInv => EndIsTrue
  <2>. SUFFICES ASSUME TypeInv, LinkInv, NEW g \in Goal
                PROVE  /\ goal[g] = "succeeded" => result[Play(g)] = "completed"
                       /\ goal[g] = "canceled" => ~MayMove(g)
    BY DEF EndIsTrue
  <2>1. goal[g] = "succeeded" => result[Play(g)] = "completed"
    BY Requests DEF LinkInv, AskInv, WayInv
  <2>2. ASSUME goal[g] = "canceled" PROVE ~MayMove(g)
    <3>1. future[Play(g)] \in Terminal
      BY <2>2 DEF LinkInv, AskInv
    <3>2. ~OnTheWay(Play(g)) /\ future[Play(g)] # "submitted"
      BY <3>1, Requests DEF LinkInv, WayInv, Over, Terminal
    <3>3. moving # g
      BY <3>2, Constants DEF OnTheWay, InProgress
    <3>. QED
      BY <3>2, <3>3 DEF MayMove, OnTheWay, OnWire
  <2>. QED
    BY <2>1, <2>2
<1>. QED
  BY <1>1, LinkInvariant, PTL
=============================================================================
