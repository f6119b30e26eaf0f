---------------------------- MODULE PlaybackProofs ----------------------------
(***************************************************************************)
(* Theorems about Playback, for any number of replies and of failures.     *)
(***************************************************************************)
EXTENDS PlaybackProperties, FiniteSetTheorems, TLAPS

-----------------------------------------------------------------------------
(* The inductive invariant.                                                *)

Active == {"starting", "playing", "stopping", "cleaning"}
Asking == {"queued", "spawning"}

\* The read loop is in the middle of a message, about the current stream.
ReaderInv ==
  /\ reader # "ready" => toNode # <<>> /\ cur # NoTurn
  /\ reader = "noHandle" => toNode[1].k = "barge"

\* What the turns so far can have sent: a begin, an end and a barge each.
MostMessages ==
  IF turn = NoTurn THEN 0
  ELSE 3 * (turn - 1) + (IF speak[turn] \in {"none", "begun"} THEN 0
                         ELSE IF speak[turn] = "sending" THEN 1 ELSE 2)
                      + (IF agent = "speaking" THEN 0 ELSE 1)

(* Turns are begun in order; the agent leaves one only when it has been    *)
(* interrupted or its thread is through.                                   *)
TurnInv ==
  /\ agent = "speaking" => turn # NoTurn
  /\ Len(toNode) <= MostMessages
  /\ \A t \in Turn : t > turn <=> speak[t] = "none"
  /\ turn # NoTurn /\ agent # "speaking" /\ turn \notin stop =>
       speak[turn] = "finished" /\ turn \in (Turn \ spoke) \cup done \cup impatient
  /\ done \subseteq stop \cup reported /\ answers \subseteq reported

Begins(i) == toNode[i].k = "begin"

\* The current turn's stream has been, or is about to be, begun.
Begun ==
  \/ cur = turn
  \/ \E i \in DOMAIN toNode : Begins(i) /\ toNode[i].t = turn

(* Messages come in the order of the turns; of a turn the sound comes      *)
(* after its only begin.                                                   *)
QueueInv ==
  /\ cur <= turn
  /\ \A i \in DOMAIN toNode : toNode[i].t <= turn
  /\ \A i, j \in DOMAIN toNode : i < j => toNode[i].t <= toNode[j].t
  /\ \A i \in DOMAIN toNode : Begins(i) => toNode[i].t > cur
  /\ \A i, j \in DOMAIN toNode :
       Begins(i) /\ Begins(j) /\ toNode[i].t = toNode[j].t => i = j
  /\ \A i \in DOMAIN toNode : toNode[i].k = "audio" =>
       \/ cur = toNode[i].t
       \/ \E j \in DOMAIN toNode : j < i /\ Begins(j) /\ toNode[j].t = toNode[i].t
  /\ turn # NoTurn => /\ speak[turn] = "begun" => ~Begun
                      /\ speak[turn] = "sending" => Begun

(* Streams get their goals in order, and the next one only when the result *)
(* of the one before is there, but for one that has been abandoned.  The   *)
(* bridge executes one goal at a time.                                     *)
StreamInv ==
  /\ reader \in {"leaving", "abandoning"} => abandoned # {}
  /\ playDone /\ cur # NoTurn => cur \in reported
  /\ \A t \in Turn :
       /\ t > cur => goal[t] = "none" /\ t \notin reported
       /\ t \in results => goal[t] = "done"
       /\ t \in reported => goal[t] \in {"none", "done"}
       /\ abandoned = {} /\ t # cur => goal[t] \in {"none", "done"}
       /\ goal[t] \in Active <=> owner = t

(* What a goal has asked of the Pi, and what has come of it.               *)
RequestInv ==
  \A t \in Turn :
    /\ goal[t] \in {"none", "sent", "accepted"} => startReq[t] = "none"
    /\ goal[t] \in {"playing", "stopping", "cleaning"} => startReq[t] = "ok"
    /\ goal[t] = "playing" => stopReq[t] = "none"
    /\ stopReq[t] # "none" => startReq[t] = "ok" /\ goal[t] # "starting"
    /\ proc[t] # "none" => startReq[t] = "ok"
    /\ startReq[t] \in Asking => link # "down"
    /\ t \in broken => goal[t] \in {"starting", "stopping", "cleaning"}
    /\ t \in broken /\ startReq[t] \in Asking => link = "lost"

(* Unless one has been left behind: the process that plays is the one the  *)
(* Pi knows of, one start at a time is under way, and what runs belongs to *)
(* a goal that will stop it.                                               *)
ProcessInv ==
  stray = {} =>
    /\ \A t \in Turn :
         /\ Alive(t) => playing = t
         /\ startReq[t] \in Asking => goal[t] = "starting" \/ link = "lost"
         /\ startReq[t] = "spawning" => \A u \in Turn : ~Alive(u)
         /\ stopReq[t] \in {"draining", "answered"} => proc[t] # "running"
         /\ proc[t] = "running" => /\ goal[t] \in Active \/ link = "lost"
                                   /\ link # "down"
                                   /\ t \in broken => link = "lost"
    /\ \A t, u \in Turn : startReq[t] \in Asking /\ startReq[u] \in Asking => t = u

\* Without a failure a goal that is over has left nothing that plays.
FaultlessInv ==
  faults = 0 =>
    /\ link = "up" /\ broken = {} /\ stray = {}
    /\ \A t \in Turn : stopReq[t] = "answered" \/ goal[t] = "done" => ~Alive(t)

SpeakingInv ==
  ReaderInv /\ TurnInv /\ QueueInv /\ StreamInv /\ RequestInv /\ ProcessInv /\ FaultlessInv

-----------------------------------------------------------------------------
(* Turns and sequences.                                                    *)

LEMMA Numbers ==
  /\ Turns \in Nat /\ NoTurn = 0 /\ NoTurn \notin Turn
  /\ \A t \in Turn : t \in Nat \ {0} /\ t <= Turns
BY PlaybackAssumption DEF Turn, NoTurn

LEMMA Tails ==
  ASSUME NEW S, NEW s \in Seq(S), s # <<>>
  PROVE  /\ Head(s) = s[1] /\ 1 \in DOMAIN s /\ Tail(s) \in Seq(S)
         /\ Len(s) \in Nat \ {0} /\ Len(Tail(s)) = Len(s) - 1
         /\ DOMAIN s = 1 .. Len(s) /\ DOMAIN Tail(s) = 1 .. (Len(s) - 1)
         /\ \A i \in DOMAIN Tail(s) : i + 1 \in DOMAIN s /\ Tail(s)[i] = s[i + 1]
         /\ \A i \in DOMAIN s : i # 1 => i - 1 \in DOMAIN Tail(s) /\ Tail(s)[i - 1] = s[i]
OBVIOUS

LEMMA Appends ==
  ASSUME NEW S, NEW s \in Seq(S), NEW e \in S
  PROVE  /\ Append(s, e) \in Seq(S)
         /\ Len(s) \in Nat /\ Len(Append(s, e)) = Len(s) + 1
         /\ DOMAIN s = 1 .. Len(s) /\ DOMAIN Append(s, e) = 1 .. (Len(s) + 1)
         /\ \A i \in DOMAIN s : i \in DOMAIN Append(s, e) /\ Append(s, e)[i] = s[i]
         /\ Append(s, e)[Len(s) + 1] = e
         /\ \A i \in DOMAIN Append(s, e) : i \in DOMAIN s \/ i = Len(s) + 1
OBVIOUS

LEMMA Messages ==
  ASSUME NEW k \in {"begin", "audio", "barge"}, NEW t \in Turn
  PROVE  /\ [k |-> k, t |-> t] \in Message
         /\ [k |-> k, t |-> t].k = k /\ [k |-> k, t |-> t].t = t
BY DEF Message

-----------------------------------------------------------------------------
(* The agent's turns.                                                      *)

\* What is sent is one message more, or none.
LEMMA SendAsLen ==
  ASSUME TypeOK, NEW t \in Turn, NEW k \in {"begin", "audio", "barge"}, SendAs(t, k)
  PROVE  /\ Len(toNode') \in Nat
         /\ turn = t => Len(toNode') = Len(toNode) + 1
         /\ turn # t => toNode' = toNode
BY Messages, Appends DEF SendAs, TypeOK

LEMMA AgentTurns ==
  ASSUME TypeOK, TurnInv, Agent
  PROVE  TurnInv'
<1>. USE Numbers
<1>1. /\ turn \in Nat /\ Len(toNode) \in Nat /\ reported' = reported
      /\ speak \in [Turn -> {"none", "begun", "sending", "waiting", "finished"}]
      /\ turn # NoTurn => turn \in Turn
  BY DEF TypeOK, Agent, Hear, BargeIn, BeginTurn, SpeakThread, SendBegin, SendAudio,
         FinishTurn, PlayDone, BeyondAgent, nodeVars
<1>2. CASE Hear
  BY <1>1, <1>2 DEF Hear, TurnInv, MostMessages
<1>3. CASE BargeIn
  <2>1. [k |-> "barge", t |-> turn] \in Message
    BY <1>1, <1>3, Messages DEF BargeIn, TurnInv
  <2>2. Len(toNode') = Len(toNode) + 1
    BY <1>3, <2>1, Appends DEF BargeIn, TypeOK
  <2>. QED
    BY <1>1, <1>3, <2>2 DEF BargeIn, TurnInv, MostMessages
<1>4. ASSUME NEW t \in Turn, BeginTurn(t) PROVE TurnInv'
  <2>1. /\ agent = "hearing" /\ t = turn + 1 /\ turn' = t /\ agent' = "speaking"
        /\ speak' = [speak EXCEPT ![t] = "begun"] /\ toNode' = toNode
        /\ answers' = answers
        /\ stop' = stop \cup ({turn} \ {NoTurn}) /\ done' = done \cup ({turn} \ {NoTurn})
    BY <1>4 DEF BeginTurn
  <2>2. Len(toNode') <= MostMessages'
    BY <1>1, <2>1 DEF TurnInv, MostMessages
  <2>3. \A u \in Turn : u > turn' <=> speak'[u] = "none"
    BY <1>1, <2>1 DEF TurnInv
  <2>. QED
    BY <1>1, <2>1, <2>2, <2>3 DEF TurnInv
<1>5. ASSUME NEW t \in Turn, SpeakThread(t) PROVE TurnInv'
  <2>1. /\ turn' = turn /\ stop' = stop /\ done' = done /\ answers' = answers
        /\ speak[t] # "none" /\ t <= turn
    BY <1>1, <1>5
       DEF SpeakThread, SendBegin, SendAudio, FinishTurn, TurnInv
  <2>2. CASE SendBegin(t)
    <3>1. /\ speak[t] = "begun" /\ speak' = [speak EXCEPT ![t] = "sending"]
          /\ agent' = agent /\ spoke' = spoke /\ impatient' = impatient
          /\ SendAs(t, "begin")
      BY <2>2 DEF SendBegin
    <3>2. Len(toNode') <= MostMessages'
      BY <1>1, <2>1, <3>1, SendAsLen DEF TurnInv, MostMessages
    <3>. QED
      BY <1>1, <2>1, <3>1, <3>2 DEF TurnInv
  <2>3. CASE SendAudio(t)
    <3>1. /\ speak[t] = "sending" /\ speak' = [speak EXCEPT ![t] = "waiting"]
          /\ agent' = agent /\ spoke' \subseteq spoke \cup {t} /\ impatient' = impatient
          /\ SendAs(t, "audio")
      BY <2>3 DEF SendAudio
    <3>2. Len(toNode') <= MostMessages'
      BY <1>1, <2>1, <3>1, SendAsLen DEF TurnInv, MostMessages
    <3>. QED
      BY <1>1, <2>1, <3>1, <3>2 DEF TurnInv
  <2>4. CASE FinishTurn(t)
    <3>1. /\ speak[t] = "waiting" /\ speak' = [speak EXCEPT ![t] = "finished"]
          /\ agent' = (IF agent = "speaking" /\ turn = t THEN "idle" ELSE agent)
          /\ spoke' = spoke /\ toNode' = toNode
          /\ impatient \subseteq impatient'
          /\ t \notin spoke \/ t \in stop \/ t \in done \/ t \in impatient'
      BY <2>4 DEF FinishTurn
    <3>2. Len(toNode') <= MostMessages'
      BY <1>1, <2>1, <3>1 DEF TurnInv, MostMessages
    <3>. QED
      BY <1>1, <2>1, <3>1, <3>2 DEF TurnInv
  <2>. QED
    BY <1>5, <2>2, <2>3, <2>4 DEF SpeakThread
<1>6. ASSUME NEW t \in Turn, PlayDone(t) PROVE TurnInv'
  BY <1>1, <1>6 DEF PlayDone, TurnInv, MostMessages
<1>. QED
  BY <1>2, <1>3, <1>4, <1>5, <1>6 DEF Agent

\* Beyond the agent a message may be taken, and a stream reported.
LEMMA OtherTurns ==
  ASSUME TypeOK, TurnInv, UNCHANGED agentVars,
         toNode' = toNode \/ (toNode # <<>> /\ toNode' = Tail(toNode)),
         NEW S, reported' = reported \cup S, answers' \subseteq answers \cup S
  PROVE  TurnInv'
<1>1. Len(toNode') <= Len(toNode) /\ Len(toNode') \in Nat /\ Len(toNode) \in Nat
  BY Tails DEF TypeOK
<1>2. MostMessages' = MostMessages /\ MostMessages \in Nat
  BY Numbers DEF MostMessages, agentVars, TypeOK
<1>. QED
  BY <1>1, <1>2 DEF TurnInv, agentVars

LEMMA TurnStep == TypeOK /\ ReaderInv /\ TurnInv /\ [Next]_vars => TurnInv'
<1>. SUFFICES ASSUME TypeOK, ReaderInv, TurnInv, [Next]_vars PROVE TurnInv'
  OBVIOUS
<1>1. CASE UNCHANGED vars
  <2>1. UNCHANGED agentVars /\ UNCHANGED <<toNode, answers, reported>>
    BY <1>1 DEF vars, nodeVars
  <2>. QED
    BY <2>1, OtherTurns
<1>2. CASE Reader
  <2>1. UNCHANGED agentVars
    BY <1>2 DEF Reader, StartPlayback, StopWaiting, Abandon, TakeAudio, CancelPlayback,
                MarkCancelPending, BeyondNode
  <2>2. \/ toNode' = toNode
        \/ toNode # <<>> /\ toNode' = Tail(toNode)
    BY <1>2 DEF Reader, StartPlayback, StopWaiting, Abandon, TakeAudio, CancelPlayback,
                MarkCancelPending, ReaderInv, NewStream, Reads
  <2>3. \E S : reported' = reported \cup S /\ answers' \subseteq answers \cup S
    BY <1>2 DEF Reader, StartPlayback, StopWaiting, Abandon, TakeAudio, CancelPlayback,
                MarkCancelPending, NewStream
  <2>. QED
    BY <2>1, <2>2, <2>3, OtherTurns
<1>3. CASE Callbacks
  <2>1. UNCHANGED agentVars /\ toNode' = toNode
    BY <1>3 DEF Callbacks, GoalAccepted, AfterAccepted, GoalResult, NodeOnly, BeyondNode
  <2>2. \E S : reported' = reported \cup S /\ answers' \subseteq answers \cup S
    BY <1>3 DEF Callbacks, GoalAccepted, AfterAccepted, GoalResult, Report
  <2>. QED
    BY <2>1, <2>2, OtherTurns
<1>4. CASE Bridge \/ Pi
  <2>1. UNCHANGED agentVars /\ UNCHANGED <<toNode, answers, reported>>
    BY <1>4 DEF Bridge, ServerAnswers, Busy, Execute, StartAnswered, StartBroken,
                StartTimesOut, SessionEnds, StopAnswered, StopFails, BeyondBridge,
                Pi, LoseLink, PiNotices, Reconnect, PlayStart, PlayStarted, PlayStop,
                ProcessEnds, BeyondPi, nodeVars
  <2>. QED
    BY <2>1, OtherTurns
<1>. QED
  BY <1>1, <1>2, <1>3, <1>4, AgentTurns DEF Next

-----------------------------------------------------------------------------
(* Types.                                                                  *)

LEMMA InitTypes == Init => TypeOK /\ SpeakingInv
<1>. SUFFICES ASSUME Init PROVE TypeOK /\ SpeakingInv
  OBVIOUS
<1>. USE Numbers
<1>1. <<>> \in Seq(Message) /\ Len(<<>>) = 0 /\ DOMAIN <<>> = {}
  OBVIOUS
<1>2. TypeOK
  BY <1>1, PlaybackAssumption DEF Init, TypeOK, Flags
<1>3. ReaderInv /\ TurnInv
  BY <1>1 DEF Init, ReaderInv, TurnInv, MostMessages
<1>4. QueueInv
  BY <1>1 DEF Init, QueueInv
<1>5. StreamInv /\ RequestInv
  BY DEF Init, StreamInv, RequestInv, Active, Asking
<1>6. ProcessInv /\ FaultlessInv
  BY DEF Init, ProcessInv, FaultlessInv, Active, Asking, Alive
<1>. QED
  BY <1>2, <1>3, <1>4, <1>5, <1>6 DEF SpeakingInv

LEMMA ReaderStep == TypeOK /\ TurnInv /\ ReaderInv /\ [Next]_vars => ReaderInv'
<1>. SUFFICES ASSUME TypeOK, TurnInv, ReaderInv, [Next]_vars PROVE ReaderInv'
  OBVIOUS
<1>1. CASE Agent
  <2>1. reader' = reader /\ cur' = cur
    BY <1>1 DEF Agent, Hear, BargeIn, BeginTurn, SpeakThread, SendBegin, SendAudio,
                FinishTurn, PlayDone, BeyondAgent, nodeVars
  <2>2. toNode' = toNode \/ \E m \in Message : toNode' = Append(toNode, m)
    <3>1. BargeIn => [k |-> "barge", t |-> turn] \in Message
      BY Messages DEF BargeIn, TurnInv, TypeOK
    <3>. QED
      BY <1>1, <3>1, Messages
         DEF Agent, Hear, BargeIn, BeginTurn, SpeakThread, SendBegin, SendAudio,
             FinishTurn, PlayDone, SendAs
  <2>3. toNode' = toNode \/ (toNode' # <<>> /\ (toNode # <<>> => toNode'[1] = toNode[1]))
    BY <2>2 DEF TypeOK
  <2>. QED
    BY <2>1, <2>3 DEF ReaderInv
<1>2. CASE Reader
  <2>1. toNode # <<>> => Head(toNode) = toNode[1]
    BY DEF TypeOK
  <2>. QED
    BY <1>2, <2>1
       DEF Reader, StartPlayback, StopWaiting, Abandon, TakeAudio, CancelPlayback,
           MarkCancelPending, NewStream, Reads, ReaderInv
<1>3. CASE Callbacks \/ Bridge \/ Pi \/ UNCHANGED vars
  <2>1. UNCHANGED <<reader, cur, toNode>>
    BY <1>3 DEF Callbacks, GoalAccepted, AfterAccepted, GoalResult, NodeOnly,
                Bridge, ServerAnswers, Busy, Execute, StartAnswered, StartBroken,
                StartTimesOut, SessionEnds, StopAnswered, StopFails, BeyondBridge,
                Pi, LoseLink, PiNotices, Reconnect, PlayStart, PlayStarted, PlayStop,
                ProcessEnds, BeyondPi, nodeVars, vars
  <2>. QED
    BY <2>1 DEF ReaderInv
<1>. QED
  BY <1>1, <1>2, <1>3 DEF Next

LEMMA AgentTypes ==
  ASSUME TypeOK, TurnInv, TurnInv', Agent
  PROVE  TypeOK'
<1>. USE Numbers
<1>1. UNCHANGED <<nodeVars, bridgeVars, cancelReq, linkVars, piVars>>
  BY DEF Agent, Hear, BargeIn, BeginTurn, SpeakThread, SendBegin, SendAudio,
         FinishTurn, PlayDone, BeyondAgent
<1>2. faults' \in 0 .. MaxFaults
  BY PlaybackAssumption
     DEF Agent, Hear, BargeIn, BeginTurn, SpeakThread, SendBegin, SendAudio,
         FinishTurn, PlayDone, Regular, Fails, TypeOK
<1>3. /\ turn \in Turn \cup {NoTurn}
      /\ speak \in [Turn -> {"none", "begun", "sending", "waiting", "finished"}]
      /\ stop \subseteq Turn /\ done \subseteq Turn /\ spoke \subseteq Turn
      /\ impatient \subseteq Turn /\ answers \subseteq Turn
      /\ agent \in {"idle", "hearing", "speaking"}
      /\ agent = "speaking" => turn \in Turn
  BY DEF TypeOK, Flags, TurnInv
<1>6. /\ agent' \in {"idle", "hearing", "speaking"}
      /\ turn' \in Turn \cup {NoTurn}
      /\ speak' \in [Turn -> {"none", "begun", "sending", "waiting", "finished"}]
  BY <1>3 DEF Agent, Hear, BargeIn, BeginTurn, SpeakThread, SendBegin, SendAudio,
              FinishTurn, PlayDone
<1>7. /\ stop' \subseteq Turn /\ done' \subseteq Turn /\ spoke' \subseteq Turn
      /\ impatient' \subseteq Turn /\ answers' \subseteq Turn
  BY <1>3 DEF Agent, Hear, BargeIn, BeginTurn, SpeakThread, SendBegin, SendAudio,
              FinishTurn, PlayDone
<1>4. toNode' \in Seq(Message)
  <2>1. ASSUME NEW k \in {"begin", "audio", "barge"}, NEW t \in Turn,
               toNode' = Append(toNode, [k |-> k, t |-> t])
        PROVE  toNode' \in Seq(Message)
    BY <2>1, Messages, Appends DEF TypeOK
  <2>2. CASE BargeIn
    BY <1>3, <2>1, <2>2 DEF BargeIn
  <2>3. ASSUME NEW t \in Turn, NEW k \in {"begin", "audio"}, SendAs(t, k)
        PROVE  toNode' \in Seq(Message)
    BY <2>1, <2>3 DEF SendAs, TypeOK
  <2>4. \/ toNode' = toNode \/ BargeIn
        \/ \E t \in Turn : SendAs(t, "begin") \/ SendAs(t, "audio")
    BY DEF Agent, Hear, BeginTurn, SpeakThread, SendBegin, SendAudio,
           FinishTurn, PlayDone
  <2>. QED
    BY <2>2, <2>3, <2>4 DEF TypeOK
<1>5. Len(toNode') <= 3 * Turns
  <2>1. Len(toNode') \in Nat /\ Len(toNode') <= MostMessages'
    BY <1>4 DEF TurnInv
  <2>2. MostMessages' <= 3 * Turns
    BY <1>6 DEF MostMessages
  <2>3. MostMessages' \in Nat
    BY <1>6 DEF MostMessages
  <2>. QED
    BY <2>1, <2>2, <2>3
<1>. QED
  BY <1>1, <1>2, <1>4, <1>5, <1>6, <1>7
     DEF TypeOK, Flags, nodeVars, bridgeVars, linkVars, piVars

LEMMA ReaderTypes ==
  ASSUME TypeOK, ReaderInv, Reader
  PROVE  TypeOK'
<1>. USE Numbers
<1>1. UNCHANGED <<agentVars, owner, results, linkVars, piVars, stray>>
  BY DEF Reader, StartPlayback, StopWaiting, Abandon, TakeAudio, CancelPlayback,
         MarkCancelPending, BeyondNode
<1>2. faults' \in 0 .. MaxFaults
  BY PlaybackAssumption
     DEF Reader, StartPlayback, StopWaiting, Abandon, TakeAudio, CancelPlayback,
         MarkCancelPending, NewStream, Regular, Fails, TypeOK
<1>3. toNode' \in Seq(Message) /\ Len(toNode') <= 3 * Turns
  <2>1. toNode' = toNode \/ (toNode # <<>> /\ toNode' = Tail(toNode))
    BY DEF Reader, StartPlayback, StopWaiting, Abandon, TakeAudio, CancelPlayback,
           MarkCancelPending, ReaderInv, NewStream, Reads
  <2>2. toNode \in Seq(Message) /\ Len(toNode) <= 3 * Turns /\ 3 * Turns \in Nat
    BY DEF TypeOK
  <2>. QED
    BY <2>1, <2>2, Tails
<1>4. /\ cur \in Turn \cup {NoTurn} /\ (reader # "ready" => cur \in Turn)
      /\ cancelled \subseteq Turn /\ reported \subseteq Turn /\ answers \subseteq Turn
      /\ abandoned \subseteq Turn /\ cancelPending \subseteq Turn
      /\ cancelReq \subseteq Turn /\ handle \subseteq Turn
      /\ goal \in [Turn -> {"none", "sent", "accepted", "starting", "playing",
                            "stopping", "cleaning", "done"}]
  BY DEF TypeOK, Flags, ReaderInv
<1>5. /\ cancelled' \subseteq Turn /\ reported' \subseteq Turn /\ answers' \subseteq Turn
      /\ abandoned' \subseteq Turn /\ cancelPending' \subseteq Turn
      /\ cancelReq' \subseteq Turn /\ handle' \subseteq Turn
  BY <1>4 DEF Reader, StartPlayback, StopWaiting, Abandon, TakeAudio, CancelPlayback,
              MarkCancelPending, NewStream
<1>6. /\ goal' \in [Turn -> {"none", "sent", "accepted", "starting", "playing",
                             "stopping", "cleaning", "done"}]
      /\ cur' \in Turn \cup {NoTurn}
  BY <1>4 DEF Reader, StartPlayback, StopWaiting, Abandon, TakeAudio, CancelPlayback,
              MarkCancelPending, NewStream
<1>7. /\ reader' \in {"ready", "noHandle", "leaving", "abandoning"}
      /\ playDone' \in BOOLEAN /\ executor' = executor
  BY DEF Reader, StartPlayback, StopWaiting, Abandon, TakeAudio, CancelPlayback,
         MarkCancelPending, NewStream, TypeOK
<1>. QED
  BY <1>1, <1>2, <1>3, <1>5, <1>6, <1>7
     DEF TypeOK, Flags, agentVars, linkVars, piVars

LEMMA CallbackTypes ==
  ASSUME TypeOK, Callbacks
  PROVE  TypeOK'
<1>1. /\ UNCHANGED <<reader, cur, abandoned, toNode, goal>>
      /\ UNCHANGED <<agentVars, owner, results, linkVars, piVars, stray, faults>>
  BY DEF Callbacks, GoalAccepted, AfterAccepted, GoalResult, NodeOnly, BeyondNode, Regular
<1>2. /\ handle \subseteq Turn /\ reported \subseteq Turn /\ cancelled \subseteq Turn
      /\ answers \subseteq Turn /\ cancelPending \subseteq Turn /\ cancelReq \subseteq Turn
  BY DEF TypeOK, Flags
<1>3. /\ handle' \subseteq Turn /\ reported' \subseteq Turn /\ cancelled' \subseteq Turn
      /\ answers' \subseteq Turn /\ cancelPending' \subseteq Turn /\ cancelReq' \subseteq Turn
  BY <1>2 DEF Callbacks, GoalAccepted, AfterAccepted, GoalResult, Report
<1>4. executor' \in Turn \cup {NoTurn} /\ playDone' \in BOOLEAN
  BY DEF Callbacks, GoalAccepted, AfterAccepted, GoalResult, Report, TypeOK
<1>. QED
  BY <1>1, <1>3, <1>4 DEF TypeOK, Flags, agentVars, linkVars, piVars

LEMMA BridgeTypes ==
  ASSUME TypeOK, Bridge
  PROVE  TypeOK'
<1>1. UNCHANGED <<agentVars, toNode, answers, nodeVars, cancelReq, link, proc, playing>>
  BY DEF Bridge, ServerAnswers, Busy, Execute, StartAnswered, StartBroken,
         StartTimesOut, SessionEnds, StopAnswered, StopFails, BeyondBridge
<1>2. faults' \in 0 .. MaxFaults
  BY PlaybackAssumption
     DEF Bridge, ServerAnswers, Busy, Execute, StartAnswered, StartBroken,
         StartTimesOut, SessionEnds, StopAnswered, StopFails, Regular, Fails, TypeOK
<1>3. /\ results \subseteq Turn /\ stray \subseteq Turn /\ broken \subseteq Turn
      /\ owner \in Turn \cup {NoTurn}
      /\ goal \in [Turn -> {"none", "sent", "accepted", "starting", "playing",
                            "stopping", "cleaning", "done"}]
      /\ startReq \in [Turn -> {"none", "queued", "spawning", "ok", "failed"}]
      /\ stopReq \in [Turn -> {"none", "queued", "draining", "answered"}]
  BY DEF TypeOK, Flags
<1>4. /\ results' \subseteq Turn /\ stray' \subseteq Turn /\ broken' \subseteq Turn
      /\ owner' \in Turn \cup {NoTurn}
  BY <1>3 DEF Bridge, ServerAnswers, Busy, Execute, StartAnswered, StartBroken,
         StartTimesOut, SessionEnds, StopAnswered, StopFails, Frees, Ends, AskStop
<1>5. goal' \in [Turn -> {"none", "sent", "accepted", "starting", "playing",
                            "stopping", "cleaning", "done"}]
  BY <1>3 DEF Bridge, ServerAnswers, Busy, Execute, StartAnswered, StartBroken,
         StartTimesOut, SessionEnds, StopAnswered, StopFails, Frees, Ends, AskStop
<1>6. /\ startReq' \in [Turn -> {"none", "queued", "spawning", "ok", "failed"}]
      /\ stopReq' \in [Turn -> {"none", "queued", "draining", "answered"}]
  BY <1>3 DEF Bridge, ServerAnswers, Busy, Execute, StartAnswered, StartBroken,
         StartTimesOut, SessionEnds, StopAnswered, StopFails, AskStop
<1>. QED
  BY <1>1, <1>2, <1>4, <1>5, <1>6 DEF TypeOK, Flags, agentVars, nodeVars

LEMMA PiTypes ==
  ASSUME TypeOK, Pi
  PROVE  TypeOK'
<1>1. UNCHANGED <<agentVars, toNode, answers, nodeVars, goal, owner, results, cancelReq>>
  BY DEF Pi, LoseLink, PiNotices, Reconnect, PlayStart, PlayStarted, PlayStop,
         ProcessEnds, BeyondPi
<1>2. faults' \in 0 .. MaxFaults
  BY PlaybackAssumption
     DEF Pi, LoseLink, PiNotices, Reconnect, PlayStart, PlayStarted, PlayStop,
         ProcessEnds, Regular, Fails, TypeOK
<1>3. /\ stray \subseteq Turn /\ broken \subseteq Turn
      /\ link \in {"up", "lost", "down"} /\ playing \in Turn \cup {NoTurn}
      /\ startReq \in [Turn -> {"none", "queued", "spawning", "ok", "failed"}]
      /\ stopReq \in [Turn -> {"none", "queued", "draining", "answered"}]
      /\ proc \in [Turn -> {"none", "running", "draining", "ended"}]
  BY DEF TypeOK, Flags
<1>4. /\ stray' \subseteq Turn /\ broken' \subseteq Turn
      /\ link' \in {"up", "lost", "down"} /\ playing' \in Turn \cup {NoTurn}
  BY <1>3 DEF Pi, LoseLink, PiNotices, Reconnect, PlayStart, PlayStarted, PlayStop,
         ProcessEnds, linkVars, piVars
<1>5. /\ startReq' \in [Turn -> {"none", "queued", "spawning", "ok", "failed"}]
      /\ stopReq' \in [Turn -> {"none", "queued", "draining", "answered"}]
  BY <1>3 DEF Pi, LoseLink, PiNotices, Reconnect, PlayStart, PlayStarted, PlayStop,
         ProcessEnds, linkVars, piVars
<1>6. proc' \in [Turn -> {"none", "running", "draining", "ended"}]
  BY <1>3 DEF Pi, LoseLink, PiNotices, Reconnect, PlayStart, PlayStarted, PlayStop,
         ProcessEnds, piVars
<1>. QED
  BY <1>1, <1>2, <1>4, <1>5, <1>6 DEF TypeOK, Flags, agentVars, nodeVars

LEMMA TypeStep == TypeOK /\ ReaderInv /\ TurnInv /\ [Next]_vars => TypeOK'
<1>1. TypeOK /\ UNCHANGED vars => TypeOK'
  BY DEF TypeOK, Flags, vars, agentVars, nodeVars, bridgeVars, linkVars, piVars
<1>. QED
  BY <1>1, TurnStep, AgentTypes, ReaderTypes, CallbackTypes, BridgeTypes, PiTypes DEF Next

-----------------------------------------------------------------------------
(* Messages to the voice node.                                             *)

\* What is in a message.
LEMMA MessageFields ==
  ASSUME NEW s \in Seq(Message)
  PROVE  \A i \in DOMAIN s : /\ i \in Nat \ {0} /\ i <= Len(s)
                             /\ s[i].t \in Turn /\ s[i].t \in Nat
                             /\ s[i].k \in {"begin", "audio", "barge"}
<1>. TAKE i \in DOMAIN s
<1>1. DOMAIN s = 1 .. Len(s) /\ Len(s) \in Nat
  OBVIOUS
<1>2. s[i] \in Message
  BY <1>1
<1>3. s[i].t \in Turn /\ s[i].k \in {"begin", "audio", "barge"}
  BY <1>2 DEF Message
<1>. QED
  BY <1>1, <1>3, Numbers

\* Reading a begin makes its turn the current stream.
LEMMA QueueTail ==
  ASSUME TypeOK, QueueInv, toNode # <<>>, toNode' = Tail(toNode),
         UNCHANGED <<turn, speak>>,
         cur' = IF Begins(1) THEN toNode[1].t ELSE cur
  PROVE  QueueInv'
<1>. USE Numbers
<1>1. /\ toNode \in Seq(Message) /\ turn \in Nat /\ cur \in Nat
      /\ \A i \in DOMAIN toNode : toNode[i].t \in Nat /\ i \in Nat
      /\ \A i \in DOMAIN toNode : toNode[i].k \in {"begin", "audio", "barge"}
  BY MessageFields DEF TypeOK
<1>2. /\ Len(toNode) \in Nat \ {0} /\ 1 \in DOMAIN toNode
      /\ DOMAIN toNode' = 1 .. (Len(toNode) - 1)
      /\ \A i \in DOMAIN toNode' : i + 1 \in DOMAIN toNode /\ toNode'[i] = toNode[i + 1]
      /\ \A i \in DOMAIN toNode : i # 1 => i - 1 \in DOMAIN toNode' /\ toNode'[i - 1] = toNode[i]
  BY <1>1, Tails
<1>3. \A i \in DOMAIN toNode' : i \in Nat \ {0}
  BY <1>2
<1>4. cur' <= turn'
  BY <1>1, <1>2 DEF QueueInv
<1>5. /\ \A i \in DOMAIN toNode' : toNode'[i].t <= turn'
      /\ \A i, j \in DOMAIN toNode' : i < j => toNode'[i].t <= toNode'[j].t
      /\ \A i, j \in DOMAIN toNode' :
           toNode'[i].k = "begin" /\ toNode'[j].k = "begin" /\ toNode'[i].t = toNode'[j].t => i = j
  BY <1>2, <1>3 DEF QueueInv, Begins
<1>6. ASSUME NEW i \in DOMAIN toNode', toNode'[i].k = "begin"
      PROVE  toNode'[i].t > cur'
  <2>1. /\ i + 1 \in DOMAIN toNode /\ toNode'[i] = toNode[i + 1] /\ 1 < i + 1 /\ i + 1 # 1
    BY <1>2, <1>3
  <2>2. toNode[1].t <= toNode[i + 1].t /\ toNode[i + 1].t > cur
    BY <1>2, <1>6, <2>1 DEF QueueInv, Begins
  <2>3. Begins(1) => toNode[1].t # toNode[i + 1].t
    BY <1>2, <1>6, <2>1 DEF QueueInv, Begins
  <2>. QED
    BY <1>1, <1>2, <2>1, <2>2, <2>3
<1>7. ASSUME NEW i \in DOMAIN toNode', toNode'[i].k = "audio"
      PROVE  \/ cur' = toNode'[i].t
             \/ \E j \in DOMAIN toNode' :
                  j < i /\ toNode'[j].k = "begin" /\ toNode'[j].t = toNode'[i].t
  <2>1. /\ i + 1 \in DOMAIN toNode /\ toNode'[i] = toNode[i + 1] /\ 1 < i + 1
    BY <1>2, <1>3
  <2>2. CASE cur = toNode[i + 1].t
    <3>1. toNode[1].t <= cur
      BY <1>2, <2>1, <2>2 DEF QueueInv
    <3>2. ~Begins(1)
      BY <1>1, <1>2, <3>1 DEF QueueInv
    <3>. QED
      BY <2>1, <2>2, <3>2
  <2>3. ASSUME NEW j \in DOMAIN toNode,
               j < i + 1, Begins(j), toNode[j].t = toNode[i + 1].t
        PROVE  \/ cur' = toNode'[i].t
               \/ \E h \in DOMAIN toNode' :
                    h < i /\ toNode'[h].k = "begin" /\ toNode'[h].t = toNode'[i].t
    <3>1. CASE j = 1
      BY <2>1, <2>3, <3>1
    <3>2. CASE j # 1
      <4>1. j - 1 \in DOMAIN toNode' /\ toNode'[j - 1] = toNode[j] /\ j - 1 < i
        BY <1>1, <1>2, <1>3, <2>3, <3>2
      <4>. QED
        BY <2>1, <2>3, <4>1 DEF Begins
    <3>. QED
      BY <3>1, <3>2
  <2>. QED
    BY <1>7, <2>1, <2>2, <2>3 DEF QueueInv
<1>8. turn # NoTurn => (Begun <=> Begun')
  <2>. SUFFICES ASSUME turn # NoTurn PROVE Begun <=> Begun'
    OBVIOUS
  <2>1. Begun => Begun'
    <3>1. CASE cur = turn
      <4>1. ~Begins(1)
        BY <1>1, <1>2, <3>1 DEF QueueInv
      <4>. QED
        BY <3>1, <4>1 DEF Begun
    <3>2. ASSUME NEW i \in DOMAIN toNode, Begins(i), toNode[i].t = turn PROVE Begun'
      <4>1. CASE i = 1
        BY <3>2, <4>1 DEF Begun
      <4>2. CASE i # 1
        BY <1>2, <3>2, <4>2 DEF Begun, Begins
      <4>. QED
        BY <4>1, <4>2
    <3>. QED
      BY <3>1, <3>2 DEF Begun
  <2>2. Begun' => Begun
    <3>1. CASE cur' = turn
      BY <1>2, <3>1 DEF Begun
    <3>2. ASSUME NEW i \in DOMAIN toNode', toNode'[i].k = "begin", toNode'[i].t = turn
          PROVE  Begun
      BY <1>2, <3>2 DEF Begun, Begins
    <3>. QED
      BY <3>1, <3>2 DEF Begun, Begins
  <2>. QED
    BY <2>1, <2>2
<1>. QED
  BY <1>4, <1>5, <1>6, <1>7, <1>8 DEF QueueInv, Begins

\* The current turn sends its begin first, and once.
LEMMA QueueAppend ==
  ASSUME TypeOK, QueueInv, turn \in Turn, UNCHANGED <<turn, cur>>,
         NEW k \in {"begin", "audio", "barge"},
         toNode' = Append(toNode, [k |-> k, t |-> turn]),
         k = "begin" => ~Begun, k = "audio" => Begun,
         speak'[turn] = "begun" => ~Begun /\ k # "begin",
         speak'[turn] = "sending" => Begun \/ k = "begin"
  PROVE  QueueInv'
<1>. USE Numbers
<1>1. /\ toNode \in Seq(Message) /\ turn \in Nat /\ cur \in Nat
      /\ \A i \in DOMAIN toNode : toNode[i].t \in Nat /\ i \in Nat
  BY MessageFields DEF TypeOK
<1>. DEFINE n == Len(toNode) + 1
<1>2. /\ n \in Nat /\ n \in DOMAIN toNode' /\ toNode'[n].k = k /\ toNode'[n].t = turn
      /\ \A i \in DOMAIN toNode : i \in DOMAIN toNode' /\ toNode'[i] = toNode[i] /\ i < n
      /\ \A i \in DOMAIN toNode' : i \in DOMAIN toNode \/ i = n
  BY <1>1, Messages, Appends
<1>. HIDE DEF n
<1>3. /\ \A i \in DOMAIN toNode' : toNode'[i].t <= turn'
      /\ \A i, j \in DOMAIN toNode' : i < j => toNode'[i].t <= toNode'[j].t
  BY <1>1, <1>2 DEF QueueInv
<1>4. \A i \in DOMAIN toNode' : toNode'[i].k = "begin" => toNode'[i].t > cur'
  BY <1>1, <1>2 DEF QueueInv, Begins, Begun
<1>5. \A i, j \in DOMAIN toNode' :
        toNode'[i].k = "begin" /\ toNode'[j].k = "begin" /\ toNode'[i].t = toNode'[j].t => i = j
  BY <1>1, <1>2 DEF QueueInv, Begins, Begun
<1>6. ASSUME NEW i \in DOMAIN toNode', toNode'[i].k = "audio"
      PROVE  \/ cur' = toNode'[i].t
             \/ \E j \in DOMAIN toNode' :
                  j < i /\ toNode'[j].k = "begin" /\ toNode'[j].t = toNode'[i].t
  <2>1. CASE i \in DOMAIN toNode
    BY <1>2, <1>6, <2>1 DEF QueueInv, Begins
  <2>2. CASE i = n
    BY <1>2, <1>6, <2>2 DEF Begins, Begun
  <2>. QED
    BY <1>2, <2>1, <2>2
<1>7. Begun' <=> (Begun \/ k = "begin")
  BY <1>2 DEF Begun, Begins
<1>. QED
  BY <1>3, <1>4, <1>5, <1>6, <1>7 DEF QueueInv, Begins

LEMMA QueueStep ==
  ASSUME TypeOK, ReaderInv, TurnInv, QueueInv, [Next]_vars
  PROVE  QueueInv'
<1>. USE Numbers
<1>1. /\ turn \in Nat /\ cur \in Nat
      /\ turn # NoTurn => turn \in Turn
      /\ toNode \in Seq(Message)
      /\ speak \in [Turn -> {"none", "begun", "sending", "waiting", "finished"}]
  BY DEF TypeOK
<1>2. ASSUME UNCHANGED <<cur, turn, toNode>>,
             turn # NoTurn => \/ speak'[turn] = speak[turn]
                              \/ speak'[turn] \notin {"begun", "sending"}
      PROVE  QueueInv'
  BY <1>2 DEF QueueInv, Begins, Begun
<1>3. CASE Agent
  <2>1. cur' = cur
    BY <1>3 DEF Agent, Hear, BargeIn, BeginTurn, SpeakThread, SendBegin, SendAudio,
                FinishTurn, PlayDone, BeyondAgent, nodeVars
  <2>2. CASE Hear \/ \E t \in Turn : PlayDone(t)
    BY <1>2, <2>1, <2>2 DEF Hear, PlayDone
  <2>3. CASE BargeIn
    <3>1. /\ turn \in Turn /\ turn' = turn /\ speak' = speak
          /\ toNode' = Append(toNode, [k |-> "barge", t |-> turn])
      <4>1. agent = "speaking" => turn # NoTurn
        BY DEF TurnInv
      <4>. QED
        BY <1>1, <2>3, <4>1 DEF BargeIn
    <3>2. /\ speak'[turn] = "begun" => ~Begun
          /\ speak'[turn] = "sending" => Begun
      BY <3>1, Numbers DEF QueueInv
    <3>. QED
      BY <2>1, <3>1, <3>2, QueueAppend
  <2>4. ASSUME NEW t \in Turn, BeginTurn(t) PROVE QueueInv'
    <3>1. /\ turn' = turn + 1 /\ speak'[turn'] = "begun" /\ toNode' = toNode /\ turn' \in Nat
      BY <1>1, <2>4 DEF BeginTurn
    <3>2. \A i \in DOMAIN toNode : toNode[i].t \in Nat
      BY <1>1, MessageFields
    <3>3. cur < turn' /\ \A i \in DOMAIN toNode : toNode[i].t < turn'
      <4>1. cur <= turn /\ \A i \in DOMAIN toNode : toNode[i].t <= turn
        BY DEF QueueInv
      <4>. QED
        BY <1>1, <3>1, <3>2, <4>1
    <3>4. ~Begun'
      BY <1>1, <2>1, <3>1, <3>2, <3>3 DEF Begun
    <3>5. cur' <= turn' /\ \A i \in DOMAIN toNode' : toNode'[i].t <= turn'
      BY <1>1, <2>1, <3>1, <3>2, <3>3
    <3>. QED
      BY <2>1, <3>1, <3>4, <3>5 DEF QueueInv, Begins
  <2>5. ASSUME NEW t \in Turn, SendBegin(t) PROVE QueueInv'
    <3>1. /\ speak[t] = "begun" /\ speak' = [speak EXCEPT ![t] = "sending"]
          /\ turn' = turn /\ SendAs(t, "begin")
      BY <2>5 DEF SendBegin
    <3>2. CASE turn = t
      <4>1. toNode' = Append(toNode, [k |-> "begin", t |-> turn]) /\ ~Begun
            /\ speak'[turn] = "sending"
        BY <1>1, <3>1, <3>2 DEF SendAs, QueueInv
      <4>. QED
        BY <2>1, <3>1, <3>2, <4>1, QueueAppend
    <3>3. CASE turn # t
      BY <1>1, <1>2, <2>1, <3>1, <3>3 DEF SendAs
    <3>. QED
      BY <3>2, <3>3
  <2>6. ASSUME NEW t \in Turn, SendAudio(t) PROVE QueueInv'
    <3>1. /\ speak[t] = "sending" /\ speak' = [speak EXCEPT ![t] = "waiting"]
          /\ turn' = turn /\ SendAs(t, "audio")
      BY <2>6 DEF SendAudio
    <3>2. CASE turn = t
      <4>1. toNode' = Append(toNode, [k |-> "audio", t |-> turn]) /\ Begun
            /\ speak'[turn] = "waiting"
        BY <1>1, <3>1, <3>2 DEF SendAs, QueueInv
      <4>. QED
        BY <2>1, <3>1, <3>2, <4>1, QueueAppend
    <3>3. CASE turn # t
      BY <1>1, <1>2, <2>1, <3>1, <3>3 DEF SendAs
    <3>. QED
      BY <3>2, <3>3
  <2>7. ASSUME NEW t \in Turn, FinishTurn(t) PROVE QueueInv'
    BY <1>1, <1>2, <2>1, <2>7 DEF FinishTurn
  <2>. QED
    BY <1>3, <2>2, <2>3, <2>4, <2>5, <2>6, <2>7 DEF Agent, SpeakThread
<1>4. CASE Reader
  <2>1. UNCHANGED <<turn, speak>>
    BY <1>4 DEF Reader, StartPlayback, StopWaiting, Abandon, TakeAudio, CancelPlayback,
                MarkCancelPending, BeyondNode, agentVars
  <2>2. ASSUME toNode # <<>>, toNode' = Tail(toNode),
               cur' = IF Begins(1) THEN toNode[1].t ELSE cur
        PROVE  QueueInv'
    BY <2>1, <2>2, QueueTail
  <2>3. toNode # <<>> => Head(toNode) = toNode[1]
    BY <1>1
  <2>4. ASSUME NEW t \in Turn, StartPlayback(t) \/ Abandon(t) PROVE QueueInv'
    <3>1. /\ toNode # <<>> /\ toNode' = Tail(toNode) /\ cur' = t
          /\ toNode[1] = [k |-> "begin", t |-> t]
      BY <2>3, <2>4 DEF StartPlayback, Abandon, NewStream, Reads
    <3>. QED
      BY <2>2, <3>1 DEF Begins
  <2>5. ASSUME NEW t \in Turn, TakeAudio(t) PROVE QueueInv'
    BY <2>2, <2>3, <2>5 DEF TakeAudio, Reads, Begins
  <2>6. ASSUME NEW t \in Turn, StopWaiting(t) PROVE QueueInv'
    BY <1>2, <2>1, <2>6 DEF StopWaiting
  <2>7. ASSUME NEW t \in Turn, CancelPlayback(t) PROVE QueueInv'
    <3>1. /\ toNode # <<>> /\ cur' = cur /\ toNode[1] = [k |-> "barge", t |-> t]
          /\ toNode' = toNode \/ toNode' = Tail(toNode)
      BY <2>3, <2>7 DEF CancelPlayback, Reads
    <3>. QED
      BY <1>2, <2>1, <2>2, <3>1 DEF Begins
  <2>8. CASE MarkCancelPending
    BY <2>2, <2>8 DEF MarkCancelPending, ReaderInv, Begins
  <2>. QED
    BY <1>4, <2>4, <2>5, <2>6, <2>7, <2>8 DEF Reader
<1>5. CASE Callbacks \/ Bridge \/ Pi \/ UNCHANGED vars
  <2>1. UNCHANGED <<turn, speak, cur, toNode>>
    BY <1>5 DEF Callbacks, GoalAccepted, AfterAccepted, GoalResult, NodeOnly, BeyondNode,
                Bridge, ServerAnswers, Busy, Execute, StartAnswered, StartBroken,
                StartTimesOut, SessionEnds, StopAnswered, StopFails, BeyondBridge,
                Pi, LoseLink, PiNotices, Reconnect, PlayStart, PlayStarted, PlayStop,
                ProcessEnds, BeyondPi, agentVars, nodeVars, vars
  <2>. QED
    BY <1>2, <2>1
<1>. QED
  BY <1>3, <1>4, <1>5 DEF Next

-----------------------------------------------------------------------------
(* The streams, their goals, and who owns the bridge.                      *)

\* Nothing about the streams changes, but that the read loop may go on.
LEMMA StreamFrame ==
  ASSUME StreamInv, UNCHANGED <<abandoned, playDone, cur, reported, results, goal, owner>>,
         reader' \in {"leaving", "abandoning"} => reader' = reader
  PROVE  StreamInv'
BY DEF StreamInv, Active

\* A stream that is begun is newer than all the goals there are.
LEMMA NewerStream ==
  ASSUME TypeOK, QueueInv, StreamInv, NEW t \in Turn, Reads("begin", t)
  PROVE  t > cur /\ goal[t] = "none" /\ t \notin reported /\ owner # t /\ t \notin results
<1>1. toNode \in Seq(Message)
  BY DEF TypeOK
<1>2. 1 \in DOMAIN toNode /\ toNode[1] = [k |-> "begin", t |-> t]
  BY <1>1, Tails DEF Reads
<1>3. t > cur
  BY <1>2 DEF QueueInv, Begins
<1>. QED
  BY <1>3 DEF StreamInv, Active

LEMMA StreamBegins ==
  ASSUME TypeOK, QueueInv, StreamInv, NEW t \in Turn, Reads("begin", t), NewStream(t),
         UNCHANGED <<abandoned, results, owner>>,
         abandoned # {} \/ playDone \/ cur = NoTurn
  PROVE  StreamInv'
<1>. USE Numbers
<1>1. t > cur /\ goal[t] = "none" /\ t \notin reported /\ owner # t /\ t \notin results
  BY NewerStream
<1>2. /\ goal \in [Turn -> {"none", "sent", "accepted", "starting", "playing",
                            "stopping", "cleaning", "done"}]
      /\ cur \in Nat /\ t \in Nat \ {0}
  BY DEF TypeOK
<1>3. /\ cur' = t /\ reader' = "ready"
      /\ goal' = [goal EXCEPT ![t] = goal'[t]] /\ goal'[t] \in {"none", "sent"}
      /\ \/ playDone' = FALSE /\ reported' = reported
         \/ goal'[t] = "none" /\ reported' = reported \cup {t}
  BY <1>1, <1>2 DEF NewStream
<1>4. \A u \in Turn : abandoned = {} /\ u # t => goal[u] \in {"none", "done"}
  BY DEF StreamInv
<1>5. \A u \in Turn : u > t => u > cur
  BY <1>1, <1>2
<1>6. \A u \in Turn : /\ u > cur' => goal'[u] = "none" /\ u \notin reported'
                      /\ u \in results' => goal'[u] = "done"
                      /\ u \in reported' => goal'[u] \in {"none", "done"}
                      /\ goal'[u] \in Active <=> owner' = u
  BY <1>1, <1>2, <1>3, <1>5 DEF StreamInv, Active
<1>7. /\ \A u \in Turn : abandoned' = {} /\ u # cur' => goal'[u] \in {"none", "done"}
      /\ reader' \in {"leaving", "abandoning"} => abandoned' # {}
      /\ playDone' /\ cur' # NoTurn => cur' \in reported'
  BY <1>2, <1>3, <1>4
<1>. QED
  BY <1>6, <1>7 DEF StreamInv, Active

\* A goal goes on, and takes the bridge or leaves it.
LEMMA StreamGoal ==
  ASSUME TypeOK, StreamInv, UNCHANGED nodeVars, NEW t \in Turn, NEW g,
         goal[t] \notin {"none", "done"}, g \notin {"none", "sent"},
         goal' = [goal EXCEPT ![t] = g],
         \/ g \in Active /\ owner' = t /\ owner \in {t, NoTurn} /\ results' = results
         \/ /\ g \in {"accepted", "done"} /\ owner' = (IF owner = t THEN NoTurn ELSE owner)
            /\ results' = (IF g = "done" THEN results \cup {t} ELSE results)
  PROVE  StreamInv'
<1>. USE Numbers
<1>1. /\ goal \in [Turn -> {"none", "sent", "accepted", "starting", "playing",
                            "stopping", "cleaning", "done"}]
      /\ UNCHANGED <<reader, abandoned, playDone, cur, reported>>
  BY DEF TypeOK, nodeVars
<1>2. /\ t \notin results /\ t \notin reported /\ ~(t > cur)
      /\ abandoned = {} => t = cur
  BY DEF StreamInv
<1>3. \A u \in Turn : goal'[u] \in Active <=> owner' = u
  BY <1>1 DEF StreamInv, Active
<1>4. \A u \in Turn : /\ u > cur' => goal'[u] = "none" /\ u \notin reported'
                      /\ u \in results' => goal'[u] = "done"
                      /\ u \in reported' => goal'[u] \in {"none", "done"}
                      /\ abandoned' = {} /\ u # cur' => goal'[u] \in {"none", "done"}
  BY <1>1, <1>2 DEF StreamInv
<1>. QED
  BY <1>1, <1>3, <1>4 DEF StreamInv, Active

LEMMA StreamStep ==
  ASSUME TypeOK, QueueInv, StreamInv, [Next]_vars
  PROVE  StreamInv'
<1>. USE Numbers
<1>1. CASE Agent \/ Pi \/ UNCHANGED vars
  <2>1. UNCHANGED <<nodeVars, results, goal, owner>>
    BY <1>1 DEF Agent, Hear, BargeIn, BeginTurn, SpeakThread, SendBegin, SendAudio,
                FinishTurn, PlayDone, BeyondAgent, bridgeVars, vars,
                Pi, LoseLink, PiNotices, Reconnect, PlayStart, PlayStarted, PlayStop,
                ProcessEnds, BeyondPi
  <2>. QED
    BY <2>1, StreamFrame DEF nodeVars
<1>2. CASE Reader
  <2>1. ASSUME NEW t \in Turn, StartPlayback(t) PROVE StreamInv'
    BY <2>1, StreamBegins DEF StartPlayback, BeyondNode
  <2>2. ASSUME NEW t \in Turn, Abandon(t) PROVE StreamInv'
    BY <2>2, StreamBegins DEF Abandon, BeyondNode, StreamInv
  <2>3. ASSUME NEW t \in Turn, StopWaiting(t) PROVE StreamInv'
    <3>1. /\ UNCHANGED <<cur, playDone, reported, goal, results, owner>>
          /\ abandoned' = abandoned \cup {cur}
      BY <2>3 DEF StopWaiting, BeyondNode
    <3>. QED
      BY <3>1 DEF StreamInv, Active
  <2>4. ASSUME MarkCancelPending \/ \E t \in Turn : TakeAudio(t) \/ CancelPlayback(t)
        PROVE  StreamInv'
    <3>1. /\ UNCHANGED <<abandoned, playDone, cur, reported, results, goal, owner>>
          /\ reader' \in {"leaving", "abandoning"} => reader' = reader
      BY <2>4 DEF TakeAudio, CancelPlayback, MarkCancelPending, BeyondNode
    <3>. QED
      BY <3>1, StreamFrame
  <2>. QED
    BY <1>2, <2>1, <2>2, <2>3, <2>4 DEF Reader
<1>3. CASE Callbacks
  <2>1. ASSUME NEW t \in Turn, GoalAccepted(t) \/ AfterAccepted(t) PROVE StreamInv'
    <3>1. UNCHANGED <<reader, abandoned, playDone, cur, reported, results, goal, owner>>
      BY <2>1 DEF GoalAccepted, AfterAccepted, NodeOnly, BeyondNode
    <3>. QED
      BY <3>1, StreamFrame
  <2>2. ASSUME NEW t \in Turn, GoalResult(t) PROVE StreamInv'
    <3>1. /\ UNCHANGED <<reader, abandoned, cur, results, goal, owner>>
          /\ t \in results /\ reported' = reported \cup {t}
          /\ playDone' = (playDone \/ (t = cur /\ t \notin reported))
      BY <2>2 DEF GoalResult, Report, NodeOnly, BeyondNode
    <3>2. goal[t] = "done" /\ ~(t > cur)
      BY <3>1 DEF StreamInv
    <3>3. playDone' /\ cur' # NoTurn => cur' \in reported'
      BY <3>1 DEF StreamInv
    <3>. QED
      BY <3>1, <3>2, <3>3 DEF StreamInv, Active
  <2>. QED
    BY <1>3, <2>1, <2>2 DEF Callbacks
<1>4. CASE Bridge
  <2>1. UNCHANGED nodeVars
    BY <1>4 DEF Bridge, ServerAnswers, Busy, Execute, StartAnswered, StartBroken,
                StartTimesOut, SessionEnds, StopAnswered, StopFails, BeyondBridge, nodeVars
  <2>2. PICK t \in Turn :
          \/ ServerAnswers(t) \/ Busy(t) \/ Execute(t) \/ StartAnswered(t)
          \/ StartBroken(t) \/ StartTimesOut(t) \/ SessionEnds(t)
          \/ StopAnswered(t) \/ StopFails(t)
    BY <1>4 DEF Bridge
  <2>3. (goal[t] \in Active <=> owner = t) /\ t # NoTurn
    BY DEF StreamInv
  <2>4. \/ goal[t] \in {"sent", "accepted"} /\ owner # t
        \/ goal[t] \in Active /\ owner = t
    BY <2>2, <2>3 DEF ServerAnswers, Busy, Execute, StartAnswered, StartBroken,
                StartTimesOut, SessionEnds, StopAnswered, StopFails, Active
  <2>5. \E g : /\ g \notin {"none", "sent"} /\ goal' = [goal EXCEPT ![t] = g]
               /\ \/ g \in Active /\ owner' = t /\ owner \in {t, NoTurn} /\ results' = results
                  \/ /\ g \in {"accepted", "done"}
                     /\ owner' = (IF owner = t THEN NoTurn ELSE owner)
                     /\ results' = (IF g = "done" THEN results \cup {t} ELSE results)
    <3>1. CASE ServerAnswers(t) \/ Busy(t)
      BY <2>3, <2>4, <3>1 DEF ServerAnswers, Busy, Ends, Active
    <3>2. CASE Execute(t) \/ StartAnswered(t)
      BY <2>3, <2>4, <3>2 DEF Execute, StartAnswered, Frees, Ends, Active
    <3>3. CASE StartBroken(t) \/ StartTimesOut(t) \/ StopAnswered(t)
      BY <2>3, <2>4, <3>3 DEF StartBroken, StartTimesOut, StopAnswered, Frees, Ends, Active
    <3>4. CASE SessionEnds(t) \/ StopFails(t)
      BY <2>3, <2>4, <3>4 DEF SessionEnds, StopFails, AskStop, Frees, Ends, Active
    <3>. QED
      BY <2>2, <3>1, <3>2, <3>3, <3>4
  <2>6. goal[t] \notin {"none", "done"}
    BY <2>4 DEF Active
  <2>. QED
    BY <2>1, <2>5, <2>6, StreamGoal
<1>. QED
  BY <1>1, <1>2, <1>3, <1>4 DEF Next

-----------------------------------------------------------------------------
(* What is asked of the Pi, and what plays.                                *)

\* The functions and sets of the bridge and of the Pi.
BridgeTyped ==
  /\ goal \in [Turn -> {"none", "sent", "accepted", "starting", "playing",
                        "stopping", "cleaning", "done"}]
  /\ startReq \in [Turn -> {"none", "queued", "spawning", "ok", "failed"}]
  /\ stopReq \in [Turn -> {"none", "queued", "draining", "answered"}]
  /\ proc \in [Turn -> {"none", "running", "draining", "ended"}]
  /\ broken \subseteq Turn /\ stray \subseteq Turn
  /\ link \in {"up", "lost", "down"}
  /\ owner \in Turn \cup {NoTurn} /\ playing \in Turn \cup {NoTurn}
  /\ faults \in Nat

LEMMA BridgeTypedHolds == TypeOK => BridgeTyped
BY PlaybackAssumption DEF TypeOK, Flags, BridgeTyped

\* Elsewhere nothing happens to the bridge but that a new goal is sent.
LEMMA NodeSteps ==
  ASSUME TypeOK, QueueInv, StreamInv, Agent \/ Reader \/ Callbacks \/ UNCHANGED vars
  PROVE  /\ UNCHANGED <<linkVars, piVars, stray, owner>>
         /\ \/ goal' = goal
            \/ \E t \in Turn : goal[t] = "none" /\ goal' = [goal EXCEPT ![t] = "sent"]
         /\ faults' = faults \/ (MaxFaults > 0 /\ faults' = faults + 1)
<1>. USE BridgeTypedHolds, PlaybackAssumption
<1>1. CASE Agent
  <2>1. UNCHANGED <<linkVars, piVars, stray, owner, goal>>
    BY <1>1 DEF Agent, Hear, BargeIn, BeginTurn, SpeakThread, SendBegin, SendAudio,
                FinishTurn, PlayDone, BeyondAgent, bridgeVars
  <2>2. faults' = faults \/ Fails
    BY <1>1 DEF Agent, Hear, BargeIn, BeginTurn, SpeakThread, SendBegin, SendAudio,
                FinishTurn, PlayDone, Regular
  <2>. QED
    BY <2>1, <2>2 DEF Fails, BridgeTyped
<1>2. CASE Reader
  <2>1. UNCHANGED <<linkVars, piVars, stray, owner>>
    BY <1>2 DEF Reader, StartPlayback, StopWaiting, Abandon, TakeAudio, CancelPlayback,
                MarkCancelPending, BeyondNode
  <2>2. faults' = faults \/ Fails
    BY <1>2 DEF Reader, StartPlayback, StopWaiting, Abandon, TakeAudio, CancelPlayback,
                MarkCancelPending, NewStream, Regular
  <2>3. \/ goal' = goal
        \/ \E t \in Turn : goal[t] = "none" /\ goal' = [goal EXCEPT ![t] = "sent"]
    <3>1. ASSUME NEW t \in Turn, StartPlayback(t) \/ Abandon(t)
          PROVE  \/ goal' = goal
                 \/ goal[t] = "none" /\ goal' = [goal EXCEPT ![t] = "sent"]
      BY <3>1, NewerStream DEF StartPlayback, Abandon, NewStream
    <3>. QED
      BY <1>2, <3>1 DEF Reader, StopWaiting, TakeAudio, CancelPlayback, MarkCancelPending
  <2>. QED
    BY <2>1, <2>2, <2>3 DEF Fails, BridgeTyped
<1>3. CASE Callbacks \/ UNCHANGED vars
  BY <1>3 DEF Callbacks, GoalAccepted, AfterAccepted, GoalResult, NodeOnly, BeyondNode,
              Regular, vars, bridgeVars, linkVars, piVars
<1>. QED
  BY <1>1, <1>2, <1>3

LEMMA RequestBridge ==
  ASSUME TypeOK, RequestInv, Bridge
  PROVE  RequestInv'
<1>1. BridgeTyped /\ UNCHANGED <<link, proc>>
  BY BridgeTypedHolds DEF Bridge, ServerAnswers, Busy, Execute, StartAnswered, StartBroken,
     StartTimesOut, SessionEnds, StopAnswered, StopFails, BeyondBridge
<1>2. PICK t \in Turn :
        \/ ServerAnswers(t) \/ Busy(t) \/ Execute(t) \/ StartAnswered(t)
        \/ StartBroken(t) \/ StartTimesOut(t) \/ SessionEnds(t)
        \/ StopAnswered(t) \/ StopFails(t)
  BY DEF Bridge
<1>. USE DEF RequestInv, BridgeTyped, Active, Asking
<1>3. CASE ServerAnswers(t) \/ Busy(t)
  BY <1>1, <1>3 DEF ServerAnswers, Busy, Ends
<1>4. CASE Execute(t)
  BY <1>1, <1>4 DEF Execute, Frees, Ends
<1>5. CASE StartAnswered(t)
  BY <1>1, <1>5 DEF StartAnswered, Frees, Ends
<1>6. CASE StartBroken(t) \/ StartTimesOut(t)
  BY <1>1, <1>6 DEF StartBroken, StartTimesOut, Frees, Ends
<1>7. CASE SessionEnds(t)
  BY <1>1, <1>7 DEF SessionEnds, AskStop, Frees, Ends
<1>8. CASE StopAnswered(t)
  BY <1>1, <1>8 DEF StopAnswered, Frees, Ends
<1>9. CASE StopFails(t)
  BY <1>1, <1>9 DEF StopFails, AskStop, Frees, Ends
<1>. QED
  BY <1>2, <1>3, <1>4, <1>5, <1>6, <1>7, <1>8, <1>9

LEMMA RequestPi ==
  ASSUME TypeOK, RequestInv, Pi
  PROVE  RequestInv'
<1>1. BridgeTyped /\ UNCHANGED goal
  BY BridgeTypedHolds DEF Pi, LoseLink, PiNotices, Reconnect, PlayStart, PlayStarted,
     PlayStop, ProcessEnds, BeyondPi
<1>. USE DEF RequestInv, BridgeTyped, Active, Asking
<1>2. CASE LoseLink
  BY <1>1, <1>2 DEF LoseLink, piVars
<1>3. CASE PiNotices
  BY <1>1, <1>3 DEF PiNotices, Alive
<1>4. CASE Reconnect
  BY <1>1, <1>4 DEF Reconnect, piVars
<1>5. ASSUME NEW t \in Turn, PlayStart(t) PROVE RequestInv'
  BY <1>1, <1>5 DEF PlayStart, linkVars
<1>6. ASSUME NEW t \in Turn, PlayStarted(t) PROVE RequestInv'
  BY <1>1, <1>6 DEF PlayStarted, linkVars
<1>7. ASSUME NEW t \in Turn, PlayStop(t) PROVE RequestInv'
  BY <1>1, <1>7 DEF PlayStop, linkVars, Alive
<1>8. ASSUME NEW t \in Turn, ProcessEnds(t) PROVE RequestInv'
  BY <1>1, <1>8 DEF ProcessEnds, linkVars, Alive
<1>. QED
  BY <1>2, <1>3, <1>4, <1>5, <1>6, <1>7, <1>8 DEF Pi

LEMMA RequestStep ==
  ASSUME TypeOK, QueueInv, StreamInv, RequestInv, [Next]_vars
  PROVE  RequestInv'
<1>1. CASE Agent \/ Reader \/ Callbacks \/ UNCHANGED vars
  BY <1>1, NodeSteps, BridgeTypedHolds
     DEF RequestInv, BridgeTyped, Active, Asking, linkVars, piVars
<1>. QED
  BY <1>1, RequestBridge, RequestPi DEF Next

LEMMA ProcessBridge ==
  ASSUME TypeOK, StreamInv, RequestInv, ProcessInv, Bridge
  PROVE  ProcessInv'
<1>1. BridgeTyped /\ UNCHANGED <<link, proc, playing>>
  BY BridgeTypedHolds DEF Bridge, ServerAnswers, Busy, Execute, StartAnswered, StartBroken,
     StartTimesOut, SessionEnds, StopAnswered, StopFails, BeyondBridge
<1>2. PICK t \in Turn :
        \/ ServerAnswers(t) \/ Busy(t) \/ Execute(t) \/ StartAnswered(t)
        \/ StartBroken(t) \/ StartTimesOut(t) \/ SessionEnds(t)
        \/ StopAnswered(t) \/ StopFails(t)
  BY DEF Bridge
<1>. USE DEF ProcessInv, BridgeTyped, Alive, Active, Asking
<1>3. CASE ServerAnswers(t) \/ Busy(t)
  <2>1. startReq[t] = "none" /\ proc[t] = "none"
    BY <1>1, <1>3 DEF ServerAnswers, Busy, RequestInv
  <2>. QED
    BY <1>1, <1>3, <2>1 DEF ServerAnswers, Busy, Ends
<1>4. CASE Execute(t)
  <2>1. startReq[t] = "none" /\ proc[t] = "none" /\ stopReq[t] = "none"
    BY <1>1, <1>4 DEF Execute, RequestInv
  <2>2. link = "up" => \A u \in Turn : stray = {} => startReq[u] \notin Asking
    BY <1>1, <1>4, Numbers DEF Execute, StreamInv
  <2>. QED
    BY <1>1, <1>4, <2>1, <2>2 DEF Execute, Frees, Ends
<1>5. CASE StartAnswered(t)
  <2>1. startReq[t] = "failed" => proc[t] = "none"
    BY <1>1 DEF RequestInv
  <2>. QED
    BY <1>1, <1>5, <2>1 DEF StartAnswered, Frees, Ends
<1>6. CASE StartBroken(t)
  <2>1. startReq[t] \in Asking => link = "lost"
    BY <1>6 DEF StartBroken, RequestInv
  <2>. QED
    BY <1>1, <1>6, <2>1 DEF StartBroken, Frees, Ends
<1>7. CASE StartTimesOut(t)
  BY <1>7 DEF StartTimesOut
<1>8. CASE SessionEnds(t)
  <2>1. stopReq[t] = "none" /\ startReq[t] = "ok"
    BY <1>8 DEF SessionEnds, RequestInv
  <2>. QED
    BY <1>1, <1>8, <2>1 DEF SessionEnds, AskStop, Frees, Ends
<1>9. CASE StopAnswered(t)
  <2>1. startReq[t] = "ok"
    BY <1>9 DEF StopAnswered, RequestInv
  <2>. QED
    BY <1>1, <1>9, <2>1 DEF StopAnswered, Frees, Ends
<1>10. CASE StopFails(t)
  <2>1. startReq[t] = "ok"
    BY <1>10 DEF StopFails, RequestInv
  <2>. QED
    BY <1>1, <1>10, <2>1 DEF StopFails, AskStop, Frees, Ends
<1>. QED
  BY <1>2, <1>3, <1>4, <1>5, <1>6, <1>7, <1>8, <1>9, <1>10

LEMMA ProcessPi ==
  ASSUME TypeOK, RequestInv, ProcessInv, Pi
  PROVE  ProcessInv'
<1>1. BridgeTyped /\ UNCHANGED goal
  BY BridgeTypedHolds DEF Pi, LoseLink, PiNotices, Reconnect, PlayStart, PlayStarted,
     PlayStop, ProcessEnds, BeyondPi
<1>. USE DEF ProcessInv, BridgeTyped, Alive, Active, Asking
<1>2. CASE LoseLink
  BY <1>1, <1>2 DEF LoseLink, piVars
<1>3. CASE PiNotices
  BY <1>1, <1>3, Numbers DEF PiNotices
<1>4. CASE Reconnect
  BY <1>1, <1>4 DEF Reconnect, piVars, RequestInv
<1>5. ASSUME NEW t \in Turn, PlayStart(t) PROVE ProcessInv'
  BY <1>1, <1>5 DEF PlayStart, linkVars
<1>6. ASSUME NEW t \in Turn, PlayStarted(t) PROVE ProcessInv'
  <2>1. /\ stopReq[t] = "none" /\ link # "down"
        /\ t \in broken => link = "lost"
    BY <1>1, <1>6 DEF PlayStarted, RequestInv
  <2>. QED
    BY <1>1, <1>6, <2>1 DEF PlayStarted, linkVars
<1>7. ASSUME NEW t \in Turn, PlayStop(t) PROVE ProcessInv'
  <2>1. /\ UNCHANGED <<link, broken, startReq>> /\ stopReq[t] = "queued"
        /\ stray' = {} => stray = {}
    BY <1>7 DEF PlayStop, linkVars
  <2>2. CASE playing = t /\ Alive(t) /\ proc' = [proc EXCEPT ![t] = "draining"]
             /\ stopReq' = [stopReq EXCEPT ![t] = "draining"] /\ playing' = playing
    BY <1>1, <2>1, <2>2
  <2>3. CASE ~(playing = t /\ Alive(t)) /\ stopReq' = [stopReq EXCEPT ![t] = "answered"]
             /\ playing' = (IF playing = t THEN NoTurn ELSE playing) /\ proc' = proc
    <3>. SUFFICES ASSUME stray = {} PROVE ProcessInv'
      BY <2>1
    <3>1. ~Alive(t) /\ proc[t] # "running"
      BY <2>3, Numbers
    <3>2. \A u \in Turn : stopReq'[u] = IF u = t THEN "answered" ELSE stopReq[u]
      BY <1>1, <2>3
    <3>3. \A u \in Turn : Alive(u) => playing' = u
      BY <2>3, <3>1
    <3>4. \A u \in Turn : stopReq'[u] \in {"draining", "answered"} => proc'[u] # "running"
      BY <2>3, <3>1, <3>2
    <3>. QED
      BY <1>1, <2>1, <2>3, <3>3, <3>4
  <2>4. CASE stray' = stray \cup {t}
    BY <2>4
  <2>. QED
    BY <1>7, <2>2, <2>3, <2>4 DEF PlayStop
<1>8. ASSUME NEW t \in Turn, ProcessEnds(t) PROVE ProcessInv'
  BY <1>1, <1>8 DEF ProcessEnds, linkVars
<1>. QED
  BY <1>2, <1>3, <1>4, <1>5, <1>6, <1>7, <1>8 DEF Pi

LEMMA ProcessStep ==
  ASSUME TypeOK, QueueInv, StreamInv, RequestInv, ProcessInv, [Next]_vars
  PROVE  ProcessInv'
<1>1. CASE Agent \/ Reader \/ Callbacks \/ UNCHANGED vars
  <2>1. /\ UNCHANGED <<linkVars, piVars, stray>> /\ BridgeTyped
        /\ \/ goal' = goal
           \/ \E t \in Turn : goal[t] = "none" /\ goal' = [goal EXCEPT ![t] = "sent"]
    BY <1>1, NodeSteps, BridgeTypedHolds
  <2>. QED
    BY <2>1 DEF ProcessInv, BridgeTyped, Alive, Active, Asking, linkVars, piVars
<1>. QED
  BY <1>1, ProcessBridge, ProcessPi DEF Next

LEMMA FaultlessStep ==
  ASSUME TypeOK, QueueInv, StreamInv, RequestInv, ProcessInv, FaultlessInv, [Next]_vars
  PROVE  FaultlessInv'
<1>1. BridgeTyped
  BY BridgeTypedHolds
<1>. SUFFICES ASSUME faults' = 0 PROVE FaultlessInv'
  BY DEF FaultlessInv
<1>2. ~Fails
  BY <1>1 DEF Fails, BridgeTyped
<1>. USE DEF BridgeTyped, Alive
<1>3. CASE Agent \/ Reader \/ Callbacks \/ UNCHANGED vars
  <2>1. /\ UNCHANGED <<linkVars, piVars, stray>> /\ faults = 0
        /\ \/ goal' = goal
           \/ \E t \in Turn : goal[t] = "none" /\ goal' = [goal EXCEPT ![t] = "sent"]
    BY <1>1, <1>3, NodeSteps, PlaybackAssumption
  <2>. QED
    BY <1>1, <2>1 DEF FaultlessInv, linkVars, piVars
<1>4. CASE Bridge
  <2>1. UNCHANGED <<link, proc>>
    BY <1>4 DEF Bridge, ServerAnswers, Busy, Execute, StartAnswered, StartBroken,
       StartTimesOut, SessionEnds, StopAnswered, StopFails, BeyondBridge
  <2>2. PICK t \in Turn :
          \/ ServerAnswers(t) \/ Busy(t) \/ Execute(t) \/ StartAnswered(t)
          \/ StartBroken(t) \/ StartTimesOut(t) \/ SessionEnds(t)
          \/ StopAnswered(t) \/ StopFails(t)
    BY <1>4 DEF Bridge
  <2>3. faults = 0
    BY <1>2, <2>2 DEF ServerAnswers, Busy, Execute, StartAnswered, StartBroken,
                StartTimesOut, SessionEnds, StopAnswered, StopFails, Regular
  <2>4. link = "up" /\ broken = {} /\ stray = {}
    BY <2>3 DEF FaultlessInv
  <2>5. CASE ServerAnswers(t) \/ Busy(t) \/ Execute(t) \/ StartAnswered(t)
    <3>1. proc[t] = "none" \/ startReq[t] = "ok"
      BY <1>1 DEF RequestInv
    <3>2. goal[t] = "accepted" => startReq[t] # "ok"
      BY DEF RequestInv
    <3>. QED
      BY <1>1, <2>1, <2>3, <2>4, <2>5, <3>1, <3>2
         DEF FaultlessInv, ServerAnswers, Busy, Execute, StartAnswered, Frees, Ends
  <2>6. CASE StartBroken(t) \/ StartTimesOut(t) \/ StopFails(t)
    <3>1. StopFails(t)
      BY <1>2, <2>4, <2>6 DEF StartBroken, StartTimesOut
    <3>. QED
      BY <1>2, <2>4, <3>1 DEF StopFails
  <2>7. CASE SessionEnds(t)
    <3>1. stopReq[t] = "none"
      BY <2>7 DEF SessionEnds, RequestInv
    <3>. QED
      BY <1>1, <2>1, <2>3, <2>4, <2>7, <3>1 DEF FaultlessInv, SessionEnds, AskStop
  <2>8. CASE StopAnswered(t)
    BY <1>1, <2>1, <2>3, <2>4, <2>8 DEF FaultlessInv, StopAnswered, Frees, Ends
  <2>. QED
    BY <2>2, <2>5, <2>6, <2>7, <2>8
<1>5. CASE Pi
  <2>1. UNCHANGED goal /\ faults = 0
    BY <1>2, <1>5 DEF Pi, LoseLink, PiNotices, Reconnect, PlayStart, PlayStarted,
       PlayStop, ProcessEnds, BeyondPi, Regular
  <2>2. link = "up" /\ broken = {} /\ stray = {}
    BY <2>1 DEF FaultlessInv
  <2>3. PICK t \in Turn : PlayStart(t) \/ PlayStarted(t) \/ PlayStop(t) \/ ProcessEnds(t)
    BY <1>2, <1>5, <2>2 DEF Pi, LoseLink, PiNotices, Reconnect
  <2>4. CASE PlayStart(t)
    BY <1>1, <2>1, <2>2, <2>4 DEF FaultlessInv, PlayStart, linkVars
  <2>5. CASE PlayStarted(t)
    <3>1. startReq[t] = "spawning" /\ goal[t] = "starting" /\ stopReq[t] = "none"
      BY <1>1, <2>2, <2>5 DEF PlayStarted, ProcessInv, RequestInv, Asking
    <3>. QED
      BY <1>1, <2>1, <2>2, <2>5, <3>1 DEF FaultlessInv, PlayStarted, linkVars
  <2>6. CASE PlayStop(t)
    BY <1>1, <1>2, <2>1, <2>2, <2>6 DEF FaultlessInv, PlayStop, linkVars, ProcessInv
  <2>7. CASE ProcessEnds(t)
    BY <1>1, <2>1, <2>2, <2>7 DEF FaultlessInv, ProcessEnds, linkVars
  <2>. QED
    BY <2>3, <2>4, <2>5, <2>6, <2>7
<1>. QED
  BY <1>3, <1>4, <1>5 DEF Next

-----------------------------------------------------------------------------
(* The theorems.                                                           *)

(* The inductive invariant holds: the turns, the messages, the streams and *)
(* their goals, and the processes on the Pi stay in step with each other   *)
(* in every state that can be reached.                                     *)
THEOREM SpeakingInvariant == Spec => [](TypeOK /\ SpeakingInv)
<1>1. Init => TypeOK /\ SpeakingInv
  BY InitTypes
<1>2. TypeOK /\ SpeakingInv /\ [Next]_vars => (TypeOK /\ SpeakingInv)'
  BY TypeStep, TurnStep, ReaderStep, QueueStep, StreamStep, RequestStep, ProcessStep,
     FaultlessStep DEF SpeakingInv
<1>. QED
  BY <1>1, <1>2, PTL DEF Spec

(* Types: in particular no more than three messages of a turn ever wait    *)
(* for the voice node, its begin, its sound and its interruption.          *)
THEOREM PlaybackTyped == Spec => []TypeOK
BY SpeakingInvariant, PTL

(* The sound that the voice node takes belongs to the stream it has begun  *)
(* last: the agent's _send_as() lets no thread of an earlier turn through, *)
(* and a begin is never overtaken.                                         *)
THEOREM OwnFrames == Spec => FramesOfOwnTurn
<1>1. TypeOK /\ SpeakingInv /\ [Next]_vars =>
        [\A t \in Turn : Reads("audio", t) /\ toNode' = Tail(toNode) => cur = t]_vars
  <2>. SUFFICES ASSUME TypeOK, SpeakingInv, NEW t \in Turn, Reads("audio", t) PROVE cur = t
    OBVIOUS
  <2>1. toNode \in Seq(Message)
    BY DEF TypeOK
  <2>2. 1 \in DOMAIN toNode /\ toNode[1] = [k |-> "audio", t |-> t]
    BY <2>1, Tails DEF Reads
  <2>3. ~\E j \in DOMAIN toNode : j < 1
    BY <2>1, MessageFields
  <2>. QED
    BY <2>2, <2>3 DEF SpeakingInv, QueueInv
<1>. QED
  BY <1>1, SpeakingInvariant, PTL DEF Spec, FramesOfOwnTurn

(* The bridge refuses no reply as audio_busy, unless the voice node has    *)
(* stopped waiting for the stream before it.                               *)
THEOREM NextReplyTaken == Spec => NeverBusy
<1>1. TypeOK /\ SpeakingInv /\ [Next]_vars =>
        [\A t \in Turn :
           goal[t] = "accepted" /\ goal'[t] = "done" /\ owner # NoTurn => abandoned # {}]_vars
  <2>. SUFFICES ASSUME TypeOK, SpeakingInv, NEW t \in Turn,
                       goal[t] = "accepted", owner # NoTurn, abandoned = {}
                PROVE  FALSE
    OBVIOUS
  <2>1. owner \in Turn
    BY DEF TypeOK
  <2>2. t = cur /\ goal[owner] \in Active /\ owner # t
    BY <2>1 DEF SpeakingInv, StreamInv, Active
  <2>. QED
    BY <2>1, <2>2 DEF SpeakingInv, StreamInv, Active
<1>. QED
  BY <1>1, SpeakingInvariant, PTL DEF Spec, NeverBusy

(* No process plays on the Pi that nothing will stop, but for one that has *)
(* been left behind.                                                       *)
THEOREM PlaybackOwned == Spec => []OwnedPlayback
<1>1. SpeakingInv => OwnedPlayback
  BY DEF SpeakingInv, ProcessInv, OwnedPlayback, Active
<1>. QED
  BY <1>1, SpeakingInvariant, PTL

\* The loudspeaker is used by one process at a time, but for one left behind.
THEOREM SpeakerAlone == Spec => []OnePlayback
<1>1. TypeOK /\ SpeakingInv => OnePlayback
  <2>. SUFFICES ASSUME TypeOK, SpeakingInv, stray = {}
                PROVE  Cardinality({t \in Turn : Alive(t)}) <= 1
    BY DEF OnePlayback
  <2>1. {t \in Turn : Alive(t)} \subseteq {playing}
    BY DEF SpeakingInv, ProcessInv
  <2>2. IsFiniteSet({playing}) /\ Cardinality({playing}) = 1
    BY FS_Singleton
  <2>3. /\ IsFiniteSet({t \in Turn : Alive(t)})
        /\ Cardinality({t \in Turn : Alive(t)}) <= Cardinality({playing})
    BY <2>1, <2>2, FS_Subset
  <2>. QED
    BY <2>2, <2>3
<1>. QED
  BY <1>1, SpeakingInvariant, PTL

(* When the agent goes back to idle after a reply that nobody interrupted, *)
(* the reply's goal is over, and without a failure its process as well.    *)
THEOREM SilentWhenIdle == Spec => []IdleIsSilent
<1>1. TypeOK /\ SpeakingInv => IdleIsSilent
  <2>. SUFFICES ASSUME TypeOK, SpeakingInv, NEW t \in spoke \ (stop \cup impatient),
                       agent = "idle", turn = t
                PROVE  /\ goal[t] = "done" \/ (goal[t] = "none" /\ t \in reported)
                       /\ Alive(t) => faults > 0
    BY DEF IdleIsSilent
  <2>1. t \in Turn /\ BridgeTyped
    BY BridgeTypedHolds DEF TypeOK, Flags
  <2>2. t \in reported
    BY <2>1, Numbers DEF SpeakingInv, TurnInv
  <2>3. goal[t] \in {"none", "done"}
    BY <2>1, <2>2 DEF SpeakingInv, StreamInv
  <2>4. goal[t] = "none" => ~Alive(t)
    BY <2>1 DEF SpeakingInv, RequestInv, Alive, BridgeTyped
  <2>5. goal[t] = "done" /\ faults = 0 => ~Alive(t)
    BY <2>1 DEF SpeakingInv, FaultlessInv
  <2>. QED
    BY <2>1, <2>2, <2>3, <2>4, <2>5 DEF BridgeTyped
<1>. QED
  BY <1>1, SpeakingInvariant, PTL
=============================================================================
