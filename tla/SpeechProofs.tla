----------------------------- MODULE SpeechProofs -----------------------------
(***************************************************************************)
(* Theorems of Speech, for every number of speeches and failures and every *)
(* length of the window and of the queue; and the arithmetic of the        *)
(* capture clock (CaptureLabels), for every modulus.                       *)
(***************************************************************************)
EXTENDS SpeechProperties, CaptureLabels, SequenceTheorems, TLAPS

-----------------------------------------------------------------------------
(* One direction for each speech.                                          *)

Deciding == {"decide", "status", "acquire"}

(* The loop acts upon one decision at a time, of a speech whose decision   *)
(* has been taken and whose answer has not been given.  A speech that is   *)
(* still being decided has not been answered, and none is answered that    *)
(* has not begun.                                                          *)
DecisionInv ==
  /\ ids \in Nat /\ id \in 0 .. ids /\ decided \subseteq 1 .. ids
  /\ terminal \in BOOLEAN
  /\ decision \in {"none", "ready", "rejected"}
  /\ decision # "none" <=> pc \in Deciding
  /\ decision # "none" => terminal /\ id # NoId /\ id \notin decided
  /\ id # NoId /\ ~terminal => id \notin decided

decisionVars == <<pc, id, ids, terminal, decision, decided>>

LEMMA StepDecisionInv == DecisionInv /\ [Next]_vars => DecisionInv'
<1>1. ASSUME DecisionInv, UNCHANGED decisionVars
      PROVE  DecisionInv'
  BY <1>1 DEF DecisionInv, decisionVars
<1>2. ASSUME DecisionInv, Reset, UNCHANGED decided,
             pc' \notin Deciding, pc \notin Deciding
      PROVE  DecisionInv'
  <2>1. /\ id' = 0 /\ ids' = ids /\ terminal' = FALSE
        /\ decision' = decision /\ decision = "none"
    BY <1>2 DEF DecisionInv, Reset, NoId
  <2>2. ids \in Nat /\ 0 \in 0 .. ids /\ decided' \subseteq 1 .. ids
    BY <1>2 DEF DecisionInv
  <2>3. terminal' \in BOOLEAN
    BY <2>1
  <2>. QED
    BY <1>2, <2>1, <2>2, <2>3 DEF DecisionInv, NoId
<1>3. ASSUME DecisionInv, UNCHANGED <<id, ids, terminal, decision, decided>>,
             pc' \notin Deciding, pc \notin Deciding
      PROVE  DecisionInv'
  BY <1>3 DEF DecisionInv
<1>4. ASSUME DecisionInv, CaptureExited
      PROVE  DecisionInv'
  BY <1>3, <1>4 DEF CaptureExited, Deciding, doaVars
<1>5. ASSUME DecisionInv, RestartCapture
      PROVE  DecisionInv'
  BY <1>2, <1>3, <1>5 DEF RestartCapture, Deciding, doaVars
<1>6. ASSUME DecisionInv, XvfFails
      PROVE  DecisionInv'
  BY <1>3, <1>6 DEF XvfFails, Deciding, doaVars
<1>7. ASSUME DecisionInv, XvfBack
      PROVE  DecisionInv'
  BY <1>2, <1>7 DEF XvfBack, Deciding
<1>8. ASSUME DecisionInv, NoClock
      PROVE  DecisionInv'
  BY <1>2, <1>8 DEF NoClock, Deciding
<1>9. ASSUME DecisionInv, Look
      PROVE  DecisionInv'
  BY <1>2, <1>3, <1>9 DEF Look, BeginPlayback, Deciding, doaVars
<1>10. ASSUME DecisionInv, Observe
       PROVE  DecisionInv'
  <2>1. decision = "none" /\ decided' = decided
    BY <1>10 DEF Observe, DecisionInv, Deciding
  <2>2. decision' # "none" <=> pc' \in Deciding
    BY <1>10 DEF Observe, Deciding
  <2>3. CASE speech /\ ~detected
    <3>1. /\ id' = ids + 1 /\ ids' = ids + 1
          /\ terminal' = FALSE /\ decision' = "none"
      BY <1>10, <2>3 DEF Observe, StabilizerObserve
    <3>2. /\ ids + 1 \in Nat /\ ids + 1 \in 0 .. ids + 1
          /\ decided \subseteq 1 .. ids + 1 /\ ids + 1 \notin decided
      BY <1>10 DEF DecisionInv
    <3>3. terminal' \in BOOLEAN
      BY <3>1
    <3>. QED
      BY <2>1, <2>2, <3>1, <3>2, <3>3 DEF DecisionInv
  <2>4. CASE ~(speech /\ ~detected)
    <3>1. UNCHANGED <<id, ids>>
      BY <1>10, <2>4 DEF Observe, StabilizerObserve
    <3>2. CASE id = NoId \/ terminal
      <4>1. UNCHANGED <<terminal, decision>>
        BY <1>10, <2>4, <3>2 DEF Observe, StabilizerObserve
      <4>. QED
        BY <1>10, <2>1, <2>2, <3>1, <4>1 DEF DecisionInv
    <3>3. CASE ~(id = NoId \/ terminal)
      <4>1. /\ decision' \in {"none", "ready", "rejected"}
            /\ terminal' = (decision' # "none")
        BY <1>10, <2>4, <3>3 DEF Observe, StabilizerObserve
      <4>. QED
        BY <1>10, <2>1, <2>2, <3>1, <3>3, <4>1 DEF DecisionInv
    <3>. QED
      BY <3>2, <3>3
  <2>. QED
    BY <2>3, <2>4
<1>11. ASSUME DecisionInv, HandleDecision
       PROVE  DecisionInv'
  <2>1. UNCHANGED <<id, ids>> /\ pc \in Deciding
    BY <1>11 DEF HandleDecision, Deciding
  <2>2. CASE PublishOrientation
    BY <1>11, <2>1, <2>2 DEF PublishOrientation, DecisionInv, Deciding, NoId
  <2>3. CASE ~PublishOrientation
    <3>1. UNCHANGED <<decided, decision, terminal>> /\ pc' \in Deciding
      BY <1>11, <2>3 DEF HandleDecision, Deciding
    <3>. QED
      BY <1>11, <2>1, <3>1 DEF DecisionInv
  <2>. QED
    BY <2>2, <2>3
<1>12. ASSUME DecisionInv, Inputs \/ Connection \/ Jetson \/ UNCHANGED vars
       PROVE  DecisionInv'
  <2>1. UNCHANGED decisionVars
    BY <1>12 DEF Inputs, PlaybackChanges, GuardEnds, FirstPacket, CaptureExits,
         BeyondInputs, Connection, Connect, JetsonLoses, PiCloses, Closed,
         BeyondLink, Jetson, AcceptEvent, HandleEvent, BeyondJetson, vars,
         doaVars, decisionVars
  <2>. QED
    BY <1>1, <1>12, <2>1
<1>. QED
  BY <1>4, <1>5, <1>6, <1>7, <1>8, <1>9, <1>10, <1>11, <1>12 DEF Next, Loop

LEMMA InitDecisionInv == Init => DecisionInv
<1>1. Init => terminal \in BOOLEAN
  BY Zenon DEF Init
<1>2. 0 \in 0 .. 0
  OBVIOUS
<1>. QED
  BY <1>1, <1>2 DEF Init, DecisionInv, Deciding, NoId

LEMMA Decisions == Spec => []DecisionInv
  BY InitDecisionInv, StepDecisionInv, PTL DEF Spec

(* Whatever fails and whenever the lamp plays, one direction at most is    *)
(* acted upon for each speech (DoaStabilizer.observe(), doa.py 212-262;    *)
(* handle_decision(), coordinator.py).                                     *)
THEOREM OneTurnPerSpeech == Spec => []OneDecision
<1>1. DecisionInv => OneDecision
  BY DEF DecisionInv, OneDecision
<1>. QED
  BY <1>1, Decisions, PTL

-----------------------------------------------------------------------------
(* What the Jetson will believe once it has handled what is on its way.    *)

Kinds == {"start", "end", "capture", "exited", "orientation", "device"}

\* What the Jetson labels the sound with.
Label == [device : Nat, accepting : BOOLEAN, active : Id \cup {NoId}]

Here == [device |-> device, accepting |-> accepting, active |-> active]

\* The label for the events of session s: it is new for a new session.
KeptFor(x, s) ==
  IF x.device \notin {0, s} THEN [device |-> s, accepting |-> TRUE, active |-> NoId]
                            ELSE [x EXCEPT !.device = s]

\* What an event of kind k about speech i makes of it.
Relabelled(x, k, i) ==
  [device    |-> x.device,
   accepting |-> CASE k = "exited"  -> FALSE
                   [] k = "capture" -> TRUE
                   [] OTHER -> x.accepting,
   active    |-> CASE k = "exited" /\ x.accepting -> NoId
                   [] k = "start" /\ x.accepting -> i
                   [] k = "end" /\ x.accepting /\ x.active = i -> NoId
                   [] OTHER -> x.active]

Handled(x, e) == Relabelled(KeptFor(x, e.s), e.k, e.id)

\* Handling the events es in their order makes y of x.
Leads(es, x, y) ==
  \E f \in [0 .. Len(es) -> Label] :
    /\ f[0] = x /\ f[Len(es)] = y
    /\ \A i \in 1 .. Len(es) : f[i] = Handled(f[i - 1], es[i])

\* Nothing is open while nothing is accepted.
Shut(x) == ~x.accepting => x.active = NoId

LEMMA HandledLabel ==
  ASSUME NEW x \in Label, NEW e \in Event
  PROVE  /\ Handled(x, e) \in Label /\ Handled(x, e).device = e.s
         /\ (x.device = 0 => x.accepting /\ x.active = NoId) /\ Shut(x)
              => Shut(Handled(x, e))
<1>1. e.s \in Nat /\ e.k \in Kinds /\ e.id \in Id \cup {NoId}
  BY DEF Event, Kinds
<1>2. KeptFor(x, e.s) \in Label /\ KeptFor(x, e.s).device = e.s
  BY <1>1 DEF KeptFor, Label
<1>3. Shut(x) => Shut(KeptFor(x, e.s))
  BY DEF KeptFor, Shut, Label
<1>4. ASSUME NEW c \in Label
      PROVE  /\ Relabelled(c, e.k, e.id) \in Label
             /\ Relabelled(c, e.k, e.id).device = c.device
             /\ Shut(c) => Shut(Relabelled(c, e.k, e.id))
  BY <1>1 DEF Relabelled, Label, Shut
<1>. QED
  BY <1>2, <1>3, <1>4 DEF Handled

LEMMA LeadsNowhere ==
  ASSUME NEW x \in Label
  PROVE  Leads(<<>>, x, x)
<1>. DEFINE f == [i \in 0 .. 0 |-> x]
<1>1. f \in [0 .. Len(<<>>) -> Label] /\ f[0] = x /\ Len(<<>>) = 0
  OBVIOUS
<1>2. \A i \in 1 .. Len(<<>>) : FALSE
  OBVIOUS
<1>. HIDE DEF f
<1>. QED
  BY <1>1, <1>2 DEF Leads

LEMMA LeadsOnly ==
  ASSUME NEW x, NEW y, Leads(<<>>, x, y)
  PROVE  x = y
BY DEF Leads

LEMMA LeadsTail ==
  ASSUME NEW es \in Seq(Event), es # <<>>, NEW x, NEW y, Leads(es, x, y)
  PROVE  Leads(Tail(es), Handled(x, Head(es)), y)
<1>. DEFINE n == Len(es)
<1>1. /\ n \in Nat \ {0} /\ Len(Tail(es)) = n - 1 /\ Head(es) = es[1]
      /\ \A i \in 1 .. n - 1 : Tail(es)[i] = es[i + 1]
  OBVIOUS
<1>2. PICK f \in [0 .. n -> Label] :
        /\ f[0] = x /\ f[n] = y
        /\ \A i \in 1 .. n : f[i] = Handled(f[i - 1], es[i])
  BY DEF Leads
<1>. HIDE DEF n
<1>. DEFINE g == [i \in 0 .. n - 1 |-> f[i + 1]]
<1>3. g \in [0 .. n - 1 -> Label]
  BY <1>1
<1>4. g[0] = Handled(x, Head(es)) /\ g[n - 1] = y
  BY <1>1, <1>2
<1>5. ASSUME NEW i \in 1 .. n - 1 PROVE g[i] = Handled(g[i - 1], Tail(es)[i])
  <2>1. i \in 0 .. n - 1 /\ i - 1 \in 0 .. n - 1 /\ i + 1 \in 1 .. n
    BY <1>1
  <2>2. g[i] = f[i + 1] /\ g[i - 1] = f[i] /\ (i + 1) - 1 = i
    BY <2>1
  <2>. QED
    BY <1>1, <1>2, <2>1, <2>2
<1>. HIDE DEF g
<1>. QED
  BY <1>1, <1>3, <1>4, <1>5 DEF Leads

LEMMA LeadsAppend ==
  ASSUME NEW es \in Seq(Event), NEW e \in Event, NEW x, NEW y \in Label, Leads(es, x, y)
  PROVE  Leads(Append(es, e), x, Handled(y, e))
<1>. DEFINE n == Len(es)
            as == Append(es, e)
<1>1. /\ n \in Nat /\ Len(as) = n + 1 /\ as[n + 1] = e
      /\ \A i \in 1 .. n : as[i] = es[i]
  OBVIOUS
<1>2. PICK f \in [0 .. n -> Label] :
        /\ f[0] = x /\ f[n] = y
        /\ \A i \in 1 .. n : f[i] = Handled(f[i - 1], es[i])
  BY DEF Leads
<1>. HIDE DEF n, as
<1>. DEFINE g == [i \in 0 .. n + 1 |-> IF i = n + 1 THEN Handled(y, e) ELSE f[i]]
<1>3. \A i \in 0 .. n + 1 : g[i] = IF i = n + 1 THEN Handled(y, e) ELSE f[i]
  OBVIOUS
<1>4. g \in [0 .. n + 1 -> Label]
  BY <1>1, HandledLabel
<1>. HIDE DEF g
<1>5. g[0] = x /\ g[n + 1] = Handled(y, e)
  BY <1>1, <1>2, <1>3
<1>6. ASSUME NEW i \in 1 .. n + 1 PROVE g[i] = Handled(g[i - 1], as[i])
  <2>1. CASE i = n + 1
    <3>1. g[i] = Handled(y, e) /\ g[i - 1] = f[n] /\ as[i] = e
      BY <1>1, <1>3, <2>1
    <3>. QED
      BY <1>2, <3>1
  <2>2. CASE i # n + 1
    <3>1. /\ i \in 1 .. n /\ i - 1 \in 0 .. n
          /\ g[i] = f[i] /\ g[i - 1] = f[i - 1] /\ as[i] = es[i]
      BY <1>1, <1>3, <2>2
    <3>. QED
      BY <1>2, <3>1
  <2>. QED
    BY <2>1, <2>2
<1>. QED
  BY <1>1, <1>4, <1>5, <1>6 DEF Leads, as

-----------------------------------------------------------------------------
(* Types.                                                                  *)

(* The interval is open while speech is detected; nothing is detected      *)
(* while the playback suppresses it; and a speech that is about to begin   *)
(* can still have a number.                                                *)
LoopInv ==
  /\ vad <=> detected
  /\ vad => id # NoId
  /\ suppressed => ~vad
  /\ pc = "observe" /\ suppressed => ~speech
  /\ pc = "observe" /\ speech /\ ~detected => ids < MaxSpeech
  /\ pc = "restart" => ~capture
  /\ link = "up" /\ seq = 0 => startedIn # session

(* A session ends with a failure.  What is under way belongs to the        *)
(* session that is there, or to an earlier one.                            *)
SessionInv ==
  /\ sessions <= faults + (IF link = "up" THEN 1 ELSE 0)
  /\ link = "up" => session = sessions /\ session # 0
  /\ link \in {"down", "closing"} => session = 0
  /\ link \in {"down", "lost"} => wire = <<>>
  /\ \A i \in DOMAIN wire : wire[i].s \in 1 .. sessions
  /\ \A i \in DOMAIN queue : queue[i].s \in 1 .. sessions

\* TypeOK, variable by variable.
Types ==
  /\ pc \in {"top", "restart", "xvf", "observe", "decide", "status", "acquire"}
  /\ capture \in BOOLEAN /\ clock \in BOOLEAN /\ playing \in BOOLEAN
  /\ suppressed \in BOOLEAN /\ guard \in BOOLEAN /\ speech \in BOOLEAN
  /\ vad \in BOOLEAN /\ detected \in BOOLEAN /\ terminal \in BOOLEAN
  /\ accepting \in BOOLEAN /\ dropped \in BOOLEAN
  /\ id \in Id \cup {NoId} /\ active \in Id \cup {NoId} /\ ids \in 0 .. MaxSpeech
  /\ age \in 0 .. Window /\ decision \in {"none", "ready", "rejected"}
  /\ link \in {"up", "lost", "closing", "down"} /\ faults \in 0 .. MaxFaults
  /\ session \in 0 .. sessions /\ jsession \in 0 .. sessions
  /\ device \in 0 .. sessions /\ startedIn \in 0 .. sessions
  /\ sessions \in 0 .. MaxFaults + 1
  /\ seq \in Nat /\ jseq \in Nat
  /\ wire \in Seq(Event) /\ queue \in Seq(Event) /\ Len(queue) <= QueueMax
  /\ decided \subseteq Id /\ cutOff \subseteq Id

LEMMA TypesAre == TypeOK <=> Types
BY DEF TypeOK, Types

LEMMA SpeechNumbers ==
  /\ MaxSpeech \in Nat /\ MaxFaults \in Nat /\ Window \in Nat \ {0}
  /\ QueueMax \in Nat \ {0} /\ NoId = 0 /\ NoId \notin Id
  /\ \A i \in Id : i \in Nat \ {0} /\ i <= MaxSpeech
BY SpeechAssumption DEF Id, NoId

\* One event more, of the session that is there, or none.
LEMMA Published ==
  ASSUME Types, NEW k \in Kinds, NEW i \in Id \cup {NoId}, Publish(k, i)
  PROVE  /\ seq' \in Nat /\ wire' \in Seq(Event)
         /\ session = 0 => UNCHANGED serverVars
         /\ session # 0 => seq' = seq + 1
         /\ link # "up" => wire' = wire
         /\ session # 0 /\ link = "up" =>
              LET e == [s |-> session, n |-> seq + 1, k |-> k, id |-> i]
              IN  e \in Event /\ wire' = Append(wire, e)
<1>1. [s |-> session, n |-> seq + 1, k |-> k, id |-> i] \in Event
  BY DEF Types, Event, Kinds
<1>2. seq \in Nat /\ seq + 1 \in Nat /\ wire \in Seq(Event)
  BY DEF Types
<1>3. CASE session = 0
  BY <1>2, <1>3 DEF Publish, serverVars
<1>4. CASE session # 0
  <2>1. seq' = seq + 1 /\ (link # "up" => wire' = wire)
    BY <1>4 DEF Publish
  <2>2. link = "up" =>
          wire' = Append(wire, [s |-> session, n |-> seq + 1, k |-> k, id |-> i])
    BY <1>4, <2>1 DEF Publish
  <2>3. wire' \in Seq(Event)
    BY <1>1, <1>2, <2>1, <2>2
  <2>. QED
    BY <1>1, <1>2, <1>4, <2>1, <2>2, <2>3
<1>. QED
  BY <1>3, <1>4

\* What the loop publishes.
LEMMA LoopPublishes ==
  ASSUME Types, LoopInv, Loop
  PROVE  UNCHANGED serverVars \/ \E k \in Kinds, i \in Id \cup {NoId} : Publish(k, i)
<1>. USE SpeechNumbers DEF Kinds
<1>1. CASE CaptureExited \/ RestartCapture \/ XvfFails \/ XvfBack \/ NoClock
  BY <1>1 DEF CaptureExited, RestartCapture, XvfFails, XvfBack, NoClock
<1>2. CASE Look
  BY <1>2 DEF Look, BeginPlayback, Types
<1>3. CASE Observe
  <2>1. id' \in Id \cup {NoId}
    BY <1>3 DEF Observe, StabilizerObserve, Types, LoopInv, Id
  <2>. QED
    BY <1>3, <2>1 DEF Observe
<1>4. CASE HandleDecision
  BY <1>4 DEF HandleDecision, PublishOrientation, Types
<1>. QED
  BY <1>1, <1>2, <1>3, <1>4 DEF Loop

LEMMA LoopTypes ==
  ASSUME Types, LoopInv, DecisionInv, Loop
  PROVE  Types'
<1>. USE SpeechNumbers
<1>1. UNCHANGED <<linkVars, jetsonVars, playing>>
  BY DEF Loop, CaptureExited, RestartCapture, XvfFails, XvfBack, NoClock, Look, Observe,
         HandleDecision, BeyondLoop
<1>2. seq' \in Nat /\ wire' \in Seq(Event)
  BY LoopPublishes, Published DEF Types, serverVars
<1>3. faults' \in 0 .. MaxFaults
  <2>1. Regular \/ Fails
    BY DEF Loop, CaptureExited, RestartCapture, XvfFails, XvfBack, NoClock, Look, Observe,
           HandleDecision
  <2>. QED
    BY <2>1 DEF Regular, Fails, Types
<1>4. /\ pc' \in {"top", "restart", "xvf", "observe", "decide", "status", "acquire"}
      /\ capture' \in BOOLEAN /\ clock' \in BOOLEAN /\ suppressed' \in BOOLEAN
  BY DEF Loop, CaptureExited, RestartCapture, XvfFails, XvfBack, NoClock, Look, Observe,
         HandleDecision, PublishOrientation, BeginPlayback, loopVars, Types
<1>5. guard' \in BOOLEAN /\ speech' \in BOOLEAN /\ vad' \in BOOLEAN /\ detected' \in BOOLEAN
  <2>1. CASE Look
    BY <2>1 DEF Look, BeginPlayback, Reset, doaVars, Types
  <2>2. CASE ~Look
    BY <2>2 DEF Loop, CaptureExited, RestartCapture, XvfFails, XvfBack, NoClock, Observe,
         StabilizerObserve, HandleDecision, Reset, loopVars, doaVars, Types
  <2>. QED
    BY <2>1, <2>2
<1>6. CASE Observe
  <2>1. /\ id' \in Id \cup {NoId} /\ ids' \in 0 .. MaxSpeech /\ age' \in 0 .. Window
        /\ decision' \in {"none", "ready", "rejected"}
    BY <1>6 DEF Observe, StabilizerObserve, Types, LoopInv, Id
  <2>2. terminal' \in BOOLEAN
    BY <1>6 DEF Observe, StabilizerObserve, Types
  <2>3. startedIn' \in 0 .. sessions /\ decided' = decided /\ cutOff' = cutOff
    BY <1>6 DEF Observe, Types
  <2>. QED
    BY <1>1, <1>2, <1>3, <1>4, <1>5, <2>1, <2>2, <2>3 DEF Types, linkVars, jetsonVars
<1>7. CASE ~Observe
  <2>1. /\ id' \in Id \cup {NoId} /\ ids' = ids /\ age' \in 0 .. Window
        /\ decision' \in {"none", "ready", "rejected"}
        /\ terminal' \in BOOLEAN /\ startedIn' = startedIn
    <3>1. /\ \/ id' = NoId /\ age' = 0 /\ terminal' = FALSE
             \/ UNCHANGED <<id, age, terminal>>
          /\ decision' \in {decision, "none"} /\ UNCHANGED <<ids, startedIn>>
      BY <1>7 DEF Loop, CaptureExited, RestartCapture, XvfFails, XvfBack, NoClock, Look,
           BeginPlayback, HandleDecision, PublishOrientation, Reset, loopVars, doaVars
    <3>2. /\ decision' \in {"none", "ready", "rejected"} /\ ids' = ids
          /\ startedIn' = startedIn
      BY <3>1 DEF Types
    <3>3. id' \in Id \cup {NoId} /\ age' \in 0 .. Window
      BY <3>1 DEF Types
    <3>4. terminal' \in BOOLEAN
      BY <3>1 DEF Types
    <3>. QED
      BY <3>2, <3>3, <3>4
  <2>2. cutOff' \subseteq Id
    BY <1>7 DEF Loop, CaptureExited, RestartCapture, XvfFails, XvfBack, NoClock, Look,
         HandleDecision, CutOff, Types, LoopInv
  <2>3. decided' \subseteq Id
    <3>1. CASE HandleDecision
      <4>1. id \in Id
        BY <3>1 DEF HandleDecision, DecisionInv, Deciding, Types
      <4>. QED
        BY <3>1, <4>1 DEF HandleDecision, PublishOrientation, Types
    <3>2. CASE ~HandleDecision
      BY <1>7, <3>2 DEF Loop, CaptureExited, RestartCapture, XvfFails, XvfBack, NoClock,
         Look, Types
    <3>. QED
      BY <3>1, <3>2
  <2>. QED
    BY <1>1, <1>2, <1>3, <1>4, <1>5, <2>1, <2>2, <2>3 DEF Types, linkVars, jetsonVars
<1>. QED
  BY <1>6, <1>7

\* The first event of a queue, and what is behind it.
LEMMA FirstEvent ==
  ASSUME NEW es \in Seq(Event), es # <<>>
  PROVE  /\ Head(es) \in Event /\ Tail(es) \in Seq(Event) /\ Head(es) = es[1]
         /\ 1 \in DOMAIN es /\ Len(es) \in Nat \ {0} /\ Len(Tail(es)) = Len(es) - 1
         /\ \A i \in DOMAIN Tail(es) : /\ i \in Nat /\ i + 1 \in DOMAIN es
                                       /\ Tail(es)[i] = es[i + 1]
OBVIOUS

\* What is in an event.
LEMMA EventFields ==
  ASSUME NEW es \in Seq(Event)
  PROVE  \A i \in DOMAIN es : es[i] \in Event /\ es[i].n \in Nat /\ es[i].s \in Nat /\ i \in Nat
<1>. TAKE i \in DOMAIN es
<1>1. es[i] \in Event /\ i \in Nat
  OBVIOUS
<1>. QED
  BY <1>1 DEF Event

LEMMA LastEvent ==
  ASSUME NEW es \in Seq(Event), NEW e \in Event
  PROVE  /\ Append(es, e) \in Seq(Event) /\ Len(es) \in Nat
         /\ Len(Append(es, e)) = Len(es) + 1 /\ Append(es, e)[Len(es) + 1] = e
         /\ \A i \in DOMAIN es : i \in Nat /\ i <= Len(es) /\ Append(es, e)[i] = es[i]
         /\ \A i \in DOMAIN Append(es, e) : i \in DOMAIN es \/ i = Len(es) + 1
OBVIOUS

LEMMA JetsonTypes ==
  ASSUME Types, SessionInv, Jetson
  PROVE  Types'
<1>. USE SpeechNumbers
<1>1. UNCHANGED <<pc, loopVars, doaVars, inputVars, seq, linkVars, decided, startedIn,
                  cutOff, faults>>
  BY DEF Jetson, AcceptEvent, HandleEvent, BeyondJetson, Regular
<1>2. CASE AcceptEvent
  <2>1. /\ wire \in Seq(Event) /\ wire # <<>> /\ queue \in Seq(Event)
        /\ wire' = Tail(wire) /\ UNCHANGED <<device, accepting, active>>
        /\ Len(queue) <= QueueMax
    BY <1>2 DEF AcceptEvent, Types
  <2>2. /\ Head(wire) \in Event /\ wire' \in Seq(Event)
        /\ Head(wire).s \in 1 .. sessions /\ Head(wire).n \in Nat
    BY <2>1, FirstEvent DEF SessionInv, Event
  <2>3. Room \in Seq(Event) /\ Len(Room) < QueueMax /\ Len(Room) \in Nat
    BY <2>1, FirstEvent DEF Room
  <2>4. /\ jsession' \in 0 .. sessions /\ jseq' \in Nat
        /\ queue' \in Seq(Event) /\ Len(queue') <= QueueMax
    <3>1. CASE queue' = queue /\ jsession' = jsession /\ jseq' = jseq
      BY <3>1 DEF Types
    <3>2. CASE /\ queue' = Append(Room, Head(wire))
               /\ jsession' = Head(wire).s /\ jseq' = Head(wire).n
      <4>1. Len(Append(Room, Head(wire))) = Len(Room) + 1 /\ Append(Room, Head(wire)) \in Seq(Event)
        BY <2>2, <2>3, LastEvent
      <4>. QED
        BY <2>2, <2>3, <3>2, <4>1 DEF Types
    <3>. QED
      BY <1>2, <3>1, <3>2 DEF AcceptEvent
  <2>5. dropped' \in BOOLEAN
    BY <1>2 DEF AcceptEvent, Types
  <2>. QED
    BY <1>1, <2>1, <2>2, <2>4, <2>5 DEF Types, loopVars, doaVars, inputVars, linkVars
<1>3. CASE HandleEvent
  <2>1. /\ queue \in Seq(Event) /\ queue # <<>> /\ queue' = Tail(queue)
        /\ UNCHANGED <<jsession, jseq, dropped, wire>> /\ Len(queue) <= QueueMax
    BY <1>3 DEF HandleEvent, Types
  <2>2. /\ Head(queue) \in Event /\ queue' \in Seq(Event) /\ Len(queue') <= QueueMax
        /\ Head(queue).s \in 1 .. sessions
    BY <2>1, FirstEvent DEF SessionInv
  <2>3. Head(queue).id \in Id \cup {NoId}
    BY <2>2 DEF Event
  <2>4. device' = Head(queue).s /\ sessions \in Nat
    BY <1>3 DEF HandleEvent, Types
  <2>5. active' \in Id \cup {NoId} /\ accepting' \in BOOLEAN
    BY <1>3, <2>3 DEF HandleEvent, SessionOf, Types
  <2>. QED
    BY <1>1, <2>1, <2>2, <2>4, <2>5 DEF Types, loopVars, doaVars, inputVars, linkVars
<1>. QED
  BY <1>2, <1>3 DEF Jetson

LEMMA OtherTypes ==
  ASSUME Types, SessionInv, Inputs \/ Connection \/ UNCHANGED vars
  PROVE  Types'
<1>. USE SpeechNumbers
<1>1. CASE Inputs
  <2>1. /\ capture' \in BOOLEAN /\ clock' \in BOOLEAN /\ playing' \in BOOLEAN
        /\ guard' \in BOOLEAN
    BY <1>1 DEF Inputs, PlaybackChanges, GuardEnds, FirstPacket, CaptureExits, inputVars,
                Types
  <2>2. UNCHANGED <<pc, speech, vad, suppressed, doaVars, serverVars, linkVars, jetsonVars,
                    decided, startedIn, cutOff>>
    BY <1>1 DEF Inputs, PlaybackChanges, GuardEnds, FirstPacket, CaptureExits, BeyondInputs
  <2>3. Regular \/ Fails
    BY <1>1 DEF Inputs, PlaybackChanges, GuardEnds, FirstPacket, CaptureExits
  <2>4. faults' \in 0 .. MaxFaults
    BY <2>3 DEF Regular, Fails, Types
  <2>. QED
    BY <2>1, <2>2, <2>4 DEF Types, doaVars, serverVars, linkVars, jetsonVars
<1>2. CASE Connection
  <2>1. UNCHANGED <<pc, loopVars, doaVars, inputVars, jetsonVars, decided, startedIn, cutOff>>
    BY <1>2 DEF Connection, Connect, JetsonLoses, PiCloses, Closed, BeyondLink
  <2>2. /\ link' \in {"up", "lost", "closing", "down"} /\ seq' \in Nat
        /\ wire' \in Seq(Event)
    <3>1. /\ link' \in {"up", "lost", "closing", "down"} /\ seq' \in {0, seq}
          /\ wire' \in {wire, <<>>}
      BY <1>2 DEF Connection, Connect, JetsonLoses, PiCloses, Closed
    <3>2. <<>> \in Seq(Event)
      OBVIOUS
    <3>3. wire \in Seq(Event) /\ seq' \in Nat
      BY <3>1 DEF Types
    <3>4. wire' \in Seq(Event)
      BY <3>1, <3>2, <3>3, Zenon
    <3>. QED
      BY <3>1, <3>3, <3>4
  <2>3. /\ sessions' \in 0 .. MaxFaults + 1 /\ session' \in 0 .. sessions'
        /\ sessions <= sessions'
    <3>1. CASE Connect
      <4>1. faults \in 0 .. MaxFaults /\ sessions \in Nat /\ sessions <= faults
        BY <3>1 DEF Connect, Types, SessionInv
      <4>. QED
        BY <3>1, <4>1 DEF Connect
    <3>2. CASE JetsonLoses \/ PiCloses \/ Closed
      <4>1. sessions' = sessions /\ session' \in {0, session}
        BY <3>2 DEF JetsonLoses, PiCloses, Closed
      <4>2. sessions \in 0 .. MaxFaults + 1 /\ session \in 0 .. sessions
        BY DEF Types
      <4>. QED
        BY <4>1, <4>2
    <3>. QED
      BY <1>2, <3>1, <3>2 DEF Connection
  <2>4. Regular \/ Fails
    BY <1>2 DEF Connection, Connect, JetsonLoses, PiCloses, Closed
  <2>5. faults' \in 0 .. MaxFaults
    BY <2>4 DEF Regular, Fails, Types
  <2>. QED
    BY <2>1, <2>2, <2>3, <2>5 DEF Types, loopVars, doaVars, inputVars, jetsonVars
<1>3. CASE UNCHANGED vars
  BY <1>3 DEF vars, loopVars, doaVars, serverVars, linkVars, jetsonVars, inputVars, Types
<1>. QED
  BY <1>1, <1>2, <1>3

-----------------------------------------------------------------------------
(* The loop, and the sessions.                                             *)

LEMMA LoopStep ==
  ASSUME Types, LoopInv, SessionInv, [Next]_vars
  PROVE  LoopInv'
<1>. USE SpeechNumbers
<1>1. CASE Loop
  <2>1. UNCHANGED <<session, link>>
    BY <1>1 DEF Loop, CaptureExited, RestartCapture, XvfFails, XvfBack, NoClock, Look,
         Observe, HandleDecision, BeyondLoop, linkVars
  <2>2. seq' \in Nat /\ (session # 0 => seq' \in {seq, seq + 1}) /\ seq \in Nat
    BY <1>1, LoopPublishes, Published DEF serverVars, Types
  <2>3. link = "up" /\ seq' = 0 /\ startedIn' = startedIn => startedIn' # session
    BY <2>2 DEF SessionInv, LoopInv
  <2>4. CASE CaptureExited \/ RestartCapture \/ XvfFails \/ XvfBack \/ NoClock \/ HandleDecision
    <3>1. /\ UNCHANGED <<speech, suppressed, ids, startedIn>>
          /\ \/ UNCHANGED <<vad, detected, id>>
             \/ vad' = FALSE /\ detected' = FALSE
          /\ pc' # "observe"
      BY <2>4 DEF CaptureExited, RestartCapture, XvfFails, XvfBack, NoClock, HandleDecision,
           PublishOrientation, Reset, loopVars, doaVars
    <3>2. pc' = "restart" => ~capture'
      BY <2>4 DEF CaptureExited, RestartCapture, XvfFails, XvfBack, NoClock, HandleDecision,
           PublishOrientation
    <3>3. (vad' <=> detected') /\ (vad' => id' # NoId) /\ (suppressed' => ~vad')
      BY <3>1 DEF LoopInv
    <3>4. link' = "up" /\ seq' = 0 => startedIn' # session'
      BY <2>1, <2>3, <3>1
    <3>. QED
      BY <3>1, <3>2, <3>3, <3>4 DEF LoopInv
  <2>5. CASE Look
    <3>1. speech' => (detected \/ ids < MaxSpeech) /\ ~playing
      BY <2>5 DEF Look
    <3>2. /\ pc' = "observe" /\ UNCHANGED <<ids, startedIn>> /\ suppressed' = playing
          /\ \/ vad' = FALSE /\ detected' = FALSE /\ (playing \/ suppressed)
             \/ UNCHANGED <<vad, detected, id, suppressed>>
      BY <2>5 DEF Look, BeginPlayback, Reset, doaVars, Types
    <3>3. suppressed => ~detected
      BY DEF LoopInv
    <3>4. (vad' <=> detected') /\ (vad' => id' # NoId)
      BY <3>2 DEF LoopInv
    <3>5. suppressed' => ~vad' /\ ~speech'
      BY <3>1, <3>2, <3>3 DEF LoopInv, Types
    <3>6. speech' /\ ~detected' => ids' < MaxSpeech
      BY <3>1, <3>2, <3>3
    <3>7. link' = "up" /\ seq' = 0 => startedIn' # session'
      BY <2>1, <2>3, <3>2
    <3>. QED
      BY <3>2, <3>4, <3>5, <3>6, <3>7 DEF LoopInv
  <2>6. CASE Observe
    <3>1. /\ vad' = speech /\ detected' = speech /\ suppressed' = suppressed
          /\ pc' \notin {"observe", "restart"} /\ pc = "observe"
          /\ id' = IF speech /\ ~detected THEN ids + 1 ELSE id
      BY <2>6 DEF Observe, StabilizerObserve
    <3>2. startedIn' # startedIn =>
            startedIn' = session /\ \E k \in Kinds, i \in Id \cup {NoId} : Publish(k, i)
      <4>1. id' \in Id \cup {NoId}
        BY <2>6, <3>1 DEF Types, LoopInv, Id
      <4>. QED
        BY <2>6, <4>1 DEF Observe, Kinds
    <3>3. link = "up" /\ seq' = 0 => startedIn' # session
      <4>1. CASE startedIn' = startedIn
        BY <2>3, <4>1
      <4>2. CASE startedIn' # startedIn /\ link = "up"
        <5>1. session # 0
          BY <4>2 DEF SessionInv
        <5>2. PICK k \in Kinds, i \in Id \cup {NoId} : Publish(k, i)
          BY <3>2, <4>2
        <5>3. seq' = seq + 1
          BY <5>1, <5>2, Published
        <5>. QED
          BY <2>2, <5>3
      <4>. QED
        BY <4>1, <4>2
    <3>. QED
      BY <2>1, <3>1, <3>3 DEF LoopInv, Types
  <2>. QED
    BY <1>1, <2>4, <2>5, <2>6 DEF Loop
<1>2. CASE Inputs \/ Jetson \/ UNCHANGED vars
  <2>1. /\ UNCHANGED <<pc, speech, vad, suppressed, doaVars, linkVars, seq, startedIn>>
        /\ capture' = capture \/ capture' = FALSE \/ pc # "restart"
    BY <1>2 DEF Inputs, PlaybackChanges, GuardEnds, FirstPacket, CaptureExits, BeyondInputs,
         Jetson, AcceptEvent, HandleEvent, BeyondJetson, vars, loopVars, inputVars,
         serverVars
  <2>. QED
    BY <2>1 DEF LoopInv, doaVars, linkVars, Types
<1>3. CASE Connection
  <2>1. UNCHANGED <<pc, loopVars, doaVars, inputVars, startedIn>>
    BY <1>3 DEF Connection, Connect, JetsonLoses, PiCloses, Closed, BeyondLink
  <2>2. link' = "up" => session' = sessions + 1
    BY <1>3 DEF Connection, Connect, JetsonLoses, PiCloses, Closed
  <2>3. startedIn \in 0 .. sessions /\ sessions \in Nat
    BY DEF Types
  <2>. QED
    BY <2>1, <2>2, <2>3 DEF LoopInv, loopVars, doaVars, inputVars
<1>. QED
  BY <1>1, <1>2, <1>3 DEF Next

(* While the connection is up, what is on the wire are the last events of  *)
(* the session, and the Jetson has accepted all that came before them.     *)
WireInv ==
  link = "up" =>
    /\ \A i \in DOMAIN wire : wire[i].s = session /\ wire[i].n + Len(wire) = seq + i
    /\ Len(wire) <= seq
    /\ Len(wire) < seq => jsession = session /\ jseq + Len(wire) = seq
    /\ Len(wire) = seq => jsession # session

LEMMA SessionStep ==
  ASSUME Types, SessionInv, LoopInv, [Next]_vars
  PROVE  SessionInv'
<1>. USE SpeechNumbers
<1>1. /\ sessions \in Nat /\ session \in 0 .. sessions /\ faults \in Nat
      /\ wire \in Seq(Event) /\ queue \in Seq(Event)
  BY DEF Types
<1>2. CASE Loop
  <2>1. UNCHANGED <<linkVars, queue>> /\ (Regular \/ Fails)
    BY <1>2 DEF Loop, CaptureExited, RestartCapture, XvfFails, XvfBack, NoClock, Look,
         Observe, HandleDecision, BeyondLoop, jetsonVars
  <2>2. \/ wire' = wire
        \/ link = "up" /\ \E e \in Event : wire' = Append(wire, e) /\ e.s = session
    <3>1. ASSUME NEW k \in Kinds, NEW i \in Id \cup {NoId}, Publish(k, i), session # 0
          PROVE  \/ wire' = wire
                 \/ link = "up" /\ \E e \in Event : wire' = Append(wire, e) /\ e.s = session
      BY <3>1, Published
    <3>2. ASSUME NEW k \in Kinds, NEW i \in Id \cup {NoId}, Publish(k, i), session = 0
          PROVE  wire' = wire
      BY <3>2, Published DEF serverVars
    <3>. QED
      BY <1>2, <3>1, <3>2, LoopPublishes DEF serverVars
  <2>3. sessions' <= faults' + (IF link' = "up" THEN 1 ELSE 0)
    BY <1>1, <2>1 DEF SessionInv, Regular, Fails, linkVars
  <2>4. \A i \in DOMAIN wire' : wire'[i].s \in 1 .. sessions
    <3>1. ASSUME NEW e \in Event, wire' = Append(wire, e), e.s = session, link = "up",
                 NEW i \in DOMAIN wire'
          PROVE  wire'[i].s \in 1 .. sessions
      <4>1. e.s \in 1 .. sessions
        BY <1>1, <3>1 DEF SessionInv
      <4>. QED
        BY <1>1, <3>1, <4>1, LastEvent DEF SessionInv
    <3>. QED
      BY <2>2, <3>1 DEF SessionInv
  <2>. QED
    BY <2>1, <2>2, <2>3, <2>4 DEF SessionInv, linkVars
<1>3. CASE Inputs \/ UNCHANGED vars
  <2>1. UNCHANGED <<linkVars, wire, queue>> /\ (Regular \/ Fails)
    BY <1>3 DEF Inputs, PlaybackChanges, GuardEnds, FirstPacket, CaptureExits, BeyondInputs,
         vars, serverVars, jetsonVars, Regular
  <2>2. sessions' <= faults' + (IF link' = "up" THEN 1 ELSE 0)
    BY <1>1, <2>1 DEF SessionInv, Regular, Fails, linkVars
  <2>. QED
    BY <2>1, <2>2 DEF SessionInv, linkVars
<1>4. CASE Connection
  <2>1. queue' = queue /\ wire' \in {wire, <<>>} /\ DOMAIN <<>> = {}
    BY <1>4 DEF Connection, Connect, JetsonLoses, PiCloses, Closed, BeyondLink, jetsonVars
  <2>2. sessions' \in Nat /\ sessions <= sessions' /\ 1 .. sessions \subseteq 1 .. sessions'
    BY <1>1, <1>4 DEF Connection, Connect, JetsonLoses, PiCloses, Closed
  <2>3. /\ \A i \in DOMAIN wire' : wire'[i].s \in 1 .. sessions'
        /\ \A i \in DOMAIN queue' : queue'[i].s \in 1 .. sessions'
    BY <2>1, <2>2 DEF SessionInv
  <2>4. /\ sessions' <= faults' + (IF link' = "up" THEN 1 ELSE 0)
        /\ link' = "up" => session' = sessions' /\ session' # 0
        /\ link' \in {"down", "closing"} => session' = 0
        /\ link' \in {"down", "lost"} => wire' = <<>>
    BY <1>1, <1>4 DEF Connection, Connect, JetsonLoses, PiCloses, Closed, SessionInv,
         Regular, Fails
  <2>. QED
    BY <2>3, <2>4 DEF SessionInv
<1>5. CASE Jetson
  <2>1. UNCHANGED <<linkVars, faults>>
    BY <1>5 DEF Jetson, AcceptEvent, HandleEvent, BeyondJetson, Regular
  <2>2. CASE AcceptEvent
    <3>1. /\ wire # <<>> /\ wire' = Tail(wire)
          /\ queue' = queue \/ queue' = Append(Room, Head(wire))
      BY <2>2 DEF AcceptEvent
    <3>2. /\ Head(wire) \in Event /\ Head(wire).s \in 1 .. sessions
          /\ \A i \in DOMAIN wire' : wire'[i].s \in 1 .. sessions
          /\ link \notin {"down", "lost"}
      BY <1>1, <3>1, FirstEvent DEF SessionInv
    <3>3. Room \in Seq(Event) /\ \A i \in DOMAIN Room : Room[i].s \in 1 .. sessions
      <4>1. CASE Room = queue
        BY <1>1, <4>1 DEF SessionInv
      <4>2. CASE queue # <<>> /\ Room = Tail(queue)
        BY <1>1, <4>2, FirstEvent DEF SessionInv
      <4>. QED
        BY <1>1, <4>1, <4>2 DEF Room
    <3>4. \A i \in DOMAIN queue' : queue'[i].s \in 1 .. sessions
      <4>1. CASE queue' = queue
        BY <4>1 DEF SessionInv
      <4>2. CASE queue' = Append(Room, Head(wire))
        BY <3>2, <3>3, <4>2, LastEvent
      <4>. QED
        BY <3>1, <4>1, <4>2
    <3>. QED
      BY <2>1, <3>2, <3>4 DEF SessionInv, linkVars
  <2>3. CASE HandleEvent
    <3>1. queue # <<>> /\ queue' = Tail(queue) /\ wire' = wire
      BY <2>3 DEF HandleEvent
    <3>2. \A i \in DOMAIN queue' : queue'[i].s \in 1 .. sessions
      BY <1>1, <3>1, FirstEvent DEF SessionInv
    <3>. QED
      BY <2>1, <3>1, <3>2 DEF SessionInv, linkVars
  <2>. QED
    BY <1>5, <2>2, <2>3 DEF Jetson
<1>. QED
  BY <1>2, <1>3, <1>4, <1>5 DEF Next

LEMMA OneBehind ==
  \A n, l, q, j \in Nat :
    n + l = q + j => n + (l + 1) = (q + 1) + j
OBVIOUS

\* While the connection is up, the Jetson accepts each event that comes.
LEMMA HeadFollows ==
  ASSUME Types, WireInv, link = "up", wire # <<>>
  PROVE  Follows(Head(wire))
<1>1. /\ wire \in Seq(Event) /\ seq \in Nat /\ jseq \in Nat
      /\ Head(wire) \in Event /\ Len(wire) \in Nat \ {0}
      /\ Head(wire).s = session /\ Head(wire).n + Len(wire) = seq + 1
  BY FirstEvent DEF WireInv, Types
<1>2. Head(wire).n \in Nat
  BY <1>1 DEF Event
<1>. QED
  BY <1>1, <1>2 DEF Follows, WireInv

LEMMA WireStep ==
  ASSUME Types, SessionInv, LoopInv, WireInv, [Next]_vars
  PROVE  WireInv'
<1>1. /\ wire \in Seq(Event) /\ Len(wire) \in Nat /\ seq \in Nat /\ jseq \in Nat
      /\ sessions \in Nat /\ session \in 0 .. sessions /\ jsession \in 0 .. sessions
  BY DEF Types
<1>2. CASE Loop
  <2>1. UNCHANGED <<linkVars, jsession, jseq>>
    BY <1>2 DEF Loop, CaptureExited, RestartCapture, XvfFails, XvfBack, NoClock, Look,
         Observe, HandleDecision, BeyondLoop, jetsonVars
  <2>2. CASE UNCHANGED serverVars
    BY <2>1, <2>2 DEF WireInv, serverVars, linkVars
  <2>3. ASSUME NEW k \in Kinds, NEW i \in Id \cup {NoId}, Publish(k, i), link = "up"
        PROVE  WireInv'
    <3>1. PICK e \in Event : e.s = session /\ e.n = seq + 1 /\ wire' = Append(wire, e)
      BY <2>3, Published DEF SessionInv
    <3>2. seq' = seq + 1
      BY <2>3, Published DEF SessionInv
    <3>3. /\ Len(wire') = Len(wire) + 1 /\ wire'[Len(wire) + 1] = e
          /\ \A j \in DOMAIN wire : j \in Nat /\ wire'[j] = wire[j]
          /\ \A j \in DOMAIN wire' : j \in DOMAIN wire \/ j = Len(wire) + 1
      BY <1>1, <3>1, LastEvent
    <3>4. \A j \in DOMAIN wire' : wire'[j].s = session /\ wire'[j].n + Len(wire') = seq' + j
      <4>1. ASSUME NEW j \in DOMAIN wire
            PROVE  wire'[j].s = session /\ wire'[j].n + Len(wire') = seq' + j
        <5>1. wire[j].s = session /\ wire[j].n + Len(wire) = seq + j /\ wire[j].n \in Nat
          BY <1>1, <2>3, EventFields DEF WireInv
        <5>2. /\ wire'[j].s = session /\ wire'[j].n \in Nat /\ j \in Nat
              /\ wire'[j].n + Len(wire) = seq + j
          BY <3>3, <5>1
        <5>3. Len(wire') = Len(wire) + 1 /\ seq' = seq + 1
          BY <3>2, <3>3
        <5>4. Len(wire) \in Nat /\ seq \in Nat
          BY <1>1
        <5>5. wire'[j].n + (Len(wire) + 1) = (seq + 1) + j
          BY <5>2, <5>4, OneBehind
        <5>. QED
          BY <5>2, <5>3, <5>5
      <4>2. wire'[Len(wire) + 1].s = session
            /\ wire'[Len(wire) + 1].n + Len(wire') = seq' + (Len(wire) + 1)
        BY <1>1, <3>1, <3>2, <3>3
      <4>. QED
        BY <3>3, <4>1, <4>2
    <3>5. /\ Len(wire) <= seq
          /\ Len(wire) < seq => jsession = session /\ jseq + Len(wire) = seq
          /\ Len(wire) = seq => jsession # session
      BY <2>3 DEF WireInv
    <3>6. /\ Len(wire') <= seq'
          /\ Len(wire') < seq' => jsession = session /\ jseq + Len(wire') = seq'
          /\ Len(wire') = seq' => jsession # session
      BY <1>1, <3>2, <3>3, <3>5
    <3>. QED
      BY <2>1, <3>4, <3>6 DEF WireInv, linkVars
  <2>. QED
    BY <1>2, <2>1, <2>2, <2>3, LoopPublishes DEF WireInv, linkVars
<1>3. CASE Inputs \/ HandleEvent \/ UNCHANGED vars
  <2>1. UNCHANGED <<linkVars, serverVars, jsession, jseq>>
    BY <1>3 DEF Inputs, PlaybackChanges, GuardEnds, FirstPacket, CaptureExits, BeyondInputs,
         HandleEvent, BeyondJetson, vars, serverVars, jetsonVars
  <2>. QED
    BY <2>1 DEF WireInv, linkVars, serverVars
<1>4. CASE Connection
  <2>1. link' = "up" => /\ wire' = <<>> /\ seq' = 0 /\ session' = sessions + 1
                        /\ jsession' = jsession
    BY <1>4 DEF Connection, Connect, JetsonLoses, PiCloses, Closed, BeyondLink, jetsonVars,
         SessionInv
  <2>2. Len(<<>>) = 0 /\ DOMAIN <<>> = {}
    OBVIOUS
  <2>. QED
    BY <1>1, <2>1, <2>2 DEF WireInv
<1>5. CASE AcceptEvent
  <2>1. /\ UNCHANGED <<linkVars, seq>> /\ wire # <<>> /\ wire' = Tail(wire)
        /\ Follows(Head(wire)) => jsession' = Head(wire).s /\ jseq' = Head(wire).n
    BY <1>5 DEF AcceptEvent, BeyondJetson
  <2>2. SUFFICES ASSUME link = "up" PROVE WireInv'
    BY <2>1 DEF WireInv, linkVars
  <2>3. /\ Head(wire) \in Event /\ Len(wire) \in Nat \ {0} /\ Len(wire') = Len(wire) - 1
        /\ Head(wire).s = session /\ Head(wire).n + Len(wire) = seq + 1
        /\ \A i \in DOMAIN wire' : i \in Nat /\ i + 1 \in DOMAIN wire /\ wire'[i] = wire[i + 1]
    BY <1>1, <2>1, <2>2, FirstEvent DEF WireInv
  <2>4. Head(wire).n \in Nat
    BY <2>3 DEF Event
  <2>5. Follows(Head(wire))
    BY <2>1, <2>2, HeadFollows
  <2>6. \A i \in DOMAIN wire' : wire'[i].s = session /\ wire'[i].n + Len(wire') = seq + i
    <3>1. ASSUME NEW i \in DOMAIN wire'
          PROVE  wire'[i].s = session /\ wire'[i].n + Len(wire') = seq + i
      <4>1. /\ wire[i + 1].s = session /\ wire[i + 1].n + Len(wire) = seq + (i + 1)
            /\ wire[i + 1].n \in Nat /\ wire'[i] = wire[i + 1] /\ i \in Nat
        BY <1>1, <2>2, <2>3, EventFields DEF WireInv
      <4>2. wire'[i].s = session /\ wire'[i].n + Len(wire) = seq + (i + 1) /\ wire'[i].n \in Nat
        BY <4>1
      <4>3. Len(wire') = Len(wire) - 1 /\ Len(wire) \in Nat /\ Len(wire) # 0
        BY <2>3
      <4>4. seq \in Nat /\ i \in Nat
        BY <1>1, <4>1
      <4>. DEFINE n == wire'[i].n
                  l == Len(wire)
      <4>5. n \in Nat /\ l \in Nat /\ n + l = seq + (i + 1)
        BY <4>2, <4>3
      <4>. HIDE DEF n, l
      <4>6. n + (l - 1) = seq + i
        BY <4>4, <4>5
      <4>. QED
        BY <4>2, <4>3, <4>6 DEF n, l
    <3>. QED
      BY <3>1
  <2>. QED
    BY <1>1, <2>1, <2>2, <2>3, <2>4, <2>5, <2>6 DEF WireInv, linkVars
<1>. QED
  BY <1>2, <1>3, <1>4, <1>5 DEF Next, Jetson

-----------------------------------------------------------------------------
(* What the Jetson hears.                                                  *)

\* A label the Jetson can have.
Open(x) ==
  /\ x.device = 0 => x.accepting /\ x.active = NoId
  /\ Shut(x)
  /\ x.device <= sessions

\* Nothing is said of the capture that is not so.
Awake == capture \/ pc \notin {"top", "restart"}

\* What a label says when all events of the session have been handled.
Told(x) ==
  /\ Awake => x.accepting
  /\ pc = "restart" => x.active = NoId
  /\ x.active \in {NoId} \cup cutOff \cup (IF vad THEN {id} ELSE {})
  /\ vad /\ startedIn = session /\ Awake => x.active = id

Expected(x) ==
  IF seq = 0 THEN x.device # session ELSE x.device = session /\ Told(x)

(* Unless an event has been dropped, the Jetson will have a label when it  *)
(* has handled its queue, and the expected one, while the connection is    *)
(* up, when it has handled what is on the wire.                            *)
HearInv ==
  ~dropped =>
    \E q \in Label :
      /\ Leads(queue, Here, q) /\ Open(q)
      /\ link = "up" => \E w \in Label : Leads(wire, q, w) /\ Open(w) /\ Expected(w)

\* The label that the next event of the session finds.
LEMMA ToldOfSession ==
  ASSUME Types, LoopInv, SessionInv, link = "up",
         NEW w \in Label, Open(w), Expected(w)
  PROVE  LET c == KeptFor(w, session)
         IN  /\ c \in Label /\ c.device = session /\ Told(c) /\ Shut(c)
             /\ seq # 0 => c = w
<1>. DEFINE c == KeptFor(w, session)
<1>1. session \in Nat /\ session # 0 /\ sessions \in Nat
  BY SpeechNumbers DEF Types, SessionInv
<1>2. w = [device |-> w.device, accepting |-> w.accepting, active |-> w.active]
      /\ w.device \in Nat /\ w.accepting \in BOOLEAN /\ w.active \in Id \cup {NoId}
  BY DEF Label
<1>3. CASE seq = 0
  <2>1. c = [device |-> session, accepting |-> TRUE, active |-> NoId]
    <3>1. w.device # session
      BY <1>3 DEF Expected
    <3>2. CASE w.device = 0
      <4>1. w.accepting = TRUE /\ w.active = NoId
        BY <1>2, <3>2 DEF Open
      <4>. QED
        BY <1>2, <3>2, <4>1 DEF KeptFor
    <3>3. CASE w.device # 0
      BY <3>1, <3>3 DEF KeptFor
    <3>. QED
      BY <3>2, <3>3
  <2>2. c \in Label /\ c.device = session /\ c.accepting /\ c.active = NoId
    BY <1>1, <2>1 DEF Label
  <2>3. startedIn # session
    BY <1>3 DEF LoopInv
  <2>. HIDE DEF c
  <2>4. Told(c) /\ Shut(c)
    BY <2>2, <2>3 DEF Told, Shut
  <2>. QED
    BY <1>3, <2>2, <2>4 DEF c
<1>4. CASE seq # 0
  <2>1. w.device = session /\ Told(w) /\ Shut(w)
    BY <1>4 DEF Expected, Open
  <2>2. c = w
    BY <1>2, <2>1 DEF KeptFor
  <2>. QED
    BY <2>1, <2>2
<1>. QED
  BY <1>3, <1>4

\* What becomes of a label.
LEMMA RelabelledAs ==
  ASSUME NEW c \in Label, Shut(c), NEW i \in Id \cup {NoId}
  PROVE  /\ Relabelled(c, "exited", i).active = NoId
         /\ Relabelled(c, "capture", i).accepting
         /\ Relabelled(c, "capture", i).active = c.active
         /\ c.accepting => /\ Relabelled(c, "start", i).accepting
                           /\ Relabelled(c, "start", i).active = i
                           /\ Relabelled(c, "end", i).accepting
                           /\ Relabelled(c, "end", i).active =
                                IF c.active = i THEN NoId ELSE c.active
         /\ Relabelled(c, "orientation", i) = c
         /\ Relabelled(c, "device", i) = c
<1>1. c = [device |-> c.device, accepting |-> c.accepting, active |-> c.active]
      /\ c.device \in Nat /\ c.accepting \in BOOLEAN /\ c.active \in Id \cup {NoId}
  BY DEF Label
<1>. QED
  BY <1>1 DEF Relabelled, Shut

\* The loop tells of all that it does.
LEMMA LoopTells ==
  ASSUME Types, LoopInv, SessionInv, DecisionInv, Loop,
         NEW c \in Label, Told(c), Shut(c)
  PROVE  \/ UNCHANGED serverVars /\ Told(c)'
         \/ \E k \in Kinds, i \in Id \cup {NoId} :
              Publish(k, i) /\ Told(Relabelled(c, k, i))'
<1>. USE SpeechNumbers
<1>1. UNCHANGED <<session>>
  BY DEF Loop, CaptureExited, RestartCapture, XvfFails, XvfBack, NoClock, Look,
       Observe, HandleDecision, BeyondLoop, linkVars
<1>2. NoId \in Id \cup {NoId}
      /\ {"start", "end", "capture", "exited", "orientation", "device"} \subseteq Kinds
  BY DEF Kinds
<1>10. PICK i \in Id \cup {NoId} : i = id
  BY DEF Types
<1>3. CASE CaptureExited
  <2>1. Publish("exited", NoId) /\ pc' = "restart" /\ ~capture'
        /\ UNCHANGED <<vad, id, cutOff>>
    BY <1>3 DEF CaptureExited, loopVars, doaVars
  <2>2. Relabelled(c, "exited", NoId).active = NoId
    BY <1>2, RelabelledAs
  <2>3. Told(Relabelled(c, "exited", NoId))'
    BY <2>1, <2>2 DEF Told, Awake
  <2>. QED
    BY <1>2, <2>1, <2>3
<1>4. CASE RestartCapture
  <2>1. pc = "restart" /\ ~capture /\ pc' = "top" /\ UNCHANGED <<cutOff, startedIn>>
    BY <1>4 DEF RestartCapture, LoopInv
  <2>2. c.active = NoId
    BY <2>1 DEF Told
  <2>3. CASE Publish("capture", NoId) /\ vad' = FALSE
    <3>1. /\ Relabelled(c, "capture", NoId).active = NoId
          /\ Relabelled(c, "capture", NoId).accepting
      BY <1>2, <2>2, RelabelledAs
    <3>2. Told(Relabelled(c, "capture", NoId))'
      BY <2>1, <2>3, <3>1 DEF Told
    <3>. QED
      BY <1>2, <2>3, <3>2
  <2>4. CASE Publish("exited", NoId) /\ UNCHANGED capture
    <3>1. Relabelled(c, "exited", NoId).active = NoId
      BY <1>2, RelabelledAs
    <3>2. Told(Relabelled(c, "exited", NoId))'
      BY <2>1, <2>4, <3>1 DEF Told, Awake
    <3>. QED
      BY <1>2, <2>4, <3>2
  <2>. QED
    BY <1>4, <2>3, <2>4 DEF RestartCapture
<1>5. CASE XvfFails
  <2>1. /\ Publish("device", NoId) /\ pc = "top" /\ capture /\ pc' = "xvf"
        /\ UNCHANGED <<vad, id, cutOff, startedIn>>
    BY <1>5 DEF XvfFails, loopVars, doaVars
  <2>2. Told(c)'
    BY <1>1, <2>1 DEF Told, Awake
  <2>3. Relabelled(c, "device", NoId) = c
    BY <1>2, RelabelledAs
  <2>. QED
    BY <1>2, <2>1, <2>2, <2>3
<1>6. CASE XvfBack \/ NoClock
  <2>1. /\ Awake /\ pc' = "top" /\ CutOff /\ vad' = FALSE
        /\ UNCHANGED serverVars \/ Publish("device", NoId)
    BY <1>6 DEF XvfBack, NoClock, Awake
  <2>2. Told(c)'
    BY <2>1 DEF Told, CutOff
  <2>3. Relabelled(c, "device", NoId) = c
    BY <1>2, RelabelledAs
  <2>. QED
    BY <1>2, <2>1, <2>2, <2>3
<1>7. CASE Look
  <2>1. Awake /\ pc' = "observe" /\ UNCHANGED <<cutOff, startedIn>> /\ c.accepting
    BY <1>7 DEF Look, Awake, Told
  <2>2. CASE BeginPlayback
    <3>1. CASE vad
      <4>1. Publish("end", i) /\ vad' = FALSE
        BY <1>10, <2>2, <3>1 DEF BeginPlayback
      <4>2. LET r == Relabelled(c, "end", i)
            IN  r.accepting /\ r.active \in {NoId} \cup cutOff
        <5>1. LET r == Relabelled(c, "end", i)
              IN  r.accepting /\ r.active = IF c.active = i THEN NoId ELSE c.active
          BY <2>1, RelabelledAs
        <5>2. c.active \in {NoId} \cup cutOff \cup {i}
          BY <1>10, <3>1 DEF Told
        <5>. QED
          BY <5>1, <5>2
      <4>3. Told(Relabelled(c, "end", i))'
        BY <2>1, <4>1, <4>2 DEF Told
      <4>. QED
        BY <1>2, <4>1, <4>3
    <3>2. CASE ~vad
      BY <2>1, <2>2, <3>2 DEF BeginPlayback, Told
    <3>. QED
      BY <3>1, <3>2
  <2>3. CASE suppressed /\ vad' = FALSE /\ UNCHANGED serverVars
    BY <2>1, <2>3 DEF Told, LoopInv
  <2>4. CASE UNCHANGED <<doaVars, vad, serverVars>>
    BY <1>1, <2>1, <2>4 DEF Told, doaVars
  <2>5. \/ BeginPlayback
        \/ suppressed /\ vad' = FALSE /\ UNCHANGED serverVars
        \/ UNCHANGED <<doaVars, vad, serverVars>>
    BY <1>7 DEF Look
  <2>. QED
    BY <2>2, <2>3, <2>4, <2>5
<1>8. CASE Observe
  <2>1. /\ Awake /\ c.accepting /\ vad' = speech /\ pc' # "restart"
        /\ UNCHANGED <<cutOff>> /\ speech \in BOOLEAN /\ vad \in BOOLEAN
        /\ id' = IF speech /\ ~vad THEN ids + 1 ELSE id
    BY <1>8 DEF Observe, StabilizerObserve, Awake, Told, LoopInv, Types
  <2>2. CASE speech /\ ~vad
    <3>1. Publish("start", id') /\ id' \in Id \cup {NoId}
      <4>1. Publish("start", id')
        BY <1>8, <2>2 DEF Observe
      <4>2. pc = "observe" /\ id' = ids + 1 /\ ids < MaxSpeech /\ ids \in Nat
        BY <1>8, <2>1, <2>2 DEF Observe, LoopInv, Types
      <4>. QED
        BY <4>1, <4>2 DEF Id
    <3>2. PICK j \in Id \cup {NoId} : j = id'
      BY <3>1
    <3>3. /\ Relabelled(c, "start", j).accepting
          /\ Relabelled(c, "start", j).active = j
      BY <2>1, RelabelledAs
    <3>4. Told(Relabelled(c, "start", j))'
      BY <2>1, <2>2, <3>2, <3>3 DEF Told
    <3>. QED
      BY <1>2, <3>1, <3>2, <3>4
  <2>3. CASE ~speech /\ vad
    <3>1. Publish("end", i) /\ vad' = FALSE
      BY <1>8, <1>10, <2>1, <2>3 DEF Observe
    <3>2. LET r == Relabelled(c, "end", i)
          IN  r.accepting /\ r.active \in {NoId} \cup cutOff
      <4>1. LET r == Relabelled(c, "end", i)
            IN  r.accepting /\ r.active = IF c.active = i THEN NoId ELSE c.active
        BY <2>1, RelabelledAs
      <4>2. c.active \in {NoId} \cup cutOff \cup {i}
        BY <1>10, <2>3 DEF Told
      <4>. QED
        BY <4>1, <4>2
    <3>3. Told(Relabelled(c, "end", i))'
      BY <2>1, <3>1, <3>2 DEF Told
    <3>. QED
      BY <1>2, <3>1, <3>3
  <2>4. CASE speech <=> vad
    <3>1. UNCHANGED <<serverVars, startedIn>> /\ id' = id /\ (vad' <=> vad)
      BY <1>8, <2>1, <2>4 DEF Observe
    <3>. QED
      BY <1>1, <2>1, <3>1 DEF Told
  <2>. QED
    BY <2>1, <2>2, <2>3, <2>4
<1>9. CASE HandleDecision
  <2>1. /\ Awake /\ UNCHANGED <<vad, id, cutOff, startedIn>> /\ pc' # "restart"
        /\ UNCHANGED serverVars \/ Publish("orientation", i)
    BY <1>9, <1>10 DEF HandleDecision, PublishOrientation, Awake, loopVars
  <2>2. Told(c)'
    BY <1>1, <2>1 DEF Told
  <2>3. Relabelled(c, "orientation", i) = c
    BY <1>2, RelabelledAs
  <2>. QED
    BY <1>2, <2>1, <2>2, <2>3
<1>. QED
  BY <1>3, <1>4, <1>5, <1>6, <1>7, <1>8, <1>9 DEF Loop

LEMMA OpenHandled ==
  ASSUME Types, NEW x \in Label, Open(x), NEW e \in Event, e.s \in 1 .. sessions
  PROVE  Handled(x, e) \in Label /\ Open(Handled(x, e))
<1>1. sessions \in Nat /\ e.s # 0 /\ e.s <= sessions
  BY SpeechNumbers DEF Types
<1>. QED
  BY <1>1, HandledLabel DEF Open

LEMMA LoopHears ==
  ASSUME Types, LoopInv, SessionInv, DecisionInv, Loop, link = "up",
         NEW q \in Label, NEW w \in Label, Leads(wire, q, w), Open(w), Expected(w)
  PROVE  \E v \in Label : /\ Leads(wire', q, v) /\ Open(v)
                          /\ IF seq' = 0 THEN v.device # session
                                         ELSE v.device = session /\ Told(v)'
<1>1. PICK c \in Label : /\ c = KeptFor(w, session)
                         /\ c.device = session /\ Told(c) /\ Shut(c)
                         /\ seq # 0 => c = w
  BY ToldOfSession
<1>2. CASE UNCHANGED serverVars /\ Told(c)'
  <2>1. IF seq = 0 THEN w.device # session ELSE w.device = session /\ Told(w)'
    BY <1>1, <1>2 DEF Expected
  <2>. QED
    BY <1>2, <2>1 DEF serverVars
<1>3. CASE \E k \in Kinds, i \in Id \cup {NoId} :
             Publish(k, i) /\ Told(Relabelled(c, k, i))'
  <2>1. PICK k \in Kinds, i \in Id \cup {NoId} :
               Publish(k, i) /\ Told(Relabelled(c, k, i))'
    BY <1>3
  <2>. DEFINE e == [s |-> session, n |-> seq + 1, k |-> k, id |-> i]
  <2>2. session # 0 /\ session = sessions
    BY DEF SessionInv
  <2>3. e \in Event /\ wire' = Append(wire, e) /\ seq' = seq + 1
    BY <2>1, <2>2, Published
  <2>4. e.s \in 1 .. sessions /\ wire \in Seq(Event) /\ seq' # 0
    BY <2>2, <2>3, SpeechNumbers DEF Types
  <2>5. Handled(w, e) = Relabelled(c, k, i)
    BY <1>1 DEF Handled
  <2>6. Handled(w, e).device = session
    BY <2>3, HandledLabel
  <2>. HIDE DEF e
  <2>7. Handled(w, e) \in Label /\ Open(Handled(w, e))
    BY <2>3, <2>4, OpenHandled
  <2>8. Leads(wire', q, Handled(w, e))
    BY <2>3, <2>4, LeadsAppend
  <2>9. Told(Relabelled(c, k, i))'
    BY <2>1
  <2>10. PICK v \in Label : v = Relabelled(c, k, i)
    BY <2>5, <2>7
  <2>11. v \in Label /\ Leads(wire', q, v) /\ Open(v) /\ v.device = session /\ Told(v)'
    BY <2>5, <2>6, <2>7, <2>8, <2>9, <2>10
  <2>. QED
    BY <2>4, <2>11
<1>. QED
  BY <1>1, <1>2, <1>3, LoopTells

LEMMA HearStep ==
  ASSUME Types, LoopInv, SessionInv, DecisionInv, WireInv, HearInv, [Next]_vars
  PROVE  HearInv'
<1>. SUFFICES ASSUME ~dropped' PROVE HearInv'
  BY DEF HearInv
<1>1. /\ wire \in Seq(Event) /\ queue \in Seq(Event) /\ sessions \in Nat
      /\ session \in 0 .. sessions /\ Here \in Label
  BY SpeechNumbers DEF Types, Here, Label
<1>2. CASE Loop
  <2>1. UNCHANGED <<linkVars, jetsonVars>>
    BY <1>2 DEF Loop, CaptureExited, RestartCapture, XvfFails, XvfBack, NoClock, Look,
         Observe, HandleDecision, BeyondLoop
  <2>2. UNCHANGED <<queue, Here, link, session, sessions, dropped>>
    BY <2>1 DEF linkVars, jetsonVars, Here
  <2>3. PICK q \in Label :
          /\ Leads(queue, Here, q) /\ Open(q)
          /\ link = "up" => \E w \in Label : Leads(wire, q, w) /\ Open(w) /\ Expected(w)
    BY <2>2 DEF HearInv
  <2>4. \A x : Open(x) => Open(x)'
    BY <2>2 DEF Open
  <2>5. ASSUME link = "up"
        PROVE  \E v \in Label : Leads(wire', q, v) /\ Open(v)' /\ Expected(v)'
    <3>1. PICK w \in Label : Leads(wire, q, w) /\ Open(w) /\ Expected(w)
      BY <2>3, <2>5
    <3>2. PICK v \in Label : /\ Leads(wire', q, v) /\ Open(v)
                             /\ IF seq' = 0 THEN v.device # session
                                            ELSE v.device = session /\ Told(v)'
      BY <1>2, <2>5, <3>1, LoopHears
    <3>3. Expected(v)'
      BY <2>2, <3>2 DEF Expected
    <3>. QED
      BY <2>4, <3>2, <3>3
  <2>. QED
    BY <2>2, <2>3, <2>4, <2>5 DEF HearInv
<1>3. CASE Inputs \/ UNCHANGED vars
  <2>1. /\ UNCHANGED <<pc, vad, id, cutOff, startedIn, seq, wire, linkVars, jetsonVars>>
        /\ capture' => capture
    BY <1>3 DEF Inputs, PlaybackChanges, GuardEnds, FirstPacket, CaptureExits, BeyondInputs,
         vars, loopVars, doaVars, serverVars, inputVars
  <2>2. UNCHANGED <<queue, Here, link, session, sessions, dropped>>
    BY <2>1 DEF linkVars, jetsonVars, Here
  <2>3. PICK q \in Label :
          /\ Leads(queue, Here, q) /\ Open(q)
          /\ link = "up" => \E w \in Label : Leads(wire, q, w) /\ Open(w) /\ Expected(w)
    BY <2>2 DEF HearInv
  <2>4. \A x : Open(x) => Open(x)'
    BY <2>2 DEF Open
  <2>5. \A x : Told(x) => Told(x)'
    BY <2>1, <2>2 DEF Told, Awake
  <2>6. \A x : Expected(x) => Expected(x)'
    BY <2>1, <2>2, <2>5 DEF Expected
  <2>. QED
    BY <2>1, <2>2, <2>3, <2>4, <2>6 DEF HearInv
<1>4. CASE Connection
  <2>1. UNCHANGED <<queue, Here, dropped>>
    BY <1>4 DEF Connection, Connect, JetsonLoses, PiCloses, Closed, BeyondLink, jetsonVars,
         Here
  <2>2. PICK q \in Label : Leads(queue, Here, q) /\ Open(q)
    BY <2>1 DEF HearInv
  <2>3. sessions' \in Nat /\ sessions <= sessions' /\ q.device \in Nat
    BY <1>1, <1>4 DEF Connection, Connect, JetsonLoses, PiCloses, Closed, Label
  <2>4. Open(q)'
    BY <1>1, <2>2, <2>3 DEF Open
  <2>5. ASSUME link' = "up"
        PROVE  \E w \in Label : Leads(wire', q, w) /\ Open(w)' /\ Expected(w)'
    <3>1. wire' = <<>> /\ seq' = 0 /\ session' = sessions + 1
      BY <1>4, <2>5 DEF Connection, Connect, JetsonLoses, PiCloses, Closed, SessionInv
    <3>2. Leads(wire', q, q)
      BY <3>1, LeadsNowhere
    <3>3. q.device # session'
      BY <1>1, <2>2, <2>3, <3>1 DEF Open
    <3>. QED
      BY <2>4, <3>1, <3>2, <3>3 DEF Expected
  <2>. QED
    BY <2>1, <2>2, <2>4, <2>5 DEF HearInv
<1>5. CASE AcceptEvent
  <2>1. /\ UNCHANGED <<pc, vad, id, cutOff, startedIn, capture, seq, linkVars>>
        /\ UNCHANGED Here /\ wire # <<>> /\ wire' = Tail(wire) /\ ~dropped
    BY <1>5 DEF AcceptEvent, BeyondJetson, loopVars, doaVars, inputVars, Here, Types
  <2>2. UNCHANGED <<link, session, sessions>>
    BY <2>1 DEF linkVars
  <2>3. PICK e \in Event : e = Head(wire) /\ e.s \in 1 .. sessions
    BY <1>1, <2>1, FirstEvent DEF SessionInv
  <2>4. /\ Follows(e) => queue' = Append(queue, e)
        /\ ~Follows(e) => queue' = queue
    BY <1>5, <2>1, <2>3 DEF AcceptEvent
  <2>5. link = "up" => Follows(e)
    BY <2>1, <2>3, HeadFollows
  <2>6. PICK q \in Label :
          /\ Leads(queue, Here, q) /\ Open(q)
          /\ link = "up" => \E w \in Label : Leads(wire, q, w) /\ Open(w) /\ Expected(w)
    BY <2>1 DEF HearInv
  <2>7. \A x : Open(x) => Open(x)'
    BY <2>2 DEF Open
  <2>8. \A x : Expected(x) => Expected(x)'
    BY <2>1, <2>2 DEF Expected, Told, Awake
  <2>9. CASE Follows(e)
    <3>1. Handled(q, e) \in Label /\ Open(Handled(q, e))'
      BY <2>3, <2>6, <2>7, OpenHandled
    <3>2. Leads(queue', Here', Handled(q, e))
      BY <1>1, <2>1, <2>3, <2>4, <2>6, <2>9, LeadsAppend
    <3>3. ASSUME link' = "up"
          PROVE  \E w \in Label : /\ Leads(wire', Handled(q, e), w)
                                  /\ Open(w)' /\ Expected(w)'
      <4>1. PICK w \in Label : Leads(wire, q, w) /\ Open(w) /\ Expected(w)
        BY <2>2, <2>6, <3>3
      <4>2. Leads(wire', Handled(q, e), w)
        BY <1>1, <2>1, <2>3, <4>1, LeadsTail
      <4>. QED
        BY <2>7, <2>8, <4>1, <4>2
    <3>. QED
      BY <3>1, <3>2, <3>3 DEF HearInv
  <2>10. CASE ~Follows(e)
    <3>1. link' # "up" /\ queue' = queue /\ Here' = Here
      BY <2>1, <2>2, <2>4, <2>5, <2>10
    <3>. QED
      BY <2>6, <2>7, <3>1 DEF HearInv
  <2>. QED
    BY <2>9, <2>10
<1>6. CASE HandleEvent
  <2>1. /\ UNCHANGED <<pc, vad, id, cutOff, startedIn, capture, seq, wire, linkVars>>
        /\ queue # <<>> /\ queue' = Tail(queue) /\ ~dropped
    BY <1>6 DEF HandleEvent, BeyondJetson, loopVars, doaVars, inputVars
  <2>2. UNCHANGED <<link, session, sessions>>
    BY <2>1 DEF linkVars
  <2>3. Here' = Handled(Here, Head(queue))
    <3>. DEFINE e == Head(queue)
                k == KeptFor(Here, e.s)
    <3>1. /\ SessionOf(e).accepting = k.accepting /\ SessionOf(e).active = k.active
          /\ k.device = e.s
      BY DEF SessionOf, KeptFor, Here
    <3>2. /\ device' = e.s
          /\ accepting' = CASE e.k = "exited"  -> FALSE
                            [] e.k = "capture" -> TRUE
                            [] OTHER -> SessionOf(e).accepting
          /\ active' = CASE e.k = "exited" /\ SessionOf(e).accepting -> NoId
                         [] e.k = "start" /\ SessionOf(e).accepting -> e.id
                         [] e.k = "end" /\ SessionOf(e).accepting
                              /\ SessionOf(e).active = e.id -> NoId
                         [] OTHER -> SessionOf(e).active
      BY <1>6 DEF HandleEvent
    <3>. HIDE DEF e, k
    <3>3. /\ device' = Relabelled(k, e.k, e.id).device
          /\ accepting' = Relabelled(k, e.k, e.id).accepting
          /\ active' = Relabelled(k, e.k, e.id).active
      BY <3>1, <3>2 DEF Relabelled
    <3>4. Here' = Relabelled(k, e.k, e.id)
      BY <3>3 DEF Here, Relabelled
    <3>. QED
      BY <3>4 DEF Handled, e, k
  <2>4. PICK q \in Label :
          /\ Leads(queue, Here, q) /\ Open(q)
          /\ link = "up" => \E w \in Label : Leads(wire, q, w) /\ Open(w) /\ Expected(w)
    BY <2>1 DEF HearInv
  <2>5. Leads(queue', Here', q)
    BY <1>1, <2>1, <2>3, <2>4, LeadsTail
  <2>6. \A x : Open(x) => Open(x)'
    BY <2>2 DEF Open
  <2>7. \A x : Expected(x) => Expected(x)'
    BY <2>1, <2>2 DEF Expected, Told, Awake
  <2>. QED
    BY <2>1, <2>2, <2>4, <2>5, <2>6, <2>7 DEF HearInv
<1>. QED
  BY <1>2, <1>3, <1>4, <1>5, <1>6 DEF Next, Jetson

SpeechInv ==
  Types /\ DecisionInv /\ LoopInv /\ SessionInv /\ WireInv /\ HearInv

LEMMA SpeechInit == Init => SpeechInv
<1>. SUFFICES ASSUME Init PROVE SpeechInv
  OBVIOUS
<1>. USE SpeechNumbers DEF Init
<1>1. <<>> \in Seq(Event) /\ Len(<<>>) = 0 /\ DOMAIN <<>> = {}
  OBVIOUS
<1>2. Types
  <2>1. /\ capture \in BOOLEAN /\ clock \in BOOLEAN /\ playing \in BOOLEAN
        /\ suppressed \in BOOLEAN /\ guard \in BOOLEAN /\ speech \in BOOLEAN
        /\ vad \in BOOLEAN /\ detected \in BOOLEAN /\ terminal \in BOOLEAN
        /\ accepting \in BOOLEAN /\ dropped \in BOOLEAN
    BY Zenon
  <2>2. 0 \in 0 .. MaxSpeech /\ 0 \in 0 .. Window /\ 0 \in 0 .. MaxFaults
        /\ 0 \in 0 .. 0 /\ 0 \in 0 .. MaxFaults + 1
    OBVIOUS
  <2>. QED
    BY <1>1, <2>1, <2>2 DEF Types
<1>3. DecisionInv
  BY InitDecisionInv
<1>4. LoopInv /\ SessionInv /\ WireInv
  BY <1>1 DEF LoopInv, SessionInv, WireInv
<1>5. HearInv
  <2>1. Here \in Label /\ Open(Here)
    BY DEF Here, Label, Open, Shut
  <2>2. Leads(queue, Here, Here)
    BY <2>1, LeadsNowhere
  <2>. QED
    BY <2>1, <2>2 DEF HearInv
<1>. QED
  BY <1>2, <1>3, <1>4, <1>5 DEF SpeechInv

LEMMA SpeechStep == SpeechInv /\ [Next]_vars => SpeechInv'
<1>. SUFFICES ASSUME SpeechInv, [Next]_vars PROVE SpeechInv'
  OBVIOUS
<1>1. Types /\ DecisionInv /\ LoopInv /\ SessionInv /\ WireInv /\ HearInv
  BY DEF SpeechInv
<1>2. Types'
  BY <1>1, LoopTypes, JetsonTypes, OtherTypes DEF Next
<1>3. DecisionInv'
  BY <1>1, StepDecisionInv
<1>4. LoopInv' /\ SessionInv' /\ WireInv'
  BY <1>1, LoopStep, SessionStep, WireStep
<1>5. HearInv'
  BY <1>1, HearStep
<1>. QED
  BY <1>2, <1>3, <1>4, <1>5 DEF SpeechInv

(* What the loop says of the speech and of the capture reaches the Jetson  *)
(* in its order: the label it will have, once it has taken in all that is  *)
(* on its way, is the one that the loop's own state calls for.             *)
THEOREM SpeechInvariant == Spec => []SpeechInv
BY SpeechInit, SpeechStep, PTL DEF Spec

(* Types of the loop, of the connection and of the Jetson: in particular   *)
(* the numbers of the speeches, the sessions and the queue keep their      *)
(* bounds.                                                                 *)
THEOREM SpeechTyped == Spec => []TypeOK
<1>1. SpeechInv => TypeOK
  BY TypesAre DEF SpeechInv
<1>. QED
  BY <1>1, SpeechInvariant, PTL

(* IntervalIsHeard: when everything has been taken in, the Jetson labels   *)
(* the sound with the speech that the Pi hears, or with none when it hears *)
(* none, after lost connections, lost captures and playback                *)
(* (daemon.py:232-330, transport.py and audio.py:166-177 on the Jetson).   *)
THEOREM IntervalHeard == Spec => []IntervalIsHeard
<1>1. ASSUME SpeechInv, Settled
      PROVE  /\ active \in {NoId} \cup cutOff \cup (IF vad THEN {id} ELSE {})
             /\ vad /\ startedIn = session => active = id
  <2>1. /\ ~dropped /\ queue = <<>> /\ wire = <<>> /\ link = "up"
        /\ device = session /\ capture
    BY <1>1 DEF Settled
  <2>2. PICK q \in Label : /\ Leads(<<>>, Here, q)
                           /\ \E w \in Label : Leads(<<>>, q, w) /\ Expected(w)
    BY <1>1, <2>1 DEF SpeechInv, HearInv
  <2>3. Expected(Here)
    BY <2>2, LeadsOnly
  <2>4. Here.device = session /\ Here.active = active
    BY <2>1 DEF Here
  <2>5. Told(Here)
    BY <2>3, <2>4 DEF Expected
  <2>. QED
    BY <2>1, <2>4, <2>5 DEF Told, Awake
<1>2. SpeechInv => IntervalIsHeard
  BY <1>1 DEF IntervalIsHeard
<1>. QED
  BY <1>2, SpeechInvariant, PTL

-----------------------------------------------------------------------------
(* The capture clock.  Times without a wrap are natural numbers; a stamp   *)
(* is such a time modulo Modulus.                                          *)

Half == Modulus \div 2

LEMMA Halves == Half \in Nat \ {0} /\ Modulus = 2 * Half
  BY LabelAssumption, SMT DEF Half

(* Whole turns of a clock are added and taken away: t, s, p are times,     *)
(* the letters before them in the sums whole turns of M ticks.             *)
LEMMA TurnsFrom ==
  ASSUME NEW M \in Int, NEW p \in Int, NEW n \in Int, NEW pm \in Int,
         NEW r \in Int, NEW k \in Int, NEW q \in Int,
         p = q * M + pm, p + n = k * M + r
  PROVE  pm + n = (k - q) * M + r
  BY SMT

LEMMA TurnsBetween ==
  ASSUME NEW M \in Int, NEW s \in Int, NEW t \in Int, NEW tm \in Int,
         NEW sm \in Int, NEW d \in Int,
         NEW q \in Int, NEW a \in Int, NEW b \in Int,
         t - s = q * M + d, t = a * M + tm, s = b * M + sm
  PROVE  tm - sm = ((q - a) + b) * M + d
  BY SMT

LEMMA TurnsBetweenFour ==
  ASSUME NEW M \in Int, NEW s \in Int, NEW t \in Int, NEW p \in Int,
         NEW tm \in Int, NEW sm \in Int, NEW r \in Int, NEW w \in Int,
         NEW q \in Int, NEW a \in Int, NEW b \in Int, NEW c \in Int,
         t - s + p = q * M + w, t = a * M + tm, s = b * M + sm,
         sm - p = c * M + r
  PROVE  tm - r = (((q - a) + b) + c) * M + w
  BY SMT

LEMMA OneTurnMore ==
  ASSUME NEW M \in Int, NEW q \in Int, NEW w \in Int
  PROVE  q * M + w = (q + 1) * M + (w - M)
  BY SMT

\* Division with remainder.
LEMMA Division ==
  ASSUME NEW x \in Int
  PROVE  /\ x % Modulus \in 0 .. Modulus - 1
         /\ \E q \in Int : x = q * Modulus + (x % Modulus)
<1>1. x % Modulus \in 0 .. Modulus - 1 /\ x \div Modulus \in Int
  BY LabelAssumption, SMT
<1>2. x = (x \div Modulus) * Modulus + (x % Modulus)
  BY LabelAssumption, SMT
<1> QED
  BY <1>1, <1>2

LEMMA Remainder ==
  ASSUME NEW x \in Int, NEW q \in Int, NEW r \in 0 .. Modulus - 1,
         x = q * Modulus + r
  PROVE  x % Modulus = r
  BY LabelAssumption, SMT

\* A difference is told right if it is less than half a turn of the clock.
LEMMA Delta ==
  ASSUME NEW v \in Int, NEW r \in Int, NEW q \in Int, NEW d \in -Half .. Half - 1,
         v - r = q * Modulus + d
  PROVE  RtpDelta(v, r) = d
<1>1. d + Half \in 0 .. Modulus - 1
  BY Halves
<1>2. v - r + Half = q * Modulus + (d + Half)
  BY Halves, LabelAssumption
<1>3. (v - r + Half) % Modulus = d + Half
  BY <1>1, <1>2, Halves, Remainder
<1> QED
  BY <1>3, Halves DEF RtpDelta, Half

(* The extrapolated clock is the clock: however often it has wrapped since *)
(* the packet (CaptureRtpClock.at, src/device/audio.py).                   *)
THEOREM ClockIsTrue ==
  ASSUME NEW p \in Nat, NEW n \in Nat
  PROVE  At(p % Modulus, n) = (p + n) % Modulus
<1>1. PICK q \in Int : p = q * Modulus + (p % Modulus)
  BY Division
<1>2. PICK k \in Int : p + n = k * Modulus + ((p + n) % Modulus)
  BY Division
<1>3. p % Modulus \in Int /\ (p + n) % Modulus \in 0 .. Modulus - 1
  BY Division
<1>4. (p % Modulus) + n = (k - q) * Modulus + ((p + n) % Modulus)
  <2> DEFINE pm == p % Modulus
             r  == (p + n) % Modulus
  <2>1. p = q * Modulus + pm /\ p + n = k * Modulus + r
    BY <1>1, <1>2
  <2>2. pm \in Int /\ r \in Int
    BY <1>3
  <2> HIDE DEF pm, r
  <2>3. pm + n = (k - q) * Modulus + r
    BY <2>1, <2>2, LabelAssumption, TurnsFrom
  <2> QED
    BY <2>3 DEF pm, r
<1>5. k - q \in Int /\ (p % Modulus) + n \in Int
  BY <1>3
<1> QED
  BY <1>3, <1>4, <1>5, Remainder DEF At

(* A speech reaches a frame exactly if, whole turns of the clock apart,    *)
(* the frame is less than half a turn after the pre-roll.                  *)
LEMMA ReachesExactly ==
  ASSUME NEW s \in Nat, NEW t \in Nat, NEW spoken, spoken.start = s % Modulus
  PROVE  Reaches(spoken, t % Modulus) <=> (t - s + PreRoll) % Modulus < Half
<1> DEFINE w == (t - s + PreRoll) % Modulus
           r == ((s % Modulus) - PreRoll) % Modulus
<1>0. PreRoll \in Nat /\ t - s + PreRoll \in Int /\ s % Modulus \in Int
      /\ t % Modulus \in Int
  BY LabelAssumption, Division
<1>1. PICK q \in Int : t - s + PreRoll = q * Modulus + w
  BY <1>0, Division
<1>2. PICK a \in Int : t = a * Modulus + (t % Modulus)
  BY Division
<1>3. PICK b \in Int : s = b * Modulus + (s % Modulus)
  BY Division
<1>4. PICK c \in Int : (s % Modulus) - PreRoll = c * Modulus + r
  BY <1>0, Division
<1>5. w \in 0 .. Modulus - 1 /\ r \in 0 .. Modulus - 1
  BY <1>0, Division
<1> HIDE DEF w, r
<1> DEFINE tm == t % Modulus
           sm == s % Modulus
           turns == ((q - a) + b) + c
<1>a. /\ t = a * Modulus + tm /\ s = b * Modulus + sm
      /\ sm - PreRoll = c * Modulus + r
  BY <1>2, <1>3, <1>4
<1>b. tm \in Int /\ sm \in Int /\ turns \in Int
  BY <1>0
<1> HIDE DEF tm, sm
<1>6. tm - r = turns * Modulus + w
  BY <1>0, <1>1, <1>5, <1>a, <1>b, LabelAssumption, TurnsBetweenFour
<1> HIDE DEF turns
<1>7. CASE w < Half
  <2>1. w \in -Half .. Half - 1 /\ r \in Int
    BY <1>5, <1>7, Halves
  <2>2. RtpDelta(tm, r) = w
    BY <2>1, <1>6, <1>b, Delta
  <2> QED
    BY <2>2, <1>5, <1>7, Halves DEF Reaches, r, w, tm
<1>8. CASE w >= Half
  <2>1. tm - r = (turns + 1) * Modulus + (w - Modulus)
    BY <1>5, <1>6, <1>b, LabelAssumption, OneTurnMore
  <2>2. w - Modulus \in -Half .. Half - 1 /\ r \in Int /\ turns + 1 \in Int
    BY <1>5, <1>8, <1>b, Halves
  <2>3. RtpDelta(tm, r) = w - Modulus
    BY <2>1, <2>2, <1>b, Delta
  <2> QED
    BY <2>3, <1>5, <1>8, Halves DEF Reaches, r, w, tm
<1> QED
  BY <1>5, <1>7, <1>8, Halves

(* A speech of less than half a turn with its pre-roll, which is twelve    *)
(* hours, covers the frames between its pre-roll and its end, and those    *)
(* whole turns later: it is named again a day later, unless eight others   *)
(* have come (_speech_id, lamp_device_bridge/audio.py).                    *)
THEOREM CoversExactly ==
  ASSUME NEW s \in Nat, NEW e \in Nat, NEW t \in Nat, NEW spoken,
         spoken.start = s % Modulus, spoken.end = e % Modulus,
         s <= e, e - s + PreRoll < Half
  PROVE  Covers(spoken, t % Modulus)
           <=> (t - s + PreRoll) % Modulus <= e - s + PreRoll
<1> DEFINE w == (t - s + PreRoll) % Modulus
           l == e - s + PreRoll
<1>0. PreRoll \in Nat /\ t - s + PreRoll \in Int /\ e % Modulus \in Int
      /\ t % Modulus \in Int /\ l \in Nat
  BY LabelAssumption, Division
<1>1. PICK q \in Int : t - s + PreRoll = q * Modulus + w
  BY <1>0, Division
<1>2. PICK a \in Int : t = a * Modulus + (t % Modulus)
  BY Division
<1>3. PICK b \in Int : e = b * Modulus + (e % Modulus)
  BY Division
<1>4. w \in 0 .. Modulus - 1
  BY <1>0, Division
<1>5. Reaches(spoken, t % Modulus) <=> w < Half
  BY ReachesExactly
<1>6. l < Half /\ t - e = t - s + PreRoll - l
  BY <1>0
<1> HIDE DEF w, l
<1> DEFINE tm == t % Modulus
           em == e % Modulus
           d == w - l
           turns == (q - a) + b
<1>c. tm \in Int /\ em \in Int /\ turns \in Int /\ d \in Int
  BY <1>0, <1>4
<1>a. /\ t = a * Modulus + tm /\ e = b * Modulus + em
      /\ t - e = q * Modulus + d
  <2>1. q * Modulus \in Int
    BY LabelAssumption
  <2> QED
    BY <1>0, <1>1, <1>2, <1>3, <1>4, <1>6, <2>1
<1> HIDE DEF tm, em, d
<1>b. Modulus \in Int /\ e \in Int /\ t \in Int
  BY LabelAssumption
<1>7. tm - em = turns * Modulus + d
  BY <1>a, <1>b, <1>c, TurnsBetween
<1> HIDE DEF turns
<1>8. CASE w < Half
  <2>1. d \in -Half .. Half - 1
    BY <1>0, <1>4, <1>6, <1>8, Halves DEF d
  <2>2. RtpDelta(tm, em) = d
    BY <2>1, <1>7, <1>c, Delta
  <2>3. RtpDelta(tm, spoken.end) <= 0 <=> w <= l
    BY <2>2, <1>0, <1>4 DEF em, d
  <2> QED
    BY <2>3, <1>5, <1>8 DEF Covers, w, l, tm
<1>9. CASE w >= Half
  <2>1. ~(w <= l)
    BY <1>0, <1>4, <1>6, <1>9, Halves
  <2> QED
    BY <2>1, <1>5, <1>9, <1>4, Halves DEF Covers, w, l
<1> QED
  BY <1>4, <1>8, <1>9, Halves

(* Within one turn of the clock a speech that is over covers the frames    *)
(* from its pre-roll to its end and no other, wherever the clock wraps.    *)
THEOREM CoversOwnFrames ==
  ASSUME NEW s \in Nat, NEW e \in Nat, NEW t \in Nat, NEW spoken,
         spoken.start = s % Modulus, spoken.end = e % Modulus,
         s <= e, e - s + PreRoll < Half,
         s - PreRoll <= t, t - s + PreRoll < Modulus
  PROVE  Covers(spoken, t % Modulus) <=> t <= e
<1>0. PreRoll \in Nat /\ Modulus \in Nat
  BY LabelAssumption
<1>1. t - s + PreRoll \in 0 .. Modulus - 1 /\ t - s + PreRoll = 0 * Modulus + (t - s + PreRoll)
  BY <1>0
<1>2. (t - s + PreRoll) % Modulus = t - s + PreRoll
  BY <1>0, <1>1, Remainder
<1>3. Covers(spoken, t % Modulus) <=> t - s + PreRoll <= e - s + PreRoll
  BY <1>2, CoversExactly
<1> QED
  BY <1>3, <1>0

\* What a speech was, on a clock that never wraps, and the stamps of it.
Spell == [id : STRING, start : Nat, end : Nat]

Stamped(h) == [id |-> h.id, start |-> h.start % Modulus, end |-> h.end % Modulus]

\* The frames of a speech, and a clock on which the speech is near them.
Holds(h, t) == h.start - PreRoll <= t /\ t <= h.end

Near(h, t) ==
  /\ h.start <= h.end /\ h.end - h.start + PreRoll < Half
  /\ h.end - Modulus < t /\ t < h.start - PreRoll + Modulus

\* The last Kept speeches that are over are remembered.
Memory(past) == IF Len(past) < Kept THEN Len(past) ELSE Kept

Kth(past, k) == past[Len(past) - Memory(past) + k]

\* A speech that has begun.
Opened == [id : STRING, start : Nat]

(* What the Jetson keeps of the speeches past and of the open one, if any. *)
Remembers(c, past, now) ==
  /\ c \in [completed : Seq([id : STRING, start : Int, end : Int]),
            open : [id : STRING, start : Int] \cup {NoSpeech}]
  /\ Len(c.completed) = Memory(past)
  /\ \A k \in 1 .. Memory(past) : c.completed[k] = Stamped(Kth(past, k))
  /\ IF now = NoSpeech THEN c.open = NoSpeech
     ELSE c.open = [id |-> now.id, start |-> now.start % Modulus]

(* The name of a frame for somebody who knows the time without a wrap.     *)
IsTrueName(name, past, now, t) ==
  LET held == {k \in 1 .. Memory(past) : Holds(Kth(past, k), t)} IN
  /\ \A k \in held : (\A j \in held : k >= j) => name = Kth(past, k).id
  /\ held = {} => name = IF now # NoSpeech /\ now.start - PreRoll <= t
                           THEN now.id ELSE NoSpeech.id

(* The stamps of a speech that is over cover a frame exactly when it fell  *)
(* into the speech, earlier or later by less than a turn of the clock.     *)
LEMMA HoldsExactly ==
  ASSUME NEW h \in Spell, NEW t \in Nat, Near(h, t)
  PROVE  Covers(Stamped(h), t % Modulus) <=> Holds(h, t)
<1> DEFINE x == t - h.start + PreRoll
           l == h.end - h.start + PreRoll
<1>0. /\ PreRoll \in Nat /\ Modulus \in Nat
      /\ h.start \in Nat /\ h.end \in Nat
      /\ Stamped(h).start = h.start % Modulus /\ Stamped(h).end = h.end % Modulus
  BY LabelAssumption DEF Spell, Stamped
<1>1. Covers(Stamped(h), t % Modulus) <=> x % Modulus <= l
  BY <1>0, CoversExactly DEF Near
<1>2. x \in Int /\ l - Modulus < x /\ x < Modulus /\ 0 <= l /\ l < Modulus
  BY <1>0, Halves DEF Near
<1>3. CASE 0 <= x
  <2>1. x \in 0 .. Modulus - 1 /\ x = 0 * Modulus + x
    BY <1>0, <1>2, <1>3
  <2>2. x % Modulus = x
    BY <1>2, <2>1, Remainder
  <2> QED
    BY <1>0, <1>1, <1>3, <2>2 DEF Holds
<1>4. CASE x < 0
  <2>1. x + Modulus \in 0 .. Modulus - 1 /\ x = (-1) * Modulus + (x + Modulus)
    BY <1>0, <1>2, <1>4
  <2>2. x % Modulus = x + Modulus
    BY <1>2, <2>1, Remainder
  <2> QED
    BY <1>0, <1>1, <1>2, <1>4, <2>2 DEF Holds
<1> QED
  BY <1>2, <1>3, <1>4

\* The open speech reaches a frame that is less than half a turn away.
LEMMA OpenExactly ==
  ASSUME NEW s \in Nat, NEW t \in Nat, NEW spoken, spoken.start = s % Modulus,
         s - PreRoll - Half <= t, t < s - PreRoll + Half
  PROVE  Reaches(spoken, t % Modulus) <=> s - PreRoll <= t
<1> DEFINE x == t - s + PreRoll
<1>0. PreRoll \in Nat /\ Modulus \in Nat /\ Half \in Nat /\ Modulus = 2 * Half
  BY LabelAssumption, Halves
<1>1. Reaches(spoken, t % Modulus) <=> x % Modulus < Half
  BY ReachesExactly
<1>2. x \in Int /\ -Half <= x /\ x < Half
  BY <1>0
<1>3. CASE 0 <= x
  <2>1. x \in 0 .. Modulus - 1 /\ x = 0 * Modulus + x
    BY <1>0, <1>2, <1>3
  <2>2. x % Modulus = x
    BY <1>2, <2>1, Remainder
  <2> QED
    BY <1>0, <1>1, <1>2, <1>3, <2>2
<1>4. CASE x < 0
  <2>1. x + Modulus \in 0 .. Modulus - 1 /\ x = (-1) * Modulus + (x + Modulus)
    BY <1>0, <1>2, <1>4
  <2>2. x % Modulus = x + Modulus
    BY <1>2, <2>1, Remainder
  <2> QED
    BY <1>0, <1>1, <1>2, <1>4, <2>2
<1> QED
  BY <1>2, <1>3, <1>4

\* An open speech is not the absence of one.
LEMMA NobodySpeaks == \A o \in [id : STRING, start : Int] : o # NoSpeech
  BY DEF NoSpeech

(* At its end a speech is the last of those that are remembered, by the    *)
(* stamps that the Pi extrapolates from any two packets before; once there *)
(* are Kept of them the oldest is forgotten, and no other (activity,       *)
(* lamp_device_bridge/audio.py).                                           *)
THEOREM LastAreRemembered ==
  ASSUME NEW c, NEW past \in Seq(Spell), Remembers(c, past, NoSpeech),
         NEW h \in Spell, NEW p \in Nat, NEW q \in Nat, p <= h.start, q <= h.end
  PROVE  LET begun == Begins(c, At(p % Modulus, h.start - p), h.id)
             over  == Ends(begun, At(q % Modulus, h.end - q), h.id) IN
         /\ Remembers(begun, past, [id |-> h.id, start |-> h.start])
         /\ Remembers(over, Append(past, h), NoSpeech)
<1> DEFINE Kind == [id : STRING, start : Int, end : Int]
           s == h.start % Modulus
           e == h.end % Modulus
           begun == Begins(c, At(p % Modulus, h.start - p), h.id)
           over == Ends(begun, At(q % Modulus, h.end - q), h.id)
           all == Append(c.completed, Stamped(h))
<1>1. h.id \in STRING /\ h.start \in Nat /\ h.end \in Nat /\ s \in Int /\ e \in Int
  BY Division DEF Spell
<1>2. At(p % Modulus, h.start - p) = s /\ At(q % Modulus, h.end - q) = e
  <2>1. h.start - p \in Nat /\ h.end - q \in Nat
    BY <1>1
  <2>2. p + (h.start - p) = h.start /\ q + (h.end - q) = h.end
    BY <1>1
  <2> QED
    BY <2>1, <2>2, ClockIsTrue
<1>3. begun = [completed |-> c.completed, open |-> [id |-> h.id, start |-> s]]
  BY <1>2 DEF Begins, Remembers
<1>4. Remembers(begun, past, [id |-> h.id, start |-> h.start])
  <2>1. [id |-> h.id, start |-> h.start] # NoSpeech
    BY <1>1, NobodySpeaks
  <2> QED
    BY <1>1, <1>3, <2>1 DEF Remembers
<1>5. Stamped(h) \in Kind /\ c.completed \in Seq(Kind) /\ Len(c.completed) = Memory(past)
  BY <1>1 DEF Stamped, Remembers
<1>6. /\ all \in Seq(Kind) /\ Len(all) = Len(c.completed) + 1
      /\ \A k \in 1 .. Len(c.completed) : all[k] = c.completed[k]
      /\ all[Len(c.completed) + 1] = Stamped(h)
  BY <1>5, AppendProperties
<1> DEFINE from == IF Len(all) > Kept THEN 2 ELSE 1
           last == SubSeq(all, from, Len(all))
<1>7. over = [completed |-> last, open |-> NoSpeech]
  <2>1. /\ begun.completed = c.completed
        /\ begun.open.id = h.id /\ begun.open.start = s
    BY <1>3
  <2>2. all = Append(begun.completed, [id |-> h.id, start |-> begun.open.start, end |-> e])
    BY <2>1 DEF Stamped
  <2>3. over = Ends(begun, e, h.id)
    BY <1>2
  <2> HIDE DEF begun, over, all, s, e
  <2> QED
    BY <2>1, <2>2, <2>3 DEF Ends
<1>8. /\ Append(past, h) \in Seq(Spell) /\ Len(Append(past, h)) = Len(past) + 1
      /\ \A k \in 1 .. Len(past) : Append(past, h)[k] = past[k]
      /\ Append(past, h)[Len(past) + 1] = h
  BY AppendProperties
<1>9. Len(past) \in Nat /\ Kept \in Nat \ {0} /\ Memory(past) \in 0 .. Len(past)
  BY LenProperties, LabelAssumption DEF Memory
<1> DEFINE n  == Len(past)
           m  == Memory(past)
           m2 == Memory(Append(past, h))
<1>10. /\ n \in Nat /\ m \in 0 .. n /\ Len(all) = m + 1 /\ from \in 1 .. 2
       /\ m2 = m + 2 - from /\ from <= m + 1
       /\ n + 1 - m2 = n - m + from - 1
  <2>1. m2 = IF n + 1 < Kept THEN n + 1 ELSE Kept
    BY <1>8 DEF Memory
  <2>2. m = IF n < Kept THEN n ELSE Kept
    BY DEF Memory
  <2>3. Len(all) = m + 1 /\ n \in Nat /\ Kept \in Nat \ {0}
    BY <1>5, <1>6, <1>9
  <2> HIDE DEF all, n, m, m2
  <2> QED
    BY <2>1, <2>2, <2>3
<1> HIDE DEF begun, over, s, e, all, n, m, m2
<1>11. /\ last \in Seq(Kind) /\ Len(last) = m2
       /\ \A k \in 1 .. m2 : last[k] = all[from + k - 1]
  <2>1. \A k \in 1 .. Len(all) : all[k] \in Kind
    BY <1>6, ElementOfSeq
  <2> HIDE DEF from
  <2>2. /\ last \in Seq(Kind)
        /\ Len(last) = IF from <= Len(all) THEN Len(all) - from + 1 ELSE 0
        /\ \A k \in 1 .. Len(all) - from + 1 : last[k] = all[from + k - 1]
    BY <1>10, <2>1, SubSeqProperties
  <2>3. from <= Len(all) /\ Len(all) - from + 1 = m2
    BY <1>10
  <2> QED
    BY <2>2, <2>3
<1> HIDE DEF from, last
<1>12. ASSUME NEW k \in 1 .. m2
       PROVE  last[k] = Stamped(Kth(Append(past, h), k))
  <2> DEFINE j == from + k - 1
             i == n - m + j
  <2>1. last[k] = all[j] /\ j \in 1 .. m + 1 /\ i \in 1 .. n + 1
    <3>1. last[k] = all[j]
      BY <1>11
    <3>2. j \in 1 .. m + 1
      BY <1>10
    <3>3. i \in 1 .. n + 1
      BY <1>10
    <3> HIDE DEF i, j
    <3> QED
      BY <3>1, <3>2, <3>3
  <2>2. Kth(Append(past, h), k) = Append(past, h)[i]
    <3> DEFINE len == Len(Append(past, h))
    <3>1. len = n + 1
      BY <1>8 DEF n
    <3>2. Kth(Append(past, h), k) = Append(past, h)[len - m2 + k]
      BY DEF Kth, m2
    <3> HIDE DEF len
    <3>3. len - m2 + k = i
      BY <1>10, <3>1
    <3> HIDE DEF i
    <3> QED
      BY <3>2, <3>3
  <2>3. CASE j = m + 1
    <3>1. i = n + 1
      BY <1>10, <2>3
    <3>2. Append(past, h)[n + 1] = h
      BY <1>8 DEF n
    <3>3. all[m + 1] = Stamped(h)
      BY <1>5, <1>6 DEF m
    <3> HIDE DEF i, j
    <3> QED
      BY <2>1, <2>2, <2>3, <3>1, <3>2, <3>3
  <2>4. CASE j \in 1 .. m
    <3>1. i \in 1 .. n
      BY <1>10, <2>4
    <3>2. Append(past, h)[i] = past[i]
      BY <1>8, <3>1 DEF n
    <3>3. all[j] = c.completed[j] /\ c.completed[j] = Stamped(Kth(past, j))
      BY <1>5, <1>6, <2>4 DEF Remembers, m
    <3>4. Kth(past, j) = past[i]
      BY DEF Kth, n, m
    <3> QED
      BY <2>1, <2>2, <3>2, <3>3, <3>4
  <2> QED
    BY <1>10, <2>1, <2>3, <2>4
<1>13. Remembers(over, Append(past, h), NoSpeech)
  BY <1>7, <1>11, <1>12 DEF Remembers, m2
<1> QED
  BY <1>4, <1>13 DEF begun, over

(* A frame is given to the latest of the remembered speeches that it fell  *)
(* into, from the pre-roll on; if it fell into none, to the open one, if   *)
(* it fell into that, and to nobody otherwise: wherever the clock has      *)
(* wrapped between the speeches and the frame (_speech_id,                 *)
(* lamp_device_bridge/audio.py).                                           *)
THEOREM LatestIsNamed ==
  ASSUME NEW c, NEW past \in Seq(Spell), NEW now \in Opened \cup {NoSpeech},
         Remembers(c, past, now), NEW t \in Nat,
         \A k \in 1 .. Memory(past) : Near(Kth(past, k), t),
         now # NoSpeech => /\ now.start - PreRoll - Half <= t
                           /\ t < now.start - PreRoll + Half
  PROVE  IsTrueName(SpeechOf(c, t % Modulus), past, now, t)
<1> DEFINE stamp == t % Modulus
           over == {k \in DOMAIN c.completed : Covers(c.completed[k], stamp)}
           held == {k \in 1 .. Memory(past) : Holds(Kth(past, k), t)}
<1>1. DOMAIN c.completed = 1 .. Memory(past)
  BY LenProperties DEF Remembers
<1>2. ASSUME NEW k \in 1 .. Memory(past)
      PROVE  /\ Kth(past, k) \in Spell
             /\ c.completed[k] = Stamped(Kth(past, k))
  <2>1. Len(past) - Memory(past) + k \in 1 .. Len(past)
    BY LenProperties, LabelAssumption DEF Memory
  <2> QED
    BY <2>1, ElementOfSeq DEF Kth, Remembers
<1>3. over = held
  <2>1. \A k \in 1 .. Memory(past) : Covers(c.completed[k], stamp) <=> Holds(Kth(past, k), t)
    BY <1>2, HoldsExactly
  <2> QED
    BY <1>1, <2>1
<1>4. ASSUME NEW k \in held, \A j \in held : k >= j
      PROVE  SpeechOf(c, stamp) = Kth(past, k).id
  <2>1. k \in over /\ k \in Int /\ \A j \in over : j \in Int /\ k >= j
    BY <1>3, <1>4 DEF Memory
  <2>2. \A i \in over : (\A j \in over : i >= j) => i = k
    BY <2>1
  <2>3. (CHOOSE i \in over : \A j \in over : i >= j) = k
    BY <2>1, <2>2
  <2>4. c.completed[k].id = Kth(past, k).id
    <3>1. c.completed[k] = Stamped(Kth(past, k))
      BY <1>2
    <3> QED
      BY <3>1 DEF Stamped
  <2> QED
    BY <2>1, <2>3, <2>4 DEF SpeechOf
<1>5. ASSUME held = {}
      PROVE  SpeechOf(c, stamp) = IF now # NoSpeech /\ now.start - PreRoll <= t
                                    THEN now.id ELSE NoSpeech.id
  <2>1. CASE now = NoSpeech
    BY <1>3, <1>5, <2>1 DEF SpeechOf, Remembers
  <2>2. CASE now # NoSpeech
    <3>0. now \in Opened
      BY <2>2
    <3>1. now.id \in STRING /\ now.start \in Nat /\ now.start % Modulus \in Int
      BY <3>0, Division DEF Opened
    <3>2. c.open = [id |-> now.id, start |-> now.start % Modulus]
      BY <2>2 DEF Remembers
    <3>3. c.open # NoSpeech /\ c.open.id = now.id
      BY <3>1, <3>2, NobodySpeaks
    <3>4. Reaches(c.open, stamp) <=> now.start - PreRoll <= t
      BY <2>2, <3>1, <3>2, OpenExactly
    <3> QED
      BY <1>3, <1>5, <2>2, <3>3, <3>4 DEF SpeechOf
  <2> QED
    BY <2>1, <2>2
<1> QED
  BY <1>4, <1>5 DEF IsTrueName
=============================================================================
