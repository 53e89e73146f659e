----------------------------- MODULE ConsoleProof -----------------------------
(***************************************************************************)
(* Proofs about Console, for any number of browsers, alarms and            *)
(* deliveries and any size of the queue and the channels.                  *)
(*                                                                         *)
(* OpenInv, LineInv and AccountInv are the inductive invariants behind     *)
(* OpenWhileListed, FramesForward and DispatchAccounted.                   *)
(***************************************************************************)
EXTENDS Console, FiniteSetTheorems, FunctionTheorems, TLAPS

---------------------------------------------------------------------------
(* Sequences.                                                              *)

\* A sequence that is not empty has a first element, and its tail is the
\* rest of it.
LEMMA TailElements ==
  ASSUME NEW S, NEW s \in Seq(S), s # <<>>
  PROVE  /\ Len(s) \in Nat /\ Len(s) > 0
         /\ 1 \in DOMAIN s /\ Head(s) = s[1] /\ Head(s) \in S
         /\ Tail(s) \in Seq(S)
         /\ Len(Tail(s)) = Len(s) - 1
         /\ \A i \in DOMAIN Tail(s) : i + 1 \in DOMAIN s /\ Tail(s)[i] = s[i + 1]
  OBVIOUS

\* The elements of a sequence with one more element.
LEMMA AppendElements ==
  ASSUME NEW S, NEW s \in Seq(S), NEW e \in S
  PROVE  /\ Append(s, e) \in Seq(S)
         /\ Len(Append(s, e)) = Len(s) + 1
         /\ \A i \in DOMAIN Append(s, e) :
              (i \in DOMAIN s /\ Append(s, e)[i] = s[i])
                \/ (i = Len(s) + 1 /\ Append(s, e)[i] = e)
  OBVIOUS

\* Counting one more leaves the type and the length of a sequence of counts.
LEMMA CountIncremented ==
  ASSUME NEW s \in Seq(Nat), NEW i
  PROVE  LET t == [s EXCEPT ![i] = s[i] + 1]
         IN  t \in Seq(Nat) /\ Len(t) = Len(s)
<1>1. CASE i \in DOMAIN s
  BY <1>1
<1>2. CASE i \notin DOMAIN s
  <2>1. [s EXCEPT ![i] = s[i] + 1] = s
    BY <1>2
  <2> QED BY <2>1
<1> QED BY <1>1, <1>2

\* A list continues itself.
LEMMA ContinuesReflexive ==
  ASSUME NEW f \in Frame PROVE Continues(f, f)
  BY DEF Continues, Frame

\* What continues a continuation continues the list.
LEMMA ContinuesTransitive ==
  ASSUME NEW f \in Frame, NEW g \in Frame, NEW h \in Frame,
         Continues(h, g), Continues(g, f)
  PROVE  Continues(h, f)
  BY DEF Continues, Frame

---------------------------------------------------------------------------
(* The types of the variables a frame goes through.                        *)

HubTypes ==
  /\ alarms \in Frame
  /\ browser \in [WsClient -> BrowserState]
  /\ send \in [WsClient -> Seq(Frame)]
  /\ writer \in [WsClient -> Seq(Frame)]
  /\ shown \in [WsClient -> Frame]
  /\ broadcaster \in [pc : {"select", "broadcast", "done"}, frame : Frame]

\* What any step does to the list of alarms: the list after it continues the
\* list before.
LEMMA AlarmsContinue ==
  ASSUME alarms \in Frame, [AlarmsNext]_alarmVars
  PROVE  alarms' \in Frame /\ Continues(alarms', alarms)
<1>1. ASSUME UNCHANGED alarms PROVE alarms' \in Frame /\ Continues(alarms', alarms)
  BY <1>1, ContinuesReflexive
<1>2. ASSUME NEW d, NEW todo, NEW to, Raise(d, todo, to)
      PROVE alarms' \in Frame /\ Continues(alarms', alarms)
  <2>1. alarms' = Append(alarms, "raised")
    BY <1>2 DEF Raise
  <2>2. "raised" \in AlarmState
    BY DEF AlarmState
  <2> QED BY <2>1, <2>2 DEF Continues, Frame
<1>3. ASSUME NEW a \in DOMAIN alarms, Ack(a)
      PROVE alarms' \in Frame /\ Continues(alarms', alarms)
  <2>1. alarms' = [alarms EXCEPT ![a] = "acked"]
    BY <1>3 DEF Ack
  <2>2. "acked" \in AlarmState
    BY DEF AlarmState
  <2> QED BY <2>1, <2>2 DEF Continues, Frame
<1>4. ASSUME NEW d \in 1 .. MaxEvents, HandlerStep(d)
      PROVE alarms' \in Frame /\ Continues(alarms', alarms)
  <2>1. CASE EvaluateOwn(d)
    BY <2>1, <1>2 DEF EvaluateOwn
  <2>2. CASE DriftRaise(d)
    <3>1. CASE \E b \in handlers[d].todo :
                 Raise(d, handlers[d].todo \ {b}, "record drift")
      BY <3>1, <1>2
    <3>2. CASE UNCHANGED alarms
      BY <3>2, <1>1
    <3> QED BY <2>2, <3>1, <3>2 DEF DriftRaise
  <2>3. CASE RaiseDispatch(d) \/ DriftGrid(d) \/ DriftList(d)
               \/ HandlerSend(d) \/ HandlerEnd(d)
    BY <2>3, <1>1 DEF RaiseDispatch, DriftGrid, DriftList, HandlerSend, HandlerEnd
  <2> QED BY <1>4, <2>1, <2>2, <2>3 DEF HandlerStep
<1>5. CASE PublishStep
  BY <1>5, <1>1 DEF PublishStep, Publish
<1>6. CASE LoopStep
  BY <1>6, <1>1 DEF LoopStep, LoopSubscribe, LoopTake, LoopDispatch, LoopReturn
<1>7. CASE Shutdown
  BY <1>7, <1>1 DEF Shutdown
<1>8. CASE UNCHANGED alarmVars
  BY <1>8, <1>1 DEF alarmVars
<1> QED BY <1>3, <1>4, <1>5, <1>6, <1>7, <1>8 DEF AlarmsNext

\* The types in the initial state.
LEMMA HubTypesInit == ConsoleInit => HubTypes
<1> SUFFICES ASSUME ConsoleInit PROVE HubTypes
  OBVIOUS
<1>1. <<>> \in Frame /\ <<>> \in Seq(Frame)
  BY DEF Frame
<1>2. alarms = <<>>
  BY DEF ConsoleInit, AlarmsInit
<1> QED BY <1>1, <1>2 DEF ConsoleInit, HubInit, HubTypes, BrowserState

\* A step keeps the types.
LEMMA HubTypesNext ==
  ASSUME HubTypes, [ConsoleNext]_consoleVars
  PROVE  HubTypes'
<1> <<>> \in Frame
  BY DEF Frame
<1>1. CASE UNCHANGED consoleVars
  BY <1>1 DEF HubTypes, consoleVars, alarmVars, hubVars
<1>2. CASE AlarmsNext /\ UNCHANGED <<hubVars, broadcaster>>
  <2>1. alarms' \in Frame
    BY <1>2, AlarmsContinue DEF HubTypes
  <2> QED BY <1>2, <2>1 DEF HubTypes, hubVars
<1>3. CASE Running /\ HubStep /\ UNCHANGED alarmVars
  <2>0. alarms' = alarms
    BY <1>3 DEF alarmVars
  <2>1. CASE BuildSnapshot
    BY <2>0, <2>1 DEF HubTypes, BuildSnapshot, hubVars
  <2>2. CASE BroadcastSnapshot
    <3>1. broadcaster.frame \in Frame
      BY DEF HubTypes
    <3>2. \A w \in WsClient : Append(send[w], broadcaster.frame) \in Seq(Frame)
      BY <3>1, AppendElements DEF HubTypes
    <3> QED BY <2>0, <2>2, <3>2 DEF HubTypes, BroadcastSnapshot, Broadcast
  <2>3. CASE BroadcastStop
    BY <2>0, <2>3 DEF HubTypes, BroadcastStop, hubVars
  <2>4. ASSUME NEW w \in WsClient, BrowserStep(w) /\ UNCHANGED broadcaster
        PROVE HubTypes'
    BY <2>0, <2>4 DEF HubTypes, BrowserStep, Register, BrowserChanges, BrowserState
  <2>5. ASSUME NEW w \in WsClient, LoopsStep(w) /\ UNCHANGED broadcaster
        PROVE HubTypes'
    <3>1. CASE ReadLoopEnd(w)
      BY <2>0, <2>5, <3>1 DEF HubTypes, ReadLoopEnd
    <3>2. CASE WriteLoopTake(w)
      <4>1. Tail(send[w]) \in Seq(Frame) /\ Head(send[w]) \in Frame
        BY <3>2, TailElements DEF HubTypes, WriteLoopTake
      <4>2. <<Head(send[w])>> \in Seq(Frame)
        BY <4>1
      <4> QED BY <2>0, <2>5, <3>2, <4>1, <4>2 DEF HubTypes, WriteLoopTake
    <3>3. CASE WriteLoopWritten(w)
      <4>1. Head(writer[w]) \in Frame
        BY <3>3, TailElements DEF HubTypes, WriteLoopWritten
      <4>2. <<>> \in Seq(Frame)
        OBVIOUS
      <4> QED BY <2>0, <2>5, <3>3, <4>1, <4>2 DEF HubTypes, WriteLoopWritten
    <3>4. CASE WriteLoopEnd(w)
      BY <2>0, <2>5, <3>4 DEF HubTypes, WriteLoopEnd
    <3> QED BY <2>5, <3>1, <3>2, <3>3, <3>4 DEF LoopsStep
  <2> QED BY <1>3, <2>1, <2>2, <2>3, <2>4, <2>5 DEF HubStep, BroadcastStep
<1> QED BY <1>1, <1>2, <1>3 DEF ConsoleNext

---------------------------------------------------------------------------
(* Type correctness.                                                       *)

Handler == [pc : HandlerPc, raised : Seq(AlarmId), todo : SUBSET Berth]

AlarmsTypes == AlarmsTypeOK /\ dispatches \in Seq(Nat)

\* The channels never hold more than they have room for.
Sizes ==
  /\ closedSend \subseteq WsClient
  /\ writing \subseteq WsClient
  /\ \A w \in WsClient : Len(send[w]) <= BufferSize
  /\ \A w \in WsClient : Len(writer[w]) <= 1

\* A handler with new fields of the right types is a handler.
LEMMA RecordUpdated ==
  ASSUME NEW P, NEW R, NEW T, NEW Q,
         NEW e \in [pc : P, raised : R, todo : T],
         NEW p \in P, NEW r \in Q, NEW t \in T
  PROVE  [e EXCEPT !.pc = p, !.todo = t, !.raised = r]
           \in [pc : P, raised : Q, todo : T]
  OBVIOUS

\* One alarm more: what refers to the alarms before still refers to alarms.
LEMMA TypesRaise ==
  ASSUME AlarmsTypes, NEW d \in DOMAIN handlers, NEW todo \in SUBSET Berth,
         NEW to \in HandlerPc, Raise(d, todo, to)
  PROVE  AlarmsTypes'
<1> DEFINE n == Len(alarms)
<1>1. alarms \in Seq(AlarmState) /\ n \in Nat /\ AlarmId = 1 .. n
  BY DEF AlarmsTypes, AlarmsTypeOK, AlarmId
<1>2. alarms' = Append(alarms, "raised") /\ "raised" \in AlarmState
  BY DEF Raise, AlarmState
<1>3. alarms' \in Seq(AlarmState) /\ Len(alarms') = n + 1 /\ AlarmId' = 1 .. n + 1
  BY <1>1, <1>2 DEF AlarmId
<1>4. AlarmId \subseteq AlarmId' /\ n + 1 \in AlarmId'
  BY <1>1, <1>3
<1>5. Seq(AlarmId) \subseteq Seq(AlarmId')
  BY <1>4
<1>6. handlers' \in Seq(Handler')
  <2>1. handlers \in Seq(Handler)
    BY DEF AlarmsTypes, AlarmsTypeOK, Handler
  <2>2. handlers[d].raised \in Seq(AlarmId')
    <3>1. handlers[d] \in Handler
      BY <2>1
    <3>2. handlers[d].raised \in Seq(AlarmId)
      BY <3>1 DEF Handler
    <3> QED BY <1>5, <3>2
  <2>3. Append(handlers[d].raised, n + 1) \in Seq(AlarmId')
    BY <1>4, <2>2
  <2>4. Handler \subseteq Handler'
    BY <1>5 DEF Handler
  <2>5. handlers \in Seq(Handler')
    BY <2>1, <2>4
  <2> DEFINE h == [handlers[d] EXCEPT !.pc = to, !.todo = todo,
                     !.raised = Append(handlers[d].raised, n + 1)]
  <2>6. handlers' = [handlers EXCEPT ![d] = h]
    BY DEF Raise
  <2>7. h \in Handler'
    <3>1. handlers[d] \in Handler
      BY <2>1
    <3>2. Handler' = [pc : HandlerPc, raised : Seq(AlarmId'), todo : SUBSET Berth]
      BY DEF Handler
    <3> HIDE DEF n
    <3> QED BY <2>3, <3>1, <3>2, RecordUpdated DEF Handler
  <2> HIDE DEF h
  <2> QED BY <2>5, <2>6, <2>7
<1>7. queue' \in Seq(AlarmId') /\ Len(queue') <= QueueSize
  BY <1>5 DEF Raise, AlarmsTypes, AlarmsTypeOK
<1>8. loop' \in [pc : {"subscribe", "select", "dispatch", "done"},
                 hand : AlarmId' \cup {NoAlarm}]
  BY <1>4 DEF Raise, AlarmsTypes, AlarmsTypeOK
<1>9. dispatches' \in Seq(Nat) /\ Len(dispatches') = Len(alarms')
  BY <1>3 DEF Raise, AlarmsTypes, AlarmsTypeOK
<1>10. dropped' \subseteq AlarmId'
  BY <1>4 DEF Raise, AlarmsTypes, AlarmsTypeOK
<1>11. subscribed' \subseteq Topic /\ main' \in Stage
  BY DEF Raise, AlarmsTypes, AlarmsTypeOK
<1> QED BY <1>3, <1>6, <1>7, <1>8, <1>9, <1>10, <1>11
        DEF AlarmsTypes, AlarmsTypeOK, Handler

\* The list of alarms keeps its length, or grows by Raise.
LEMMA AlarmsTypesNext ==
  ASSUME AlarmsTypes, [AlarmsNext]_alarmVars
  PROVE  AlarmsTypes'
<1>0. handlers \in Seq(Handler)
  BY DEF AlarmsTypes, AlarmsTypeOK, Handler
<1>1. CASE UNCHANGED alarmVars
  BY <1>1 DEF AlarmsTypes, AlarmsTypeOK, alarmVars, AlarmId
<1>2. CASE PublishStep
  <2>1. PICK topic \in Topic, state \in GridState : Publish(topic, state)
    BY <1>2 DEF PublishStep
  <2> DEFINE h == [pc |-> IF RaisesOwn(topic, state) THEN "own" ELSE "drift",
                   raised |-> <<>>, todo |-> {}]
  <2>2. handlers' = Append(handlers, h) /\ UNCHANGED alarms
    BY <2>1 DEF Publish
  <2>3. h \in Handler
    BY DEF Handler, HandlerPc
  <2> HIDE DEF h
  <2>4. handlers' \in Seq(Handler)
    BY <1>0, <2>2, <2>3
  <2> QED BY <2>1, <2>2, <2>4 DEF Publish, AlarmsTypes, AlarmsTypeOK, Handler, AlarmId
<1>3. ASSUME NEW d \in 1 .. MaxEvents, HandlerStep(d)
      PROVE  AlarmsTypes'
  <2>1. d \in DOMAIN handlers
    BY <1>3 DEF HandlerStep, At, EvaluateOwn, RaiseDispatch, DriftGrid, DriftList,
                DriftRaise, HandlerSend, HandlerEnd
  <2>2. handlers[d] \in Handler
    BY <1>0, <2>1
  \* A step that changes the handler but not the list of alarms.
  <2>3. ASSUME NEW h \in Handler, handlers' = [handlers EXCEPT ![d] = h]
        PROVE  handlers' \in Seq(Handler)
    BY <1>0, <2>1, <2>3
  <2>4. ASSUME NEW to \in HandlerPc, Goto(d, to)
        PROVE  handlers' \in Seq(Handler)
    <3>1. [handlers[d] EXCEPT !.pc = to] \in Handler
      BY <2>2 DEF Handler
    <3>2. handlers' = [handlers EXCEPT ![d] = [handlers[d] EXCEPT !.pc = to]]
      BY <2>4 DEF Goto
    <3> QED BY <2>3, <3>1, <3>2
  <2>5. CASE EvaluateOwn(d)
    BY <2>1, <2>5, TypesRaise DEF EvaluateOwn, HandlerPc
  <2>6. CASE RaiseDispatch(d)
    <3>1. handlers' \in Seq(Handler)
      BY <2>4, <2>6 DEF RaiseDispatch, HandlerPc
    <3>2. dispatches' \in Seq(Nat) /\ Len(dispatches') = Len(dispatches)
      BY <2>6, CountIncremented DEF RaiseDispatch, AlarmsTypes
    <3> QED BY <2>6, <3>1, <3>2
            DEF RaiseDispatch, AlarmsTypes, AlarmsTypeOK, Handler, AlarmId
  <2>7. CASE DriftGrid(d)
    <3>1. handlers' \in Seq(Handler)
      BY <2>4, <2>7 DEF DriftGrid, HandlerPc
    <3> QED BY <2>7, <3>1 DEF DriftGrid, AlarmsTypes, AlarmsTypeOK, Handler, AlarmId
  <2>8. CASE DriftList(d)
    <3>1. PICK settled \in SUBSET Berth :
            handlers' = [handlers EXCEPT ![d] =
                          [handlers[d] EXCEPT !.pc = "raise", !.todo = settled]]
      BY <2>8 DEF DriftList
    <3>2. [handlers[d] EXCEPT !.pc = "raise", !.todo = settled] \in Handler
      BY <2>2 DEF Handler, HandlerPc
    <3>3. handlers' \in Seq(Handler)
      BY <2>3, <3>1, <3>2
    <3> QED BY <2>8, <3>3 DEF DriftList, AlarmsTypes, AlarmsTypeOK, Handler, AlarmId
  <2>9. CASE DriftRaise(d)
    <3>1. CASE \E b \in handlers[d].todo :
                 Raise(d, handlers[d].todo \ {b}, "record drift")
      <4>1. PICK b \in handlers[d].todo :
                   Raise(d, handlers[d].todo \ {b}, "record drift")
        BY <3>1
      <4>2. handlers[d].todo \ {b} \in SUBSET Berth
        BY <2>2 DEF Handler
      <4> QED BY <2>1, <4>1, <4>2, TypesRaise DEF HandlerPc
    <3>2. CASE Goto(d, "send") /\ UNCHANGED <<subscribed, alarms, queue, loop,
                                              main, dispatches, dropped>>
      <4>1. handlers' \in Seq(Handler)
        BY <2>4, <3>2 DEF HandlerPc
      <4> QED BY <3>2, <4>1 DEF AlarmsTypes, AlarmsTypeOK, Handler, AlarmId
    <3> QED BY <2>9, <3>1, <3>2 DEF DriftRaise
  <2>10. CASE HandlerSend(d)
    <3> DEFINE r == handlers[d].raised
               h == [handlers[d] EXCEPT !.raised = Tail(r)]
    <3>1. r \in Seq(AlarmId) /\ r # <<>>
      BY <2>2, <2>10 DEF HandlerSend, Handler
    <3>2. Tail(r) \in Seq(AlarmId) /\ Head(r) \in AlarmId
      BY <3>1, TailElements
    <3>3. h \in Handler
      BY <2>2, <3>2 DEF Handler
    <3>4. handlers' = [handlers EXCEPT ![d] = h]
      BY <2>10 DEF HandlerSend, Sent
    <3>5. handlers' \in Seq(Handler)
      BY <2>3, <3>3, <3>4
    <3>6. UNCHANGED <<subscribed, alarms, loop, main, dispatches>>
      BY <2>10 DEF HandlerSend
    <3>7. CASE Len(queue) < QueueSize /\ queue' = Append(queue, Head(r))
                 /\ UNCHANGED dropped
      <4>1. queue \in Seq(AlarmId) /\ Len(queue) \in Nat /\ QueueSize \in Nat
        BY AlarmsAssumption DEF AlarmsTypes, AlarmsTypeOK
      <4>2. queue' \in Seq(AlarmId) /\ Len(queue') <= QueueSize
        BY <3>2, <3>7, <4>1, AppendElements
      <4> QED BY <3>5, <3>6, <3>7, <4>2 DEF AlarmsTypes, AlarmsTypeOK, Handler, AlarmId
    <3>8. CASE dropped' = dropped \cup {Head(r)} /\ UNCHANGED queue
      BY <3>2, <3>5, <3>6, <3>8 DEF AlarmsTypes, AlarmsTypeOK, Handler, AlarmId
    <3> QED BY <2>10, <3>7, <3>8 DEF HandlerSend
  <2>11. CASE HandlerEnd(d)
    <3>1. handlers' \in Seq(Handler)
      BY <2>4, <2>11 DEF HandlerEnd, HandlerPc
    <3> QED BY <2>11, <3>1 DEF HandlerEnd, AlarmsTypes, AlarmsTypeOK, Handler, AlarmId
  <2> QED BY <1>3, <2>5, <2>6, <2>7, <2>8, <2>9, <2>10, <2>11 DEF HandlerStep
<1>4. CASE LoopSubscribe
  BY <1>4 DEF LoopSubscribe, AlarmsTypes, AlarmsTypeOK, AlarmId
<1>5. CASE LoopTake
  <2>1. queue \in Seq(AlarmId) /\ queue # <<>> /\ Len(queue) <= QueueSize
    BY <1>5 DEF LoopTake, AlarmsTypes, AlarmsTypeOK
  <2>2. /\ Tail(queue) \in Seq(AlarmId) /\ Head(queue) \in AlarmId
        /\ Len(Tail(queue)) <= QueueSize
    BY <2>1, TailElements, AlarmsAssumption
  <2> QED BY <1>5, <2>2 DEF LoopTake, AlarmsTypes, AlarmsTypeOK, AlarmId
<1>6. CASE LoopDispatch
  <2>1. dispatches' \in Seq(Nat) /\ Len(dispatches') = Len(dispatches)
    BY <1>6, CountIncremented DEF LoopDispatch, AlarmsTypes
  <2> QED BY <1>6, <2>1 DEF LoopDispatch, AlarmsTypes, AlarmsTypeOK, AlarmId
<1>7. CASE LoopReturn
  BY <1>7 DEF LoopReturn, AlarmsTypes, AlarmsTypeOK, AlarmId
<1>8. ASSUME NEW a \in DOMAIN alarms, Ack(a)
      PROVE  AlarmsTypes'
  <2>1. /\ alarms' \in Seq(AlarmState) /\ Len(alarms') = Len(alarms)
        /\ DOMAIN alarms' = DOMAIN alarms
    BY <1>8 DEF Ack, AlarmsTypes, AlarmsTypeOK, AlarmState
  <2> QED BY <1>8, <2>1 DEF Ack, AlarmsTypes, AlarmsTypeOK, AlarmId
<1>9. CASE Shutdown
  BY <1>9 DEF Shutdown, AlarmsTypes, AlarmsTypeOK, AlarmId, Stage
<1> QED BY <1>1, <1>2, <1>3, <1>4, <1>5, <1>6, <1>7, <1>8, <1>9
        DEF AlarmsNext, LoopStep

\* A frame is only offered to a channel with room.
LEMMA SizesNext ==
  ASSUME HubTypes, Sizes, [ConsoleNext]_consoleVars
  PROVE  Sizes'
<1>0. BufferSize \in Nat
  BY HubAssumption
<1>1. CASE UNCHANGED hubVars
  BY <1>1 DEF Sizes, hubVars
<1>2. CASE BroadcastSnapshot
  <2>1. ASSUME NEW w \in WsClient PROVE Len(send'[w]) <= BufferSize
    <3>1. send[w] \in Seq(Frame) /\ broadcaster.frame \in Frame
      BY DEF HubTypes
    <3>2. Len(Append(send[w], broadcaster.frame)) = Len(send[w]) + 1
      BY <3>1, AppendElements
    <3>3. Len(send[w]) \in Nat
      BY <3>1
    <3> QED BY <1>0, <1>2, <3>2, <3>3 DEF BroadcastSnapshot, Broadcast, Sizes
  <2> QED BY <1>2, <2>1 DEF Sizes, BroadcastSnapshot, Broadcast
<1>3. ASSUME NEW w \in WsClient, BrowserStep(w)
      PROVE  Sizes'
  BY <1>3 DEF Sizes, BrowserStep, Register, BrowserChanges
<1>4. ASSUME NEW w \in WsClient, LoopsStep(w)
      PROVE  Sizes'
  <2>1. CASE ReadLoopEnd(w) \/ WriteLoopEnd(w)
    BY <2>1 DEF Sizes, ReadLoopEnd, WriteLoopEnd
  <2>2. CASE WriteLoopTake(w)
    <3>1. send[w] \in Seq(Frame) /\ send[w] # <<>>
      BY <2>2 DEF HubTypes, WriteLoopTake
    <3>2. Len(Tail(send[w])) <= BufferSize
      BY <1>0, <3>1, TailElements DEF Sizes
    <3>3. Len(<<Head(send[w])>>) <= 1
      OBVIOUS
    <3> QED BY <2>2, <3>2, <3>3 DEF Sizes, WriteLoopTake, HubTypes
  <2>3. CASE WriteLoopWritten(w)
    BY <2>3 DEF Sizes, WriteLoopWritten, HubTypes
  <2> QED BY <1>4, <2>1, <2>2, <2>3 DEF LoopsStep
<1> QED
  BY <1>1, <1>2, <1>3, <1>4
  DEF ConsoleNext, consoleVars, HubStep, BroadcastStep, BuildSnapshot, BroadcastStop

\* Every variable keeps its type, whatever the number of browsers, deliveries
\* and alarms; neither the queue nor a channel holds more than its size
\* (alarm.go:33-49, dispatch.go:10-17, main.go:722-730).
THEOREM ConsoleTypeCorrect == ConsoleSpec => []ConsoleTypeOK
<1> DEFINE Inv == HubTypes /\ AlarmsTypes /\ Sizes
<1>1. ConsoleInit => Inv
  <2> SUFFICES ASSUME ConsoleInit PROVE AlarmsTypes /\ Sizes
    BY HubTypesInit
  <2>1. Sizes
    BY HubAssumption DEF ConsoleInit, HubInit, Sizes
  <2>2. AlarmsTypes
    BY AlarmsAssumption
    DEF ConsoleInit, AlarmsInit, AlarmsTypes, AlarmsTypeOK, NoAlarm, Stage
  <2> QED BY <2>1, <2>2
<1>2. Inv /\ [ConsoleNext]_consoleVars => Inv'
  <2> SUFFICES ASSUME Inv, [ConsoleNext]_consoleVars PROVE Inv'
    OBVIOUS
  <2>1. [AlarmsNext]_alarmVars
    BY DEF ConsoleNext, consoleVars
  <2> QED BY <2>1, HubTypesNext, AlarmsTypesNext, SizesNext
<1>3. Inv => ConsoleTypeOK
  BY DEF HubTypes, AlarmsTypes, Sizes, ConsoleTypeOK
<1> QED BY <1>1, <1>2, <1>3, PTL DEF ConsoleSpec

---------------------------------------------------------------------------
(* No frame is offered to a closed channel.                                *)

\* A browser that is yet to come has no channel that could be closed.
OpenInv ==
  /\ OpenWhileListed
  /\ \A w \in WsClient : browser[w] = "absent" => w \notin closedSend

\* Only the readLoop closes a channel, and it takes the client off the list.
LEMMA OpenNext ==
  ASSUME HubTypes, OpenInv, [ConsoleNext]_consoleVars
  PROVE  OpenInv'
<1>1. CASE UNCHANGED hubVars
  BY <1>1 DEF OpenInv, OpenWhileListed, hubVars
<1>2. CASE BroadcastSnapshot
  BY <1>2 DEF OpenInv, OpenWhileListed, BroadcastSnapshot, Broadcast
<1>3. ASSUME NEW w \in WsClient, BrowserStep(w)
      PROVE  OpenInv'
  BY <1>3 DEF OpenInv, OpenWhileListed, HubTypes, BrowserStep, Register,
              BrowserChanges
<1>4. ASSUME NEW w \in WsClient, LoopsStep(w)
      PROVE  OpenInv'
  BY <1>4 DEF OpenInv, OpenWhileListed, HubTypes, LoopsStep, ReadLoopEnd,
              WriteLoopTake, WriteLoopWritten, WriteLoopEnd, Idle
<1> QED
  BY <1>1, <1>2, <1>3, <1>4
  DEF ConsoleNext, consoleVars, HubStep, BroadcastStep, BuildSnapshot, BroadcastStop

\* No client on the list of the hub has a closed channel or a writeLoop that
\* has ended, however browsers come and go (main.go:782-787, 808-815).
THEOREM OpenWhileListedHolds == ConsoleSpec => []OpenWhileListed
<1>1. ConsoleInit => HubTypes /\ OpenInv
  BY HubTypesInit DEF ConsoleInit, HubInit, OpenInv, OpenWhileListed
<1>2. HubTypes /\ OpenInv /\ [ConsoleNext]_consoleVars => (HubTypes /\ OpenInv)'
  BY HubTypesNext, OpenNext
<1>3. HubTypes /\ OpenInv => OpenWhileListed
  BY DEF OpenInv
<1> QED BY <1>1, <1>2, <1>3, PTL DEF ConsoleSpec

---------------------------------------------------------------------------
(* The screen never goes back.                                             *)

\* Frame f continues everything on its way to browser w.
Behind(w, f) ==
  /\ Continues(f, shown[w])
  /\ \A i \in DOMAIN writer[w] : Continues(f, writer[w][i])
  /\ \A i \in DOMAIN send[w] : Continues(f, send[w][i])

\* The frames stand in line: what is shown, what is being written, what is in
\* the channel, first to last, what is about to be broadcast, and the alarms.
Line(w) ==
  /\ Behind(w, alarms)
  /\ broadcaster.pc = "broadcast" => Behind(w, broadcaster.frame)
  /\ \A i \in DOMAIN writer[w] : Continues(writer[w][i], shown[w])
  /\ \A i \in DOMAIN send[w] :
       /\ Continues(send[w][i], shown[w])
       /\ \A j \in DOMAIN writer[w] : Continues(send[w][i], writer[w][j])
       /\ \A j \in DOMAIN send[w] : j <= i => Continues(send[w][i], send[w][j])

LineInv ==
  /\ broadcaster.pc = "broadcast" => Continues(alarms, broadcaster.frame)
  /\ \A w \in WsClient : Line(w)

\* A later frame is behind all that an earlier one is behind.
LEMMA BehindLater ==
  ASSUME HubTypes, NEW w \in WsClient, NEW f \in Frame, NEW g \in Frame,
         Behind(w, f), Continues(g, f)
  PROVE  Behind(w, g)
<1>1. shown[w] \in Frame
  BY DEF HubTypes
<1>2. \A i \in DOMAIN writer[w] : writer[w][i] \in Frame
  BY DEF HubTypes
<1>3. \A i \in DOMAIN send[w] : send[w][i] \in Frame
  BY DEF HubTypes
<1> QED BY <1>1, <1>2, <1>3, ContinuesTransitive DEF Behind

\* A step of the alarms moves the list on and leaves the frames alone.
LEMMA LineAlarms ==
  ASSUME HubTypes, LineInv, [AlarmsNext]_alarmVars, UNCHANGED hubVars,
         UNCHANGED broadcaster
  PROVE  LineInv'
<1>1. alarms \in Frame /\ alarms' \in Frame /\ Continues(alarms', alarms)
  BY AlarmsContinue DEF HubTypes
<1>2. UNCHANGED <<shown, writer, send>>
  BY DEF hubVars
<1>3. broadcaster'.pc = "broadcast" => Continues(alarms', broadcaster'.frame)
  <2>1. broadcaster.frame \in Frame
    BY DEF HubTypes
  <2> QED BY <1>1, <2>1, ContinuesTransitive DEF LineInv
<1>4. ASSUME NEW w \in WsClient PROVE Line(w)'
  <2>1. Line(w)
    BY DEF LineInv
  <2>2. Behind(w, alarms')
    BY <1>1, <2>1, BehindLater DEF Line
  <2> QED BY <1>2, <2>1, <2>2 DEF Line, Behind
<1> QED BY <1>3, <1>4 DEF LineInv

\* A snapshot is the list of alarms as it is.
LEMMA LineBuild ==
  ASSUME HubTypes, LineInv, BuildSnapshot, UNCHANGED alarms
  PROVE  LineInv'
<1>1. UNCHANGED <<shown, writer, send>>
  BY DEF BuildSnapshot, hubVars
<1>2. broadcaster'.frame = alarms
  BY DEF BuildSnapshot
<1>3. Continues(alarms', broadcaster'.frame)
  BY <1>2, ContinuesReflexive DEF HubTypes
<1>4. ASSUME NEW w \in WsClient PROVE Line(w)'
  <2>1. Line(w)
    BY DEF LineInv
  <2> QED BY <1>1, <1>2, <2>1 DEF Line, Behind
<1> QED BY <1>3, <1>4 DEF LineInv

\* The frame that is broadcast goes to the end of a channel, or nowhere.
LEMMA LineBroadcast ==
  ASSUME HubTypes, LineInv, BroadcastSnapshot, UNCHANGED alarms
  PROVE  LineInv'
<1>1. UNCHANGED <<shown, writer>> /\ broadcaster'.pc = "select"
  BY DEF BroadcastSnapshot, Broadcast
<1>2. broadcaster.pc = "broadcast" /\ broadcaster.frame \in Frame
  BY DEF BroadcastSnapshot, HubTypes
<1>3. ASSUME NEW w \in WsClient PROVE Line(w)'
  <2> DEFINE f == broadcaster.frame
             old == send[w]
             new == send'[w]
  <2>1. Line(w) /\ Behind(w, f) /\ Continues(alarms, f)
    BY <1>2 DEF LineInv, Line
  <2>2. new = old \/ new = Append(old, f)
    BY DEF BroadcastSnapshot, Broadcast
  <2>3. \A i \in DOMAIN new :
          (i \in DOMAIN old /\ new[i] = old[i]) \/ (i = Len(old) + 1 /\ new[i] = f)
    <3>1. old \in Seq(Frame) /\ f \in Frame
      BY <1>2 DEF HubTypes
    <3> HIDE DEF f, old, new
    <3>2. CASE new = old
      BY <3>2
    <3>3. CASE new = Append(old, f)
      BY <3>1, <3>3, AppendElements
    <3> QED BY <2>2, <3>2, <3>3
  <2>4. \A i \in DOMAIN old : i \in Nat /\ i <= Len(old)
    BY DEF HubTypes
  <2>5. Len(old) \in Nat
    BY DEF HubTypes
  <2>6. \A i \in DOMAIN new :
          /\ Continues(alarms, new[i])
          /\ Continues(new[i], shown[w])
          /\ \A j \in DOMAIN writer[w] : Continues(new[i], writer[w][j])
    BY <2>1, <2>3 DEF Line, Behind
  <2>7. ASSUME NEW i \in DOMAIN new, NEW j \in DOMAIN new, j <= i
        PROVE  Continues(new[i], new[j])
    <3>1. CASE i \in DOMAIN old /\ new[i] = old[i]
      <4>1. j \in DOMAIN old /\ new[j] = old[j]
        BY <2>3, <2>4, <2>5, <2>7, <3>1
      <4> QED BY <2>1, <2>7, <3>1, <4>1 DEF Line
    <3>2. CASE new[i] = f
      <4>1. Continues(f, f)
        BY <1>2, ContinuesReflexive
      <4>2. new[j] = f \/ (j \in DOMAIN old /\ new[j] = old[j])
        BY <2>3
      <4> QED BY <2>1, <3>2, <4>1, <4>2 DEF Behind
    <3> QED BY <2>3, <3>1, <3>2
  <2> HIDE DEF f, old, new
  <2> QED BY <1>1, <2>1, <2>6, <2>7 DEF Line, Behind, new
<1> QED BY <1>1, <1>3 DEF LineInv

\* A step of the loops of client w moves a frame on or leaves it.
LEMMA LineLoops ==
  ASSUME HubTypes, LineInv, NEW w \in WsClient, LoopsStep(w),
         UNCHANGED <<alarms, broadcaster>>
  PROVE  LineInv'
<1>1. ASSUME NEW v \in WsClient, Line(v), UNCHANGED <<shown[v], writer[v], send[v]>>
      PROVE  Line(v)'
  BY <1>1 DEF Line, Behind
<1>2. CASE ReadLoopEnd(w) \/ WriteLoopEnd(w)
  BY <1>1, <1>2 DEF ReadLoopEnd, WriteLoopEnd, LineInv
<1>3. CASE WriteLoopTake(w)
  <2>1. Line(w)
    BY DEF LineInv
  <2>2. /\ 1 \in DOMAIN send[w]
        /\ Len(send[w]) \in Nat
        /\ \A i \in DOMAIN send'[w] :
             i \in Nat /\ i + 1 \in DOMAIN send[w] /\ send'[w][i] = send[w][i + 1]
    BY <1>3, TailElements DEF HubTypes, WriteLoopTake
  <2>3. /\ writer'[w] = <<send[w][1]>>
        /\ shown' = shown
    BY <1>3, TailElements DEF HubTypes, WriteLoopTake
  <2>4. \A i \in DOMAIN writer'[w] : writer'[w][i] = send[w][1]
    BY <2>3
  <2>5. ASSUME NEW i \in DOMAIN send'[w], NEW j \in DOMAIN send'[w], j <= i
        PROVE  Continues(send'[w][i], send'[w][j])
    <3>1. j + 1 <= i + 1 /\ i + 1 \in DOMAIN send[w] /\ j + 1 \in DOMAIN send[w]
      BY <2>2, <2>5
    <3> QED BY <2>1, <2>2, <3>1 DEF Line
  <2>6. \A i \in DOMAIN send'[w] :
          /\ Continues(send'[w][i], shown[w])
          /\ Continues(send'[w][i], send[w][1])
    <3> SUFFICES ASSUME NEW i \in DOMAIN send'[w]
                 PROVE  /\ Continues(send'[w][i], shown[w])
                        /\ Continues(send'[w][i], send[w][1])
      OBVIOUS
    <3>1. 1 <= i + 1 /\ i + 1 \in DOMAIN send[w]
      BY <2>2
    <3> QED BY <2>1, <2>2, <3>1 DEF Line
  <2>7. ASSUME NEW f, Behind(w, f)
        PROVE  Behind(w, f)'
    BY <2>2, <2>3, <2>4, <2>7 DEF Behind
  <2>8. Line(w)'
    BY <2>1, <2>2, <2>3, <2>4, <2>5, <2>6, <2>7 DEF Line, Behind
  <2>9. \A v \in WsClient \ {w} : UNCHANGED <<shown[v], writer[v], send[v]>>
    BY <1>3 DEF HubTypes, WriteLoopTake
  <2> QED BY <1>1, <2>8, <2>9 DEF LineInv
<1>4. CASE WriteLoopWritten(w)
  <2>1. Line(w)
    BY DEF LineInv
  <2>2. /\ 1 \in DOMAIN writer[w]
        /\ Head(writer[w]) = writer[w][1]
    BY <1>4, TailElements DEF HubTypes, WriteLoopWritten
  <2>3. writer'[w] = <<>> /\ send' = send
    BY <1>4 DEF HubTypes, WriteLoopWritten
  <2>4. shown'[w] = writer[w][1] \/ shown'[w] = shown[w]
    BY <1>4, <2>2 DEF HubTypes, WriteLoopWritten
  <2>5. Line(w)'
    BY <2>1, <2>2, <2>3, <2>4 DEF Line, Behind
  <2>6. \A v \in WsClient \ {w} : UNCHANGED <<shown[v], writer[v], send[v]>>
    BY <1>4 DEF HubTypes, WriteLoopWritten
  <2> QED BY <1>1, <2>5, <2>6 DEF LineInv
<1> QED BY <1>2, <1>3, <1>4 DEF LoopsStep

\* Every step keeps the frames in line.
LEMMA LineNext ==
  ASSUME HubTypes, LineInv, [ConsoleNext]_consoleVars
  PROVE  LineInv'
<1>1. CASE UNCHANGED consoleVars
  BY <1>1, LineAlarms DEF consoleVars
<1>2. CASE AlarmsNext /\ UNCHANGED <<hubVars, broadcaster>>
  BY <1>2, LineAlarms
<1>3. CASE Running /\ HubStep /\ UNCHANGED alarmVars
  <2>1. UNCHANGED alarms
    BY <1>3 DEF alarmVars
  <2>2. CASE BuildSnapshot
    BY <2>1, <2>2, LineBuild
  <2>3. CASE BroadcastSnapshot
    BY <2>1, <2>3, LineBroadcast
  <2>4. CASE BroadcastStop
    BY <2>1, <2>4 DEF BroadcastStop, hubVars, LineInv, Line, Behind
  <2>5. ASSUME NEW w \in WsClient, BrowserStep(w) /\ UNCHANGED broadcaster
        PROVE  LineInv'
    BY <2>1, <2>5
    DEF BrowserStep, Register, BrowserChanges, LineInv, Line, Behind
  <2>6. ASSUME NEW w \in WsClient, LoopsStep(w) /\ UNCHANGED broadcaster
        PROVE  LineInv'
    BY <2>1, <2>6, LineLoops
  <2> QED BY <1>3, <2>2, <2>3, <2>4, <2>5, <2>6 DEF HubStep, BroadcastStep
<1> QED BY <1>1, <1>2, <1>3 DEF ConsoleNext

\* What a browser is shown by a step continues what it was shown before.
LEMMA ShownForward ==
  ASSUME HubTypes, LineInv, [ConsoleNext]_consoleVars, NEW w \in WsClient
  PROVE  Continues(shown'[w], shown[w])
<1>1. shown[w] \in Frame
  BY DEF HubTypes
<1>2. CASE UNCHANGED shown
  BY <1>1, <1>2, ContinuesReflexive
<1>3. ASSUME NEW v \in WsClient, WriteLoopWritten(v)
      PROVE  Continues(shown'[w], shown[w])
  <2>1. 1 \in DOMAIN writer[v] /\ Head(writer[v]) = writer[v][1]
    BY <1>3, TailElements DEF HubTypes, WriteLoopWritten
  <2>2. shown'[w] = shown[w] \/ (v = w /\ shown'[w] = writer[w][1])
    BY <1>3, <2>1 DEF HubTypes, WriteLoopWritten
  <2> QED BY <1>1, <2>1, <2>2, ContinuesReflexive DEF LineInv, Line
<1> QED
  BY <1>2, <1>3
  DEF ConsoleNext, consoleVars, hubVars, HubStep, BroadcastStep, BuildSnapshot,
      BroadcastSnapshot, Broadcast, BroadcastStop, BrowserStep, Register,
      BrowserChanges, LoopsStep, ReadLoopEnd, WriteLoopTake, WriteLoopEnd

\* However many browsers there are, whatever the size of the channels and
\* whichever frames a full one misses, no screen goes back: each frame lists
\* what the one before it did, and what was acknowledged stays so
\* (main.go:768-773, 790-816, alarm.go:77-95).
THEOREM FramesForwardHolds == ConsoleSpec => FramesForward
<1>1. ConsoleInit => HubTypes /\ LineInv
  <2> SUFFICES ASSUME ConsoleInit PROVE LineInv
    BY HubTypesInit
  <2>1. <<>> \in Frame
    BY DEF Frame
  <2>2. Continues(<<>>, <<>>)
    BY <2>1, ContinuesReflexive
  <2>3. /\ alarms = <<>> /\ broadcaster.pc = "select"
        /\ \A w \in WsClient :
             shown[w] = <<>> /\ writer[w] = <<>> /\ send[w] = <<>>
    BY DEF ConsoleInit, AlarmsInit, HubInit
  <2> QED BY <2>2, <2>3 DEF LineInv, Line, Behind
<1>2. HubTypes /\ LineInv /\ [ConsoleNext]_consoleVars => (HubTypes /\ LineInv)'
  BY HubTypesNext, LineNext
<1>3. HubTypes /\ LineInv /\ [ConsoleNext]_consoleVars =>
        [\A w \in WsClient : Continues(shown'[w], shown[w])]_consoleVars
  BY ShownForward
<1> QED BY <1>1, <1>2, <1>3, PTL DEF ConsoleSpec, FramesForward

---------------------------------------------------------------------------
(* Every dispatch is accounted for.                                        *)

Recorders == {"record", "record drift"}

\* What the count needs to know of the lists of the handlers: who is about to
\* dispatch an alarm has raised one, no alarm is twice on a list or on two,
\* and none that is on a list was dropped; and when the loop holds an alarm.
Lists ==
  /\ \A d \in DOMAIN handlers :
       LET r == handlers[d].raised IN
       /\ handlers[d].pc \in Recorders => r # <<>>
       /\ \A i, j \in DOMAIN r : r[i] = r[j] => i = j
       /\ \A i \in DOMAIN r : r[i] \notin dropped
       /\ \A e \in DOMAIN handlers \ {d} :
            \A i \in DOMAIN r, j \in DOMAIN handlers[e].raised :
              r[i] # handlers[e].raised[j]
  /\ loop.pc = "dispatch" <=> loop.hand # NoAlarm

AccountInv == AlarmsTypes /\ Lists /\ DispatchAccounted

\* Where a is in sequence q.
Places(q, a) == {i \in DOMAIN q : q[i] = a}

\* Taking the first element off a sequence takes one place from that element.
LEMMA TailPlaces ==
  ASSUME NEW S, NEW q \in Seq(S), q # <<>>, NEW a
  PROVE  /\ IsFiniteSet(Places(Tail(q), a))
         /\ Cardinality(Places(q, a))
              = Cardinality(Places(Tail(q), a)) + Times(Head(q) = a)
<1> DEFINE places == {i \in DOMAIN q : q[i] = a}
           left == {i \in DOMAIN Tail(q) : Tail(q)[i] = a}
           shift == [i \in left |-> i + 1]
<1>1. /\ Len(q) \in Nat /\ Len(q) > 0 /\ DOMAIN q = 1 .. Len(q)
      /\ DOMAIN Tail(q) = 1 .. (Len(q) - 1)
      /\ \A i \in DOMAIN Tail(q) : Tail(q)[i] = q[i + 1]
      /\ Head(q) = q[1]
  OBVIOUS
<1>2. IsFiniteSet(places) /\ IsFiniteSet(left)
  <2>1. IsFiniteSet(1 .. Len(q)) /\ IsFiniteSet(1 .. (Len(q) - 1))
    BY <1>1, FS_Interval
  <2>2. places \in SUBSET (1 .. Len(q)) /\ left \in SUBSET (1 .. (Len(q) - 1))
    BY <1>1
  <2> HIDE DEF places, left
  <2> QED BY <2>1, <2>2, FS_Subset
<1>3. shift \in Bijection(left, places \ {1})
  <2>1. shift \in [left -> places \ {1}]
    BY <1>1
  <2>2. \A i, j \in left : shift[i] = shift[j] => i = j
    BY <1>1
  <2>3. \A k \in places \ {1} : \E i \in left : shift[i] = k
    <3> SUFFICES ASSUME NEW k \in places \ {1}
                 PROVE  \E i \in left : shift[i] = k
      OBVIOUS
    <3>1. k - 1 \in left /\ shift[k - 1] = k
      BY <1>1
    <3> QED BY <3>1
  <2> QED BY <2>1, <2>2, <2>3, Fun_IsBij
<1>4. Cardinality(places \ {1}) = Cardinality(left)
  <2>1. ExistsBijection(left, places \ {1})
    BY <1>3 DEF ExistsBijection
  <2> HIDE DEF places, left, shift
  <2> QED BY <1>2, <2>1, FS_Bijection
<1>5. 1 \in places <=> Head(q) = a
  BY <1>1
<1>6. Cardinality(places) \in Nat /\ Cardinality(left) \in Nat
  BY <1>2, FS_CardinalityType
<1>7. Cardinality(places \ {1})
        = IF 1 \in places THEN Cardinality(places) - 1 ELSE Cardinality(places)
  BY <1>2, FS_RemoveElement
<1> HIDE DEF places, left
<1>8. Cardinality(places) = Cardinality(left) + Times(Head(q) = a)
  BY <1>4, <1>5, <1>6, <1>7 DEF Times
<1> QED BY <1>2, <1>8 DEF Places, places, left

\* The sets of an alarm are finite, so their cardinalities are numbers.
LEMMA CountsFinite ==
  ASSUME AlarmsTypes, NEW a
  PROVE  /\ IsFiniteSet(Recording(a)) /\ Cardinality(Recording(a)) \in Nat
         /\ IsFiniteSet(Holding(a)) /\ Cardinality(Holding(a)) \in Nat
         /\ IsFiniteSet(Queued(a)) /\ Cardinality(Queued(a)) \in Nat
<1>1. /\ DOMAIN handlers = 1 .. Len(handlers) /\ Len(handlers) \in Nat
      /\ DOMAIN queue = 1 .. Len(queue) /\ Len(queue) \in Nat
  BY DEF AlarmsTypes, AlarmsTypeOK
<1>2. IsFiniteSet(DOMAIN handlers) /\ IsFiniteSet(DOMAIN queue)
  BY <1>1, FS_Interval
<1>3. /\ Recording(a) \in SUBSET DOMAIN handlers
      /\ Holding(a) \in SUBSET DOMAIN handlers
      /\ Queued(a) \in SUBSET DOMAIN queue
  BY DEF Recording, Holding, Queued
<1>4. /\ IsFiniteSet(Recording(a))
      /\ IsFiniteSet(Holding(a))
      /\ IsFiniteSet(Queued(a))
  BY <1>2, <1>3, FS_Subset
<1> QED BY <1>4, FS_CardinalityType

\* A step of a handler that is not dispatching, and does not begin to, and
\* that leaves its list alone, leaves the sets of every alarm alone.
LEMMA HandlerMoves ==
  ASSUME AlarmsTypes, Lists, NEW d \in DOMAIN handlers,
         DOMAIN handlers' = DOMAIN handlers,
         \A e \in DOMAIN handlers \ {d} : handlers'[e] = handlers[e],
         handlers'[d].raised = handlers[d].raised,
         handlers[d].pc \notin Recorders, handlers'[d].pc \notin Recorders,
         UNCHANGED <<dropped, loop>>
  PROVE  /\ Lists'
         /\ \A a : Recording(a)' = Recording(a) /\ Holding(a)' = Holding(a)
<1>1. Lists'
  BY DEF Lists
<1>2. ASSUME NEW a PROVE Recording(a)' = Recording(a)
  BY DEF Recording, Recorders
<1>3. ASSUME NEW a PROVE Holding(a)' = Holding(a)
  BY DEF Holding
<1> QED BY <1>1, <1>2, <1>3

\* A new alarm has both its dispatches ahead of it, and the others what they
\* had.
LEMMA AccountRaise ==
  ASSUME AccountInv, NEW d \in DOMAIN handlers, NEW todo \in SUBSET Berth,
         NEW to \in Recorders, handlers[d].pc \notin Recorders,
         Raise(d, todo, to)
  PROVE  Lists' /\ DispatchAccounted'
<1>0. PICK r, n, s : /\ r = handlers[d].raised
                     /\ n = Len(alarms) + 1
                     /\ s = Append(r, n)
  OBVIOUS
<1>1. /\ AlarmId = 1 .. Len(alarms) /\ Len(alarms) \in Nat
      /\ n \notin AlarmId /\ n # NoAlarm
      /\ AlarmId' = AlarmId \cup {n}
  BY <1>0 DEF AccountInv, AlarmsTypes, AlarmsTypeOK, AlarmId, Raise, NoAlarm
<1>2. /\ handlers \in Seq(Handler)
      /\ \A e \in DOMAIN handlers : handlers[e].raised \in Seq(AlarmId)
  <2>1. handlers \in Seq(Handler)
    BY DEF AccountInv, AlarmsTypes, AlarmsTypeOK, Handler
  <2>2. \A e \in DOMAIN handlers : handlers[e] \in Handler
    BY <2>1
  <2> QED BY <2>1, <2>2 DEF Handler
<1>3. /\ DOMAIN handlers' = DOMAIN handlers
      /\ \A e \in DOMAIN handlers \ {d} : handlers'[e] = handlers[e]
      /\ handlers'[d].pc = to
      /\ handlers'[d].raised = s
  <2>1. handlers[d] \in Handler
    BY <1>2
  <2> QED BY <1>0, <1>2, <2>1 DEF Raise, Handler
<1>4. /\ r \in Seq(AlarmId) /\ s # <<>> /\ Len(r) \in Nat
      /\ Last(s) = n
      /\ DOMAIN s = DOMAIN r \cup {Len(r) + 1}
      /\ Len(r) + 1 \notin DOMAIN r
      /\ s[Len(r) + 1] = n
      /\ \A i \in DOMAIN r : s[i] = r[i] /\ r[i] \in AlarmId
  <2>1. r \in Seq(AlarmId)
    BY <1>0, <1>2
  <2> QED BY <1>0, <2>1 DEF Last
<1>5. /\ dropped' = dropped /\ queue' = queue /\ loop' = loop
      /\ dropped \subseteq AlarmId /\ queue \in Seq(AlarmId)
      /\ loop.hand \in AlarmId \cup {NoAlarm}
  BY DEF Raise, AccountInv, AlarmsTypes, AlarmsTypeOK
<1>6. Lists'
  <2>1. Lists
    BY DEF AccountInv
  <2>2. \A i, j \in DOMAIN s : s[i] = s[j] => i = j
    BY <1>0, <1>1, <1>4, <2>1 DEF Lists
  <2>3. \A i \in DOMAIN s : s[i] \notin dropped
    BY <1>0, <1>1, <1>4, <1>5, <2>1 DEF Lists
  <2>4. \A e \in DOMAIN handlers \ {d} :
          \A i \in DOMAIN s, j \in DOMAIN handlers[e].raised :
            s[i] # handlers[e].raised[j]
    <3> SUFFICES ASSUME NEW e \in DOMAIN handlers \ {d}, NEW i \in DOMAIN s,
                        NEW j \in DOMAIN handlers[e].raised
                 PROVE  s[i] # handlers[e].raised[j]
      OBVIOUS
    <3>1. handlers[e].raised[j] \in AlarmId
      BY <1>2
    <3> QED BY <1>0, <1>1, <1>4, <2>1, <3>1 DEF Lists
  <2>5. ASSUME NEW e \in DOMAIN handlers'
        PROVE  LET q == handlers'[e].raised IN
               /\ handlers'[e].pc \in Recorders => q # <<>>
               /\ \A i, j \in DOMAIN q : q[i] = q[j] => i = j
               /\ \A i \in DOMAIN q : q[i] \notin dropped'
               /\ \A f \in DOMAIN handlers' \ {e} :
                    \A i \in DOMAIN q, j \in DOMAIN handlers'[f].raised :
                      q[i] # handlers'[f].raised[j]
    <3>1. CASE e = d
      BY <1>3, <1>4, <1>5, <2>2, <2>3, <2>4, <3>1
    <3>2. CASE e # d
      <4>1. e \in DOMAIN handlers \ {d} /\ handlers'[e] = handlers[e]
        BY <1>3, <2>5, <3>2
      <4>2. \A f \in DOMAIN handlers' \ {e} :
              \A i \in DOMAIN handlers[e].raised,
                 j \in DOMAIN handlers'[f].raised :
                handlers[e].raised[i] # handlers'[f].raised[j]
        <5> SUFFICES ASSUME NEW f \in DOMAIN handlers' \ {e},
                            NEW i \in DOMAIN handlers[e].raised,
                            NEW j \in DOMAIN handlers'[f].raised
                     PROVE  handlers[e].raised[i] # handlers'[f].raised[j]
          OBVIOUS
        <5>1. CASE f = d
          BY <1>3, <2>4, <4>1, <5>1
        <5>2. CASE f # d
          BY <1>3, <2>1, <4>1, <5>2 DEF Lists
        <5> QED BY <5>1, <5>2
      <4> QED BY <1>5, <2>1, <4>1, <4>2 DEF Lists
    <3> QED BY <3>1, <3>2
  <2> QED BY <1>5, <2>1, <2>5 DEF Lists
<1>7. ASSUME NEW a \in AlarmId
      PROVE  dispatches'[a] + Outstanding(a)' = 2
  <2>0. a # n
    BY <1>1
  <2>1. Recording(a)' = Recording(a)
    BY <1>3, <1>4, <2>0 DEF Recording, Recorders
  <2>2. Holding(a)' = Holding(a)
    <3>1. a \in Range(s) <=> a \in Range(r)
      BY <1>4, <2>0 DEF Range
    <3> QED BY <1>0, <1>3, <3>1 DEF Holding
  <2>3. Queued(a)' = Queued(a)
    BY <1>5 DEF Queued
  <2>4. dispatches'[a] = dispatches[a]
    BY <1>1 DEF Raise, AccountInv, AlarmsTypes, AlarmsTypeOK
  <2> QED BY <1>5, <2>1, <2>2, <2>3, <2>4
          DEF Outstanding, AccountInv, DispatchAccounted
<1>8. dispatches'[n] + Outstanding(n)' = 2
  <2>1. Recording(n)' = {d}
    <3>1. \A e \in DOMAIN handlers \ {d} :
            handlers[e].pc \in Recorders => Last(handlers[e].raised) # n
      <4> SUFFICES ASSUME NEW e \in DOMAIN handlers \ {d},
                          handlers[e].pc \in Recorders
                   PROVE  Last(handlers[e].raised) # n
        OBVIOUS
      <4>1. handlers[e].raised \in Seq(AlarmId) /\ handlers[e].raised # <<>>
        BY <1>2 DEF AccountInv, Lists
      <4>2. Last(handlers[e].raised) \in AlarmId
        BY <4>1 DEF Last
      <4> QED BY <1>1, <4>2
    <3> QED BY <1>3, <1>4, <3>1 DEF Recording, Recorders
  <2>2. Holding(n)' = {d}
    <3>1. n \in Range(s)
      BY <1>4 DEF Range
    <3>2. \A e \in DOMAIN handlers : n \notin Range(handlers[e].raised)
      BY <1>1, <1>2 DEF Range
    <3> QED BY <1>3, <3>1, <3>2 DEF Holding
  <2>3. Queued(n)' = {}
    BY <1>1, <1>5 DEF Queued
  <2>4. dispatches'[n] = 0
    BY <1>0 DEF Raise, AccountInv, AlarmsTypes, AlarmsTypeOK
  <2>5. Times(loop'.hand = n) = 0 /\ Times(n \in dropped') = 0
    BY <1>1, <1>5 DEF Times
  <2>6. Cardinality({d}) = 1 /\ Cardinality({}) = 0
    BY FS_Singleton, FS_EmptySet
  <2> QED BY <2>1, <2>2, <2>3, <2>4, <2>5, <2>6 DEF Outstanding
<1>9. \A a \in AlarmId' : dispatches'[a] + Outstanding(a)' = 2
  BY <1>1, <1>7, <1>8
<1> QED BY <1>6, <1>9 DEF DispatchAccounted

\* The fields of a handler, for the lemmas below.
LEMMA HandlerFields ==
  ASSUME AlarmsTypes, NEW d \in DOMAIN handlers
  PROVE  /\ handlers \in Seq(Handler) /\ handlers[d] \in Handler
         /\ handlers[d].raised \in Seq(AlarmId)
<1>1. handlers \in Seq(Handler)
  BY DEF AlarmsTypes, AlarmsTypeOK, Handler
<1>2. handlers[d] \in Handler
  BY <1>1
<1> QED BY <1>1, <1>2 DEF Handler

\* The dispatch at the end of Raise: one done, one less to come.
LEMMA AccountRecord ==
  ASSUME AccountInv, NEW d \in DOMAIN handlers, RaiseDispatch(d)
  PROVE  Lists' /\ DispatchAccounted'
<1>0. PICK l : l = Last(handlers[d].raised)
  OBVIOUS
<1>1. AlarmsTypes /\ Lists /\ DispatchAccounted
  BY DEF AccountInv
<1>2. handlers[d].pc \in Recorders
  BY DEF RaiseDispatch, At, Recorders
<1>3. /\ DOMAIN handlers' = DOMAIN handlers
      /\ \A e \in DOMAIN handlers \ {d} : handlers'[e] = handlers[e]
      /\ handlers'[d].pc \notin Recorders
      /\ handlers'[d].raised = handlers[d].raised
  BY <1>1, HandlerFields DEF RaiseDispatch, Goto, Recorders, Handler
<1>4. UNCHANGED <<alarms, queue, loop, dropped>>
  BY DEF RaiseDispatch
<1>5. l \in AlarmId
  <2>1. handlers[d].raised \in Seq(AlarmId) /\ handlers[d].raised # <<>>
    BY <1>1, <1>2, HandlerFields DEF Lists
  <2> QED BY <1>0, <2>1 DEF Last
<1>6. Lists'
  BY <1>1, <1>3, <1>4 DEF Lists
<1>7. ASSUME NEW a \in AlarmId
      PROVE  dispatches'[a] + Outstanding(a)' = 2
  <2>1. Holding(a)' = Holding(a) /\ Queued(a)' = Queued(a)
    BY <1>3, <1>4 DEF Holding, Queued
  <2>2. dispatches \in Seq(Nat) /\ DOMAIN dispatches = AlarmId
    BY <1>1 DEF AlarmsTypes, AlarmsTypeOK, AlarmId
  <2>3. dispatches[a] \in Nat /\ dispatches[a] + Outstanding(a) = 2
    BY <1>1, <2>2 DEF DispatchAccounted
  <2>4. CASE a = l
    <3>1. d \in Recording(a) /\ Recording(a)' = Recording(a) \ {d}
      BY <1>0, <1>2, <1>3, <2>4 DEF Recording, Recorders
    <3>2. Cardinality(Recording(a)') = Cardinality(Recording(a)) - 1
      BY <1>1, <3>1, CountsFinite, FS_RemoveElement
    <3>3. dispatches'[a] = dispatches[a] + 1
      BY <1>0, <2>2, <2>4 DEF RaiseDispatch
    <3>4. /\ Cardinality(Recording(a)) \in Nat /\ Cardinality(Holding(a)) \in Nat
          /\ Cardinality(Queued(a)) \in Nat
      BY <1>1, CountsFinite
    <3> QED BY <1>4, <2>1, <2>3, <3>2, <3>3, <3>4 DEF Outstanding, Times
  <2>5. CASE a # l
    <3>1. Recording(a)' = Recording(a)
      BY <1>0, <1>2, <1>3, <2>5 DEF Recording, Recorders
    <3>2. dispatches'[a] = dispatches[a]
      BY <1>0, <2>2, <2>5 DEF RaiseDispatch
    <3> QED BY <1>4, <2>1, <2>3, <3>1, <3>2 DEF Outstanding
  <2> QED BY <2>4, <2>5
<1>8. AlarmId' = AlarmId
  BY <1>4 DEF AlarmId
<1> QED BY <1>6, <1>7, <1>8 DEF DispatchAccounted

\* A send: the alarm leaves the list for the queue, or is dropped.
LEMMA AccountSend ==
  ASSUME AccountInv, NEW d \in DOMAIN handlers, HandlerSend(d)
  PROVE  Lists' /\ DispatchAccounted'
<1>0. PICK r, h : r = handlers[d].raised /\ h = Head(r)
  OBVIOUS
<1>1. AlarmsTypes /\ Lists /\ DispatchAccounted
  BY DEF AccountInv
<1>2. /\ r \in Seq(AlarmId) /\ r # <<>>
      /\ handlers[d].pc = "send"
  BY <1>0, <1>1, HandlerFields DEF HandlerSend, At
<1>3. /\ DOMAIN handlers' = DOMAIN handlers
      /\ \A e \in DOMAIN handlers \ {d} : handlers'[e] = handlers[e]
      /\ handlers'[d].pc = "send"
      /\ handlers'[d].raised = Tail(r)
  BY <1>0, <1>1, <1>2, HandlerFields DEF HandlerSend, Sent, Handler
<1>4. /\ h = r[1] /\ 1 \in DOMAIN r /\ h \in AlarmId
      /\ \A i \in DOMAIN Tail(r) :
           i + 1 \in DOMAIN r /\ i + 1 # 1 /\ Tail(r)[i] = r[i + 1]
      /\ \A i \in DOMAIN r : i # 1 => i - 1 \in DOMAIN Tail(r)
      /\ DOMAIN Tail(r) \subseteq Nat /\ DOMAIN r \subseteq Nat
  BY <1>0, <1>2
<1>5. UNCHANGED <<alarms, loop, dispatches>> /\ AlarmId' = AlarmId
  BY DEF HandlerSend, AlarmId
<1>6. \/ Len(queue) < QueueSize /\ queue' = Append(queue, h) /\ dropped' = dropped
      \/ dropped' = dropped \cup {h} /\ queue' = queue
  BY <1>0 DEF HandlerSend
<1>7. /\ \A i, j \in DOMAIN r : r[i] = r[j] => i = j
      /\ \A i \in DOMAIN r : r[i] \notin dropped
  BY <1>0, <1>1 DEF Lists
<1>8. \A e \in DOMAIN handlers \ {d} :
        \A i \in DOMAIN r, j \in DOMAIN handlers[e].raised :
          r[i] # handlers[e].raised[j]
  BY <1>0, <1>1 DEF Lists
<1>9. \A i \in DOMAIN Tail(r) : Tail(r)[i] # h
  BY <1>4, <1>7
<1>10. Lists'
  <2>1. ASSUME NEW e \in DOMAIN handlers'
        PROVE  LET q == handlers'[e].raised IN
               /\ handlers'[e].pc \in Recorders => q # <<>>
               /\ \A i, j \in DOMAIN q : q[i] = q[j] => i = j
               /\ \A i \in DOMAIN q : q[i] \notin dropped'
               /\ \A f \in DOMAIN handlers' \ {e} :
                    \A i \in DOMAIN q, j \in DOMAIN handlers'[f].raised :
                      q[i] # handlers'[f].raised[j]
    <3>1. CASE e = d
      <4>1. handlers'[e].pc \notin Recorders
        BY <1>3, <3>1 DEF Recorders
      <4>2. \A i, j \in DOMAIN Tail(r) : Tail(r)[i] = Tail(r)[j] => i = j
        BY <1>4, <1>7
      <4>3. \A i \in DOMAIN Tail(r) : Tail(r)[i] \notin dropped'
        BY <1>4, <1>6, <1>7, <1>9
      <4>4. \A f \in DOMAIN handlers \ {d} :
              \A i \in DOMAIN Tail(r), j \in DOMAIN handlers[f].raised :
                Tail(r)[i] # handlers[f].raised[j]
        BY <1>4, <1>8
      <4>5. PICK t : t = Tail(r)
        OBVIOUS
      <4>6. /\ handlers'[e].raised = t
            /\ DOMAIN handlers' \ {e} = DOMAIN handlers \ {d}
            /\ \A f \in DOMAIN handlers \ {d} : handlers'[f] = handlers[f]
        BY <1>3, <3>1, <4>5
      <4>7. /\ \A i, j \in DOMAIN t : t[i] = t[j] => i = j
            /\ \A i \in DOMAIN t : t[i] \notin dropped'
            /\ \A f \in DOMAIN handlers \ {d} :
                 \A i \in DOMAIN t, j \in DOMAIN handlers[f].raised :
                   t[i] # handlers[f].raised[j]
        BY <4>2, <4>3, <4>4, <4>5
      <4> QED BY <4>1, <4>6, <4>7
    <3>2. CASE e # d
      <4>1. e \in DOMAIN handlers \ {d} /\ handlers'[e] = handlers[e]
        BY <1>3, <2>1, <3>2
      <4>2. \A i \in DOMAIN handlers[e].raised :
              handlers[e].raised[i] \notin dropped'
        BY <1>1, <1>4, <1>6, <1>8, <4>1 DEF Lists
      <4>3. \A i \in DOMAIN handlers[e].raised, j \in DOMAIN Tail(r) :
              handlers[e].raised[i] # Tail(r)[j]
        BY <1>4, <1>8, <4>1
      <4>4. \A f \in DOMAIN handlers' \ {e} :
              \A i \in DOMAIN handlers[e].raised,
                 j \in DOMAIN handlers'[f].raised :
                handlers[e].raised[i] # handlers'[f].raised[j]
        <5> SUFFICES ASSUME NEW f \in DOMAIN handlers' \ {e},
                            NEW i \in DOMAIN handlers[e].raised,
                            NEW j \in DOMAIN handlers'[f].raised
                     PROVE  handlers[e].raised[i] # handlers'[f].raised[j]
          OBVIOUS
        <5>1. CASE f = d
          BY <1>3, <4>3, <5>1
        <5>2. CASE f # d
          BY <1>1, <1>3, <4>1, <5>2 DEF Lists
        <5> QED BY <5>1, <5>2
      <4>5. LET q == handlers[e].raised IN
            /\ handlers[e].pc \in Recorders => q # <<>>
            /\ \A i, j \in DOMAIN q : q[i] = q[j] => i = j
        BY <1>1, <4>1 DEF Lists
      <4> QED BY <4>1, <4>2, <4>4, <4>5
    <3> QED BY <3>1, <3>2
  <2> QED BY <1>1, <1>5, <2>1 DEF Lists
<1>11. ASSUME NEW a \in AlarmId
       PROVE  dispatches'[a] + Outstanding(a)' = 2
  <2>1. Recording(a)' = Recording(a)
    BY <1>2, <1>3 DEF Recording
  <2>2. /\ dispatches \in Seq(Nat) /\ dispatches[a] \in Nat
        /\ dispatches[a] + Outstanding(a) = 2
    BY <1>1 DEF AlarmsTypes, AlarmsTypeOK, AlarmId, DispatchAccounted
  <2>3. /\ Cardinality(Recording(a)) \in Nat /\ Cardinality(Holding(a)) \in Nat
        /\ Cardinality(Queued(a)) \in Nat /\ IsFiniteSet(Holding(a))
        /\ IsFiniteSet(Queued(a))
    BY <1>1, CountsFinite
  <2>4. /\ queue \in Seq(AlarmId) /\ Len(queue) \in Nat
        /\ DOMAIN queue = 1 .. Len(queue)
    BY <1>1 DEF AlarmsTypes, AlarmsTypeOK
  <2>5. CASE a = h
    <3>1. d \in Holding(a) /\ Holding(a)' = Holding(a) \ {d}
      <4>1. a \in Range(r) /\ a \notin Range(Tail(r))
        BY <1>4, <1>9, <2>5 DEF Range
      <4> QED BY <1>0, <1>3, <4>1 DEF Holding
    <3>2. Cardinality(Holding(a)') = Cardinality(Holding(a)) - 1
      BY <2>3, <3>1, FS_RemoveElement
    <3>3. a \notin dropped
      BY <1>4, <1>7, <2>5
    <3>4. CASE queue' = Append(queue, h) /\ dropped' = dropped
      <4>1. Queued(a)' = Queued(a) \cup {Len(queue) + 1}
        BY <2>4, <2>5, <3>4 DEF Queued
      <4>2. Len(queue) + 1 \notin Queued(a)
        BY <2>4 DEF Queued
      <4>3. Cardinality(Queued(a)') = Cardinality(Queued(a)) + 1
        BY <2>3, <4>1, <4>2, FS_AddElement
      <4> QED BY <1>5, <2>1, <2>2, <2>3, <3>2, <3>4, <4>3 DEF Outstanding, Times
    <3>5. CASE dropped' = dropped \cup {h} /\ queue' = queue
      <4>1. Queued(a)' = Queued(a)
        BY <3>5 DEF Queued
      <4>2. Times(a \in dropped) = 0 /\ Times(a \in dropped') = 1
        BY <2>5, <3>3, <3>5 DEF Times
      <4> QED BY <1>5, <2>1, <2>2, <2>3, <3>2, <4>1, <4>2 DEF Outstanding, Times
    <3> QED BY <1>6, <3>4, <3>5
  <2>6. CASE a # h
    <3>1. Holding(a)' = Holding(a)
      <4>1. a \in Range(Tail(r)) <=> a \in Range(r)
        <5>1. ASSUME NEW i \in DOMAIN r, r[i] = a
              PROVE  i - 1 \in DOMAIN Tail(r) /\ Tail(r)[i - 1] = a
          BY <1>4, <2>6, <5>1
        <5> QED BY <1>4, <5>1 DEF Range
      <4> QED BY <1>0, <1>3, <4>1 DEF Holding
    <3>2. Queued(a)' = Queued(a)
      BY <1>6, <2>4, <2>6 DEF Queued
    <3>3. a \in dropped' <=> a \in dropped
      BY <1>6, <2>6
    <3> QED BY <1>5, <2>1, <2>2, <3>1, <3>2, <3>3 DEF Outstanding
  <2> QED BY <2>5, <2>6
<1> QED BY <1>5, <1>10, <1>11 DEF DispatchAccounted

\* The steps that leave the lists, the queue and what is dropped alone.
LEMMA AccountKept ==
  ASSUME AccountInv, UNCHANGED <<handlers, dispatches, queue, dropped>>,
         DOMAIN alarms' = DOMAIN alarms,
         loop'.hand = loop.hand,
         loop'.pc = "dispatch" <=> loop.pc = "dispatch"
  PROVE  Lists' /\ DispatchAccounted'
<1>1. Lists'
  BY DEF AccountInv, Lists
<1>2. AlarmId' = AlarmId
  BY DEF AlarmId
<1>3. \A a : Outstanding(a)' = Outstanding(a)
  BY DEF Outstanding, Recording, Holding, Queued
<1> QED BY <1>1, <1>2, <1>3 DEF AccountInv, DispatchAccounted

\* A step of a handler that only moves on.
LEMMA AccountMoves ==
  ASSUME AccountInv, NEW d \in DOMAIN handlers,
         DOMAIN handlers' = DOMAIN handlers,
         \A e \in DOMAIN handlers \ {d} : handlers'[e] = handlers[e],
         handlers'[d].raised = handlers[d].raised,
         handlers[d].pc \notin Recorders, handlers'[d].pc \notin Recorders,
         UNCHANGED <<alarms, queue, loop, dispatches, dropped>>
  PROVE  Lists' /\ DispatchAccounted'
<1>1. Lists' /\ \A a : Recording(a)' = Recording(a) /\ Holding(a)' = Holding(a)
  BY HandlerMoves DEF AccountInv
<1>2. AlarmId' = AlarmId
  BY DEF AlarmId
<1>3. \A a : Outstanding(a)' = Outstanding(a)
  BY <1>1 DEF Outstanding, Queued
<1> QED BY <1>1, <1>2, <1>3 DEF AccountInv, DispatchAccounted

\* A delivery begins with an empty list.
LEMMA AccountPublish ==
  ASSUME AccountInv, NEW topic, NEW state, Publish(topic, state)
  PROVE  Lists' /\ DispatchAccounted'
<1>0. PICK h : h = [pc |-> IF RaisesOwn(topic, state) THEN "own" ELSE "drift",
                    raised |-> <<>>, todo |-> {}]
  OBVIOUS
<1>1. /\ h.raised = <<>> /\ h.pc \notin Recorders
      /\ handlers' = Append(handlers, h)
      /\ UNCHANGED <<alarms, queue, loop, dispatches, dropped>>
  BY <1>0 DEF Publish, Recorders
<1>2. handlers \in Seq(Handler) /\ Lists /\ DispatchAccounted
  BY DEF AccountInv, AlarmsTypes, AlarmsTypeOK, Handler
<1>3. PICK n : n = Len(handlers) + 1
  OBVIOUS
<1>4. /\ DOMAIN handlers' = DOMAIN handlers \cup {n} /\ n \notin DOMAIN handlers
      /\ \A e \in DOMAIN handlers : handlers'[e] = handlers[e]
      /\ handlers'[n] = h
  BY <1>1, <1>2, <1>3
<1>5. /\ DOMAIN handlers'[n].raised = {} /\ Range(handlers'[n].raised) = {}
      /\ handlers'[n].pc \notin Recorders
  BY <1>1, <1>4 DEF Range
<1>6. Lists'
  <2>1. ASSUME NEW e \in DOMAIN handlers'
        PROVE  LET q == handlers'[e].raised IN
               /\ handlers'[e].pc \in Recorders => q # <<>>
               /\ \A i, j \in DOMAIN q : q[i] = q[j] => i = j
               /\ \A i \in DOMAIN q : q[i] \notin dropped'
               /\ \A f \in DOMAIN handlers' \ {e} :
                    \A i \in DOMAIN q, j \in DOMAIN handlers'[f].raised :
                      q[i] # handlers'[f].raised[j]
    <3>1. CASE e = n
      BY <1>5, <3>1
    <3>2. CASE e # n
      BY <1>1, <1>2, <1>4, <1>5, <3>2 DEF Lists
    <3> QED BY <3>1, <3>2
  <2> QED BY <1>1, <1>2, <2>1 DEF Lists
<1>7. \A a : Recording(a)' = Recording(a) /\ Holding(a)' = Holding(a)
  BY <1>4, <1>5 DEF Recording, Holding, Recorders
<1>8. AlarmId' = AlarmId
  BY <1>1 DEF AlarmId
<1>9. \A a : Outstanding(a)' = Outstanding(a)
  BY <1>1, <1>7 DEF Outstanding, Queued
<1> QED BY <1>1, <1>2, <1>6, <1>8, <1>9 DEF DispatchAccounted

\* The loop takes an alarm: one place less in the queue, and it is in hand.
LEMMA AccountTake ==
  ASSUME AccountInv, LoopTake
  PROVE  Lists' /\ DispatchAccounted'
<1>1. AlarmsTypes /\ Lists /\ DispatchAccounted
  BY DEF AccountInv
<1>2. /\ queue \in Seq(AlarmId) /\ queue # <<>> /\ queue' = Tail(queue)
      /\ loop.pc = "select" /\ loop.hand = NoAlarm
      /\ loop'.pc = "dispatch" /\ loop'.hand = Head(queue)
      /\ UNCHANGED <<alarms, handlers, dispatches, dropped>>
  BY <1>1 DEF LoopTake, AlarmsTypes, AlarmsTypeOK, Lists
<1>3. Head(queue) \in AlarmId /\ NoAlarm \notin AlarmId
  BY <1>1, <1>2, TailElements DEF AlarmsTypes, AlarmsTypeOK, AlarmId, NoAlarm
<1>4. Lists'
  BY <1>1, <1>2, <1>3 DEF Lists
<1>5. AlarmId' = AlarmId
  BY <1>2 DEF AlarmId
<1>6. ASSUME NEW a \in AlarmId
      PROVE  Outstanding(a)' = Outstanding(a)
  <2>1. Recording(a)' = Recording(a) /\ Holding(a)' = Holding(a)
    BY <1>2 DEF Recording, Holding
  <2>0. Queued(a) = Places(queue, a) /\ Queued(a)' = Places(Tail(queue), a)
    BY <1>2 DEF Queued, Places
  <2>2. Cardinality(Queued(a)) = Cardinality(Queued(a)') + Times(Head(queue) = a)
    BY <1>2, <2>0, TailPlaces
  <2>3. IsFiniteSet(Queued(a)') /\ Cardinality(Queued(a)') \in Nat
    <3>1. IsFiniteSet(Queued(a)')
      BY <1>2, <2>0, TailPlaces
    <3> QED BY <3>1, FS_CardinalityType
  <2>4. Times(loop.hand = a) = 0 /\ Times(loop'.hand = a) = Times(Head(queue) = a)
    BY <1>2, <1>3 DEF Times
  <2>5. /\ Cardinality(Recording(a)) \in Nat /\ Cardinality(Holding(a)) \in Nat
        /\ Times(Head(queue) = a) \in Nat /\ Times(a \in dropped) \in Nat
    BY <1>1, CountsFinite DEF Times
  <2> QED BY <1>2, <2>1, <2>2, <2>3, <2>4, <2>5 DEF Outstanding
<1> QED BY <1>1, <1>2, <1>4, <1>5, <1>6 DEF DispatchAccounted

\* The loop dispatches the alarm in hand.
LEMMA AccountDispatch ==
  ASSUME AccountInv, LoopDispatch
  PROVE  Lists' /\ DispatchAccounted'
<1>1. AlarmsTypes /\ Lists /\ DispatchAccounted
  BY DEF AccountInv
<1>0. PICK l : l = loop.hand
  OBVIOUS
<1>2. /\ loop.pc = "dispatch" /\ l # NoAlarm /\ l \in AlarmId
      /\ loop'.pc = "select" /\ loop'.hand = NoAlarm /\ NoAlarm \notin AlarmId
      /\ UNCHANGED <<alarms, handlers, queue, dropped>>
  BY <1>0, <1>1 DEF LoopDispatch, Lists, AlarmsTypes, AlarmsTypeOK, AlarmId, NoAlarm
<1>3. Lists'
  BY <1>1, <1>2 DEF Lists
<1>4. AlarmId' = AlarmId
  BY <1>2 DEF AlarmId
<1>5. ASSUME NEW a \in AlarmId
      PROVE  dispatches'[a] + Outstanding(a)' = 2
  <2>1. /\ Recording(a)' = Recording(a) /\ Holding(a)' = Holding(a)
        /\ Queued(a)' = Queued(a)
    BY <1>2 DEF Recording, Holding, Queued
  <2>2. dispatches \in Seq(Nat) /\ DOMAIN dispatches = AlarmId
    BY <1>1 DEF AlarmsTypes, AlarmsTypeOK, AlarmId
  <2>3. dispatches[a] \in Nat /\ dispatches[a] + Outstanding(a) = 2
    BY <1>1, <2>2 DEF DispatchAccounted
  <2>4. /\ Cardinality(Recording(a)) \in Nat /\ Cardinality(Holding(a)) \in Nat
        /\ Cardinality(Queued(a)) \in Nat /\ Times(a \in dropped) \in Nat
    BY <1>1, CountsFinite DEF Times
  <2>5. dispatches'[a] = dispatches[a] + Times(l = a)
    BY <1>0, <2>2, <2>3 DEF LoopDispatch, Times
  <2>6. Times(loop'.hand = a) = 0 /\ Times(loop.hand = a) = Times(l = a)
    BY <1>0, <1>2 DEF Times
  <2>7. Times(l = a) \in Nat
    BY DEF Times
  <2> QED BY <1>2, <2>1, <2>3, <2>4, <2>5, <2>6, <2>7 DEF Outstanding
<1> QED BY <1>3, <1>4, <1>5 DEF DispatchAccounted

\* Every step of the alarms keeps the account.
LEMMA AccountNext ==
  ASSUME AccountInv, [AlarmsNext]_alarmVars
  PROVE  AccountInv'
<1>0. AlarmsTypes'
  BY AlarmsTypesNext DEF AccountInv
<1> SUFFICES Lists' /\ DispatchAccounted'
  BY <1>0 DEF AccountInv
<1>1. CASE UNCHANGED alarmVars
  BY <1>1, AccountKept DEF alarmVars
<1>2. CASE PublishStep
  BY <1>2, AccountPublish DEF PublishStep
<1>3. ASSUME NEW d \in 1 .. MaxEvents, HandlerStep(d)
      PROVE  Lists' /\ DispatchAccounted'
  <2>1. d \in DOMAIN handlers
    BY <1>3 DEF HandlerStep, At, EvaluateOwn, RaiseDispatch, DriftGrid, DriftList,
                DriftRaise, HandlerSend, HandlerEnd
  <2>2. handlers \in Seq(Handler) /\ handlers[d] \in Handler
    BY <2>1, HandlerFields DEF AccountInv
  <2>3. ASSUME NEW to \in HandlerPc \ Recorders, Goto(d, to),
               handlers[d].pc \notin Recorders,
               UNCHANGED <<alarms, queue, loop, dispatches, dropped>>
        PROVE  Lists' /\ DispatchAccounted'
    <3>1. /\ DOMAIN handlers' = DOMAIN handlers
          /\ \A e \in DOMAIN handlers \ {d} : handlers'[e] = handlers[e]
          /\ handlers'[d].raised = handlers[d].raised
          /\ handlers'[d].pc \notin Recorders
      BY <2>1, <2>2, <2>3 DEF Goto, Handler
    <3> QED BY <2>1, <2>3, <3>1, AccountMoves
  <2>4. CASE EvaluateOwn(d)
    BY <2>1, <2>4, AccountRaise DEF EvaluateOwn, At, Recorders
  <2>5. CASE RaiseDispatch(d)
    BY <2>1, <2>5, AccountRecord
  <2>6. CASE DriftGrid(d)
    BY <2>3, <2>6 DEF DriftGrid, At, Recorders, HandlerPc
  <2>7. CASE DriftList(d)
    <3>1. PICK settled \in SUBSET Berth :
            handlers' = [handlers EXCEPT ![d] =
                          [handlers[d] EXCEPT !.pc = "raise", !.todo = settled]]
      BY <2>7 DEF DriftList
    <3>2. /\ DOMAIN handlers' = DOMAIN handlers
          /\ \A e \in DOMAIN handlers \ {d} : handlers'[e] = handlers[e]
          /\ handlers'[d] = [handlers[d] EXCEPT !.pc = "raise", !.todo = settled]
      BY <2>1, <2>2, <3>1
    <3>3. handlers'[d].raised = handlers[d].raised /\ handlers'[d].pc = "raise"
      BY <2>2, <3>2 DEF Handler
    <3>4. handlers'[d].pc \notin Recorders /\ handlers[d].pc \notin Recorders
      BY <2>7, <3>3 DEF DriftList, At, Recorders
    <3> QED BY <2>1, <2>7, <3>2, <3>3, <3>4, AccountMoves DEF DriftList
  <2>8. CASE DriftRaise(d)
    <3>1. CASE \E b \in handlers[d].todo :
                 Raise(d, handlers[d].todo \ {b}, "record drift")
      <4>1. PICK b \in handlers[d].todo :
                   Raise(d, handlers[d].todo \ {b}, "record drift")
        BY <3>1
      <4>2. handlers[d].todo \ {b} \in SUBSET Berth
        BY <2>2 DEF Handler
      <4> QED BY <2>1, <2>8, <4>1, <4>2, AccountRaise DEF DriftRaise, At, Recorders
    <3>2. CASE Goto(d, "send") /\ UNCHANGED <<subscribed, alarms, queue, loop,
                                              main, dispatches, dropped>>
      BY <2>3, <2>8, <3>2 DEF DriftRaise, At, Recorders, HandlerPc
    <3> QED BY <2>8, <3>1, <3>2 DEF DriftRaise
  <2>9. CASE HandlerSend(d)
    BY <2>1, <2>9, AccountSend
  <2>10. CASE HandlerEnd(d)
    BY <2>3, <2>10 DEF HandlerEnd, At, Recorders, HandlerPc
  <2> QED BY <1>3, <2>4, <2>5, <2>6, <2>7, <2>8, <2>9, <2>10 DEF HandlerStep
<1>4. CASE LoopSubscribe \/ LoopReturn
  <2>1. loop'.hand = loop.hand /\ (loop'.pc = "dispatch" <=> loop.pc = "dispatch")
    BY <1>4 DEF LoopSubscribe, LoopReturn, AccountInv, AlarmsTypes, AlarmsTypeOK
  <2>2. UNCHANGED <<alarms, handlers, dispatches, queue, dropped>>
    BY <1>4 DEF LoopSubscribe, LoopReturn
  <2> QED BY <2>1, <2>2, AccountKept
<1>5. CASE LoopTake
  BY <1>5, AccountTake
<1>6. CASE LoopDispatch
  BY <1>6, AccountDispatch
<1>7. ASSUME NEW a \in DOMAIN alarms, Ack(a)
      PROVE  Lists' /\ DispatchAccounted'
  <2>1. DOMAIN alarms' = DOMAIN alarms
    BY <1>7 DEF Ack
  <2> QED BY <1>7, <2>1, AccountKept DEF Ack
<1>8. CASE Shutdown
  BY <1>8, AccountKept DEF Shutdown
<1> QED
  BY <1>1, <1>2, <1>3, <1>4, <1>5, <1>6, <1>7, <1>8 DEF AlarmsNext, LoopStep

\* Whatever the number of deliveries and the size of the queue: each alarm is
\* dispatched twice, or what is missing is with its handler, in the queue,
\* with the loop, or was dropped (alarm.go:59-75, dispatch.go:37-46, 58-66).
THEOREM DispatchAccountedHolds == ConsoleSpec => []DispatchAccounted
<1>1. ConsoleInit => AccountInv
  <2> SUFFICES ASSUME ConsoleInit PROVE AccountInv
    OBVIOUS
  <2>1. /\ subscribed = {} /\ handlers = <<>> /\ alarms = <<>> /\ queue = <<>>
        /\ loop = [pc |-> "subscribe", hand |-> NoAlarm] /\ main = "serving"
        /\ dispatches = <<>> /\ dropped = {}
    BY DEF ConsoleInit, AlarmsInit
  <2>2. AlarmsTypes
    BY <2>1, AlarmsAssumption DEF AlarmsTypes, AlarmsTypeOK, NoAlarm, Stage
  <2> QED BY <2>1, <2>2 DEF AccountInv, Lists, DispatchAccounted, AlarmId
<1>2. AccountInv /\ [ConsoleNext]_consoleVars => AccountInv'
  <2>1. [ConsoleNext]_consoleVars => [AlarmsNext]_alarmVars
    BY DEF ConsoleNext, consoleVars
  <2> QED BY <2>1, AccountNext
<1>3. AccountInv => DispatchAccounted
  BY DEF AccountInv
<1> QED BY <1>1, <1>2, <1>3, PTL DEF ConsoleSpec

=============================================================================
