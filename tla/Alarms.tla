-------------------------------- MODULE Alarms ------------------------------
(***************************************************************************)
(* The event bus of internal/event, the alarm manager and the dispatch     *)
(* loop of internal/alarm, and the shutdown of cmd/server that ends them.  *)
(*                                                                         *)
(* Publish starts a goroutine for every delivery and waits for none, so    *)
(* handlers of several events run at once and in any order.  A handler     *)
(* raises the alarms of its event, then looks at the grid, then at the     *)
(* berths, and raises one for each that is settled while the grid is not   *)
(* on; every alarm is dispatched when it is raised and again by the loop,  *)
(* to which it goes through a queue that drops what does not fit.          *)
(*                                                                         *)
(* The grid and the berths are those of Grid and BerthStore.  They change  *)
(* at any time, so what is read of them here is any value.  An event       *)
(* nobody is subscribed to changes nothing and is not issued.  Evaluate    *)
(* never raises a critical alarm, so the separation that Dispatch has for  *)
(* one is never made; an alarm is known by its place in the list, and its  *)
(* source and text are left out.                                           *)
(***************************************************************************)
EXTENDS SequencesExt, Naturals, FiniteSets

CONSTANTS
  Topic,          \* the topics in use, of those the loop subscribes to
  Berth,          \* the berths of the store
  QueueSize,      \* the capacity of the queue: 64
  MaxEvents,      \* bound: events delivered
  MaxAcks         \* bound: alarms acknowledged

ASSUME AlarmsAssumption ==
  /\ Topic \subseteq {"grid.state", "connect.failed", "connect.connected",
                      "capacity.reconciled"}
  /\ QueueSize \in Nat \ {0}
  /\ MaxEvents \in Nat
  /\ MaxAcks \in Nat

VARIABLES
  subscribed,     \* the topics the loop has subscribed to
  handlers,       \* handlers[d]: the goroutine of delivery d
  alarms,         \* Manager.alarms: for each whether it is acknowledged
  queue,          \* DispatchLoop.queue: alarm ids
  loop,           \* DispatchLoop.Run: where it is, and the alarm it holds
  main,           \* how far the shutdown of the server has got
  \* History, read by the properties only:
  dispatches,     \* dispatches[a]: calls of Dispatch for alarm a
  dropped         \* alarms the queue had no room for

alarmVars == <<subscribed, handlers, alarms, queue, loop, main, dispatches,
               dropped>>

GridState == {"off", "syncing", "separating", "on-grid"}

AlarmState == {"raised", "acked"}

\* How far main has got: up; the context cancelled, until the reconciler and
\* the loop have ended, the HTTP server is shut down, and the recorder and
\* then the bus are closed; and main returned.
Stage == {"serving", "stopping", "exited"}

Running == main # "exited"

\* An alarm in nobody's hands.
NoAlarm == 0

---------------------------------------------------------------------------
(* Publish: a delivery starts.  The state an event of the controller       *)
(* carries is read when the event is published, not when it happened.      *)

\* An event raises an alarm by itself, or none.
RaisesOwn(topic, state) ==
  \/ topic = "grid.state" /\ state \in {"on-grid", "off"}
  \/ topic \in {"connect.failed", "capacity.reconciled"}

Publish(topic, state) ==
  /\ Running
  /\ topic \in subscribed
  /\ Len(handlers) < MaxEvents
  /\ handlers' = Append(handlers,
       [pc |-> IF RaisesOwn(topic, state) THEN "own" ELSE "drift",
        raised |-> <<>>, todo |-> {}])
  /\ UNCHANGED <<subscribed, alarms, queue, loop, main, dispatches, dropped>>

---------------------------------------------------------------------------
(* Manager.Evaluate and the sends of handleEvent, for delivery d.          *)

At(d, pc) == Running /\ d \in DOMAIN handlers /\ handlers[d].pc = pc

Goto(d, pc) == handlers' = [handlers EXCEPT ![d].pc = pc]

\* Raise, under m.mu; the alarm is then dispatched at step `to`.
Raise(d, todo, to) ==
  /\ alarms' = Append(alarms, "raised")
  /\ dispatches' = Append(dispatches, 0)
  /\ handlers' = [handlers EXCEPT ![d].pc = to, ![d].todo = todo,
                                  ![d].raised = Append(@, Len(alarms) + 1)]
  /\ UNCHANGED <<subscribed, queue, loop, main, dropped>>

EvaluateOwn(d) ==
  /\ At(d, "own")
  /\ Raise(d, {}, "record")

\* The end of Raise: Dispatch appends a record, or is refused one by a
\* recorder that is closed; nobody is told.
RaiseDispatch(d) ==
  /\ At(d, "record") \/ At(d, "record drift")
  /\ dispatches' = [dispatches EXCEPT ![Last(handlers[d].raised)] = @ + 1]
  /\ Goto(d, IF handlers[d].pc = "record" THEN "drift" ELSE "raise")
  /\ UNCHANGED <<subscribed, alarms, queue, loop, main, dropped>>

\* driftChecks reads the grid first and the berths afterwards.
DriftGrid(d) ==
  /\ At(d, "drift")
  /\ \E onGrid \in BOOLEAN : Goto(d, IF onGrid THEN "send" ELSE "list")
  /\ UNCHANGED <<subscribed, alarms, queue, loop, main, dispatches, dropped>>

DriftList(d) ==
  /\ At(d, "list")
  /\ \E settled \in SUBSET Berth :
       handlers' = [handlers EXCEPT ![d].pc = "raise", ![d].todo = settled]
  /\ UNCHANGED <<subscribed, alarms, queue, loop, main, dispatches, dropped>>

DriftRaise(d) ==
  /\ At(d, "raise")
  /\ \/ \E b \in handlers[d].todo :
          Raise(d, handlers[d].todo \ {b}, "record drift")
     \/ /\ handlers[d].todo = {}
        /\ Goto(d, "send")
        /\ UNCHANGED <<subscribed, alarms, queue, loop, main, dispatches,
                       dropped>>

Sent(d) == handlers' = [handlers EXCEPT ![d].raised = Tail(@)]

\* Wrong on purpose: a full queue makes the handler wait.
HandlerSendWaits(d) ==
  /\ At(d, "send")
  /\ handlers[d].raised # <<>> /\ Len(queue) < QueueSize
  /\ Sent(d)
  /\ queue' = Append(queue, Head(handlers[d].raised))
  /\ UNCHANGED <<subscribed, alarms, loop, main, dispatches,
                 dropped>>

\* Wrong on purpose: a full queue gives up its oldest alarm.
HandlerSendReplaces(d) ==
  /\ At(d, "send")
  /\ handlers[d].raised # <<>>
  /\ Sent(d)
  /\ queue' = Append(IF Len(queue) < QueueSize THEN queue ELSE Tail(queue),
                     Head(handlers[d].raised))
  /\ UNCHANGED <<subscribed, alarms, loop, main, dispatches,
                 dropped>>

HandlerSend(d) ==
  /\ At(d, "send")
  /\ handlers[d].raised # <<>>
  /\ Sent(d)
  /\ LET a == Head(handlers[d].raised) IN
       IF Len(queue) < QueueSize
         THEN queue' = Append(queue, a) /\ UNCHANGED dropped
         ELSE dropped' = dropped \cup {a} /\ UNCHANGED queue
  /\ UNCHANGED <<subscribed, alarms, loop, main, dispatches>>

HandlerEnd(d) ==
  /\ At(d, "send")
  /\ handlers[d].raised = <<>>
  /\ Goto(d, "done")
  /\ UNCHANGED <<subscribed, alarms, queue, loop, main,
                 dispatches, dropped>>

---------------------------------------------------------------------------
(* DispatchLoop.Run.  The bus is open while it subscribes: main closes it  *)
(* after the loop has ended.                                               *)

LoopSubscribe ==
  /\ Running
  /\ loop.pc = "subscribe"
  /\ \/ \E topic \in Topic \ subscribed :
          subscribed' = subscribed \cup {topic} /\ UNCHANGED loop
     \/ /\ subscribed = Topic
        /\ loop' = [loop EXCEPT !.pc = "select"]
        /\ UNCHANGED subscribed
  /\ UNCHANGED <<handlers, alarms, queue, main, dispatches,
                 dropped>>

LoopTake ==
  /\ Running
  /\ loop.pc = "select" /\ queue # <<>>
  /\ loop' = [pc |-> "dispatch", hand |-> Head(queue)]
  /\ queue' = Tail(queue)
  /\ UNCHANGED <<subscribed, handlers, alarms, main, dispatches,
                 dropped>>

LoopDispatch ==
  /\ Running
  /\ loop.pc = "dispatch"
  /\ dispatches' = [dispatches EXCEPT ![loop.hand] = @ + 1]
  /\ loop' = [pc |-> "select", hand |-> NoAlarm]
  /\ UNCHANGED <<subscribed, handlers, alarms, queue, main,
                 dropped>>

\* Wrong on purpose: the stop is only looked at after an alarm.
LoopReturnAfterAlarm ==
  /\ Running
  /\ loop.pc = "dispatch" /\ main # "serving"
  /\ loop' = [loop EXCEPT !.pc = "done"]
  /\ UNCHANGED <<subscribed, handlers, alarms, queue, main, dispatches,
                 dropped>>

\* The context is cancelled or stop is closed; what is queued stays there.
LoopReturn ==
  /\ Running
  /\ loop.pc = "select" /\ main # "serving"
  /\ loop' = [loop EXCEPT !.pc = "done"]
  /\ UNCHANGED <<subscribed, handlers, alarms, queue, main,
                 dispatches, dropped>>

---------------------------------------------------------------------------
(* POST /api/alarms/ack, and the shutdown.                                 *)

Acked == {a \in DOMAIN alarms : alarms[a] = "acked"}

\* Wrong on purpose: acknowledging an alarm again takes it back.
AckToggles(a) ==
  /\ Running
  /\ a \in Acked \/ Cardinality(Acked) < MaxAcks
  /\ alarms' = [alarms EXCEPT ![a] = IF @ = "acked" THEN "raised" ELSE "acked"]
  /\ UNCHANGED <<subscribed, handlers, queue, loop, main, dispatches, dropped>>

\* Acknowledging an alarm again changes nothing.
Ack(a) ==
  /\ Running
  /\ a \in DOMAIN alarms \ Acked
  /\ Cardinality(Acked) < MaxAcks
  /\ alarms' = [alarms EXCEPT ![a] = "acked"]
  /\ UNCHANGED <<subscribed, handlers, queue, loop, main,
                 dispatches, dropped>>

\* Stop waits for the loop; nobody waits for the handlers of the bus.
Shutdown ==
  /\ Running
  /\ \/ main = "serving" /\ main' = "stopping"
     \/ main = "stopping" /\ loop.pc = "done" /\ main' = "exited"
  /\ UNCHANGED <<subscribed, handlers, alarms, queue, loop,
                 dispatches, dropped>>

---------------------------------------------------------------------------

AlarmsInit ==
  /\ subscribed = {}
  /\ handlers = <<>>
  /\ alarms = <<>>
  /\ queue = <<>>
  /\ loop = [pc |-> "subscribe", hand |-> NoAlarm]
  /\ main = "serving"
  /\ dispatches = <<>>
  /\ dropped = {}

PublishStep ==
  \E topic \in Topic, state \in GridState : Publish(topic, state)

HandlerStep(d) ==
  \/ EvaluateOwn(d)
  \/ RaiseDispatch(d)
  \/ DriftGrid(d)
  \/ DriftList(d)
  \/ DriftRaise(d)
  \/ HandlerSend(d)
  \/ HandlerEnd(d)

LoopStep == LoopSubscribe \/ LoopTake \/ LoopDispatch \/ LoopReturn

AlarmsNext ==
  \/ PublishStep
  \/ \E d \in 1 .. MaxEvents : HandlerStep(d)
  \/ LoopStep
  \/ \E a \in DOMAIN alarms : Ack(a)
  \/ Shutdown

---------------------------------------------------------------------------
(* Properties.                                                             *)

HandlerPc == {"own", "record", "drift", "list", "raise",
              "record drift", "send", "done"}

AlarmId == DOMAIN alarms

\* The part of the type invariant that is about the variables of this module.
AlarmsTypeOK ==
  /\ subscribed \subseteq Topic
  /\ alarms \in Seq(AlarmState)
  /\ handlers \in Seq([pc : HandlerPc, raised : Seq(AlarmId),
                       todo : SUBSET Berth])
  /\ queue \in Seq(AlarmId) /\ Len(queue) <= QueueSize
  /\ loop \in [pc : {"subscribe", "select", "dispatch", "done"},
               hand : AlarmId \cup {NoAlarm}]
  /\ main \in Stage
  /\ Len(dispatches) = Len(alarms)
  /\ dropped \subseteq AlarmId

Times(condition) == IF condition THEN 1 ELSE 0

\* Who has alarm a: the deliveries that have raised it and not dispatched it
\* yet, those that have yet to send it to the loop, and its places in the
\* queue.
Recording(a) ==
  {d \in DOMAIN handlers : /\ handlers[d].pc \in {"record", "record drift"}
                           /\ Last(handlers[d].raised) = a}
Holding(a) == {d \in DOMAIN handlers : a \in Range(handlers[d].raised)}
Queued(a) == {i \in DOMAIN queue : queue[i] = a}

\* The dispatches of alarm a that are still to come, or will never come.
Outstanding(a) ==
  Cardinality(Recording(a)) + Cardinality(Holding(a)) + Cardinality(Queued(a))
    + Times(loop.hand = a) + Times(a \in dropped)

\* Every alarm is dispatched when it is raised and once more by the loop,
\* and never a third time: what is missing of the two is with its handler,
\* in the queue, with the loop, or was dropped by a full queue
\* (alarm.go:59-75, dispatch.go:37-46, 58-66).
DispatchAccounted ==
  \A a \in AlarmId : dispatches[a] + Outstanding(a) = 2

\* Nothing a delivery does waits for another goroutine: until it has ended its
\* next step can be taken, also when the queue is full and the loop has gone
\* (event.go:45-48, dispatch.go:58-66).
HandlersNeverWait ==
  \A d \in DOMAIN handlers :
    (Running /\ handlers[d].pc # "done") => ENABLED HandlerStep(d)

\* The shutdown gets to its end: the loop answers the stop, whatever is
\* queued and whoever is still raising alarms (main.go:146-155,
\* dispatch.go:38-45, 49-56).
ShutdownCompletes == main # "serving" ~> main = "exited"

=============================================================================
