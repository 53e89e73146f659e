------------------------------- MODULE Console ------------------------------
(***************************************************************************)
(* The way of an alarm to the operator's screen: the alarms of Alarms, the *)
(* hub of Hub, and broadcastLoop of cmd/server between them, which takes a *)
(* snapshot of the server every second and broadcasts it.                  *)
(*                                                                         *)
(* A snapshot is the list of alarms as Alarms() copies it under m.mu; the  *)
(* rest of it is left out, since its parts are read one after the other    *)
(* and nothing ties them together.  When main returns everything stops.    *)
(***************************************************************************)
EXTENDS Alarms, Hub

VARIABLE
  broadcaster     \* where broadcastLoop is, and the frame it has made

consoleVars == <<alarmVars, hubVars, broadcaster>>

---------------------------------------------------------------------------

BuildSnapshot ==
  /\ broadcaster.pc = "select"
  /\ broadcaster' = [pc |-> "broadcast", frame |-> alarms]
  /\ UNCHANGED hubVars

BroadcastSnapshot ==
  /\ broadcaster.pc = "broadcast"
  /\ Broadcast(broadcaster.frame)
  /\ broadcaster' = [pc |-> "select", frame |-> <<>>]

BroadcastStop ==
  /\ broadcaster.pc = "select" /\ main # "serving"
  /\ broadcaster' = [pc |-> "done", frame |-> <<>>]
  /\ UNCHANGED hubVars

BroadcastStep == BuildSnapshot \/ BroadcastSnapshot \/ BroadcastStop

ConsoleInit ==
  /\ AlarmsInit
  /\ HubInit
  /\ broadcaster = [pc |-> "select", frame |-> <<>>]

HubStep ==
  \/ BroadcastStep
  \/ \E w \in WsClient :
       (BrowserStep(w) \/ LoopsStep(w)) /\ UNCHANGED broadcaster

ConsoleNext ==
  \/ AlarmsNext /\ UNCHANGED <<hubVars, broadcaster>>
  \/ Running /\ HubStep /\ UNCHANGED alarmVars

ConsoleSpec == ConsoleInit /\ [][ConsoleNext]_consoleVars

---------------------------------------------------------------------------
(* Fairness: every goroutine that can go on does.  The events, the         *)
(* operators and the browsers owe nothing; a shutdown that has begun goes  *)
(* on, and the ticker goes on ticking.                                     *)

AlarmsOnly(A) == A /\ UNCHANGED <<hubVars, broadcaster>>
HubOnly(A) == Running /\ A /\ UNCHANGED alarmVars

ConsoleFairSpec ==
  /\ ConsoleSpec
  /\ \A d \in 1 .. MaxEvents : WF_consoleVars(AlarmsOnly(HandlerStep(d)))
  /\ WF_consoleVars(AlarmsOnly(LoopStep))
  /\ WF_consoleVars(AlarmsOnly(main # "serving" /\ Shutdown))
  /\ WF_consoleVars(HubOnly(BroadcastStep))
  /\ \A w \in WsClient :
       WF_consoleVars(HubOnly(LoopsStep(w) /\ UNCHANGED broadcaster))

---------------------------------------------------------------------------
(* Properties.                                                             *)

Frame == Seq(AlarmState)

\* Every variable of the alarms, the hub and the broadcast keeps its type
\* (alarm.go:33-49, dispatch.go:10-17, main.go:722-730).
ConsoleTypeOK ==
  /\ AlarmsTypeOK
  /\ browser \in [WsClient -> BrowserState]
  /\ closedSend \subseteq WsClient
  /\ writing \subseteq WsClient
  /\ send \in [WsClient -> Seq(Frame)]
  /\ \A w \in WsClient : Len(send[w]) <= BufferSize
  /\ \A w \in WsClient : Len(writer[w]) <= 1
  /\ broadcaster \in [pc : {"select", "broadcast", "done"}, frame : Frame]

\* later is the same list of alarms some time after: none is missing, and
\* none that was acknowledged is open again.
Continues(later, earlier) ==
  /\ Len(later) >= Len(earlier)
  /\ \A a \in DOMAIN earlier : earlier[a] = "acked" => later[a] = "acked"

\* The screen never goes back: whatever frames a client missed because its
\* channel was full, each one it gets continues the one it had
\* (main.go:768-773, 790-816, alarm.go:77-83).
FramesForward ==
  [][\A w \in WsClient : Continues(shown'[w], shown[w])]_consoleVars

\* A browser that has stalled holds nobody up: the broadcast returns, so the
\* next tick finds it ready (main.go:808-815).
BroadcastGoesOn ==
  broadcaster.pc = "broadcast" ~> (~Running \/ broadcaster.pc # "broadcast")

\* An alarm that was raised is seen by every browser that keeps reading, as
\* long as the server is up, however often the channel was full
\* (alarm.go:59-70, main.go:790-816).
AlarmReachesConsole ==
  \A w \in WsClient, a \in 1 .. MaxEvents * (1 + Cardinality(Berth)) :
    (a \in AlarmId /\ w \in clients /\ browser[w] = "reading")
      ~> \/ a \in DOMAIN shown[w]
         \/ browser[w] # "reading"
         \/ main # "serving"

=============================================================================
