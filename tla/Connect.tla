------------------------------- MODULE Connect ------------------------------
(***************************************************************************)
(* The connector of internal/connect: the sessions, and the goroutines     *)
(* serving /api/connect/apply, confirm, wait and cancel, composed with the *)
(* grid controller, with /api/grid/separate and with the goroutines of     *)
(* Capacity, which work on the same berths and allocations.                *)
(*                                                                         *)
(* c.mu guards the sessions and the map of pending channels and is never   *)
(* held across a call to another component, so every handler is a chain of *)
(* steps.  The channel of a session is made by Apply, taken out of the map *)
(* by whoever ends the session and closed by it after c.mu is released.    *)
(*                                                                         *)
(* The meter is present as the state of each vessel's run; samples, bills  *)
(* and suspension are left out, and Settle is one step.                    *)
(***************************************************************************)
EXTENDS Capacity, Grid

CONSTANTS
  RequestId,      \* request ids the clients send; None is the empty one
  BreakerFaults   \* TRUE if closing the breaker may fail

VARIABLES
  sessions,       \* sessions[i]: the session "s-00i"
  pending,        \* the sessions whose channel is in c.pending
  closed,         \* the sessions whose channel was closed
  meter           \* meter[v]: the state of the run of v

connectorVars == <<sessions, pending, closed>>
connectVars == <<vars, gridVars, connectorVars, meter>>

ConnectOps == {"apply", "confirm", "cancel", "wait", "separate"}

ASSUME ConnectAssumption == BreakerFaults \in BOOLEAN

SessionState == {"idle", "verifying", "connecting", "connected",
                 "failed", "cancelled"}

\* progress is the number of steps in Progress: verify; phase-check and
\* link; close.
Session == [vessel : Vessel, berth : Berth, request : RequestId,
            matching : BOOLEAN, state : SessionState, progress : 1 .. 4]

MeterState == {"not_metering", "metering", "settled"}

Open(s) == sessions[s].state \in {"verifying", "connecting"}

Serving(c) == sessions[req[c].session]

\* Set the state of session s, under c.mu.
SetState(s, state) == sessions' = [sessions EXCEPT ![s].state = state]

\* Wrong on purpose: the channel stays in the map.
EndSessionKeepsChannel(c, s, state) ==
  /\ SetState(s, state)
  /\ Goto(c, IF s \in pending THEN "unlatch" ELSE "reset")
  /\ UNCHANGED <<pending, closed, storeVars, allocVars, gridVars, meter>>

\* Wrong on purpose: the channel is dropped without being closed.
EndSessionSilent(c, s, state) ==
  /\ SetState(s, state)
  /\ pending' = pending \ {s}
  /\ Goto(c, "reset")
  /\ UNCHANGED <<closed, storeVars, allocVars, gridVars, meter>>

\* Under c.mu, client c ends session s in the state given and takes its
\* channel out of the map; its next steps close the channel, if it was
\* there, and free the berth.
EndSession(c, s, state) ==
  /\ SetState(s, state)
  /\ pending' = pending \ {s}
  /\ Goto(c, IF s \in pending THEN "unlatch" ELSE "reset")
  /\ UNCHANGED <<closed, storeVars, allocVars, gridVars, meter>>

\* Client c begins to serve a request on session s.
StartOn(c, op, s, to) ==
  /\ Start(c, op, to)
  /\ req' = [req EXCEPT ![c] = [op |-> op, session |-> s]]

othersUnchanged == UNCHANGED <<todo, live, count, last>>

---------------------------------------------------------------------------
(* Apply: the same request id is answered with its session; otherwise      *)
(* CanAccept, Allocate (the steps of Capacity), MarkAllocating, and the    *)
(* session is registered.                                                  *)

AlreadyApplied(id) ==
  /\ id # None
  /\ \E s \in DOMAIN sessions :
       /\ sessions[s].request = id
       /\ sessions[s].state \notin {"failed", "cancelled"}

\* The lookup and CheckReady, each under its own lock, are one step: neither
\* writes, and what they found may be stale by the next step anyway.
HandleApply(c, b, v, need, id, ok) ==
  /\ ~AlreadyApplied(id)
  /\ CheckReady(b, need)
  /\ Start(c, "apply", "refresh")
  /\ req' = [req EXCEPT ![c] =
               [op |-> "apply", berth |-> b, vessel |-> v, kva |-> need,
                request |-> id, matching |-> ok]]
  /\ othersUnchanged
  /\ UNCHANGED <<storeVars, allocVars, gridVars, connectorVars, meter>>

ApplyMark(c) ==
  LET b == req[c].berth IN
  /\ pc[c] = "granted" /\ req[c].op = "apply"
  /\ \/ MayAllocate(b) /\ Move(c, "register") /\ MarkAllocating(b)
     \/ ~MayAllocate(b) /\ Move(c, "undo") /\ UNCHANGED storeVars
  /\ UNCHANGED <<allocVars, gridVars, connectorVars, meter>>

\* Whatever allocation the berth has by now is released.
ApplyUndo(c) ==
  /\ pc[c] = "undo"
  /\ Give(c)
  /\ RevokeIfAny(req[c].berth)
  /\ UNCHANGED <<storeVars, gridVars, connectorVars, meter>>

\* Wrong on purpose: no channel is made for the session.
ApplyRegisterNoChannel(c) ==
  LET r == req[c] IN
  /\ pc[c] = "register"
  /\ Give(c)
  /\ sessions' = Append(sessions,
       [vessel |-> r.vessel, berth |-> r.berth, request |-> r.request,
        matching |-> r.matching, state |-> "verifying", progress |-> 1])
  /\ UNCHANGED <<pending, closed, storeVars, allocVars, gridVars, meter>>

ApplyRegister(c) ==
  LET r == req[c]
      s == Len(sessions) + 1
  IN
  /\ pc[c] = "register"
  /\ Give(c)
  /\ sessions' = Append(sessions,
       [vessel |-> r.vessel, berth |-> r.berth, request |-> r.request,
        matching |-> r.matching, state |-> "verifying", progress |-> 1])
  /\ pending' = pending \cup {s}
  /\ UNCHANGED <<closed, storeVars, allocVars, gridVars, meter>>

---------------------------------------------------------------------------
(* ConfirmVerification: PhaseCheck, SyncAndClose, MarkOccupied, Start, and *)
(* the session is connected; an error on the way fails it.                 *)

\* Wrong on purpose: only a connected session is refused.
TakeUnlessConnected(s) ==
  /\ sessions[s].state # "connected"
  /\ sessions' = [sessions EXCEPT ![s].state = "connecting",
                                  ![s].progress = @ + 2]

\* The section that takes a session on, for a request or for the dispatch.
Take(s) ==
  /\ sessions[s].state = "verifying"
  /\ sessions' = [sessions EXCEPT ![s].state = "connecting",
                                  ![s].progress = @ + 2]

HandleConfirm(c, s) ==
  /\ Take(s)
  /\ StartOn(c, "confirm", s, "phase")
  /\ othersUnchanged
  /\ UNCHANGED <<pending, closed, storeVars, allocVars, gridVars, meter>>

ConfirmPhase(c) ==
  /\ pc[c] = "phase"
  /\ \/ MayCheckPhase /\ Move(c, "presync") /\ PhaseCheck
     \/ ~MayCheckPhase /\ Move(c, "fail") /\ UNCHANGED gridVars
  /\ UNCHANGED <<storeVars, allocVars, connectorVars, meter>>

ConfirmSync(c) ==
  /\ pc[c] = "presync"
  /\ Move(c, IF MaySync THEN "match" ELSE "fail")
  /\ UNCHANGED <<storeVars, allocVars, gridVars, connectorVars, meter>>

\* WaitSync returns at once for the configured phase and times out for any
\* other.
ConfirmMatch(c) ==
  /\ pc[c] = "match"
  /\ Move(c, IF Serving(c).matching THEN "close" ELSE "fail")
  /\ UNCHANGED <<storeVars, allocVars, gridVars, connectorVars, meter>>

\* Wrong on purpose: the breaker's error is dropped.
ConfirmCloseUnchecked(c) ==
  /\ pc[c] = "close"
  /\ \/ Move(c, "on") /\ CloseBreaker
     \/ BreakerFaults /\ Move(c, "berth") /\ UNCHANGED gridVars
  /\ UNCHANGED <<storeVars, allocVars, connectorVars, meter>>

ConfirmClose(c) ==
  /\ pc[c] = "close"
  /\ \/ Move(c, "on") /\ CloseBreaker
     \/ BreakerFaults /\ Move(c, "fail") /\ UNCHANGED gridVars
  /\ UNCHANGED <<storeVars, allocVars, connectorVars, meter>>

ConfirmOnGrid(c) ==
  /\ pc[c] = "on"
  /\ Move(c, "berth")
  /\ GoOnGrid
  /\ UNCHANGED <<storeVars, allocVars, connectorVars, meter>>

ConfirmOccupy(c) ==
  LET s == Serving(c) IN
  /\ pc[c] = "berth"
  /\ \/ /\ MayOccupy(s.berth, s.vessel)
        /\ Move(c, "meter")
        /\ MarkOccupied(s.berth, s.vessel)
     \/ /\ ~MayOccupy(s.berth, s.vessel)
        /\ Move(c, "fail")
        /\ UNCHANGED storeVars
  /\ UNCHANGED <<allocVars, gridVars, connectorVars, meter>>

\* Wrong on purpose: a run that is there already is started over.
ConfirmMeterRestarts(c) ==
  LET v == Serving(c).vessel IN
  /\ pc[c] = "meter"
  /\ Move(c, "connected")
  /\ meter' = [meter EXCEPT ![v] = "metering"]
  /\ UNCHANGED <<storeVars, allocVars, gridVars, connectorVars>>

\* A vessel that has a run, settled or not, cannot be started again.
ConfirmMeter(c) ==
  LET v == Serving(c).vessel IN
  /\ pc[c] = "meter"
  /\ \/ /\ meter[v] = "not_metering"
        /\ Move(c, "connected")
        /\ meter' = [meter EXCEPT ![v] = "metering"]
     \/ /\ meter[v] # "not_metering"
        /\ Move(c, "fail")
        /\ UNCHANGED meter
  /\ UNCHANGED <<storeVars, allocVars, gridVars, connectorVars>>

\* Wrong on purpose: the last two steps are appended again.
ConfirmConnectedTwice(c) ==
  LET s == req[c].session IN
  /\ pc[c] = "connected"
  /\ sessions' = [sessions EXCEPT ![s].state = "connected",
                                  ![s].progress = @ + 2]
  /\ pending' = pending \ {s}
  /\ IF s \in pending THEN Move(c, "announce") ELSE Give(c)
  /\ UNCHANGED <<closed, storeVars, allocVars, gridVars, meter>>

\* The state of the session is not looked at again.
ConfirmConnected(c) ==
  LET s == req[c].session IN
  /\ pc[c] = "connected"
  /\ sessions' = [sessions EXCEPT ![s].state = "connected",
                                  ![s].progress = @ + 1]
  /\ pending' = pending \ {s}
  /\ IF s \in pending THEN Move(c, "announce") ELSE Give(c)
  /\ UNCHANGED <<closed, storeVars, allocVars, gridVars, meter>>

ConfirmAnnounce(c) ==
  /\ pc[c] = "announce"
  /\ closed' = closed \cup {req[c].session}
  /\ Give(c)
  /\ UNCHANGED <<sessions, pending, storeVars, allocVars, gridVars, meter>>

ConfirmFail(c) ==
  /\ pc[c] = "fail"
  /\ EndSession(c, req[c].session, "failed")
  /\ UNCHANGED <<req, todo, live, count, last, issued>>

---------------------------------------------------------------------------
(* Cancel: any session that is not connected, whatever became of it.       *)

HandleCancel(c, s) ==
  /\ sessions[s].state # "connected"
  /\ "cancel" \in Ops /\ issued < MaxRequests /\ pc[c] = "ready"
  /\ issued' = issued + 1
  /\ req' = [req EXCEPT ![c] = [op |-> "cancel", session |-> s]]
  /\ EndSession(c, s, "cancelled")
  /\ othersUnchanged

---------------------------------------------------------------------------
(* WaitVerification: until the channel is closed or the timer fires.  The  *)
(* timer may fire at any time, also when the channel was closed before it. *)

HandleWait(c, s) ==
  /\ sessions[s].state = "verifying"
  /\ StartOn(c, "wait", s, "waiting")
  /\ othersUnchanged
  /\ UNCHANGED <<connectorVars, storeVars, allocVars, gridVars, meter>>

\* The answer is "verified".
WaitWake(c) ==
  /\ pc[c] = "waiting"
  /\ req[c].session \in closed
  /\ Give(c)
  /\ UNCHANGED <<connectorVars, storeVars, allocVars, gridVars, meter>>

WaitTimer(c) ==
  /\ pc[c] = "waiting"
  /\ Move(c, "timeout")
  /\ UNCHANGED <<connectorVars, storeVars, allocVars, gridVars, meter>>

\* Whatever state the session is in by now.
WaitTimeout(c) ==
  /\ pc[c] = "timeout"
  /\ EndSession(c, req[c].session, "idle")
  /\ UNCHANGED <<req, todo, live, count, last, issued>>

---------------------------------------------------------------------------
(* The end that fail, Cancel and timeout share: close the channel, reset   *)
(* the berth and release its allocation, whoever has them by now.          *)

\* Wrong on purpose: the berth is not reset.
UnlatchOnly(c) ==
  /\ pc[c] = "unlatch"
  /\ Move(c, "unallocate")
  /\ closed' = closed \cup {req[c].session}
  /\ UNCHANGED <<sessions, pending, storeVars, allocVars, gridVars, meter>>

Unlatch(c) ==
  /\ pc[c] = "unlatch"
  /\ Move(c, "reset")
  /\ closed' = closed \cup {req[c].session}
  /\ UNCHANGED <<sessions, pending, storeVars, allocVars, gridVars, meter>>

ResetBerth(c) ==
  /\ pc[c] = "reset"
  /\ Move(c, "unallocate")
  /\ MarkIdle(Serving(c).berth)
  /\ UNCHANGED <<connectorVars, allocVars, gridVars, meter>>

Unallocate(c) ==
  /\ pc[c] = "unallocate"
  /\ Give(c)
  /\ RevokeIfAny(Serving(c).berth)
  /\ UNCHANGED <<connectorVars, storeVars, gridVars, meter>>

---------------------------------------------------------------------------
(* POST /api/grid/separate.                                                *)

HandleSeparate(c) ==
  /\ MaySeparate
  /\ Start(c, "separate", "open")
  /\ BeginSeparation
  /\ othersUnchanged
  /\ UNCHANGED <<req, connectorVars, storeVars, allocVars, meter>>

SeparateOpen(c) ==
  /\ pc[c] = "open"
  /\ Move(c, "off")
  /\ OpenBreaker
  /\ UNCHANGED <<connectorVars, storeVars, allocVars, meter>>

SeparateOff(c) ==
  /\ pc[c] = "off"
  /\ Give(c)
  /\ GoOffGrid
  /\ UNCHANGED <<connectorVars, storeVars, allocVars, meter>>

---------------------------------------------------------------------------
(* The departure settles the run of the vessel it read, if that is being   *)
(* metered; the bill is refused while there is no sample.                  *)

DepartBill(c) ==
  LET v == req[c].vessel IN
  /\ pc[c] = "settle"
  /\ \/ meter[v] # "metering" /\ Move(c, "mark") /\ UNCHANGED meter
     \/ /\ meter[v] = "metering"
        /\ Move(c, "mark")
        /\ meter' = [meter EXCEPT ![v] = "settled"]
     \/ meter[v] = "metering" /\ Give(c) /\ UNCHANGED meter
  /\ UNCHANGED <<connectorVars, storeVars, allocVars, gridVars>>

---------------------------------------------------------------------------

ConnectInit ==
  /\ Init
  /\ NewController
  /\ sessions = <<>>
  /\ pending = {}
  /\ closed = {}
  /\ meter = [v \in Vessel |-> "not_metering"]

ApplyStep(c) ==
  \/ \E b \in Berth, v \in Vessel, need \in Demand,
        id \in RequestId, ok \in BOOLEAN :
       HandleApply(c, b, v, need, id, ok)
  \/ ApplyMark(c)
  \/ ApplyUndo(c)
  \/ ApplyRegister(c)

ConfirmStep(c) ==
  \/ ConfirmPhase(c)
  \/ ConfirmSync(c)
  \/ ConfirmMatch(c)
  \/ ConfirmClose(c)
  \/ ConfirmOnGrid(c)
  \/ ConfirmOccupy(c)
  \/ ConfirmMeter(c)
  \/ ConfirmConnected(c)
  \/ ConfirmAnnounce(c)
  \/ ConfirmFail(c)

EndStep(c) ==
  \/ Unlatch(c)
  \/ ResetBerth(c)
  \/ Unallocate(c)

WaitStep(c) ==
  \/ WaitWake(c)
  \/ WaitTimer(c)
  \/ WaitTimeout(c)

SeparateStep(c) ==
  \/ HandleSeparate(c)
  \/ SeparateOpen(c)
  \/ SeparateOff(c)

SessionStep(c) ==
  \/ \E s \in DOMAIN sessions :
       HandleConfirm(c, s) \/ HandleCancel(c, s) \/ HandleWait(c, s)
  \/ ApplyStep(c)
  \/ ConfirmStep(c)
  \/ EndStep(c)
  \/ WaitStep(c)
  \/ SeparateStep(c)
  \/ DepartBill(c)

\* The steps of Capacity, except the departure's settlement.
CapacityStep(c) ==
  \/ OccupyStep(c)
  \/ \E b \in Berth : HandleDepart(c, b)
  \/ DepartMark(c)
  \/ DepartRelease(c)
  \/ DepartIdle(c)
  \/ RebuildStep(c)

ConnectNext ==
  \/ \E c \in Client : SessionStep(c)
  \/ /\ (\E c \in Client : CapacityStep(c)) \/ ReconcileStep
     /\ UNCHANGED <<gridVars, connectorVars, meter>>

ConnectSpec == ConnectInit /\ [][ConnectNext]_connectVars

---------------------------------------------------------------------------
(* Fairness: a handler that has begun takes its next step.  A waiter is    *)
(* obliged to wake up when its channel is closed; its timer is not obliged *)
(* to fire.                                                                *)

SessionProgress(c) ==
  \/ ApplyMark(c)
  \/ ApplyUndo(c)
  \/ ApplyRegister(c)
  \/ ConfirmStep(c)
  \/ EndStep(c)
  \/ WaitWake(c)
  \/ WaitTimeout(c)
  \/ SeparateOpen(c)
  \/ SeparateOff(c)
  \/ DepartBill(c)

CapacityProgress(c) ==
  /\ \/ OccupyProgress(c)
     \/ DepartMark(c)
     \/ DepartRelease(c)
     \/ DepartIdle(c)
  /\ UNCHANGED <<gridVars, connectorVars, meter>>

ConnectFairSpec ==
  /\ ConnectSpec
  /\ \A c \in Client :
       WF_connectVars(SessionProgress(c) \/ CapacityProgress(c))

---------------------------------------------------------------------------
(* Properties.                                                             *)

ConfirmSteps == {"phase", "presync", "match", "close", "on", "berth",
                 "meter", "connected", "fail"}

ConnectStep == ConfirmSteps \cup
  {"undo", "register", "announce", "unlatch", "reset", "unallocate",
   "waiting", "timeout", "open", "off"}

ApplyRequest == [op : {"apply"}, berth : Berth, vessel : Vessel, kva : Nat,
                 request : RequestId, matching : BOOLEAN]

SessionRequest == [op : {"confirm", "cancel", "wait"},
                   session : DOMAIN sessions]

\* The part of the type invariant that is about the variables of this module.
ConnectorTypeOK ==
  /\ sessions \in Seq(Session)
  /\ pending \subseteq DOMAIN sessions
  /\ closed \subseteq DOMAIN sessions
  /\ meter \in [Vessel -> MeterState]

\* A session can be waited for exactly while it is open: its channel is in
\* the map from the moment it is registered until the step that ends it,
\* whichever of confirm, fail, cancel and timeout that is
\* (connect.go:141-142, 190-191, 214-215, 263-264, verify.go:42-43).
LatchIffOpen == \A s \in DOMAIN sessions : s \in pending <=> Open(s)

\* Client c is about to close the channel of session s.
Closing(c, s) == pc[c] \in {"announce", "unlatch"} /\ req[c].session = s

\* Client c is confirming session s.
Confirming(c, s) == pc[c] \in ConfirmSteps /\ req[c].session = s

\* The channel of a session is in one place: in the map, or in the hands of
\* one goroutine about to close it, or closed.  So none is closed twice,
\* which would panic, and none is lost, which would leave its waiters to
\* their timers (connect.go:141-142, 190-195, 214-219, 263-272,
\* verify.go:26-28, 42-51).
ChannelInOnePlace ==
  \A s \in DOMAIN sessions :
    LET hands == {c \in Client : Closing(c, s)} IN
    \/ s \in pending \ closed /\ hands = {}
    \/ s \in closed \ pending /\ hands = {}
    \/ s \notin pending \cup closed /\ \E c \in Client : hands = {c}

\* The close sequence never runs twice for a session, and a session that is
\* being connected is never left behind: the one goroutine that took it on
\* has yet to connect it or to fail it, whatever was cancelled, timed out or
\* refused meanwhile (connect.go:155-189, override.go:51-55).
ServedByOne ==
  /\ \A c \in Client :
       pc[c] \in ConfirmSteps =>
         /\ Serving(c).progress = 3
         /\ \A d \in Client \ {c} : ~Confirming(d, req[c].session)
  /\ \A s \in DOMAIN sessions :
       sessions[s].state = "connecting" => \E c \in Client : Confirming(c, s)

\* A vessel is connected once in the life of the server: whatever overlaps,
\* the meter lets one session of a vessel through, and that vessel has a run
\* (meter.go:59-61, connect.go:182-189).
ConnectedOnce ==
  LET done == {s \in DOMAIN sessions : sessions[s].progress = 4}
  IN  \A s \in done :
        /\ meter[sessions[s].vessel] # "not_metering"
        /\ \A t \in done \ {s} : sessions[t].vessel # sessions[s].vessel

\* Every connection was made by a breaker operation of its own: the grid
\* has executed at least as often as sessions were connected
\* (grid.go:94-97, connect.go:187-189).
ExecutionsCover ==
  Cardinality({s \in DOMAIN sessions : sessions[s].progress = 4})
    <= executions

\* Somebody answers for berth b: an open session, an apply about to register
\* one, or a goroutine about to reset the berth.
Owned(b) ==
  \/ \E s \in DOMAIN sessions : Open(s) /\ sessions[s].berth = b
  \/ \E c \in Client : pc[c] = "register" /\ req[c].berth = b
  \/ \E c \in Client :
       pc[c] \in {"unlatch", "reset"} /\ Serving(c).berth = b

\* Nobody waits for a session that has ended: its waiters return without
\* their timers (verify.go:26-28).
WaitersWake ==
  \A c \in Client :
    (pc[c] = "waiting" /\ ~Open(req[c].session)) ~> pc[c] # "waiting"

\* A session that was cancelled is not connected afterwards
\* (connect.go:200-224, "POST /api/connect/cancel").
CancelSticks ==
  [][\A s \in DOMAIN sessions :
       sessions[s].state = "cancelled" => sessions'[s].state # "connected"
    ]_connectVars

\* Who is told that a session is verified waits for one that was connected
\* (main.go:373-377, verify.go:26-28).
VerifiedIsConnected ==
  [][\A c \in Client :
       WaitWake(c) => Serving(c).progress = 4]_connectVars

\* With no goroutine at the breaker, the breaker is closed exactly when the
\* controller says on-grid (grid.go:90-97, 108-119).
BreakerFollowsGrid ==
  (\A c \in Client : pc[c] \notin {"on", "open", "off"})
    => (breaker <=> grid = "on-grid")

TakenOn == {s \in DOMAIN sessions : sessions[s].progress >= 3}

HasConnected == {s \in DOMAIN sessions : sessions[s].progress = 4}

\* A session has the life that SessionLife promises, whatever handlers
\* overlap: it is taken on only while it can be waited for, and once; it is
\* connected once; its channel is closed once, after it has ended
\* (connect.go:155-196, 201-219, 246-272, verify.go:33-51).
Life ==
  INSTANCE SessionLife WITH
    applied   <- Len(sessions),
    waiting   <- pending,
    taken     <- TakenOn,
    connected <- HasConnected,
    released  <- closed
ImplementsLife == Life!LifeSpec

=============================================================================
