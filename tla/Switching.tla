------------------------------ MODULE Switching -----------------------------
(***************************************************************************)
(* The operator's side of the control room, on top of the connector: the   *)
(* switching sequences of /api/grid/switch (internal/grid/sequence.go), the*)
(* local override of /api/control/override and the automatic dispatch of   *)
(* /api/control/dispatch (internal/connect/override.go).                   *)
(*                                                                         *)
(* A sequence is a chain of steps, each under the lock of the part it      *)
(* touches.  It copies a berth before it changes it and, when a step       *)
(* fails, puts the copies and the state of the grid back; the breaker is   *)
(* not put back.  The dispatch makes a list of sessions under c.mu and     *)
(* confirms them one after the other, with nothing held in between.        *)
(***************************************************************************)
EXTENDS Connect

VARIABLES
  override,       \* Connector.override
  mode,           \* Controller.mode
  targets,        \* targets[c]: sessions the dispatch of c has yet to confirm
  \* History, read by the properties only:
  crossed,        \* the last override call overlapped another
  disturbed,      \* clients whose sequence had grid or berths changed by others
  putBack         \* berths such a sequence put back to "allocating"

controlVars == <<override, mode, targets, crossed>>
historyVars == <<disturbed, putBack>>
switchVars == <<connectVars, controlVars, historyVars>>

ControlOps == {"override", "dispatch", "switch"}

Override == [active : BOOLEAN, vessel : Vessel \cup {None}]

ControlMode == {"auto", "manual"}

\* An override without a vessel is for every vessel.
ActiveFor(o, v) == o.active /\ o.vessel \in {None, v}

connectorUnchanged == UNCHANGED <<connectorVars, meter>>

---------------------------------------------------------------------------
(* SetLocalOverride: the override under c.mu, then the mode under g.mu.    *)

HandleOverride(c, o) ==
  /\ Start(c, "override", "mode")
  /\ o.active \/ o.vessel = None
  /\ req' = [req EXCEPT ![c] = [op |-> "override", active |-> o.active]]
  /\ override' = o
  /\ crossed' = \E d \in Client \ {c} : pc[d] = "mode"
  /\ othersUnchanged
  /\ connectorUnchanged
  /\ UNCHANGED <<storeVars, allocVars, gridVars, mode, targets>>

\* Wrong on purpose: the end of an override leaves the mode alone.
SetControlModeManual(c) ==
  /\ pc[c] = "mode"
  /\ Give(c)
  /\ mode' = IF req[c].active THEN "manual" ELSE mode
  /\ connectorUnchanged
  /\ UNCHANGED <<storeVars, allocVars, gridVars, override, targets, crossed>>

SetControlMode(c) ==
  /\ pc[c] = "mode"
  /\ Give(c)
  /\ mode' = IF req[c].active THEN "manual" ELSE "auto"
  /\ connectorUnchanged
  /\ UNCHANGED <<storeVars, allocVars, gridVars, override, targets, crossed>>

---------------------------------------------------------------------------
(* AutoDispatch: the sessions that are verifying and not under the         *)
(* override, listed once; then ConfirmVerification of each, in any order.  *)
(* The grid's own AutoDispatch that follows finds an empty queue.          *)

Dispatchable == {s \in DOMAIN sessions :
                   /\ sessions[s].state = "verifying"
                   /\ ~ActiveFor(override, sessions[s].vessel)}

HandleDispatch(c) ==
  /\ Dispatchable # {}
  /\ Start(c, "dispatch", "ready")
  /\ targets' = [targets EXCEPT ![c] = Dispatchable]
  /\ othersUnchanged
  /\ connectorUnchanged
  /\ UNCHANGED <<req, storeVars, allocVars, gridVars, override, mode, crossed>>

\* Wrong on purpose: what became of the session since is not looked at.
DispatchNextBlind(c, s) ==
  /\ pc[c] = "ready" /\ s \in targets[c]
  /\ targets' = [targets EXCEPT ![c] = @ \ {s}]
  /\ sessions' = [sessions EXCEPT ![s].state = "connecting",
                                  ![s].progress = @ + 2]
  /\ Goto(c, "phase")
  /\ req' = [req EXCEPT ![c] = [op |-> "confirm", session |-> s]]
  /\ UNCHANGED <<todo, live, count, last, issued, pending, closed, meter,
                 storeVars, allocVars, gridVars, override, mode, crossed>>

\* Wrong on purpose: the first session that is refused ends the loop.
DispatchNextGivesUp(c, s) ==
  /\ pc[c] = "ready" /\ s \in targets[c]
  /\ \/ /\ Take(s)
        /\ targets' = [targets EXCEPT ![c] = @ \ {s}]
        /\ Goto(c, "phase")
        /\ req' = [req EXCEPT ![c] = [op |-> "confirm", session |-> s]]
     \/ /\ sessions[s].state # "verifying"
        /\ targets' = [targets EXCEPT ![c] = {}]
        /\ UNCHANGED <<pc, req, sessions>>
  /\ UNCHANGED <<todo, live, count, last, issued, pending, closed, meter,
                 storeVars, allocVars, gridVars, override, mode, crossed>>

\* The next session of the list: its confirmation begins, or is refused if
\* the session is no longer verifying.
DispatchNext(c, s) ==
  /\ pc[c] = "ready" /\ s \in targets[c]
  /\ targets' = [targets EXCEPT ![c] = @ \ {s}]
  /\ \/ /\ Take(s)
        /\ Goto(c, "phase")
        /\ req' = [req EXCEPT ![c] = [op |-> "confirm", session |-> s]]
     \/ sessions[s].state # "verifying" /\ UNCHANGED <<pc, req, sessions>>
  /\ UNCHANGED <<todo, live, count, last, issued, pending, closed, meter,
                 storeVars, allocVars, gridVars, override, mode, crossed>>

---------------------------------------------------------------------------
(* ApplySequence.  On: syncing, settle the berth, close the breaker.  Off: *)
(* open the breaker, free the berth, off.  A berth id that is not in the   *)
(* table is None; the vessel is only looked at on the way on, at a berth   *)
(* of the table.  The field found is history: the berth as it was when the *)
(* sequence began.                                                         *)

Sequence == [op : {"switch"}, on : BOOLEAN, berth : Berth \cup {None},
             vessel : Vessel \cup {None}, previous : GridState,
             before : BerthRecord \cup {None},
             found : BerthRecord \cup {None}]

SwitchSteps == {"set syncing", "unload", "copy", "set berth", "shut",
                "set off", "restore", "restore grid"}

HandleSwitch(c, on, b, v) ==
  /\ Start(c, "switch", IF on THEN "set syncing" ELSE "unload")
  /\ MaySwitch
  /\ (on /\ b # None) \/ v = None
  /\ req' = [req EXCEPT ![c] =
       [op |-> "switch", on |-> on, berth |-> b, vessel |-> v,
        previous |-> grid, before |-> None,
        found |-> IF b = None THEN None ELSE berths[b]]]
  /\ othersUnchanged
  /\ UNCHANGED <<storeVars, allocVars, gridVars>>

SwitchSetSyncing(c) ==
  /\ pc[c] = "set syncing"
  /\ Move(c, "copy")
  /\ SetGridState("syncing")
  /\ UNCHANGED <<storeVars, allocVars>>

SwitchUnload(c) ==
  /\ pc[c] = "unload"
  /\ Move(c, "copy")
  /\ OpenBreaker
  /\ UNCHANGED <<storeVars, allocVars>>

SwitchCopy(c) ==
  LET b == req[c].berth IN
  /\ pc[c] = "copy"
  /\ \/ b = None /\ Goto(c, "restore grid") /\ UNCHANGED req
     \/ /\ b # None
        /\ Goto(c, "set berth")
        /\ req' = [req EXCEPT ![c].before = berths[b]]
  /\ UNCHANGED <<todo, live, count, last, issued, storeVars, allocVars,
                 gridVars>>

SwitchSetBerth(c) ==
  LET r == req[c] IN
  /\ pc[c] = "set berth"
  /\ \/ /\ r.on /\ MayOccupy(r.berth, r.vessel)
        /\ Move(c, "shut")
        /\ MarkOccupied(r.berth, r.vessel)
     \/ /\ r.on /\ ~MayOccupy(r.berth, r.vessel)
        /\ Move(c, "restore")
        /\ UNCHANGED storeVars
     \/ ~r.on /\ Move(c, "set off") /\ MarkIdle(r.berth)
  /\ UNCHANGED <<allocVars, gridVars>>

\* The grid stays "syncing": no step of a sequence puts it on-grid.
SwitchShut(c) ==
  /\ pc[c] = "shut"
  /\ \/ Give(c) /\ CloseBreaker
     \/ BreakerFaults /\ Move(c, "restore") /\ UNCHANGED gridVars
  /\ UNCHANGED <<storeVars, allocVars>>

\* The phase check of before stays valid.
SwitchSetOff(c) ==
  /\ pc[c] = "set off"
  /\ Give(c)
  /\ SetGridState("off")
  /\ UNCHANGED <<storeVars, allocVars>>

SwitchRestore(c) ==
  /\ pc[c] = "restore"
  /\ Move(c, "restore grid")
  /\ RestoreOne(req[c].berth, req[c].before)
  /\ UNCHANGED <<allocVars, gridVars>>

SwitchRestoreGrid(c) ==
  /\ pc[c] = "restore grid"
  /\ Give(c)
  /\ SetGridState(req[c].previous)
  /\ UNCHANGED <<storeVars, allocVars>>

---------------------------------------------------------------------------

SwitchInit ==
  /\ ConnectInit
  /\ override = [active |-> FALSE, vessel |-> None]
  /\ mode = "auto"
  /\ targets = [c \in Client |-> {}]
  /\ crossed = FALSE
  /\ disturbed = {}
  /\ putBack = {}

ControlStep(c) ==
  \/ \E o \in Override : HandleOverride(c, o)
  \/ SetControlMode(c)
  \/ HandleDispatch(c)

SequenceStep(c) ==
  /\ \/ \E on \in BOOLEAN, b \in Berth \cup {None}, v \in Vessel \cup {None} :
          HandleSwitch(c, on, b, v)
     \/ SwitchSetSyncing(c)
     \/ SwitchUnload(c)
     \/ SwitchCopy(c)
     \/ SwitchSetBerth(c)
     \/ SwitchShut(c)
     \/ SwitchSetOff(c)
     \/ SwitchRestore(c)
     \/ SwitchRestoreGrid(c)
  /\ connectorUnchanged
  /\ UNCHANGED controlVars

\* The steps of the modules below.
LowerStep(c) ==
  /\ \/ SessionStep(c)
     \/ CapacityStep(c) /\ connectorUnchanged /\ UNCHANGED gridVars
  /\ UNCHANGED controlVars

\* A client whose dispatch has sessions left is not free to serve another
\* request.
ClientStep(c) ==
  \/ /\ pc[c] # "ready" \/ targets[c] = {}
     /\ ControlStep(c) \/ SequenceStep(c) \/ LowerStep(c)
  \/ \E s \in targets[c] : DispatchNext(c, s)

\* The step of client p disturbs the sequences of the others if it changes
\* what they work on; a new sequence starts undisturbed.
Disturb(p) ==
  disturbed' =
    {c \in Client :
       /\ pc'[c] \in SwitchSteps
       /\ \/ c \in disturbed
          \/ c # p /\ (grid' # grid \/ berths' # berths)}

\* A sequence holds a copy of berth b from when it was allocating.
CopiedAllocating(b) ==
  \E c \in Client :
    /\ pc[c] \in {"set berth", "shut", "restore"}
    /\ req[c].berth = b /\ req[c].before.state = "allocating"

\* A berth stays in putBack while it is allocating, or may become so again
\* because a sequence has copied it.
PutBack(p) ==
  putBack' =
    {b \in Berth :
       \/ /\ b \in putBack
          /\ berths'[b].state = "allocating" \/ CopiedAllocating(b)'
       \/ /\ SwitchRestore(p) /\ p \in disturbed /\ req[p].berth = b
          /\ berths'[b].state = "allocating"}

History(p) == Disturb(p) /\ PutBack(p)

SwitchNext ==
  \/ \E c \in Client : ClientStep(c) /\ History(c)
  \/ ReconcileStep /\ connectorUnchanged
       /\ UNCHANGED <<gridVars, controlVars, historyVars>>

SwitchSpec == SwitchInit /\ [][SwitchNext]_switchVars

---------------------------------------------------------------------------
(* Fairness: as in Connect, a handler that has begun takes its next step,  *)
(* and a dispatch goes on to the end of its list.                          *)

SequenceProgress(c) == SequenceStep(c) /\ pc[c] # "ready"

LowerProgress(c) ==
  SessionProgress(c) \/ (CapacityProgress(c) /\ connectorUnchanged)

ClientProgress(c) ==
  /\ \/ SetControlMode(c)
     \/ \E s \in targets[c] : DispatchNext(c, s)
     \/ SequenceProgress(c)
     \/ LowerProgress(c) /\ UNCHANGED controlVars
  /\ History(c)

SwitchFairSpec ==
  /\ SwitchSpec
  /\ \A c \in Client : WF_switchVars(ClientProgress(c))

---------------------------------------------------------------------------
(* Properties.                                                             *)

OverrideRequest == [op : {"override"}, active : BOOLEAN]

\* Every variable of the control room keeps its type, and the ones it shares
\* with the connector keep theirs (override.go:10-14, sequence.go:18-29).
SwitchTypeOK ==
  /\ GridTypeOK
  /\ ConnectorTypeOK
  /\ override \in Override
  /\ mode \in ControlMode
  /\ targets \in [Client -> SUBSET DOMAIN sessions]
  /\ crossed \in BOOLEAN
  /\ disturbed \subseteq {c \in Client : pc[c] \in SwitchSteps}
  /\ putBack \subseteq Berth
  /\ pc \in [Process -> Step \cup ConnectStep \cup SwitchSteps \cup {"mode"}]
  /\ req \in [Client -> Request \cup ApplyRequest \cup SessionRequest
                          \cup Sequence \cup OverrideRequest \cup {None}]

\* Unless two override calls overlapped, the control mode the console shows
\* is manual exactly while an override is in force, once the call that
\* changed it has returned (override.go:23-32, dispatch.go:63-68).
ModeFollowsOverride ==
  (~crossed /\ \A c \in Client : pc[c] # "mode")
    => (mode = "manual" <=> override.active)

\* A berth that is allocating has somebody to answer for it; otherwise it
\* would be blocked for good.  The one exception is a berth that a failed
\* sequence put back after its session had ended meanwhile
\* (connect.go:123-143, 273-276, sequence.go:94-98).
AllocatingOwned ==
  \A b \in InState("allocating") : Owned(b) \/ b \in putBack

\* A sequence that fails while nobody else touches the grid or a berth
\* leaves the state of the grid, the berth and what the cache says of it as
\* it found them, whichever step failed (sequence.go:43-89, 93-102,
\* snapshot.go:60-71).
SequenceUndone ==
  [][\A c \in Client :
       (SwitchRestoreGrid(c) /\ c \notin disturbed) =>
         LET r == req[c] IN
         /\ grid' = r.previous
         /\ r.berth # None =>
              /\ berths[r.berth] = r.found
              /\ CachedState(r.berth) = r.found.state]_switchVars

\* A session that a confirmation took on, or that is on the list of a
\* dispatch, does not stay open: the confirmation comes to an end, and the
\* loop gets to every session, whatever happened to those before it
\* (connect.go:163, 187, 260, override.go:51-55).
TakenOnEnds ==
  \A s \in 1 .. MaxRequests - 1 :
    (/\ s \in DOMAIN sessions
     /\ \/ sessions[s].state = "connecting"
        \/ \E c \in Client : s \in targets[c])
      ~> (s \in DOMAIN sessions /\ ~Open(s))

=============================================================================
