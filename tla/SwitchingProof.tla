--------------------------- MODULE SwitchingProof --------------------------
(***************************************************************************)
(* Proofs about Switching, and with it about Connect, for any number of    *)
(* berths, vessels, goroutines, sessions and requests: what the steps may  *)
(* do, the types, and the channels the waiters wait for.  The other        *)
(* properties of these modules are proved from this in                     *)
(* SwitchingSafetyProof.                                                   *)
(*                                                                         *)
(* There are some sixty actions, so they are gone through as few times as  *)
(* possible.  NextSession says what the step of a goroutine may do to its  *)
(* own place in its handler and to the sessions: it leaves them alone,     *)
(* registers one, takes one on, ends one, connects one or closes a         *)
(* channel.  The invariants about sessions are proved from these six       *)
(* cases.  NextStoreOf, NextMeter, NextGrid and NextControl do the same    *)
(* for the berth store, the meter, the grid controller and the control     *)
(* room.                                                                   *)
(***************************************************************************)
EXTENDS Switching, CapacityProof

---------------------------------------------------------------------------
(* What a goroutine carries from step to step.                             *)

GrantSteps == {"refresh", "drop", "cached", "grant", "granted"}

DepartSteps == {"settle", "mark", "release", "free"}

ApplySteps == {"undo", "register"}

Latching == {"announce", "unlatch"}

SessionSteps == ConfirmSteps \cup Latching \cup
  {"reset", "unallocate", "waiting", "timeout"}

CopySteps == {"set berth", "shut", "set off", "restore"}

AllSteps == Step \cup ConnectStep \cup SwitchSteps \cup {"mode"}

AllRequests == Request \cup ApplyRequest \cup SessionRequest
                 \cup Sequence \cup OverrideRequest \cup {None}

\* A berth and a demand that CheckReady let pass, for an occupation or an
\* application.
GrantRequest ==
  {r \in OccupyRequest : r.op = "occupy"} \cup
  {r \in ApplyRequest : r.kva > 0 /\ r.kva <= CapacityKVA[r.berth]}

\* Request r is one that a goroutine at step `to` can be serving.
Suits(to, r) ==
  /\ to \in GrantSteps => r \in GrantRequest
  /\ to \in DepartSteps => r \in Request /\ r.vessel \in Vessel
  /\ to \in ApplySteps => r \in ApplyRequest
  /\ to \in SessionSteps => r \in SessionRequest
  /\ to \in SwitchSteps => r \in Sequence
  /\ to \in CopySteps => r.berth \in Berth \ {None} /\ r.before \in BerthRecord
  /\ to = "mode" => r \in OverrideRequest

ProcTypes ==
  /\ pc \in [Process -> AllSteps]
  /\ req \in [Client -> AllRequests]
  /\ \A c \in Client : Suits(pc[c], req[c])

\* No session is confirmed by two goroutines.
ConfirmedOnce ==
  \A c \in Client :
    pc[c] \in ConfirmSteps =>
      /\ Serving(c).progress = 3
      /\ \A d \in Client \ {c} :
           pc[d] \in ConfirmSteps => req[d].session # req[c].session

\* A session still verifying has made one step; one that a goroutine is
\* confirming has made three, and no other goroutine is confirming it.
SessionOK ==
  /\ \A s \in DOMAIN sessions :
       sessions[s].state = "verifying" => sessions[s].progress = 1
  /\ ConfirmedOnce

SessionTypes ==
  /\ sessions \in Seq(Session)
  /\ pending \subseteq DOMAIN sessions
  /\ closed \subseteq DOMAIN sessions
  /\ SessionOK
  /\ ProcTypes

---------------------------------------------------------------------------
(* What a step may do to the sessions.                                     *)

\* Client c goes to step `to` with request r; the other goroutines stay.
Goes(c, to, r) ==
  /\ pc' = [pc EXCEPT ![c] = to]
  /\ req' = [req EXCEPT ![c] = r]

\* The places a client does not leave without doing what it came for.
AtWork ==
  ConfirmSteps \cup {"register", "announce", "unlatch", "reset", "mode"}

\* What the step of client c does besides, where its place in the handler
\* says so: a reset frees the berth of the session, an override sets the
\* mode, nobody comes to the meter, or past it, or past the breaker,
\* without having done the step that leads there, and nobody drops a
\* confirmation half way.
OwnWork(c, to) ==
  LET s == Serving(c) IN
  /\ pc[c] \notin {"register", "announce", "unlatch"}
  /\ pc[c] \in ConfirmSteps => to \in ConfirmSteps
  /\ pc[c] = "reset" => MarkIdle(s.berth)
  /\ pc[c] = "mode" => SetControlMode(c)
  /\ to = "mode" => \E o \in Override : HandleOverride(c, o)
  /\ to = "berth" => pc[c] = "on" /\ executions' = executions + 1
  /\ to = "meter" => /\ pc[c] = "berth"
                     /\ MayOccupy(s.berth, s.vessel)
                     /\ MarkOccupied(s.berth, s.vessel)
  /\ to = "connected" => /\ pc[c] = "meter"
                         /\ meter[s.vessel] = "not_metering"
                         /\ meter' = [meter EXCEPT ![s.vessel] = "metering"]

LeavesAlone(c, to, r) ==
  /\ UNCHANGED connectorVars
  /\ OwnWork(c, to)
  /\ to \in ConfirmSteps => pc[c] \in ConfirmSteps /\ r = req[c]
  /\ to \notin Latching

Registers(c, to, r) ==
  /\ pc[c] = "register"
  /\ to = "ready"
  /\ \E x \in Session :
       /\ x.berth = req[c].berth
       /\ x.state = "verifying" /\ x.progress = 1
       /\ sessions' = Append(sessions, x)
  /\ pending' = pending \cup {Len(sessions) + 1}
  /\ closed' = closed

TakesOn(c, to, r) ==
  /\ pc[c] = "ready"
  /\ to = "phase"
  /\ r \in SessionRequest
  /\ Take(r.session)
  /\ UNCHANGED <<pending, closed>>

Ends(c, to, r) ==
  /\ pc[c] \in {"ready", "fail", "timeout"}
  /\ pc[c] = "fail" => r = req[c]
  /\ r \in SessionRequest
  /\ to = IF r.session \in pending THEN "unlatch" ELSE "reset"
  /\ \E state \in {"failed", "cancelled", "idle"} :
       SetState(r.session, state)
  /\ pending' = pending \ {r.session}
  /\ closed' = closed

Connects(c, to, r) ==
  LET s == req[c].session IN
  /\ pc[c] = "connected"
  /\ sessions' = [sessions EXCEPT ![s].state = "connected",
                                  ![s].progress = @ + 1]
  /\ pending' = pending \ {s}
  /\ closed' = closed
  /\ \/ s \in pending /\ to = "announce" /\ r = req[c]
     \/ s \notin pending /\ to = "ready"

Closes(c, to, r) ==
  /\ \/ pc[c] = "unlatch" /\ to = "reset" /\ r = req[c]
     \/ pc[c] = "announce" /\ to = "ready"
  /\ closed' = closed \cup {req[c].session}
  /\ UNCHANGED <<sessions, pending>>

SessionEffect(c, to, r) ==
  \/ LeavesAlone(c, to, r)
  \/ Registers(c, to, r)
  \/ TakesOn(c, to, r)
  \/ Ends(c, to, r)
  \/ Connects(c, to, r)
  \/ Closes(c, to, r)

ClientEffect(c) ==
  \E to \in AllSteps, r \in AllRequests :
    Goes(c, to, r) /\ Suits(to, r) /\ SessionEffect(c, to, r)

LEMMA NoOwnWork ==
  ASSUME NEW c, NEW to, pc[c] \notin AtWork,
         to \notin {"berth", "meter", "connected", "mode"}
  PROVE  OwnWork(c, to)
BY DEF OwnWork, AtWork

\* A client that only moves along, to a step its request suits.
LEMMA MoveEffect ==
  ASSUME ProcTypes, NEW c \in Client, NEW to \in AllSteps, Move(c, to),
         UNCHANGED connectorVars, Suits(to, req[c]), OwnWork(c, to),
         to \in ConfirmSteps => pc[c] \in ConfirmSteps, to \notin Latching
  PROVE  ClientEffect(c)
<1>1. /\ req[c] \in AllRequests
      /\ req' = [req EXCEPT ![c] = req[c]]
      /\ pc' = [pc EXCEPT ![c] = to]
  BY DEF ProcTypes, Move, Goto
<1>2. SessionEffect(c, to, req[c])
  BY DEF SessionEffect, LeavesAlone
<1> QED
  BY <1>1, <1>2 DEF ClientEffect, Goes

\* A client that answers its request.
LEMMA GiveEffect ==
  ASSUME ProcTypes, NEW c \in Client, Give(c), UNCHANGED connectorVars,
         pc[c] \notin AtWork
  PROVE  ClientEffect(c)
<1>1. /\ req' = [req EXCEPT ![c] = None]
      /\ pc' = [pc EXCEPT ![c] = "ready"]
      /\ None \in AllRequests /\ "ready" \in AllSteps
  BY DEF Give, Finish, Goto, AllRequests, AllSteps, Step
<1>2. Suits("ready", None)
  BY DEF Suits, GrantSteps, DepartSteps, ApplySteps, SessionSteps, Latching,
         ConfirmSteps, SwitchSteps, CopySteps
<1>3. SessionEffect(c, "ready", None)
  BY NoOwnWork DEF SessionEffect, LeavesAlone, ConfirmSteps, Latching, AtWork
<1> QED
  BY <1>1, <1>2, <1>3 DEF ClientEffect, Goes

\* A client that takes up a request.
LEMMA StartEffect ==
  ASSUME ProcTypes, NEW c \in Client, NEW to \in AllSteps,
         NEW r \in AllRequests, Goes(c, to, r), UNCHANGED connectorVars,
         Suits(to, r), to \notin ConfirmSteps \cup Latching, to # "mode",
         pc[c] \notin AtWork
  PROVE  ClientEffect(c)
<1>1. SessionEffect(c, to, r)
  BY NoOwnWork DEF SessionEffect, LeavesAlone, ConfirmSteps, AtWork
<1> QED
  BY <1>1 DEF ClientEffect

\* A client that takes up a request it keeps nothing of.
LEMMA StartBareEffect ==
  ASSUME ProcTypes, NEW c \in Client,
         NEW to \in {"ready", "open", "off", "list", "occupants", "sync",
                     "syncing"},
         pc' = [pc EXCEPT ![c] = to], req' = req, UNCHANGED connectorVars,
         pc[c] \notin AtWork
  PROVE  ClientEffect(c)
<1>1. /\ req[c] \in AllRequests
      /\ req' = [req EXCEPT ![c] = req[c]]
      /\ to \in AllSteps
  BY DEF ProcTypes, AllSteps, Step, ConnectStep
<1>2. /\ Suits(to, req[c])
      /\ to \notin ConfirmSteps \cup Latching
  BY DEF Suits, GrantSteps, DepartSteps, ApplySteps, SessionSteps, Latching,
         ConfirmSteps, SwitchSteps, CopySteps
<1> QED
  BY <1>1, <1>2, StartEffect DEF Goes, AtWork, ConfirmSteps

\* Occupation, and the Allocate that applications share with it.
LEMMA OccupyEffect ==
  ASSUME ProcTypes, NEW c \in Client, OccupyStep(c), UNCHANGED connectorVars
  PROVE  ClientEffect(c)
<1>1. ASSUME NEW b \in Berth, NEW v \in Vessel \cup {None},
             NEW need \in Demand, HandleOccupy(c, b, v, need)
      PROVE  ClientEffect(c)
  <2> DEFINE r == [op |-> "occupy", berth |-> b, vessel |-> v, kva |-> need]
  <2>1. /\ pc' = [pc EXCEPT ![c] = "refresh"]
        /\ req' = [req EXCEPT ![c] = r]
        /\ need > 0 /\ need <= CapacityKVA[b]
        /\ pc[c] = "ready"
    BY <1>1 DEF HandleOccupy, Start, Goto, CheckReady
  <2>2. r \in Request /\ r.op = "occupy" /\ r.kva = need /\ r.berth = b
    BY CapacityAssumption DEF Request
  <2>3. r \in AllRequests /\ r \in GrantRequest
    BY <2>1, <2>2 DEF AllRequests, GrantRequest, OccupyRequest
  <2>4. /\ Suits("refresh", r) /\ "refresh" \in AllSteps
        /\ "refresh" \notin ConfirmSteps \cup Latching
    BY <2>3 DEF Suits, DepartSteps, ApplySteps, SessionSteps, SwitchSteps,
                CopySteps, Latching, ConfirmSteps, AllSteps, Step
  <2> HIDE DEF r
  <2> QED
    BY <2>1, <2>3, <2>4, StartEffect DEF Goes, AtWork, ConfirmSteps
<1>2. ASSUME NEW to \in {"drop", "cached", "grant", "granted"},
             Move(c, to), pc[c] \in GrantSteps
      PROVE  ClientEffect(c)
  <2>1. Suits(pc[c], req[c])
    BY DEF ProcTypes
  <2>2. /\ Suits(to, req[c]) /\ to \in AllSteps
        /\ to \notin ConfirmSteps \cup Latching
    BY <1>2, <2>1
       DEF Suits, GrantSteps, DepartSteps, ApplySteps, SessionSteps,
           SwitchSteps, CopySteps, Latching, ConfirmSteps, AllSteps, Step
  <2>3. OwnWork(c, to)
    BY <1>2, NoOwnWork DEF GrantSteps, DepartSteps, AtWork, ConfirmSteps
  <2> QED
    BY <1>2, <2>2, <2>3, MoveEffect
<1>3. CASE AllocateRefresh(c)
  BY <1>2, <1>3 DEF AllocateRefresh, GrantSteps
<1>4. CASE AllocateDrop(c)
  BY <1>2, <1>4 DEF AllocateDrop, GrantSteps
<1>5. CASE AllocateCached(c)
  BY <1>2, <1>5, GiveEffect DEF AllocateCached, GrantSteps,
       AtWork, ConfirmSteps
<1>6. CASE AllocateGrant(c)
  BY <1>2, <1>6, GiveEffect DEF AllocateGrant, GrantSteps, AtWork, ConfirmSteps
<1>7. CASE OccupyMark(c)
  BY <1>7, GiveEffect DEF OccupyMark, AtWork, ConfirmSteps
<1> QED
  BY <1>1, <1>3, <1>4, <1>5, <1>6, <1>7 DEF OccupyStep

\* Departure.
LEMMA DepartEffect ==
  ASSUME ProcTypes, NEW c \in Client, UNCHANGED connectorVars,
         berths \in [Berth -> BerthRecord],
         \/ \E b \in Berth : HandleDepart(c, b)
         \/ DepartMark(c) \/ DepartRelease(c) \/ DepartIdle(c)
         \/ DepartBill(c)
  PROVE  ClientEffect(c)
<1>1. ASSUME NEW b \in Berth, HandleDepart(c, b)
      PROVE  ClientEffect(c)
  <2> DEFINE r == [op |-> "depart", berth |-> b, vessel |-> OccupiedBy(b),
                   kva |-> 0]
  <2>1. /\ pc' = [pc EXCEPT ![c] = "settle"]
        /\ req' = [req EXCEPT ![c] = r]
        /\ pc[c] = "ready" /\ OccupiedBy(b) # None
    BY <1>1 DEF HandleDepart, Start, Goto
  <2>2. r \in Request /\ r.vessel = OccupiedBy(b)
    BY DEF Request, OccupiedBy, BerthRecord
  <2>3. /\ Suits("settle", r) /\ "settle" \in AllSteps /\ r \in AllRequests
        /\ "settle" \notin ConfirmSteps \cup Latching
    BY <2>1, <2>2
       DEF Request, Suits, GrantSteps, ApplySteps, SessionSteps, SwitchSteps,
           CopySteps, Latching, ConfirmSteps, AllSteps, Step, AllRequests
  <2> HIDE DEF r
  <2> QED
    BY <2>1, <2>3, StartEffect DEF Goes, AtWork, ConfirmSteps
<1>2. ASSUME NEW to \in {"mark", "release", "free"},
             Move(c, to), pc[c] \in DepartSteps
      PROVE  ClientEffect(c)
  <2>1. Suits(pc[c], req[c])
    BY DEF ProcTypes
  <2>2. /\ Suits(to, req[c]) /\ to \in AllSteps
        /\ to \notin ConfirmSteps \cup Latching
    BY <1>2, <2>1
       DEF Suits, GrantSteps, DepartSteps, ApplySteps, SessionSteps,
           SwitchSteps, CopySteps, Latching, ConfirmSteps, AllSteps, Step
  <2>3. OwnWork(c, to)
    BY <1>2, NoOwnWork DEF GrantSteps, DepartSteps, AtWork, ConfirmSteps
  <2> QED
    BY <1>2, <2>2, <2>3, MoveEffect
<1>3. CASE DepartMark(c)
  BY <1>2, <1>3, GiveEffect DEF DepartMark, DepartSteps, AtWork, ConfirmSteps
<1>4. CASE DepartRelease(c)
  BY <1>2, <1>4, GiveEffect DEF DepartRelease, DepartSteps,
       AtWork, ConfirmSteps
<1>5. CASE DepartIdle(c)
  BY <1>5, GiveEffect DEF DepartIdle, AtWork, ConfirmSteps
<1>6. CASE DepartBill(c)
  BY <1>2, <1>6, GiveEffect DEF DepartBill, DepartSteps, AtWork, ConfirmSteps
<1> QED
  BY <1>1, <1>3, <1>4, <1>5, <1>6

\* Recovery keeps nothing in the request.
LEMMA RebuildEffect ==
  ASSUME ProcTypes, NEW c \in Client, RebuildStep(c),
         UNCHANGED connectorVars
  PROVE  ClientEffect(c)
<1>1. CASE HandleRebuild(c)
  BY <1>1, StartBareEffect DEF HandleRebuild, Start, Goto, AtWork, ConfirmSteps
<1>2. CASE RebuildList(c) \/ RebuildStore(c) \/ RebuildSync(c)
  BY <1>2, StartBareEffect DEF RebuildList, RebuildStore, RebuildSync, Goto,
       AtWork, ConfirmSteps
<1>3. CASE RebuildDone(c)
  BY <1>3, GiveEffect DEF RebuildDone, AtWork, ConfirmSteps
<1>4. ASSUME NEW b \in Berth, RebuildOccupant(c, b) \/ SyncRelease(c, b)
      PROVE  ClientEffect(c)
  <2>1. /\ pc[c] \in {"occupants", "syncing"}
        /\ pc' = pc /\ req' = req
    BY <1>4 DEF RebuildOccupant, SyncRelease
  <2>2. PICK to \in {"occupants", "syncing"} : pc[c] = to
    BY <2>1
  <2>3. pc' = [pc EXCEPT ![c] = to]
    BY <2>1, <2>2 DEF ProcTypes, Process
  <2> QED
    BY <2>1, <2>3, StartBareEffect DEF AtWork, ConfirmSteps
<1> QED
  BY <1>1, <1>2, <1>3, <1>4 DEF RebuildStep

\* Apply, after Allocate.
LEMMA ApplyEffect ==
  ASSUME ProcTypes, NEW c \in Client, ApplyStep(c)
  PROVE  ClientEffect(c)
<1>1. ASSUME NEW b \in Berth, NEW v \in Vessel, NEW need \in Demand,
             NEW id \in RequestId, NEW ok \in BOOLEAN,
             HandleApply(c, b, v, need, id, ok)
      PROVE  ClientEffect(c)
  <2> DEFINE r == [op |-> "apply", berth |-> b, vessel |-> v, kva |-> need,
                   request |-> id, matching |-> ok]
  <2>1. /\ pc' = [pc EXCEPT ![c] = "refresh"]
        /\ req' = [req EXCEPT ![c] = r]
        /\ need > 0 /\ need <= CapacityKVA[b]
        /\ pc[c] = "ready"
        /\ UNCHANGED connectorVars
    BY <1>1 DEF HandleApply, Start, Goto, CheckReady
  <2>2. r \in ApplyRequest /\ r.kva = need /\ r.berth = b
    BY CapacityAssumption DEF ApplyRequest
  <2>3. r \in AllRequests /\ r \in GrantRequest
    BY <2>1, <2>2 DEF AllRequests, GrantRequest
  <2>4. /\ Suits("refresh", r) /\ "refresh" \in AllSteps
        /\ "refresh" \notin ConfirmSteps \cup Latching
    BY <2>3 DEF Suits, DepartSteps, ApplySteps, SessionSteps, SwitchSteps,
                CopySteps, Latching, ConfirmSteps, AllSteps, Step
  <2> HIDE DEF r
  <2> QED
    BY <2>1, <2>3, <2>4, StartEffect DEF Goes, AtWork, ConfirmSteps
<1>2. CASE ApplyMark(c)
  <2>1. /\ pc[c] = "granted" /\ req[c].op = "apply"
        /\ UNCHANGED connectorVars
        /\ Move(c, "register") \/ Move(c, "undo")
    BY <1>2 DEF ApplyMark
  <2>2. req[c] \in GrantRequest
    BY <2>1 DEF ProcTypes, Suits, GrantSteps
  <2>3. req[c] \in ApplyRequest
    BY <2>1, <2>2 DEF GrantRequest
  <2>4. ASSUME NEW to \in {"register", "undo"}, Move(c, to)
        PROVE  ClientEffect(c)
    <3>1. /\ Suits(to, req[c]) /\ to \in AllSteps
          /\ to \notin ConfirmSteps \cup Latching
      BY <2>3 DEF Suits, GrantSteps, DepartSteps, ApplySteps, SessionSteps,
                  SwitchSteps, CopySteps, Latching, ConfirmSteps, AllSteps,
                  ConnectStep
    <3>2. OwnWork(c, to)
      BY <2>1, NoOwnWork DEF AtWork, ConfirmSteps
    <3> QED
      BY <2>1, <2>4, <3>1, <3>2, MoveEffect
  <2> QED
    BY <2>1, <2>4
<1>3. CASE ApplyUndo(c)
  BY <1>3, GiveEffect DEF ApplyUndo, AtWork, ConfirmSteps
<1>4. CASE ApplyRegister(c)
  <2>1. /\ pc[c] = "register"
        /\ pc' = [pc EXCEPT ![c] = "ready"]
        /\ req' = [req EXCEPT ![c] = None]
    BY <1>4 DEF ApplyRegister, Give, Finish, Goto
  <2>2. req[c] \in ApplyRequest
    BY <2>1 DEF ProcTypes, Suits, ApplySteps
  <2> DEFINE q == req[c]
             x == [vessel |-> q.vessel, berth |-> q.berth,
                   request |-> q.request, matching |-> q.matching,
                   state |-> "verifying", progress |-> 1]
  <2>3. /\ x \in Session /\ x.berth = q.berth
        /\ x.state = "verifying" /\ x.progress = 1
    BY <2>2 DEF ApplyRequest, Session, SessionState
  <2>4. /\ sessions' = Append(sessions, x)
        /\ pending' = pending \cup {Len(sessions) + 1}
        /\ closed' = closed
    BY <1>4 DEF ApplyRegister
  <2> HIDE DEF x
  <2>5. SessionEffect(c, "ready", None)
    BY <2>1, <2>3, <2>4 DEF SessionEffect, Registers
  <2>6. /\ Suits("ready", None)
        /\ "ready" \in AllSteps /\ None \in AllRequests
    BY DEF Suits, GrantSteps, DepartSteps, ApplySteps, SessionSteps,
           Latching, ConfirmSteps, SwitchSteps, CopySteps, AllSteps, Step,
           AllRequests
  <2> QED
    BY <2>1, <2>5, <2>6 DEF ClientEffect, Goes
<1> QED
  BY <1>1, <1>2, <1>3, <1>4 DEF ApplyStep

\* A client that moves along while it serves a session.
LEMMA ServeEffect ==
  ASSUME ProcTypes, NEW c \in Client, UNCHANGED connectorVars,
         NEW to \in SessionSteps \ Latching, Move(c, to),
         pc[c] \in SessionSteps, OwnWork(c, to),
         to \in ConfirmSteps => pc[c] \in ConfirmSteps
  PROVE  ClientEffect(c)
<1>1. req[c] \in SessionRequest
  BY DEF ProcTypes, Suits
<1>2. Suits(to, req[c]) /\ to \in AllSteps
  BY <1>1 DEF Suits, GrantSteps, DepartSteps, ApplySteps, SessionSteps,
              SwitchSteps, CopySteps, Latching, ConfirmSteps, AllSteps,
              ConnectStep
<1> QED
  BY <1>2, MoveEffect

\* The step that takes a session on.
LEMMA TakeEffect ==
  ASSUME ProcTypes, NEW c \in Client, NEW s \in DOMAIN sessions, Take(s),
         UNCHANGED <<pending, closed>>, pc[c] = "ready",
         pc' = [pc EXCEPT ![c] = "phase"],
         req' = [req EXCEPT ![c] = [op |-> "confirm", session |-> s]]
  PROVE  ClientEffect(c)
<1> DEFINE r == [op |-> "confirm", session |-> s]
<1>1. r \in SessionRequest /\ r \in AllRequests /\ r.session = s
  BY DEF SessionRequest, AllRequests
<1> HIDE DEF r
<1>2. Suits("phase", r) /\ "phase" \in AllSteps
  BY <1>1 DEF Suits, GrantSteps, DepartSteps, ApplySteps, SwitchSteps,
              CopySteps, AllSteps, ConnectStep, ConfirmSteps
<1>3. SessionEffect(c, "phase", r)
  BY <1>1 DEF SessionEffect, TakesOn
<1>4. Goes(c, "phase", r)
  BY DEF Goes, r
<1> QED
  BY <1>1, <1>2, <1>3, <1>4 DEF ClientEffect

\* The step that ends a session, for any of the three reasons.
LEMMA EndEffect ==
  ASSUME ProcTypes, NEW c \in Client, NEW r \in SessionRequest,
         NEW state \in {"failed", "cancelled", "idle"},
         pc[c] \in {"ready", "fail", "timeout"},
         pc[c] = "fail" => r = req[c],
         req' = [req EXCEPT ![c] = r], EndSession(c, r.session, state)
  PROVE  ClientEffect(c)
<1> DEFINE to == IF r.session \in pending THEN "unlatch" ELSE "reset"
<1>1. /\ pc' = [pc EXCEPT ![c] = to]
      /\ pending' = pending \ {r.session}
      /\ closed' = closed
      /\ SetState(r.session, state)
  BY DEF EndSession, Goto
<1>2. to \in {"unlatch", "reset"}
  OBVIOUS
<1>3. /\ to \in AllSteps /\ r \in AllRequests
      /\ Suits(to, r)
  BY <1>2 DEF Suits, GrantSteps, DepartSteps, ApplySteps, SwitchSteps,
              CopySteps, AllSteps, ConnectStep, AllRequests
<1>4. SessionEffect(c, to, r)
  BY <1>1 DEF SessionEffect, Ends
<1> HIDE DEF to
<1> QED
  BY <1>1, <1>3, <1>4 DEF ClientEffect, Goes

\* The close sequence.
LEMMA ConfirmEffect ==
  ASSUME ProcTypes, NEW c \in Client, ConfirmStep(c)
  PROVE  ClientEffect(c)
<1>1. ASSUME NEW to \in ConfirmSteps, Move(c, to), UNCHANGED connectorVars,
             pc[c] \in ConfirmSteps, OwnWork(c, to)
      PROVE  ClientEffect(c)
  <2>1. /\ to \in SessionSteps \ Latching
        /\ pc[c] \in SessionSteps
    BY <1>1 DEF SessionSteps, ConfirmSteps, Latching
  <2> QED
    BY <1>1, <2>1, ServeEffect
<1>2. CASE ConfirmPhase(c)
  BY <1>1, <1>2 DEF ConfirmPhase, ConfirmSteps, OwnWork
<1>3. CASE ConfirmSync(c)
  BY <1>1, <1>3 DEF ConfirmSync, ConfirmSteps, OwnWork
<1>4. CASE ConfirmMatch(c)
  BY <1>1, <1>4 DEF ConfirmMatch, ConfirmSteps, OwnWork
<1>5. CASE ConfirmClose(c)
  BY <1>1, <1>5 DEF ConfirmClose, ConfirmSteps, OwnWork
<1>6. CASE ConfirmOnGrid(c)
  BY <1>1, <1>6 DEF ConfirmOnGrid, ConfirmSteps, OwnWork, GoOnGrid
<1>7. CASE ConfirmOccupy(c)
  BY <1>1, <1>7 DEF ConfirmOccupy, ConfirmSteps, OwnWork
<1>8. CASE ConfirmMeter(c)
  <2>1. /\ pc[c] = "meter" /\ UNCHANGED connectorVars
        /\ \/ Move(c, "connected") /\ OwnWork(c, "connected")
           \/ Move(c, "fail") /\ OwnWork(c, "fail")
    BY <1>8 DEF ConfirmMeter, connectorVars, OwnWork, ConfirmSteps
  <2> QED
    BY <1>1, <2>1 DEF ConfirmSteps
<1>9. CASE ConfirmConnected(c)
  <2> DEFINE s == req[c].session
  <2>1. /\ pc[c] = "connected"
        /\ sessions' = [sessions EXCEPT ![s].state = "connected",
                                        ![s].progress = @ + 1]
        /\ pending' = pending \ {s}
        /\ closed' = closed
        /\ \/ s \in pending /\ Move(c, "announce")
           \/ s \notin pending /\ Give(c)
    BY <1>9 DEF ConfirmConnected
  <2>2. CASE s \in pending /\ Move(c, "announce")
    <3>1. req[c] \in SessionRequest /\ req[c] \in AllRequests
      BY <2>1 DEF ProcTypes, Suits, SessionSteps, ConfirmSteps
    <3>2. Suits("announce", req[c]) /\ "announce" \in AllSteps
      BY <3>1 DEF Suits, GrantSteps, DepartSteps, ApplySteps, SwitchSteps,
                  CopySteps, AllSteps, ConnectStep
    <3>3. Goes(c, "announce", req[c])
      BY <2>2 DEF Move, Goto, Goes, ProcTypes
    <3>4. SessionEffect(c, "announce", req[c])
      BY <2>1, <2>2 DEF SessionEffect, Connects
    <3> QED
      BY <3>1, <3>2, <3>3, <3>4 DEF ClientEffect
  <2>3. CASE s \notin pending /\ Give(c)
    <3>1. Goes(c, "ready", None)
      BY <2>3 DEF Give, Finish, Goto, Goes
    <3>2. SessionEffect(c, "ready", None)
      BY <2>1, <2>3 DEF SessionEffect, Connects
    <3>3. /\ Suits("ready", None)
          /\ "ready" \in AllSteps /\ None \in AllRequests
      BY DEF Suits, GrantSteps, DepartSteps, ApplySteps, SessionSteps,
             Latching, ConfirmSteps, SwitchSteps, CopySteps, AllSteps, Step,
             AllRequests
    <3> QED
      BY <3>1, <3>2, <3>3 DEF ClientEffect
  <2> QED
    BY <2>1, <2>2, <2>3
<1>10. CASE ConfirmAnnounce(c)
  <2>1. /\ pc[c] \in Latching /\ pc[c] # "unlatch"
        /\ closed' = closed \cup {req[c].session}
        /\ UNCHANGED <<sessions, pending>>
        /\ Goes(c, "ready", None)
    BY <1>10 DEF ConfirmAnnounce, Give, Finish, Goto, Goes, Latching
  <2>2. SessionEffect(c, "ready", None)
    BY <2>1 DEF SessionEffect, Closes, ConfirmSteps, Latching
  <2>3. /\ Suits("ready", None)
        /\ "ready" \in AllSteps /\ None \in AllRequests
    BY DEF Suits, GrantSteps, DepartSteps, ApplySteps, SessionSteps,
           Latching, ConfirmSteps, SwitchSteps, CopySteps, AllSteps, Step,
           AllRequests
  <2> QED
    BY <2>1, <2>2, <2>3 DEF ClientEffect
<1>11. CASE ConfirmFail(c)
  <2>1. req[c] \in SessionRequest
    BY <1>11 DEF ConfirmFail, ProcTypes, Suits, SessionSteps, ConfirmSteps
  <2>2. /\ req' = [req EXCEPT ![c] = req[c]]
        /\ EndSession(c, req[c].session, "failed")
        /\ pc[c] = "fail"
    BY <1>11 DEF ConfirmFail, ProcTypes
  <2> QED
    BY <2>1, <2>2, EndEffect
<1> QED
  BY <1>2, <1>3, <1>4, <1>5, <1>6, <1>7, <1>8, <1>9, <1>10, <1>11
     DEF ConfirmStep

\* Confirm, cancel and wait as they begin, waiting, the end of a session,
\* and separation.
LEMMA HandlerEffect ==
  ASSUME ProcTypes, NEW c \in Client,
         \/ \E s \in DOMAIN sessions :
              HandleConfirm(c, s) \/ HandleCancel(c, s) \/ HandleWait(c, s)
         \/ WaitStep(c) \/ EndStep(c) \/ SeparateStep(c)
  PROVE  ClientEffect(c)
<1>1. ASSUME NEW s \in DOMAIN sessions, HandleConfirm(c, s)
      PROVE  ClientEffect(c)
  BY <1>1, TakeEffect DEF HandleConfirm, StartOn, Start, Goto
<1>2. ASSUME NEW s \in DOMAIN sessions, HandleCancel(c, s)
      PROVE  ClientEffect(c)
  <2> DEFINE r == [op |-> "cancel", session |-> s]
  <2>1. /\ r \in SessionRequest
        /\ req' = [req EXCEPT ![c] = r]
        /\ EndSession(c, r.session, "cancelled")
        /\ pc[c] = "ready"
    BY <1>2 DEF HandleCancel, SessionRequest
  <2> HIDE DEF r
  <2> QED
    BY <2>1, EndEffect
<1>3. ASSUME NEW s \in DOMAIN sessions, HandleWait(c, s)
      PROVE  ClientEffect(c)
  <2> DEFINE r == [op |-> "wait", session |-> s]
  <2>1. /\ r \in SessionRequest /\ r \in AllRequests
        /\ Goes(c, "waiting", r)
        /\ pc[c] = "ready"
        /\ UNCHANGED connectorVars
    BY <1>3 DEF HandleWait, StartOn, Start, Goto, Goes, SessionRequest,
                AllRequests
  <2> HIDE DEF r
  <2>2. /\ Suits("waiting", r) /\ "waiting" \in AllSteps
        /\ "waiting" \notin ConfirmSteps \cup Latching
    BY <2>1 DEF Suits, GrantSteps, DepartSteps, ApplySteps, SwitchSteps,
                CopySteps, AllSteps, ConnectStep, ConfirmSteps, Latching
  <2> QED
    BY <2>1, <2>2, StartEffect DEF AtWork, ConfirmSteps
<1>4. CASE WaitWake(c)
  BY <1>4, GiveEffect DEF WaitWake, AtWork, ConfirmSteps
<1>5. CASE WaitTimer(c)
  BY <1>5, ServeEffect, NoOwnWork
     DEF WaitTimer, SessionSteps, Latching, ConfirmSteps, AtWork
<1>6. CASE WaitTimeout(c)
  <2>1. req[c] \in SessionRequest
    BY <1>6 DEF WaitTimeout, ProcTypes, Suits, SessionSteps
  <2>2. /\ req' = [req EXCEPT ![c] = req[c]]
        /\ EndSession(c, req[c].session, "idle")
        /\ pc[c] = "timeout"
    BY <1>6 DEF WaitTimeout, ProcTypes
  <2> QED
    BY <2>1, <2>2, EndEffect
<1>7. CASE Unlatch(c)
  <2>1. /\ pc[c] = "unlatch"
        /\ closed' = closed \cup {req[c].session}
        /\ UNCHANGED <<sessions, pending>>
        /\ Goes(c, "reset", req[c])
    BY <1>7 DEF Unlatch, Move, Goto, Goes, ProcTypes
  <2>2. req[c] \in SessionRequest /\ req[c] \in AllRequests
    BY <2>1 DEF ProcTypes, Suits, SessionSteps, Latching
  <2>3. Suits("reset", req[c]) /\ "reset" \in AllSteps
    BY <2>2 DEF Suits, GrantSteps, DepartSteps, ApplySteps, SwitchSteps,
                CopySteps, AllSteps, ConnectStep
  <2>4. SessionEffect(c, "reset", req[c])
    BY <2>1 DEF SessionEffect, Closes, ConfirmSteps, Latching
  <2> QED
    BY <2>1, <2>2, <2>3, <2>4 DEF ClientEffect
<1>8. CASE ResetBerth(c)
  BY <1>8, ServeEffect
     DEF ResetBerth, SessionSteps, Latching, ConfirmSteps, OwnWork
<1>9. CASE Unallocate(c)
  BY <1>9, GiveEffect DEF Unallocate, AtWork, ConfirmSteps
<1>10. CASE HandleSeparate(c)
  BY <1>10, StartBareEffect DEF HandleSeparate, Start, Goto,
       AtWork, ConfirmSteps
<1>11. CASE SeparateOpen(c)
  BY <1>11, StartBareEffect DEF SeparateOpen, Move, Goto, AtWork, ConfirmSteps
<1>12. CASE SeparateOff(c)
  BY <1>12, GiveEffect DEF SeparateOff, AtWork, ConfirmSteps
<1> QED
  BY <1>1, <1>2, <1>3, <1>4, <1>5, <1>6, <1>7, <1>8, <1>9, <1>10, <1>11,
     <1>12 DEF WaitStep, EndStep, SeparateStep

\* The override and the dispatch.
LEMMA ControlEffect ==
  ASSUME ProcTypes, NEW c \in Client,
         targets \in [Client -> SUBSET DOMAIN sessions],
         ControlStep(c) \/ \E s \in targets[c] : DispatchNext(c, s)
  PROVE  ClientEffect(c)
<1>1. ASSUME NEW o \in Override, HandleOverride(c, o)
      PROVE  ClientEffect(c)
  <2> DEFINE r == [op |-> "override", active |-> o.active]
  <2>1. /\ r \in OverrideRequest /\ r \in AllRequests
        /\ Goes(c, "mode", r)
        /\ UNCHANGED connectorVars
        /\ pc[c] = "ready"
    BY <1>1 DEF HandleOverride, Start, Goto, Goes, OverrideRequest,
                AllRequests, Override, connectorUnchanged
  <2> HIDE DEF r
  <2>2. /\ Suits("mode", r) /\ "mode" \in AllSteps
        /\ "mode" \notin ConfirmSteps \cup Latching
    BY <2>1 DEF Suits, GrantSteps, DepartSteps, ApplySteps, SwitchSteps,
                CopySteps, AllSteps, SessionSteps, ConfirmSteps, Latching
  <2>3. OwnWork(c, "mode")
    BY <1>1, <2>1 DEF OwnWork, ConfirmSteps
  <2>4. SessionEffect(c, "mode", r)
    BY <2>1, <2>2, <2>3 DEF SessionEffect, LeavesAlone
  <2> QED
    BY <2>1, <2>2, <2>4 DEF ClientEffect
<1>2. CASE SetControlMode(c)
  <2>1. /\ pc[c] = "mode"
        /\ Goes(c, "ready", None)
        /\ UNCHANGED connectorVars
    BY <1>2 DEF SetControlMode, Give, Finish, Goto, Goes, connectorUnchanged
  <2>2. OwnWork(c, "ready")
    BY <1>2, <2>1 DEF OwnWork, ConfirmSteps
  <2>3. SessionEffect(c, "ready", None)
    BY <2>1, <2>2 DEF SessionEffect, LeavesAlone, ConfirmSteps, Latching
  <2>4. /\ Suits("ready", None)
        /\ "ready" \in AllSteps /\ None \in AllRequests
    BY DEF Suits, GrantSteps, DepartSteps, ApplySteps, SessionSteps,
           Latching, ConfirmSteps, SwitchSteps, CopySteps, AllSteps, Step,
           AllRequests
  <2> QED
    BY <2>1, <2>3, <2>4 DEF ClientEffect
<1>3. CASE HandleDispatch(c)
  BY <1>3, StartBareEffect
     DEF HandleDispatch, Start, Goto, connectorUnchanged, AtWork, ConfirmSteps
<1>4. ASSUME NEW s \in targets[c], DispatchNext(c, s)
      PROVE  ClientEffect(c)
  <2>1. s \in DOMAIN sessions
    OBVIOUS
  <2>2. CASE Take(s) /\ Goto(c, "phase")
             /\ req' = [req EXCEPT ![c] = [op |-> "confirm", session |-> s]]
    BY <1>4, <2>1, <2>2, TakeEffect DEF DispatchNext, Goto
  <2>3. CASE UNCHANGED <<pc, req, sessions>>
    <3>1. /\ pc[c] = "ready" /\ pc' = pc /\ req' = req
          /\ UNCHANGED connectorVars
      BY <1>4, <2>3 DEF DispatchNext, connectorVars
    <3>2. pc' = [pc EXCEPT ![c] = "ready"]
      BY <3>1 DEF ProcTypes, Process
    <3> QED
      BY <3>1, <3>2, StartBareEffect DEF AtWork, ConfirmSteps
  <2> QED
    BY <1>4, <2>2, <2>3 DEF DispatchNext
<1> QED
  BY <1>1, <1>2, <1>3, <1>4 DEF ControlStep

\* The switching sequences.
LEMMA SequenceEffect ==
  ASSUME ProcTypes, NEW c \in Client, SequenceStep(c),
         berths \in [Berth -> BerthRecord], grid \in GridState
  PROVE  ClientEffect(c)
<1>0. UNCHANGED connectorVars
  BY DEF SequenceStep, connectorUnchanged
<1>1. ASSUME NEW on \in BOOLEAN, NEW b \in Berth \cup {None},
             NEW v \in Vessel \cup {None}, HandleSwitch(c, on, b, v)
      PROVE  ClientEffect(c)
  <2> DEFINE r == [op |-> "switch", on |-> on, berth |-> b, vessel |-> v,
                   previous |-> grid, before |-> None,
                   found |-> IF b = None THEN None ELSE berths[b]]
  <2>1. r \in Sequence /\ r \in AllRequests
    BY DEF Sequence, AllRequests
  <2>2. PICK to \in {"set syncing", "unload"} :
          Goes(c, to, r) /\ pc[c] = "ready"
    BY <1>1 DEF HandleSwitch, Start, Goto, Goes
  <2> HIDE DEF r
  <2>3. /\ Suits(to, r) /\ to \in AllSteps
        /\ to \notin ConfirmSteps \cup Latching
    BY <2>1 DEF Suits, GrantSteps, DepartSteps, ApplySteps, SwitchSteps,
                CopySteps, AllSteps, SessionSteps, ConfirmSteps, Latching
  <2> QED
    BY <1>0, <2>1, <2>2, <2>3, StartEffect DEF AtWork, ConfirmSteps
<1>2. ASSUME NEW to \in SwitchSteps, Move(c, to), pc[c] \in SwitchSteps,
             to \in CopySteps => pc[c] \in CopySteps
      PROVE  ClientEffect(c)
  <2>1. Suits(pc[c], req[c])
    BY DEF ProcTypes
  <2>2. /\ Suits(to, req[c]) /\ to \in AllSteps
        /\ to \notin ConfirmSteps \cup Latching
    BY <1>2, <2>1
       DEF Suits, GrantSteps, DepartSteps, ApplySteps, SwitchSteps,
           AllSteps, SessionSteps, ConfirmSteps, Latching
  <2>3. OwnWork(c, to)
    BY <1>2, NoOwnWork DEF SwitchSteps, AtWork, ConfirmSteps
  <2> QED
    BY <1>0, <1>2, <2>2, <2>3, MoveEffect
<1>3. CASE SwitchSetSyncing(c) \/ SwitchUnload(c)
  BY <1>2, <1>3 DEF SwitchSetSyncing, SwitchUnload, SwitchSteps, CopySteps
<1>4. CASE SwitchCopy(c)
  <2>1. pc[c] = "copy" /\ req[c] \in Sequence
    BY <1>4 DEF SwitchCopy, ProcTypes, Suits, SwitchSteps
  <2>2. CASE Goto(c, "restore grid") /\ UNCHANGED req
    <3>1. Goes(c, "restore grid", req[c])
      BY <2>2 DEF Goto, Goes, ProcTypes
    <3>2. /\ Suits("restore grid", req[c])
          /\ "restore grid" \in AllSteps
          /\ "restore grid" \notin ConfirmSteps \cup Latching
          /\ req[c] \in AllRequests
      BY <2>1 DEF Suits, GrantSteps, DepartSteps, ApplySteps, SwitchSteps,
                  CopySteps, AllSteps, SessionSteps, ConfirmSteps, Latching,
                  AllRequests
    <3> QED
      BY <1>0, <2>1, <3>1, <3>2, StartEffect DEF AtWork, ConfirmSteps
  <2>3. CASE req[c].berth # None /\ Goto(c, "set berth")
             /\ req' = [req EXCEPT ![c].before = berths[req[c].berth]]
    <3> DEFINE q == req[c]
               r == [op |-> "switch", on |-> q.on, berth |-> q.berth,
                     vessel |-> q.vessel, previous |-> q.previous,
                     before |-> berths[q.berth], found |-> q.found]
    <3>1. req' = [req EXCEPT ![c] = [req[c] EXCEPT !.before = berths[q.berth]]]
      BY <2>3
    <3>2. [q EXCEPT !.before = berths[q.berth]] = r
      BY <2>1 DEF Sequence
    <3>3. /\ r.berth \in Berth \ {None} /\ r.before \in BerthRecord
          /\ r \in Sequence
      BY <2>1, <2>3 DEF Sequence
    <3> HIDE DEF r
    <3>4. Goes(c, "set berth", r)
      BY <2>3, <3>1, <3>2 DEF Goes, Goto
    <3>5. /\ Suits("set berth", r) /\ "set berth" \in AllSteps
          /\ "set berth" \notin ConfirmSteps \cup Latching
          /\ r \in AllRequests
      BY <3>3 DEF Suits, GrantSteps, DepartSteps, ApplySteps, SwitchSteps,
                  CopySteps, AllSteps, SessionSteps, ConfirmSteps, Latching,
                  AllRequests
    <3> QED
      BY <1>0, <2>1, <3>4, <3>5, StartEffect DEF AtWork, ConfirmSteps
  <2> QED
    BY <1>4, <2>2, <2>3 DEF SwitchCopy
<1>5. CASE SwitchSetBerth(c)
  BY <1>2, <1>5 DEF SwitchSetBerth, SwitchSteps, CopySteps
<1>6. CASE SwitchShut(c)
  BY <1>0, <1>2, <1>6, GiveEffect DEF SwitchShut, SwitchSteps, CopySteps,
       AtWork, ConfirmSteps
<1>7. CASE SwitchSetOff(c) \/ SwitchRestoreGrid(c)
  BY <1>0, <1>7, GiveEffect DEF SwitchSetOff, SwitchRestoreGrid,
       AtWork, ConfirmSteps
<1>8. CASE SwitchRestore(c)
  BY <1>2, <1>8 DEF SwitchRestore, SwitchSteps, CopySteps
<1> QED
  BY <1>1, <1>3, <1>4, <1>5, <1>6, <1>7, <1>8 DEF SequenceStep

\* What any step of any client may do to the sessions.
LEMMA NextSession ==
  ASSUME ProcTypes, NEW c \in Client, ClientStep(c),
         targets \in [Client -> SUBSET DOMAIN sessions],
         berths \in [Berth -> BerthRecord], grid \in GridState
  PROVE  ClientEffect(c)
<1>1. CASE ControlStep(c) \/ \E s \in targets[c] : DispatchNext(c, s)
  BY <1>1, ControlEffect
<1>2. CASE SequenceStep(c)
  BY <1>2, SequenceEffect
<1>3. CASE SessionStep(c)
  <2>1. CASE DepartBill(c)
    BY <2>1, DepartEffect DEF DepartBill
  <2> QED
    BY <1>3, <2>1, HandlerEffect, ApplyEffect, ConfirmEffect
       DEF SessionStep
<1>4. CASE CapacityStep(c) /\ connectorUnchanged
  <2>1. UNCHANGED connectorVars
    BY <1>4 DEF connectorUnchanged
  <2> QED
    BY <1>4, <2>1, OccupyEffect, DepartEffect, RebuildEffect
       DEF CapacityStep
<1> QED
  BY <1>1, <1>2, <1>3, <1>4 DEF ClientStep, LowerStep

\* The reconciler moves no client and touches no session.
LEMMA ReconcileEffect ==
  ASSUME ReconcileStep
  PROVE  /\ req' = req
         /\ \/ pc' = pc
            \/ \E to \in Step : pc' = [pc EXCEPT ![Reconciler] = to]
BY DEF ReconcileStep, ReconcileTick, SyncRelease, ReconcileList,
       ReconcileAudit, ReconcileReport, Goto, Step

---------------------------------------------------------------------------
(* The sessions.                                                           *)

\* Session s goes to the state and progress given; nothing else changes.
Becomes(s, state, progress) ==
  /\ s \in DOMAIN sessions
  /\ sessions' \in Seq(Session)
  /\ DOMAIN sessions' = DOMAIN sessions
  /\ sessions'[s].state = state
  /\ sessions'[s].progress = progress
  /\ sessions'[s].vessel = sessions[s].vessel
  /\ sessions'[s].berth = sessions[s].berth
  /\ \A t \in DOMAIN sessions \ {s} : sessions'[t] = sessions[t]

LEMMA SetBecomes ==
  ASSUME sessions \in Seq(Session), NEW s \in DOMAIN sessions,
         NEW state \in SessionState, NEW progress \in 1 .. 4,
         \/ sessions' = [sessions EXCEPT ![s].state = state,
                                         ![s].progress = progress]
         \/ /\ sessions' = [sessions EXCEPT ![s].state = state]
            /\ progress = sessions[s].progress
  PROVE  Becomes(s, state, progress)
<1> DEFINE q == sessions[s]
           x == [vessel |-> q.vessel, berth |-> q.berth,
                 request |-> q.request, matching |-> q.matching,
                 state |-> state, progress |-> progress]
<1>1. q \in Session
  OBVIOUS
<1>2. x \in Session
  BY <1>1 DEF Session
<1>3. sessions' = [sessions EXCEPT ![s] = x]
  <2>1. \/ sessions' = [sessions EXCEPT ![s] =
                          [q EXCEPT !.state = state, !.progress = progress]]
        \/ /\ sessions' = [sessions EXCEPT ![s] = [q EXCEPT !.state = state]]
           /\ progress = q.progress
    OBVIOUS
  <2>2. [q EXCEPT !.state = state, !.progress = progress] = x
    <3> DEFINE z == [vessel |-> q.vessel, berth |-> q.berth,
                     request |-> q.request, matching |-> q.matching,
                     state |-> state, progress |-> q.progress]
    <3>1. [q EXCEPT !.state = state, !.progress = progress]
            = [[q EXCEPT !.state = state] EXCEPT !.progress = progress]
      BY <1>1 DEF Session
    <3>2. [q EXCEPT !.state = state] = z
      BY <1>1 DEF Session
    <3>3. z \in Session
      BY <1>1 DEF Session
    <3>4. \A y \in Session :
            [y EXCEPT !.progress = progress] =
              [vessel |-> y.vessel, berth |-> y.berth,
               request |-> y.request, matching |-> y.matching,
               state |-> y.state, progress |-> progress]
      BY DEF Session
    <3>5. [z EXCEPT !.progress = progress] = x
      BY <3>3, <3>4
    <3> QED
      BY <3>1, <3>2, <3>5
  <2>3. progress = q.progress => [q EXCEPT !.state = state] = x
    BY <1>1 DEF Session
  <2> QED
    BY <2>1, <2>2, <2>3
<1>4. /\ x.state = state /\ x.progress = progress
      /\ x.vessel = q.vessel /\ x.berth = q.berth
  OBVIOUS
<1> HIDE DEF x
<1> QED
  BY <1>2, <1>3, <1>4 DEF Becomes

\* Each of the three steps that change a session, as a change of its state
\* and progress.
LEMMA TakesBecomes ==
  ASSUME SessionTypes, NEW c, NEW to, NEW r, TakesOn(c, to, r)
  PROVE  /\ sessions[r.session].state = "verifying"
         /\ sessions[r.session].progress = 1
         /\ Becomes(r.session, "connecting", 3)
<1> DEFINE s == r.session
<1>1. /\ s \in DOMAIN sessions
      /\ sessions[s].state = "verifying"
      /\ sessions' = [sessions EXCEPT ![s].state = "connecting",
                                      ![s].progress = @ + 2]
  BY DEF TakesOn, SessionRequest, Take
<1>2. sessions[s].progress = 1
  BY <1>1 DEF SessionTypes, SessionOK
<1>3. sessions' = [sessions EXCEPT ![s].state = "connecting",
                                   ![s].progress = 3]
  BY <1>1, <1>2
<1>4. "connecting" \in SessionState /\ 3 \in 1 .. 4
  BY DEF SessionState
<1> HIDE DEF s
<1>5. Becomes(s, "connecting", 3)
  BY <1>1, <1>3, <1>4, SetBecomes DEF SessionTypes
<1> QED
  BY <1>1, <1>2, <1>5 DEF s

LEMMA EndsBecomes ==
  ASSUME SessionTypes, NEW c, NEW to, NEW r, Ends(c, to, r)
  PROVE  \E state \in {"failed", "cancelled", "idle"} :
           Becomes(r.session, state, sessions[r.session].progress)
<1> DEFINE s == r.session
<1>1. PICK state \in {"failed", "cancelled", "idle"} :
        sessions' = [sessions EXCEPT ![s].state = state]
  BY DEF Ends, SetState
<1>2. s \in DOMAIN sessions
  BY DEF Ends, SessionRequest
<1>3. state \in SessionState /\ sessions[s].progress \in 1 .. 4
  <2>1. sessions[s] \in Session
    BY <1>2 DEF SessionTypes
  <2> QED
    BY <2>1 DEF SessionState, Session
<1> HIDE DEF s
<1>4. Becomes(s, state, sessions[s].progress)
  BY <1>1, <1>2, <1>3, SetBecomes DEF SessionTypes
<1> QED
  BY <1>4 DEF s

LEMMA ConnectsBecomes ==
  ASSUME SessionTypes, NEW c \in Client, NEW to, NEW r, Connects(c, to, r)
  PROVE  /\ sessions[req[c].session].progress = 3
         /\ Becomes(req[c].session, "connected", 4)
<1> DEFINE s == req[c].session
<1>1. /\ pc[c] = "connected"
      /\ sessions' = [sessions EXCEPT ![s].state = "connected",
                                      ![s].progress = @ + 1]
  BY DEF Connects
<1>2. s \in DOMAIN sessions
  BY <1>1 DEF SessionTypes, ProcTypes, Suits, SessionSteps, ConfirmSteps,
              SessionRequest
<1>3. sessions[s].progress = 3
  BY <1>1 DEF SessionTypes, SessionOK, ConfirmedOnce, ConfirmSteps, Serving
<1>4. sessions' = [sessions EXCEPT ![s].state = "connected",
                                   ![s].progress = 4]
  BY <1>1, <1>2, <1>3
<1>5. "connected" \in SessionState /\ 4 \in 1 .. 4
  BY DEF SessionState
<1> HIDE DEF s
<1>6. Becomes(s, "connected", 4)
  BY <1>2, <1>4, <1>5, SetBecomes DEF SessionTypes
<1> QED
  BY <1>3, <1>6 DEF s

\* A session that is registered comes after the others.
LEMMA RegistersGrows ==
  ASSUME SessionTypes, NEW c, NEW to, NEW r, Registers(c, to, r)
  PROVE  LET s == Len(sessions) + 1 IN
         /\ sessions' \in Seq(Session)
         /\ s \notin DOMAIN sessions
         /\ DOMAIN sessions' = DOMAIN sessions \cup {s}
         /\ sessions'[s].state = "verifying"
         /\ sessions'[s].progress = 1
         /\ sessions'[s].berth = req[c].berth
         /\ \A t \in DOMAIN sessions : sessions'[t] = sessions[t]
         /\ pending' = pending \cup {s}
         /\ closed' = closed
<1>1. PICK x \in Session :
        /\ x.berth = req[c].berth
        /\ x.state = "verifying" /\ x.progress = 1
        /\ sessions' = Append(sessions, x)
  BY DEF Registers
<1>2. sessions \in Seq(Session)
  BY DEF SessionTypes
<1>3. /\ sessions' \in Seq(Session)
      /\ DOMAIN sessions = 1 .. Len(sessions)
      /\ DOMAIN sessions' = 1 .. Len(sessions) + 1
      /\ sessions'[Len(sessions) + 1] = x
      /\ \A t \in 1 .. Len(sessions) : sessions'[t] = sessions[t]
      /\ Len(sessions) \in Nat
  BY <1>1, <1>2
<1> QED
  BY <1>1, <1>3 DEF Registers

\* The other clients do not move.
LEMMA GoesOthers ==
  ASSUME ProcTypes, NEW c \in Client, NEW to, NEW r, Goes(c, to, r)
  PROVE  /\ pc'[c] = to /\ req'[c] = r
         /\ \A d \in Client \ {c} : pc'[d] = pc[d] /\ req'[d] = req[d]
BY DEF ProcTypes, Goes, Process

\* Who is about to close a channel is the only one, and it is not closed yet.
ClosedOnce ==
  \A c \in Client :
    pc[c] \in {"announce", "unlatch"} =>
      /\ req[c].session \notin closed \cup pending
      /\ \A d \in Client \ {c} :
           pc[d] \in {"announce", "unlatch"} =>
             req[d].session # req[c].session

\* Where the two sets of channels stand, and who is about to close one.
LatchInv ==
  /\ LatchIffOpen
  /\ ClosedOnce
  /\ pending \cap closed = {}

\* What a goroutine is serving stays known while sessions are added.
LEMMA ProcTypesKept ==
  ASSUME ProcTypes, DOMAIN sessions \subseteq DOMAIN sessions',
         NEW c \in Client, NEW to \in AllSteps, NEW r \in AllRequests,
         Goes(c, to, r), Suits(to, r)
  PROVE  ProcTypes'
<1>1. SessionRequest \subseteq SessionRequest'
  BY DEF SessionRequest
<1>2. AllRequests \subseteq AllRequests'
  BY <1>1 DEF AllRequests
<1>3. /\ pc' \in [Process -> AllSteps]
      /\ req' \in [Client -> AllRequests']
  BY <1>2 DEF ProcTypes, Goes, Process
<1>4. ASSUME NEW a, NEW q, Suits(a, q)
      PROVE  Suits(a, q)'
  BY <1>1, <1>4 DEF Suits
<1>5. ASSUME NEW d \in Client
      PROVE  Suits(pc[d], req[d])'
  <2>1. PICK a, q : a = pc'[d] /\ q = req'[d]
    OBVIOUS
  <2>2. Suits(a, q)
    BY <2>1, GoesOthers DEF ProcTypes
  <2>3. Suits(a, q)'
    BY <2>2, <1>4
  <2> QED
    BY <2>1, <2>3 DEF Suits
<1> QED
  BY <1>3, <1>5 DEF ProcTypes

\* The session a goroutine is serving exists.
LEMMA ServedExists ==
  ASSUME ProcTypes, NEW c \in Client, pc[c] \in SessionSteps
  PROVE  req[c].session \in DOMAIN sessions
BY DEF ProcTypes, Suits, SessionRequest

\* Whatever a client does, the sessions keep their types and no session is
\* confirmed by two clients.
LEMMA SessionsKept ==
  ASSUME SessionTypes, NEW c \in Client, ClientEffect(c)
  PROVE  SessionTypes' /\ DOMAIN sessions \subseteq DOMAIN sessions'
<1>0. PICK to \in AllSteps, r \in AllRequests :
        Goes(c, to, r) /\ Suits(to, r) /\ SessionEffect(c, to, r)
  BY DEF ClientEffect
<1> USE DEF SessionTypes
<1>a. /\ pc'[c] = to /\ req'[c] = r
      /\ \A d \in Client \ {c} : pc'[d] = pc[d] /\ req'[d] = req[d]
  BY <1>0, GoesOthers
<1>b. \A d \in Client : pc[d] \in ConfirmSteps =>
        /\ req[d].session \in DOMAIN sessions
        /\ sessions[req[d].session].progress = 3
        /\ \A e \in Client \ {d} : pc[e] \in ConfirmSteps =>
             req[e].session # req[d].session
  BY ServedExists DEF SessionOK, ConfirmedOnce, Serving, SessionSteps
<1> DEFINE Typed == /\ sessions' \in Seq(Session)
                    /\ DOMAIN sessions \subseteq DOMAIN sessions'
                    /\ pending' \subseteq DOMAIN sessions'
                    /\ closed' \subseteq DOMAIN sessions'
           Fresh == \A s \in DOMAIN sessions' :
                      sessions'[s].state = "verifying" =>
                        sessions'[s].progress = 1
           Once == \A d \in Client : pc'[d] \in ConfirmSteps =>
                     /\ sessions'[req'[d].session].progress = 3
                     /\ \A e \in Client \ {d} : pc'[e] \in ConfirmSteps =>
                          req'[e].session # req'[d].session
<1>c. ASSUME \A d \in Client \ {c} : pc[d] \in ConfirmSteps =>
               sessions'[req[d].session].progress = 3,
             to \in ConfirmSteps =>
               /\ sessions'[r.session].progress = 3
               /\ \A d \in Client \ {c} : pc[d] \in ConfirmSteps =>
                    req[d].session # r.session
      PROVE  Once
  <2> TAKE d \in Client
  <2> HAVE pc'[d] \in ConfirmSteps
  <2>1. CASE d = c
    <3>1. /\ to \in ConfirmSteps /\ req'[d] = r
          /\ \A e \in Client \ {c} : pc'[e] = pc[e] /\ req'[e] = req[e]
      BY <2>1, <1>a
    <3> QED
      BY <2>1, <3>1, <1>c
  <2>2. CASE d # c
    <3>1. pc[d] \in ConfirmSteps /\ req'[d] = req[d]
      BY <2>2, <1>a
    <3>2. sessions'[req'[d].session].progress = 3
      BY <2>2, <3>1, <1>c
    <3>3. ASSUME NEW e \in Client \ {d}, pc'[e] \in ConfirmSteps
          PROVE  req'[e].session # req'[d].session
      <4>1. CASE e = c
        BY <2>2, <3>1, <3>3, <4>1, <1>a, <1>c
      <4>2. CASE e # c
        <5>1. pc[e] \in ConfirmSteps /\ req'[e] = req[e]
          BY <3>3, <4>2, <1>a
        <5> QED
          BY <3>1, <5>1, <1>b
      <4> QED
        BY <4>1, <4>2
    <3> QED
      BY <3>2, <3>3
  <2> QED
    BY <2>1, <2>2
<1>1. ASSUME LeavesAlone(c, to, r)
      PROVE  Typed /\ Fresh /\ Once
  <2>1. /\ sessions' = sessions /\ pending' = pending /\ closed' = closed
        /\ to \in ConfirmSteps => pc[c] \in ConfirmSteps /\ r = req[c]
    BY <1>1 DEF LeavesAlone, connectorVars
  <2>2. Typed /\ Fresh
    BY <2>1 DEF SessionOK
  <2>4. Once
    BY <2>1, <1>b, <1>c
  <2> QED
    BY <2>2, <2>4
<1>2. ASSUME Registers(c, to, r)
      PROVE  Typed /\ Fresh /\ Once
  <2> DEFINE s == Len(sessions) + 1
  <2>1. /\ sessions' \in Seq(Session)
        /\ s \notin DOMAIN sessions
        /\ DOMAIN sessions' = DOMAIN sessions \cup {s}
        /\ sessions'[s].state = "verifying" /\ sessions'[s].progress = 1
        /\ \A t \in DOMAIN sessions : sessions'[t] = sessions[t]
        /\ pending' = pending \cup {s} /\ closed' = closed
    BY <1>2, RegistersGrows
  <2> HIDE DEF s
  <2>2. Typed /\ Fresh
    BY <2>1 DEF SessionOK
  <2>3. to \notin ConfirmSteps
    BY <1>2 DEF Registers, ConfirmSteps
  <2>4. Once
    BY <2>1, <2>3, <1>b, <1>c
  <2> QED
    BY <2>2, <2>4
<1>3. ASSUME TakesOn(c, to, r)
      PROVE  Typed /\ Fresh /\ Once
  <2> DEFINE s == r.session
  <2>1. /\ sessions[s].progress = 1
        /\ Becomes(s, "connecting", 3)
        /\ pending' = pending /\ closed' = closed
    BY <1>3, TakesBecomes DEF TakesOn
  <2> HIDE DEF s
  <2>2. Typed /\ Fresh
    BY <2>1 DEF Becomes, SessionOK
  <2>3. \A d \in Client \ {c} : pc[d] \in ConfirmSteps =>
          /\ req[d].session # s
          /\ sessions'[req[d].session].progress = 3
    BY <2>1, <1>b DEF Becomes
  <2>4. sessions'[s].progress = 3
    BY <2>1 DEF Becomes
  <2>5. Once
    BY <2>3, <2>4, <1>c DEF s
  <2> QED
    BY <2>2, <2>5
<1>4. ASSUME Ends(c, to, r)
      PROVE  Typed /\ Fresh /\ Once
  <2> DEFINE s == r.session
  <2>1. PICK state \in {"failed", "cancelled", "idle"} :
          Becomes(s, state, sessions[s].progress)
    BY <1>4, EndsBecomes
  <2>2. /\ pending' \subseteq pending /\ closed' = closed
        /\ to \notin ConfirmSteps
    BY <1>4 DEF Ends, ConfirmSteps
  <2> HIDE DEF s
  <2>3. Typed /\ Fresh
    BY <2>1, <2>2 DEF Becomes, SessionOK
  <2>4. \A d \in Client \ {c} : pc[d] \in ConfirmSteps =>
          sessions'[req[d].session].progress = 3
    BY <2>1, <1>b DEF Becomes
  <2>5. Once
    BY <2>2, <2>4, <1>c
  <2> QED
    BY <2>3, <2>5
<1>5. ASSUME Connects(c, to, r)
      PROVE  Typed /\ Fresh /\ Once
  <2> DEFINE s == req[c].session
  <2>1. Becomes(s, "connected", 4)
    BY <1>5, ConnectsBecomes
  <2>2. /\ pc[c] \in ConfirmSteps
        /\ pending' \subseteq pending /\ closed' = closed
        /\ to \notin ConfirmSteps
    BY <1>5 DEF Connects, ConfirmSteps
  <2>3. \A d \in Client \ {c} : pc[d] \in ConfirmSteps =>
          req[d].session # s
    BY <2>2, <1>b
  <2> HIDE DEF s
  <2>4. Typed /\ Fresh
    BY <2>1, <2>2 DEF Becomes, SessionOK
  <2>5. \A d \in Client \ {c} : pc[d] \in ConfirmSteps =>
          sessions'[req[d].session].progress = 3
    BY <2>1, <2>3, <1>b DEF Becomes
  <2>6. Once
    BY <2>2, <2>5, <1>c
  <2> QED
    BY <2>4, <2>6
<1>6. ASSUME Closes(c, to, r)
      PROVE  Typed /\ Fresh /\ Once
  <2>1. /\ sessions' = sessions /\ pending' = pending
        /\ closed' = closed \cup {req[c].session}
        /\ to \notin ConfirmSteps
        /\ req[c].session \in DOMAIN sessions
    BY <1>6, ServedExists DEF Closes, SessionSteps, Latching, ConfirmSteps
  <2>2. Typed /\ Fresh
    BY <2>1 DEF SessionOK
  <2>3. Once
    BY <2>1, <1>b, <1>c
  <2> QED
    BY <2>2, <2>3
<1>7. Typed /\ Fresh /\ Once
  BY <1>0, <1>1, <1>2, <1>3, <1>4, <1>5, <1>6 DEF SessionEffect
<1>8. ProcTypes'
  BY <1>0, <1>7, ProcTypesKept
<1> QED
  BY <1>7, <1>8 DEF SessionOK, ConfirmedOnce, Serving

\* Whatever a client does, a channel is in the map exactly while its session
\* is open, and nobody closes one that is closed or that another is closing.
LEMMA LatchKept ==
  ASSUME SessionTypes, LatchInv, NEW c \in Client, ClientEffect(c)
  PROVE  LatchInv'
<1>0. PICK to \in AllSteps, r \in AllRequests :
        Goes(c, to, r) /\ Suits(to, r) /\ SessionEffect(c, to, r)
  BY DEF ClientEffect
<1>a. /\ pc'[c] = to /\ req'[c] = r
      /\ \A d \in Client \ {c} : pc'[d] = pc[d] /\ req'[d] = req[d]
  BY <1>0, GoesOthers DEF SessionTypes
<1>b. \A d \in Client : pc[d] \in Latching =>
        /\ req[d].session \in DOMAIN sessions
        /\ req[d].session \notin closed \cup pending
        /\ \A e \in Client \ {d} : pc[e] \in Latching =>
             req[e].session # req[d].session
  BY ServedExists DEF LatchInv, ClosedOnce, Latching, SessionTypes,
                      SessionSteps
<1>c. /\ pending \subseteq DOMAIN sessions /\ closed \subseteq DOMAIN sessions
      /\ pending \cap closed = {}
      /\ \A s \in DOMAIN sessions :
           s \in pending <=> sessions[s].state \in {"verifying", "connecting"}
  BY DEF SessionTypes, LatchInv, LatchIffOpen, Open
<1> DEFINE Iff == \A s \in DOMAIN sessions' :
                    s \in pending' <=>
                      sessions'[s].state \in {"verifying", "connecting"}
           Apart == pending' \cap closed' = {}
           Once == \A d \in Client : pc'[d] \in Latching =>
                     /\ req'[d].session \notin closed' \cup pending'
                     /\ \A e \in Client \ {d} : pc'[e] \in Latching =>
                          req'[e].session # req'[d].session
<1>d. ASSUME \A d \in Client \ {c} : pc[d] \in Latching =>
               req[d].session \notin closed' \cup pending',
             to \in Latching =>
               /\ r.session \notin closed' \cup pending'
               /\ \A d \in Client \ {c} : pc[d] \in Latching =>
                    req[d].session # r.session
      PROVE  Once
  <2> TAKE d \in Client
  <2> HAVE pc'[d] \in Latching
  <2>1. CASE d = c
    <3>1. /\ to \in Latching /\ req'[d] = r
          /\ \A e \in Client \ {c} : pc'[e] = pc[e] /\ req'[e] = req[e]
      BY <2>1, <1>a
    <3> QED
      BY <2>1, <3>1, <1>d
  <2>2. CASE d # c
    <3>1. pc[d] \in Latching /\ req'[d] = req[d]
      BY <2>2, <1>a
    <3>2. req'[d].session \notin closed' \cup pending'
      BY <2>2, <3>1, <1>d
    <3>3. ASSUME NEW e \in Client \ {d}, pc'[e] \in Latching
          PROVE  req'[e].session # req'[d].session
      <4>1. CASE e = c
        BY <2>2, <3>1, <3>3, <4>1, <1>a, <1>d
      <4>2. CASE e # c
        <5>1. pc[e] \in Latching /\ req'[e] = req[e]
          BY <3>3, <4>2, <1>a
        <5> QED
          BY <3>1, <5>1, <1>b
      <4> QED
        BY <4>1, <4>2
    <3> QED
      BY <3>2, <3>3
  <2> QED
    BY <2>1, <2>2
<1> HIDE DEF Once
<1>1. ASSUME LeavesAlone(c, to, r)
      PROVE  Iff /\ Apart /\ Once
  <2>1. /\ sessions' = sessions /\ pending' = pending /\ closed' = closed
        /\ to \notin Latching
    BY <1>1 DEF LeavesAlone, connectorVars
  <2>2. Once
    BY <2>1, <1>b, <1>d
  <2> QED
    BY <2>1, <2>2, <1>c
<1>2. ASSUME Registers(c, to, r)
      PROVE  Iff /\ Apart /\ Once
  <2> DEFINE s == Len(sessions) + 1
  <2>1. /\ s \notin DOMAIN sessions
        /\ DOMAIN sessions' = DOMAIN sessions \cup {s}
        /\ sessions'[s].state = "verifying"
        /\ \A t \in DOMAIN sessions : sessions'[t] = sessions[t]
        /\ pending' = pending \cup {s} /\ closed' = closed
    BY <1>2, RegistersGrows
  <2>2. to \notin Latching
    BY <1>2 DEF Registers, Latching
  <2> HIDE DEF s
  <2>3. Iff /\ Apart
    BY <2>1, <1>c
  <2>4. Once
    BY <2>1, <2>2, <1>b, <1>d
  <2> QED
    BY <2>3, <2>4
<1>3. ASSUME TakesOn(c, to, r)
      PROVE  Iff /\ Apart /\ Once
  <2> DEFINE s == r.session
  <2>1. /\ sessions[s].state = "verifying"
        /\ Becomes(s, "connecting", 3)
        /\ pending' = pending /\ closed' = closed
        /\ to \notin Latching
    BY <1>3, TakesBecomes DEF TakesOn, Latching
  <2> HIDE DEF s
  <2>2. Iff /\ Apart
    BY <2>1, <1>c DEF Becomes
  <2>3. Once
    BY <2>1, <1>b, <1>d
  <2> QED
    BY <2>2, <2>3
<1>4. ASSUME Ends(c, to, r)
      PROVE  Iff /\ Apart /\ Once
  <2> DEFINE s == r.session
  <2>1. PICK state \in {"failed", "cancelled", "idle"} :
          Becomes(s, state, sessions[s].progress)
    BY <1>4, EndsBecomes
  <2>2. /\ pending' = pending \ {s} /\ closed' = closed
        /\ to \in Latching => s \in pending
    BY <1>4 DEF Ends, Latching
  <2>3. Iff /\ Apart
    <3> HIDE DEF s
    <3> QED
      BY <2>1, <2>2, <1>c DEF Becomes
  <2>4. to \in Latching =>
          /\ s \notin closed' \cup pending'
          /\ \A d \in Client \ {c} : pc[d] \in Latching =>
               req[d].session # s
    <3> HIDE DEF s
    <3> QED
      BY <2>2, <1>b, <1>c
  <2>5. Once
    BY <2>2, <2>4, <1>b, <1>d
  <2> QED
    BY <2>3, <2>5
<1>5. ASSUME Connects(c, to, r)
      PROVE  Iff /\ Apart /\ Once
  <2> DEFINE s == req[c].session
  <2>1. /\ Becomes(s, "connected", 4)
        /\ pending' = pending \ {s} /\ closed' = closed
        /\ to \in Latching => s \in pending /\ r = req[c]
    BY <1>5, ConnectsBecomes DEF Connects, Latching
  <2>2. Iff /\ Apart
    <3> HIDE DEF s
    <3> QED
      BY <2>1, <1>c DEF Becomes
  <2>3. to \in Latching =>
          /\ r.session \notin closed' \cup pending'
          /\ \A d \in Client \ {c} : pc[d] \in Latching =>
               req[d].session # r.session
    BY <2>1, <1>b, <1>c
  <2>4. Once
    BY <2>1, <2>3, <1>b, <1>d
  <2> QED
    BY <2>2, <2>4
<1>6. ASSUME Closes(c, to, r)
      PROVE  Iff /\ Apart /\ Once
  <2>1. /\ sessions' = sessions /\ pending' = pending
        /\ closed' = closed \cup {req[c].session}
        /\ to \notin Latching /\ pc[c] \in Latching
    BY <1>6 DEF Closes, Latching
  <2>2. Iff /\ Apart
    BY <2>1, <1>b, <1>c
  <2>3. \A d \in Client \ {c} : pc[d] \in Latching =>
          req[d].session \notin closed' \cup pending'
    BY <2>1, <1>b
  <2>4. Once
    BY <2>1, <2>3, <1>d
  <2> QED
    BY <2>2, <2>4
<1>7. Iff /\ Apart /\ Once
  BY <1>0, <1>1, <1>2, <1>3, <1>4, <1>5, <1>6 DEF SessionEffect
<1> QED
  BY <1>7 DEF LatchInv, LatchIffOpen, ClosedOnce, Open, Latching, Once

---------------------------------------------------------------------------
(* What a step may do to the berth store, the meter, the grid and the      *)
(* books of the allocator.                                                 *)

StoreChange(c) ==
  \/ UNCHANGED storeVars
  \/ \E b \in Berth, v \in Vessel : MayOccupy(b, v) /\ MarkOccupied(b, v)
  \/ \E b \in Berth : MayRelease(b) /\ MarkReleasing(b)
  \/ \E b \in Berth : Put(b, IdleRecord)
  \/ /\ pc'[c] = "register" /\ req'[c] = req[c]
     /\ req[c].berth \in Berth
     /\ MayAllocate(req[c].berth) /\ MarkAllocating(req[c].berth)
  \/ pc[c] = "restore" /\ SwitchRestore(c)
  \/ pc[c] = "occupants" /\ RebuildFromLive(live[c])

MeterChange ==
  \/ meter' = meter
  \/ \E v \in Vessel : /\ meter[v] = "not_metering"
                       /\ meter' = [meter EXCEPT ![v] = "metering"]
  \/ \E v \in Vessel : /\ meter[v] = "metering"
                       /\ meter' = [meter EXCEPT ![v] = "settled"]

GridChange ==
  \/ UNCHANGED gridVars
  \/ PhaseCheck \/ CloseBreaker \/ GoOnGrid
  \/ BeginSeparation \/ OpenBreaker \/ GoOffGrid
  \/ \E state \in GridState : SetGridState(state)

\* The vessel and the berth of the session a goroutine is serving.
LEMMA ServedTyped ==
  ASSUME SessionTypes, NEW c \in Client, pc[c] \in SessionSteps
  PROVE  /\ Serving(c).vessel \in Vessel
         /\ Serving(c).berth \in Berth
<1>1. req[c].session \in DOMAIN sessions
  BY ServedExists DEF SessionTypes
<1>2. Serving(c) \in Session
  BY <1>1 DEF SessionTypes, Serving
<1> QED
  BY <1>2 DEF Session

LEMMA IdleChange ==
  ASSUME NEW c, NEW b \in Berth, MarkIdle(b)
  PROVE  StoreChange(c)
BY DEF MarkIdle, StoreChange

LEMMA OccupyChange ==
  ASSUME NEW c, NEW b \in Berth, NEW v \in Vessel \cup {None},
         MayOccupy(b, v), MarkOccupied(b, v)
  PROVE  StoreChange(c)
<1>1. v \in Vessel
  BY DEF MayOccupy
<1> QED
  BY <1>1 DEF StoreChange

\* What any step of any client may do to the store.
LEMMA NextStoreOf ==
  ASSUME SessionTypes, NEW c \in Client, ClientStep(c)
  PROVE  StoreChange(c)
<1> USE DEF SessionTypes
<1>0. ASSUME UNCHANGED storeVars PROVE StoreChange(c)
  BY <1>0 DEF StoreChange
<1>1. CASE ControlStep(c) \/ \E s \in targets[c] : DispatchNext(c, s)
  BY <1>0, <1>1 DEF ControlStep, HandleOverride, SetControlMode,
                    HandleDispatch, DispatchNext
<1>2. CASE SequenceStep(c)
  <2>1. CASE SwitchSetBerth(c)
    <3> DEFINE q == req[c]
    <3>1. /\ pc[c] = "set berth"
          /\ \/ MayOccupy(q.berth, q.vessel) /\ MarkOccupied(q.berth, q.vessel)
             \/ UNCHANGED storeVars
             \/ MarkIdle(q.berth)
      BY <2>1 DEF SwitchSetBerth
    <3>2. q.berth \in Berth /\ q \in Sequence
      BY <3>1 DEF ProcTypes, Suits, SwitchSteps, CopySteps
    <3>3. q.vessel \in Vessel \cup {None}
      BY <3>2 DEF Sequence
    <3> QED
      BY <1>0, <3>1, <3>2, <3>3, OccupyChange, IdleChange
  <2>2. CASE SwitchRestore(c)
    BY <2>2 DEF SwitchRestore, StoreChange
  <2>3. ASSUME \/ \E on \in BOOLEAN, b \in Berth \cup {None},
                     v \in Vessel \cup {None} : HandleSwitch(c, on, b, v)
               \/ SwitchSetSyncing(c) \/ SwitchUnload(c) \/ SwitchCopy(c)
               \/ SwitchShut(c) \/ SwitchSetOff(c) \/ SwitchRestoreGrid(c)
        PROVE  UNCHANGED storeVars
    BY <2>3 DEF HandleSwitch, SwitchSetSyncing, SwitchUnload, SwitchCopy,
                SwitchShut, SwitchSetOff, SwitchRestoreGrid
  <2> QED
    BY <1>0, <1>2, <2>1, <2>2, <2>3 DEF SequenceStep
<1>3. CASE SessionStep(c)
  <2>1. CASE ApplyMark(c)
    <3>1. /\ pc[c] = "granted" /\ req[c].op = "apply"
          /\ \/ /\ MayAllocate(req[c].berth) /\ MarkAllocating(req[c].berth)
                /\ pc' = [pc EXCEPT ![c] = "register"] /\ req' = req
             \/ UNCHANGED storeVars
      BY <2>1 DEF ApplyMark, Move, Goto
    <3>2. req[c] \in GrantRequest
      BY <3>1 DEF ProcTypes, Suits, GrantSteps
    <3>3. req[c].berth \in Berth
      BY <3>2 DEF GrantRequest, OccupyRequest, Request, ApplyRequest
    <3>4. pc' = [pc EXCEPT ![c] = "register"] => pc'[c] = "register"
      BY DEF ProcTypes, Process
    <3> QED
      BY <3>1, <3>3, <3>4 DEF StoreChange
  <2>2. CASE ConfirmOccupy(c)
    <3>1. /\ pc[c] = "berth"
          /\ \/ /\ MayOccupy(Serving(c).berth, Serving(c).vessel)
                /\ MarkOccupied(Serving(c).berth, Serving(c).vessel)
             \/ UNCHANGED storeVars
      BY <2>2 DEF ConfirmOccupy
    <3>2. Serving(c).berth \in Berth /\ Serving(c).vessel \in Vessel
      BY <3>1, ServedTyped DEF SessionSteps, ConfirmSteps
    <3> QED
      BY <1>0, <3>1, <3>2, OccupyChange
  <2>3. CASE ResetBerth(c)
    <3>1. pc[c] = "reset" /\ MarkIdle(Serving(c).berth)
      BY <2>3 DEF ResetBerth
    <3>2. Serving(c).berth \in Berth
      BY <3>1, ServedTyped DEF SessionSteps
    <3> QED
      BY <3>1, <3>2, IdleChange
  <2>4. ASSUME \/ \E s \in DOMAIN sessions :
                    \/ HandleConfirm(c, s) \/ HandleCancel(c, s)
                    \/ HandleWait(c, s)
               \/ \E b \in Berth, v \in Vessel, need \in Demand,
                     id \in RequestId, ok \in BOOLEAN :
                    HandleApply(c, b, v, need, id, ok)
               \/ ApplyUndo(c) \/ ApplyRegister(c)
               \/ Unlatch(c) \/ Unallocate(c)
               \/ WaitStep(c) \/ SeparateStep(c) \/ DepartBill(c)
        PROVE  UNCHANGED storeVars
    BY <2>4 DEF HandleConfirm, HandleCancel, HandleWait, HandleApply,
                ApplyUndo, ApplyRegister, Unlatch, Unallocate, WaitStep,
                WaitWake, WaitTimer, WaitTimeout, SeparateStep,
                HandleSeparate, SeparateOpen, SeparateOff, DepartBill,
                EndSession
  <2>5. ASSUME \/ ConfirmPhase(c) \/ ConfirmSync(c) \/ ConfirmMatch(c)
               \/ ConfirmClose(c) \/ ConfirmOnGrid(c) \/ ConfirmMeter(c)
               \/ ConfirmConnected(c) \/ ConfirmAnnounce(c) \/ ConfirmFail(c)
        PROVE  UNCHANGED storeVars
    BY <2>5 DEF ConfirmPhase, ConfirmSync, ConfirmMatch, ConfirmClose,
                ConfirmOnGrid, ConfirmMeter, ConfirmConnected,
                ConfirmAnnounce, ConfirmFail, EndSession
  <2> QED
    BY <1>0, <1>3, <2>1, <2>2, <2>3, <2>4, <2>5
       DEF SessionStep, ApplyStep, ConfirmStep, EndStep
<1>4. CASE CapacityStep(c)
  <2>1. CASE OccupyMark(c)
    <3>1. /\ pc[c] = "granted"
          /\ \/ /\ MayOccupy(req[c].berth, req[c].vessel)
                /\ MarkOccupied(req[c].berth, req[c].vessel)
             \/ UNCHANGED storeVars
      BY <2>1 DEF OccupyMark
    <3>2. req[c] \in GrantRequest
      BY <3>1 DEF ProcTypes, Suits, GrantSteps
    <3>3. req[c].berth \in Berth /\ req[c].vessel \in Vessel \cup {None}
      BY <3>2 DEF GrantRequest, OccupyRequest, Request, ApplyRequest
    <3> QED
      BY <1>0, <3>1, <3>3, OccupyChange
  <2>2. CASE DepartMark(c) \/ DepartIdle(c)
    <3>1. /\ pc[c] \in {"mark", "free"}
          /\ \/ UNCHANGED storeVars
             \/ MayRelease(req[c].berth) /\ MarkReleasing(req[c].berth)
             \/ MarkIdle(req[c].berth)
      BY <2>2 DEF DepartMark, DepartIdle
    <3>2. req[c].berth \in Berth
      BY <3>1 DEF ProcTypes, Suits, DepartSteps, Request
    <3>3. ASSUME MayRelease(req[c].berth), MarkReleasing(req[c].berth)
          PROVE  StoreChange(c)
      BY <3>2, <3>3 DEF StoreChange
    <3> QED
      BY <1>0, <3>1, <3>2, <3>3, IdleChange
  <2>3. CASE RebuildStore(c)
    BY <2>3 DEF RebuildStore, StoreChange
  <2>4. ASSUME \/ \E b \in Berth, v \in Vessel \cup {None}, need \in Demand :
                    HandleOccupy(c, b, v, need)
               \/ AllocateRefresh(c) \/ AllocateDrop(c)
               \/ AllocateCached(c) \/ AllocateGrant(c)
               \/ \E b \in Berth : HandleDepart(c, b)
               \/ DepartRelease(c) \/ HandleRebuild(c) \/ RebuildList(c)
               \/ \E b \in Berth : RebuildOccupant(c, b)
               \/ RebuildSync(c)
               \/ \E b \in Berth : SyncRelease(c, b)
               \/ RebuildDone(c)
        PROVE  UNCHANGED storeVars
    BY <2>4 DEF HandleOccupy, AllocateRefresh, AllocateDrop, AllocateCached,
                AllocateGrant, HandleDepart, DepartRelease, HandleRebuild,
                RebuildList, RebuildOccupant, RebuildSync, SyncRelease,
                RebuildDone
  <2> QED
    BY <1>0, <1>4, <2>1, <2>2, <2>3, <2>4
       DEF CapacityStep, OccupyStep, RebuildStep
<1> QED
  BY <1>1, <1>2, <1>3, <1>4 DEF ClientStep, LowerStep

\* The runs of the vessels change in a confirmation and in a departure only.
LEMMA NextMeter ==
  ASSUME SessionTypes, NEW c \in Client, ClientStep(c)
  PROVE  MeterChange
<1>0. ASSUME meter' = meter PROVE MeterChange
  BY <1>0 DEF MeterChange
<1>1. CASE ControlStep(c) \/ \E s \in targets[c] : DispatchNext(c, s)
  BY <1>0, <1>1 DEF ControlStep, HandleOverride, SetControlMode,
                    HandleDispatch, DispatchNext, connectorUnchanged
<1>2. CASE SequenceStep(c) \/ (CapacityStep(c) /\ connectorUnchanged)
  BY <1>0, <1>2 DEF SequenceStep, connectorUnchanged
<1>3. CASE SessionStep(c)
  <2>1. CASE ConfirmMeter(c)
    <3> DEFINE v == Serving(c).vessel
    <3>1. /\ pc[c] = "meter"
          /\ \/ /\ meter[v] = "not_metering"
                /\ meter' = [meter EXCEPT ![v] = "metering"]
             \/ meter' = meter
      BY <2>1 DEF ConfirmMeter
    <3>2. v \in Vessel
      BY <3>1, ServedTyped DEF SessionSteps, ConfirmSteps
    <3> HIDE DEF v
    <3> QED
      BY <3>1, <3>2 DEF MeterChange
  <2>2. CASE DepartBill(c)
    <3> DEFINE v == req[c].vessel
    <3>1. /\ pc[c] = "settle"
          /\ \/ /\ meter[v] = "metering"
                /\ meter' = [meter EXCEPT ![v] = "settled"]
             \/ meter' = meter
      BY <2>2 DEF DepartBill
    <3>2. v \in Vessel
      BY <3>1 DEF SessionTypes, ProcTypes, Suits, DepartSteps
    <3> HIDE DEF v
    <3> QED
      BY <3>1, <3>2 DEF MeterChange
  <2>3. ASSUME \/ \E s \in DOMAIN sessions :
                    \/ HandleConfirm(c, s) \/ HandleCancel(c, s)
                    \/ HandleWait(c, s)
               \/ ApplyStep(c) \/ EndStep(c) \/ WaitStep(c)
               \/ SeparateStep(c)
        PROVE  meter' = meter
    BY <2>3 DEF HandleConfirm, HandleCancel, HandleWait, ApplyStep,
                HandleApply, ApplyMark, ApplyUndo, ApplyRegister, EndStep,
                Unlatch, ResetBerth, Unallocate, WaitStep, WaitWake,
                WaitTimer, WaitTimeout, SeparateStep, HandleSeparate,
                SeparateOpen, SeparateOff, EndSession
  <2>4. ASSUME \/ ConfirmPhase(c) \/ ConfirmSync(c) \/ ConfirmMatch(c)
               \/ ConfirmClose(c) \/ ConfirmOnGrid(c) \/ ConfirmOccupy(c)
               \/ ConfirmConnected(c) \/ ConfirmAnnounce(c) \/ ConfirmFail(c)
        PROVE  meter' = meter
    BY <2>4 DEF ConfirmPhase, ConfirmSync, ConfirmMatch, ConfirmClose,
                ConfirmOnGrid, ConfirmOccupy, ConfirmConnected,
                ConfirmAnnounce, ConfirmFail, EndSession
  <2> QED
    BY <1>0, <1>3, <2>1, <2>2, <2>3, <2>4 DEF SessionStep, ConfirmStep
<1> QED
  BY <1>1, <1>2, <1>3 DEF ClientStep, LowerStep

\* Every section of the controller keeps its types.
LEMMA GridTyped ==
  ASSUME GridTypeOK, GridChange
  PROVE  GridTypeOK'
<1>1. breaker' \in BOOLEAN /\ phaseChecked' \in BOOLEAN
  BY Zenon DEF GridTypeOK, GridChange, gridVars, PhaseCheck, CloseBreaker,
         GoOnGrid, BeginSeparation, OpenBreaker, GoOffGrid, SetGridState
<1>2. grid' \in GridState /\ executions' \in Nat
  BY DEF GridTypeOK, GridChange, GridState, gridVars, PhaseCheck,
         CloseBreaker, GoOnGrid, BeginSeparation, OpenBreaker, GoOffGrid,
         SetGridState
<1> QED
  BY <1>1, <1>2 DEF GridTypeOK

\* Whatever a client does to the controller is one of its sections.
LEMMA NextGrid ==
  ASSUME SessionTypes, NEW c \in Client, ClientStep(c)
  PROVE  GridChange
<1>0. ASSUME UNCHANGED gridVars PROVE GridChange
  BY <1>0 DEF GridChange
<1>1. CASE ControlStep(c) \/ \E s \in targets[c] : DispatchNext(c, s)
  BY <1>0, <1>1 DEF ControlStep, HandleOverride, SetControlMode,
                    HandleDispatch, DispatchNext
<1>2. CASE SequenceStep(c)
  <2>1. CASE \/ SwitchSetSyncing(c) \/ SwitchSetOff(c) \/ SwitchUnload(c)
             \/ SwitchShut(c)
    BY <1>0, <2>1 DEF SwitchSetSyncing, SwitchSetOff, SwitchUnload,
                      SwitchShut, GridState, GridChange
  <2>2. CASE SwitchRestoreGrid(c)
    <3>1. pc[c] = "restore grid" /\ SetGridState(req[c].previous)
      BY <2>2 DEF SwitchRestoreGrid
    <3>2. req[c].previous \in GridState
      BY <3>1 DEF SessionTypes, ProcTypes, Suits, SwitchSteps, Sequence
    <3> QED
      BY <3>1, <3>2 DEF GridChange
  <2>3. ASSUME \/ \E on \in BOOLEAN, b \in Berth \cup {None},
                     v \in Vessel \cup {None} : HandleSwitch(c, on, b, v)
               \/ SwitchCopy(c) \/ SwitchSetBerth(c) \/ SwitchRestore(c)
        PROVE  UNCHANGED gridVars
    BY <2>3 DEF HandleSwitch, SwitchCopy, SwitchSetBerth, SwitchRestore
  <2> QED
    BY <1>0, <1>2, <2>1, <2>2, <2>3 DEF SequenceStep
<1>3. CASE SessionStep(c)
  <2>1. CASE ConfirmPhase(c) \/ ConfirmClose(c) \/ ConfirmOnGrid(c)
    BY <1>0, <2>1 DEF ConfirmPhase, ConfirmClose, ConfirmOnGrid, GridChange
  <2>2. CASE SeparateStep(c)
    BY <2>2 DEF SeparateStep, HandleSeparate, SeparateOpen, SeparateOff,
                GridChange
  <2>3. ASSUME \/ \E s \in DOMAIN sessions :
                    \/ HandleConfirm(c, s) \/ HandleCancel(c, s)
                    \/ HandleWait(c, s)
               \/ ApplyStep(c) \/ EndStep(c) \/ WaitStep(c)
               \/ DepartBill(c)
        PROVE  UNCHANGED gridVars
    BY <2>3 DEF HandleConfirm, HandleCancel, HandleWait, ApplyStep,
                HandleApply, ApplyMark, ApplyUndo, ApplyRegister, EndStep,
                Unlatch, ResetBerth, Unallocate, WaitStep, WaitWake,
                WaitTimer, WaitTimeout, DepartBill, EndSession
  <2>4. ASSUME \/ ConfirmSync(c) \/ ConfirmMatch(c) \/ ConfirmOccupy(c)
               \/ ConfirmMeter(c) \/ ConfirmConnected(c)
               \/ ConfirmAnnounce(c) \/ ConfirmFail(c)
        PROVE  UNCHANGED gridVars
    BY <2>4 DEF ConfirmSync, ConfirmMatch, ConfirmOccupy, ConfirmMeter,
                ConfirmConnected, ConfirmAnnounce, ConfirmFail, EndSession
  <2> QED
    BY <1>0, <1>3, <2>1, <2>2, <2>3, <2>4 DEF SessionStep, ConfirmStep
<1>4. CASE CapacityStep(c) /\ UNCHANGED gridVars
  BY <1>0, <1>4
<1> QED
  BY <1>1, <1>2, <1>3, <1>4 DEF ClientStep, LowerStep

\* The map a rebuild is making holds berths that are settled or idle.
LiveRecord == [state : {"idle", "settled"}, vessel : Vessel \cup {None}]

LiveTypes ==
  /\ live \in [Client -> [Berth -> LiveRecord] \cup {None}]
  /\ \A c \in Client : pc[c] = "occupants" => live[c] \in [Berth -> LiveRecord]

\* A step keeps LiveTypes if it changes no map and brings nobody to the
\* point where one is filled in.
LEMMA LiveStays ==
  ASSUME ProcTypes, LiveTypes, live' = live, NEW p \in Process,
         pc' = pc \/ \E to : to # "occupants" /\ pc' = [pc EXCEPT ![p] = to]
  PROVE  LiveTypes'
BY DEF ProcTypes, LiveTypes, Process

\* The steps of a rebuild, and every other step, keep LiveTypes.
LEMMA RebuildLive ==
  ASSUME ProcTypes, LiveTypes, NEW c \in Client, RebuildStep(c),
         berths \in [Berth -> BerthRecord]
  PROVE  LiveTypes'
<1>0. c \in Process
  BY DEF Process
<1>1. CASE \/ HandleRebuild(c) \/ RebuildSync(c) \/ RebuildDone(c)
           \/ \E b \in Berth : SyncRelease(c, b)
  <2>1. /\ live' = live
        /\ \/ pc' = pc
           \/ \E to : to # "occupants" /\ pc' = [pc EXCEPT ![c] = to]
    <3>1. CASE HandleRebuild(c) \/ RebuildSync(c)
      BY <3>1 DEF HandleRebuild, RebuildSync, Start, Goto
    <3>2. CASE RebuildDone(c)
      BY <3>2 DEF RebuildDone, Give, Finish, Goto
    <3>3. CASE \E b \in Berth : SyncRelease(c, b)
      BY <3>3 DEF SyncRelease
    <3> QED
      BY <1>1, <3>1, <3>2, <3>3
  <2> QED
    BY <1>0, <2>1, LiveStays
<1>2. CASE RebuildList(c)
  <2> DEFINE m == [b \in Berth |->
                     IF b \in todo[c]
                       THEN [state |-> "settled", vessel |-> OccupiedBy(b)]
                       ELSE IdleRecord]
  <2>1. m \in [Berth -> LiveRecord]
    BY DEF LiveRecord, IdleRecord, OccupiedBy, BerthRecord
  <2>2. /\ live' = [live EXCEPT ![c] = m]
        /\ pc' = [pc EXCEPT ![c] = "occupants"]
    BY <1>2 DEF RebuildList, Goto
  <2> HIDE DEF m
  <2> QED
    BY <2>1, <2>2 DEF LiveTypes, ProcTypes, Process
<1>3. ASSUME NEW b \in Berth, RebuildOccupant(c, b)
      PROVE  LiveTypes'
  <2>1. /\ pc[c] = "occupants" /\ pc' = pc
        /\ live[c] \in [Berth -> LiveRecord]
    BY <1>3 DEF RebuildOccupant, LiveTypes
  <2> DEFINE x == [live[c][b] EXCEPT !.vessel = OccupiedBy(b)]
             m == [live[c] EXCEPT ![b] = x]
  <2>2. live' = live \/ live' = [live EXCEPT ![c] = m]
    BY <1>3 DEF RebuildOccupant
  <2>3. live[c][b] \in LiveRecord /\ OccupiedBy(b) \in Vessel \cup {None}
    BY <2>1 DEF OccupiedBy, BerthRecord
  <2>4. x \in LiveRecord
    BY <2>3 DEF LiveRecord
  <2> HIDE DEF x
  <2>5. m \in [Berth -> LiveRecord]
    BY <2>1, <2>4
  <2> HIDE DEF m
  <2> QED
    BY <2>1, <2>2, <2>5 DEF LiveTypes
<1>4. CASE RebuildStore(c)
  <2>1. /\ live' = [live EXCEPT ![c] = None]
        /\ pc' = [pc EXCEPT ![c] = "sync"]
    BY <1>4 DEF RebuildStore, Goto
  <2> QED
    BY <2>1 DEF LiveTypes, ProcTypes, Process
<1> QED
  BY <1>1, <1>2, <1>3, <1>4 DEF RebuildStep

\* Only a rebuild makes a map, and only it loops.
LEMMA LoopStays ==
  ASSUME NEW c \in Client, ClientStep(c), ~RebuildStep(c)
  PROVE  /\ live' = live /\ todo' = todo
         /\ \/ pc' = pc
            \/ \E to : /\ to \notin {"list", "occupants"}
                       /\ pc' = [pc EXCEPT ![c] = to]
<1> DEFINE Stays == /\ live' = live /\ todo' = todo
                    /\ \/ pc' = pc
                       \/ \E to : /\ to \notin {"list", "occupants"}
                                  /\ pc' = [pc EXCEPT ![c] = to]
<1> SUFFICES Stays
  OBVIOUS
<1>1. CASE ControlStep(c) \/ \E s \in targets[c] : DispatchNext(c, s)
  BY <1>1
     DEF ControlStep, HandleOverride, SetControlMode, HandleDispatch,
         DispatchNext, Start, Goto, Give, Finish, othersUnchanged
<1>2. CASE SequenceStep(c)
  <2>1. CASE \/ \E on \in BOOLEAN, b \in Berth \cup {None},
                   v \in Vessel \cup {None} : HandleSwitch(c, on, b, v)
             \/ SwitchCopy(c)
    BY <2>1 DEF HandleSwitch, SwitchCopy, Start, Goto, othersUnchanged
  <2>2. CASE \/ SwitchSetSyncing(c) \/ SwitchUnload(c) \/ SwitchSetBerth(c)
             \/ SwitchShut(c) \/ SwitchSetOff(c) \/ SwitchRestore(c)
             \/ SwitchRestoreGrid(c)
    BY <2>2 DEF SwitchSetSyncing, SwitchUnload, SwitchSetBerth, SwitchShut,
                SwitchSetOff, SwitchRestore, SwitchRestoreGrid, Move, Give,
                Finish, Goto
  <2> QED
    BY <1>2, <2>1, <2>2 DEF SequenceStep
<1>3. CASE SessionStep(c)
  <2>1. CASE \E s \in DOMAIN sessions :
               HandleConfirm(c, s) \/ HandleCancel(c, s) \/ HandleWait(c, s)
    BY <2>1 DEF HandleConfirm, HandleCancel, HandleWait, StartOn, Start,
                EndSession, Goto, othersUnchanged
  <2>2. CASE ApplyStep(c) \/ SeparateStep(c)
    BY <2>2
       DEF ApplyStep, HandleApply, ApplyMark, ApplyUndo, ApplyRegister,
           SeparateStep, HandleSeparate, SeparateOpen, SeparateOff, Start,
           Move, Give, Finish, Goto, othersUnchanged
  <2>3. CASE EndStep(c) \/ WaitStep(c) \/ DepartBill(c)
    BY <2>3
       DEF EndStep, Unlatch, ResetBerth, Unallocate, WaitStep, WaitWake,
           WaitTimer, WaitTimeout, DepartBill, EndSession, Move, Give,
           Finish, Goto
  <2>4. CASE ConfirmStep(c)
    BY <2>4
       DEF ConfirmStep, ConfirmPhase, ConfirmSync, ConfirmMatch,
           ConfirmClose, ConfirmOnGrid, ConfirmOccupy, ConfirmMeter,
           ConfirmConnected, ConfirmAnnounce, ConfirmFail, EndSession,
           Move, Give, Finish, Goto
  <2> QED
    BY <1>3, <2>1, <2>2, <2>3, <2>4 DEF SessionStep
<1>4. CASE CapacityStep(c)
  <2>1. CASE OccupyStep(c)
    BY <2>1
       DEF OccupyStep, HandleOccupy, AllocateRefresh, AllocateDrop,
           AllocateCached, AllocateGrant, OccupyMark, Start, Move, Give,
           Finish, Goto
  <2>2. CASE \/ \E b \in Berth : HandleDepart(c, b)
             \/ DepartMark(c) \/ DepartRelease(c) \/ DepartIdle(c)
    BY <2>2
       DEF HandleDepart, DepartMark, DepartRelease, DepartIdle, Start, Move,
           Give, Finish, Goto
  <2> QED
    BY <1>4, <2>1, <2>2 DEF CapacityStep
<1> QED
  BY <1>1, <1>2, <1>3, <1>4 DEF ClientStep, LowerStep

\* Every step of a client keeps LiveTypes.
LEMMA NextLiveOf ==
  ASSUME SessionTypes, LiveTypes, NEW c \in Client, ClientStep(c),
         berths \in [Berth -> BerthRecord]
  PROVE  LiveTypes'
<1>0. c \in Process /\ ProcTypes
  BY DEF Process, SessionTypes
<1>1. CASE RebuildStep(c)
  BY <1>0, <1>1, RebuildLive
<1>2. CASE ~RebuildStep(c)
  <2>1. /\ live' = live
        /\ \/ pc' = pc
           \/ \E to : to # "occupants" /\ pc' = [pc EXCEPT ![c] = to]
    BY <1>2, LoopStays
  <2> QED
    BY <1>0, <2>1, LiveStays
<1> QED
  BY <1>1, <1>2

\* Who changes the override, the mode and the lists of the dispatches.
ControlChange(c) ==
  \/ UNCHANGED controlVars
  \/ \E o \in Override : HandleOverride(c, o)
  \/ SetControlMode(c)
  \/ /\ UNCHANGED <<override, mode, crossed>>
     /\ \E T \in SUBSET DOMAIN sessions : targets' = [targets EXCEPT ![c] = T]

ControlTypes ==
  /\ override \in Override
  /\ mode \in ControlMode
  /\ targets \in [Client -> SUBSET DOMAIN sessions]
  /\ crossed \in BOOLEAN

\* What any step of any client may do to the control room.
LEMMA NextControl ==
  ASSUME ControlTypes, NEW c \in Client, ClientStep(c)
  PROVE  ControlChange(c)
<1>1. CASE HandleDispatch(c)
  BY <1>1 DEF HandleDispatch, Dispatchable, ControlChange
<1>2. ASSUME NEW s \in targets[c], DispatchNext(c, s)
      PROVE  ControlChange(c)
  <2>1. /\ targets' = [targets EXCEPT ![c] = targets[c] \ {s}]
        /\ UNCHANGED <<override, mode, crossed>>
    BY <1>2 DEF DispatchNext
  <2>2. targets[c] \ {s} \in SUBSET DOMAIN sessions
    BY DEF ControlTypes
  <2> QED
    BY <2>1, <2>2 DEF ControlChange
<1>3. CASE SequenceStep(c) \/ LowerStep(c)
  BY <1>3 DEF SequenceStep, LowerStep, ControlChange
<1> QED
  BY <1>1, <1>2, <1>3 DEF ClientStep, ControlStep, ControlChange

LEMMA ControlKept ==
  ASSUME ControlTypes, NEW c \in Client, ControlChange(c),
         DOMAIN sessions \subseteq DOMAIN sessions'
  PROVE  ControlTypes'
<1>1. CASE UNCHANGED controlVars
  BY <1>1 DEF controlVars, ControlTypes
<1>2. ASSUME NEW o \in Override, HandleOverride(c, o)
      PROVE  ControlTypes'
  BY <1>2 DEF HandleOverride, ControlTypes
<1>3. CASE SetControlMode(c)
  BY <1>3 DEF SetControlMode, ControlTypes, ControlMode
<1>4. ASSUME UNCHANGED <<override, mode, crossed>>,
             NEW T \in SUBSET DOMAIN sessions,
             targets' = [targets EXCEPT ![c] = T]
      PROVE  ControlTypes'
  BY <1>4 DEF ControlTypes
<1> QED
  BY <1>1, <1>2, <1>3, <1>4 DEF ControlChange

---------------------------------------------------------------------------
(* Type correctness, with the cache and the channels.                      *)

StoreTypes ==
  /\ berths \in [Berth -> BerthRecord]
  /\ cache \in [Berth -> BerthState]
  /\ CacheCoherent

HistoryTypes ==
  /\ disturbed \subseteq {c \in Client : pc[c] \in SwitchSteps}
  /\ putBack \subseteq Berth

SwitchTypeInv ==
  /\ SessionTypes
  /\ StoreTypes
  /\ LiveTypes
  /\ GridTypeOK
  /\ meter \in [Vessel -> MeterState]
  /\ ControlTypes
  /\ HistoryTypes

LEMMA PutTyped ==
  ASSUME StoreTypes, NEW b \in Berth, NEW r \in BerthRecord, Put(b, r)
  PROVE  StoreTypes'
<1>1. r.state \in BerthState
  BY DEF BerthRecord
<1>2. /\ berths' = [berths EXCEPT ![b] = r]
      /\ cache' = [cache EXCEPT ![b] = r.state]
  BY DEF Put
<1> QED
  BY <1>1, <1>2 DEF StoreTypes, CacheCoherent, CachedState, State

\* Every kind of change keeps the store typed and the cache in step with it.
LEMMA StoreKept ==
  ASSUME StoreTypes, LiveTypes, ProcTypes, NEW c \in Client, StoreChange(c)
  PROVE  StoreTypes'
<1>1. CASE UNCHANGED storeVars
  BY <1>1 DEF storeVars, StoreTypes, CacheCoherent, CachedState, State
<1>2. ASSUME NEW b \in Berth, NEW v \in Vessel, MarkOccupied(b, v)
      PROVE  StoreTypes'
  <2>1. [state |-> "settled", vessel |-> v] \in BerthRecord
    BY DEF BerthRecord, BerthState
  <2> QED
    BY <1>2, <2>1, PutTyped DEF MarkOccupied
<1>3. ASSUME NEW b \in Berth, MarkReleasing(b) \/ MarkAllocating(b)
      PROVE  StoreTypes'
  <2>1. berths[b] \in BerthRecord
    BY DEF StoreTypes
  <2>2. /\ [berths[b] EXCEPT !.state = "releasing"] \in BerthRecord
        /\ [berths[b] EXCEPT !.state = "allocating"] \in BerthRecord
    BY ONLY <2>1 DEF BerthRecord, BerthState
  <2> QED
    BY <1>3, <2>2, PutTyped DEF MarkReleasing, MarkAllocating
<1>4. ASSUME NEW b \in Berth, Put(b, IdleRecord)
      PROVE  StoreTypes'
  <2>1. IdleRecord \in BerthRecord
    BY DEF IdleRecord, BerthRecord, BerthState
  <2> QED
    BY <1>4, <2>1, PutTyped
<1>5. CASE pc[c] = "restore" /\ SwitchRestore(c)
  <2>1. /\ req[c].berth \in Berth /\ req[c].before \in BerthRecord
        /\ Put(req[c].berth, req[c].before)
    BY <1>5 DEF ProcTypes, Suits, CopySteps, SwitchRestore, RestoreOne
  <2> QED
    BY <2>1, PutTyped
<1>6. CASE pc[c] = "occupants" /\ RebuildFromLive(live[c])
  <2>1. /\ live[c] \in [Berth -> LiveRecord]
        /\ berths' = live[c]
        /\ cache' = [b \in Berth |-> live[c][b].state]
    BY <1>6 DEF LiveTypes, RebuildFromLive
  <2>2. LiveRecord \subseteq BerthRecord
    BY DEF LiveRecord, BerthRecord, BerthState
  <2>3. berths' \in [Berth -> BerthRecord]
    BY <2>1, <2>2
  <2>4. cache' \in [Berth -> BerthState]
    BY <2>1 DEF LiveRecord, BerthState
  <2>5. CacheCoherent'
    BY <2>1 DEF CacheCoherent, CachedState, State
  <2> QED
    BY <2>3, <2>4, <2>5 DEF StoreTypes
<1> QED
  BY <1>1, <1>2, <1>3, <1>4, <1>5, <1>6 DEF StoreChange

LEMMA InitSwitchType == SwitchInit => SwitchTypeInv /\ LatchInv
<1> SUFFICES ASSUME SwitchInit PROVE SwitchTypeInv /\ LatchInv
  OBVIOUS
<1> USE CapacityAssumption DEF SwitchInit, ConnectInit, Init
<1>1. /\ pc = [p \in Process |-> "ready"]
      /\ req = [c \in Client |-> None]
      /\ sessions = <<>> /\ pending = {} /\ closed = {}
  OBVIOUS
<1>2. ProcTypes
  <2>1. "ready" \in AllSteps /\ None \in AllRequests
    BY DEF AllSteps, Step, AllRequests
  <2>2. \A c \in Client : pc[c] = "ready"
    BY <1>1 DEF Process
  <2>3. Suits("ready", None)
    BY DEF Suits, GrantSteps, DepartSteps, ApplySteps, SessionSteps,
           Latching, ConfirmSteps, SwitchSteps, CopySteps
  <2>4. \A c \in Client : Suits(pc[c], req[c])
    BY <1>1, <2>2, <2>3
  <2> QED
    BY <1>1, <2>1, <2>4 DEF ProcTypes
<1>3. SessionTypes
  <2>1. DOMAIN sessions = {} /\ sessions \in Seq(Session)
    BY <1>1
  <2>2. SessionOK
    BY <1>1, <2>1 DEF SessionOK, ConfirmedOnce, ConfirmSteps, Process
  <2> QED
    BY <1>1, <1>2, <2>1, <2>2 DEF SessionTypes
<1>4. StoreTypes
  BY DEF NewStore, StoreTypes, BerthRecord, BerthState, IdleRecord,
         CacheCoherent, CachedState, State
<1>5. LiveTypes
  BY <1>1 DEF LiveTypes, Process
<1>6. /\ GridTypeOK /\ meter \in [Vessel -> MeterState]
  BY DEF NewController, GridTypeOK, GridState, MeterState
<1>7. ControlTypes
  BY DEF ControlTypes, Override, ControlMode
<1>8. HistoryTypes
  BY DEF HistoryTypes
<1>9. LatchInv
  BY <1>1 DEF LatchInv, LatchIffOpen, ClosedOnce, Process
<1> QED
  BY <1>3, <1>4, <1>5, <1>6, <1>7, <1>8, <1>9 DEF SwitchTypeInv

\* A step of the reconciler leaves everything of this module alone.
LEMMA ReconcileKeeps ==
  ASSUME SwitchTypeInv, LatchInv, ReconcileStep, connectorUnchanged,
         UNCHANGED <<gridVars, controlVars, historyVars>>
  PROVE  SwitchTypeInv' /\ LatchInv'
<1>1. /\ req' = req
      /\ \/ pc' = pc
         \/ \E to \in Step : pc' = [pc EXCEPT ![Reconciler] = to]
      /\ UNCHANGED storeVars /\ live' = live
      /\ sessions' = sessions /\ pending' = pending /\ closed' = closed
      /\ meter' = meter
  BY ReconcileEffect
     DEF ReconcileStep, ReconcileTick, SyncRelease, ReconcileList,
         ReconcileAudit, ReconcileReport, connectorUnchanged, connectorVars
<1>2. /\ pc' \in [Process -> AllSteps]
      /\ \A c \in Client : pc'[c] = pc[c]
  BY <1>1, CapacityAssumption
     DEF SwitchTypeInv, SessionTypes, ProcTypes, AllSteps, Process
<1>3. ProcTypes'
  BY <1>1, <1>2
     DEF SwitchTypeInv, SessionTypes, ProcTypes, AllRequests, SessionRequest,
         Suits
<1>4. SessionOK'
  BY <1>1, <1>2
     DEF SwitchTypeInv, SessionTypes, SessionOK, ConfirmedOnce, Serving
<1>5. SessionTypes'
  BY <1>1, <1>3, <1>4 DEF SwitchTypeInv, SessionTypes
<1>6. StoreTypes' /\ LiveTypes'
  BY <1>1, <1>2
     DEF SwitchTypeInv, StoreTypes, LiveTypes, storeVars, CacheCoherent,
         CachedState, State
<1>7. GridTypeOK' /\ ControlTypes' /\ meter' \in [Vessel -> MeterState]
  BY <1>1
     DEF SwitchTypeInv, GridTypeOK, gridVars, ControlTypes, controlVars
<1>8. HistoryTypes'
  BY <1>2 DEF SwitchTypeInv, HistoryTypes, historyVars
<1>9. LatchInv'
  BY <1>1, <1>2 DEF LatchInv, LatchIffOpen, ClosedOnce, Open
<1> QED
  BY <1>5, <1>6, <1>7, <1>8, <1>9 DEF SwitchTypeInv

\* A step of a client keeps the types and the channels in order.
LEMMA ClientKeeps ==
  ASSUME SwitchTypeInv, LatchInv, NEW c \in Client, ClientStep(c), History(c)
  PROVE  SwitchTypeInv' /\ LatchInv'
<1> USE DEF SwitchTypeInv
<1>1. ProcTypes /\ ClientEffect(c)
  BY NextSession DEF SessionTypes, ControlTypes, StoreTypes, GridTypeOK
<1>2. SessionTypes' /\ LatchInv'
  BY <1>1, SessionsKept, LatchKept
<1>3. StoreTypes'
  BY <1>1, NextStoreOf, StoreKept
<1>4. LiveTypes'
  BY NextLiveOf DEF StoreTypes
<1>5. GridTypeOK'
  BY NextGrid, GridTyped
<1>6. meter' \in [Vessel -> MeterState]
  <2>1. MeterChange
    BY NextMeter
  <2> QED
    BY <2>1 DEF MeterChange, MeterState
<1>7. ControlTypes'
  <2>1. DOMAIN sessions \subseteq DOMAIN sessions'
    BY <1>1, SessionsKept
  <2> QED
    BY <2>1, NextControl, ControlKept
<1>8. HistoryTypes'
  BY DEF History, Disturb, PutBack, HistoryTypes
<1> QED
  BY <1>2, <1>3, <1>4, <1>5, <1>6, <1>7, <1>8

\* Every step keeps the types and the channels in order.
LEMMA NextSwitchType ==
  SwitchTypeInv /\ LatchInv /\ [SwitchNext]_switchVars
    => SwitchTypeInv' /\ LatchInv'
<1> SUFFICES ASSUME SwitchTypeInv, LatchInv, [SwitchNext]_switchVars
             PROVE  SwitchTypeInv' /\ LatchInv'
  OBVIOUS
<1>1. CASE SwitchNext
  BY <1>1, ClientKeeps, ReconcileKeeps DEF SwitchNext
<1>2. CASE UNCHANGED switchVars
  <2> USE <1>2 DEF switchVars, connectVars, vars, gridVars, connectorVars,
                   controlVars, historyVars
  <2>1. ProcTypes'
    BY DEF SwitchTypeInv, SessionTypes, ProcTypes, AllRequests,
           SessionRequest, Suits
  <2>2. SessionTypes'
    BY <2>1 DEF SwitchTypeInv, SessionTypes, SessionOK, ConfirmedOnce,
                Serving
  <2>3. StoreTypes' /\ LiveTypes' /\ GridTypeOK' /\ ControlTypes'
    BY DEF SwitchTypeInv, StoreTypes, LiveTypes, GridTypeOK, ControlTypes,
           CacheCoherent, CachedState, State
  <2>4. HistoryTypes' /\ LatchInv' /\ meter' \in [Vessel -> MeterState]
    BY DEF SwitchTypeInv, HistoryTypes, LatchInv, LatchIffOpen, ClosedOnce,
           Open
  <2> QED
    BY <2>2, <2>3, <2>4 DEF SwitchTypeInv
<1> QED
  BY <1>1, <1>2

\* The types and the channels are in order in every run.
LEMMA SwitchTypesCorrect == SwitchSpec => [](SwitchTypeInv /\ LatchInv)
BY InitSwitchType, NextSwitchType, PTL DEF SwitchSpec

\* Every variable of the control room and of the connector keeps its type,
\* in every run: in particular no session gets past its last step.
THEOREM SwitchTypeCorrect == SwitchSpec => []SwitchTypeOK
<1>1. SwitchTypeInv => SwitchTypeOK
  BY DEF SwitchTypeInv, SessionTypes, ProcTypes, AllSteps, AllRequests,
         ControlTypes, HistoryTypes, SwitchTypeOK, ConnectorTypeOK
<1> QED
  BY SwitchTypesCorrect, <1>1, PTL

\* A session can be waited for exactly while it is open, in every run: no
\* interleaving of confirmations, cancellations, timeouts and dispatches
\* leaves a channel without a session or a session without its channel.
THEOREM LatchIffOpenHolds == SwitchSpec => []LatchIffOpen
<1>1. LatchInv => LatchIffOpen
  BY DEF LatchInv
<1> QED
  BY SwitchTypesCorrect, <1>1, PTL

=============================================================================
