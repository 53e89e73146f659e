------------------------ MODULE SwitchingSafetyProof ------------------------
(***************************************************************************)
(* The rest of the proofs about Switching: the safety properties that      *)
(* relate the sessions to the meter, the grid, the berths, the control     *)
(* room and the books of the allocator.  Each has an inductive invariant   *)
(* of its own, on top of the types and the channels of SwitchingProof; a   *)
(* step is taken apart by what ClientEffects says of it, or by NextBooksOf *)
(* for the books.                                                          *)
(***************************************************************************)
EXTENDS SwitchingProof

---------------------------------------------------------------------------
(* The steps, once more.                                                   *)

\* Nothing of the control room, the connector, the grid or the store moves:
\* a step of the reconciler, or none.
Rests ==
  /\ \A c \in Client : pc'[c] = pc[c]
  /\ req' = req
  /\ live' = live
  /\ meter' = meter
  /\ UNCHANGED <<storeVars, gridVars, connectorVars, controlVars, historyVars>>

LEMMA StepCases ==
  ASSUME SwitchTypeInv, [SwitchNext]_switchVars
  PROVE  Rests \/ \E c \in Client : ClientStep(c) /\ History(c)
<1>1. ASSUME ReconcileStep, connectorUnchanged,
             UNCHANGED <<gridVars, controlVars, historyVars>>
      PROVE  Rests
  <2>1. /\ req' = req
        /\ \/ pc' = pc
           \/ \E to \in Step : pc' = [pc EXCEPT ![Reconciler] = to]
        /\ UNCHANGED storeVars /\ live' = live
    BY <1>1, ReconcileEffect
       DEF ReconcileStep, ReconcileTick, SyncRelease, ReconcileList,
           ReconcileAudit, ReconcileReport
  <2>2. \A c \in Client : pc'[c] = pc[c]
    BY <2>1, CapacityAssumption
       DEF SwitchTypeInv, SessionTypes, ProcTypes, Process
  <2> QED
    BY <1>1, <2>1, <2>2 DEF Rests, connectorUnchanged
<1>2. CASE UNCHANGED switchVars
  BY <1>2 DEF switchVars, connectVars, vars, storeVars, gridVars,
              connectorVars, controlVars, historyVars, Rests
<1> QED
  BY <1>1, <1>2 DEF SwitchNext

\* All that the lemmas of SwitchingProof say of the step of a client.
LEMMA ClientEffects ==
  ASSUME SwitchTypeInv, NEW c \in Client, ClientStep(c)
  PROVE  /\ ClientEffect(c)
         /\ StoreChange(c)
         /\ MeterChange
         /\ GridChange
         /\ ControlChange(c)
<1>1. ClientEffect(c)
  BY NextSession DEF SwitchTypeInv, SessionTypes, ControlTypes, StoreTypes,
                     GridTypeOK
<1>2. StoreChange(c) /\ MeterChange /\ GridChange /\ ControlChange(c)
  BY NextStoreOf, NextMeter, NextGrid, NextControl DEF SwitchTypeInv
<1> QED
  BY <1>1, <1>2

\* Nobody comes to the mode, past the breaker, to the meter or past it
\* except by the step that leads there, and the resets and mode changes are
\* done by those who came for them.
LEMMA StepDoesWork ==
  ASSUME NEW c \in Client, NEW to, NEW r, SessionEffect(c, to, r)
  PROVE  /\ pc[c] = "reset" => MarkIdle(Serving(c).berth)
         /\ pc[c] = "mode" => SetControlMode(c)
         /\ to = "mode" => \E o \in Override : HandleOverride(c, o)
         /\ to \in {"berth", "meter", "connected"} =>
              UNCHANGED connectorVars /\ r = req[c] /\ OwnWork(c, to)
<1>1. CASE LeavesAlone(c, to, r)
  BY <1>1 DEF LeavesAlone, OwnWork, ConfirmSteps
<1>2. CASE \/ Registers(c, to, r) \/ TakesOn(c, to, r) \/ Ends(c, to, r)
           \/ Connects(c, to, r) \/ Closes(c, to, r)
  <2>1. pc[c] \notin {"reset", "mode"}
    BY <1>2 DEF Registers, TakesOn, Ends, Connects, Closes, Latching
  <2>2. to \notin {"berth", "meter", "connected"}
    BY <1>2 DEF Registers, TakesOn, Ends, Connects, Closes, ConfirmSteps
  <2>3. to # "mode"
    BY <1>2 DEF Registers, TakesOn, Ends, Connects, Closes
  <2> QED
    BY <2>1, <2>2, <2>3
<1> QED
  BY <1>1, <1>2 DEF SessionEffect

---------------------------------------------------------------------------
(* The mode the console shows.                                             *)

\* Unless two override calls overlapped, at most one is between its two
\* steps, it carries the override in force, and with none there the mode
\* agrees with the override.
ModeInv ==
  ~crossed =>
    /\ \A c, d \in Client : pc[c] = "mode" /\ pc[d] = "mode" => c = d
    /\ \A c \in Client : pc[c] = "mode" => req[c].active = override.active
    /\ (\A c \in Client : pc[c] # "mode")
         => (mode = "manual" <=> override.active)

LEMMA ModeKept ==
  ASSUME SwitchTypeInv, ModeInv, NEW c \in Client, ClientStep(c)
  PROVE  ModeInv'
<1>0. PICK to \in AllSteps, r \in AllRequests :
        Goes(c, to, r) /\ SessionEffect(c, to, r)
  BY ClientEffects DEF ClientEffect
<1>1. /\ pc'[c] = to /\ req'[c] = r
      /\ \A d \in Client \ {c} : pc'[d] = pc[d] /\ req'[d] = req[d]
  BY <1>0, GoesOthers DEF SwitchTypeInv, SessionTypes
<1>2. /\ pc[c] = "mode" => SetControlMode(c)
      /\ to = "mode" => \E o \in Override : HandleOverride(c, o)
  BY <1>0, StepDoesWork
<1>3. CASE pc[c] = "mode"
  <2>1. /\ to = "ready"
        /\ mode' = IF req[c].active THEN "manual" ELSE "auto"
        /\ UNCHANGED <<override, crossed>>
    BY <1>1, <1>2, <1>3
       DEF SetControlMode, Give, Finish, Goto, SwitchTypeInv, SessionTypes,
           ProcTypes, Process
  <2>2. ~crossed => /\ \A d \in Client \ {c} : pc[d] # "mode"
                    /\ req[c].active = override.active
    BY <1>3 DEF ModeInv
  <2>3. ~crossed => (mode' = "manual" <=> override.active)
    BY <2>1, <2>2
  <2> QED
    BY <1>1, <2>1, <2>2, <2>3 DEF ModeInv
<1>4. CASE pc[c] # "mode" /\ to = "mode"
  <2>1. PICK o \in Override : HandleOverride(c, o)
    BY <1>2, <1>4
  <2>2. /\ override' = o
        /\ crossed' = \E d \in Client \ {c} : pc[d] = "mode"
        /\ req'[c] = [op |-> "override", active |-> o.active]
    BY <2>1 DEF HandleOverride, SwitchTypeInv, SessionTypes, ProcTypes
  <2>3. req'[c].active = override'.active
    BY <2>2
  <2> QED
    BY <1>1, <1>4, <2>2, <2>3 DEF ModeInv
<1>5. CASE pc[c] # "mode" /\ to # "mode"
  <2>1. \A d \in Client : /\ pc'[d] = "mode" <=> pc[d] = "mode"
                          /\ pc[d] = "mode" => req'[d] = req[d]
    BY <1>1, <1>5
  <2>2. ASSUME NEW o \in Override, HandleOverride(c, o)
        PROVE  FALSE
    BY <1>1, <1>5, <2>2
       DEF HandleOverride, Start, Goto, SwitchTypeInv, SessionTypes,
           ProcTypes, Process
  <2>3. UNCHANGED <<override, mode, crossed>>
    BY <1>5, <2>2, ClientEffects
       DEF ControlChange, SetControlMode, controlVars
  <2> QED
    BY <2>1, <2>3 DEF ModeInv
<1> QED
  BY <1>3, <1>4, <1>5

\* Unless two override calls overlapped, the mode the console shows agrees
\* with the override in every run, once the call that changed it is over.
THEOREM ModeFollowsOverrideHolds == SwitchSpec => []ModeFollowsOverride
<1>1. SwitchInit => ModeInv
  BY DEF SwitchInit, ConnectInit, Init, ModeInv, Process
<1>2. SwitchTypeInv /\ ModeInv /\ [SwitchNext]_switchVars => ModeInv'
  <2>1. ASSUME ModeInv, Rests PROVE ModeInv'
    BY <2>1 DEF Rests, controlVars, ModeInv
  <2> QED
    BY <2>1, StepCases, ModeKept
<1>3. ModeInv => ModeFollowsOverride
  BY DEF ModeInv, ModeFollowsOverride
<1> QED
  BY SwitchTypesCorrect, <1>1, <1>2, <1>3, PTL DEF SwitchSpec

---------------------------------------------------------------------------
(* Who got through the meter.                                              *)

\* No step gives a session another vessel or berth, and a session makes its
\* last step by the hand of the client that has come to that point with it.
LEMMA SessionsGrow ==
  ASSUME SessionTypes, NEW c \in Client, NEW to, NEW r,
         SessionEffect(c, to, r)
  PROVE  /\ \A s \in DOMAIN sessions :
              /\ s \in DOMAIN sessions'
              /\ sessions'[s].vessel = sessions[s].vessel
              /\ sessions'[s].berth = sessions[s].berth
              /\ sessions'[s].progress = 4 =>
                   \/ sessions[s].progress = 4
                   \/ pc[c] = "connected" /\ req[c].session = s
         /\ \A s \in DOMAIN sessions' \ DOMAIN sessions :
              sessions'[s].progress = 1
<1>1. CASE LeavesAlone(c, to, r) \/ Closes(c, to, r)
  <2>1. sessions' = sessions
    BY <1>1 DEF LeavesAlone, Closes, connectorVars
  <2> QED
    BY <2>1
<1>2. CASE Registers(c, to, r)
  BY <1>2, RegistersGrows
<1>3. CASE TakesOn(c, to, r)
  <2>1. Becomes(r.session, "connecting", 3)
    BY <1>3, TakesBecomes
  <2> QED
    BY <2>1 DEF Becomes
<1>4. CASE Ends(c, to, r)
  <2>1. \E state \in {"failed", "cancelled", "idle"} :
          Becomes(r.session, state, sessions[r.session].progress)
    BY <1>4, EndsBecomes
  <2> QED
    BY <2>1 DEF Becomes
<1>5. CASE Connects(c, to, r)
  <2>1. Becomes(req[c].session, "connected", 4) /\ pc[c] = "connected"
    BY <1>5, ConnectsBecomes DEF Connects
  <2> QED
    BY <2>1 DEF Becomes
<1> QED
  BY <1>1, <1>2, <1>3, <1>4, <1>5 DEF SessionEffect

\* Session s has been connected, or is about to be: the meter let it through.
Through(s) ==
  \/ sessions[s].progress = 4
  \/ \E c \in Client : pc[c] = "connected" /\ req[c].session = s

MeterInv ==
  \A s \in DOMAIN sessions :
    Through(s) =>
      /\ meter[sessions[s].vessel] # "not_metering"
      /\ \A t \in DOMAIN sessions \ {s} :
           Through(t) => sessions[t].vessel # sessions[s].vessel

LEMMA MeterKept ==
  ASSUME SwitchTypeInv, MeterInv, NEW c \in Client, ClientStep(c)
  PROVE  MeterInv'
<1>0. PICK to \in AllSteps, r \in AllRequests :
        Goes(c, to, r) /\ SessionEffect(c, to, r)
  BY ClientEffects DEF ClientEffect
<1> DEFINE Work == /\ pc[c] = "meter"
                   /\ meter[Serving(c).vessel] = "not_metering"
                   /\ meter' = [meter EXCEPT ![Serving(c).vessel] = "metering"]
<1>1. /\ SessionTypes /\ ProcTypes
      /\ meter \in [Vessel -> MeterState]
      /\ \A s \in DOMAIN sessions : sessions[s].vessel \in Vessel
  <2>1. \A s \in DOMAIN sessions : sessions[s] \in Session
    BY DEF SwitchTypeInv, SessionTypes
  <2> QED
    BY <2>1 DEF SwitchTypeInv, SessionTypes, Session
<1>2. /\ pc'[c] = to /\ req'[c] = r
      /\ \A d \in Client \ {c} : pc'[d] = pc[d] /\ req'[d] = req[d]
  BY <1>0, <1>1, GoesOthers
<1>3. /\ to = "connected" => r = req[c] /\ Work
      /\ to = "connected" => sessions' = sessions
  BY <1>0, StepDoesWork DEF OwnWork, connectorVars
<1>4. /\ \A s \in DOMAIN sessions :
           /\ s \in DOMAIN sessions'
           /\ sessions'[s].vessel = sessions[s].vessel
           /\ sessions'[s].progress = 4 =>
                \/ sessions[s].progress = 4
                \/ pc[c] = "connected" /\ req[c].session = s
      /\ \A s \in DOMAIN sessions' \ DOMAIN sessions :
           sessions'[s].progress # 4
  BY <1>0, <1>1, SessionsGrow
<1>5. \A d \in Client :
        pc[d] \in {"meter", "connected"} => req[d].session \in DOMAIN sessions
  BY <1>1, ServedExists DEF SessionSteps, ConfirmSteps
\* Who is through afterwards was before, or comes through now.
<1>6. ASSUME NEW s \in DOMAIN sessions', Through(s)'
      PROVE  /\ s \in DOMAIN sessions
             /\ Through(s) \/ (Work /\ s = req[c].session)
  <2>1. \/ sessions'[s].progress = 4
        \/ \E d \in Client : pc'[d] = "connected" /\ req'[d].session = s
    BY <1>6 DEF Through
  <2>2. CASE sessions'[s].progress = 4
    BY <2>2, <1>4 DEF Through
  <2>3. ASSUME NEW d \in Client, pc'[d] = "connected", req'[d].session = s
        PROVE  /\ s \in DOMAIN sessions
               /\ Through(s) \/ (Work /\ s = req[c].session)
    <3>1. CASE d = c
      BY <2>3, <3>1, <1>2, <1>3, <1>5
    <3>2. CASE d # c
      BY <2>3, <3>2, <1>2, <1>5 DEF Through
    <3> QED
      BY <3>1, <3>2
  <2> QED
    BY <2>1, <2>2, <2>3
<1>7. \A v \in Vessel : meter[v] # "not_metering" => meter'[v] # "not_metering"
  <2>1. MeterChange
    BY ClientEffects
  <2> QED
    BY <2>1, <1>1 DEF MeterChange
<1>8. Work => meter'[Serving(c).vessel] # "not_metering"
  BY <1>1, <1>5 DEF Serving
<1>9. ASSUME NEW s \in DOMAIN sessions', Through(s)'
      PROVE  /\ meter'[sessions'[s].vessel] # "not_metering"
             /\ \A t \in DOMAIN sessions' \ {s} :
                  Through(t)' => sessions'[t].vessel # sessions'[s].vessel
  <2>1. /\ s \in DOMAIN sessions
        /\ Through(s) \/ (Work /\ s = req[c].session)
    BY <1>6, <1>9
  <2>2. meter'[sessions[s].vessel] # "not_metering"
    BY <2>1, <1>1, <1>7, <1>8 DEF MeterInv, Serving
  <2>3. ASSUME NEW t \in DOMAIN sessions' \ {s}, Through(t)'
        PROVE  sessions[t].vessel # sessions[s].vessel
    <3>1. /\ t \in DOMAIN sessions
          /\ Through(t) \/ (Work /\ t = req[c].session)
      BY <1>6, <2>3
    <3> QED
      BY <2>1, <2>3, <3>1 DEF MeterInv, Serving
  <2>4. ASSUME NEW t \in DOMAIN sessions' \ {s}, Through(t)'
        PROVE  sessions'[t].vessel # sessions'[s].vessel
    <3>1. t \in DOMAIN sessions
      BY <1>6, <2>4
    <3> QED
      BY <2>1, <2>3, <2>4, <3>1, <1>4
  <2> QED
    BY <2>1, <2>2, <2>4, <1>4
<1> QED
  BY <1>9 DEF MeterInv

\* A vessel is connected once in the life of the server, in every run, and
\* has a run at the meter from then on.
THEOREM ConnectedOnceHolds == SwitchSpec => []ConnectedOnce
<1>1. SwitchInit => MeterInv
  BY DEF SwitchInit, ConnectInit, MeterInv
<1>2. SwitchTypeInv /\ MeterInv /\ [SwitchNext]_switchVars => MeterInv'
  <2>1. ASSUME MeterInv, Rests PROVE MeterInv'
    BY <2>1 DEF Rests, connectorVars, MeterInv, Through
  <2> QED
    BY <2>1, StepCases, MeterKept
<1>3. MeterInv => ConnectedOnce
  BY DEF MeterInv, Through, ConnectedOnce
<1> QED
  BY SwitchTypesCorrect, <1>1, <1>2, <1>3, PTL DEF SwitchSpec

---------------------------------------------------------------------------
(* Where the channel of a session is, and who serves it.                   *)

\* A channel that is neither in the map nor closed is in somebody's hands.
HandsInv ==
  \A s \in DOMAIN sessions \ (pending \cup closed) :
    \E c \in Client : Closing(c, s)

\* A session that is being connected is in somebody's hands.
ServedInv ==
  \A s \in DOMAIN sessions :
    sessions[s].state = "connecting" => \E c \in Client : Confirming(c, s)

LEMMA HandsKept ==
  ASSUME SwitchTypeInv, HandsInv, NEW c \in Client, ClientStep(c)
  PROVE  HandsInv'
<1>0. PICK to \in AllSteps, r \in AllRequests :
        Goes(c, to, r) /\ SessionEffect(c, to, r)
  BY ClientEffects DEF ClientEffect
<1>1. /\ pc'[c] = to /\ req'[c] = r
      /\ \A d \in Client \ {c} : pc'[d] = pc[d] /\ req'[d] = req[d]
      /\ SessionTypes
  BY <1>0, GoesOthers DEF SwitchTypeInv, SessionTypes
\* The others keep what is in their hands; it is enough to look at c.
<1>2. ASSUME \A s \in DOMAIN sessions' \ (pending' \cup closed') :
               \/ Closing(c, s)'
               \/ /\ s \in DOMAIN sessions \ (pending \cup closed)
                  /\ ~Closing(c, s)
      PROVE  HandsInv'
  <2> SUFFICES ASSUME NEW s \in DOMAIN sessions' \ (pending' \cup closed'),
                      ~Closing(c, s)'
               PROVE  \E d \in Client : Closing(d, s)'
    BY DEF HandsInv
  <2>1. PICK d \in Client : Closing(d, s)
    BY <1>2 DEF HandsInv
  <2>2. d # c
    BY <1>2, <2>1
  <2> QED
    BY <1>1, <2>1, <2>2 DEF Closing
<1>3. CASE LeavesAlone(c, to, r)
  <2>1. /\ sessions' = sessions /\ pending' = pending /\ closed' = closed
        /\ pc[c] \notin {"announce", "unlatch"}
    BY <1>3 DEF LeavesAlone, OwnWork, connectorVars
  <2> QED
    BY <1>2, <2>1 DEF Closing
<1>4. CASE Registers(c, to, r)
  <2>1. /\ DOMAIN sessions' = DOMAIN sessions \cup {Len(sessions) + 1}
        /\ pending' = pending \cup {Len(sessions) + 1}
        /\ closed' = closed
        /\ pc[c] = "register"
    BY <1>1, <1>4, RegistersGrows DEF Registers
  <2> QED
    BY <1>2, <2>1 DEF Closing
<1>5. CASE TakesOn(c, to, r)
  <2>1. /\ DOMAIN sessions' = DOMAIN sessions
        /\ pending' = pending /\ closed' = closed
        /\ pc[c] = "ready"
    BY <1>1, <1>5, TakesBecomes DEF TakesOn, Becomes
  <2> QED
    BY <1>2, <2>1 DEF Closing
<1>6. CASE Ends(c, to, r)
  <2>1. /\ DOMAIN sessions' = DOMAIN sessions
        /\ pending' = pending \ {r.session} /\ closed' = closed
        /\ pc[c] \in {"ready", "fail", "timeout"}
        /\ r.session \in pending => to = "unlatch"
    BY <1>1, <1>6, EndsBecomes DEF Ends, Becomes
  <2> QED
    BY <1>1, <1>2, <2>1 DEF Closing
<1>7. CASE Connects(c, to, r)
  <2>1. /\ DOMAIN sessions' = DOMAIN sessions
        /\ pending' = pending \ {req[c].session} /\ closed' = closed
        /\ pc[c] = "connected"
        /\ req[c].session \in pending => to = "announce" /\ r = req[c]
    BY <1>1, <1>7, ConnectsBecomes DEF Connects, Becomes
  <2> QED
    BY <1>1, <1>2, <2>1 DEF Closing
<1>8. CASE Closes(c, to, r)
  <2>1. /\ sessions' = sessions /\ pending' = pending
        /\ closed' = closed \cup {req[c].session}
    BY <1>8 DEF Closes
  <2> QED
    BY <1>2, <2>1 DEF Closing
<1> QED
  BY <1>0, <1>3, <1>4, <1>5, <1>6, <1>7, <1>8 DEF SessionEffect

LEMMA ServedKept ==
  ASSUME SwitchTypeInv, ServedInv, NEW c \in Client, ClientStep(c)
  PROVE  ServedInv'
<1>0. PICK to \in AllSteps, r \in AllRequests :
        Goes(c, to, r) /\ SessionEffect(c, to, r)
  BY ClientEffects DEF ClientEffect
<1>1. /\ pc'[c] = to /\ req'[c] = r
      /\ \A d \in Client \ {c} : pc'[d] = pc[d] /\ req'[d] = req[d]
      /\ SessionTypes
  BY <1>0, GoesOthers DEF SwitchTypeInv, SessionTypes
<1>2. ASSUME \A s \in DOMAIN sessions' :
               sessions'[s].state = "connecting" =>
                 \/ Confirming(c, s)'
                 \/ /\ s \in DOMAIN sessions
                    /\ sessions[s].state = "connecting"
                    /\ ~Confirming(c, s)
      PROVE  ServedInv'
  <2> SUFFICES ASSUME NEW s \in DOMAIN sessions', ~Confirming(c, s)',
                      sessions'[s].state = "connecting"
               PROVE  \E d \in Client : Confirming(d, s)'
    BY DEF ServedInv
  <2>1. PICK d \in Client : Confirming(d, s)
    BY <1>2 DEF ServedInv
  <2>2. d # c
    BY <1>2, <2>1
  <2> QED
    BY <1>1, <2>1, <2>2 DEF Confirming
<1>3. CASE LeavesAlone(c, to, r)
  <2>1. /\ sessions' = sessions
        /\ pc[c] \in ConfirmSteps => to \in ConfirmSteps /\ r = req[c]
    BY <1>3 DEF LeavesAlone, OwnWork, connectorVars
  <2> QED
    BY <1>1, <1>2, <2>1 DEF Confirming
<1>4. CASE Registers(c, to, r)
  <2>1. /\ DOMAIN sessions' = DOMAIN sessions \cup {Len(sessions) + 1}
        /\ sessions'[Len(sessions) + 1].state = "verifying"
        /\ \A s \in DOMAIN sessions : sessions'[s] = sessions[s]
        /\ pc[c] \notin ConfirmSteps
    BY <1>1, <1>4, RegistersGrows DEF Registers, ConfirmSteps
  <2> QED
    BY <1>2, <2>1 DEF Confirming
<1>5. CASE TakesOn(c, to, r)
  <2>1. /\ DOMAIN sessions' = DOMAIN sessions
        /\ \A s \in DOMAIN sessions \ {r.session} :
             sessions'[s].state = sessions[s].state
        /\ pc[c] \notin ConfirmSteps /\ to \in ConfirmSteps
    BY <1>1, <1>5, TakesBecomes DEF TakesOn, Becomes, ConfirmSteps
  <2> QED
    BY <1>1, <1>2, <2>1 DEF Confirming
<1>6. CASE Ends(c, to, r)
  <2>1. /\ DOMAIN sessions' = DOMAIN sessions
        /\ \A s \in DOMAIN sessions \ {r.session} :
             sessions'[s].state = sessions[s].state
        /\ sessions'[r.session].state # "connecting"
    <3>1. PICK state \in {"failed", "cancelled", "idle"} :
            Becomes(r.session, state, sessions[r.session].progress)
      BY <1>1, <1>6, EndsBecomes
    <3> QED
      BY <3>1 DEF Becomes
  <2>2. pc[c] \in ConfirmSteps => r = req[c]
    BY <1>6 DEF Ends, ConfirmSteps
  <2> QED
    BY <1>2, <2>1, <2>2 DEF Confirming
<1>7. CASE Connects(c, to, r)
  <2>1. /\ DOMAIN sessions' = DOMAIN sessions
        /\ \A s \in DOMAIN sessions \ {req[c].session} :
             sessions'[s].state = sessions[s].state
        /\ sessions'[req[c].session].state # "connecting"
    BY <1>1, <1>7, ConnectsBecomes DEF Becomes
  <2> QED
    BY <1>2, <2>1 DEF Confirming
<1>8. CASE Closes(c, to, r)
  <2>1. sessions' = sessions /\ pc[c] \notin ConfirmSteps
    BY <1>8 DEF Closes, ConfirmSteps
  <2> QED
    BY <1>1, <1>2, <2>1 DEF Confirming
<1> QED
  BY <1>0, <1>3, <1>4, <1>5, <1>6, <1>7, <1>8 DEF SessionEffect

LEMMA InHands == SwitchSpec => [](HandsInv /\ ServedInv)
<1>1. SwitchInit => HandsInv /\ ServedInv
  BY DEF SwitchInit, ConnectInit, HandsInv, ServedInv
<1>2. SwitchTypeInv /\ HandsInv /\ ServedInv /\ [SwitchNext]_switchVars
        => HandsInv' /\ ServedInv'
  <2>1. ASSUME HandsInv, ServedInv, Rests PROVE HandsInv' /\ ServedInv'
    BY <2>1 DEF Rests, connectorVars, HandsInv, ServedInv, Closing, Confirming
  <2> QED
    BY <2>1, StepCases, HandsKept, ServedKept
<1> QED
  BY SwitchTypesCorrect, <1>1, <1>2, PTL DEF SwitchSpec

\* In every run the channel of a session is in one place: in the map, in the
\* hands of exactly one goroutine, or closed.  No channel is closed twice and
\* no waiter is forgotten, whatever is confirmed, cancelled, timed out or
\* dispatched at the same time.
THEOREM ChannelInOnePlaceHolds == SwitchSpec => []ChannelInOnePlace
<1>1. SwitchTypeInv /\ LatchInv /\ HandsInv => ChannelInOnePlace
  <2> SUFFICES ASSUME SwitchTypeInv, LatchInv, HandsInv,
                      NEW s \in DOMAIN sessions
               PROVE  LET hands == {c \in Client : Closing(c, s)} IN
                      \/ s \in pending \ closed /\ hands = {}
                      \/ s \in closed \ pending /\ hands = {}
                      \/ /\ s \notin pending \cup closed
                         /\ \E c \in Client : hands = {c}
    BY DEF ChannelInOnePlace
  <2>1. \A c \in Client : Closing(c, s) =>
          /\ s \notin pending \cup closed
          /\ \A d \in Client \ {c} : ~Closing(d, s)
    BY DEF LatchInv, ClosedOnce, Closing
  <2>2. CASE s \in pending \cup closed
    BY <2>1, <2>2 DEF LatchInv
  <2>3. CASE s \notin pending \cup closed
    <3>1. PICK c \in Client : Closing(c, s)
      BY <2>3 DEF HandsInv
    <3>2. {d \in Client : Closing(d, s)} = {c}
      BY <2>1, <3>1
    <3> QED
      BY <2>3, <3>2
  <2> QED
    BY <2>2, <2>3
<1> QED
  BY SwitchTypesCorrect, InHands, <1>1, PTL

\* In every run a session that is being connected is in the hands of exactly
\* one goroutine, and no session is confirmed twice.
THEOREM ServedByOneHolds == SwitchSpec => []ServedByOne
<1>1. SwitchTypeInv /\ ServedInv => ServedByOne
  BY DEF SwitchTypeInv, SessionTypes, SessionOK, ConfirmedOnce, ServedInv,
         ServedByOne, Confirming
<1> QED
  BY SwitchTypesCorrect, InHands, <1>1, PTL

---------------------------------------------------------------------------
(* The connections and the executions of the grid controller.              *)

AfterGrid == {"berth", "meter", "connected"}

\* The sessions for which the grid was put on: connected, or in the hands of
\* a client that has done so.
Executed ==
  {s \in DOMAIN sessions :
     \/ sessions[s].progress = 4
     \/ \E c \in Client : pc[c] \in AfterGrid /\ req[c].session = s}

ExecInv == Cardinality(Executed) <= executions

\* The executions are counted up, one at a time.
LEMMA ExecutionsGrow ==
  ASSUME GridTypeOK, GridChange
  PROVE  executions' \in Nat /\ executions' >= executions
BY DEF GridTypeOK, GridChange, gridVars, PhaseCheck, CloseBreaker, GoOnGrid,
       BeginSeparation, OpenBreaker, GoOffGrid, SetGridState

LEMMA ExecKept ==
  ASSUME SwitchTypeInv, ExecInv, NEW c \in Client, ClientStep(c)
  PROVE  ExecInv'
<1>0. PICK to \in AllSteps, r \in AllRequests :
        Goes(c, to, r) /\ SessionEffect(c, to, r)
  BY ClientEffects DEF ClientEffect
<1> DEFINE x == req[c].session
<1>1. SessionTypes /\ ProcTypes /\ GridTypeOK
  BY DEF SwitchTypeInv, SessionTypes
<1>2. /\ pc'[c] = to /\ req'[c] = r
      /\ \A d \in Client \ {c} : pc'[d] = pc[d] /\ req'[d] = req[d]
  BY <1>0, <1>1, GoesOthers
<1>3. /\ to \in AfterGrid => r = req[c]
      /\ to \in {"meter", "connected"} => pc[c] \in AfterGrid
      /\ to = "berth" => pc[c] = "on" /\ executions' = executions + 1
  BY <1>0, StepDoesWork DEF OwnWork, AfterGrid
<1>4. /\ \A s \in DOMAIN sessions :
           sessions'[s].progress = 4 =>
             \/ sessions[s].progress = 4
             \/ pc[c] = "connected" /\ x = s
      /\ \A s \in DOMAIN sessions' \ DOMAIN sessions :
           sessions'[s].progress # 4
  BY <1>0, <1>1, SessionsGrow
<1>5. \A d \in Client :
        pc[d] \in AfterGrid \cup {"on"} => req[d].session \in DOMAIN sessions
  BY <1>1, ServedExists DEF SessionSteps, ConfirmSteps, AfterGrid
<1>6. IsFiniteSet(Executed) /\ Cardinality(Executed) \in Nat
  <2>1. DOMAIN sessions = 1 .. Len(sessions) /\ Len(sessions) \in Nat
    BY <1>1 DEF SessionTypes
  <2>2. IsFiniteSet(DOMAIN sessions)
    BY <2>1, FS_Interval
  <2>3. Executed \subseteq DOMAIN sessions
    BY DEF Executed
  <2> QED
    BY <2>2, <2>3, FS_Subset, FS_CardinalityType
<1>7. Executed' \subseteq Executed \cup (IF to = "berth" THEN {x} ELSE {})
  <2> SUFFICES ASSUME NEW s \in Executed'
               PROVE  s \in Executed \/ (to = "berth" /\ s = x)
    OBVIOUS
  <2>1. /\ s \in DOMAIN sessions'
        /\ \/ sessions'[s].progress = 4
           \/ \E d \in Client : pc'[d] \in AfterGrid /\ req'[d].session = s
    BY DEF Executed
  <2>2. CASE sessions'[s].progress = 4
    BY <2>1, <2>2, <1>4 DEF Executed, AfterGrid
  <2>3. ASSUME NEW d \in Client, pc'[d] \in AfterGrid, req'[d].session = s
        PROVE  s \in Executed \/ (to = "berth" /\ s = x)
    <3>1. CASE d # c
      BY <2>3, <3>1, <1>2, <1>5 DEF Executed
    <3>2. CASE d = c
      BY <2>3, <3>2, <1>2, <1>3, <1>5 DEF Executed, AfterGrid
    <3> QED
      BY <3>1, <3>2
  <2> QED
    BY <2>1, <2>2, <2>3
<1> HIDE DEF x
<1>8. CASE to = "berth"
  <2>1. Executed' \subseteq Executed \cup {x}
    BY <1>7, <1>8
  <2>2. /\ IsFiniteSet(Executed \cup {x})
        /\ Cardinality(Executed \cup {x}) <= Cardinality(Executed) + 1
    <3>1. /\ IsFiniteSet(Executed \cup {x})
          /\ \/ Cardinality(Executed \cup {x}) = Cardinality(Executed)
             \/ Cardinality(Executed \cup {x}) = Cardinality(Executed) + 1
      BY <1>6, FS_AddElement, Zenon
    <3> QED
      BY <1>6, <3>1
  <2>3. /\ Cardinality(Executed') <= Cardinality(Executed \cup {x})
        /\ IsFiniteSet(Executed')
    BY <2>1, <2>2, FS_Subset
  <2>4. /\ Cardinality(Executed') \in Nat
        /\ Cardinality(Executed \cup {x}) \in Nat
    BY <2>2, <2>3, FS_CardinalityType
  <2>5. executions \in Nat /\ executions' = executions + 1
    BY <1>1, <1>3, <1>8 DEF GridTypeOK
  <2> QED
    BY <1>6, <2>2, <2>3, <2>4, <2>5 DEF ExecInv
<1>9. CASE to # "berth"
  <2>1. Executed' \subseteq Executed
    BY <1>7, <1>9
  <2>2. /\ Cardinality(Executed') <= Cardinality(Executed)
        /\ Cardinality(Executed') \in Nat
    BY <1>6, <2>1, FS_Subset, FS_CardinalityType
  <2>3. /\ executions \in Nat /\ executions' \in Nat
        /\ executions' >= executions
    BY <1>1, ClientEffects, ExecutionsGrow DEF GridTypeOK
  <2> QED
    BY <1>6, <2>2, <2>3 DEF ExecInv
<1> QED
  BY <1>8, <1>9

\* Every connection was made by an execution of its own, in every run,
\* although the two are counted by different components under different
\* locks.
THEOREM ExecutionsCoverHolds == SwitchSpec => []ExecutionsCover
<1>1. SwitchInit => ExecInv
  <2> SUFFICES ASSUME SwitchInit PROVE ExecInv
    OBVIOUS
  <2>1. Executed = {} /\ executions = 0
    BY DEF SwitchInit, ConnectInit, NewController, Executed
  <2> QED
    BY <2>1, FS_EmptySet DEF ExecInv
<1>2. SwitchTypeInv /\ ExecInv /\ [SwitchNext]_switchVars => ExecInv'
  <2>1. ASSUME ExecInv, Rests PROVE ExecInv'
    <3>1. Executed' = Executed /\ executions' = executions
      BY <2>1 DEF Rests, connectorVars, gridVars, Executed
    <3> QED
      BY <2>1, <3>1 DEF ExecInv
  <2> QED
    BY <2>1, StepCases, ExecKept
<1>3. SwitchTypeInv /\ ExecInv => ExecutionsCover
  <2> SUFFICES ASSUME SwitchTypeInv, ExecInv PROVE ExecutionsCover
    OBVIOUS
  <2> DEFINE done == {s \in DOMAIN sessions : sessions[s].progress = 4}
  <2>1. DOMAIN sessions = 1 .. Len(sessions) /\ Len(sessions) \in Nat
    BY DEF SwitchTypeInv, SessionTypes
  <2>2. IsFiniteSet(DOMAIN sessions)
    BY <2>1, FS_Interval
  <2>3. done \subseteq Executed /\ Executed \subseteq DOMAIN sessions
    BY DEF Executed
  <2>4. /\ IsFiniteSet(Executed)
        /\ Cardinality(done) <= Cardinality(Executed)
        /\ IsFiniteSet(done)
    BY <2>2, <2>3, FS_Subset
  <2>5. Cardinality(done) \in Nat /\ Cardinality(Executed) \in Nat
    BY <2>4, FS_CardinalityType
  <2>6. executions \in Nat
    BY DEF SwitchTypeInv, GridTypeOK
  <2> QED
    BY <2>4, <2>5, <2>6 DEF ExecInv, ExecutionsCover
<1> QED
  BY SwitchTypesCorrect, <1>1, <1>2, <1>3, PTL DEF SwitchSpec

---------------------------------------------------------------------------
(* The sequences that fail.                                                *)

\* Only a step of a sequence leads to a step of a sequence.
LEMMA OffSequence ==
  ASSUME ProcTypes, NEW c \in Client,
         \/ ControlStep(c) \/ LowerStep(c)
         \/ \E s \in targets[c] : DispatchNext(c, s)
  PROVE  pc'[c] \notin SwitchSteps
<1>m. ASSUME NEW to, to \notin SwitchSteps, pc' = [pc EXCEPT ![c] = to]
      PROVE  pc'[c] \notin SwitchSteps
  BY <1>m DEF ProcTypes, Process
<1> DEFINE Off == \E to : to \notin SwitchSteps /\ pc' = [pc EXCEPT ![c] = to]
<1>1. CASE ControlStep(c)
  <2>1. Off
    BY <1>1 DEF ControlStep, HandleOverride, SetControlMode, HandleDispatch,
                Start, Goto, Give, Finish, SwitchSteps
  <2> QED
    BY <2>1, <1>m
<1>2. CASE \E s \in targets[c] : DispatchNext(c, s)
  <2>1. Off \/ (pc' = pc /\ pc[c] = "ready")
    BY <1>2 DEF DispatchNext, Goto, SwitchSteps
  <2> QED
    BY <2>1, <1>m DEF SwitchSteps
<1>3. CASE SessionStep(c)
  <2>1. CASE \E s \in DOMAIN sessions :
               HandleConfirm(c, s) \/ HandleCancel(c, s) \/ HandleWait(c, s)
    BY <2>1, <1>m DEF HandleConfirm, HandleCancel, HandleWait, StartOn,
                      Start, EndSession, Goto, SwitchSteps
  <2>2. CASE ApplyStep(c) \/ SeparateStep(c)
    BY <2>2, <1>m
       DEF ApplyStep, HandleApply, ApplyMark, ApplyUndo, ApplyRegister,
           SeparateStep, HandleSeparate, SeparateOpen, SeparateOff, Start,
           Move, Give, Finish, Goto, SwitchSteps
  <2>3. CASE EndStep(c) \/ WaitStep(c) \/ DepartBill(c)
    BY <2>3, <1>m
       DEF EndStep, Unlatch, ResetBerth, Unallocate, WaitStep, WaitWake,
           WaitTimer, WaitTimeout, DepartBill, EndSession, Move, Give,
           Finish, Goto, SwitchSteps
  <2>4. CASE ConfirmStep(c)
    BY <2>4, <1>m
       DEF ConfirmStep, ConfirmPhase, ConfirmSync, ConfirmMatch,
           ConfirmClose, ConfirmOnGrid, ConfirmOccupy, ConfirmMeter,
           ConfirmConnected, ConfirmAnnounce, ConfirmFail, EndSession,
           Move, Give, Finish, Goto, SwitchSteps
  <2> QED
    BY <1>3, <2>1, <2>2, <2>3, <2>4 DEF SessionStep
<1>4. CASE CapacityStep(c)
  <2>1. CASE OccupyStep(c)
    BY <2>1, <1>m
       DEF OccupyStep, HandleOccupy, AllocateRefresh, AllocateDrop,
           AllocateCached, AllocateGrant, OccupyMark, Start, Move, Give,
           Finish, Goto, SwitchSteps
  <2>2. CASE \/ \E b \in Berth : HandleDepart(c, b)
             \/ DepartMark(c) \/ DepartRelease(c) \/ DepartIdle(c)
    BY <2>2, <1>m
       DEF HandleDepart, DepartMark, DepartRelease, DepartIdle, Start, Move,
           Give, Finish, Goto, SwitchSteps
  <2>3. CASE RebuildStep(c)
    <3>1. Off \/ (pc' = pc /\ pc[c] \in {"occupants", "syncing"})
      <4>1. CASE \E b \in Berth : RebuildOccupant(c, b) \/ SyncRelease(c, b)
        BY <4>1 DEF RebuildOccupant, SyncRelease
      <4>2. CASE HandleRebuild(c) \/ RebuildDone(c)
        BY <4>2 DEF HandleRebuild, RebuildDone, Start, Give, Finish, Goto,
                    SwitchSteps
      <4>3. CASE RebuildList(c) \/ RebuildStore(c) \/ RebuildSync(c)
        BY <4>3 DEF RebuildList, RebuildStore, RebuildSync, Goto, SwitchSteps
      <4> QED
        BY <2>3, <4>1, <4>2, <4>3 DEF RebuildStep
    <3> QED
      BY <3>1, <1>m DEF SwitchSteps
  <2> QED
    BY <1>4, <2>1, <2>2, <2>3 DEF CapacityStep
<1> QED
  BY <1>1, <1>2, <1>3, <1>4 DEF LowerStep

\* What a sequence that nobody disturbed knows of its berth: until it works
\* on the berth and after it has put it back, the berth is as it was found;
\* in between the copy is, and at most the mooring was added.
Knows(c) ==
  LET r == req[c] IN
  /\ pc[c] \in {"set syncing", "unload", "copy", "set berth", "restore grid"}
       => berths[r.berth] = r.found
  /\ pc[c] \in {"set berth", "shut", "restore"} =>
       /\ r.before = r.found
       /\ State(r.berth) \in {r.found.state, "settled"}

UndoneInv ==
  \A c \in Client \ disturbed :
    pc[c] \in SwitchSteps /\ req[c].berth # None => Knows(c)

\* The steps of the sequence itself.
LEMMA SequenceKnows ==
  ASSUME SwitchTypeInv, NEW c \in Client, SequenceStep(c),
         pc'[c] \in SwitchSteps, req'[c].berth # None,
         pc[c] \in SwitchSteps /\ req[c].berth # None => Knows(c)
  PROVE  Knows(c)'
<1>1. /\ ProcTypes
      /\ pc \in [Process -> AllSteps] /\ c \in Process
      /\ req \in [Client -> AllRequests]
      /\ berths \in [Berth -> BerthRecord]
  BY DEF SwitchTypeInv, SessionTypes, ProcTypes, StoreTypes, Process
<1>2. ASSUME NEW on \in BOOLEAN, NEW b \in Berth \cup {None},
             NEW v \in Vessel \cup {None}, HandleSwitch(c, on, b, v)
      PROVE  Knows(c)'
  <2>1. /\ pc'[c] \in {"set syncing", "unload"}
        /\ req'[c].berth = b
        /\ req'[c].found = IF b = None THEN None ELSE berths[b]
        /\ berths' = berths
    BY <1>1, <1>2 DEF HandleSwitch, Start, Goto, storeVars
  <2> QED
    BY <2>1 DEF Knows
<1>3. CASE SwitchSetSyncing(c) \/ SwitchUnload(c)
  <2>1. /\ pc[c] \in {"set syncing", "unload"} /\ pc'[c] = "copy"
        /\ req' = req /\ berths' = berths
    BY <1>1, <1>3 DEF SwitchSetSyncing, SwitchUnload, Move, Goto, storeVars
  <2> QED
    BY <2>1 DEF Knows, SwitchSteps
<1>4. CASE SwitchCopy(c)
  <2>1. CASE Goto(c, "restore grid") /\ UNCHANGED req /\ req[c].berth = None
    BY <2>1
  <2>2. CASE req[c].berth # None /\ Goto(c, "set berth")
             /\ req' = [req EXCEPT ![c].before = berths[req[c].berth]]
    <3>1. pc[c] = "copy" /\ berths' = berths
      BY <1>4 DEF SwitchCopy, storeVars
    <3>2. req[c] \in Sequence
      BY <1>1, <3>1 DEF ProcTypes, Suits, SwitchSteps
    <3>3. req'[c] = [req[c] EXCEPT !.before = berths[req[c].berth]]
      BY <1>1, <2>2
    <3>4. /\ req'[c].berth = req[c].berth /\ req'[c].found = req[c].found
          /\ req'[c].before = berths[req[c].berth]
      BY <3>2, <3>3 DEF Sequence
    <3>5. pc'[c] = "set berth"
      BY <1>1, <2>2 DEF Goto
    <3>6. berths[req[c].berth] = req[c].found
      BY <2>2, <3>1 DEF Knows, SwitchSteps
    <3> QED
      BY <3>1, <3>4, <3>5, <3>6 DEF Knows, State
  <2> QED
    BY <1>4, <2>1, <2>2 DEF SwitchCopy
<1>5. CASE SwitchSetBerth(c) \/ SwitchShut(c)
  <2>1. /\ pc[c] \in {"set berth", "shut"}
        /\ pc'[c] \in {"shut", "restore", "set off", "ready"}
        /\ pc'[c] # "ready" => req' = req
    BY <1>1, <1>5
       DEF SwitchSetBerth, SwitchShut, Move, Give, Finish, Goto
  <2>2. pc'[c] \in {"shut", "restore"} =>
          \/ berths' = berths
          \/ MarkOccupied(req[c].berth, req[c].vessel)
    BY <1>1, <1>5
       DEF SwitchSetBerth, SwitchShut, Move, Give, Finish, Goto, storeVars
  <2>3. req[c].berth \in Berth
    BY <1>1, <2>1 DEF ProcTypes, Suits, CopySteps
  <2>4. MarkOccupied(req[c].berth, req[c].vessel) =>
          berths'[req[c].berth].state = "settled"
    BY <1>1, <2>3 DEF MarkOccupied, Put
  <2>5. /\ req[c].before = req[c].found
        /\ berths[req[c].berth].state \in {req[c].found.state, "settled"}
    BY <2>1, <2>3 DEF Knows, SwitchSteps, State
  <2> QED
    BY <2>1, <2>2, <2>4, <2>5 DEF Knows, SwitchSteps, State
<1>6. CASE SwitchSetOff(c) \/ SwitchRestoreGrid(c)
  BY <1>1, <1>6
     DEF SwitchSetOff, SwitchRestoreGrid, Give, Finish, Goto, SwitchSteps
<1>7. CASE SwitchRestore(c)
  <2>1. /\ pc[c] = "restore" /\ pc'[c] = "restore grid" /\ req' = req
        /\ berths' = [berths EXCEPT ![req[c].berth] = req[c].before]
    BY <1>1, <1>7 DEF SwitchRestore, RestoreOne, Put, Move, Goto
  <2>2. req[c].berth \in Berth
    BY <1>1, <2>1 DEF ProcTypes, Suits, CopySteps
  <2>3. req[c].before = req[c].found
    BY <2>1 DEF Knows, SwitchSteps
  <2> QED
    BY <1>1, <2>1, <2>2, <2>3 DEF Knows
<1> QED
  BY <1>2, <1>3, <1>4, <1>5, <1>6, <1>7 DEF SequenceStep

\* A step disturbs the others if it touches the grid or a berth, and a
\* sequence that was disturbed stays so.
LEMMA Undisturbed ==
  ASSUME SwitchTypeInv, NEW p \in Client, ClientStep(p), History(p),
         NEW c \in Client \ disturbed', pc'[c] \in SwitchSteps
  PROVE  /\ c \notin disturbed
         /\ c # p => /\ pc'[c] = pc[c] /\ req'[c] = req[c]
                     /\ berths' = berths
         /\ c = p => SequenceStep(c)
<1>1. c \notin disturbed /\ (c # p => berths' = berths)
  BY DEF History, Disturb
<1>2. c # p => pc'[c] = pc[c] /\ req'[c] = req[c]
  <2>1. ProcTypes /\ \E to \in AllSteps, r \in AllRequests : Goes(p, to, r)
    BY ClientEffects DEF ClientEffect, SwitchTypeInv, SessionTypes
  <2> QED
    BY <2>1, GoesOthers
<1>3. c = p => SequenceStep(c)
  BY OffSequence DEF ClientStep, SwitchTypeInv, SessionTypes
<1> QED
  BY <1>1, <1>2, <1>3

LEMMA UndoneKept ==
  ASSUME SwitchTypeInv, UndoneInv, NEW p \in Client, ClientStep(p), History(p)
  PROVE  UndoneInv'
<1> SUFFICES ASSUME NEW c \in Client \ disturbed', pc'[c] \in SwitchSteps,
                    req'[c].berth # None
             PROVE  Knows(c)'
  BY DEF UndoneInv
<1>1. /\ c \notin disturbed
      /\ c # p => /\ pc'[c] = pc[c] /\ req'[c] = req[c]
                  /\ berths' = berths
      /\ c = p => SequenceStep(c)
  BY Undisturbed
<1>2. pc[c] \in SwitchSteps /\ req[c].berth # None => Knows(c)
  BY <1>1 DEF UndoneInv
<1>3. CASE c = p
  BY <1>1, <1>2, <1>3, SequenceKnows
<1>4. CASE c # p
  BY <1>1, <1>2, <1>4 DEF Knows, State
<1> QED
  BY <1>3, <1>4

\* A sequence that fails with nobody else at the grid or at a berth leaves
\* the grid, the berth and the cache as it found them, in every run and
\* whichever of its steps failed.
THEOREM SequenceUndoneHolds == SwitchSpec => SequenceUndone
<1>1. SwitchInit => UndoneInv
  BY DEF SwitchInit, ConnectInit, Init, UndoneInv, Process, SwitchSteps
<1>2. SwitchTypeInv /\ UndoneInv /\ [SwitchNext]_switchVars => UndoneInv'
  <2>1. ASSUME UndoneInv, Rests PROVE UndoneInv'
    BY <2>1 DEF Rests, historyVars, storeVars, UndoneInv, Knows, State
  <2> QED
    BY <2>1, StepCases, UndoneKept
<1> DEFINE Undone ==
      \A c \in Client :
        (SwitchRestoreGrid(c) /\ c \notin disturbed) =>
          LET r == req[c] IN
          /\ grid' = r.previous
          /\ r.berth # None =>
               /\ berths[r.berth] = r.found
               /\ CachedState(r.berth) = r.found.state
<1>3. SwitchTypeInv /\ UndoneInv => Undone
  <2> SUFFICES ASSUME SwitchTypeInv, UndoneInv, NEW c \in Client \ disturbed,
                      SwitchRestoreGrid(c)
               PROVE  /\ grid' = req[c].previous
                      /\ req[c].berth # None =>
                           /\ berths[req[c].berth] = req[c].found
                           /\ CachedState(req[c].berth) = req[c].found.state
    OBVIOUS
  <2>1. pc[c] = "restore grid" /\ grid' = req[c].previous
    BY DEF SwitchRestoreGrid, SetGridState
  <2>2. ASSUME req[c].berth # None
        PROVE  /\ berths[req[c].berth] = req[c].found
               /\ CachedState(req[c].berth) = req[c].found.state
    <3>1. berths[req[c].berth] = req[c].found
      BY <2>1, <2>2 DEF UndoneInv, Knows, SwitchSteps
    <3>2. req[c].berth \in Berth
      BY <2>1, <2>2 DEF SwitchTypeInv, SessionTypes, ProcTypes, Suits,
                        SwitchSteps, Sequence
    <3> QED
      BY <3>1, <3>2
         DEF SwitchTypeInv, StoreTypes, CacheCoherent, CachedState, State
  <2> QED
    BY <2>1, <2>2
<1> HIDE DEF Undone
<1>4. SwitchTypeInv /\ UndoneInv /\ [SwitchNext]_switchVars
        => [Undone]_switchVars
  BY <1>3
<1> QED
  <2>1. SwitchSpec => [][Undone]_switchVars
    BY SwitchTypesCorrect, <1>1, <1>2, <1>4, PTL DEF SwitchSpec
  <2> QED
    BY <2>1 DEF SequenceUndone, Undone

---------------------------------------------------------------------------
(* Who answers for a berth that is allocating.                             *)

\* A confirmation that took session s on has moored its vessel.
Moored(s) ==
  \E c \in Client : pc[c] \in {"meter", "connected"} /\ req[c].session = s

\* Somebody answers for berth b and has not moored its vessel yet.  An open
\* session that is moored already answers for nothing: whoever made the
\* berth allocating since will not find it there when it fails.
Answers(b) ==
  \/ \E s \in DOMAIN sessions :
       Open(s) /\ sessions[s].berth = b /\ ~Moored(s)
  \/ \E c \in Client : pc[c] = "register" /\ req[c].berth = b
  \/ \E c \in Client :
       pc[c] \in {"unlatch", "reset"} /\ Serving(c).berth = b

\* Client c is a sequence that has copied its berth while it was allocating.
Copied(c) ==
  /\ pc[c] \in {"set berth", "shut", "restore"}
  /\ req[c].before.state = "allocating"

\* Somebody answers for every berth that is allocating, and for every berth
\* that a sequence, undisturbed so far, would make so by putting it back.
OwnedInv ==
  /\ \A b \in InState("allocating") : Answers(b) \/ b \in putBack
  /\ \A c \in Client \ disturbed :
       Copied(c) => Answers(req[c].berth) \/ req[c].berth \in putBack

\* Who answers for a berth does so until the berth is reset or moored at, or
\* hands it on.
LEMMA AnswersKept ==
  ASSUME SwitchTypeInv, NEW c \in Client, ClientStep(c),
         NEW b \in Berth, Answers(b)
  PROVE  \/ Answers(b)'
         \/ pc[c] = "reset" /\ MarkIdle(b)
         \/ /\ pc[c] = "berth"
            /\ \E v \in Vessel : MayOccupy(b, v) /\ MarkOccupied(b, v)
<1>0. PICK to \in AllSteps, r \in AllRequests :
        Goes(c, to, r) /\ SessionEffect(c, to, r)
  BY ClientEffects DEF ClientEffect
<1> DEFINE Lost == \/ pc[c] = "reset" /\ MarkIdle(b)
                   \/ /\ pc[c] = "berth"
                      /\ \E v \in Vessel :
                           MayOccupy(b, v) /\ MarkOccupied(b, v)
<1>1. SessionTypes /\ ProcTypes
  BY DEF SwitchTypeInv, SessionTypes
<1>2. /\ pc'[c] = to /\ req'[c] = r
      /\ \A d \in Client \ {c} : pc'[d] = pc[d] /\ req'[d] = req[d]
  BY <1>0, <1>1, GoesOthers
<1>3. /\ pc[c] = "reset" => MarkIdle(Serving(c).berth)
      /\ to = "meter" => /\ r = req[c] /\ pc[c] = "berth"
                         /\ MayOccupy(Serving(c).berth, Serving(c).vessel)
                         /\ MarkOccupied(Serving(c).berth, Serving(c).vessel)
      /\ to = "connected" => r = req[c] /\ pc[c] = "meter"
  BY <1>0, StepDoesWork DEF OwnWork
<1>4. /\ \A s \in DOMAIN sessions :
           s \in DOMAIN sessions' /\ sessions'[s].berth = sessions[s].berth
      /\ \A s \in DOMAIN sessions' \ DOMAIN sessions :
           sessions'[s].progress = 1
  BY <1>0, <1>1, SessionsGrow
<1>5. \A d \in Client :
        pc[d] \in SessionSteps => req[d].session \in DOMAIN sessions
  BY <1>1, ServedExists
\* A session that stays open answers for its berth until it is moored.
<1>6. ASSUME NEW s \in DOMAIN sessions, sessions[s].berth = b, ~Moored(s),
             Open(s)'
      PROVE  Answers(b)' \/ Lost
  <2>1. CASE to = "meter" /\ r.session = s
    <3>1. Serving(c) = sessions[s] /\ pc[c] = "berth"
      BY <2>1, <1>3 DEF Serving
    <3>2. Serving(c).vessel \in Vessel
      BY <3>1, <1>1, ServedTyped DEF SessionSteps, ConfirmSteps
    <3> QED
      BY <1>3, <1>6, <2>1, <3>1, <3>2
  <2>2. CASE ~(to = "meter" /\ r.session = s)
    <3>1. ~\E d \in Client :
             pc'[d] \in {"meter", "connected"} /\ req'[d].session = s
      BY <1>2, <1>3, <1>6, <2>2 DEF Moored
    <3> QED
      BY <1>4, <1>6, <3>1 DEF Answers, Moored
  <2> QED
    BY <2>1, <2>2
<1>7. ASSUME NEW s \in DOMAIN sessions, Open(s), sessions[s].berth = b,
             ~Moored(s)
      PROVE  Answers(b)' \/ Lost
  <2>1. CASE Ends(c, to, r) /\ r.session = s
    <3>1. pc'[c] \in {"unlatch", "reset"} /\ req'[c].session = s
      BY <1>2, <2>1 DEF Ends
    <3> QED
      BY <1>4, <1>7, <3>1 DEF Answers, Serving
  <2>2. CASE ~(Ends(c, to, r) /\ r.session = s)
    <3>1. Open(s)'
      <4>1. CASE LeavesAlone(c, to, r) \/ Closes(c, to, r)
        BY <1>7, <4>1 DEF LeavesAlone, Closes, connectorVars, Open
      <4>2. CASE Registers(c, to, r)
        BY <1>1, <1>7, <4>2, RegistersGrows DEF Open
      <4>3. CASE TakesOn(c, to, r)
        <5>1. Becomes(r.session, "connecting", 3)
          BY <1>1, <4>3, TakesBecomes
        <5> QED
          BY <1>7, <5>1 DEF Becomes, Open
      <4>4. CASE Ends(c, to, r)
        <5>1. \E state \in {"failed", "cancelled", "idle"} :
                Becomes(r.session, state, sessions[r.session].progress)
          BY <1>1, <4>4, EndsBecomes
        <5> QED
          BY <1>7, <2>2, <4>4, <5>1 DEF Becomes, Open
      <4>5. CASE Connects(c, to, r)
        <5>1. /\ Becomes(req[c].session, "connected", 4)
              /\ pc[c] = "connected"
          BY <1>1, <4>5, ConnectsBecomes DEF Connects
        <5>2. req[c].session # s
          BY <1>7, <5>1 DEF Moored
        <5> QED
          BY <1>7, <5>1, <5>2 DEF Becomes, Open
      <4> QED
        BY <1>0, <4>1, <4>2, <4>3, <4>4, <4>5 DEF SessionEffect
    <3> QED
      BY <1>6, <1>7, <3>1
  <2> QED
    BY <2>1, <2>2
\* An application hands its berth on to the session it registers.
<1>8. ASSUME NEW d \in Client, pc[d] = "register", req[d].berth = b
      PROVE  Answers(b)'
  <2>1. CASE d # c
    BY <1>2, <1>8, <2>1 DEF Answers
  <2>2. CASE d = c
    <3>1. Registers(c, to, r)
      BY <1>0, <1>8, <2>2
         DEF SessionEffect, LeavesAlone, OwnWork, TakesOn, Ends, Connects,
             Closes
    <3> DEFINE s == Len(sessions) + 1
    <3>2. /\ s \in DOMAIN sessions' /\ s \notin DOMAIN sessions
          /\ sessions'[s].state = "verifying"
          /\ sessions'[s].berth = b
          /\ to = "ready"
      BY <1>1, <1>8, <2>2, <3>1, RegistersGrows DEF Registers
    <3> HIDE DEF s
    <3>3. ~\E e \in Client :
             pc'[e] \in {"meter", "connected"} /\ req'[e].session = s
      BY <1>2, <1>5, <3>2 DEF SessionSteps, ConfirmSteps
    <3> QED
      BY <3>2, <3>3 DEF Answers, Open, Moored
  <2> QED
    BY <2>1, <2>2
\* Who is about to reset the berth does so.
<1>9. ASSUME NEW d \in Client, pc[d] \in {"unlatch", "reset"},
             Serving(d).berth = b
      PROVE  Answers(b)' \/ Lost
  <2>0. req[d].session \in DOMAIN sessions
    BY <1>5, <1>9 DEF SessionSteps, Latching
  <2>1. CASE d # c
    BY <1>2, <1>4, <1>9, <2>0, <2>1 DEF Answers, Serving
  <2>2. CASE d = c /\ pc[c] = "unlatch"
    <3>1. Closes(c, to, r)
      BY <1>0, <2>2
         DEF SessionEffect, LeavesAlone, OwnWork, Registers, TakesOn, Ends,
             Connects
    <3>2. to = "reset" /\ r = req[c]
      BY <2>2, <3>1 DEF Closes
    <3> QED
      BY <1>2, <1>4, <1>9, <2>0, <2>2, <3>2 DEF Answers, Serving
  <2>3. CASE d = c /\ pc[c] = "reset"
    BY <1>3, <1>9, <2>3
  <2> QED
    BY <1>9, <2>1, <2>2, <2>3
<1> QED
  BY <1>7, <1>8, <1>9 DEF Answers

\* Where an allocation can come from: it was there, an application made it,
\* or a sequence put it back.
LEMMA AllocatingFrom ==
  ASSUME SwitchTypeInv, NEW p \in Client, ClientStep(p),
         NEW b \in Berth, berths'[b].state = "allocating"
  PROVE  \/ berths' = berths /\ b \in InState("allocating")
         \/ /\ b \in InState("allocating")
            /\ berths'[b] = berths[b]
         \/ pc'[p] = "register" /\ req'[p].berth = b
         \/ /\ SwitchRestore(p) /\ req[p].berth = b
            /\ req[p].before.state = "allocating"
<1>1. berths \in [Berth -> BerthRecord] /\ StoreChange(p)
  BY ClientEffects DEF SwitchTypeInv, StoreTypes
<1>2. ASSUME NEW a \in Berth, NEW r, Put(a, r), r.state # "allocating"
      PROVE  b \in InState("allocating") /\ berths'[b] = berths[b]
  <2>1. berths' = [berths EXCEPT ![a] = r]
    BY <1>2 DEF Put
  <2>2. a # b
    BY <1>1, <1>2, <2>1
  <2> QED
    BY <1>1, <2>1, <2>2 DEF InState, State
<1>3. CASE UNCHANGED storeVars
  BY <1>3 DEF storeVars, InState, State
<1>4. ASSUME NEW a \in Berth, NEW v \in Vessel, MarkOccupied(a, v)
      PROVE  b \in InState("allocating") /\ berths'[b] = berths[b]
  BY <1>2, <1>4 DEF MarkOccupied
<1>5. ASSUME NEW a \in Berth, MarkReleasing(a)
      PROVE  b \in InState("allocating") /\ berths'[b] = berths[b]
  <2>1. [berths[a] EXCEPT !.state = "releasing"].state # "allocating"
    BY <1>1 DEF BerthRecord
  <2> QED
    BY <1>2, <1>5, <2>1 DEF MarkReleasing
<1>6. ASSUME NEW a \in Berth, Put(a, IdleRecord)
      PROVE  b \in InState("allocating") /\ berths'[b] = berths[b]
  BY <1>2, <1>6 DEF IdleRecord
<1>7. CASE /\ pc'[p] = "register" /\ req'[p] = req[p]
           /\ req[p].berth \in Berth /\ MarkAllocating(req[p].berth)
  <2>1. CASE req[p].berth = b
    BY <1>7, <2>1
  <2>2. CASE req[p].berth # b
    BY <1>1, <1>7, <2>2 DEF MarkAllocating, Put, InState, State
  <2> QED
    BY <2>1, <2>2
<1>8. CASE pc[p] = "restore" /\ SwitchRestore(p)
  <2>1. berths' = [berths EXCEPT ![req[p].berth] = req[p].before]
    BY <1>8 DEF SwitchRestore, RestoreOne, Put
  <2>2. CASE req[p].berth = b
    BY <1>1, <1>8, <2>1, <2>2
  <2>3. CASE req[p].berth # b
    BY <1>1, <2>1, <2>3 DEF InState, State
  <2> QED
    BY <2>2, <2>3
<1>9. CASE pc[p] = "occupants" /\ RebuildFromLive(live[p])
  <2>1. live[p] \in [Berth -> LiveRecord] /\ berths' = live[p]
    BY <1>9 DEF RebuildFromLive, SwitchTypeInv, LiveTypes
  <2>2. berths'[b].state \in {"idle", "settled"}
    BY <2>1 DEF LiveRecord
  <2> QED
    BY <2>2
<1> QED
  BY <1>1, <1>3, <1>4, <1>5, <1>6, <1>7, <1>8, <1>9 DEF StoreChange

\* A berth stays among those put back as long as it is allocating or a
\* sequence may make it so again.
LEMMA PutBackStays ==
  ASSUME NEW p \in Client, History(p), NEW b \in Berth, b \in putBack,
         \/ berths'[b].state = "allocating"
         \/ \E c \in Client : Copied(c)' /\ req'[c].berth = b
  PROVE  b \in putBack'
BY DEF History, PutBack, CopiedAllocating, Copied

\* A berth that is left alone, or is still allocating, keeps who answers for
\* it.
LEMMA AnswersStay ==
  ASSUME SwitchTypeInv, NEW p \in Client, ClientStep(p),
         NEW b \in Berth, Answers(b),
         \/ berths'[b].state = "allocating"
         \/ berths' = berths /\ State(b) # "idle"
         \/ SequenceStep(p)
  PROVE  Answers(b)'
<1>1. berths \in [Berth -> BerthRecord] /\ ProcTypes
  BY DEF SwitchTypeInv, StoreTypes, SessionTypes
<1>2. ASSUME pc[p] = "reset", MarkIdle(b) PROVE FALSE
  <2>1. \/ berths' = berths /\ State(b) = "idle"
        \/ /\ State(b) # "idle"
           /\ berths' = [berths EXCEPT ![b] = IdleRecord]
    BY <1>2 DEF MarkIdle, Put, storeVars
  <2>2. berths'[b].state = "idle"
    BY <1>1, <2>1 DEF IdleRecord, State
  <2>3. ~SequenceStep(p)
    BY <1>2 DEF SequenceStep, HandleSwitch, Start, SwitchSetSyncing,
                SwitchUnload, SwitchCopy, SwitchSetBerth, SwitchShut,
                SwitchSetOff, SwitchRestore, SwitchRestoreGrid
  <2> QED
    BY <2>2, <2>3 DEF State
<1>3. ASSUME pc[p] = "berth", NEW v \in Vessel, MayOccupy(b, v),
             MarkOccupied(b, v)
      PROVE  FALSE
  <2>1. /\ State(b) \in {"idle", "allocating"}
        /\ berths' = [berths EXCEPT ![b] = [state |-> "settled", vessel |-> v]]
    BY <1>3 DEF MayOccupy, MarkOccupied, Put
  <2>2. berths'[b].state = "settled"
    BY <1>1, <2>1
  <2>3. ~SequenceStep(p)
    BY <1>3 DEF SequenceStep, HandleSwitch, Start, SwitchSetSyncing,
                SwitchUnload, SwitchCopy, SwitchSetBerth, SwitchShut,
                SwitchSetOff, SwitchRestore, SwitchRestoreGrid
  <2> QED
    BY <2>1, <2>2, <2>3 DEF State
<1> QED
  BY <1>2, <1>3, AnswersKept

\* Where the copy of a sequence comes from.
LEMMA CopyFrom ==
  ASSUME SwitchTypeInv, NEW c \in Client, SequenceStep(c),
         pc'[c] \in CopySteps
  PROVE  /\ req'[c].berth = req[c].berth
         /\ \/ req'[c].before = berths[req[c].berth]
            \/ pc[c] \in {"set berth", "shut"} /\ req'[c] = req[c]
<1>1. ProcTypes /\ c \in Process
  BY DEF SwitchTypeInv, SessionTypes, Process
<1>2. CASE SwitchCopy(c)
  <2>1. pc[c] = "copy" /\ req[c] \in Sequence
    BY <1>1, <1>2 DEF SwitchCopy, ProcTypes, Suits, SwitchSteps
  <2>2. req' = [req EXCEPT ![c].before = berths[req[c].berth]]
    BY <1>1, <1>2 DEF SwitchCopy, Goto, ProcTypes, CopySteps
  <2>3. req'[c] = [req[c] EXCEPT !.before = berths[req[c].berth]]
    BY <1>1, <2>2 DEF ProcTypes
  <2> QED
    BY <2>1, <2>3 DEF Sequence
<1>3. CASE SwitchSetBerth(c) \/ SwitchShut(c)
  <2>1. pc[c] \in {"set berth", "shut"} /\ req'[c] = req[c]
    BY <1>1, <1>3
       DEF SwitchSetBerth, SwitchShut, Move, Give, Finish, Goto, ProcTypes,
           CopySteps
  <2> QED
    BY <2>1
<1>4. ASSUME \/ \E on \in BOOLEAN, b \in Berth \cup {None},
                  v \in Vessel \cup {None} : HandleSwitch(c, on, b, v)
             \/ SwitchSetSyncing(c) \/ SwitchUnload(c) \/ SwitchSetOff(c)
             \/ SwitchRestore(c) \/ SwitchRestoreGrid(c)
      PROVE  FALSE
  <2>1. \E to \in {"set syncing", "unload", "copy", "restore grid", "ready"} :
          pc' = [pc EXCEPT ![c] = to]
    BY <1>4 DEF HandleSwitch, SwitchSetSyncing, SwitchUnload, SwitchSetOff,
                SwitchRestore, SwitchRestoreGrid, Start, Move, Give, Finish,
                Goto
  <2> QED
    BY <1>1, <2>1 DEF ProcTypes, CopySteps
<1> QED
  BY <1>2, <1>3, <1>4 DEF SequenceStep

\* A sequence copies its berth while it is allocating, or did so before.
LEMMA CopiedFrom ==
  ASSUME SwitchTypeInv, NEW c \in Client, SequenceStep(c), Copied(c)'
  PROVE  \/ berths[req'[c].berth].state = "allocating"
         \/ Copied(c) /\ req[c].berth = req'[c].berth
<1>1. pc'[c] \in CopySteps /\ req'[c].before.state = "allocating"
  BY DEF Copied, CopySteps
<1>2. /\ req'[c].berth = req[c].berth
      /\ \/ req'[c].before = berths[req[c].berth]
         \/ pc[c] \in {"set berth", "shut"} /\ req'[c] = req[c]
  BY <1>1, CopyFrom
<1> QED
  BY <1>1, <1>2 DEF Copied

LEMMA OwnedKept ==
  ASSUME SwitchTypeInv, SwitchTypeInv', UndoneInv, OwnedInv,
         NEW p \in Client, ClientStep(p), History(p)
  PROVE  OwnedInv'
<1>1. /\ ProcTypes
      /\ berths \in [Berth -> BerthRecord]
  BY DEF SwitchTypeInv, SessionTypes, StoreTypes
<1>2. ASSUME NEW b \in Berth, berths'[b].state = "allocating"
      PROVE  Answers(b)' \/ b \in putBack'
  <2>1. CASE b \in InState("allocating")
    <3>1. Answers(b) \/ b \in putBack
      BY <2>1 DEF OwnedInv
    <3> QED
      BY <1>2, <3>1, PutBackStays, AnswersStay
  <2>2. CASE pc'[p] = "register" /\ req'[p].berth = b
    BY <2>2 DEF Answers
  <2>3. CASE /\ SwitchRestore(p) /\ req[p].berth = b
             /\ req[p].before.state = "allocating"
    <3>1. CASE p \in disturbed
      BY <1>2, <2>3, <3>1 DEF History, PutBack
    <3>2. CASE p \notin disturbed
      <4>1. Copied(p)
        BY <2>3 DEF Copied, SwitchRestore
      <4>2. Answers(b) \/ b \in putBack
        BY <2>3, <3>2, <4>1 DEF OwnedInv
      <4> QED
        BY <1>2, <4>2, PutBackStays, AnswersStay
    <3> QED
      BY <3>1, <3>2
  <2> QED
    BY <1>2, <2>1, <2>2, <2>3, AllocatingFrom
<1>3. ASSUME NEW c \in Client \ disturbed', Copied(c)',
             NEW b, b = req'[c].berth
      PROVE  Answers(b)' \/ b \in putBack'
  <2>1. /\ pc'[c] \in {"set berth", "shut", "restore"}
        /\ req'[c].before.state = "allocating"
    BY <1>3 DEF Copied
  <2>2. /\ c \notin disturbed
        /\ c # p => /\ pc'[c] = pc[c] /\ req'[c] = req[c]
                    /\ berths' = berths
        /\ c = p => SequenceStep(c)
    BY <2>1, Undisturbed DEF SwitchSteps
  <2>3. b \in Berth \ {None}
    BY <1>3, <2>1 DEF SwitchTypeInv, SessionTypes, ProcTypes, Suits, CopySteps
  <2>4. CASE c # p
    <3>1. /\ pc'[c] = pc[c] /\ req'[c] = req[c] /\ berths' = berths
          /\ req[c].berth = b
      BY <1>3, <2>2, <2>4
    <3>2. Copied(c)
      BY <2>1, <3>1 DEF Copied
    <3>3. Answers(b) \/ b \in putBack
      BY <2>2, <3>1, <3>2 DEF OwnedInv
    <3>4. State(b) # "idle"
      <4>1. /\ req[c].before = req[c].found
            /\ State(b) \in {req[c].found.state, "settled"}
        BY <2>1, <2>2, <2>3, <3>1 DEF UndoneInv, Knows, SwitchSteps
      <4> QED
        BY <3>2, <4>1 DEF Copied
    <3>5. b \in putBack => b \in putBack'
      BY <1>3, <2>3, PutBackStays
    <3> QED
      BY <2>3, <3>1, <3>3, <3>4, <3>5, AnswersStay
  <2>5. CASE c = p
    <3>1. SequenceStep(c)
      BY <2>2, <2>5
    <3>2. \/ berths[b].state = "allocating"
          \/ Copied(c) /\ req[c].berth = b
      BY <1>3, <3>1, CopiedFrom
    <3>3. Answers(b) \/ b \in putBack
      BY <2>2, <2>3, <3>2 DEF OwnedInv, InState, State
    <3>4. b \in putBack => b \in putBack'
      BY <1>3, <2>3, PutBackStays
    <3>5. Answers(b) => Answers(b)'
      BY <2>3, <2>5, <3>1, AnswersStay
    <3> QED
      BY <3>3, <3>4, <3>5
  <2> QED
    BY <2>4, <2>5
<1>4. ASSUME NEW c \in Client \ disturbed', Copied(c)'
      PROVE  (Answers(req[c].berth) \/ req[c].berth \in putBack)'
  <2>1. PICK b : b = req'[c].berth
    OBVIOUS
  <2>2. Answers(b)' \/ b \in putBack'
    BY <1>3, <1>4, <2>1
  <2> QED
    BY <2>1, <2>2 DEF Answers, Serving
<1> QED
  BY <1>2, <1>4 DEF OwnedInv, InState, State

\* A berth that is allocating has somebody to answer for it, in every run,
\* unless a failed sequence that was disturbed put it back to that state.
THEOREM AllocatingOwnedHolds == SwitchSpec => []AllocatingOwned
<1>1. SwitchInit => UndoneInv /\ OwnedInv
  BY DEF SwitchInit, ConnectInit, Init, UndoneInv, OwnedInv, Copied, InState,
         State, NewStore, IdleRecord, Process, SwitchSteps
<1>2. /\ SwitchTypeInv /\ SwitchTypeInv' /\ UndoneInv /\ OwnedInv
      /\ [SwitchNext]_switchVars
      => UndoneInv' /\ OwnedInv'
  <2>1. ASSUME UndoneInv, OwnedInv, Rests PROVE UndoneInv' /\ OwnedInv'
    <3>1. /\ sessions' = sessions /\ req' = req /\ putBack' = putBack
          /\ berths' = berths /\ disturbed' = disturbed
          /\ \A c \in Client : pc'[c] = pc[c]
      BY <2>1 DEF Rests, connectorVars, historyVars, storeVars
    <3>2. UndoneInv'
      BY <2>1, <3>1 DEF UndoneInv, Knows, State
    <3>3. \A b : Answers(b) => Answers(b)'
      BY <3>1 DEF Answers, Open, Moored, Serving
    <3>4. OwnedInv'
      BY <2>1, <3>1, <3>3 DEF OwnedInv, Copied, InState, State
    <3> QED
      BY <3>2, <3>4
  <2> QED
    BY <2>1, StepCases, UndoneKept, OwnedKept
<1>3. OwnedInv => AllocatingOwned
  BY DEF OwnedInv, AllocatingOwned, Answers, Owned
<1> QED
  BY SwitchTypesCorrect, <1>1, <1>2, <1>3, PTL DEF SwitchSpec

---------------------------------------------------------------------------
(* The books of the allocator, now that applications, failed sessions and  *)
(* what ends a session write to them as well.                              *)

\* A session's end and a failed application give back what the berth holds,
\* if it holds anything; an application is granted under the same check as
\* an occupation.  Nobody else comes to the books.
LEMMA NextBooksOf ==
  ASSUME SessionTypes, NEW c \in Client, ClientStep(c)
  PROVE  BooksStep
<1> USE DEF SessionTypes
<1>0. ASSUME UNCHANGED allocVars PROVE BooksStep
  BY <1>0 DEF BooksStep
<1>1. CASE ControlStep(c) \/ \E s \in targets[c] : DispatchNext(c, s)
  BY <1>0, <1>1 DEF ControlStep, HandleOverride, SetControlMode,
                    HandleDispatch, DispatchNext
<1>2. CASE SequenceStep(c)
  <2>1. ASSUME \/ \E on \in BOOLEAN, b \in Berth \cup {None},
                     v \in Vessel \cup {None} : HandleSwitch(c, on, b, v)
               \/ SwitchSetSyncing(c) \/ SwitchUnload(c) \/ SwitchCopy(c)
               \/ SwitchSetBerth(c) \/ SwitchShut(c) \/ SwitchSetOff(c)
               \/ SwitchRestore(c) \/ SwitchRestoreGrid(c)
        PROVE  UNCHANGED allocVars
    BY <2>1
       DEF HandleSwitch, SwitchSetSyncing, SwitchUnload, SwitchCopy,
           SwitchSetBerth, SwitchShut, SwitchSetOff, SwitchRestore,
           SwitchRestoreGrid
  <2> QED
    BY <1>0, <1>2, <2>1 DEF SequenceStep
<1>3. CASE SessionStep(c)
  <2>1. CASE ApplyUndo(c)
    <3>1. pc[c] = "undo" /\ RevokeIfAny(req[c].berth)
      BY <2>1 DEF ApplyUndo
    <3>2. req[c].berth \in Berth
      BY <3>1 DEF ProcTypes, Suits, ApplySteps, ApplyRequest
    <3> QED
      BY <3>1, <3>2, RevokeIfAnyStep
  <2>2. CASE Unallocate(c)
    <3>1. pc[c] = "unallocate" /\ RevokeIfAny(Serving(c).berth)
      BY <2>2 DEF Unallocate
    <3>2. Serving(c).berth \in Berth
      BY <3>1, ServedTyped DEF SessionSteps
    <3> QED
      BY <3>1, <3>2, RevokeIfAnyStep
  <2>3. ASSUME \/ \E s \in DOMAIN sessions :
                    \/ HandleConfirm(c, s) \/ HandleCancel(c, s)
                    \/ HandleWait(c, s)
               \/ \E b \in Berth, v \in Vessel, need \in Demand,
                     id \in RequestId, ok \in BOOLEAN :
                    HandleApply(c, b, v, need, id, ok)
               \/ ApplyMark(c) \/ ApplyRegister(c)
               \/ Unlatch(c) \/ ResetBerth(c)
               \/ WaitStep(c) \/ SeparateStep(c) \/ DepartBill(c)
        PROVE  UNCHANGED allocVars
    BY <2>3 DEF HandleConfirm, HandleCancel, HandleWait, HandleApply,
                ApplyMark, ApplyRegister, Unlatch, ResetBerth, WaitStep,
                WaitWake, WaitTimer, WaitTimeout, SeparateStep,
                HandleSeparate, SeparateOpen, SeparateOff, DepartBill,
                EndSession
  <2>4. ASSUME \/ ConfirmPhase(c) \/ ConfirmSync(c) \/ ConfirmMatch(c)
               \/ ConfirmClose(c) \/ ConfirmOnGrid(c) \/ ConfirmOccupy(c)
               \/ ConfirmMeter(c) \/ ConfirmConnected(c)
               \/ ConfirmAnnounce(c) \/ ConfirmFail(c)
        PROVE  UNCHANGED allocVars
    BY <2>4 DEF ConfirmPhase, ConfirmSync, ConfirmMatch, ConfirmClose,
                ConfirmOnGrid, ConfirmOccupy, ConfirmMeter,
                ConfirmConnected, ConfirmAnnounce, ConfirmFail, EndSession
  <2> QED
    BY <1>0, <1>3, <2>1, <2>2, <2>3, <2>4
       DEF SessionStep, ApplyStep, ConfirmStep, EndStep
<1>4. CASE CapacityStep(c)
  <2>1. CASE AllocateDrop(c)
    <3>1. pc[c] = "drop" /\ RevokeIfAny(req[c].berth)
      BY <2>1 DEF AllocateDrop
    <3>2. req[c] \in GrantRequest
      BY <3>1 DEF ProcTypes, Suits, GrantSteps
    <3>3. req[c].berth \in Berth
      BY <3>2 DEF GrantRequest, OccupyRequest, Request, ApplyRequest
    <3> QED
      BY <3>1, <3>3, RevokeIfAnyStep
  <2>2. CASE AllocateGrant(c)
    <3>1. /\ pc[c] = "grant"
          /\ \/ UNCHANGED allocVars
             \/ /\ ~HasAllocation(req[c].berth)
                /\ Fits(req[c].kva)
                /\ Grant(req[c].berth, req[c].vessel, req[c].kva)
      BY <2>2 DEF AllocateGrant
    <3>2. req[c] \in GrantRequest
      BY <3>1 DEF ProcTypes, Suits, GrantSteps
    <3>3. /\ req[c].berth \in Berth /\ req[c].vessel \in Vessel \cup {None}
          /\ req[c].kva \in Nat
          /\ 0 < req[c].kva /\ req[c].kva <= CapacityKVA[req[c].berth]
      BY <3>2, CapacityAssumption
         DEF GrantRequest, OccupyRequest, Request, ApplyRequest
    <3> QED
      BY <3>1, <3>3 DEF BooksStep
  <2>3. CASE DepartRelease(c)
    <3>1. /\ pc[c] = "release"
          /\ \/ UNCHANGED allocVars
             \/ HasAllocation(req[c].berth) /\ Revoke(req[c].berth)
      BY <2>3 DEF DepartRelease
    <3>2. req[c].berth \in Berth
      BY <3>1 DEF ProcTypes, Suits, DepartSteps, Request
    <3> QED
      BY <3>1, <3>2 DEF BooksStep
  <2>4. ASSUME \/ \E b \in Berth, v \in Vessel \cup {None}, need \in Demand :
                    HandleOccupy(c, b, v, need)
               \/ AllocateRefresh(c) \/ AllocateCached(c) \/ OccupyMark(c)
               \/ \E b \in Berth : HandleDepart(c, b)
               \/ DepartMark(c) \/ DepartIdle(c)
        PROVE  UNCHANGED allocVars
    BY <2>4 DEF HandleOccupy, AllocateRefresh, AllocateCached, OccupyMark,
                HandleDepart, DepartMark, DepartIdle
  <2> QED
    BY <1>0, <1>4, <2>1, <2>2, <2>3, <2>4, RebuildBooks
       DEF CapacityStep, OccupyStep
<1> QED
  BY <1>1, <1>2, <1>3, <1>4 DEF ClientStep, LowerStep

\* The same, for every step of the specification.
LEMMA SwitchBooksStep ==
  ASSUME SwitchTypeInv, [SwitchNext]_switchVars
  PROVE  BooksStep
<1>1. CASE UNCHANGED switchVars
  BY <1>1 DEF switchVars, connectVars, vars, allocVars, BooksStep
<1>2. CASE SwitchNext
  BY <1>2, NextBooksOf, ReconcileBooks DEF SwitchNext, SwitchTypeInv
<1> QED
  BY <1>1, <1>2

\* The books keep their types and are in order in every run.
LEMMA SwitchBooksCorrect == SwitchSpec => [](BooksTypes /\ BooksInv)
<1>1. SwitchInit => BooksTypes /\ BooksInv
  <2> SUFFICES ASSUME Init PROVE BooksTypes
    BY InitBooks DEF SwitchInit, ConnectInit
  <2> QED
    BY DEF Init, NewAllocator, BooksTypes
<1>2. SwitchTypeInv /\ BooksTypes /\ BooksInv /\ [SwitchNext]_switchVars
      => BooksTypes' /\ BooksInv'
  BY SwitchBooksStep, BooksTyped, BooksStepInv
<1> QED
  BY SwitchTypesCorrect, <1>1, <1>2, PTL DEF SwitchSpec

\* The ledger's open lines are the allocations, however applications,
\* confirmations that fail, cancellations, timeouts, departures, rebuilds
\* and sweeps overlap.
THEOREM SwitchLedgerExactHolds == SwitchSpec => []LedgerExact
<1>1. BooksInv => LedgerExact
  BY DEF BooksInv
<1> QED
  BY SwitchBooksCorrect, <1>1, PTL

\* The berths never draw more than the shore supplies, whoever asks for the
\* power: the connector, the registration of an occupation or both.
THEOREM SwitchCapacityBoundHolds == SwitchSpec => []CapacityBound
<1>1. BooksInv => CapacityBound
  BY DEF BooksInv
<1> QED
  BY SwitchBooksCorrect, <1>1, PTL

\* The connector, the control room and the switching sequences still use
\* the allocator as the abstract pool: no handler above it makes a step on
\* the books that the pool does not have.
THEOREM SwitchImplementsPoolHolds == SwitchSpec => ImplementsPool
<1>1. SwitchInit => Pool!PoolInit
  BY InitPool DEF SwitchInit, ConnectInit
<1>2. /\ SwitchTypeInv /\ BooksTypes /\ BooksInv /\ [SwitchNext]_switchVars
      => [Pool!PoolNext]_used
  BY SwitchBooksStep, BooksStepPool
<1>3. SwitchSpec => Pool!PoolSpec
  BY SwitchTypesCorrect, SwitchBooksCorrect, <1>1, <1>2, PTL
     DEF SwitchSpec, Pool!PoolSpec
<1> QED
  BY <1>3 DEF ImplementsPool

\* The cache that CanAccept reads says idle exactly where the table does, with
\* the rollbacks of sequences, which write to both, among those who change it.
THEOREM SwitchCacheCoherentHolds == SwitchSpec => []CacheCoherent
<1>1. SwitchTypeInv => CacheCoherent
  BY DEF SwitchTypeInv, StoreTypes
<1> QED
  BY SwitchTypesCorrect, <1>1, PTL

---------------------------------------------------------------------------
(* The names of vessels, now that rollbacks write to the berths as well.   *)

\* A record that names a vessel is that of a berth which is held.
Held(r) == r.vessel # None => r.state \in {"settled", "releasing"}

\* The copy a sequence may put back is such a record, and so is all that a
\* rebuild puts together.
HeldInv ==
  /\ VesselOnlyWhenHeld
  /\ \A c \in Client : pc[c] \in CopySteps => Held(req[c].before)
  /\ LiveOK
  /\ todo \in [Process -> SUBSET Berth]

LEMMA HeldRecords ==
  VesselOnlyWhenHeld <=> \A b \in Berth : Held(berths[b])
BY DEF VesselOnlyWhenHeld, Held, OccupiedBy, State

LEMMA PutHeld ==
  ASSUME StoreTypes, VesselOnlyWhenHeld, NEW b \in Berth, NEW r, Held(r),
         Put(b, r)
  PROVE  VesselOnlyWhenHeld'
<1>1. berths' = [berths EXCEPT ![b] = r]
  BY DEF Put
<1>2. \A a \in Berth : Held(berths[a])
  BY HeldRecords
<1>3. \A a \in Berth : Held(berths[a])'
  BY <1>1, <1>2 DEF StoreTypes, Held
<1> QED
  BY <1>3 DEF VesselOnlyWhenHeld, Held, OccupiedBy, State

\* Every kind of change to the store keeps the names where they belong.
LEMMA StoreHeld ==
  ASSUME SwitchTypeInv, HeldInv, NEW c \in Client, StoreChange(c)
  PROVE  VesselOnlyWhenHeld'
<1>0. /\ StoreTypes /\ ProcTypes /\ VesselOnlyWhenHeld
      /\ berths \in [Berth -> BerthRecord]
  BY DEF SwitchTypeInv, SessionTypes, StoreTypes, HeldInv
<1>1. CASE UNCHANGED storeVars
  BY <1>0, <1>1 DEF storeVars, VesselOnlyWhenHeld, OccupiedBy, State
<1>2. ASSUME NEW b \in Berth, NEW v \in Vessel, MarkOccupied(b, v)
      PROVE  VesselOnlyWhenHeld'
  <2>1. Held([state |-> "settled", vessel |-> v])
    BY DEF Held
  <2> QED
    BY <1>0, <1>2, <2>1, PutHeld DEF MarkOccupied
<1>3. ASSUME NEW b \in Berth, MarkReleasing(b)
      PROVE  VesselOnlyWhenHeld'
  <2>1. Held([berths[b] EXCEPT !.state = "releasing"])
    BY <1>0 DEF Held, BerthRecord
  <2> QED
    BY <1>0, <1>3, <2>1, PutHeld DEF MarkReleasing
<1>4. ASSUME NEW b \in Berth, Put(b, IdleRecord)
      PROVE  VesselOnlyWhenHeld'
  <2>1. Held(IdleRecord)
    BY DEF Held, IdleRecord
  <2> QED
    BY <1>0, <1>4, <2>1, PutHeld
<1>5. ASSUME NEW b \in Berth, MayAllocate(b), MarkAllocating(b)
      PROVE  VesselOnlyWhenHeld'
  <2>1. berths[b].vessel = None
    BY <1>0, <1>5 DEF MayAllocate, VesselOnlyWhenHeld, OccupiedBy, State
  <2>2. Held([berths[b] EXCEPT !.state = "allocating"])
    BY <1>0, <2>1 DEF Held, BerthRecord
  <2> QED
    BY <1>0, <1>5, <2>2, PutHeld DEF MarkAllocating
<1>6. CASE pc[c] = "restore" /\ SwitchRestore(c)
  <2>1. /\ req[c].berth \in Berth /\ Held(req[c].before)
        /\ Put(req[c].berth, req[c].before)
    BY <1>0, <1>6 DEF ProcTypes, Suits, CopySteps, HeldInv, SwitchRestore,
                      RestoreOne
  <2> QED
    BY <1>0, <2>1, PutHeld
<1>7. CASE pc[c] = "occupants" /\ RebuildFromLive(live[c])
  <2>1. berths' = live[c]
    BY <1>7 DEF RebuildFromLive
  <2> QED
    BY <1>7, <2>1 DEF HeldInv, LiveOK, VesselOnlyWhenHeld, OccupiedBy, State
<1> QED
  BY <1>1, <1>2, <1>3, <1>4, <1>5, <1>6, <1>7 DEF StoreChange

\* Every copy is that of a berth as it was at some time.
LEMMA CopiesHeld ==
  ASSUME SwitchTypeInv, HeldInv, NEW p \in Client, ClientStep(p),
         NEW c \in Client, pc'[c] \in CopySteps
  PROVE  Held(req'[c].before)
<1>0. PICK to \in AllSteps, r \in AllRequests : Goes(p, to, r) /\ Suits(to, r)
  BY ClientEffects DEF ClientEffect
<1>g. /\ pc'[p] = to /\ req'[p] = r
      /\ \A d \in Client \ {p} : pc'[d] = pc[d] /\ req'[d] = req[d]
  BY <1>0, GoesOthers DEF SwitchTypeInv, SessionTypes
<1>1. CASE c # p
  BY <1>1, <1>g DEF HeldInv
<1>2. CASE c = p
  <2>1. SequenceStep(c)
    <3>1. pc'[c] \in SwitchSteps
      BY DEF CopySteps, SwitchSteps
    <3> QED
      BY <1>2, <3>1, OffSequence DEF ClientStep, SwitchTypeInv, SessionTypes
  <2>2. \/ req'[c].before = berths[req[c].berth]
        \/ pc[c] \in CopySteps /\ req'[c] = req[c]
    BY <2>1, CopyFrom DEF CopySteps
  <2>3. req'[c].berth = req[c].berth
    BY <2>1, CopyFrom
  <2>4. req'[c].berth \in Berth
    BY <1>0, <1>2, <1>g DEF Suits
  <2> QED
    BY <2>2, <2>3, <2>4, HeldRecords DEF HeldInv
<1> QED
  BY <1>1, <1>2

\* The loops stay loops over berths.
LEMMA TodoTyped ==
  ASSUME todo \in [Process -> SUBSET Berth], NEW p \in Process,
         \/ todo' = todo
         \/ \E S \in SUBSET Berth : todo' = [todo EXCEPT ![p] = S]
  PROVE  todo' \in [Process -> SUBSET Berth]
OBVIOUS

\* What is looped over, and the maps that are made, stay in order.
LEMMA LoopsHeld ==
  ASSUME SwitchTypeInv, HeldInv, [SwitchNext]_switchVars
  PROVE  LiveOK' /\ todo' \in [Process -> SUBSET Berth]
<1>0. /\ LoopTypes(AllSteps) /\ LiveOK
      /\ todo \in [Process -> SUBSET Berth]
  <2>1. LiveRecord \subseteq BerthRecord
    BY DEF LiveRecord, BerthRecord, BerthState
  <2> QED
    BY <2>1 DEF SwitchTypeInv, SessionTypes, ProcTypes, LiveTypes, HeldInv,
                LoopTypes
<1>1. ASSUME NEW c \in Client, ClientStep(c), ~RebuildStep(c)
      PROVE  LiveOK' /\ todo' \in [Process -> SUBSET Berth]
  <2>1. /\ live' = live /\ todo' = todo
        /\ \/ pc' = pc
           \/ \E to : to # "occupants" /\ pc' = [pc EXCEPT ![c] = to]
    BY <1>1, LoopStays
  <2>2. c \in Process
    BY DEF Process
  <2>3. CASE pc' = pc
    BY <1>0, <2>1, <2>3 DEF LiveOK
  <2>4. ASSUME NEW to, to # "occupants", pc' = [pc EXCEPT ![c] = to]
        PROVE  LiveOK'
    BY <1>0, <2>1, <2>2, <2>4, LiveFrame
  <2> QED
    BY <1>0, <2>1, <2>3, <2>4
<1>2. ASSUME NEW c \in Client, RebuildStep(c)
      PROVE  LiveOK' /\ todo' \in [Process -> SUBSET Berth]
  <2>1. LiveOK'
    BY <1>0, <1>2, RebuildLiveInv
  <2>2. \/ todo' = todo
        \/ \E S \in SUBSET Berth : todo' = [todo EXCEPT ![c] = S]
    <3>1. CASE HandleRebuild(c) \/ RebuildSync(c)
      BY <3>1 DEF HandleRebuild, RebuildSync, Allocated, InState
    <3>2. ASSUME NEW b \in Berth, RebuildOccupant(c, b) \/ SyncRelease(c, b)
          PROVE  \E S \in SUBSET Berth : todo' = [todo EXCEPT ![c] = S]
      <4>1. todo' = [todo EXCEPT ![c] = todo[c] \ {b}]
        BY <3>2 DEF RebuildOccupant, SyncRelease
      <4>2. todo[c] \ {b} \in SUBSET Berth
        BY <1>0 DEF Process
      <4> QED
        BY <4>1, <4>2
    <3>3. CASE RebuildList(c) \/ RebuildStore(c) \/ RebuildDone(c)
      BY <3>3 DEF RebuildList, RebuildStore, RebuildDone, Give, Finish
    <3> QED
      BY <1>2, <3>1, <3>2, <3>3 DEF RebuildStep
  <2>3. c \in Process
    BY DEF Process
  <2> QED
    BY <1>0, <2>1, <2>2, <2>3, TodoTyped
<1>3. CASE ReconcileStep
  <2>1. LiveOK'
    BY <1>0, <1>3, ReconcileLiveInv
  <2>2. \/ todo' = todo
        \/ \E S \in SUBSET Berth : todo' = [todo EXCEPT ![Reconciler] = S]
    <3>1. CASE ReconcileTick \/ ReconcileList \/ ReconcileReport
      BY <3>1 DEF ReconcileTick, ReconcileList, ReconcileReport, InState
    <3>2. ASSUME NEW b \in Berth,
                 SyncRelease(Reconciler, b) \/ ReconcileAudit(b)
          PROVE  \E S \in SUBSET Berth :
                   todo' = [todo EXCEPT ![Reconciler] = S]
      <4>1. todo' = [todo EXCEPT ![Reconciler] = todo[Reconciler] \ {b}]
        BY <3>2 DEF ReconcileAudit, SyncRelease
      <4>2. todo[Reconciler] \ {b} \in SUBSET Berth
        BY <1>0 DEF Process
      <4> QED
        BY <4>1, <4>2
    <3> QED
      BY <1>3, <3>1, <3>2 DEF ReconcileStep
  <2>3. Reconciler \in Process
    BY DEF Process
  <2> QED
    BY <1>0, <2>1, <2>2, <2>3, TodoTyped
<1>4. CASE UNCHANGED switchVars
  BY <1>0, <1>4 DEF switchVars, connectVars, vars, LiveOK
<1> QED
  BY <1>1, <1>2, <1>3, <1>4 DEF SwitchNext

\* No freed berth keeps the name of a vessel, in any run of the connector and
\* the control room either: what a failed sequence puts back is a copy of a
\* berth that obeyed the rule when it was made.
THEOREM SwitchVesselOnlyWhenHeldHolds == SwitchSpec => []VesselOnlyWhenHeld
<1>1. SwitchInit => HeldInv
  <2> SUFFICES ASSUME SwitchInit PROVE HeldInv
    OBVIOUS
  <2>1. Init
    BY DEF SwitchInit, ConnectInit
  <2>2. VesselOnlyWhenHeld /\ LiveOK
    BY <2>1, InitStore DEF StoreInv
  <2> QED
    BY <2>1, <2>2 DEF Init, HeldInv, CopySteps, Process
<1>2. SwitchTypeInv /\ LatchInv /\ HeldInv /\ [SwitchNext]_switchVars => HeldInv'
  <2> SUFFICES ASSUME SwitchTypeInv, LatchInv, HeldInv, [SwitchNext]_switchVars
               PROVE  HeldInv'
    OBVIOUS
  <2>1. CASE Rests
    <3>1. VesselOnlyWhenHeld'
      BY <2>1 DEF Rests, storeVars, HeldInv, VesselOnlyWhenHeld, OccupiedBy,
                  State
    <3>2. \A c \in Client : pc'[c] \in CopySteps => Held(req'[c].before)
      BY <2>1 DEF Rests, HeldInv
    <3> QED
      BY <3>1, <3>2, LoopsHeld DEF HeldInv
  <2>2. ASSUME NEW c \in Client, ClientStep(c)
        PROVE  HeldInv'
    <3>1. VesselOnlyWhenHeld'
      BY <2>2, ClientEffects, StoreHeld
    <3>2. \A d \in Client : pc'[d] \in CopySteps => Held(req'[d].before)
      BY <2>2, CopiesHeld
    <3> QED
      BY <3>1, <3>2, LoopsHeld DEF HeldInv
  <2> QED
    BY <2>1, <2>2, StepCases
<1>3. HeldInv => VesselOnlyWhenHeld
  BY DEF HeldInv
<1> QED
  BY SwitchTypesCorrect, <1>1, <1>2, <1>3, PTL DEF SwitchSpec

---------------------------------------------------------------------------
(* The vessel of a berth that is taken.                                    *)

\* The record of a berth that is taken names the vessel that took it.
Named(r) == r.state \in {"settled", "releasing"} => r.vessel # None

\* So does the copy a sequence may put back; and nobody rebuilds.
NamedInv ==
  /\ \A b \in Berth : Named(berths[b])
  /\ \A c \in Client : pc[c] \in CopySteps => Named(req[c].before)
  /\ \A c \in Client : pc[c] \notin {"list", "occupants"}

LEMMA PutNamed ==
  ASSUME StoreTypes, \A a \in Berth : Named(berths[a]), NEW b \in Berth,
         NEW r, Named(r), Put(b, r)
  PROVE  \A a \in Berth : Named(berths[a])'
<1>1. berths' = [berths EXCEPT ![b] = r]
  BY DEF Put
<1> QED
  BY <1>1 DEF StoreTypes, Named

\* Every kind of change to the store but a rebuild keeps the names.
LEMMA StoreNamed ==
  ASSUME SwitchTypeInv, NamedInv, NEW c \in Client, StoreChange(c)
  PROVE  \A b \in Berth : Named(berths[b])'
<1> DEFINE Goal == \A b \in Berth : Named(berths[b])'
<1>0. /\ StoreTypes /\ ProcTypes /\ \A b \in Berth : Named(berths[b])
      /\ berths \in [Berth -> BerthRecord]
  BY DEF SwitchTypeInv, SessionTypes, StoreTypes, NamedInv
<1>1. CASE UNCHANGED storeVars
  BY <1>0, <1>1 DEF storeVars, Named
<1>2. ASSUME NEW b \in Berth, NEW v \in Vessel, MarkOccupied(b, v),
             MayOccupy(b, v)
      PROVE  Goal
  <2>1. Named([state |-> "settled", vessel |-> v])
    BY <1>2 DEF Named, MayOccupy
  <2> QED
    BY <1>0, <1>2, <2>1, PutNamed DEF MarkOccupied
<1>3. ASSUME NEW b \in Berth, MayRelease(b), MarkReleasing(b)
      PROVE  Goal
  <2>1. Named([berths[b] EXCEPT !.state = "releasing"])
    BY <1>0, <1>3 DEF Named, BerthRecord, MayRelease, State
  <2> QED
    BY <1>0, <1>3, <2>1, PutNamed DEF MarkReleasing
<1>4. ASSUME NEW b \in Berth, Put(b, IdleRecord)
      PROVE  Goal
  <2>1. Named(IdleRecord)
    BY DEF Named, IdleRecord
  <2> QED
    BY <1>0, <1>4, <2>1, PutNamed
<1>5. ASSUME NEW b \in Berth, MarkAllocating(b)
      PROVE  Goal
  <2>1. Named([berths[b] EXCEPT !.state = "allocating"])
    BY <1>0 DEF Named, BerthRecord
  <2> QED
    BY <1>0, <1>5, <2>1, PutNamed DEF MarkAllocating
<1>6. CASE pc[c] = "restore" /\ SwitchRestore(c)
  <2>1. /\ req[c].berth \in Berth /\ Named(req[c].before)
        /\ Put(req[c].berth, req[c].before)
    BY <1>0, <1>6 DEF ProcTypes, Suits, CopySteps, NamedInv, SwitchRestore,
                      RestoreOne
  <2> QED
    BY <1>0, <2>1, PutNamed
<1>7. ~(pc[c] = "occupants" /\ RebuildFromLive(live[c]))
  BY DEF NamedInv
<1> QED
  BY <1>1, <1>2, <1>3, <1>4, <1>5, <1>6, <1>7 DEF StoreChange

LEMMA CopiesNamed ==
  ASSUME SwitchTypeInv, NamedInv, NEW p \in Client, ClientStep(p),
         NEW c \in Client, pc'[c] \in CopySteps
  PROVE  Named(req'[c].before)
<1>0. PICK to \in AllSteps, r \in AllRequests : Goes(p, to, r) /\ Suits(to, r)
  BY ClientEffects DEF ClientEffect
<1>g. /\ pc'[p] = to /\ req'[p] = r
      /\ \A d \in Client \ {p} : pc'[d] = pc[d] /\ req'[d] = req[d]
  BY <1>0, GoesOthers DEF SwitchTypeInv, SessionTypes
<1>1. CASE c # p
  BY <1>1, <1>g DEF NamedInv
<1>2. CASE c = p
  <2>1. SequenceStep(c)
    <3>1. pc'[c] \in SwitchSteps
      BY DEF CopySteps, SwitchSteps
    <3> QED
      BY <1>2, <3>1, OffSequence DEF ClientStep, SwitchTypeInv, SessionTypes
  <2>2. \/ req'[c].before = berths[req[c].berth]
        \/ pc[c] \in CopySteps /\ req'[c] = req[c]
    BY <2>1, CopyFrom DEF CopySteps
  <2>3. req'[c].berth = req[c].berth
    BY <2>1, CopyFrom
  <2>4. req'[c].berth \in Berth
    BY <1>0, <1>2, <1>g DEF Suits
  <2> QED
    BY <2>2, <2>3, <2>4 DEF NamedInv
<1> QED
  BY <1>1, <1>2

\* Who does not rebuild does not come to the steps of a rebuild.
LEMMA NoRebuild ==
  ASSUME SwitchTypeInv, NamedInv, "rebuild" \notin Ops,
         NEW p \in Client, ClientStep(p), NEW c \in Client
  PROVE  pc'[c] \notin {"list", "occupants"}
<1>1. pc \in [Process -> AllSteps] /\ c \in Process /\ p \in Process
  BY DEF SwitchTypeInv, SessionTypes, ProcTypes, Process
<1>2. CASE RebuildStep(p)
  <2>1. pc[p] \notin {"list", "occupants"}
    BY DEF NamedInv
  <2>2. \/ pc' = pc
        \/ \E to \in {"syncing", "ready"} : pc' = [pc EXCEPT ![p] = to]
    BY <1>2, <2>1
       DEF RebuildStep, HandleRebuild, RebuildList, RebuildOccupant,
           RebuildStore, RebuildSync, SyncRelease, RebuildDone, Start, Give,
           Finish, Goto
  <2> QED
    BY <1>1, <2>2 DEF NamedInv
<1>3. CASE ~RebuildStep(p)
  <2>1. \/ pc' = pc
        \/ \E to : /\ to \notin {"list", "occupants"}
                   /\ pc' = [pc EXCEPT ![p] = to]
    BY <1>3, LoopStays
  <2> QED
    BY <1>1, <2>1 DEF NamedInv
<1> QED
  BY <1>2, <1>3

\* While nobody rebuilds, a berth that is taken names its vessel in every run
\* of the connector and the control room too: no reset, no cancelled session
\* and no sequence that fails leaves a berth taken by nobody.
THEOREM SwitchSettledHasVesselHolds ==
  ASSUME "rebuild" \notin Ops
  PROVE  SwitchSpec => []SettledHasVessel
<1>1. SwitchInit => NamedInv
  BY DEF SwitchInit, ConnectInit, Init, NewStore, IdleRecord, NamedInv, Named,
         CopySteps, Process
<1>2. SwitchTypeInv /\ NamedInv /\ [SwitchNext]_switchVars => NamedInv'
  <2> SUFFICES ASSUME SwitchTypeInv, NamedInv, [SwitchNext]_switchVars
               PROVE  NamedInv'
    OBVIOUS
  <2>1. CASE Rests
    BY <2>1 DEF Rests, storeVars, NamedInv, Named
  <2>2. ASSUME NEW c \in Client, ClientStep(c)
        PROVE  NamedInv'
    <3>1. \A b \in Berth : Named(berths[b])'
      BY <2>2, ClientEffects, StoreNamed
    <3>2. \A d \in Client : pc'[d] \in CopySteps => Named(req'[d].before)
      BY <2>2, CopiesNamed
    <3>3. \A d \in Client : pc'[d] \notin {"list", "occupants"}
      BY <2>2, NoRebuild
    <3> QED
      BY <3>1, <3>2, <3>3 DEF NamedInv, Named
  <2> QED
    BY <2>1, <2>2, StepCases
<1>3. NamedInv => SettledHasVessel
  BY DEF NamedInv, Named, SettledHasVessel, State, OccupiedBy
<1> QED
  BY SwitchTypesCorrect, <1>1, <1>2, <1>3, PTL DEF SwitchSpec

---------------------------------------------------------------------------
(* The life of a session.                                                  *)

\* What the abstract life says of a session that changes as Becomes has it.
LEMMA BecomesLife ==
  ASSUME sessions \in Seq(Session), NEW s, NEW state, NEW progress \in 1 .. 4,
         Becomes(s, state, progress)
  PROVE  /\ Len(sessions') = Len(sessions)
         /\ s \in 1 .. Len(sessions)
         /\ TakenOn' = IF progress >= 3 THEN TakenOn \cup {s}
                                        ELSE TakenOn \ {s}
         /\ HasConnected' = IF progress = 4 THEN HasConnected \cup {s}
                                            ELSE HasConnected \ {s}
<1>1. /\ s \in DOMAIN sessions
      /\ sessions' \in Seq(Session)
      /\ DOMAIN sessions' = DOMAIN sessions
      /\ sessions'[s].progress = progress
      /\ \A t \in DOMAIN sessions \ {s} : sessions'[t] = sessions[t]
  BY DEF Becomes
<1>2. Len(sessions') = Len(sessions) /\ s \in 1 .. Len(sessions)
  BY <1>1
<1>3. TakenOn' = IF progress >= 3 THEN TakenOn \cup {s} ELSE TakenOn \ {s}
  BY <1>1 DEF TakenOn
<1>4. HasConnected' = IF progress = 4 THEN HasConnected \cup {s}
                                      ELSE HasConnected \ {s}
  BY <1>1 DEF HasConnected
<1> QED
  BY <1>2, <1>3, <1>4

\* Each of the six things a step may do to the sessions is a step of the
\* abstract life or none.
LEMMA EffectLife ==
  ASSUME SessionTypes, LatchInv, NEW c \in Client, NEW to, NEW r,
         SessionEffect(c, to, r)
  PROVE  [Life!LifeNext]_(Life!lifeVars)
<1>0. /\ sessions \in Seq(Session)
      /\ \A s \in DOMAIN sessions : sessions[s].progress \in 1 .. 4
  <2>1. \A x \in Session : x.progress \in 1 .. 4
    BY DEF Session
  <2>2. sessions \in Seq(Session)
    BY DEF SessionTypes
  <2>3. \A s \in DOMAIN sessions : sessions[s] \in Session
    BY <2>2
  <2> QED
    BY <2>1, <2>2, <2>3
<1>1. CASE LeavesAlone(c, to, r)
  <2>1. sessions' = sessions /\ pending' = pending /\ closed' = closed
    BY <1>1 DEF LeavesAlone, connectorVars
  <2> QED
    BY <2>1 DEF Life!lifeVars, TakenOn, HasConnected
<1>2. CASE Registers(c, to, r)
  <2> DEFINE s == Len(sessions) + 1
  <2>1. /\ sessions' \in Seq(Session)
        /\ s \notin DOMAIN sessions
        /\ DOMAIN sessions' = DOMAIN sessions \cup {s}
        /\ sessions'[s].progress = 1
        /\ \A t \in DOMAIN sessions : sessions'[t] = sessions[t]
        /\ pending' = pending \cup {s}
        /\ closed' = closed
    BY <1>2, RegistersGrows
  <2>2. TakenOn' = TakenOn /\ HasConnected' = HasConnected
    BY <2>1 DEF TakenOn, HasConnected
  <2>3. Len(sessions') = s
    BY <1>0, <1>2 DEF Registers
  <2> QED
    BY <2>1, <2>2, <2>3 DEF Life!Open, Life!LifeNext
<1>3. CASE TakesOn(c, to, r)
  <2>1. PICK s : s = r.session
    OBVIOUS
  <2>2. /\ sessions[s].state = "verifying"
        /\ sessions[s].progress = 1
        /\ Becomes(s, "connecting", 3)
    BY <1>3, <2>1, TakesBecomes
  <2>3. s \in DOMAIN sessions /\ s \notin TakenOn
    BY <2>2 DEF Becomes, TakenOn
  <2>4. s \in pending
    BY <2>2, <2>3 DEF LatchInv, LatchIffOpen, Open
  <2>5. /\ Len(sessions') = Len(sessions)
        /\ s \in 1 .. Len(sessions)
        /\ TakenOn' = TakenOn \cup {s}
        /\ HasConnected' = HasConnected \ {s}
    BY <1>0, <2>2, BecomesLife
  <2>6. HasConnected' = HasConnected
    BY <2>2, <2>5 DEF HasConnected
  <2>7. pending' = pending /\ closed' = closed
    BY <1>3 DEF TakesOn
  <2> QED
    BY <2>3, <2>4, <2>5, <2>6, <2>7 DEF Life!TakeOn, Life!LifeNext
<1>4. CASE Ends(c, to, r)
  <2>1. PICK s : s = r.session
    OBVIOUS
  <2>2. PICK state : Becomes(s, state, sessions[s].progress)
    BY <1>4, <2>1, EndsBecomes
  <2>3. s \in DOMAIN sessions
    BY <2>2 DEF Becomes
  <2>4. PICK k \in 1 .. 4 : k = sessions[s].progress
    BY <1>0, <2>3
  <2>5. /\ Len(sessions') = Len(sessions)
        /\ s \in 1 .. Len(sessions)
        /\ TakenOn' = IF k >= 3 THEN TakenOn \cup {s} ELSE TakenOn \ {s}
        /\ HasConnected' = IF k = 4 THEN HasConnected \cup {s}
                                    ELSE HasConnected \ {s}
    BY <1>0, <2>2, <2>4, BecomesLife
  <2>6. TakenOn' = TakenOn /\ HasConnected' = HasConnected
    BY <2>3, <2>4, <2>5 DEF TakenOn, HasConnected
  <2>7. pending' = pending \ {s} /\ closed' = closed
    BY <1>4, <2>1 DEF Ends
  <2>8. CASE s \in pending
    BY <2>5, <2>6, <2>7, <2>8 DEF Life!End, Life!LifeNext
  <2>9. CASE s \notin pending
    <3>1. pending' = pending
      BY <2>7, <2>9
    <3> QED
      BY <3>1, <2>5, <2>6, <2>7 DEF Life!lifeVars
  <2> QED
    BY <2>8, <2>9
<1>5. CASE Connects(c, to, r)
  <2>1. PICK s : s = req[c].session
    OBVIOUS
  <2>2. sessions[s].progress = 3 /\ Becomes(s, "connected", 4)
    BY <1>5, <2>1, ConnectsBecomes
  <2>3. s \in TakenOn /\ s \notin HasConnected
    BY <2>2 DEF Becomes, TakenOn, HasConnected
  <2>4. /\ Len(sessions') = Len(sessions)
        /\ s \in 1 .. Len(sessions)
        /\ TakenOn' = TakenOn \cup {s}
        /\ HasConnected' = HasConnected \cup {s}
    BY <1>0, <2>2, BecomesLife
  <2>5. pending' = pending \ {s} /\ closed' = closed
    BY <1>5, <2>1 DEF Connects
  <2>6. TakenOn' = TakenOn
    BY <2>3, <2>4
  <2> QED
    BY <2>3, <2>4, <2>5, <2>6 DEF Life!Connect, Life!LifeNext
<1>6. CASE Closes(c, to, r)
  <2>1. PICK s : s = req[c].session
    OBVIOUS
  <2>2. /\ pc[c] \in {"announce", "unlatch"}
        /\ closed' = closed \cup {s}
        /\ sessions' = sessions /\ pending' = pending
    BY <1>6, <2>1 DEF Closes
  <2>3. s \notin pending \cup closed
    BY <2>1, <2>2 DEF LatchInv, ClosedOnce
  <2>4. s \in DOMAIN sessions
    BY <2>1, <2>2, ServedExists DEF SessionTypes, SessionSteps, Latching
  <2>5. s \in 1 .. Len(sessions)
    BY <1>0, <2>4
  <2>6. /\ TakenOn' = TakenOn /\ HasConnected' = HasConnected
        /\ Len(sessions') = Len(sessions)
    BY <2>2 DEF TakenOn, HasConnected
  <2> QED
    BY <2>2, <2>3, <2>5, <2>6 DEF Life!Release, Life!LifeNext
<1> QED
  BY <1>1, <1>2, <1>3, <1>4, <1>5, <1>6 DEF SessionEffect

\* Whatever handlers, dispatches, sequences and sweeps overlap, a session has
\* the abstract life: it is taken on once and only while it is open, it is
\* connected once, and it releases its waiters once, after it has ended.
THEOREM ImplementsLifeHolds == SwitchSpec => ImplementsLife
<1>1. SwitchInit => Life!LifeInit
  BY DEF SwitchInit, ConnectInit, Life!LifeInit, TakenOn, HasConnected
<1>2. SwitchTypeInv /\ LatchInv /\ [SwitchNext]_switchVars
        => [Life!LifeNext]_(Life!lifeVars)
  <2> SUFFICES ASSUME SwitchTypeInv, LatchInv, [SwitchNext]_switchVars
               PROVE  [Life!LifeNext]_(Life!lifeVars)
    OBVIOUS
  <2>1. CASE Rests
    BY <2>1 DEF Rests, connectorVars, Life!lifeVars, TakenOn, HasConnected
  <2>2. ASSUME NEW c \in Client, ClientStep(c)
        PROVE  [Life!LifeNext]_(Life!lifeVars)
    <3>1. ClientEffect(c)
      BY <2>2, ClientEffects
    <3> QED
      BY <3>1, EffectLife DEF ClientEffect, SwitchTypeInv
  <2> QED
    BY <2>1, <2>2, StepCases
<1>3. SwitchSpec => Life!LifeSpec
  BY SwitchTypesCorrect, <1>1, <1>2, PTL DEF SwitchSpec, Life!LifeSpec
<1> QED
  BY <1>3 DEF ImplementsLife

=============================================================================
