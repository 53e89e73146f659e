---------------------------- MODULE CapacityProof ---------------------------
(***************************************************************************)
(* Proofs about Capacity, for any number of berths, goroutines, requests   *)
(* and kVA.                                                                *)
(*                                                                         *)
(* The argument has three layers.  TypeInv is the type invariant with what *)
(* a goroutine's locals hold at each step.  NextBooks and NextStore then   *)
(* say once and for all what a step of any goroutine may do to the books   *)
(* of the allocator and to the berth store.  Every later invariant is      *)
(* proved from these few cases, not from the eighteen actions again.       *)
(***************************************************************************)
EXTENDS Capacity, KVAProof

---------------------------------------------------------------------------
(* Types.                                                                  *)

OccupyRequest ==
  {r \in Request : r.kva > 0 /\ r.kva <= CapacityKVA[r.berth]}

\* What a handler carries from the check it made to the calls that rely on it.
LocalsOK ==
  \A c \in Client :
    /\ pc[c] \in {"refresh", "drop", "cached", "grant", "granted"}
         => req[c] \in OccupyRequest
    /\ pc[c] \in {"settle", "mark", "release", "free"} => req[c] \in Request
    /\ pc[c] = "occupants" => live[c] \in [Berth -> BerthRecord]

TypeInv == TypeOK /\ LocalsOK

\* The initial state is well typed.
LEMMA InitTypeInv == Init => TypeInv
<1> SUFFICES ASSUME Init PROVE TypeInv
  OBVIOUS
<1> USE DEF Init, NewStore, NewAllocator, NoCount, IdleRecord
<1>1. TypeOK
  BY CapacityAssumption DEF TypeOK, BerthRecord, BerthState, Step, Report
<1>2. LocalsOK
  BY CapacityAssumption DEF LocalsOK, Process
<1> QED
  BY <1>1, <1>2 DEF TypeInv

\* The part of TypeOK that is about the books.
BooksTypes ==
  /\ used \in [Berth -> Nat]
  /\ allocs \in [Berth -> Allocation \cup {None}]
  /\ ledger \in Seq(LedgerRecord)

\* The two operations on the books keep their types.
LEMMA RevokeTyped ==
  ASSUME BooksTypes, NEW b \in Berth, Revoke(b)
  PROVE  BooksTypes'
<1>1. used' \in [Berth -> Nat]
  BY DEF BooksTypes, Revoke
<1>2. allocs' \in [Berth -> Allocation \cup {None}]
  BY DEF BooksTypes, Revoke
<1>3. PICK n \in Nat : ledger \in [1 .. n -> LedgerRecord]
  BY DEF BooksTypes
<1>4. LedgerClose(allocs[b])
  BY DEF Revoke
<1>5. ledger' \in [1 .. n -> LedgerRecord]
  BY <1>3, <1>4 DEF LedgerClose, LedgerRecord
<1> QED
  BY <1>1, <1>2, <1>5 DEF BooksTypes

\* A grant of a known berth, vessel and amount keeps the books typed.
LEMMA GrantTyped ==
  ASSUME BooksTypes, NEW b \in Berth, NEW v \in Vessel \cup {None},
         NEW k \in Nat, Grant(b, v, k)
  PROVE  BooksTypes'
<1>1. used' \in [Berth -> Nat]
  BY DEF BooksTypes, Grant
<1> DEFINE alloc == [berth |-> b, vessel |-> v, kva |-> k]
<1>2. alloc \in Allocation
  BY DEF Allocation
<1>3. allocs' \in [Berth -> Allocation \cup {None}]
  BY <1>2 DEF BooksTypes, Grant
<1>4. ledger' = Append(ledger, [alloc |-> alloc, open |-> TRUE])
  BY DEF Grant, LedgerAppend
<1>5. [alloc |-> alloc, open |-> TRUE] \in LedgerRecord
  BY <1>2 DEF LedgerRecord
<1>6. ledger' \in Seq(LedgerRecord)
  BY <1>4, <1>5 DEF BooksTypes
<1> QED
  BY <1>1, <1>3, <1>6 DEF BooksTypes

---------------------------------------------------------------------------
(* What a step may do to the books and to the store.                       *)

BooksStep ==
  \/ UNCHANGED allocVars
  \/ \E b \in Berth : HasAllocation(b) /\ Revoke(b)
  \/ \E b \in Berth, v \in Vessel \cup {None}, k \in Nat :
       /\ ~HasAllocation(b)
       /\ Fits(k)
       /\ 0 < k /\ k <= CapacityKVA[b]
       /\ Grant(b, v, k)

StoreStep ==
  \/ UNCHANGED storeVars
  \/ \E b \in Berth, v \in Vessel : MarkOccupied(b, v)
  \/ \E b \in Berth : MayRelease(b) /\ MarkReleasing(b)
  \/ \E b \in Berth : Put(b, IdleRecord)
  \/ \E c \in Client : pc[c] = "occupants" /\ RebuildFromLive(live[c])

\* RevokeIfAny is one of the cases of BooksStep.
LEMMA RevokeIfAnyStep ==
  ASSUME NEW b \in Berth, RevokeIfAny(b)
  PROVE  BooksStep
<1>1. CASE HasAllocation(b)
  <2>1. Revoke(b)
    BY <1>1 DEF RevokeIfAny
  <2> QED
    BY <1>1, <2>1 DEF BooksStep
<1>2. CASE ~HasAllocation(b)
  <2>1. UNCHANGED allocVars
    BY <1>2 DEF RevokeIfAny
  <2> QED
    BY <2>1 DEF BooksStep
<1> QED
  BY <1>1, <1>2

\* The steps of a rebuild, on the books.
LEMMA RebuildBooks ==
  ASSUME NEW c \in Client, RebuildStep(c)
  PROVE  BooksStep
<1>1. ASSUME NEW b \in Berth, RebuildOccupant(c, b)
      PROVE  BooksStep
  BY <1>1 DEF RebuildOccupant, BooksStep, allocVars
<1>2. ASSUME \/ HandleRebuild(c) \/ RebuildList(c) \/ RebuildStore(c)
             \/ RebuildSync(c) \/ RebuildDone(c)
      PROVE  BooksStep
  BY <1>2 DEF HandleRebuild, RebuildList, RebuildStore, RebuildSync,
              RebuildDone, BooksStep, allocVars
<1>3. ASSUME NEW b \in Berth, SyncRelease(c, b)
      PROVE  BooksStep
  BY <1>3, RevokeIfAnyStep DEF SyncRelease
<1> QED
  BY <1>1, <1>2, <1>3 DEF RebuildStep

\* The steps of the reconciler, on the books.
LEMMA ReconcileBooks ==
  ASSUME ReconcileStep
  PROVE  BooksStep
<1>1. ASSUME NEW b \in Berth, ReconcileAudit(b)
      PROVE  BooksStep
  BY <1>1 DEF ReconcileAudit, BooksStep, allocVars
<1>2. ASSUME ReconcileTick \/ ReconcileList \/ ReconcileReport
      PROVE  BooksStep
  BY <1>2 DEF ReconcileTick, ReconcileList, ReconcileReport, BooksStep,
              allocVars
<1>3. ASSUME NEW b \in Berth, SyncRelease(Reconciler, b)
      PROVE  BooksStep
  BY <1>3, RevokeIfAnyStep DEF SyncRelease
<1> QED
  BY <1>1, <1>2, <1>3 DEF ReconcileStep

\* Every step of every goroutine grants a berth without an allocation what
\* fits, revokes an allocation, or leaves the books alone.
LEMMA NextBooks ==
  ASSUME TypeInv, Next
  PROVE  BooksStep
<1> USE DEF TypeInv
<1>1. ASSUME NEW c \in Client, OccupyStep(c)
      PROVE  BooksStep
  <2>1. ASSUME NEW b \in Berth, NEW v \in Vessel \cup {None},
               NEW need \in Demand, HandleOccupy(c, b, v, need)
        PROVE  BooksStep
    BY <2>1 DEF HandleOccupy, BooksStep, allocVars
  <2>2. ASSUME AllocateRefresh(c) \/ AllocateCached(c) \/ OccupyMark(c)
        PROVE  BooksStep
    BY <2>2 DEF AllocateRefresh, AllocateCached, OccupyMark, BooksStep,
                allocVars
  <2>3. CASE AllocateDrop(c)
    <3>1. req[c].berth \in Berth /\ RevokeIfAny(req[c].berth)
      BY <2>3 DEF AllocateDrop, LocalsOK, OccupyRequest, Request
    <3> QED
      BY <3>1, RevokeIfAnyStep
  <2>4. CASE AllocateGrant(c)
    <3>1. req[c] \in OccupyRequest
      BY <2>4 DEF AllocateGrant, LocalsOK
    <3>2. \/ UNCHANGED allocVars
          \/ /\ ~HasAllocation(req[c].berth)
             /\ Fits(req[c].kva)
             /\ Grant(req[c].berth, req[c].vessel, req[c].kva)
      BY <2>4 DEF AllocateGrant
    <3> QED
      BY <3>1, <3>2 DEF BooksStep, OccupyRequest, Request
  <2> QED
    BY <1>1, <2>1, <2>2, <2>3, <2>4 DEF OccupyStep
<1>2. ASSUME NEW c \in Client, DepartStep(c)
      PROVE  BooksStep
  <2>1. ASSUME NEW b \in Berth, HandleDepart(c, b)
        PROVE  BooksStep
    BY <2>1 DEF HandleDepart, BooksStep, allocVars
  <2>2. ASSUME DepartSettle(c) \/ DepartMark(c) \/ DepartIdle(c)
        PROVE  BooksStep
    BY <2>2 DEF DepartSettle, DepartMark, DepartIdle, BooksStep, allocVars
  <2>3. CASE DepartRelease(c)
    <3>1. req[c].berth \in Berth
      BY <2>3 DEF DepartRelease, LocalsOK, Request
    <3>2. \/ UNCHANGED allocVars
          \/ HasAllocation(req[c].berth) /\ Revoke(req[c].berth)
      BY <2>3 DEF DepartRelease
    <3> QED
      BY <3>1, <3>2 DEF BooksStep
  <2> QED
    BY <1>2, <2>1, <2>2, <2>3 DEF DepartStep
<1> QED
  BY <1>1, <1>2, RebuildBooks, ReconcileBooks DEF Next

\* Every step of every goroutine marks one berth, replaces the whole table
\* by the map a rebuild made, or leaves the store alone.
LEMMA NextStore ==
  ASSUME TypeInv, Next
  PROVE  StoreStep
<1> USE DEF TypeInv
<1>1. ASSUME NEW c \in Client, OccupyStep(c)
      PROVE  StoreStep
  <2>1. ASSUME NEW b \in Berth, NEW v \in Vessel \cup {None},
               NEW need \in Demand, HandleOccupy(c, b, v, need)
        PROVE  StoreStep
    BY <2>1 DEF HandleOccupy, StoreStep, storeVars
  <2>2. ASSUME \/ AllocateRefresh(c) \/ AllocateDrop(c)
               \/ AllocateCached(c) \/ AllocateGrant(c)
        PROVE  StoreStep
    BY <2>2 DEF AllocateRefresh, AllocateDrop, AllocateCached,
                AllocateGrant, StoreStep, storeVars
  <2>3. CASE OccupyMark(c)
    <3>1. req[c] \in Request
      BY <2>3 DEF OccupyMark, LocalsOK, OccupyRequest
    <3>2. CASE MayOccupy(req[c].berth, req[c].vessel)
      <4>1. MarkOccupied(req[c].berth, req[c].vessel)
        BY <2>3, <3>2 DEF OccupyMark
      <4>2. req[c].berth \in Berth /\ req[c].vessel \in Vessel
        BY <3>1, <3>2 DEF MayOccupy, Request
      <4> QED
        BY <4>1, <4>2 DEF StoreStep
    <3>3. CASE ~MayOccupy(req[c].berth, req[c].vessel)
      <4>1. UNCHANGED storeVars
        BY <2>3, <3>3 DEF OccupyMark
      <4> QED
        BY <4>1 DEF StoreStep
    <3> QED
      BY <3>2, <3>3
  <2> QED
    BY <1>1, <2>1, <2>2, <2>3 DEF OccupyStep
<1>2. ASSUME NEW c \in Client, DepartStep(c)
      PROVE  StoreStep
  <2>1. ASSUME NEW b \in Berth, HandleDepart(c, b)
        PROVE  StoreStep
    BY <2>1 DEF HandleDepart, StoreStep, storeVars
  <2>2. ASSUME DepartSettle(c) \/ DepartRelease(c)
        PROVE  StoreStep
    BY <2>2 DEF DepartSettle, DepartRelease, StoreStep, storeVars
  <2>3. ASSUME pc[c] \in {"mark", "free"}
        PROVE  req[c].berth \in Berth
    BY <2>3 DEF LocalsOK, Request
  <2>4. CASE DepartMark(c)
    <3>1. \/ UNCHANGED storeVars
          \/ MayRelease(req[c].berth) /\ MarkReleasing(req[c].berth)
      BY <2>4 DEF DepartMark
    <3>2. pc[c] = "mark"
      BY <2>4 DEF DepartMark
    <3> QED
      BY <2>3, <3>1, <3>2 DEF StoreStep
  <2>5. CASE DepartIdle(c)
    <3>1. pc[c] = "free" /\ MarkIdle(req[c].berth)
      BY <2>5 DEF DepartIdle
    <3>2. UNCHANGED storeVars \/ Put(req[c].berth, IdleRecord)
      BY <3>1 DEF MarkIdle
    <3> QED
      BY <2>3, <3>1, <3>2 DEF StoreStep
  <2> QED
    BY <1>2, <2>1, <2>2, <2>4, <2>5 DEF DepartStep
<1>3. ASSUME NEW p, NEW b, SyncRelease(p, b)
      PROVE  StoreStep
  BY <1>3 DEF SyncRelease, StoreStep, storeVars
<1>4. ASSUME NEW c \in Client, RebuildStep(c)
      PROVE  StoreStep
  <2>1. ASSUME NEW b \in Berth, RebuildOccupant(c, b)
        PROVE  StoreStep
    BY <2>1 DEF RebuildOccupant, StoreStep, storeVars
  <2>2. ASSUME \/ HandleRebuild(c) \/ RebuildList(c) \/ RebuildSync(c)
               \/ RebuildDone(c)
        PROVE  StoreStep
    BY <2>2 DEF HandleRebuild, RebuildList, RebuildSync, RebuildDone,
                StoreStep, storeVars
  <2>3. CASE RebuildStore(c)
    BY <2>3 DEF RebuildStore, StoreStep
  <2> QED
    BY <1>3, <1>4, <2>1, <2>2, <2>3 DEF RebuildStep
<1>5. ASSUME ReconcileStep
      PROVE  StoreStep
  <2>1. ASSUME NEW b \in Berth, ReconcileAudit(b)
        PROVE  StoreStep
    BY <2>1 DEF ReconcileAudit, StoreStep, storeVars
  <2>2. ASSUME ReconcileTick \/ ReconcileList \/ ReconcileReport
        PROVE  StoreStep
    BY <2>2 DEF ReconcileTick, ReconcileList, ReconcileReport, StoreStep,
                storeVars
  <2> QED
    BY <1>3, <1>5, <2>1, <2>2 DEF ReconcileStep
<1> QED
  BY <1>1, <1>2, <1>4, <1>5 DEF Next

---------------------------------------------------------------------------
(* Type correctness.                                                       *)

\* The part of TypeInv that is about the goroutines.
ProcOK ==
  /\ pc \in [Process -> Step]
  /\ req \in [Client -> Request \cup {None}]
  /\ todo \in [Process -> SUBSET Berth]
  /\ live \in [Client -> [Berth -> BerthRecord] \cup {None}]
  /\ count \in Report
  /\ last \in Report
  /\ issued \in 0 .. MaxRequests
  /\ LocalsOK

\* A step that only moves a client along keeps the locals typed, if the
\* request is of the kind the new step expects.
LEMMA MoveOK ==
  ASSUME TypeInv, NEW c \in Client, NEW to \in Step, Move(c, to),
         to \in {"refresh", "drop", "cached", "grant", "granted"}
           => req[c] \in OccupyRequest,
         to \in {"settle", "mark", "release", "free"} => req[c] \in Request,
         to # "occupants"
  PROVE  ProcOK'
<1>1. /\ pc' = [pc EXCEPT ![c] = to]
      /\ UNCHANGED <<req, todo, live, count, last, issued>>
  BY DEF Move, Goto
<1>2. LocalsOK'
  <2> SUFFICES ASSUME NEW d \in Client
               PROVE  /\ pc'[d] \in {"refresh", "drop", "cached", "grant",
                                     "granted"} => req[d] \in OccupyRequest
                      /\ pc'[d] \in {"settle", "mark", "release", "free"}
                           => req[d] \in Request
                      /\ pc'[d] = "occupants"
                           => live[d] \in [Berth -> BerthRecord]
    BY <1>1 DEF LocalsOK, OccupyRequest
  <2>1. CASE d = c
    BY <1>1, <2>1 DEF TypeInv, TypeOK, Process
  <2>2. CASE d # c
    BY <1>1, <2>2 DEF TypeInv, TypeOK, LocalsOK, Process
  <2> QED
    BY <2>1, <2>2
<1> QED
  BY <1>1, <1>2 DEF ProcOK, TypeInv, TypeOK, Process

\* A client that answers its request keeps the locals typed.
LEMMA GiveOK ==
  ASSUME TypeInv, NEW c \in Client, Give(c)
  PROVE  ProcOK'
<1>1. /\ pc' = [pc EXCEPT ![c] = "ready"]
      /\ req' = [req EXCEPT ![c] = None]
      /\ UNCHANGED <<todo, live, count, last, issued>>
  BY DEF Give, Finish, Goto
<1>2. LocalsOK'
  <2> SUFFICES ASSUME NEW d \in Client
               PROVE  /\ pc'[d] \in {"refresh", "drop", "cached", "grant",
                                     "granted"} => req'[d] \in OccupyRequest
                      /\ pc'[d] \in {"settle", "mark", "release", "free"}
                           => req'[d] \in Request
                      /\ pc'[d] = "occupants"
                           => live[d] \in [Berth -> BerthRecord]
    BY <1>1 DEF LocalsOK, OccupyRequest
  <2>1. CASE d = c
    BY <1>1, <2>1 DEF TypeInv, TypeOK, Process
  <2>2. CASE d # c
    BY <1>1, <2>2 DEF TypeInv, TypeOK, LocalsOK, Process
  <2> QED
    BY <2>1, <2>2
<1> QED
  BY <1>1, <1>2 DEF ProcOK, TypeInv, TypeOK, Process, Step

\* The steps of an occupation keep the locals typed.
LEMMA OccupyProc ==
  ASSUME TypeInv, NEW c \in Client, OccupyStep(c)
  PROVE  ProcOK'
<1> USE DEF TypeInv
<1>1. ASSUME NEW b \in Berth, NEW v \in Vessel \cup {None},
             NEW need \in Demand, HandleOccupy(c, b, v, need)
      PROVE  ProcOK'
  <2> DEFINE r == [op |-> "occupy", berth |-> b, vessel |-> v, kva |-> need]
  <2>1. /\ pc' = [pc EXCEPT ![c] = "refresh"]
        /\ req' = [req EXCEPT ![c] = r]
        /\ issued < MaxRequests /\ issued' = issued + 1
        /\ UNCHANGED <<todo, live, count, last>>
    BY <1>1 DEF HandleOccupy, Start, Goto
  <2>2. r \in OccupyRequest
    BY <1>1, CapacityAssumption DEF HandleOccupy, CheckReady, OccupyRequest,
                                   Request
  <2>3. r \in Request
    BY <2>2 DEF OccupyRequest
  <2>4. LocalsOK'
    BY <2>1, <2>2 DEF LocalsOK, TypeOK, Process, OccupyRequest
  <2> QED
    BY <2>1, <2>3, <2>4, CapacityAssumption
       DEF ProcOK, TypeOK, Process, Step
<1>2. CASE AllocateRefresh(c)
  <2>1. \E to \in {"drop", "cached"} : Move(c, to)
    BY <1>2 DEF AllocateRefresh
  <2>2. req[c] \in OccupyRequest
    BY <1>2 DEF AllocateRefresh, LocalsOK
  <2> QED
    BY <2>1, <2>2, MoveOK DEF Step
<1>3. CASE AllocateDrop(c)
  <2>1. Move(c, "cached") /\ req[c] \in OccupyRequest
    BY <1>3 DEF AllocateDrop, LocalsOK
  <2> QED
    BY <2>1, MoveOK DEF Step
<1>4. CASE AllocateCached(c)
  <2>1. req[c] \in OccupyRequest
    BY <1>4 DEF AllocateCached, LocalsOK
  <2>2. Move(c, "grant") \/ Give(c)
    BY <1>4 DEF AllocateCached
  <2> QED
    BY <2>1, <2>2, MoveOK, GiveOK DEF Step
<1>5. CASE AllocateGrant(c)
  <2>1. req[c] \in OccupyRequest
    BY <1>5 DEF AllocateGrant, LocalsOK
  <2>2. Move(c, "granted") \/ Give(c)
    BY <1>5 DEF AllocateGrant
  <2> QED
    BY <2>1, <2>2, MoveOK, GiveOK DEF Step
<1>6. CASE OccupyMark(c)
  BY <1>6, GiveOK DEF OccupyMark
<1> QED
  BY <1>1, <1>2, <1>3, <1>4, <1>5, <1>6 DEF OccupyStep

\* The steps of a departure keep the locals typed.
LEMMA DepartProc ==
  ASSUME TypeInv, NEW c \in Client, DepartStep(c)
  PROVE  ProcOK'
<1> USE DEF TypeInv
<1>1. ASSUME NEW b \in Berth, HandleDepart(c, b)
      PROVE  ProcOK'
  <2> DEFINE r == [op |-> "depart", berth |-> b, vessel |-> OccupiedBy(b),
                   kva |-> 0]
  <2>1. /\ pc' = [pc EXCEPT ![c] = "settle"]
        /\ req' = [req EXCEPT ![c] = r]
        /\ issued < MaxRequests /\ issued' = issued + 1
        /\ UNCHANGED <<todo, live, count, last>>
    BY <1>1 DEF HandleDepart, Start, Goto
  <2>2. r \in Request
    BY DEF TypeOK, BerthRecord, OccupiedBy, Request
  <2>3. LocalsOK'
    BY <2>1, <2>2 DEF LocalsOK, TypeOK, Process, OccupyRequest
  <2> QED
    BY <2>1, <2>2, <2>3, CapacityAssumption
       DEF ProcOK, TypeOK, Process, Step
<1>2. CASE DepartSettle(c)
  <2>1. req[c] \in Request
    BY <1>2 DEF DepartSettle, LocalsOK
  <2>2. Move(c, "mark") \/ Give(c)
    BY <1>2 DEF DepartSettle
  <2> QED
    BY <2>1, <2>2, MoveOK, GiveOK DEF Step
<1>3. CASE DepartMark(c)
  <2>1. req[c] \in Request
    BY <1>3 DEF DepartMark, LocalsOK
  <2>2. Move(c, "release") \/ Give(c)
    BY <1>3 DEF DepartMark
  <2> QED
    BY <2>1, <2>2, MoveOK, GiveOK DEF Step
<1>4. CASE DepartRelease(c)
  <2>1. req[c] \in Request
    BY <1>4 DEF DepartRelease, LocalsOK
  <2>2. Move(c, "free") \/ Give(c)
    BY <1>4 DEF DepartRelease
  <2> QED
    BY <2>1, <2>2, MoveOK, GiveOK DEF Step
<1>5. CASE DepartIdle(c)
  BY <1>5, GiveOK DEF DepartIdle
<1> QED
  BY <1>1, <1>2, <1>3, <1>4, <1>5 DEF DepartStep

\* The sweep of SyncFromStore keeps the locals typed, whoever runs it.
LEMMA SyncProc ==
  ASSUME TypeInv, NEW p \in Process, NEW b \in Berth, SyncRelease(p, b)
  PROVE  ProcOK'
<1> USE DEF TypeInv
<1>1. /\ todo' = [todo EXCEPT ![p] = @ \ {b}]
      /\ UNCHANGED <<pc, req, live, last, issued>>
  BY DEF SyncRelease
<1>2. count' = count \/ count' = [count EXCEPT !.released = @ + 1]
  BY DEF SyncRelease
<1>3. count' \in Report
  BY <1>2 DEF TypeOK, Report
<1>4. todo' \in [Process -> SUBSET Berth]
  BY <1>1 DEF TypeOK
<1>5. LocalsOK'
  BY <1>1 DEF LocalsOK, OccupyRequest
<1> QED
  BY <1>1, <1>3, <1>4, <1>5 DEF ProcOK, TypeOK

\* The steps of a rebuild keep the locals typed.
LEMMA RebuildProc ==
  ASSUME TypeInv, NEW c \in Client, RebuildStep(c)
  PROVE  ProcOK'
<1> USE DEF TypeInv
<1>1. CASE HandleRebuild(c)
  <2>1. /\ pc' = [pc EXCEPT ![c] = "list"]
        /\ todo' = [todo EXCEPT ![c] = Allocated]
        /\ issued < MaxRequests /\ issued' = issued + 1
        /\ UNCHANGED <<req, live, count, last>>
    BY <1>1 DEF HandleRebuild, Start, Goto
  <2>2. LocalsOK'
    BY <2>1 DEF LocalsOK, TypeOK, Process, OccupyRequest
  <2>3. Allocated \in SUBSET Berth
    BY DEF Allocated
  <2> QED
    BY <2>1, <2>2, <2>3, CapacityAssumption
       DEF ProcOK, TypeOK, Process, Step
<1>2. CASE RebuildList(c)
  <2> DEFINE l == [b \in Berth |->
                     IF b \in todo[c]
                       THEN [state |-> "settled", vessel |-> OccupiedBy(b)]
                       ELSE IdleRecord]
  <2>1. /\ pc' = [pc EXCEPT ![c] = "occupants"]
        /\ live' = [live EXCEPT ![c] = l]
        /\ UNCHANGED <<req, todo, count, last, issued>>
    BY <1>2 DEF RebuildList, Goto
  <2>2. l \in [Berth -> BerthRecord]
    BY DEF TypeOK, BerthRecord, BerthState, IdleRecord, OccupiedBy
  <2>3. LocalsOK'
    BY <2>1, <2>2 DEF LocalsOK, TypeOK, Process, OccupyRequest
  <2> QED
    BY <2>1, <2>2, <2>3 DEF ProcOK, TypeOK, Process, Step
<1>3. ASSUME NEW b \in Berth, RebuildOccupant(c, b)
      PROVE  ProcOK'
  <2>1. /\ pc[c] = "occupants"
        /\ todo' = [todo EXCEPT ![c] = @ \ {b}]
        /\ live' = live \/ live' = [live EXCEPT ![c][b].vessel = OccupiedBy(b)]
        /\ UNCHANGED <<pc, req, count, last, issued>>
    BY <1>3 DEF RebuildOccupant
  <2>2. live[c] \in [Berth -> BerthRecord]
    BY <2>1 DEF LocalsOK
  <2>3. OccupiedBy(b) \in Vessel \cup {None}
    BY DEF TypeOK, BerthRecord, OccupiedBy
  <2>4. /\ live' \in [Client -> [Berth -> BerthRecord] \cup {None}]
        /\ live'[c] \in [Berth -> BerthRecord]
        /\ \A d \in Client \ {c} : live'[d] = live[d]
    <3> DEFINE r == [live[c][b] EXCEPT !.vessel = OccupiedBy(b)]
               l == [live[c] EXCEPT ![b] = r]
    <3>1. r \in BerthRecord
      BY <2>2, <2>3 DEF BerthRecord
    <3>2. l \in [Berth -> BerthRecord]
      BY <2>2, <3>1
    <3>3. live \in [Client -> [Berth -> BerthRecord] \cup {None}]
      BY DEF TypeOK
    <3>4. live' = live \/ live' = [live EXCEPT ![c] = l]
      BY <2>1
    <3> HIDE DEF l
    <3> QED
      BY <2>2, <3>2, <3>3, <3>4
  <2>5. LocalsOK'
    BY <2>1, <2>4 DEF LocalsOK, OccupyRequest
  <2>6. todo' \in [Process -> SUBSET Berth]
    BY <2>1 DEF TypeOK, Process
  <2> QED
    BY <2>1, <2>4, <2>5, <2>6 DEF ProcOK, TypeOK
<1>4. CASE RebuildStore(c)
  <2>1. /\ pc' = [pc EXCEPT ![c] = "sync"]
        /\ live' = [live EXCEPT ![c] = None]
        /\ UNCHANGED <<req, todo, count, last, issued>>
    BY <1>4 DEF RebuildStore, Goto
  <2>2. LocalsOK'
    BY <2>1 DEF LocalsOK, TypeOK, Process, OccupyRequest
  <2> QED
    BY <2>1, <2>2 DEF ProcOK, TypeOK, Process, Step
<1>5. CASE RebuildSync(c)
  <2>1. /\ pc' = [pc EXCEPT ![c] = "syncing"]
        /\ todo' = [todo EXCEPT ![c] = InState("idle")]
        /\ UNCHANGED <<req, live, count, last, issued>>
    BY <1>5 DEF RebuildSync, Goto
  <2>2. LocalsOK'
    BY <2>1 DEF LocalsOK, TypeOK, Process, OccupyRequest
  <2>3. InState("idle") \in SUBSET Berth
    BY DEF InState
  <2> QED
    BY <2>1, <2>2, <2>3 DEF ProcOK, TypeOK, Process, Step
<1>6. ASSUME NEW b \in Berth, SyncRelease(c, b)
      PROVE  ProcOK'
  BY <1>6, SyncProc DEF Process
<1>7. CASE RebuildDone(c)
  BY <1>7, GiveOK DEF RebuildDone
<1> QED
  BY <1>1, <1>2, <1>3, <1>4, <1>5, <1>6, <1>7 DEF RebuildStep

\* The steps of the reconciler keep the locals typed.
LEMMA ReconcileProc ==
  ASSUME TypeInv, ReconcileStep
  PROVE  ProcOK'
<1> USE DEF TypeInv
<1>1. ASSUME NEW to \in Step, pc' = [pc EXCEPT ![Reconciler] = to],
             UNCHANGED <<req, live>>
      PROVE  LocalsOK'
  <2>1. \A c \in Client : pc'[c] = pc[c]
    BY <1>1, CapacityAssumption DEF TypeOK, Process
  <2> QED
    BY <1>1, <2>1 DEF LocalsOK, OccupyRequest
<1>2. CASE ReconcileTick
  <2>1. /\ pc' = [pc EXCEPT ![Reconciler] = "syncing"]
        /\ todo' = [todo EXCEPT ![Reconciler] = InState("idle")]
        /\ count' = NoCount
        /\ UNCHANGED <<req, live, last, issued>>
    BY <1>2 DEF ReconcileTick, Goto
  <2>2. InState("idle") \in SUBSET Berth /\ NoCount \in Report
    BY DEF InState, NoCount, Report
  <2>3. LocalsOK'
    BY <1>1, <2>1 DEF Step
  <2> QED
    BY <2>1, <2>2, <2>3 DEF ProcOK, TypeOK, Process, Step
<1>3. ASSUME NEW b \in Berth, SyncRelease(Reconciler, b)
      PROVE  ProcOK'
  BY <1>3, SyncProc DEF Process
<1>4. CASE ReconcileList
  <2>1. /\ pc' = [pc EXCEPT ![Reconciler] = "audit"]
        /\ todo' = [todo EXCEPT ![Reconciler] = InState("settled")]
        /\ UNCHANGED <<req, live, count, last, issued>>
    BY <1>4 DEF ReconcileList, Goto
  <2>2. InState("settled") \in SUBSET Berth
    BY DEF InState
  <2>3. LocalsOK'
    BY <1>1, <2>1 DEF Step
  <2> QED
    BY <2>1, <2>2, <2>3 DEF ProcOK, TypeOK, Process, Step
<1>5. ASSUME NEW b \in Berth, ReconcileAudit(b)
      PROVE  ProcOK'
  <2>1. /\ todo' = [todo EXCEPT ![Reconciler] = @ \ {b}]
        /\ count' = count \/ count' = [count EXCEPT !.mismatches = @ + 1]
        /\ UNCHANGED <<pc, req, live, last, issued>>
    BY <1>5 DEF ReconcileAudit
  <2>2. count' \in Report
    BY <2>1 DEF TypeOK, Report
  <2>3. LocalsOK'
    BY <2>1 DEF LocalsOK, OccupyRequest
  <2> QED
    BY <2>1, <2>2, <2>3 DEF ProcOK, TypeOK, Process
<1>6. CASE ReconcileReport
  <2>1. /\ pc' = [pc EXCEPT ![Reconciler] = "ready"]
        /\ last' = [count EXCEPT !.mismatches = @ + count.released]
        /\ count' = NoCount
        /\ UNCHANGED <<req, todo, live, issued>>
    BY <1>6 DEF ReconcileReport, Goto
  <2>2. last' \in Report /\ count' \in Report
    <3>1. /\ count.released \in Nat
          /\ count.mismatches \in Nat
          /\ count = [released |-> count.released,
                      mismatches |-> count.mismatches]
      BY DEF TypeOK, Report
    <3>2. last' = [released |-> count.released,
                   mismatches |-> count.mismatches + count.released]
      BY <2>1, <3>1
    <3> QED
      BY <2>1, <3>1, <3>2 DEF Report, NoCount
  <2>3. LocalsOK'
    BY <1>1, <2>1 DEF Step
  <2> QED
    BY <2>1, <2>2, <2>3 DEF ProcOK, TypeOK, Process, Step
<1> QED
  BY <1>2, <1>3, <1>4, <1>5, <1>6 DEF ReconcileStep

\* The store keeps its type in every kind of step.
LEMMA StoreTyped ==
  ASSUME TypeInv, StoreStep
  PROVE  /\ berths' \in [Berth -> BerthRecord]
         /\ cache' \in [Berth -> BerthState]
<1> USE DEF TypeInv, TypeOK
<1>1. CASE UNCHANGED storeVars
  BY <1>1 DEF storeVars
<1>2. ASSUME NEW b \in Berth, NEW r \in BerthRecord, Put(b, r)
      PROVE  /\ berths' \in [Berth -> BerthRecord]
             /\ cache' \in [Berth -> BerthState]
  BY <1>2 DEF Put, BerthRecord
<1>3. ASSUME NEW b \in Berth, NEW v \in Vessel, MarkOccupied(b, v)
      PROVE  /\ berths' \in [Berth -> BerthRecord]
             /\ cache' \in [Berth -> BerthState]
  <2>1. [state |-> "settled", vessel |-> v] \in BerthRecord
    BY DEF BerthRecord, BerthState
  <2> QED
    BY <1>2, <1>3, <2>1 DEF MarkOccupied
<1>4. ASSUME NEW b \in Berth, MarkReleasing(b)
      PROVE  /\ berths' \in [Berth -> BerthRecord]
             /\ cache' \in [Berth -> BerthState]
  <2>0. berths[b] \in BerthRecord
    OBVIOUS
  <2>1. [berths[b] EXCEPT !.state = "releasing"] \in BerthRecord
    BY ONLY <2>0 DEF BerthRecord, BerthState
  <2> QED
    BY <1>2, <1>4, <2>1 DEF MarkReleasing
<1>5. ASSUME NEW b \in Berth, Put(b, IdleRecord)
      PROVE  /\ berths' \in [Berth -> BerthRecord]
             /\ cache' \in [Berth -> BerthState]
  <2>1. IdleRecord \in BerthRecord
    BY DEF BerthRecord, BerthState, IdleRecord
  <2> QED
    BY <1>2, <1>5, <2>1
<1>6. ASSUME NEW c \in Client, pc[c] = "occupants", RebuildFromLive(live[c])
      PROVE  /\ berths' \in [Berth -> BerthRecord]
             /\ cache' \in [Berth -> BerthState]
  BY <1>6 DEF RebuildFromLive, LocalsOK, BerthRecord
<1> QED
  BY <1>1, <1>3, <1>4, <1>5, <1>6 DEF StoreStep

\* The books keep their types in every kind of step.
LEMMA BooksTyped ==
  ASSUME BooksTypes, BooksStep
  PROVE  BooksTypes'
<1>1. CASE UNCHANGED allocVars
  BY <1>1 DEF allocVars, BooksTypes
<1> QED
  BY <1>1, RevokeTyped, GrantTyped DEF BooksStep

\* TypeInv is inductive.
LEMMA NextTypeInv == TypeInv /\ [Next]_vars => TypeInv'
<1>1. ASSUME TypeInv, Next
      PROVE  TypeInv'
  <2>1. ProcOK'
    BY <1>1, OccupyProc, DepartProc, RebuildProc, ReconcileProc DEF Next
  <2>2. /\ berths' \in [Berth -> BerthRecord]
        /\ cache' \in [Berth -> BerthState]
    BY <1>1, NextStore, StoreTyped
  <2>3. BooksTypes'
    BY <1>1, NextBooks, BooksTyped DEF TypeInv, TypeOK, BooksTypes
  <2> QED
    BY <2>1, <2>2, <2>3 DEF TypeInv, TypeOK, ProcOK, BooksTypes
<1>2. ASSUME TypeInv, UNCHANGED vars
      PROVE  TypeInv'
  BY <1>2 DEF TypeInv, TypeOK, LocalsOK, OccupyRequest, vars
<1> QED
  BY <1>1, <1>2

\* Type correctness: every variable, and every local a handler relies on
\* after a check it made earlier, keeps its type in every run.
THEOREM TypeCorrect == Spec => []TypeOK
<1>1. TypeInv => TypeOK
  BY DEF TypeInv
<1> QED
  BY InitTypeInv, NextTypeInv, <1>1, PTL DEF Spec

---------------------------------------------------------------------------
(* The books.                                                              *)

BooksInv ==
  /\ BooksAgree
  /\ BerthLimit
  /\ CapacityBound
  /\ LedgerExact

\* The empty books are in order.
LEMMA InitBooks == Init => BooksInv
<1> SUFFICES ASSUME Init PROVE BooksInv
  OBVIOUS
<1>1. /\ used = [b \in Berth |-> 0]
      /\ allocs = [b \in Berth |-> None]
      /\ ledger = <<>>
  BY DEF Init, NewAllocator
<1>2. BooksAgree
  BY <1>1 DEF BooksAgree, HasAllocation
<1>3. BerthLimit
  BY <1>1, BerthAssumption DEF BerthLimit
<1>4. CapacityBound
  BY <1>1, SumZero, ShoreAssumption DEF CapacityBound, Total
<1>5. LedgerExact
  BY <1>1 DEF LedgerExact, HasAllocation
<1> QED
  BY <1>2, <1>3, <1>4, <1>5 DEF BooksInv

\* A revocation leaves the books in order.
LEMMA RevokeBooks ==
  ASSUME BooksTypes, BooksInv, NEW b \in Berth, HasAllocation(b), Revoke(b)
  PROVE  BooksInv'
<1> USE DEF BooksTypes, BooksInv
<1>1. /\ used' = [used EXCEPT ![b] = 0]
      /\ allocs' = [allocs EXCEPT ![b] = None]
  BY DEF Revoke
<1>2. BooksAgree'
  BY <1>1 DEF BooksAgree, HasAllocation
<1>3. BerthLimit'
  <2> SUFFICES ASSUME NEW d \in Berth
               PROVE  used'[d] <= CapacityKVA[d]
    BY DEF BerthLimit
  <2>1. used'[d] = IF d = b THEN 0 ELSE used[d]
    BY <1>1
  <2>2. CapacityKVA[d] \in Nat /\ used[d] <= CapacityKVA[d]
    BY BerthAssumption DEF BerthLimit
  <2> QED
    BY <2>1, <2>2
<1>4. CapacityBound'
  <2>1. Total(used') <= Total(used)
    BY <1>1, SumDrop, ShoreAssumption DEF Total
  <2>2. Total(used) \in Nat /\ Total(used') \in Nat
    BY <1>1, BlocksFinite, ShoreAssumption DEF Total
  <2> QED
    BY <2>1, <2>2, ShoreAssumption DEF CapacityBound, Total
<1>5. LedgerExact'
  <2> DEFINE Open(d) == {i \in DOMAIN ledger :
                           ledger[i].open /\ ledger[i].alloc.berth = d}
  <2>1. PICK k \in Open(b) : Open(b) = {k} /\ ledger[k].alloc = allocs[b]
    BY DEF LedgerExact
  <2>2. allocs[b].berth = b
    BY DEF BooksAgree
  <2>3. OpenRecords(allocs[b]) = {k}
    BY <2>1, <2>2 DEF OpenRecords
  <2>4. k \in DOMAIN ledger /\ DOMAIN ledger \subseteq Nat
    BY <2>1
  <2>5. ledger' = [i \in DOMAIN ledger |->
                     IF i = k THEN [ledger[i] EXCEPT !.open = FALSE]
                     ELSE ledger[i]]
    BY <2>3, <2>4 DEF Revoke, LedgerClose
  <2>6. /\ DOMAIN ledger' = DOMAIN ledger
        /\ ledger'[k].open = FALSE
        /\ \A i \in DOMAIN ledger \ {k} : ledger'[i] = ledger[i]
    <3>1. ledger[k] \in LedgerRecord
      BY <2>4
    <3> QED
      BY <2>4, <2>5, <3>1 DEF LedgerRecord
  <2> DEFINE Open1(d) == {i \in DOMAIN ledger' :
                            ledger'[i].open /\ ledger'[i].alloc.berth = d}
  <2>7. Open1(b) = {}
    <3> SUFFICES ASSUME NEW i \in Open1(b)
                 PROVE  FALSE
      OBVIOUS
    <3>1. i # k
      BY <2>6
    <3>2. i \in Open(b)
      BY <2>6, <3>1
    <3> QED
      BY <2>1, <3>1, <3>2
  <2>8. ASSUME NEW d \in Berth, d # b
        PROVE  Open1(d) = Open(d) /\ k \notin Open(d)
    BY <2>1, <2>6, <2>8
  <2>9. ASSUME NEW d \in Berth
        PROVE  IF allocs'[d] # None
                 THEN \E i \in Open1(d) : /\ Open1(d) = {i}
                                          /\ ledger'[i].alloc = allocs'[d]
                 ELSE Open1(d) = {}
    <3>1. CASE d = b
      BY <1>1, <2>7, <3>1
    <3>2. CASE d # b
      <4>1. allocs'[d] = allocs[d]
        BY <1>1, <3>2
      <4>2. IF allocs[d] # None
              THEN \E i \in Open(d) : /\ Open(d) = {i}
                                      /\ ledger[i].alloc = allocs[d]
              ELSE Open(d) = {}
        BY DEF LedgerExact, HasAllocation
      <4>3. \A i \in Open(d) : ledger'[i] = ledger[i]
        BY <2>6, <2>8, <3>2
      <4> QED
        BY <2>8, <3>2, <4>1, <4>2, <4>3
    <3> QED
      BY <3>1, <3>2
  <2> QED
    BY <2>9 DEF LedgerExact, HasAllocation
<1> QED
  BY <1>2, <1>3, <1>4, <1>5

\* A grant that fits leaves the books in order.
LEMMA GrantBooks ==
  ASSUME BooksTypes, BooksInv, NEW b \in Berth, NEW v \in Vessel \cup {None},
         NEW k \in Nat, ~HasAllocation(b), Fits(k), 0 < k,
         k <= CapacityKVA[b], Grant(b, v, k)
  PROVE  BooksInv'
<1> USE DEF BooksTypes, BooksInv
<1> DEFINE alloc == [berth |-> b, vessel |-> v, kva |-> k]
           entry == [alloc |-> alloc, open |-> TRUE]
<1>1. /\ used' = [used EXCEPT ![b] = k]
      /\ allocs' = [allocs EXCEPT ![b] = alloc]
      /\ ledger' = Append(ledger, entry)
  BY DEF Grant, LedgerAppend
<1>2. alloc \in Allocation /\ alloc # None
  BY AllocationAssumption DEF Allocation
<1> HIDE DEF alloc
<1>3. BooksAgree'
  <2> SUFFICES ASSUME NEW d \in Berth
               PROVE  IF allocs'[d] # None
                        THEN /\ allocs'[d].berth = d
                             /\ allocs'[d].kva = used'[d]
                             /\ used'[d] > 0
                        ELSE used'[d] = 0
    BY DEF BooksAgree, HasAllocation
  <2>1. CASE d = b
    <3>1. allocs'[d] = alloc /\ used'[d] = k
      BY <1>1, <2>1
    <3>2. alloc.berth = b /\ alloc.kva = k
      BY DEF alloc
    <3> QED
      BY <1>2, <2>1, <3>1, <3>2
  <2>2. CASE d # b
    BY <1>1, <2>2 DEF BooksAgree, HasAllocation
  <2> QED
    BY <2>1, <2>2
<1>4. BerthLimit'
  <2> SUFFICES ASSUME NEW d \in Berth
               PROVE  used'[d] <= CapacityKVA[d]
    BY DEF BerthLimit
  <2>1. used'[d] = IF d = b THEN k ELSE used[d]
    BY <1>1
  <2>2. used[d] <= CapacityKVA[d]
    BY DEF BerthLimit
  <2> QED
    BY <2>1, <2>2
<1>5. CapacityBound'
  <2>1. used[b] = 0
    BY DEF BooksAgree
  <2>2. used \in [Berth -> Nat] /\ IsFiniteSet(Berth)
    BY ShoreAssumption
  <2>3. SumKVA(Berth, [used EXCEPT ![b] = k]) = SumKVA(Berth, used) + k
    BY ONLY <2>1, <2>2, b \in Berth, k \in Nat, SumTake
  <2>4. SumKVA(Berth, used) \in Nat
    BY ONLY <2>2, BlocksFinite
  <2>5. k + SumKVA(Berth, used) <= Shore
    BY DEF Fits, Total
  <2> QED
    BY <1>1, <2>3, <2>4, <2>5, ShoreAssumption DEF CapacityBound, Total
<1>6. LedgerExact'
  <2> DEFINE Open(d) == {i \in DOMAIN ledger :
                           ledger[i].open /\ ledger[i].alloc.berth = d}
             Open1(d) == {i \in DOMAIN ledger' :
                            ledger'[i].open /\ ledger'[i].alloc.berth = d}
             n == Len(ledger) + 1
  <2>1. /\ DOMAIN ledger' = DOMAIN ledger \cup {n}
        /\ n \notin DOMAIN ledger
        /\ \A i \in DOMAIN ledger : ledger'[i] = ledger[i]
        /\ ledger'[n] = entry
    BY <1>1
  <2>2. /\ ledger'[n].open = TRUE
        /\ ledger'[n].alloc = alloc
        /\ ledger'[n].alloc.berth = b
    BY <2>1 DEF alloc
  <2>3. Open(b) = {}
    BY DEF LedgerExact
  <2> HIDE DEF n
  <2>4. Open1(b) = {n}
    BY <2>1, <2>2, <2>3
  <2>5. ASSUME NEW d \in Berth, d # b
        PROVE  Open1(d) = Open(d)
    BY <2>1, <2>2, <2>5
  <2>6. ASSUME NEW d \in Berth
        PROVE  IF allocs'[d] # None
                 THEN \E i \in Open1(d) : /\ Open1(d) = {i}
                                          /\ ledger'[i].alloc = allocs'[d]
                 ELSE Open1(d) = {}
    <3>1. CASE d = b
      BY <1>1, <1>2, <2>2, <2>4, <3>1
    <3>2. CASE d # b
      <4>1. allocs'[d] = allocs[d]
        BY <1>1, <3>2
      <4>2. IF allocs[d] # None
              THEN \E i \in Open(d) : /\ Open(d) = {i}
                                      /\ ledger[i].alloc = allocs[d]
              ELSE Open(d) = {}
        BY DEF LedgerExact, HasAllocation
      <4>3. \A i \in Open(d) : ledger'[i] = ledger[i]
        BY <2>1
      <4> QED
        BY <2>5, <3>2, <4>1, <4>2, <4>3
    <3> QED
      BY <3>1, <3>2
  <2> QED
    BY <2>6 DEF LedgerExact, HasAllocation
<1> QED
  BY <1>3, <1>4, <1>5, <1>6

\* Every kind of step on the books leaves them in order.
LEMMA BooksStepInv ==
  ASSUME BooksTypes, BooksInv, BooksStep
  PROVE  BooksInv'
<1>1. CASE UNCHANGED allocVars
  BY <1>1 DEF BooksInv, BooksAgree, BerthLimit, CapacityBound, LedgerExact,
              HasAllocation, Total, allocVars
<1> QED
  BY <1>1, RevokeBooks, GrantBooks DEF BooksStep

\* The books stay in order in every step.
LEMMA NextBooksInv == TypeInv /\ BooksInv /\ [Next]_vars => BooksInv'
<1> SUFFICES ASSUME TypeInv, BooksInv, [Next]_vars PROVE BooksInv'
  OBVIOUS
<1>1. BooksStep
  <2>1. CASE UNCHANGED vars
    BY <2>1 DEF vars, allocVars, BooksStep
  <2> QED
    BY <2>1, NextBooks
<1> QED
  BY <1>1, BooksStepInv DEF TypeInv, TypeOK, BooksTypes

\* The books are in order in every run.
LEMMA BooksCorrect == Spec => []BooksInv
  BY InitTypeInv, NextTypeInv, InitBooks, NextBooksInv, PTL DEF Spec

\* However many Allocate calls, departures, rebuilds and sweeps overlap, the
\* berths never draw more than the shore supplies.
THEOREM CapacityBoundHolds == Spec => []CapacityBound
<1>1. BooksInv => CapacityBound
  BY DEF BooksInv
<1> QED
  BY BooksCorrect, <1>1, PTL

\* No berth draws more than its rating, although Allocate never looks at it.
THEOREM BerthLimitHolds == Spec => []BerthLimit
<1>1. BooksInv => BerthLimit
  BY DEF BooksInv
<1> QED
  BY BooksCorrect, <1>1, PTL

\* The two maps of the allocator agree in every run.
THEOREM BooksAgreeHolds == Spec => []BooksAgree
<1>1. BooksInv => BooksAgree
  BY DEF BooksInv
<1> QED
  BY BooksCorrect, <1>1, PTL

\* The ledger has one open record for each live allocation and no other.
THEOREM LedgerExactHolds == Spec => []LedgerExact
<1>1. BooksInv => LedgerExact
  BY DEF BooksInv
<1> QED
  BY BooksCorrect, <1>1, PTL

---------------------------------------------------------------------------
(* The refinement.                                                         *)

\* The empty books are the empty pool.
LEMMA InitPool == Init => Pool!PoolInit
BY DEF Init, NewAllocator, Pool!PoolInit

\* A step on the books is a step of the pool or leaves it alone.
LEMMA BooksStepPool ==
  ASSUME BooksTypes, BooksInv, BooksStep
  PROVE  [Pool!PoolNext]_used
<1> USE DEF BooksTypes, BooksInv
<1>1. CASE UNCHANGED allocVars
  BY <1>1 DEF allocVars
<1>2. ASSUME NEW b \in Berth, HasAllocation(b), Revoke(b)
      PROVE  Pool!PoolNext
  <2>1. used[b] > 0
    BY <1>2 DEF BooksAgree
  <2>2. Pool!GiveBack(b)
    BY <1>2, <2>1 DEF Revoke, Pool!GiveBack
  <2> QED
    BY <2>2 DEF Pool!PoolNext
<1>3. ASSUME NEW b \in Berth, NEW v \in Vessel \cup {None}, NEW k \in Nat,
             ~HasAllocation(b), Fits(k), 0 < k, Grant(b, v, k)
      PROVE  Pool!PoolNext
  <2>1. used[b] = 0
    BY <1>3 DEF BooksAgree
  <2>2. SumKVA(Berth, used) \in Nat
    BY BlocksFinite, ShoreAssumption
  <2>3. k + SumKVA(Berth, used) <= Shore
    BY <1>3 DEF Fits, Total
  <2>4. k \in 1 .. Shore
    BY <1>3, <2>2, <2>3, ShoreAssumption
  <2>5. Pool!SumKVA(Berth, used) = SumKVA(Berth, used)
    BY DEF Pool!SumKVA, Pool!Blocks, SumKVA, Blocks, Pool!Cardinality,
           Cardinality
  <2>6. used' = [used EXCEPT ![b] = k]
    BY <1>3 DEF Grant
  <2>7. Pool!Take(b, k)
    BY <1>3, <2>1, <2>3, <2>5, <2>6 DEF Pool!Take
  <2> QED
    BY <2>4, <2>7 DEF Pool!PoolNext
<1> QED
  BY <1>1, <1>2, <1>3 DEF BooksStep

\* The allocator, with every goroutine that uses it, implements the atomic
\* pool: grants and revocations are the only changes, each one all at once.
THEOREM ImplementsPoolHolds == Spec => ImplementsPool
<1>1. TypeInv /\ BooksInv /\ [Next]_vars => [Pool!PoolNext]_used
  <2> SUFFICES ASSUME TypeInv, BooksInv, [Next]_vars
               PROVE  [Pool!PoolNext]_used
    OBVIOUS
  <2>1. CASE Next
    BY <2>1, NextBooks, BooksStepPool DEF TypeInv, TypeOK, BooksTypes
  <2>2. CASE UNCHANGED vars
    BY <2>2 DEF vars
  <2> QED
    BY <2>1, <2>2
<1>2. Spec => []TypeInv
  BY InitTypeInv, NextTypeInv, PTL DEF Spec
<1>3. Spec => Pool!PoolSpec
  BY InitPool, <1>1, <1>2, BooksCorrect, PTL DEF Spec, Pool!PoolSpec
<1> QED
  BY <1>3 DEF ImplementsPool

---------------------------------------------------------------------------
(* The berth store.                                                        *)

\* In the map a rebuild is making, a berth that is not settled has no vessel.
LiveOK ==
  \A c \in Client : pc[c] = "occupants" =>
    \A b \in Berth :
      /\ live[c][b].vessel # None => live[c][b].state = "settled"
      /\ b \in todo[c] => live[c][b].state = "settled"

StoreInv == CacheCoherent /\ VesselOnlyWhenHeld /\ LiveOK

\* The seeded store is in order.
LEMMA InitStore == Init => StoreInv
BY CapacityAssumption
   DEF Init, NewStore, IdleRecord, StoreInv, CacheCoherent, CachedState,
       State, VesselOnlyWhenHeld, OccupiedBy, LiveOK, Process

\* One rule for all the Mark methods: a record that obeys the rule may be put.
LEMMA PutStore ==
  ASSUME TypeOK, CacheCoherent, VesselOnlyWhenHeld, NEW b \in Berth,
         NEW r \in BerthRecord, Put(b, r),
         r.vessel # None => r.state \in {"settled", "releasing"}
  PROVE  CacheCoherent' /\ VesselOnlyWhenHeld'
<1>1. /\ berths' = [berths EXCEPT ![b] = r]
      /\ cache' = [cache EXCEPT ![b] = r.state]
  BY DEF Put
<1>2. CacheCoherent'
  BY <1>1 DEF TypeOK, CacheCoherent, CachedState, State
<1>3. VesselOnlyWhenHeld'
  BY <1>1 DEF TypeOK, VesselOnlyWhenHeld, OccupiedBy, State
<1> QED
  BY <1>2, <1>3

\* Every kind of step on the store keeps the cache coherent and the vessel
\* names where they belong.
LEMMA StoreStepInv ==
  ASSUME TypeInv, StoreInv, StoreStep
  PROVE  CacheCoherent' /\ VesselOnlyWhenHeld'
<1> USE DEF TypeInv, StoreInv
<1>1. CASE UNCHANGED storeVars
  BY <1>1 DEF storeVars, CacheCoherent, CachedState, State,
              VesselOnlyWhenHeld, OccupiedBy
<1>2. ASSUME NEW b \in Berth, NEW v \in Vessel, MarkOccupied(b, v)
      PROVE  CacheCoherent' /\ VesselOnlyWhenHeld'
  <2> DEFINE r == [state |-> "settled", vessel |-> v]
  <2>1. r \in BerthRecord /\ r.state = "settled"
    BY DEF BerthRecord, BerthState
  <2>2. Put(b, r)
    BY <1>2 DEF MarkOccupied
  <2> QED
    BY <2>1, <2>2, PutStore
<1>3. ASSUME NEW b \in Berth, MarkReleasing(b)
      PROVE  CacheCoherent' /\ VesselOnlyWhenHeld'
  <2> DEFINE r == [berths[b] EXCEPT !.state = "releasing"]
  <2>1. berths[b] \in BerthRecord
    BY DEF TypeOK
  <2>2. r \in BerthRecord /\ r.state = "releasing"
    BY ONLY <2>1 DEF BerthRecord, BerthState
  <2>3. Put(b, r)
    BY <1>3 DEF MarkReleasing
  <2> QED
    BY <2>2, <2>3, PutStore
<1>4. ASSUME NEW b \in Berth, Put(b, IdleRecord)
      PROVE  CacheCoherent' /\ VesselOnlyWhenHeld'
  <2>1. IdleRecord \in BerthRecord /\ IdleRecord.vessel = None
    BY DEF BerthRecord, BerthState, IdleRecord
  <2> QED
    BY <1>4, <2>1, PutStore
<1>5. ASSUME NEW c \in Client, pc[c] = "occupants", RebuildFromLive(live[c])
      PROVE  CacheCoherent' /\ VesselOnlyWhenHeld'
  <2>1. /\ berths' = live[c]
        /\ cache' = [b \in Berth |-> live[c][b].state]
    BY <1>5 DEF RebuildFromLive
  <2>2. CacheCoherent'
    BY <2>1 DEF CacheCoherent, CachedState, State
  <2>3. VesselOnlyWhenHeld'
    BY <1>5, <2>1 DEF VesselOnlyWhenHeld, OccupiedBy, State, LiveOK
  <2> QED
    BY <2>2, <2>3
<1> QED
  BY <1>1, <1>2, <1>3, <1>4, <1>5 DEF StoreStep

\* What a goroutine loops over, and the map it makes meanwhile, have their
\* types, whatever steps P a process may be at.
LoopTypes(P) ==
  /\ pc \in [Process -> P]
  /\ todo \in [Process -> SUBSET Berth]
  /\ live \in [Client -> [Berth -> BerthRecord] \cup {None}]
  /\ \A c \in Client :
       pc[c] = "occupants" => live[c] \in [Berth -> BerthRecord]

\* A step keeps LiveOK if it changes no map under construction, brings
\* nobody to the point where one is filled in, and adds nothing to the loop
\* of a goroutine that is there.
LEMMA LiveFrame ==
  ASSUME NEW P, LoopTypes(P), LiveOK, NEW p \in Process, NEW to,
         to # "occupants", NEW S,
         live' = live,
         pc' = pc \/ pc' = [pc EXCEPT ![p] = to],
         \/ todo' = todo
         \/ pc[p] # "occupants" /\ todo' = [todo EXCEPT ![p] = S]
  PROVE  LiveOK'
<1> SUFFICES ASSUME NEW d \in Client, pc'[d] = "occupants",
                    NEW b \in Berth
             PROVE  /\ live[d][b].vessel # None
                         => live[d][b].state = "settled"
                    /\ b \in todo'[d] => live[d][b].state = "settled"
  BY DEF LiveOK
<1>1. pc[d] = "occupants"
  BY DEF LoopTypes, Process
<1>2. todo'[d] = todo[d]
  BY <1>1 DEF LoopTypes, Process
<1> QED
  BY <1>1, <1>2 DEF LiveOK

LEMMA SyncLive ==
  ASSUME NEW P, LoopTypes(P), LiveOK, NEW p \in Process, NEW b \in Berth,
         SyncRelease(p, b)
  PROVE  LiveOK'
<1>1. /\ live' = live /\ pc' = pc /\ pc[p] = "syncing"
      /\ todo' = [todo EXCEPT ![p] = todo[p] \ {b}]
  BY DEF SyncRelease
<1> QED
  BY <1>1, LiveFrame

\* A rebuild starts its map from its own loop and only names vessels at the
\* berths of that loop.
LEMMA RebuildLiveInv ==
  ASSUME NEW P, LoopTypes(P), LiveOK, NEW c \in Client, RebuildStep(c)
  PROVE  LiveOK'
<1>1. ASSUME HandleRebuild(c) \/ RebuildSync(c)
      PROVE  LiveOK'
  <2>1. /\ live' = live
        /\ pc[c] \in {"ready", "sync"}
        /\ \E to \in {"list", "syncing"} : pc' = [pc EXCEPT ![c] = to]
        /\ \E S : todo' = [todo EXCEPT ![c] = S]
    BY <1>1 DEF HandleRebuild, RebuildSync, Start, Goto
  <2>2. c \in Process
    BY DEF Process
  <2> QED
    BY <2>1, <2>2, LiveFrame
<1>2. CASE RebuildList(c)
  <2>1. /\ pc' = [pc EXCEPT ![c] = "occupants"]
        /\ live' = [live EXCEPT ![c] =
                      [b \in Berth |->
                         IF b \in todo[c]
                           THEN [state |-> "settled",
                                 vessel |-> OccupiedBy(b)]
                           ELSE IdleRecord]]
        /\ todo' = todo
    BY <1>2 DEF RebuildList, Goto
  <2> SUFFICES ASSUME NEW d \in Client, pc'[d] = "occupants",
                      NEW b \in Berth
               PROVE  /\ live'[d][b].vessel # None
                           => live'[d][b].state = "settled"
                      /\ b \in todo'[d] => live'[d][b].state = "settled"
    BY DEF LiveOK
  <2>2. CASE d = c
    BY <2>1, <2>2 DEF LoopTypes, IdleRecord
  <2>3. CASE d # c
    BY <2>1, <2>3 DEF LoopTypes, LiveOK, Process
  <2> QED
    BY <2>2, <2>3
<1>3. ASSUME NEW b \in Berth, RebuildOccupant(c, b)
      PROVE  LiveOK'
  <2>1. /\ pc[c] = "occupants" /\ b \in todo[c] /\ pc' = pc
        /\ todo' = [todo EXCEPT ![c] = @ \ {b}]
        /\ \/ live' = live
           \/ live' = [live EXCEPT ![c][b].vessel = OccupiedBy(b)]
    BY <1>3 DEF RebuildOccupant
  <2>2. live[c] \in [Berth -> BerthRecord] /\ live[c][b].state = "settled"
    BY <2>1 DEF LoopTypes, LiveOK
  <2>3. /\ \A d \in Client \ {c} : live'[d] = live[d]
        /\ \A a \in Berth \ {b} : live'[c][a] = live[c][a]
        /\ live'[c][b].state = "settled"
    <3>1. CASE live' = live
      BY <2>2, <3>1
    <3>2. CASE live' = [live EXCEPT ![c][b].vessel = OccupiedBy(b)]
      <4> DEFINE r == [live[c][b] EXCEPT !.vessel = OccupiedBy(b)]
                 l == [live[c] EXCEPT ![b] = r]
      <4>1. live[c][b] \in BerthRecord
        BY <2>2
      <4>2. r.state = "settled"
        BY <2>2, <4>1 DEF BerthRecord
      <4>3. l[b] = r /\ \A a \in Berth \ {b} : l[a] = live[c][a]
        BY <2>2
      <4>4. live' = [live EXCEPT ![c] = l]
        BY <3>2
      <4>5. DOMAIN live = Client
        BY DEF LoopTypes
      <4> HIDE DEF l, r
      <4> QED
        BY <4>2, <4>3, <4>4, <4>5
    <3> QED
      BY <2>1, <3>1, <3>2
  <2> SUFFICES ASSUME NEW d \in Client, pc'[d] = "occupants",
                      NEW a \in Berth
               PROVE  /\ live'[d][a].vessel # None
                           => live'[d][a].state = "settled"
                      /\ a \in todo'[d] => live'[d][a].state = "settled"
    BY DEF LiveOK
  <2>4. pc[d] = "occupants" /\ todo'[d] \subseteq todo[d]
    BY <2>1 DEF LoopTypes, Process
  <2>5. CASE d = c /\ a = b
    BY <2>3, <2>5
  <2>6. CASE d # c \/ a # b
    BY <2>3, <2>4, <2>6 DEF LiveOK
  <2> QED
    BY <2>5, <2>6
<1>4. CASE RebuildStore(c)
  <2>1. /\ pc' = [pc EXCEPT ![c] = "sync"] /\ todo' = todo
        /\ live' = [live EXCEPT ![c] = None]
    BY <1>4 DEF RebuildStore, Goto
  <2> SUFFICES ASSUME NEW d \in Client, pc'[d] = "occupants",
                      NEW b \in Berth
               PROVE  /\ live'[d][b].vessel # None
                           => live'[d][b].state = "settled"
                      /\ b \in todo'[d] => live'[d][b].state = "settled"
    BY DEF LiveOK
  <2>2. d # c /\ pc[d] = "occupants"
    BY <2>1 DEF LoopTypes, Process
  <2> QED
    BY <2>1, <2>2 DEF LiveOK, LoopTypes
<1>5. ASSUME NEW b \in Berth, SyncRelease(c, b)
      PROVE  LiveOK'
  BY <1>5, SyncLive DEF Process
<1>6. CASE RebuildDone(c)
  <2>1. /\ live' = live /\ todo' = todo
        /\ pc' = [pc EXCEPT ![c] = "ready"]
    BY <1>6 DEF RebuildDone, Give, Finish, Goto
  <2>2. c \in Process
    BY DEF Process
  <2> QED
    BY <2>1, <2>2, LiveFrame
<1> QED
  BY <1>1, <1>2, <1>3, <1>4, <1>5, <1>6 DEF RebuildStep

\* The reconciler makes no map.
LEMMA ReconcileLiveInv ==
  ASSUME NEW P, LoopTypes(P), LiveOK, ReconcileStep
  PROVE  LiveOK'
<1>1. ASSUME NEW to, to # "occupants",
             pc' = pc \/ pc' = [pc EXCEPT ![Reconciler] = to],
             live' = live, NEW S,
             todo' = todo \/ todo' = [todo EXCEPT ![Reconciler] = S]
      PROVE  LiveOK'
  <2> SUFFICES ASSUME NEW d \in Client, pc'[d] = "occupants",
                      NEW b \in Berth
               PROVE  /\ live[d][b].vessel # None
                           => live[d][b].state = "settled"
                      /\ b \in todo'[d] => live[d][b].state = "settled"
    BY <1>1 DEF LiveOK
  <2>1. d # Reconciler
    BY CapacityAssumption
  <2>2. pc[d] = "occupants" /\ todo'[d] = todo[d]
    BY <1>1, <2>1 DEF LoopTypes, Process
  <2> QED
    BY <2>2 DEF LiveOK
<1>2. CASE ReconcileTick
  BY <1>1, <1>2 DEF ReconcileTick, Goto
<1>3. CASE ReconcileList
  BY <1>1, <1>3 DEF ReconcileList, Goto
<1>4. ASSUME NEW b \in Berth, ReconcileAudit(b)
      PROVE  LiveOK'
  <2>1. /\ pc' = pc /\ live' = live
        /\ todo' = [todo EXCEPT ![Reconciler] = todo[Reconciler] \ {b}]
    BY <1>4 DEF ReconcileAudit
  <2>2. "ready" # "occupants"
    OBVIOUS
  <2> QED
    BY <1>1, <2>1, <2>2
<1>5. CASE ReconcileReport
  BY <1>1, <1>5 DEF ReconcileReport, Goto
<1>6. ASSUME NEW b \in Berth, SyncRelease(Reconciler, b)
      PROVE  LiveOK'
  BY <1>6, SyncLive DEF Process
<1> QED
  BY <1>2, <1>3, <1>4, <1>5, <1>6 DEF ReconcileStep

\* LiveOK is kept by every step.
LEMMA NextLive ==
  ASSUME TypeInv, LiveOK, Next
  PROVE  LiveOK'
<1>0. LoopTypes(Step)
  BY DEF TypeInv, TypeOK, LocalsOK, LoopTypes
<1>1. ASSUME NEW c \in Client, NEW to, to # "occupants",
             Move(c, to) \/ Give(c)
      PROVE  LiveOK'
  <2>1. /\ live' = live /\ todo' = todo
        /\ \/ pc' = [pc EXCEPT ![c] = to]
           \/ pc' = [pc EXCEPT ![c] = "ready"]
    BY <1>1 DEF Move, Give, Finish, Goto
  <2>2. c \in Process
    BY DEF Process
  <2> QED
    BY <1>0, <1>1, <2>1, <2>2, LiveFrame
<1>2. ASSUME NEW c \in Client, OccupyStep(c)
      PROVE  LiveOK'
  <2>1. ASSUME NEW b \in Berth, NEW v \in Vessel \cup {None},
               NEW need \in Demand, HandleOccupy(c, b, v, need)
        PROVE  LiveOK'
    <3>1. /\ live' = live /\ todo' = todo
          /\ pc' = [pc EXCEPT ![c] = "refresh"]
      BY <2>1 DEF HandleOccupy, Start, Goto
    <3>2. c \in Process
      BY DEF Process
    <3> QED
      BY <1>0, <3>1, <3>2, LiveFrame
  <2>2. ASSUME \/ AllocateRefresh(c) \/ AllocateDrop(c)
               \/ AllocateCached(c) \/ AllocateGrant(c) \/ OccupyMark(c)
        PROVE  \E to \in {"drop", "cached", "grant", "granted"} :
                 Move(c, to) \/ Give(c)
    BY <2>2 DEF AllocateRefresh, AllocateDrop, AllocateCached,
                AllocateGrant, OccupyMark
  <2> QED
    BY <1>1, <1>2, <2>1, <2>2 DEF OccupyStep
<1>3. ASSUME NEW c \in Client, DepartStep(c)
      PROVE  LiveOK'
  <2>1. ASSUME NEW b \in Berth, HandleDepart(c, b)
        PROVE  LiveOK'
    <3>1. /\ live' = live /\ todo' = todo
          /\ pc' = [pc EXCEPT ![c] = "settle"]
      BY <2>1 DEF HandleDepart, Start, Goto
    <3>2. c \in Process
      BY DEF Process
    <3> QED
      BY <1>0, <3>1, <3>2, LiveFrame
  <2>2. ASSUME \/ DepartSettle(c) \/ DepartMark(c) \/ DepartRelease(c)
               \/ DepartIdle(c)
        PROVE  \E to \in {"mark", "release", "free"} :
                 Move(c, to) \/ Give(c)
    BY <2>2 DEF DepartSettle, DepartMark, DepartRelease, DepartIdle
  <2> QED
    BY <1>1, <1>3, <2>1, <2>2 DEF DepartStep
<1> QED
  BY <1>0, <1>2, <1>3, RebuildLiveInv, ReconcileLiveInv DEF Next

\* The store is in order in every run.
LEMMA StoreCorrect == Spec => []StoreInv
<1>1. TypeInv /\ StoreInv /\ [Next]_vars => StoreInv'
  <2>1. ASSUME TypeInv, StoreInv, Next
        PROVE  StoreInv'
    BY <2>1, NextStore, StoreStepInv, NextLive DEF StoreInv
  <2>2. ASSUME StoreInv, UNCHANGED vars
        PROVE  StoreInv'
    BY <2>2 DEF StoreInv, CacheCoherent, CachedState, State,
                VesselOnlyWhenHeld, OccupiedBy, LiveOK, vars
  <2> QED
    BY <2>1, <2>2
<1> QED
  BY InitTypeInv, NextTypeInv, InitStore, <1>1, PTL DEF Spec

\* The cache decides in Allocate as the table would, in every run.
THEOREM CacheCoherentHolds == Spec => []CacheCoherent
<1>1. StoreInv => CacheCoherent
  BY DEF StoreInv
<1> QED
  BY StoreCorrect, <1>1, PTL

\* No freed berth keeps the name of a vessel, in any run.
THEOREM VesselOnlyWhenHeldHolds == Spec => []VesselOnlyWhenHeld
<1>1. StoreInv => VesselOnlyWhenHeld
  BY DEF StoreInv
<1> QED
  BY StoreCorrect, <1>1, PTL

---------------------------------------------------------------------------
(* Who frees a berth, while nobody rebuilds the table.                     *)

Departing == {"release", "free"}

OwnInv ==
  /\ SettledHasVessel
  /\ DepartOwnsBerth
  /\ \A c \in Client : pc[c] \notin {"list", "occupants"}

\* Nobody departs in the seeded store.
LEMMA InitOwn == Init => OwnInv
BY CapacityAssumption
   DEF Init, NewStore, IdleRecord, OwnInv, SettledHasVessel, State,
       DepartOwnsBerth, Process

\* A step keeps OwnInv if it leaves the store alone and moves its goroutine
\* among the steps of a departure only forward, with the same request.
LEMMA OwnFrame ==
  ASSUME TypeOK, OwnInv, NEW p \in Process, NEW to, UNCHANGED storeVars,
         to \notin {"list", "occupants"},
         pc' = pc \/ pc' = [pc EXCEPT ![p] = to],
         \A d \in Client \ {p} : req'[d] = req[d],
         p \in Client /\ pc'[p] \in Departing
           => pc[p] \in Departing /\ req'[p] = req[p]
  PROVE  OwnInv'
<1>1. /\ berths' = berths
      /\ \A b \in Berth : State(b)' = State(b)
  BY DEF storeVars, State
<1>2. \A d \in Client : pc'[d] \in Departing =>
                          pc[d] \in Departing /\ req'[d] = req[d]
  BY DEF TypeOK, Process
<1>3. \A d \in Client : pc'[d] \notin {"list", "occupants"}
  BY DEF TypeOK, Process, OwnInv
<1>4. SettledHasVessel'
  BY <1>1 DEF OwnInv, SettledHasVessel, State, OccupiedBy
<1>5. DepartOwnsBerth'
  BY <1>1, <1>2 DEF OwnInv, DepartOwnsBerth, State, Departing
<1> QED
  BY <1>3, <1>4, <1>5 DEF OwnInv

\* A step of client c that puts a record at berth b keeps OwnInv if nobody
\* else is about to free b and the record names a vessel when it must.
LEMMA OwnPut ==
  ASSUME TypeOK, OwnInv, NEW c \in Client, NEW to, NEW b \in Berth,
         NEW r \in BerthRecord, Put(b, r),
         to \notin {"list", "occupants"},
         pc' = [pc EXCEPT ![c] = to],
         \A d \in Client \ {c} : req'[d] = req[d],
         \A d \in Client \ {c} : pc[d] \in Departing => req[d].berth # b,
         r.state \in {"settled", "releasing"} => r.vessel # None,
         to \in Departing => /\ req'[c].berth = b
                             /\ r.state = "releasing"
  PROVE  OwnInv'
<1>1. /\ berths' = [berths EXCEPT ![b] = r]
      /\ berths \in [Berth -> BerthRecord]
  BY DEF Put, TypeOK
<1>2. /\ pc'[c] = to
      /\ \A d \in Client \ {c} : pc'[d] = pc[d]
  BY DEF TypeOK, Process
<1>3. SettledHasVessel'
  BY <1>1 DEF OwnInv, SettledHasVessel, State, OccupiedBy
<1>4. ASSUME NEW d \in Client, pc'[d] \in Departing
      PROVE  /\ berths'[req'[d].berth].state = "releasing"
             /\ \A e \in Client \ {d} :
                  pc'[e] \in Departing => req'[e].berth # req'[d].berth
  <2>1. \A e \in Client \ {c} :
          pc'[e] \in Departing =>
            /\ req[e].berth # b
            /\ req'[e].berth = req[e].berth
            /\ berths[req[e].berth].state = "releasing"
    BY <1>2 DEF OwnInv, DepartOwnsBerth, Departing, State
  <2>2. CASE d = c
    <3>1. req'[d].berth = b /\ r.state = "releasing"
      BY <1>2, <1>4, <2>2
    <3> QED
      BY <1>1, <2>1, <2>2, <3>1
  <2>3. CASE d # c
    <3>1. berths'[req'[d].berth].state = "releasing"
      BY <1>1, <1>4, <2>1, <2>3
    <3>2. ASSUME NEW e \in Client \ {d}, pc'[e] \in Departing
          PROVE  req'[e].berth # req'[d].berth
      <4>1. CASE e = c
        BY <1>2, <1>4, <2>1, <2>3, <3>2, <4>1
      <4>2. CASE e # c
        <5>1. /\ pc[e] \in Departing /\ pc[d] \in Departing
              /\ req'[e] = req[e] /\ req'[d] = req[d]
          BY <1>2, <1>4, <2>3, <3>2, <4>2
        <5> QED
          BY <5>1 DEF OwnInv, DepartOwnsBerth, Departing
      <4> QED
        BY <4>1, <4>2
    <3> QED
      BY <3>1, <3>2
  <2> QED
    BY <2>2, <2>3
<1>5. DepartOwnsBerth'
  BY <1>4 DEF DepartOwnsBerth, Departing, State
<1>6. \A d \in Client : pc'[d] \notin {"list", "occupants"}
  BY <1>2 DEF OwnInv
<1> QED
  BY <1>3, <1>5, <1>6 DEF OwnInv

\* A berth that is not being released is no departing client's.
LEMMA NotDeparting ==
  ASSUME OwnInv, NEW b, State(b) # "releasing"
  PROVE  \A d \in Client : pc[d] \in Departing => req[d].berth # b
BY DEF OwnInv, DepartOwnsBerth, Departing

\* Without rebuilds every step keeps OwnInv: a berth is taken when it is
\* idle or allocating, marked for release when it is settled, and freed by
\* the one client that marked it.
LEMMA NextOwn ==
  ASSUME "rebuild" \notin Ops, TypeInv, OwnInv, Next
  PROVE  OwnInv'
<1> USE DEF TypeInv
<1>1. ASSUME NEW c \in Client, OccupyStep(c)
      PROVE  OwnInv'
  <2>1. ASSUME NEW b \in Berth, NEW v \in Vessel \cup {None},
               NEW need \in Demand, HandleOccupy(c, b, v, need)
        PROVE  OwnInv'
    <3>1. /\ UNCHANGED storeVars
          /\ pc' = [pc EXCEPT ![c] = "refresh"]
          /\ \A d \in Client \ {c} : req'[d] = req[d]
          /\ pc'[c] \notin Departing
      BY <2>1 DEF HandleOccupy, Start, Goto, TypeOK, Process, Departing
    <3> QED
      BY <3>1, OwnFrame DEF Process
  <2>2. CASE \/ AllocateRefresh(c) \/ AllocateDrop(c) \/ AllocateCached(c)
             \/ AllocateGrant(c)
    <3>1. UNCHANGED storeVars
      BY <2>2 DEF AllocateRefresh, AllocateDrop, AllocateCached,
                  AllocateGrant
    <3>2. \E to \in {"ready", "drop", "cached", "grant", "granted"} :
            /\ pc' = [pc EXCEPT ![c] = to]
            /\ \A d \in Client \ {c} : req'[d] = req[d]
      BY <2>2 DEF AllocateRefresh, AllocateDrop, AllocateCached,
                  AllocateGrant, Move, Give, Finish, Goto, TypeOK
    <3>3. PICK to \in {"ready", "drop", "cached", "grant", "granted"} :
            /\ pc' = [pc EXCEPT ![c] = to]
            /\ \A d \in Client \ {c} : req'[d] = req[d]
      BY <3>2
    <3>4. pc'[c] \notin Departing /\ to \notin {"list", "occupants"}
      BY <3>3 DEF TypeOK, Process, Departing
    <3> QED
      BY <3>1, <3>3, <3>4, OwnFrame DEF Process
  <2>3. CASE OccupyMark(c)
    <3>1. /\ req[c] \in Request
          /\ pc' = [pc EXCEPT ![c] = "ready"]
          /\ \A d \in Client \ {c} : req'[d] = req[d]
      BY <2>3 DEF OccupyMark, Give, Finish, Goto, LocalsOK, OccupyRequest,
                  TypeOK
    <3>2. pc'[c] \notin Departing
      BY <3>1 DEF TypeOK, Process, Departing
    <3>3. CASE MayOccupy(req[c].berth, req[c].vessel)
      <4> DEFINE b == req[c].berth
                 r == [state |-> "settled", vessel |-> req[c].vessel]
      <4>1. /\ b \in Berth /\ r \in BerthRecord
            /\ r.vessel # None /\ State(b) # "releasing"
        BY <3>1, <3>3 DEF MayOccupy, Request, BerthRecord, BerthState
      <4>2. Put(b, r)
        BY <2>3, <3>3 DEF OccupyMark, MarkOccupied
      <4>3. \A d \in Client : pc[d] \in Departing => req[d].berth # b
        BY <4>1, NotDeparting
      <4>4. "ready" \notin Departing /\ "ready" \notin {"list", "occupants"}
        BY DEF Departing
      <4> HIDE DEF b, r
      <4> QED
        BY <3>1, <4>1, <4>2, <4>3, <4>4, OwnPut
    <3>4. CASE ~MayOccupy(req[c].berth, req[c].vessel)
      <4>1. UNCHANGED storeVars
        BY <2>3, <3>4 DEF OccupyMark
      <4> QED
        BY <3>1, <3>2, <4>1, OwnFrame DEF Process
    <3> QED
      BY <3>3, <3>4
  <2> QED
    BY <1>1, <2>1, <2>2, <2>3 DEF OccupyStep
<1>2. ASSUME NEW c \in Client, DepartStep(c)
      PROVE  OwnInv'
  <2>1. ASSUME NEW b \in Berth, HandleDepart(c, b)
        PROVE  OwnInv'
    <3>1. /\ UNCHANGED storeVars
          /\ pc' = [pc EXCEPT ![c] = "settle"]
          /\ \A d \in Client \ {c} : req'[d] = req[d]
          /\ pc'[c] \notin Departing
      BY <2>1 DEF HandleDepart, Start, Goto, TypeOK, Process, Departing
    <3> QED
      BY <3>1, OwnFrame DEF Process
  <2>2. CASE DepartSettle(c)
    <3>1. /\ UNCHANGED storeVars
          /\ \E to \in {"ready", "mark"} : pc' = [pc EXCEPT ![c] = to]
          /\ \A d \in Client \ {c} : req'[d] = req[d]
      BY <2>2 DEF DepartSettle, Move, Give, Finish, Goto, TypeOK
    <3>2. PICK to \in {"ready", "mark"} : pc' = [pc EXCEPT ![c] = to]
      BY <3>1
    <3>3. pc'[c] \notin Departing /\ to \notin {"list", "occupants"}
      BY <3>2 DEF TypeOK, Process, Departing
    <3> QED
      BY <3>1, <3>2, <3>3, OwnFrame DEF Process
  <2>3. CASE DepartMark(c)
    <3>1. req[c] \in Request
      BY <2>3 DEF DepartMark, LocalsOK
    <3>2. CASE MayRelease(req[c].berth)
      <4> DEFINE b == req[c].berth
                 r == [berths[b] EXCEPT !.state = "releasing"]
      <4>1. b \in Berth /\ State(b) = "settled"
        BY <3>1, <3>2 DEF Request, MayRelease
      <4>2. /\ berths[b] \in BerthRecord
            /\ berths[b].vessel # None
        BY <4>1 DEF TypeOK, OwnInv, SettledHasVessel, OccupiedBy
      <4>3. /\ r \in BerthRecord /\ r.state = "releasing"
            /\ r.vessel # None
        BY <4>2 DEF BerthRecord, BerthState
      <4>4. /\ Put(b, r) /\ req' = req
            /\ pc' = [pc EXCEPT ![c] = "release"]
        BY <2>3, <3>2 DEF DepartMark, MarkReleasing, Move, Goto
      <4>5. \A d \in Client : pc[d] \in Departing => req[d].berth # b
        BY <4>1, NotDeparting
      <4>6. "release" \notin {"list", "occupants"} /\ req'[c].berth = b
        BY <4>4
      <4> HIDE DEF b, r
      <4> QED
        BY <4>1, <4>3, <4>4, <4>5, <4>6, OwnPut
    <3>3. CASE ~MayRelease(req[c].berth)
      <4>1. /\ UNCHANGED storeVars
            /\ pc' = [pc EXCEPT ![c] = "ready"]
            /\ \A d \in Client \ {c} : req'[d] = req[d]
        BY <2>3, <3>3 DEF DepartMark, Give, Finish, Goto, TypeOK
      <4>2. pc'[c] \notin Departing
        BY <4>1 DEF TypeOK, Process, Departing
      <4> QED
        BY <4>1, <4>2, OwnFrame DEF Process
    <3> QED
      BY <3>2, <3>3
  <2>4. CASE DepartRelease(c)
    <3>1. /\ UNCHANGED storeVars
          /\ pc[c] \in Departing
          /\ \/ pc' = [pc EXCEPT ![c] = "free"] /\ req' = req
             \/ /\ pc' = [pc EXCEPT ![c] = "ready"]
                /\ \A d \in Client \ {c} : req'[d] = req[d]
      BY <2>4 DEF DepartRelease, Move, Give, Finish, Goto, TypeOK, Departing
    <3>2. CASE pc' = [pc EXCEPT ![c] = "free"] /\ req' = req
      <4>1. \A d \in Client \ {c} : req'[d] = req[d]
        BY <3>2
      <4>2. "free" \notin {"list", "occupants"}
        OBVIOUS
      <4> QED
        BY <3>1, <3>2, <4>1, <4>2, OwnFrame DEF Process
    <3>3. CASE /\ pc' = [pc EXCEPT ![c] = "ready"]
               /\ \A d \in Client \ {c} : req'[d] = req[d]
      <4>1. pc'[c] \notin Departing
        BY <3>3 DEF TypeOK, Process, Departing
      <4>2. "ready" \notin {"list", "occupants"} /\ UNCHANGED storeVars
        BY <3>1
      <4> QED
        BY <3>3, <4>1, <4>2, OwnFrame DEF Process
    <3> QED
      BY <3>1, <3>2, <3>3
  <2>5. CASE DepartIdle(c)
    <3> DEFINE b == req[c].berth
    <3>1. /\ pc[c] = "free" /\ req[c] \in Request
          /\ pc' = [pc EXCEPT ![c] = "ready"]
          /\ \A d \in Client \ {c} : req'[d] = req[d]
          /\ MarkIdle(b)
      BY <2>5 DEF DepartIdle, LocalsOK, Give, Finish, Goto, TypeOK
    <3>2. /\ State(b) = "releasing" /\ b \in Berth
          /\ \A d \in Client \ {c} : pc[d] \in Departing => req[d].berth # b
      BY <3>1 DEF OwnInv, DepartOwnsBerth, Departing, Request
    <3>3. Put(b, IdleRecord)
      BY <3>1, <3>2 DEF MarkIdle
    <3>4. /\ IdleRecord \in BerthRecord /\ IdleRecord.state = "idle"
          /\ "ready" \notin Departing /\ "ready" \notin {"list", "occupants"}
      BY DEF IdleRecord, BerthRecord, BerthState, Departing
    <3> HIDE DEF b
    <3> QED
      BY <3>1, <3>2, <3>3, <3>4, OwnPut
  <2> QED
    BY <1>2, <2>1, <2>2, <2>3, <2>4, <2>5 DEF DepartStep
<1>3. ASSUME NEW p \in Process, NEW b \in Berth, SyncRelease(p, b)
      PROVE  OwnInv'
  <2>1. /\ UNCHANGED storeVars /\ pc' = pc /\ req' = req
        /\ pc[p] \notin Departing
    BY <1>3 DEF SyncRelease, Departing
  <2>2. "ready" \notin {"list", "occupants"}
    OBVIOUS
  <2> QED
    BY <2>1, <2>2, OwnFrame
<1>4. ASSUME NEW c \in Client, RebuildStep(c)
      PROVE  OwnInv'
  <2>1. ~HandleRebuild(c)
    BY DEF HandleRebuild, Start
  <2>2. /\ ~RebuildList(c) /\ ~RebuildStore(c)
        /\ \A b \in Berth : ~RebuildOccupant(c, b)
    BY DEF OwnInv, RebuildList, RebuildStore, RebuildOccupant
  <2>3. CASE RebuildSync(c) \/ RebuildDone(c)
    <3>1. /\ UNCHANGED storeVars
          /\ \E to \in {"ready", "syncing"} : pc' = [pc EXCEPT ![c] = to]
          /\ \A d \in Client \ {c} : req'[d] = req[d]
      BY <2>3 DEF RebuildSync, RebuildDone, Give, Finish, Goto, TypeOK
    <3>2. PICK to \in {"ready", "syncing"} : pc' = [pc EXCEPT ![c] = to]
      BY <3>1
    <3>3. pc'[c] \notin Departing /\ to \notin {"list", "occupants"}
      BY <3>2 DEF TypeOK, Process, Departing
    <3> QED
      BY <3>1, <3>2, <3>3, OwnFrame DEF Process
  <2> QED
    BY <1>3, <1>4, <2>1, <2>2, <2>3 DEF RebuildStep, Process
<1>5. ASSUME ReconcileStep
      PROVE  OwnInv'
  <2>1. CASE ReconcileTick \/ ReconcileList \/ ReconcileReport
    <3>1. /\ UNCHANGED storeVars /\ req' = req
          /\ \E to \in {"syncing", "audit", "ready"} :
               pc' = [pc EXCEPT ![Reconciler] = to]
      BY <2>1 DEF ReconcileTick, ReconcileList, ReconcileReport, Goto
    <3>2. PICK to \in {"syncing", "audit", "ready"} :
            pc' = [pc EXCEPT ![Reconciler] = to]
      BY <3>1
    <3>3. to \notin {"list", "occupants"} /\ Reconciler \notin Client
      BY CapacityAssumption
    <3> QED
      BY <3>1, <3>2, <3>3, OwnFrame DEF Process
  <2>2. ASSUME NEW b \in Berth, ReconcileAudit(b)
        PROVE  OwnInv'
    <3>1. UNCHANGED storeVars /\ pc' = pc /\ req' = req
      BY <2>2 DEF ReconcileAudit
    <3>2. "ready" \notin {"list", "occupants"} /\ Reconciler \notin Client
      BY CapacityAssumption
    <3> QED
      BY <3>1, <3>2, OwnFrame DEF Process
  <2> QED
    BY <1>3, <1>5, <2>1, <2>2 DEF ReconcileStep, Process
<1> QED
  BY <1>1, <1>2, <1>4, <1>5 DEF Next

\* Nobody but the departing client frees a berth, in every run without
\* rebuilds.
LEMMA OwnCorrect ==
  ASSUME "rebuild" \notin Ops
  PROVE  Spec => []OwnInv
<1>1. TypeInv /\ OwnInv /\ [Next]_vars => OwnInv'
  <2>1. ASSUME TypeInv, OwnInv, Next
        PROVE  OwnInv'
    BY <2>1, NextOwn
  <2>2. ASSUME OwnInv, UNCHANGED vars
        PROVE  OwnInv'
    BY <2>2 DEF OwnInv, SettledHasVessel, State, OccupiedBy,
                DepartOwnsBerth, vars
  <2> QED
    BY <2>1, <2>2
<1> QED
  BY InitTypeInv, NextTypeInv, InitOwn, <1>1, PTL DEF Spec

\* As long as the table is not rebuilt, a berth that is settled or being
\* released names its vessel, in any run.  (A rebuild that overlaps an
\* occupation breaks it: the run rebuild_vessel shows how.)
THEOREM SettledHasVesselHolds ==
  ASSUME "rebuild" \notin Ops
  PROVE  Spec => []SettledHasVessel
<1>1. OwnInv => SettledHasVessel
  BY DEF OwnInv
<1> QED
  BY OwnCorrect, <1>1, PTL

\* As long as the table is not rebuilt, a departure past MarkReleasing has
\* its berth to itself until it frees it, in any run.
THEOREM DepartOwnsBerthHolds ==
  ASSUME "rebuild" \notin Ops
  PROVE  Spec => []DepartOwnsBerth
<1>1. OwnInv => DepartOwnsBerth
  BY DEF OwnInv
<1> QED
  BY OwnCorrect, <1>1, PTL

=============================================================================
