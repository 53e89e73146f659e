------------------------------ MODULE Capacity ------------------------------
(***************************************************************************)
(* The goroutines that occupy and free berths: the HTTP handlers of        *)
(* /api/berths/occupy, /api/berths/depart and /api/recovery/rebuild, and   *)
(* the reconciler.  Each call they make on the berth store or on the       *)
(* allocator is atomic (the callee holds its mutex), and anything may run  *)
(* between two calls, so a handler is a chain of steps under pc.           *)
(*                                                                         *)
(* A request that is refused by its first check changes nothing: it is a   *)
(* stuttering step, and only the requests that get past it are issued      *)
(* here.  The grid, the meter and the connection sessions are not in this  *)
(* module; the one answer of the meter that a departure depends on is a    *)
(* free choice (DepartSettle).                                             *)
(***************************************************************************)
EXTENDS Allocator

CONSTANTS
  Client,         \* goroutines serving requests, each one at a time
  Reconciler,     \* the goroutine of Reconciler.Run
  Demand,         \* the kVA figures a request may carry
  Ops,            \* the operations in use
  MaxRequests     \* bound: requests issued altogether

ASSUME CapacityAssumption ==
  /\ Reconciler \notin Client
  /\ Demand \subseteq Nat
  /\ MaxRequests \in Nat

VARIABLES
  pc,             \* where each goroutine is in its handler
  req,            \* req[c]: the request c is serving, or None
  todo,           \* todo[p]: berths the running loop of p has yet to visit
  live,           \* live[c]: the map rebuildLiveState is building, or None
  count,          \* the counters of the Report being made
  last,           \* the Report of the last completed Reconcile
  issued          \* requests issued so far, for the bound

procVars == <<pc, req, todo, live, count, last, issued>>
vars == <<berths, cache, used, allocs, ledger, pc, req, todo, live, count,
          last, issued>>

Process == Client \cup {Reconciler}

Step == {"ready", "refresh", "drop", "cached", "grant", "granted",
         "settle", "mark", "release", "free",
         "list", "occupants", "store", "sync", "syncing", "audit"}

Request == [op : {"occupy", "depart"}, berth : Berth,
            vessel : Vessel \cup {None}, kva : Nat]

Report == [released : Nat, mismatches : Nat]

NoCount == [released |-> 0, mismatches |-> 0]

Goto(p, to) == pc' = [pc EXCEPT ![p] = to]

\* Client c starts to serve a request at step `to`.
Start(c, op, to) ==
  /\ pc[c] = "ready"
  /\ issued < MaxRequests
  /\ issued' = issued + 1
  /\ op \in Ops
  /\ Goto(c, to)

\* Client c answers its request.
Finish(c) ==
  /\ Goto(c, "ready")
  /\ req' = [req EXCEPT ![c] = None]

\* A step that moves c along and touches nothing but pc.
Move(c, to) ==
  /\ Goto(c, to)
  /\ UNCHANGED <<req, todo, live, count, last, issued>>

Give(c) ==
  /\ Finish(c)
  /\ UNCHANGED <<todo, live, count, last, issued>>

---------------------------------------------------------------------------
(* POST /api/berths/occupy: CheckReady, Allocate, MarkOccupied.            *)

\* The vessel name is not checked before Allocate: None is a legal input.
HandleOccupy(c, b, v, need) ==
  /\ CheckReady(b, need)
  /\ Start(c, "occupy", "refresh")
  /\ req' = [req EXCEPT ![c] =
               [op |-> "occupy", berth |-> b, vessel |-> v, kva |-> need]]
  /\ UNCHANGED <<storeVars, allocVars, todo, live, count, last>>

\* Refresh reads the state of the berth before it takes a.mu...
AllocateRefresh(c) ==
  /\ pc[c] = "refresh"
  /\ Move(c, IF State(req[c].berth) = "idle" THEN "drop" ELSE "cached")
  /\ UNCHANGED <<storeVars, allocVars>>

\* ...and drops the allocation of a berth that was idle then.
AllocateDrop(c) ==
  /\ pc[c] = "drop"
  /\ Move(c, "cached")
  /\ RevokeIfAny(req[c].berth)
  /\ UNCHANGED storeVars

AllocateCached(c) ==
  /\ pc[c] = "cached"
  /\ \/ CachedState(req[c].berth) = "idle" /\ Move(c, "grant")
     \/ CachedState(req[c].berth) # "idle" /\ Give(c)
  /\ UNCHANGED <<storeVars, allocVars>>

\* An allocation that is there already is handed out, whoever made it.
AllocateGrant(c) ==
  LET r == req[c] IN
  /\ pc[c] = "grant"
  /\ \/ /\ HasAllocation(r.berth)
        /\ Move(c, "granted")
        /\ UNCHANGED allocVars
     \/ /\ ~HasAllocation(r.berth)
        /\ ~Fits(r.kva)
        /\ Give(c)
        /\ UNCHANGED allocVars
     \/ /\ ~HasAllocation(r.berth)
        /\ Fits(r.kva)
        /\ Move(c, "granted")
        /\ Grant(r.berth, r.vessel, r.kva)
  /\ UNCHANGED storeVars

\* A refusal leaves the allocation behind; nobody releases it here.
OccupyMark(c) ==
  /\ pc[c] = "granted" /\ req[c].op = "occupy"
  /\ Give(c)
  /\ IF MayOccupy(req[c].berth, req[c].vessel)
       THEN MarkOccupied(req[c].berth, req[c].vessel)
       ELSE UNCHANGED storeVars
  /\ UNCHANGED allocVars

---------------------------------------------------------------------------
(* POST /api/berths/depart: OccupiedBy, Settle, MarkReleasing, Release,    *)
(* MarkIdle.  The vessel read first is the one that is billed; it is not   *)
(* looked at again.                                                        *)

HandleDepart(c, b) ==
  /\ OccupiedBy(b) # None
  /\ Start(c, "depart", "settle")
  /\ req' = [req EXCEPT ![c] =
               [op |-> "depart", berth |-> b, vessel |-> OccupiedBy(b),
                kva |-> 0]]
  /\ UNCHANGED <<storeVars, allocVars, todo, live, count, last>>

\* The bill is refused when the vessel is metered and has no sample yet.
DepartSettle(c) ==
  /\ pc[c] = "settle"
  /\ \/ Move(c, "mark")
     \/ Give(c)
  /\ UNCHANGED <<storeVars, allocVars>>

DepartMark(c) ==
  LET b == req[c].berth IN
  /\ pc[c] = "mark"
  /\ \/ MayRelease(b) /\ Move(c, "release") /\ MarkReleasing(b)
     \/ ~MayRelease(b) /\ Give(c) /\ UNCHANGED storeVars
  /\ UNCHANGED allocVars

\* Without an allocation Release fails and the handler gives up: the berth
\* stays "releasing".
DepartRelease(c) ==
  LET b == req[c].berth IN
  /\ pc[c] = "release"
  /\ \/ HasAllocation(b) /\ Move(c, "free") /\ Revoke(b)
     \/ ~HasAllocation(b) /\ Give(c) /\ UNCHANGED allocVars
  /\ UNCHANGED storeVars

DepartIdle(c) ==
  /\ pc[c] = "free"
  /\ Give(c)
  /\ MarkIdle(req[c].berth)
  /\ UNCHANGED allocVars

---------------------------------------------------------------------------
(* SyncFromStore, run by the reconciler and at the end of a rebuild: it    *)
(* lists the store once and then releases, berth by berth, what the        *)
(* berths that were idle in that list hold by now.                         *)

\* Wrong on purpose: a berth with an allocation is passed over.
SyncPassesOver(p, b) ==
  /\ pc[p] = "syncing"
  /\ b \in todo[p]
  /\ todo' = [todo EXCEPT ![p] = @ \ {b}]
  /\ UNCHANGED <<storeVars, allocVars, pc, req, live, count, last, issued>>

SyncRelease(p, b) ==
  /\ pc[p] = "syncing"
  /\ b \in todo[p]
  /\ todo' = [todo EXCEPT ![p] = @ \ {b}]
  /\ RevokeIfAny(b)
  /\ count' = IF p = Reconciler /\ HasAllocation(b)
                THEN [count EXCEPT !.released = @ + 1] ELSE count
  /\ UNCHANGED <<storeVars, pc, req, live, last, issued>>

---------------------------------------------------------------------------
(* POST /api/recovery/rebuild: Allocations, List, OccupiedBy per allocated *)
(* berth, RebuildFromLive, SyncFromStore.                                  *)

HandleRebuild(c) ==
  /\ Start(c, "rebuild", "list")
  /\ todo' = [todo EXCEPT ![c] = Allocated]
  /\ UNCHANGED <<storeVars, allocVars, req, live, count, last>>

\* The copies List returns keep their vessel only where there is an
\* allocation; they become settled there and idle elsewhere.
RebuildList(c) ==
  /\ pc[c] = "list"
  /\ Goto(c, "occupants")
  /\ live' = [live EXCEPT ![c] =
                [b \in Berth |->
                   IF b \in todo[c]
                     THEN [state |-> "settled", vessel |-> OccupiedBy(b)]
                     ELSE IdleRecord]]
  /\ UNCHANGED <<storeVars, allocVars, req, todo, count, last, issued>>

RebuildOccupant(c, b) ==
  /\ pc[c] = "occupants"
  /\ b \in todo[c]
  /\ todo' = [todo EXCEPT ![c] = @ \ {b}]
  /\ live' = IF OccupiedBy(b) # None
               THEN [live EXCEPT ![c][b].vessel = OccupiedBy(b)] ELSE live
  /\ UNCHANGED <<storeVars, allocVars, pc, req, count, last, issued>>

RebuildStore(c) ==
  /\ pc[c] = "occupants"
  /\ Goto(c, "sync")
  /\ todo[c] = {}
  /\ RebuildFromLive(live[c])
  /\ live' = [live EXCEPT ![c] = None]
  /\ UNCHANGED <<allocVars, req, todo, count, last, issued>>

RebuildSync(c) ==
  /\ pc[c] = "sync"
  /\ Goto(c, "syncing")
  /\ todo' = [todo EXCEPT ![c] = InState("idle")]
  /\ UNCHANGED <<storeVars, allocVars, req, live, count, last, issued>>

RebuildDone(c) ==
  /\ pc[c] = "syncing"
  /\ todo[c] = {}
  /\ Give(c)
  /\ UNCHANGED <<storeVars, allocVars>>

---------------------------------------------------------------------------
(* Reconciler.Run: every tick is one Reconcile.  The remaining capacity it *)
(* reads is only reported.                                                 *)

ReconcileTick ==
  /\ pc[Reconciler] = "ready"
  /\ "reconcile" \in Ops
  /\ Goto(Reconciler, "syncing")
  /\ todo' = [todo EXCEPT ![Reconciler] = InState("idle")]
  /\ count' = NoCount
  /\ UNCHANGED <<storeVars, allocVars, req, live, last, issued>>

\* The second List: only the berths settled in it are audited.
ReconcileList ==
  /\ pc[Reconciler] = "syncing"
  /\ todo[Reconciler] = {}
  /\ Goto(Reconciler, "audit")
  /\ todo' = [todo EXCEPT ![Reconciler] = InState("settled")]
  /\ UNCHANGED <<storeVars, allocVars, req, live, count, last, issued>>

\* Wrong on purpose: the berths in order are the ones counted.
ReconcileAuditInverted(b) ==
  /\ pc[Reconciler] = "audit"
  /\ b \in todo[Reconciler]
  /\ todo' = [todo EXCEPT ![Reconciler] = @ \ {b}]
  /\ count' = IF HasAllocation(b) THEN [count EXCEPT !.mismatches = @ + 1]
              ELSE count
  /\ UNCHANGED <<storeVars, allocVars, pc, req, live, last, issued>>

ReconcileAudit(b) ==
  /\ pc[Reconciler] = "audit"
  /\ b \in todo[Reconciler]
  /\ todo' = [todo EXCEPT ![Reconciler] = @ \ {b}]
  /\ count' = IF HasAllocation(b) THEN count
              ELSE [count EXCEPT !.mismatches = @ + 1]
  /\ UNCHANGED <<storeVars, allocVars, pc, req, live, last, issued>>

\* Wrong on purpose: the releases are taken off the mismatches.
ReconcileReportSubtracts ==
  /\ pc[Reconciler] = "audit"
  /\ todo[Reconciler] = {}
  /\ Goto(Reconciler, "ready")
  /\ last' = [count EXCEPT !.mismatches = @ - count.released]
  /\ count' = NoCount
  /\ UNCHANGED <<storeVars, allocVars, req, todo, live, issued>>

ReconcileReport ==
  /\ pc[Reconciler] = "audit"
  /\ todo[Reconciler] = {}
  /\ Goto(Reconciler, "ready")
  /\ last' = [count EXCEPT !.mismatches = @ + count.released]
  /\ count' = NoCount
  /\ UNCHANGED <<storeVars, allocVars, req, todo, live, issued>>

---------------------------------------------------------------------------

\* main starts with the seeded store and an empty allocator; its own call
\* of rebuildLiveState finds no allocation and an idle store.
Init ==
  /\ NewStore
  /\ NewAllocator
  /\ pc   = [p \in Process |-> "ready"]
  /\ req  = [c \in Client |-> None]
  /\ todo = [p \in Process |-> {}]
  /\ live = [c \in Client |-> None]
  /\ count = NoCount
  /\ last  = NoCount
  /\ issued = 0

OccupyStep(c) ==
  \/ \E b \in Berth, v \in Vessel \cup {None}, need \in Demand :
       HandleOccupy(c, b, v, need)
  \/ AllocateRefresh(c)
  \/ AllocateDrop(c)
  \/ AllocateCached(c)
  \/ AllocateGrant(c)
  \/ OccupyMark(c)

DepartStep(c) ==
  \/ \E b \in Berth : HandleDepart(c, b)
  \/ DepartSettle(c)
  \/ DepartMark(c)
  \/ DepartRelease(c)
  \/ DepartIdle(c)

RebuildStep(c) ==
  \/ HandleRebuild(c)
  \/ RebuildList(c)
  \/ \E b \in Berth : RebuildOccupant(c, b)
  \/ RebuildStore(c)
  \/ RebuildSync(c)
  \/ \E b \in Berth : SyncRelease(c, b)
  \/ RebuildDone(c)

ReconcileStep ==
  \/ ReconcileTick
  \/ \E b \in Berth : SyncRelease(Reconciler, b)
  \/ ReconcileList
  \/ \E b \in Berth : ReconcileAudit(b)
  \/ ReconcileReport

Next ==
  \/ \E c \in Client : OccupyStep(c) \/ DepartStep(c) \/ RebuildStep(c)
  \/ ReconcileStep

Spec == Init /\ [][Next]_vars

---------------------------------------------------------------------------
(* Fairness.  The Go scheduler runs every runnable goroutine, so a handler *)
(* that has begun takes its next step, and the ticker of the reconciler    *)
(* keeps firing until shutdown.  Nobody is obliged to send a request.      *)

OccupyProgress(c) ==
  \/ AllocateRefresh(c)
  \/ AllocateDrop(c)
  \/ AllocateCached(c)
  \/ AllocateGrant(c)
  \/ OccupyMark(c)

DepartProgress(c) ==
  \/ DepartSettle(c)
  \/ DepartMark(c)
  \/ DepartRelease(c)
  \/ DepartIdle(c)

RebuildProgress(c) ==
  \/ RebuildList(c)
  \/ \E b \in Berth : RebuildOccupant(c, b)
  \/ RebuildStore(c)
  \/ RebuildSync(c)
  \/ \E b \in Berth : SyncRelease(c, b)
  \/ RebuildDone(c)

Fairness ==
  /\ \A c \in Client :
       WF_vars(OccupyProgress(c) \/ DepartProgress(c) \/ RebuildProgress(c))
  /\ WF_vars(ReconcileStep)

FairSpec == Spec /\ Fairness

---------------------------------------------------------------------------
(* Properties.                                                             *)

\* Every variable keeps its type (capacity.go, berth.go).
TypeOK ==
  /\ berths \in [Berth -> BerthRecord]
  /\ cache \in [Berth -> BerthState]
  /\ used \in [Berth -> Nat]
  /\ allocs \in [Berth -> Allocation \cup {None}]
  /\ ledger \in Seq(LedgerRecord)
  /\ pc \in [Process -> Step]
  /\ req \in [Client -> Request \cup {None}]
  /\ todo \in [Process -> SUBSET Berth]
  /\ live \in [Client -> [Berth -> BerthRecord] \cup {None}]
  /\ count \in Report
  /\ last \in Report
  /\ issued \in 0 .. MaxRequests

\* The berths never draw more than the shore supplies, however many
\* Allocate calls, releases and sweeps overlap (capacity.go:64-67).
CapacityBound == Total(used) <= Shore

\* No berth draws more than its own rating: Allocate does not look at the
\* rating, only the CheckReady made several steps before does
\* (status.go:93-95).
BerthLimit == \A b \in Berth : used[b] <= CapacityKVA[b]

\* used and allocs, deleted and inserted in three different methods, always
\* tell the same story (capacity.go:74-75, 87-88, 104-105).
BooksAgree ==
  \A b \in Berth :
    IF HasAllocation(b)
      THEN allocs[b].berth = b /\ allocs[b].kva = used[b] /\ used[b] > 0
      ELSE used[b] = 0

\* The ledger holds exactly one open record per live allocation, the record
\* of that allocation, and no other open record: no path drops an allocation
\* without closing its record or closes another's (ledger.go:35-46).
LedgerExact ==
  \A b \in Berth :
    LET open == {i \in DOMAIN ledger :
                   ledger[i].open /\ ledger[i].alloc.berth = b}
    IN  IF HasAllocation(b)
          THEN \E i \in open : open = {i} /\ ledger[i].alloc = allocs[b]
          ELSE open = {}

\* The cache that decides in Allocate agrees with the table at every step,
\* also after a rebuild replaced both (berth.go:107, snapshot.go:38-58).
CacheCoherent == \A b \in Berth : CachedState(b) = State(b)

\* A vessel is named only at a berth it holds: a berth that was freed by any
\* path forgets it (status.go:40-41, snapshot.go:38).
VesselOnlyWhenHeld ==
  \A b \in Berth :
    OccupiedBy(b) # None => State(b) \in {"settled", "releasing"}

\* A berth that is taken names the vessel that took it.  Without a vessel it
\* can neither be departed from nor be occupied again (status.go:18-19).
SettledHasVessel ==
  \A b \in Berth :
    State(b) \in {"settled", "releasing"} => OccupiedBy(b) # None

\* A departure past MarkReleasing has the berth to itself: it is still
\* "releasing" when the handler frees it, and no second departure is past
\* that point for the same berth (main.go:283-291, status.go:64-75).
DepartOwnsBerth ==
  \A c \in Client :
    pc[c] \in {"release", "free"} =>
      /\ State(req[c].berth) = "releasing"
      /\ \A d \in Client \ {c} :
           pc[d] \in {"release", "free"} => req[d].berth # req[c].berth

\* A capacity leak is taken back: an idle berth does not keep an allocation
\* for ever, whatever handler left it behind (capacity.go:149-163).
LeakReclaimed ==
  \A b \in Berth :
    (State(b) = "idle" /\ HasAllocation(b))
      ~> ~(State(b) = "idle" /\ HasAllocation(b))

\* Lasting drift is reported: if a settled berth stays without an allocation
\* for ever, from some point on every report counts a mismatch
\* (reconciler.go:78-83).
DriftReported ==
  \A b \in Berth :
    <>[](State(b) = "settled" /\ ~HasAllocation(b))
      => <>[](last.mismatches > 0)

\* A departure gives the berth back: a berth that is being released becomes
\* idle (main.go:260-296, "POST /api/berths/depart").  What else may free it, a
\* sequence or the end of a session of the berth, is not in this module.
DepartReclaims ==
  \A b \in Berth : State(b) = "releasing" ~> State(b) = "idle"

\* The allocator is the atomic pool: every step of every goroutine gives a
\* free berth a positive amount that fits, takes everything from a berth, or
\* leaves the amounts alone (capacity.go:45-109).
Pool == INSTANCE CapacityPool WITH Holder <- Berth, held <- used
ImplementsPool == Pool!PoolSpec

=============================================================================
