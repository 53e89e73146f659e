----------------------------- MODULE BerthStore -----------------------------
(***************************************************************************)
(* The berth store of internal/berth: the state of every berth, the vessel *)
(* moored at it, and the state cache kept beside the table.                *)
(*                                                                         *)
(* Every method of berth.Store holds s.mu for its whole body and updates   *)
(* the cache before it unlocks, so each operator below is one atomic step. *)
(* The operators are the operations; the modules that extend this one own  *)
(* the goroutines that call them.  Berth codes, occupation times, the      *)
(* fingerprint and the version counter are never read by the control flow  *)
(* and are left out; a berth id that is not in the table is refused by     *)
(* every method before it changes anything.                                *)
(***************************************************************************)
EXTENDS Naturals

CONSTANTS
  Berth,          \* the berth ids of the table
  Vessel,         \* the vessel names an operator may type in
  None,           \* the empty string where a name is expected
  CapacityKVA     \* CapacityKVA[b]: the rating of berth b, from the seed

ASSUME BerthAssumption ==
  /\ None \notin Vessel
  /\ CapacityKVA \in [Berth -> Nat]

VARIABLES
  berths,         \* berths[b].state and berths[b].vessel
  cache           \* cache[b]: the state the Cache holds for b

storeVars == <<berths, cache>>

BerthState  == {"idle", "allocating", "settled", "releasing"}
BerthRecord == [state : BerthState, vessel : Vessel \cup {None}]

IdleRecord == [state |-> "idle", vessel |-> None]

\* The seed of the server is all idle; NewStore fills the cache from it.
NewStore ==
  /\ berths = [b \in Berth |-> IdleRecord]
  /\ cache  = [b \in Berth |-> "idle"]

---------------------------------------------------------------------------
(* Reads.                                                                  *)

State(b)       == berths[b].state
CachedState(b) == cache[b]
OccupiedBy(b)  == berths[b].vessel

InState(st) == {b \in Berth : State(b) = st}

\* Wrong on purpose: the rating of the berth is not looked at.
CheckReadyNoRating(b, need) ==
  /\ State(b) = "idle"
  /\ need > 0

CheckReady(b, need) ==
  /\ State(b) = "idle"
  /\ need > 0
  /\ need <= CapacityKVA[b]

---------------------------------------------------------------------------
(* Transitions.  MayX is the condition under which the method succeeds; a  *)
(* refused call returns an error and changes nothing.                      *)

Put(b, record) ==
  /\ berths' = [berths EXCEPT ![b] = record]
  /\ cache'  = [cache EXCEPT ![b] = record.state]

\* Wrong on purpose: a vessel without a name is let in.
MayOccupyNameless(b, v) == State(b) \in {"idle", "allocating"}

MayOccupy(b, v) == State(b) \in {"idle", "allocating"} /\ v # None

MarkOccupied(b, v) == Put(b, [state |-> "settled", vessel |-> v])

MayAllocate(b) == State(b) = "idle"

MarkAllocating(b) == Put(b, [berths[b] EXCEPT !.state = "allocating"])

\* Wrong on purpose: a second departure may begin while one is under way.
MayReleaseAgain(b) == State(b) \in {"settled", "releasing"}

MayRelease(b) == State(b) = "settled"

MarkReleasing(b) == Put(b, [berths[b] EXCEPT !.state = "releasing"])

\* Wrong on purpose: the vessel is not cleared with the state.
MarkIdleKeepsVessel(b) ==
  IF State(b) = "idle" THEN UNCHANGED storeVars
  ELSE Put(b, [berths[b] EXCEPT !.state = "idle"])

\* MarkIdle and ResetState are the same method twice: nothing happens to a
\* berth that is idle already.
MarkIdle(b) ==
  IF State(b) = "idle" THEN UNCHANGED storeVars ELSE Put(b, IdleRecord)

\* Wrong on purpose: the cache is not told.
RestoreOneKeepsCache(b, record) ==
  /\ berths' = [berths EXCEPT ![b] = record]
  /\ UNCHANGED cache

\* The record is put back as it was, whatever the berth is by now.
RestoreOne(b, record) == Put(b, record)

\* Wrong on purpose: the cache is not rebuilt with the table.
RebuildKeepsCache(live) ==
  /\ berths' = live
  /\ UNCHANGED cache

\* The table is replaced by the map given, the cache rebuilt from it.
RebuildFromLive(live) ==
  /\ berths' = live
  /\ cache'  = [b \in Berth |-> live[b].state]

=============================================================================
