----------------------------- MODULE Allocator ------------------------------
(***************************************************************************)
(* The books of internal/capacity: what each berth draws from the shore    *)
(* supply (used), the allocation it was granted (allocs), and the ledger   *)
(* of every allocation ever made.                                          *)
(*                                                                         *)
(* These operators are the bodies the Allocator runs under a.mu.  The two  *)
(* maps of the code are total functions here: an absent key of used adds   *)
(* nothing to the total, so it is 0; an absent key of allocs is None.  The *)
(* allocation id and its timestamp are left out: a berth's earlier record  *)
(* is closed before a new one is appended, so the first open record that   *)
(* matches is the same with and without the timestamp.                     *)
(***************************************************************************)
EXTENDS Naturals, Sequences, FiniteSets, BerthStore, KVA

CONSTANT Shore    \* the shore capacity, in blocks of kVA

ASSUME ShoreAssumption == Shore \in Nat /\ IsFiniteSet(Berth)

VARIABLES
  used,           \* used[b]: kVA drawn by b
  allocs,         \* allocs[b]: the allocation of b, or None
  ledger          \* records [alloc, open] in the order they were appended

allocVars == <<used, allocs, ledger>>

Allocation == [berth : Berth, vessel : Vessel \cup {None}, kva : Nat]

ASSUME AllocationAssumption == None \notin Allocation

LedgerRecord == [alloc : Allocation, open : BOOLEAN]

NewAllocator ==
  /\ used   = [b \in Berth |-> 0]
  /\ allocs = [b \in Berth |-> None]
  /\ ledger = <<>>

---------------------------------------------------------------------------
Total(f) == SumKVA(Berth, f)

HasAllocation(b) == allocs[b] # None

Allocated == {b \in Berth : HasAllocation(b)}

\* Wrong on purpose: the demand is compared with the supply, not with what
\* is left of it.
FitsShore(need) == need <= Shore

\* need > remainingLocked() is the refusal of Allocate.
Fits(need) == need + Total(used) <= Shore

---------------------------------------------------------------------------

LedgerAppend(alloc) ==
  ledger' = Append(ledger, [alloc |-> alloc, open |-> TRUE])

OpenRecords(alloc) ==
  {i \in DOMAIN ledger : ledger[i].alloc = alloc /\ ledger[i].open}

\* Wrong on purpose: the first record that matches is taken, closed or not.
LedgerCloseFirst(alloc) ==
  ledger' = [i \in DOMAIN ledger |->
               IF /\ ledger[i].alloc = alloc
                  /\ \A j \in 1 .. i - 1 : ledger[j].alloc # alloc
                 THEN [ledger[i] EXCEPT !.open = FALSE]
                 ELSE ledger[i]]

\* Close marks the first open record of the allocation, and only that one.
LedgerClose(alloc) ==
  ledger' = [i \in DOMAIN ledger |->
               IF /\ i \in OpenRecords(alloc)
                  /\ \A j \in OpenRecords(alloc) : i <= j
                 THEN [ledger[i] EXCEPT !.open = FALSE]
                 ELSE ledger[i]]

Grant(b, v, need) ==
  LET alloc == [berth |-> b, vessel |-> v, kva |-> need]
  IN  /\ used'   = [used EXCEPT ![b] = need]
      /\ allocs' = [allocs EXCEPT ![b] = alloc]
      /\ LedgerAppend(alloc)

\* Wrong on purpose: the amount stays booked.
RevokeKeepsUsed(b) ==
  /\ UNCHANGED used
  /\ allocs' = [allocs EXCEPT ![b] = None]
  /\ LedgerClose(allocs[b])

Revoke(b) ==
  /\ used'   = [used EXCEPT ![b] = 0]
  /\ allocs' = [allocs EXCEPT ![b] = None]
  /\ LedgerClose(allocs[b])

\* What Release and Refresh do: nothing when there is no allocation.
RevokeIfAny(b) == IF HasAllocation(b) THEN Revoke(b) ELSE UNCHANGED allocVars

=============================================================================
