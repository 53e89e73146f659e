-------------------------------- MODULE Grid --------------------------------
(***************************************************************************)
(* The grid controller of internal/grid and the breaker it drives.         *)
(*                                                                         *)
(* Controller.PhaseCheck is one section under g.mu.  SyncAndClose,         *)
(* Separate and ApplySequence are not: they look at the state, unlock,     *)
(* work the breaker or the berths and lock again to write the state.  Each *)
(* operator below is one section; the goroutines that string them together *)
(* are in the modules that extend this one.                                *)
(*                                                                         *)
(* A phase is only ever compared with the configured one, so it is a truth *)
(* value that travels with the request.  The command queue is left out:    *)
(* nothing calls Enqueue, so AutoDispatch never finds a command.           *)
(***************************************************************************)
EXTENDS Naturals

VARIABLES
  breaker,        \* the breaker is closed
  grid,           \* the state of the controller
  phaseChecked,   \* a phase check was made since the last separation
  executions      \* SyncAndClose calls that succeeded

gridVars == <<breaker, grid, phaseChecked, executions>>

GridState == {"off", "syncing", "on-grid", "separating"}

GridTypeOK ==
  /\ breaker \in BOOLEAN
  /\ grid \in GridState
  /\ phaseChecked \in BOOLEAN
  /\ executions \in Nat

NewController ==
  /\ breaker = FALSE
  /\ grid = "off"
  /\ phaseChecked = FALSE
  /\ executions = 0

---------------------------------------------------------------------------

MayCheckPhase == grid # "on-grid"

PhaseCheck ==
  /\ phaseChecked' = TRUE
  /\ UNCHANGED <<breaker, grid, executions>>

\* The first section of SyncAndClose.
MaySync == grid # "on-grid" /\ phaseChecked

CloseBreaker ==
  /\ breaker' = TRUE
  /\ UNCHANGED <<grid, phaseChecked, executions>>

\* The last section of SyncAndClose: it does not look at the state again.
GoOnGrid ==
  /\ grid' = "on-grid"
  /\ executions' = executions + 1
  /\ UNCHANGED <<breaker, phaseChecked>>

\* The first section of Separate.
MaySeparate == grid = "on-grid"

BeginSeparation ==
  /\ grid' = "separating"
  /\ UNCHANGED <<breaker, phaseChecked, executions>>

OpenBreaker ==
  /\ breaker' = FALSE
  /\ UNCHANGED <<grid, phaseChecked, executions>>

\* The last section of Separate.
GoOffGrid ==
  /\ grid' = "off"
  /\ phaseChecked' = FALSE
  /\ UNCHANGED <<breaker, executions>>

\* A switching sequence is only refused here, before its first step.
MaySwitch == grid # "on-grid"

\* A step of a sequence, or its rollback, writes the state it was given.
SetGridState(state) ==
  /\ grid' = state
  /\ UNCHANGED <<breaker, phaseChecked, executions>>

=============================================================================
