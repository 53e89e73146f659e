---------------------------- MODULE SessionLife -----------------------------
(***************************************************************************)
(* What the connector promises of its sessions, without the goroutines,    *)
(* the berths and the grid.  An application opens a session, and as long   *)
(* as it is open it can be waited for.  An open session may be taken on,   *)
(* once; one that was taken on may be connected, once, even if it has      *)
(* ended meanwhile.  A session ends when it is connected or for any other  *)
(* reason, is never open again, and then releases who waits for it, once.  *)
(***************************************************************************)
EXTENDS Naturals

VARIABLES
  applied,        \* the number of sessions so far
  waiting,        \* the sessions that are open
  taken,          \* the sessions that were taken on
  connected,      \* the sessions that were connected
  released        \* the sessions that have released their waiters

lifeVars == <<applied, waiting, taken, connected, released>>

LifeInit ==
  /\ applied = 0
  /\ waiting = {}
  /\ taken = {}
  /\ connected = {}
  /\ released = {}

Open ==
  /\ applied' = applied + 1
  /\ waiting' = waiting \cup {applied + 1}
  /\ UNCHANGED <<taken, connected, released>>

TakeOn(s) ==
  /\ s \in waiting \ taken
  /\ taken' = taken \cup {s}
  /\ UNCHANGED <<applied, waiting, connected, released>>

Connect(s) ==
  /\ s \in taken \ connected
  /\ connected' = connected \cup {s}
  /\ waiting' = waiting \ {s}
  /\ UNCHANGED <<applied, taken, released>>

End(s) ==
  /\ s \in waiting
  /\ waiting' = waiting \ {s}
  /\ UNCHANGED <<applied, taken, connected, released>>

Release(s) ==
  /\ s \notin waiting \cup released
  /\ released' = released \cup {s}
  /\ UNCHANGED <<applied, waiting, taken, connected>>

LifeNext ==
  \/ Open
  \/ \E s \in 1 .. applied : TakeOn(s) \/ Connect(s) \/ End(s) \/ Release(s)

LifeSpec == LifeInit /\ [][LifeNext]_lifeVars

=============================================================================
