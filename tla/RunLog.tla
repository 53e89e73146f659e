------------------------------- MODULE RunLog -------------------------------
(***************************************************************************)
(* What the recorder promises of the run log, without its writers, its     *)
(* mutex and the lines that do not parse.                                  *)
(*                                                                         *)
(* The log grows at its end and in no other way.  An entry is acknowledged *)
(* only when memory has it.  It comes into memory with a line of its own,  *)
(* and that line joins the log unless a write before was cut short: then   *)
(* the two lines become one that nobody can read.  A write that fails may  *)
(* still leave its line, or the tail of one.  A restart reads back the log *)
(* and the tail, if that is all of an entry but its newline.  What is in   *)
(* memory is never written again.                                          *)
(***************************************************************************)
EXTENDS Sequences, Functions

CONSTANT Garbage  \* the part of a line

VARIABLES
  log,            \* the entries whose lines are whole, in order
  tail,           \* <<x>>: x follows the last newline; <<>>: nothing does
  memory,         \* the entries this process knows of
  acked           \* the entries that were acknowledged

runLogVars == <<log, tail, memory, acked>>

RunLogInit ==
  /\ log = <<>>
  /\ tail = <<>>
  /\ memory = <<>>
  /\ acked = {}

\* A line with its newline is written, and goes to the log or to the tail.
WriteLine(e) ==
  /\ e \notin Range(memory)
  /\ tail = <<>>
  /\ log' = Append(log, e)
  /\ tail' = <<>>

EndTail ==
  /\ tail # <<>>
  /\ tail' = <<>>
  /\ log' = log

\* The write stops before the newline.
Tear ==
  /\ log' = log
  /\ \E x \in Range(tail') :
       /\ tail' = <<x>>
       /\ x = Garbage \/ (tail = <<>> /\ x \notin Range(memory))

Record ==
  \E e \in Range(memory') \ Range(memory) :
    /\ WriteLine(e) \/ EndTail
    /\ memory' = Append(memory, e)
    /\ acked' = acked \cup {e}

RecordAgain ==
  /\ \E e \in Range(memory) : acked' = acked \cup {e}
  /\ UNCHANGED <<log, tail, memory>>

\* A line that no process has acknowledged.
WriteAnyway == (\E e \in Range(log') : WriteLine(e)) \/ EndTail \/ Tear

Fail == WriteAnyway /\ UNCHANGED <<memory, acked>>

ReadBack ==
  IF tail \in {<<>>, <<Garbage>>} THEN log ELSE Append(log, tail[1])

StartAgain ==
  /\ WriteAnyway \/ UNCHANGED <<log, tail>>
  /\ memory' = ReadBack'
  /\ UNCHANGED acked

RunLogNext == Record \/ RecordAgain \/ Fail \/ StartAgain

RunLogSpec == RunLogInit /\ [][RunLogNext]_runLogVars

=============================================================================
