------------------------------ MODULE Recorder ------------------------------
(***************************************************************************)
(* The run log of internal/record: the file run.log, the entries and       *)
(* fingerprints in memory, and Append.                                     *)
(*                                                                         *)
(* Append holds r.mu throughout, so each outcome of it is one operator;    *)
(* what a crash in the middle of it leaves in the file is TearTail.  A     *)
(* line of the file is the entry it parses to, or Garbage.  The file is    *)
(* cut when its last line has no newline yet: a prefix of a line, Garbage, *)
(* or all of it, which Resume can still read.  The next write continues    *)
(* that line, and the two together parse to nothing.                       *)
(*                                                                         *)
(* A fingerprint is the entry itself.  The count of open handles is left   *)
(* out: nothing reads it.                                                  *)
(***************************************************************************)
EXTENDS Naturals, Sequences, FiniteSets, Functions

CONSTANT Garbage  \* a line that json.Unmarshal refuses

VARIABLES
  disk,           \* the lines of run.log
  cut,            \* the last line has no newline
  recorded,       \* Store.entries, in memory
  recClosed,      \* Recorder.closed
  acked,          \* history: the entries Append returned a fingerprint for
  tears,          \* history: writes that were cut short
  unsynced        \* history: writes whose sync was answered with an error

logVars == <<disk, cut, recorded, recClosed, acked, tears, unsynced>>

IsEntry(line) == line # Garbage

\* The entries that the program can read back from the lines, scanned one
\* after the other.
Readable(lines) ==
  LET kept[n \in 0 .. Len(lines)] ==
        IF n = 0 THEN <<>>
        ELSE IF IsEntry(lines[n]) THEN Append(kept[n - 1], lines[n])
        ELSE kept[n - 1]
  IN  kept[Len(lines)]

ReplaceLast(lines, line) == [lines EXCEPT ![Len(lines)] = line]

\* The lines after a whole line was written, or all of it but the newline.
LinesWith(e) == IF cut THEN ReplaceLast(disk, Garbage) ELSE Append(disk, e)

\* The lines after a part of a line was written.
LinesTorn == IF cut THEN ReplaceLast(disk, Garbage) ELSE Append(disk, Garbage)

NewRecorder ==
  /\ disk = <<>>
  /\ cut = FALSE
  /\ recorded = <<>>
  /\ recClosed = FALSE
  /\ acked = {}
  /\ tears = 0
  /\ unsynced = 0

---------------------------------------------------------------------------
(* The outcomes of Append.                                                 *)

\* dedupSet.Seen: Resume and Record mark exactly the entries they keep.
Seen(e) == e \in Range(recorded)

Refused == recClosed /\ UNCHANGED logVars

AppendSeen(e) ==
  /\ ~recClosed
  /\ Seen(e)
  /\ acked' = acked \cup {e}
  /\ UNCHANGED <<disk, cut, recorded, recClosed, tears, unsynced>>

\* Wrong on purpose: what was recorded already is written again.
AppendWrittenAgain(e) ==
  /\ ~recClosed
  /\ disk' = LinesWith(e)
  /\ cut' = FALSE
  /\ recorded' = Append(recorded, e)
  /\ acked' = acked \cup {e}
  /\ UNCHANGED <<recClosed, tears, unsynced>>

\* Wrong on purpose: the newline is not written.
AppendNoNewline(e) ==
  /\ ~recClosed
  /\ ~Seen(e)
  /\ disk' = LinesWith(e)
  /\ cut' = TRUE
  /\ recorded' = Append(recorded, e)
  /\ acked' = acked \cup {e}
  /\ UNCHANGED <<recClosed, tears, unsynced>>

AppendWritten(e) ==
  /\ ~recClosed
  /\ ~Seen(e)
  /\ disk' = LinesWith(e)
  /\ cut' = FALSE
  /\ recorded' = Append(recorded, e)
  /\ acked' = acked \cup {e}
  /\ UNCHANGED <<recClosed, tears, unsynced>>

\* Wrong on purpose: the entry is kept in memory although the file could
\* not be opened.
AppendUnopenedKeeps(e) ==
  /\ ~recClosed
  /\ ~Seen(e)
  /\ recorded' = Append(recorded, e)
  /\ UNCHANGED <<disk, cut, recClosed, acked, tears, unsynced>>

\* The file cannot be opened, or nothing of the line is written.
AppendUnopened(e) ==
  /\ ~recClosed
  /\ ~Seen(e)
  /\ UNCHANGED logVars

\* The tail a write leaves that stops before its newline.
TearTail(e) ==
  /\ disk' \in {LinesTorn, LinesWith(e)}
  /\ cut' = TRUE
  /\ tears' = tears + 1

\* Write answers with an error after a part of the line (disk full).
AppendShort(e) ==
  /\ ~recClosed
  /\ ~Seen(e)
  /\ TearTail(e)
  /\ UNCHANGED <<recorded, recClosed, acked, unsynced>>

\* The line is there, but Sync answers with an error: it is not recorded.
AppendUnsynced(e) ==
  /\ ~recClosed
  /\ ~Seen(e)
  /\ disk' = LinesWith(e)
  /\ cut' = FALSE
  /\ unsynced' = unsynced + 1
  /\ UNCHANGED <<recorded, recClosed, acked, tears>>

---------------------------------------------------------------------------

\* Flush and Close, at the end of main.
CloseRecorder ==
  /\ ~recClosed
  /\ recClosed' = TRUE
  /\ UNCHANGED <<disk, cut, recorded, acked, tears, unsynced>>

\* Wrong on purpose: a line that does not parse leaves an empty entry.
ResumeAll(lines) ==
  /\ recorded' = lines
  /\ recClosed' = FALSE
  /\ UNCHANGED <<acked, unsynced>>

\* What the next process finds and resumes from, given the lines left.  A file
\* it cannot open or scan ends it before it has a recorder.
Resume(lines) ==
  /\ recorded' = Readable(lines)
  /\ recClosed' = FALSE
  /\ UNCHANGED <<acked, unsynced>>

---------------------------------------------------------------------------
(* The run log that these lines are, as RunLog has it.                     *)

\* The lines that have their newline; what follows the last one is no line.
Ended == IF cut THEN ReplaceLast(disk, Garbage) ELSE disk

LineBegun == IF cut THEN <<disk[Len(disk)]>> ELSE <<>>

File == INSTANCE RunLog WITH
  log <- Readable(Ended), tail <- LineBegun, memory <- recorded

=============================================================================
