---------------------------- MODULE HistoryBuffer ----------------------------
(***************************************************************************)
(* TwinHistoryBuffer (twin/forecasting/history.py) for one key, as         *)
(* operators on the sequence of its entries.  An entry is a record with    *)
(* the time of the snapshot it comes from and the snapshot's id; what else *)
(* the record carries is up to the user of the buffer.                     *)
(*                                                                         *)
(* The lock of the class makes each of its methods one step; the modules   *)
(* that use these operators say which methods they call in one step.       *)
(***************************************************************************)
EXTENDS Integers, Sequences

CONSTANTS
  HistorySteps,   \* entries that a forecast needs
  SafetyBuffer,   \* entries kept beyond those
  MaxGap          \* longest time between consecutive entries

ASSUME HistoryAssumption ==
  /\ HistorySteps \in Nat \ {0}
  /\ SafetyBuffer \in Nat
  /\ MaxGap \in Nat \ {0}

LatestOf(buffer) == buffer[Len(buffer)]

Capacity == HistorySteps + SafetyBuffer

\* What append returns for an entry.
AppendStatus(buffer, entry, valid) ==
  LET delta == entry.time - LatestOf(buffer).time
  IN  IF ~valid THEN "REJECTED_INVALID_SNAPSHOT"
      ELSE IF buffer = <<>> THEN "APPENDED"
      ELSE IF delta = 0 \/ entry.id = LatestOf(buffer).id THEN "REJECTED_DUPLICATE"
      ELSE IF delta < 0 THEN "RESET_OUT_OF_ORDER"
      ELSE IF delta > MaxGap THEN "RESET_GAP"
      ELSE "APPENDED"

\* The deque drops its oldest entry when it is full.
Push(buffer, entry) ==
  IF Len(buffer) = Capacity
  THEN Append(Tail(buffer), entry)
  ELSE Append(buffer, entry)

\* Mutant of Stored: the buffer is not cleared at a hole.
StoredStitching(buffer, entry, status) ==
  IF status \in {"APPENDED", "RESET_GAP", "RESET_OUT_OF_ORDER"}
  THEN Push(buffer, entry) ELSE buffer

\* The buffer after an append that returned this status.
Stored(buffer, entry, status) ==
  CASE status = "APPENDED" -> Push(buffer, entry)
    [] status \in {"RESET_GAP", "RESET_OUT_OF_ORDER"} -> <<entry>>
    [] OTHER -> buffer

HasHistory(buffer) == Len(buffer) >= HistorySteps

\* What get_history returns when the buffer has a history.
History(buffer) == SubSeq(buffer, Len(buffer) - HistorySteps + 1, Len(buffer))

-----------------------------------------------------------------------------
\* Two entries follow each other without a hole.
Follows(earlier, later) == later.time - earlier.time \in 1 .. MaxGap

\* Entries without a hole between any two neighbours.
OneRun(buffer) == \A i \in 1 .. Len(buffer) - 1 : Follows(buffer[i], buffer[i + 1])

(***************************************************************************)
(* continuity.assign_segments, the definition of a hole in the training    *)
(* data: a sample that does not follow the one before starts a segment.  A *)
(* segment is named by its first sample.  The function refuses samples     *)
(* that go backwards; the runtime starts a new segment there as well.      *)
(***************************************************************************)
SegmentOf(samples, i) ==
  LET starts == {j \in 2 .. i : ~Follows(samples[j - 1], samples[j])} \cup {1}
  IN  CHOOSE j \in starts : \A k \in starts : k <= j
=============================================================================
