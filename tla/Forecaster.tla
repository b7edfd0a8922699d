----------------------------- MODULE Forecaster -----------------------------
(***************************************************************************)
(* RuntimeForecaster (twin/forecasting/predictor.py) behind                *)
(* ForecastService.on_twin_state: one call per published twin state, in    *)
(* the telemetry thread.  Per controller it keeps a history of samples, a  *)
(* counter of samples outside of the training data's range, and whether a  *)
(* hole made it wait.                                                      *)
(*                                                                         *)
(* Snapshots carry the time of a clock that may be set back, may be        *)
(* invalid, and may carry a value that is not a number.  An exception in   *)
(* the middle of a call leaves some controllers without the sample.        *)
(*                                                                         *)
(* Values and features are not modelled, and capacities are positive, as   *)
(* the capacity file has them.  Whether a row is out of range in some      *)
(* watched feature, and whether in one that the gate does not ignore       *)
(* (ood_ignore_features), are free choices, each time a row is built.      *)
(***************************************************************************)
EXTENDS HistoryBuffer, FiniteSets

CONSTANTS
  Controller,
  ConsecutiveSteps,   \* samples out of range that turn the gate on
  MaxSnapshots,       \* bound on the number of calls
  MaxTime             \* bound on the clock

ASSUME ForecasterAssumption ==
  /\ IsFiniteSet(Controller)
  /\ ConsecutiveSteps \in Nat \ {0}
  /\ MaxSnapshots \in Nat
  /\ MaxTime \in Nat

VARIABLES
  buffer,       \* per controller: the history
  consecutive,  \* per controller: samples out of range in a row
  gapSeen,      \* per controller: waiting because of a hole (_reset_reason)
  forecast,     \* the payload in the store: snapshot and predictions
  lastError,    \* whether the last call failed
  snapshots,    \* number of calls so far, the id of the last snapshot
  accepted,     \* history variable: the samples appended, per controller
  evaluated     \* history variable: the rows the gate saw, per controller

forecasterState == <<buffer, consecutive, gapSeen>>
history == <<accepted, evaluated>>
forecasterVars == <<forecasterState, forecast, lastError, snapshots, history>>

Sample == [time : 0 .. MaxTime, id : 1 .. MaxSnapshots, good : BOOLEAN]

\* READY with the model's output, READY with the fallback, or NOT_READY.
Prediction ==
  {"MODEL", "PERSISTENCE",
   "INVALID_SNAPSHOT", "DUPLICATE_SNAPSHOT", "HISTORY_GAP", "INSUFFICIENT_HISTORY",
   "MISSING_FEATURE"}

NoForecast == [snapshot |-> 0, of |-> [c \in Controller |-> "INSUFFICIENT_HISTORY"]]

ForecasterTypeOK ==
  /\ buffer \in [Controller -> Seq(Sample)]
  /\ \A c \in Controller : Len(buffer[c]) <= Capacity
  /\ consecutive \in [Controller -> Nat]
  /\ gapSeen \in [Controller -> BOOLEAN]
  /\ forecast \in [snapshot : 0 .. MaxSnapshots, of : [Controller -> Prediction]]
  /\ lastError \in BOOLEAN
  /\ snapshots \in 0 .. MaxSnapshots
  /\ accepted \in [Controller -> Seq(Sample)]
  /\ evaluated \in [Controller -> Seq([segment : Nat, out : BOOLEAN, counted : BOOLEAN])]

ForecasterInit ==
  /\ buffer = [c \in Controller |-> <<>>]
  /\ consecutive = [c \in Controller |-> 0]
  /\ gapSeen = [c \in Controller |-> FALSE]
  /\ forecast = NoForecast
  /\ lastError = FALSE
  /\ snapshots = 0
  /\ accepted = [c \in Controller |-> <<>>]
  /\ evaluated = [c \in Controller |-> <<>>]

-----------------------------------------------------------------------------
(***************************************************************************)
(* One controller's turn in update, from its sample and the status append  *)
(* gives it.  Outputs follow from the new history.                         *)
(***************************************************************************)
IsReset(status) == status \in {"RESET_GAP", "RESET_OUT_OF_ORDER"}
IsRejected(status) == status \in {"REJECTED_INVALID_SNAPSHOT", "REJECTED_DUPLICATE"}

\* _features returns a row when every sample of the history is numeric.
HasRow(new) == HasHistory(new) /\ \A i \in DOMAIN History(new) : History(new)[i].good

\* A row is built and the gate sees it.
Evaluates(new, status) == ~IsRejected(status) /\ HasRow(new)

\* Mutant of CountAfter: the counter survives a hole.
CountAfterKept(count, status, row, counts) ==
  IF ~row THEN count ELSE IF counts THEN count + 1 ELSE 0

CountAfter(count, status, row, counts) ==
  LET before == IF IsReset(status) THEN 0 ELSE count
  IN  IF ~row THEN before ELSE IF counts THEN before + 1 ELSE 0

GapAfter(gap, new, status) ==
  IF IsRejected(status) THEN gap
  ELSE (gap \/ IsReset(status)) /\ ~HasHistory(new)

\* Mutant of PredictionOf: a duplicate is answered like a new sample.
PredictionOfDuplicate(new, status, count, gap) ==
  CASE status = "REJECTED_INVALID_SNAPSHOT" -> "INVALID_SNAPSHOT"
    [] ~HasHistory(new) -> IF gap THEN "HISTORY_GAP" ELSE "INSUFFICIENT_HISTORY"
    [] ~HasRow(new) -> "MISSING_FEATURE"
    [] OTHER -> IF count >= ConsecutiveSteps THEN "PERSISTENCE" ELSE "MODEL"

PredictionOf(new, status, count, gap) ==
  IF status = "REJECTED_INVALID_SNAPSHOT" THEN "INVALID_SNAPSHOT"
  ELSE IF status = "REJECTED_DUPLICATE" THEN "DUPLICATE_SNAPSHOT"
  ELSE IF ~HasHistory(new) THEN IF gap THEN "HISTORY_GAP" ELSE "INSUFFICIENT_HISTORY"
  ELSE IF ~HasRow(new) THEN "MISSING_FEATURE"
  ELSE IF count >= ConsecutiveSteps THEN "PERSISTENCE"
  ELSE "MODEL"

\* The controllers in done have had their turn with a sample of this snapshot,
\* with bad values for those in bad and rows out of range for those in out, of
\* which the gate counts those in counted: the others are out of range in ignored
\* features only.
Turns(done, time, valid, bad, out, counted) ==
  LET entry == [c \in Controller |->
                  [time |-> time, id |-> snapshots + 1, good |-> c \notin bad]]
      status == [c \in Controller |-> AppendStatus(buffer[c], entry[c], valid)]
      row(c) == Evaluates(buffer'[c], status[c])
      log == [c \in Controller |-> Append(accepted[c], entry[c])]
  IN  /\ buffer' = [c \in Controller |->
            IF c \in done THEN Stored(buffer[c], entry[c], status[c]) ELSE buffer[c]]
      /\ consecutive' = [c \in Controller |->
            IF c \in done THEN CountAfter(consecutive[c], status[c], row(c), c \in counted)
            ELSE consecutive[c]]
      /\ gapSeen' = [c \in Controller |->
            IF c \in done THEN GapAfter(gapSeen[c], buffer'[c], status[c]) ELSE gapSeen[c]]
      /\ accepted' = [c \in Controller |->
            IF c \in done /\ ~IsRejected(status[c]) THEN log[c] ELSE accepted[c]]
      /\ evaluated' = [c \in Controller |->
            IF c \in done /\ row(c)
            THEN Append(evaluated[c],
                        [segment |-> SegmentOf(log[c], Len(log[c])),
                         out |-> c \in out, counted |-> c \in counted])
            ELSE evaluated[c]]
      /\ counted \subseteq out /\ out \subseteq {c \in done : row(c)}

\* on_twin_state with all controllers served, and the payload stored; the
\* telemetry file may still fail to take it.
Update(time, valid, bad, out, counted) ==
  /\ snapshots < MaxSnapshots
  /\ Turns(Controller, time, valid, bad, out, counted)
  /\ forecast' =
       [snapshot |-> snapshots + 1,
        of |-> [c \in Controller |->
                  PredictionOf(buffer'[c],
                               AppendStatus(buffer[c],
                                            [time |-> time, id |-> snapshots + 1], valid),
                               consecutive'[c],
                               gapSeen'[c])]]
  /\ lastError' \in BOOLEAN
  /\ snapshots' = snapshots + 1

\* An exception before the first turn, or in the model that predicts in the
\* last of these turns: the payload stays the previous one.
UpdateFails(done, time, bad, out, counted) ==
  /\ snapshots < MaxSnapshots
  /\ Turns(done, time, TRUE, bad, out, counted)
  /\ lastError' = TRUE
  /\ snapshots' = snapshots + 1
  /\ UNCHANGED forecast

ForecasterNext ==
  \E time \in 0 .. MaxTime, bad, out, counted \in SUBSET Controller :
    \/ \E valid \in BOOLEAN : Update(time, valid, bad, out, counted)
    \/ \E done \in SUBSET Controller : UpdateFails(done, time, bad, out, counted)

ForecasterSpec == ForecasterInit /\ [][ForecasterNext]_forecasterVars

-----------------------------------------------------------------------------
LastSegment(c) == SegmentOf(accepted[c], Len(accepted[c]))
SegmentLength(c) == Len(accepted[c]) - LastSegment(c) + 1

\* The payload is the answer to the last twin state.
IsCurrent == forecast.snapshot = snapshots /\ snapshots > 0

(* history.py:21: "Using one value keeps runtime history identical to what  *)
(* the model saw while training."  Whatever holes, duplicates, steps back   *)
(* of the clock and failed calls come in between, the history of a          *)
(* controller is the end of the last segment that continuity.assign_segments*)
(* makes of the samples it accepted: nothing is stitched, nothing is lost.  *)
HistoryMatchesDataset ==
  \A c \in Controller :
    LET a == accepted[c]
        room == Len(a) - Capacity + 1
    IN  IF a = <<>> THEN buffer[c] = <<>>
        ELSE buffer[c] = SubSeq(a, IF room > LastSegment(c) THEN room ELSE LastSegment(c),
                                Len(a))

(* ood.gate_mask over one flag of the rows: the gate is on at a row when it *)
(* and the rows before it, ConsecutiveSteps in all, are flagged and of one  *)
(* segment.                                                                 *)
GateMask(rows, flag) ==
  /\ Len(rows) >= ConsecutiveSteps
  /\ \A i \in Len(rows) - ConsecutiveSteps + 1 .. Len(rows) :
       rows[i][flag] /\ rows[i].segment = rows[Len(rows)].segment

(* The gate in the telemetry thread, with one counter per controller that   *)
(* survives rejected samples, failed calls and rows that could not be       *)
(* built, falls back exactly where gate_mask is on for the rows that it     *)
(* counts; hence never where the offline evaluation of the model            *)
(* (compute_forecast_margin), whose mask ignores no feature, relies on the  *)
(* model.                                                                   *)
GateFollowsMask ==
  IsCurrent =>
    \A c \in Controller :
      forecast.of[c] \in {"MODEL", "PERSISTENCE"} =>
        /\ forecast.of[c] = "PERSISTENCE" <=> GateMask(evaluated[c], "counted")
        /\ forecast.of[c] = "PERSISTENCE" => GateMask(evaluated[c], "out")

(* The converse of the last line does not hold: rows out of range in an     *)
(* ignored feature only turn the offline gate on and not this one, so the   *)
(* coverage with gate was not measured for the gate that is deployed        *)
(* (configs/forecasting/runtime.yaml ignores a feature that turned the gate *)
(* "on for 170/172 READY samples of a stable run").                         *)
GateIsOfflineGate ==
  IsCurrent =>
    \A c \in Controller :
      forecast.of[c] = "MODEL" => ~GateMask(evaluated[c], "out")

(* The reason of a NOT_READY forecast is true: INSUFFICIENT_HISTORY before  *)
(* the first hole, HISTORY_GAP after one, and neither once the segment is   *)
(* long enough for a window of the training data.                           *)
ReasonIsTrue ==
  IsCurrent =>
    \A c \in Controller :
      forecast.of[c] \in {"INSUFFICIENT_HISTORY", "HISTORY_GAP"} =>
        /\ SegmentLength(c) < HistorySteps
        /\ forecast.of[c] = "HISTORY_GAP" <=> LastSegment(c) > 1

(* A forecast with numbers is made from the sample of the snapshot it is    *)
(* labelled with and the HistorySteps - 1 accepted before it, all numeric   *)
(* and of one segment.                                                      *)
ForecastUsesItsSnapshot ==
  IsCurrent =>
    \A c \in Controller :
      forecast.of[c] \in {"MODEL", "PERSISTENCE"} =>
        LET a == accepted[c]
        IN  /\ a[Len(a)].id = forecast.snapshot
            /\ SegmentLength(c) >= HistorySteps
            /\ \A i \in Len(a) - HistorySteps + 1 .. Len(a) : a[i].good
=============================================================================
