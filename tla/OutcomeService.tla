--------------------------- MODULE OutcomeService ---------------------------
(***************************************************************************)
(* OutcomeService: the telemetry thread publishes twin states and feeds a  *)
(* history of snapshots with them; request threads ask what a migration    *)
(* would do (POST /twin/outcome/predict).  A request reads the published   *)
(* state, then asks the history whether it is ready, then reads it: three  *)
(* steps, for the store and the history have locks of their own.           *)
(*                                                                         *)
(* A request changes nothing that others read, so one request at a time    *)
(* stands for all of them.  The owners in a snapshot are free choices:     *)
(* TwinPipeline has where they come from.  Features and models are not     *)
(* modelled, that they may be missing is.                                  *)
(***************************************************************************)
EXTENDS HistoryBuffer

CONSTANTS
  Controller, Switch,
  NoTwin,         \* nothing is published yet
  MaxSnapshots,   \* bound on published states
  MaxTime         \* bound on the clock, which may be set back

ASSUME OutcomeAssumption == {MaxSnapshots, MaxTime} \subseteq Nat

VARIABLES
  twin,       \* CurrentStateStore._twin_state
  pending,    \* it is published and not yet in the history
  observed,   \* the history: snapshots under the single key
  request,    \* the prediction being made
  answer      \* the last one made

outcomeVars == <<twin, pending, observed, request, answer>>

Snapshot == [time : 0 .. MaxTime, id : 1 .. MaxSnapshots,
             ownership : [Switch -> Controller], valid : BOOLEAN]
Action == [switch : Switch, source : Controller]
NotReadyReason ==
  {"INVALID_SNAPSHOT", "INSUFFICIENT_HISTORY", "SWITCH_NOT_OWNED_BY_SOURCE",
   "MISSING_SWITCH_TELEMETRY", "MISSING_CAPACITY", "ARTIFACT", "MISSING_FEATURE"}

OutcomeTypeOK ==
  /\ twin \in Snapshot \cup {NoTwin}
  /\ pending \in BOOLEAN /\ (pending => twin \in Snapshot)
  /\ observed \in Seq(Snapshot) /\ Len(observed) <= Capacity
  /\ \/ request = [at |-> "idle"]
     \/ request \in [at : {"checks", "window"}, action : Action,
                     twin : Snapshot \cup {NoTwin}]
  /\ \/ answer \in [reason : NotReadyReason \cup {"none", "HTTP 500"}]
     \/ /\ answer.reason = "READY"
        /\ answer.action \in Action /\ answer.twin \in Snapshot
        /\ answer.window \in Seq(Snapshot)

OutcomeInit ==
  /\ twin = NoTwin
  /\ pending = FALSE
  /\ observed = <<>>
  /\ request = [at |-> "idle"]
  /\ answer = [reason |-> "none"]

-----------------------------------------------------------------------------
(***************************************************************************)
(* build_snapshot in the telemetry thread.                                 *)
(***************************************************************************)
Published == IF twin = NoTwin THEN 0 ELSE twin.id

\* set_twin_state.
Publish(time, ownership, valid) ==
  /\ ~pending
  /\ Published < MaxSnapshots
  /\ twin' = [time |-> time, id |-> Published + 1, ownership |-> ownership, valid |-> valid]
  /\ pending' = TRUE
  /\ UNCHANGED <<observed, request, answer>>

\* on_twin_state.
Observe ==
  /\ pending
  /\ observed' = Stored(observed, twin, AppendStatus(observed, twin, twin.valid))
  /\ pending' = FALSE
  /\ UNCHANGED <<twin, request, answer>>

\* The snapshot could not be written to its file: the history never gets it.
WriteFails ==
  /\ pending
  /\ pending' = FALSE
  /\ UNCHANGED <<twin, observed, request, answer>>

-----------------------------------------------------------------------------
(***************************************************************************)
(* A request.                                                              *)
(***************************************************************************)
telemetryVars == <<twin, pending, observed>>

ReadTwin(action) ==
  /\ request.at = "idle"
  /\ request' = [at |-> "checks", action |-> action, twin |-> twin]
  /\ answer' = [reason |-> "none"]
  /\ UNCHANGED telemetryVars

Answers(reason) ==
  /\ answer' = [reason |-> reason]
  /\ request' = [at |-> "idle"]

\* The first that applies of the reasons not to predict; the last three are
\* there or not.
FirstProblem(state, action) ==
  IF state = NoTwin THEN {"INVALID_SNAPSHOT"}
  ELSE IF ~state.valid THEN {"INVALID_SNAPSHOT"}
  ELSE IF ~HasHistory(observed) THEN {"INSUFFICIENT_HISTORY"}
  ELSE IF state.ownership[action.switch] # action.source
       THEN {"SWITCH_NOT_OWNED_BY_SOURCE"}
  ELSE {"none", "MISSING_SWITCH_TELEMETRY", "MISSING_CAPACITY", "ARTIFACT"}

\* _first_problem and _runtime_or_reason.
CheckProblems ==
  /\ request.at = "checks"
  /\ \E reason \in FirstProblem(request.twin, request.action) :
       IF reason = "none"
       THEN request' = [request EXCEPT !.at = "window"] /\ UNCHANGED answer
       ELSE Answers(reason)
  /\ UNCHANGED telemetryVars

\* Mutant of CheckWindow: the owner is not looked up again.
CheckWindowLength(window, action) ==
  /\ Len(window) >= HistorySteps
  /\ \A i \in DOMAIN window : window[i].valid

CheckWindow(window, action) ==
  /\ Len(window) >= HistorySteps
  /\ \A i \in DOMAIN window : window[i].valid
  /\ LatestOf(window).ownership[action.switch] = action.source

\* _predict.
PredictReady ==
  /\ request.at = "window" /\ HasHistory(observed)
  /\ CheckWindow(History(observed), request.action)
  /\ answer' = [reason |-> "READY", action |-> request.action,
                twin |-> request.twin, window |-> History(observed)]
  /\ request' = [at |-> "idle"]
  /\ UNCHANGED telemetryVars

\* The window does not fit the action, or a feature is missing or not finite.
PredictMissing ==
  /\ request.at = "window" /\ HasHistory(observed)
  /\ Answers("MISSING_FEATURE")
  /\ UNCHANGED telemetryVars

\* The history was cleared since it was ready: HistoryNotReadyError is not
\* among the errors that are caught.
PredictRaises ==
  /\ request.at = "window" /\ ~HasHistory(observed)
  /\ Answers("HTTP 500")
  /\ UNCHANGED telemetryVars

OutcomeNext ==
  \/ \E time \in 0 .. MaxTime, ownership \in [Switch -> Controller], valid \in BOOLEAN :
       Publish(time, ownership, valid)
  \/ Observe \/ WriteFails
  \/ \E action \in Action : ReadTwin(action)
  \/ CheckProblems
  \/ PredictReady \/ PredictMissing \/ PredictRaises

OutcomeSpec == OutcomeInit /\ [][OutcomeNext]_outcomeVars

-----------------------------------------------------------------------------
(* A READY prediction is made for a controller that owned the switch both  *)
(* in the twin state it is labelled with and in the last snapshot it was   *)
(* computed from, although the two are read at different times and may be  *)
(* of different snapshots (predictor.py:245, features.py:125); and it is   *)
(* computed from HistorySteps valid snapshots without a hole, whatever     *)
(* gaps, steps back of the clock and lost snapshots there were.            *)
ReadyAnswerIsOwned ==
  answer.reason = "READY" =>
    LET w == answer.window
        s == answer.action.switch
    IN  /\ Len(w) = HistorySteps /\ OneRun(w)
        /\ \A i \in DOMAIN w : w[i].valid
        /\ answer.twin.ownership[s] = answer.action.source
        /\ w[Len(w)].ownership[s] = answer.action.source

(* Why: the history never holds anything but one run of valid snapshots.   *)
HistoryIsOneRun ==
  /\ OneRun(observed)
  /\ \A i \in DOMAIN observed : observed[i].valid

(* And between the two reads of the history a request is for the owner in  *)
(* the twin state it has read.                                             *)
CheckedRequestIsOwned ==
  request.at = "window" =>
    /\ request.twin \in Snapshot
    /\ request.twin.ownership[request.action.switch] = request.action.source

(* The two with the types and with ReadyAnswerIsOwned are inductive: a     *)
(* snapshot that does not follow (history.py:95-104) never joins the run,  *)
(* and a request never forgets the check of its owner.                     *)
OutcomeInvariant ==
  OutcomeTypeOK /\ HistoryIsOneRun /\ CheckedRequestIsOwned /\ ReadyAnswerIsOwned

(* predictor.py:12: "Every case that must stop the prediction returns      *)
(* NOT_READY with a reason".                                               *)
EveryPredictionAnswered == answer.reason # "HTTP 500"
=============================================================================
