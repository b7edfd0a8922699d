-------------------------- MODULE ForecastTraining --------------------------
(***************************************************************************)
(* The offline side of forecasting: the scripts an operator runs, one at a *)
(* time and in any order, over three directories.                          *)
(*                                                                         *)
(*   build_forecast_dataset   raw runs        -> processed dataset         *)
(*   build_forecast_splits    dataset         -> split manifest            *)
(*   train_forecast_baselines dataset         -> model directory           *)
(*   compute_forecast_margin  models, dataset -> error margin              *)
(*   export_forecast_artifact model directory -> card, contract check      *)
(*                                                                         *)
(* Every script writes its files one after the other and may be stopped    *)
(* between two of them; nothing removes the files an earlier run left. A   *)
(* file is its provenance: the training session it comes from, the         *)
(* recordings behind its rows, the runs it looked at, the model family.    *)
(***************************************************************************)
EXTENDS Naturals, Sequences, FiniteSets

CONSTANTS
    Runs,               \* the planned runs: [workload |-> w, repeat |-> n]
    SeenWorkloads, UnseenWorkloads,
    TrainRepeats, ValidationRepeats, TestRepeats,
    Horizons,           \* values of horizon_steps the config may hold
    Families,           \* model families the selection ranks
    MaxTakes,           \* bound: recordings of one run
    MaxSessions         \* bound: trainings started

\* SplitPolicy refuses repeats that overlap; assign_split raises for a workload or a
\* repeat it does not know.
ASSUME ForecastTrainingAssumption ==
    /\ \A r \in Runs : r.workload \in SeenWorkloads \cup UnseenWorkloads
    /\ \A r \in Runs : r.workload \notin UnseenWorkloads =>
           r.repeat \in TrainRepeats \cup ValidationRepeats \cup TestRepeats
    /\ TestRepeats \cap (TrainRepeats \cup ValidationRepeats) = {}
    /\ TrainRepeats \cap ValidationRepeats = {}
    /\ Families \subseteq {"persistence", "moving_average", "linear_regression",
                           "random_forest"}
    /\ MaxTakes \in Nat \ {0} /\ MaxSessions \in Nat

VARIABLES
    raw,        \* [Runs -> recording]: its number, and whether it gives rows
    horizon,    \* horizon_steps in configs/forecasting/forecast.yaml
    data,       \* [Horizons -> [DataFiles -> content]]: one directory a version
    model,      \* [ModelFiles -> content]: the directory of one model version
    script,     \* the script that runs, what it holds and has left to write
    sessions,   \* number of trainings started
    chain       \* history: how far the documented order of scripts has come
vars == <<raw, horizon, data, model, script, sessions, chain>>

-----------------------------------------------------------------------------
Absent == [absent |-> TRUE]
Idle == [name |-> "idle", todo |-> <<>>]

\* Mutant of TrainFiles: the selection is written with the other reports, after the evaluation.
TrainFilesSelectionLate ==
    <<"linear", "scaler", "forest", "schema", "reports", "selection",
      "training", "pointer">>

\* The order in which each script writes its files.
\* Reports that no script reads back are left out; "reports" stands for the
\* metrics of the three evaluated splits.
DatasetFiles == <<"dataset", "manifest">>
SplitFiles == <<"splits">>
TrainFiles == <<"selection", "linear", "scaler", "forest", "schema", "reports",
                "training", "pointer">>
MarginFiles == <<"margin", "ranges">>
ExportFiles == <<"card", "summary">>

DataFiles == {"dataset", "manifest", "splits"}
ModelFiles == {TrainFiles[i] : i \in DOMAIN TrainFiles}
                \cup {"margin", "ranges", "card", "summary"}

\* The files a predictor of the family is loaded from.
WeightFiles(family) ==
    CASE family = "linear_regression" -> {"linear", "scaler"}
      [] family = "random_forest" -> {"forest"}
      [] OTHER -> {}

\* Mutant of AssignSplit: the repeat is looked at before the workload.
AssignSplitByRepeat(r) ==
    CASE r.repeat \in TrainRepeats -> "train"
      [] r.repeat \in ValidationRepeats -> "validation"
      [] r.repeat \in TestRepeats -> "test"
      [] OTHER -> "unseen"

\* The split of a run: unseen workloads are set aside before the repeat counts.
AssignSplit(r) ==
    IF r.workload \in UnseenWorkloads THEN "unseen"
    ELSE CASE r.repeat \in TrainRepeats -> "train"
           [] r.repeat \in ValidationRepeats -> "validation"
           [] r.repeat \in TestRepeats -> "test"
Split(name) == {r \in Runs : AssignSplit(r) = name}

Sessions(files) == {model[f].session : f \in files}
Present(files) == \A f \in files : model[f] # Absent

\* split_records: every planned run has rows, or the script raises.
Loadable(h) ==
    /\ data[h]["dataset"] # Absent
    /\ \A r \in Runs : data[h]["dataset"].rows[r] # 0

Init ==
    /\ raw = [r \in Runs |-> [take |-> 1, usable |-> TRUE]]
    /\ horizon \in Horizons
    /\ data = [h \in Horizons |-> [f \in DataFiles |-> Absent]]
    /\ model = [f \in ModelFiles |-> Absent]
    /\ script = Idle
    /\ sessions = 0
    /\ chain = "none"

-----------------------------------------------------------------------------
(* What the operator does between two scripts.                             *)

\* A run is collected again; its samples may all fall to gaps and invalid
\* snapshots, so that it has no row left.
Recollect(r) ==
    /\ script = Idle /\ raw[r].take < MaxTakes
    /\ \E usable \in BOOLEAN :
           raw' = [raw EXCEPT ![r] = [take |-> raw[r].take + 1, usable |-> usable]]
    /\ UNCHANGED <<horizon, data, model, script, sessions, chain>>

\* The horizon of the config is edited: other dataset directory, same models.
SetHorizon(h) ==
    /\ script = Idle /\ h # horizon
    /\ horizon' = h
    /\ chain' = "none"
    /\ UNCHANGED <<raw, data, model, script, sessions>>

\* Start a script that holds `mem` and will write `todo`.
Start(name, todo, mem) ==
    script' = [name |-> name, todo |-> todo, mem |-> mem, dir |-> horizon]

-----------------------------------------------------------------------------
(* build_forecast_dataset and build_forecast_splits                        *)

\* A run whose recording gives no valid, complete and labelled row vanishes
\* from the dataset; a run without any raw row stops the script.
BuildDataset ==
    /\ script = Idle
    /\ Start("dataset", DatasetFiles,
             [rows |-> [r \in Runs |-> IF raw[r].usable THEN raw[r].take ELSE 0],
              steps |-> horizon])
    /\ chain' = "none"
    /\ UNCHANGED <<raw, horizon, data, model, sessions>>

BuildSplits ==
    /\ script = Idle /\ Loadable(horizon)
    /\ Start("splits", SplitFiles,
             [rows |-> data[horizon]["dataset"].rows, steps |-> horizon])
    /\ chain' = "none"
    /\ UNCHANGED <<raw, horizon, data, model, sessions>>

WriteDataFile ==
    LET f == Head(script.todo) IN
    /\ script.name \in {"dataset", "splits"} /\ script.todo # <<>>
    /\ data' = [data EXCEPT ![script.dir][f] = script.mem]
    /\ script' = [script EXCEPT !.todo = Tail(@)]
    /\ UNCHANGED <<raw, horizon, model, sessions, chain>>

DataDone ==
    /\ script.name \in {"dataset", "splits"} /\ script.todo = <<>>
    /\ script' = Idle
    /\ UNCHANGED <<raw, horizon, data, model, sessions, chain>>

-----------------------------------------------------------------------------
(* train_forecast_baselines                                                *)

\* The MLflow run opens first, then dataset and manifest are read. The models
\* are fitted on train, candidates and family chosen on validation, all in
\* memory; which family wins depends on measured errors and latencies.
Train(tracked) ==
    /\ script = Idle /\ sessions < MaxSessions
    /\ sessions' = sessions + 1
    /\ chain' = "none"
    /\ \/ /\ Loadable(horizon) /\ data[horizon]["manifest"] # Absent
          /\ \E family \in Families :
                Start("train", TrainFiles,
                      [session |-> sessions', family |-> family, tracked |-> tracked,
                       rows |-> data[horizon]["dataset"].rows,
                       steps |-> data[horizon]["manifest"].steps])
       \/ /\ ~(Loadable(horizon) /\ data[horizon]["manifest"] # Absent)
          /\ UNCHANGED script
    /\ UNCHANGED <<raw, horizon, data, model>>

\* The runs a file of the training has seen.
TrainedOn(f) ==
    CASE f \in {"linear", "scaler"} -> Split("train")
      [] f \in {"forest", "selection"} -> Split("train") \cup Split("validation")
      [] f = "reports" -> Split("validation") \cup Split("test") \cup Split("unseen")
      [] OTHER -> {}

\* Mutant of WriteTrainFile: a training that keeps the files it finds.
WriteTrainFileOnce ==
    LET f == Head(script.todo) IN
    /\ script.name = "train" /\ script.todo # <<>>
    /\ f = "reports" => data[script.dir]["splits"] # Absent
    /\ model' = IF model[f] # Absent \/ (f = "pointer" /\ ~script.mem.tracked)
                THEN model
                ELSE [model EXCEPT ![f] =
                        [session |-> script.mem.session, family |-> script.mem.family,
                         rows |-> script.mem.rows, steps |-> script.mem.steps,
                         on |-> TrainedOn(f)]]
    /\ script' = [script EXCEPT !.todo = Tail(@)]
    /\ UNCHANGED <<raw, horizon, data, sessions, chain>>

\* The split manifest is copied before the reports: without one the script
\* raises, with the models already replaced. A training without MLflow leaves
\* the pointer as it is.
WriteTrainFile ==
    LET f == Head(script.todo) IN
    /\ script.name = "train" /\ script.todo # <<>>
    /\ f = "reports" => data[script.dir]["splits"] # Absent
    /\ model' = IF f = "pointer" /\ ~script.mem.tracked
                THEN model
                ELSE [model EXCEPT ![f] =
                        [session |-> script.mem.session, family |-> script.mem.family,
                         rows |-> script.mem.rows, steps |-> script.mem.steps,
                         on |-> TrainedOn(f)]]
    /\ script' = [script EXCEPT !.todo = Tail(@)]
    /\ UNCHANGED <<raw, horizon, data, sessions, chain>>

TrainDone ==
    /\ script.name = "train" /\ script.todo = <<>>
    /\ script' = Idle
    /\ chain' = "trained"
    /\ UNCHANGED <<raw, horizon, data, model, sessions>>

-----------------------------------------------------------------------------
(* compute_forecast_margin                                                 *)

\* A family given on the command line, or the selected one.
Chosen(family) ==
    IF family = "selected" THEN model["selection"].family ELSE family

\* The weights are those on disk, the rows those of the dataset of the horizon
\* configured now; margins come from validation, feature ranges from train.
ComputeMargin(family) ==
    /\ script = Idle
    /\ model["schema"] # Absent /\ Loadable(horizon)
    /\ family = "selected" => model["selection"] # Absent
    /\ Present(WeightFiles(Chosen(family)))
    /\ Start("margin", MarginFiles,
             [family |-> Chosen(family), rows |-> data[horizon]["dataset"].rows,
              weights |-> Sessions(WeightFiles(Chosen(family)))])
    /\ chain' = IF chain = "trained" THEN chain ELSE "none"
    /\ UNCHANGED <<raw, horizon, data, model, sessions>>

MarginOn(f) == IF f = "margin" THEN Split("validation") ELSE Split("train")

WriteMarginFile ==
    LET f == Head(script.todo) IN
    /\ script.name = "margin" /\ script.todo # <<>>
    /\ model' = [model EXCEPT ![f] =
                    [family |-> script.mem.family, weights |-> script.mem.weights,
                     rows |-> script.mem.rows, on |-> MarginOn(f), logged |-> 0]]
    /\ script' = [script EXCEPT !.todo = Tail(@)]
    /\ UNCHANGED <<raw, horizon, data, sessions, chain>>

\* The margins go to the MLflow run of the pointer, if there is one:
\* `logged` is the training that run belongs to.
MarginDone ==
    /\ script.name = "margin" /\ script.todo = <<>>
    /\ model' = IF model["pointer"] = Absent THEN model
                ELSE [model EXCEPT !["margin"].logged = model["pointer"].session]
    /\ script' = Idle
    /\ chain' = IF chain = "trained" THEN "margin" ELSE "none"
    /\ UNCHANGED <<raw, horizon, data, sessions>>

-----------------------------------------------------------------------------
(* export_forecast_artifact                                                *)

\* A margin of another family refuses the export before anything is written.
Export(family) ==
    /\ script = Idle
    /\ Present({"selection", "training", "schema"})
    /\ model["margin"] # Absent => model["margin"].family = Chosen(family)
    /\ Start("export", ExportFiles, [family |-> Chosen(family)])
    /\ chain' = IF chain = "margin" THEN chain ELSE "none"
    /\ UNCHANGED <<raw, horizon, data, model, sessions>>

\* A moving average cannot be deployed. The card names the run of the pointer
\* and the rows of the dataset that is on disk now; the summary needs the
\* reports.
WriteExportFile ==
    LET f == Head(script.todo)
        now == data[script.dir]["dataset"] IN
    /\ script.name = "export" /\ script.todo # <<>>
    /\ f = "card" => script.mem.family # "moving_average"
    /\ f = "summary" => model["reports"] # Absent
    /\ model' =
        CASE f = "card" -> [model EXCEPT ![f] =
                [family |-> script.mem.family,
                 steps |-> model["training"].steps,
                 rows |-> IF now = Absent THEN [r \in Runs |-> 0] ELSE now.rows,
                 run |-> IF model["pointer"] = Absent THEN 0
                         ELSE model["pointer"].session]]
          [] f = "summary" -> [model EXCEPT ![f] =
                [family |-> script.mem.family, session |-> model["reports"].session]]
    /\ script' = [script EXCEPT !.todo = Tail(@)]
    /\ UNCHANGED <<raw, horizon, data, sessions, chain>>

\* validate_artifact: the contract C1 of a model directory, checked at the end
\* of the export and by the service that loads the directory.
ValidArtifact ==
    /\ Present({"card", "schema", "margin"})
    /\ Present(WeightFiles(model["card"].family))
    /\ model["margin"].family = model["card"].family

ExportDone ==
    /\ script.name = "export" /\ script.todo = <<>>
    /\ script' = Idle
    /\ chain' = IF chain = "margin" /\ ValidArtifact THEN "exported" ELSE "none"
    /\ UNCHANGED <<raw, horizon, data, model, sessions>>

-----------------------------------------------------------------------------
(* A script stops before its end: an exception, an interrupt or a kill. The *)
(* files written so far stay.                                              *)

Stop ==
    /\ script # Idle
    /\ script' = Idle
    /\ chain' = "none"
    /\ UNCHANGED <<raw, horizon, data, model, sessions>>

Next ==
    \/ \E r \in Runs : Recollect(r)
    \/ \E h \in Horizons : SetHorizon(h)
    \/ BuildDataset \/ BuildSplits \/ WriteDataFile \/ DataDone
    \/ \E tracked \in BOOLEAN : Train(tracked)
    \/ WriteTrainFile \/ TrainDone
    \/ \E family \in Families \cup {"selected"} : ComputeMargin(family)
    \/ WriteMarginFile \/ MarginDone
    \/ \E family \in Families \cup {"selected"} : Export(family)
    \/ WriteExportFile \/ ExportDone
    \/ Stop

Spec == Init /\ [][Next]_vars

-----------------------------------------------------------------------------
(* Properties.                                                             *)

Contents == {Absent} \cup [session : 1..MaxSessions, family : Families,
                          rows : [Runs -> 0..MaxTakes], steps : Horizons,
                          on : SUBSET Runs]

(* Type correctness: every file is absent or has a provenance of its kind. *)
ForecastTrainingTypeOK ==
    /\ raw \in [Runs -> [take : 1..MaxTakes, usable : BOOLEAN]]
    /\ horizon \in Horizons
    /\ \A h \in Horizons, f \in DataFiles :
           data[h][f] \in {Absent} \cup [rows : [Runs -> 0..MaxTakes], steps : {h}]
    /\ \A i \in DOMAIN TrainFiles : model[TrainFiles[i]] \in Contents
    /\ sessions \in 0..MaxSessions
    /\ chain \in {"none", "trained", "margin", "exported"}

(* No run of an unseen workload, and no test repeat, has been looked at by  *)
(* anything that was fitted, selected or calibrated: whatever scripts ran,  *)
(* stopped or ran again, the test and unseen numbers are held out.          *)
HeldOutStaysHeldOut ==
    \A f \in {"selection", "linear", "scaler", "forest", "margin", "ranges"} :
        model[f] # Absent =>
            \A r \in model[f].on : /\ r.workload \notin UnseenWorkloads
                                   /\ r.repeat \notin TestRepeats

(* "Configuration is now frozen. Only now evaluate test + unseen": reports  *)
(* on test never come from a later training than the selection on disk, and *)
(* a pointer never from a later one than any file of the directory.         *)
TestAfterFreeze ==
    /\ model["reports"] # Absent =>
           /\ model["selection"] # Absent
           /\ model["reports"].session <= model["selection"].session
    /\ model["pointer"] # Absent =>
           \A f \in {TrainFiles[i] : i \in DOMAIN TrainFiles} :
               /\ model[f] # Absent
               /\ model["pointer"].session <= model[f].session

(* Whatever earlier runs, crashes and retrainings left in the directory, a  *)
(* training, a margin and an export that follow one another to their end    *)
(* give an artifact whose weights are of one training, whose margin is the  *)
(* error of exactly these weights on exactly the rows they were trained on, *)
(* and whose card names the same rows and horizon.                          *)
WorkflowGivesExactArtifact ==
    chain = "exported" =>
        LET card == model["card"]
            margin == model["margin"]
            training == model["training"]
            weights == Sessions(WeightFiles(card.family)) IN
        /\ ValidArtifact
        /\ weights \subseteq {training.session}
        /\ margin.weights = weights
        /\ margin.rows = training.rows /\ card.rows = training.rows
        /\ card.steps = training.steps
        /\ model["summary"] = [family |-> card.family, session |-> training.session]

(* "(MlflowClient, run_id) of the training run behind mlflow_run.json ...   *)
(* None when the model was trained with --no-mlflow": after a complete      *)
(* training and a complete margin, the margin has been logged to the run of *)
(* that training or to none.                                                *)
MarginLoggedToItsTraining ==
    chain = "margin" /\ model["margin"].logged # 0 =>
        model["margin"].logged = model["training"].session

=============================================================================
