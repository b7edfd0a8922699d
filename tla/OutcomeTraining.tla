--------------------------- MODULE OutcomeTraining ---------------------------
(***************************************************************************)
(* The offline side of outcome prediction: what an operator runs, one      *)
(* script at a time, each of which may stop between two files it writes.   *)
(*                                                                         *)
(*   build_outcome_dataset [--force]           the processed dataset       *)
(*   train_outcome_models --stage direct       direct models and scores    *)
(*   train_outcome_models --stage hybrid       residual models and scores  *)
(*   train_outcome_models --stage select-and-test   choice, then one test  *)
(*   export_outcome_artifact                   margins and the artifact    *)
(*                                                                         *)
(* The choice is frozen (with the sha256 of every file it rests on) before *)
(* a test row is read, a lock records that the test was opened and whether *)
(* it was completed, and the artifact is moved into place in one rename.   *)
(*                                                                         *)
(* A file is what it was made from: equal contents are equal sums, and     *)
(* scores made from other models or other validation rows differ.          *)
(***************************************************************************)
EXTENDS OutcomeCollection

CONSTANTS
    MaxConfigs,     \* bound: versions of the model configuration
    MaxStages,      \* bound: training stages started
    FeaturesOf(_),  \* the model features of a set of train rows: not constant in it
    HybridWins(_)   \* does a hybrid have the lowest S in a selection?

ASSUME OutcomeTrainingAssumption ==
    MaxConfigs \in Nat \ {0} /\ MaxStages \in Nat

VARIABLES
    config,     \* version of models.yaml and evaluation.yaml
    dataset,    \* [DatasetFiles -> content]: csv, feature schema, manifest
    reports,    \* [Stages -> [ReportFiles -> content]]: direct and hybrid
    final,      \* [FinalFiles -> content]: selection, outputs, margins
    lock,       \* test_lock.json
    artifact,   \* the artifact directory
    tmp,        \* its .tmp directory
    stages,     \* number of training stages started: the created_at of a report
    tested,     \* history: selections with which the test rows were predicted
    forcedStop  \* history: a --force rebuild stopped half way
trainingVars == <<config, dataset, reports, final, lock, artifact, tmp, stages, tested,
                  forcedStop>>
vars == <<collectionVars, script, trainingVars>>

-----------------------------------------------------------------------------
\* Files in the order in which they are written.
DatasetOrder == <<"csv", "schema", "manifest">>
ReportOrder == <<"rf_r", "rf_u", "xgb_r", "xgb_u", "hyper", "scores">>
OutputOrder == <<"validation_metrics", "test_metrics">>
ArtifactOrder == <<"models", "metrics", "manifest">>

\* Models of each family: of the response and of the utilization. S does not
\* look at the response (dataset.yaml, selection_exclude).
ModelFiles == {"rf_r", "rf_u", "xgb_r", "xgb_u"}
ScoredFiles == {"rf_u", "xgb_u"}

Stages == {"direct", "hybrid"}
FinalFiles == {"selection", "validation_metrics", "test_metrics", "margin"}

NoFiles(order) == [f \in {order[i] : i \in DOMAIN order} |-> None]
Writes(name) == script.name = name /\ script.todo # <<>>
Advance == script' = [script EXCEPT !.todo = Tail(@)]

Init ==
    /\ CollectionInit
    /\ config = 1
    /\ dataset = NoFiles(DatasetOrder)
    /\ reports = [s \in Stages |-> NoFiles(ReportOrder)]
    /\ final = [f \in FinalFiles |-> None]
    /\ lock = [status |-> "none"]
    /\ artifact = None /\ tmp = None
    /\ stages = 0
    /\ tested = {} /\ forcedStop = FALSE

-----------------------------------------------------------------------------
(* The operator: the collection goes on, a configuration is edited.        *)

Collection ==
    /\ CollectionNext
    /\ UNCHANGED trainingVars

EditConfig ==
    /\ script = Idle /\ config < MaxConfigs
    /\ config' = config + 1
    /\ UNCHANGED <<collectionVars, dataset, reports, final, lock, artifact, tmp, script,
                   stages, tested, forcedStop>>

-----------------------------------------------------------------------------
(* build_outcome_dataset                                                   *)

\* Rows are read from the raw attempts; some must be there to fit on. A finished
\* build is only replaced by force; the manifest is written last.
BuildDataset(force) ==
    /\ script = Idle
    /\ dataset["manifest"] # None => force
    /\ CanBuildRows /\ \E row \in RowsOf : row.split = "train"
    /\ Start("dataset", DatasetOrder,
             [data |-> RowsOf, capacity |-> capacity,
              forced |-> dataset["manifest"] # None])
    /\ UNCHANGED <<collectionVars, trainingVars>>

Part(rows, split) == {row \in rows : row.split = split}

\* The schema holds no more of the rows than their features.
SchemaOf(rows) == [features |-> FeaturesOf(Part(rows, "train"))]

\* The manifest also names the capacity.
DatasetContent(f, mem) ==
    CASE f = "csv" -> [data |-> mem.data]
      [] f = "schema" -> SchemaOf(mem.data)
      [] f = "manifest" -> [data |-> mem.data, capacity |-> mem.capacity]

WriteDataset ==
    /\ Writes("dataset")
    /\ dataset' = [dataset EXCEPT ![Head(script.todo)] =
                       DatasetContent(Head(script.todo), script.mem)]
    /\ Advance
    /\ UNCHANGED <<collectionVars, config, reports, final, lock, artifact, tmp, stages,
                   tested, forcedStop>>

-----------------------------------------------------------------------------
(* The stages direct and hybrid                                            *)

HasRows ==
    /\ dataset["csv"] # None /\ dataset["schema"] # None
    /\ \A split \in {"train", "validation"} : Part(dataset["csv"].data, split) # {}

\* The hyperparameters of the stage name the features of the schema. Nothing is
\* asked of the rows.
SameFeatures(stage) ==
    /\ reports[stage]["hyper"] # None
    /\ reports[stage]["hyper"].model.features = dataset["schema"].features

\* A model is a function of the rows it was fitted on and chosen with, of its
\* features and of the grid (the seeds are fixed).
ModelOfNow ==
    [train |-> Part(dataset["csv"].data, "train"),
     validation |-> Part(dataset["csv"].data, "validation"),
     features |-> dataset["schema"].features, config |-> config]

DirectModels == [f \in ModelFiles |-> reports["direct"][f]]

\* Models are searched on the train and validation rows. The hybrid stage also
\* predicts with the direct models on disk, after a look at the features that
\* their hyperparameters name.
Stage(stage) ==
    /\ script = Idle /\ stages < MaxStages /\ HasRows
    /\ stage = "hybrid" => /\ SameFeatures("direct")
                           /\ \A f \in ModelFiles : reports["direct"][f] # None
    /\ stages' = stages + 1
    /\ Start(stage, ReportOrder,
             [model |-> ModelOfNow, at |-> stages', direct |-> DirectModels])
    /\ UNCHANGED <<collectionVars, config, dataset, reports, final, lock, artifact, tmp,
                   tested, forcedStop>>

\* S of the models a stage has just fitted, and of the direct ones it compares
\* them with: the direct stage has no others.
ScoresContent(stage, mem) ==
    [own |-> mem.model,
     direct |-> [f \in ScoredFiles |-> IF stage = "direct" THEN mem.model ELSE mem.direct[f]]]

\* The hyperparameters also hold the time of the stage.
ReportContent(f, stage, mem) ==
    CASE f \in ModelFiles -> mem.model
      [] f = "hyper" -> [model |-> mem.model, at |-> mem.at]
      [] f = "scores" -> ScoresContent(stage, mem)

WriteReport ==
    /\ script.name \in Stages /\ script.todo # <<>>
    /\ reports' = [reports EXCEPT ![script.name][Head(script.todo)] =
                       ReportContent(Head(script.todo), script.name, script.mem)]
    /\ Advance
    /\ UNCHANGED <<collectionVars, config, dataset, final, lock, artifact, tmp, stages,
                   tested, forcedStop>>

-----------------------------------------------------------------------------
(* The stage select-and-test                                               *)

\* Mutant of ScoresReproduce: the scores of XGBoost alone are compared.
ScoresReproduceOfOne ==
    LET scores == reports["hybrid"]["scores"] IN
    /\ reports["direct"]["scores"] # None /\ scores # None
    /\ \A f \in ModelFiles, s \in Stages : reports[s][f] # None
    /\ reports["direct"]["xgb_u"] = scores.direct["xgb_u"]
    /\ reports["hybrid"]["xgb_u"] = scores.own
    /\ scores.own.validation = Part(dataset["csv"].data, "validation")
    /\ scores.own.features = dataset["schema"].features

\* S of each model is computed again with the models, the validation rows and
\* the features on disk. It must be the one in the scores of the hybrid stage,
\* which hide those of the direct stage.
ScoresReproduce ==
    LET scores == reports["hybrid"]["scores"] IN
    /\ reports["direct"]["scores"] # None /\ scores # None
    /\ \A f \in ModelFiles, s \in Stages : reports[s][f] # None
    /\ \A f \in ScoredFiles : /\ reports["direct"][f] = scores.direct[f]
                             /\ reports["hybrid"][f] = scores.own
    /\ scores.own.validation = Part(dataset["csv"].data, "validation")
    /\ scores.own.features = dataset["schema"].features

\* What is frozen: the sums of every file the choice rests on.
FrozenFiles ==
    [csv |-> dataset["csv"], schema |-> dataset["schema"], config |-> config,
     reports |-> [s \in Stages |->
                     [f \in ModelFiles \cup {"hyper"} |-> reports[s][f]]]]

\* Mutant of CheckCanOpen: an open lock admits any selection.
CheckCanOpenAgain(selection) == lock.status \in {"none", "opened"}

\* Mutant of CheckCanOpen: a completed test may be evaluated again.
CheckCanOpenCompleted(selection) ==
    \/ lock.status = "none"
    \/ lock.status \in {"opened", "completed"} /\ lock.selection = selection

\* No lock: the first opening. A lock that is completed or torn refuses, one
\* that is open admits the same selection only.
CheckCanOpen(selection) ==
    \/ lock.status = "none"
    \/ lock.status = "opened" /\ lock.selection = selection

\* Everything is checked before the selection is written.
SelectAndTest ==
    /\ script = Idle /\ HasRows
    /\ \A s \in Stages : SameFeatures(s)
    /\ ScoresReproduce
    /\ CheckCanOpen(FrozenFiles)
    /\ Start("select", <<"selection">>, [selection |-> FrozenFiles])
    /\ UNCHANGED <<collectionVars, config, dataset, reports, final, lock, artifact, tmp,
                   stages, tested, forcedStop>>

WriteSelection ==
    /\ Writes("select")
    /\ final' = [final EXCEPT !["selection"] = script.mem.selection]
    /\ Start("open", <<"lock">>, script.mem)
    /\ UNCHANGED <<collectionVars, config, dataset, reports, lock, artifact, tmp, stages,
                   tested, forcedStop>>

\* open_test checks again and writes the lock; only then are test rows read.
OpenTest ==
    /\ Writes("open") /\ CheckCanOpen(script.mem.selection)
    /\ lock' = [status |-> "opened", selection |-> script.mem.selection]
    /\ tested' = tested \cup {script.mem.selection}
    /\ Start("outputs", OutputOrder, script.mem)
    /\ UNCHANGED <<collectionVars, config, dataset, reports, final, artifact, tmp, stages,
                   forcedStop>>

WriteOutput ==
    /\ Writes("outputs")
    /\ final' = [final EXCEPT ![Head(script.todo)] = script.mem.selection]
    /\ Advance
    /\ UNCHANGED <<collectionVars, config, dataset, reports, lock, artifact, tmp, stages,
                   tested, forcedStop>>

CompleteTest ==
    /\ script.name = "outputs" /\ script.todo = <<>>
    /\ lock.status = "opened"
    /\ lock' = [lock EXCEPT !.status = "completed"]
    /\ script' = Idle
    /\ UNCHANGED <<collectionVars, config, dataset, reports, final, artifact, tmp, stages,
                   tested, forcedStop>>

\* The lock is written in place: a stop in the middle leaves a file that no
\* later call can read.
TornLock ==
    /\ script.name = "open" \/ (script.name = "outputs" /\ script.todo = <<>>)
    /\ lock' = [status |-> "torn"]
    /\ script' = Idle
    /\ UNCHANGED <<collectionVars, config, dataset, reports, final, artifact, tmp, stages,
                   tested, forcedStop>>

-----------------------------------------------------------------------------
(* export_outcome_artifact                                                 *)

\* Mutant of LoadFrozen: the files named by the selection are not compared.
LoadFrozenUnchecked ==
    /\ final["selection"] # None /\ lock.status = "completed"
    /\ final["selection"] = lock.selection

\* load_frozen: the test is completed, the selection is the one of the lock,
\* and none of the files it names has changed.
LoadFrozen ==
    /\ final["selection"] # None /\ lock.status = "completed"
    /\ final["selection"] = lock.selection
    /\ final["selection"] = FrozenFiles

\* An artifact is never replaced. The margins are computed on validation.
Export ==
    /\ script = Idle /\ artifact = None /\ LoadFrozen
    /\ Start("margin", <<"margin">>, [selection |-> final["selection"]])
    /\ UNCHANGED <<collectionVars, config, dataset, reports, final, lock, artifact, tmp,
                   stages, tested, forcedStop>>

\* Only a hybrid is deployed: otherwise the script ends with the margins. The
\* .tmp of an earlier export is removed.
WriteMargin ==
    /\ Writes("margin")
    /\ final' = [final EXCEPT !["margin"] = script.mem.selection]
    /\ IF HybridWins(script.mem.selection)
       THEN /\ tmp' = NoFiles(ArtifactOrder)
            /\ Start("artifact", ArtifactOrder, script.mem)
       ELSE /\ script' = Idle
            /\ UNCHANGED tmp
    /\ UNCHANGED <<collectionVars, config, dataset, reports, lock, artifact, stages, tested,
                   forcedStop>>

\* Models are copied, metrics taken from the reports of the final directory,
\* data lineage from the dataset manifest, which must be there.
WriteArtifact ==
    /\ Writes("artifact")
    /\ Head(script.todo) = "manifest" => dataset["manifest"] # None
    /\ tmp' = [tmp EXCEPT ![Head(script.todo)] =
            CASE Head(script.todo) = "models" -> reports["hybrid"]
              [] Head(script.todo) = "metrics" ->
                    [test |-> final["test_metrics"], margin |-> final["margin"]]
              [] Head(script.todo) = "manifest" ->
                    [data |-> dataset["manifest"].data, capacity |-> dataset["manifest"].capacity,
                     selection |-> script.mem.selection]]
    /\ Advance
    /\ UNCHANGED <<collectionVars, config, dataset, reports, final, lock, artifact, stages,
                   tested, forcedStop>>

\* The copies predict what the saved models predict; then one rename.
MoveIntoPlace ==
    /\ script.name = "artifact" /\ script.todo = <<>>
    /\ tmp["models"] = reports["hybrid"]
    /\ artifact' = tmp /\ tmp' = None
    /\ script' = Idle
    /\ UNCHANGED <<collectionVars, config, dataset, reports, final, lock, stages, tested,
                   forcedStop>>

-----------------------------------------------------------------------------
Done ==
    /\ script.name \in {"dataset"} \cup Stages /\ script.todo = <<>>
    /\ script' = Idle
    /\ UNCHANGED <<collectionVars, config, dataset, reports, final, lock, artifact, tmp,
                   stages, tested, forcedStop>>

\* A script stops: an error, an interrupt, a kill. Its files stay.
Stop ==
    /\ script # Idle
    /\ forcedStop' = (forcedStop \/ (Writes("dataset") /\ script.mem.forced))
    /\ script' = Idle
    /\ UNCHANGED <<collectionVars, config, dataset, reports, final, lock, artifact, tmp,
                   stages, tested>>

Next ==
    \/ Collection \/ EditConfig
    \/ \E force \in BOOLEAN : BuildDataset(force)
    \/ WriteDataset
    \/ \E stage \in Stages : Stage(stage)
    \/ WriteReport
    \/ SelectAndTest \/ WriteSelection \/ OpenTest \/ WriteOutput \/ CompleteTest
    \/ TornLock
    \/ Export \/ WriteMargin \/ WriteArtifact \/ MoveIntoPlace
    \/ Done \/ Stop

Spec == Init /\ [][Next]_vars

-----------------------------------------------------------------------------
(* Properties.                                                             *)

(* Type correctness of the parts that are not file contents.               *)
OutcomeTrainingTypeOK ==
    /\ matrix \in DOMAIN SplitOf /\ capacity \in 1..MaxCapacity
    /\ \A a \in Attempts : takes[a] \in 0..MaxTakes /\ (root[a] # None => takes[a] > 0)
    /\ gate \in {"none", "passed", "failed"}
    /\ config \in 1..MaxConfigs /\ stages \in 0..MaxStages
    /\ lock.status \in {"none", "opened", "completed", "torn"}
    /\ \A s \in Stages : reports[s]["hyper"] # None => reports[s]["hyper"].at <= stages
    /\ forcedStop \in BOOLEAN

(* dataset.py: a snapshot whose capacity "differs from the capacity file"   *)
(* refuses the build. Whatever was edited or collected again before, the    *)
(* rows of a dataset were measured with one capacity, and no repeat has     *)
(* rows on two sides of a split.                                            *)
RowsKeepTheirMeasure ==
    dataset["csv"] # None =>
        \A r, q \in dataset["csv"].data :
            /\ r.raw = q.raw
            /\ r.attempt.repeat = q.attempt.repeat => r.split = q.split

(* selection.py: "it may be run again only with the SAME frozen selection:  *)
(* nothing chosen can change". Over all stops, retrainings, rebuilds and    *)
(* repeated calls the test rows are predicted with one selection, the lock  *)
(* names it, and a completed lock has all its outputs.                      *)
TestSeesOneSelection ==
    /\ Cardinality(tested) <= 1
    /\ lock.status \in {"opened", "completed"} => tested = {lock.selection}
    /\ lock.status = "completed" =>
           \A f \in {"selection", "validation_metrics", "test_metrics"} :
               final[f] = lock.selection

(* select-and-test refuses when the validation S of a model is not the one  *)
(* its stage wrote ("models or dataset changed"). So, wherever stages and   *)
(* rebuilds stopped and in whatever order they ran, the residual models of  *)
(* the utilization that are tested come from one hybrid stage, which had    *)
(* the validation rows and the features of the selection.                   *)
(*                                                                          *)
(* The code promises no more, and the models show it: the direct models may *)
(* be of two stages when the hybrid stage ran after the second had stopped, *)
(* those of the response may be of any stage, and train and test rows may   *)
(* be others than at the time of the stages.                                *)
ScoredModelsAreWhole ==
    \A sel \in tested :
        LET residual == sel.reports["hybrid"] IN
        /\ residual["rf_u"] = residual["xgb_u"]
        /\ residual["rf_u"].validation = Part(sel.csv.data, "validation")
        /\ residual["rf_u"].features = sel.schema.features

(* "an artifact is frozen once written": what is at the place of the        *)
(* artifact is complete and its residual models, test metrics and margin    *)
(* are those of the one selection that was tested; unless a forced rebuild  *)
(* of the dataset stopped half way, its manifest names the rows of the test *)
(* and of the margin, the rows with which its models of the utilization     *)
(* were chosen, and the capacity with which all of these were measured. The *)
(* rows its models were fitted on it need not name: see above.              *)
ArtifactIsTheTestedOne ==
    artifact # None =>
        \E sel \in tested :
            /\ \A f \in ModelFiles \cup {"hyper"} :
                   artifact["models"][f] = sel.reports["hybrid"][f]
            /\ artifact["metrics"] = [test |-> sel, margin |-> sel]
            /\ artifact["manifest"].selection = sel
            /\ ~forcedStop =>
                /\ artifact["manifest"].data = sel.csv.data
                /\ \A f \in ScoredFiles :
                       artifact["models"][f].validation
                           = Part(artifact["manifest"].data, "validation")
                /\ \A row \in sel.csv.data : row.raw = artifact["manifest"].capacity

(* No step changes an artifact that is in place, nor the record of a test   *)
(* that was completed.                                                      *)
FrozenStaysFrozen ==
    [][/\ artifact # None => artifact' = artifact
       /\ lock.status = "completed" => lock' = lock]_vars
=============================================================================
