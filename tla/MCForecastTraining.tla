------------------------ MODULE MCForecastTraining ------------------------
(* One run for each split: three repeats of a seen workload and a repeat of *)
(* the unseen one whose number is a training repeat, so that the order of   *)
(* the two tests of assign_split matters.                                   *)
EXTENDS ForecastTraining

MCRuns == {[workload |-> "stable", repeat |-> n] : n \in {1, 4, 5}}
            \cup {[workload |-> "hot_switch", repeat |-> 1]}

\* Bounds: only the run of the train split is collected a second time, and
\* the second horizon has a dataset (once the first has split data and a model
\* trained with MLflow) only when no run is collected again and before the
\* second training.
RareEdits ==
    /\ \A r \in Runs : raw[r].take > 1 => r.workload = "stable" /\ r.repeat = 1
    /\ horizon = 5 \/ data[5]["dataset"] # Absent =>
           /\ \A r \in Runs : raw[r].take = 1
           /\ data[3]["splits"] # Absent /\ model["pointer"] # Absent
           /\ sessions = 1
=============================================================================
