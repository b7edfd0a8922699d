------------------------- MODULE ForecastCollection -------------------------
(***************************************************************************)
(* The collection of the forecast dataset: collect_forecast_data.sh checks *)
(* a frozen environment, starts the planned runs one by one, validates     *)
(* each of them and, in --all mode, the whole dataset at the end.  A run   *)
(* is a process of its own (runtime_2c20s.py, run_forecast_*.py,           *)
(* ForecastDataRunner) that samples the twin state of the orchestrator.    *)
(*                                                                         *)
(* It follows the capacity benchmark on the same test bed: the operator    *)
(* runs one script at a time, and the capacity artifact of the benchmark   *)
(* is read three times, by the fingerprint of the environment, by the      *)
(* run's metadata and by the orchestrator when it starts.                  *)
(***************************************************************************)
EXTENDS CapacityBenchmark, Sequences

CONSTANTS Plan,          \* the planned runs, in order
          HotRuns,       \* those of the hot-switch workload
          Samples,       \* samples of a full run
          MinSamples,    \* 95 % of them
          Commits,       \* versions of the repository
          MaxLaunches,   \* bound: run processes started
          MaxEdits       \* bound: changes of the working tree

PlanRuns == {Plan[i] : i \in 1..Len(Plan)}

ASSUME PlanAssumption == Plan \in Seq(PlanRuns)

VARIABLES tree,      \* the working tree: its commit, and whether it is clean
          edits,     \* changes of it so far
          freeze,    \* forecast_dataset_environment.json
          orch,      \* the capacity the orchestrator loaded when it started
          script,    \* collect_forecast_data.sh
          step,      \* where the run process stands
          runs,      \* the directories of the planned runs
          launches,  \* run processes started so far
          official,  \* the verdict of --official on the directories as they are
          skipped,   \* history: some invocation had --skip-existing
          moved      \* history: the tree changed while the script was running

colVars == <<tree, edits, freeze, orch, script, step, runs, launches, official,
             skipped, moved>>
vars == <<capVars, colVars>>

----------------------------------------------------------------------------
NoFreeze == [commit |-> 0, capacity |-> NoArtifact]
NoRun    == [made |-> FALSE, ended |-> FALSE, count |-> 0, flaws |-> {},
             capacities |-> {}, recorded |-> NoArtifact, code |-> 0, load |-> FALSE]
NoScript == [at |-> "off", skip |-> FALSE, only |-> 0, next |-> 1, commit |-> 0]

Dirty == 0   \* the code of a tree with uncommitted changes

CodeOf(t) == IF t.clean THEN t.commit ELSE Dirty

Init ==
    /\ CapacityInit
    /\ tree = [commit |-> 1, clean |-> TRUE] /\ edits = 0
    /\ freeze = NoFreeze /\ orch = NoArtifact
    /\ script = NoScript /\ step = "off"
    /\ runs = [r \in PlanRuns |-> NoRun]
    /\ launches = 0 /\ official = "none" /\ skipped = FALSE /\ moved = FALSE

Planned == Plan[script.next]

\* The script ends, by its end or by exit 1.
ScriptEnds == script' = NoScript

----------------------------------------------------------------------------
(* collect_forecast_data.sh                                                *)

\* The options, the static artifacts, and GIT_COMMIT and GIT_TAG: read once.
\* "only" is the one run of --single, or 0 in --all mode.
StartScript(only, skip) ==
    /\ script.at = "off" /\ stage = "idle"
    /\ artifact # NoArtifact
    /\ script' = [at |-> "freeze", skip |-> skip, only |-> only, next |-> 1,
                  commit |-> tree.commit]
    /\ skipped' = (skipped \/ skip)
    /\ UNCHANGED <<capVars, tree, edits, freeze, orch, step, runs, launches, official,
                   moved>>

\* environment_fingerprint: GIT_COMMIT is the script's, the hashes are new.
Fingerprint == [commit |-> script.commit, capacity |-> artifact]

\* Mutant of Frozen: the working tree may be dirty.
FrozenOrDirty == freeze \in {NoFreeze, Fingerprint}

\* check_git_freeze and the stored fingerprint.
Frozen == tree.clean /\ freeze \in {NoFreeze, Fingerprint}

\* freeze_environment, before the plan and again before every run.
FreezeEnvironment ==
    /\ script.at \in {"freeze", "refreeze"}
    /\ IF Frozen
       THEN /\ freeze' = Fingerprint
            /\ script' = [script EXCEPT !.at = IF script.at = "freeze" THEN "loop" ELSE "launch"]
       ELSE ScriptEnds /\ UNCHANGED freeze
    /\ UNCHANGED <<capVars, tree, edits, orch, step, runs, launches, official, skipped,
                   moved>>

\* run_one: the next row of the plan, and the directory that exists already.
RunOne ==
    /\ script.at = "loop" /\ script.next <= Len(Plan)
    /\ CASE script.only \notin {0, script.next} ->
                script' = [script EXCEPT !.next = @ + 1]
         [] script.only \in {0, script.next} /\ ~runs[Planned].made ->
                script' = [script EXCEPT !.at = "refreeze"]
         [] script.only \in {0, script.next} /\ runs[Planned].made ->
                IF script.skip THEN script' = [script EXCEPT !.next = @ + 1]
                               ELSE ScriptEnds
    /\ UNCHANGED <<capVars, tree, edits, freeze, orch, step, runs, launches, official,
                   skipped, moved>>

\* runtime_2c20s.py starts with the code that is in the tree now.
Launch ==
    /\ script.at = "launch" /\ launches < MaxLaunches
    /\ script' = [script EXCEPT !.at = "running"]
    /\ step' = "roles" /\ launches' = launches + 1
    /\ UNCHANGED <<capVars, tree, edits, freeze, orch, runs, official, skipped, moved>>

\* set -e: a command that fails ends the script.
CommandDone ==
    /\ script.at = "running" /\ step \in {"done", "failed"}
    /\ IF step = "done" THEN script' = [script EXCEPT !.at = "validate"] ELSE ScriptEnds
    /\ step' = "off"
    /\ UNCHANGED <<capVars, tree, edits, freeze, orch, runs, launches, official, skipped,
                   moved>>

\* metadata.json: what the run is, and what it writes when it ends.
Described(run) == run.recorded # NoArtifact
Finished(run) == run.ended

Covered(run) == run.count >= MinSamples

\* What can be wrong with a sample: the twin state was not valid, the wall clock
\* was set back, the sample before it was too long ago, or a switch had changed
\* hands. (A twin state that was sampled before is not noticed.)
Flaws == {"invalid", "clock", "late", "moved"}

SnapshotsValid(run) == "invalid" \notin run.flaws
Increasing(run)     == "clock" \notin run.flaws
Continuous(run)     == "late" \notin run.flaws
FixedOwnership(run) == "moved" \notin run.flaws

\* Mutant of OneCapacity: the samples are not compared with the metadata.
OneCapacityUnrecorded(run) == Cardinality(run.capacities) = 1

\* All samples were normalised with one capacity, and the metadata records it.
OneCapacity(run) ==
    Cardinality(run.capacities) = 1 /\ run.recorded \in run.capacities

Valid(run) ==
    /\ Described(run) /\ Finished(run) /\ Covered(run) /\ OneCapacity(run)
    /\ SnapshotsValid(run) /\ Increasing(run) /\ Continuous(run) /\ FixedOwnership(run)

\* A bad official run stops the collection; its directory stays.
ValidateRun ==
    /\ script.at = "validate"
    /\ IF Valid(runs[Planned])
       THEN script' = [script EXCEPT !.at = "loop", !.next = @ + 1]
       ELSE ScriptEnds
    /\ UNCHANGED <<capVars, tree, edits, freeze, orch, step, runs, launches, official,
                   skipped, moved>>

\* validate_official_collection over the whole plan, in --all mode.
ValidateOfficial ==
    /\ script.at = "loop" /\ script.next > Len(Plan)
    /\ ScriptEnds
    /\ official' = IF script.only # 0 THEN official
                   ELSE IF \A r \in PlanRuns : runs[r].made /\ Valid(runs[r])
                        THEN "valid" ELSE "invalid"
    /\ UNCHANGED <<capVars, tree, edits, freeze, orch, step, runs, launches, skipped,
                   moved>>

----------------------------------------------------------------------------
(* One run: run_forecast_<workload>_2c20s.py and ForecastDataRunner        *)

ThisRun(run) == runs' = [runs EXCEPT ![Planned] = run]

\* Of a run that did not reach its end only the directory counts, if it was made.
AbandonRun == ThisRun([NoRun EXCEPT !.made = runs[Planned].made])

\* Every switch is connected to both controllers and init-roles answered.
InitializeRuntime ==
    /\ step = "roles"
    /\ step' \in {"prepare", "failed"}
    /\ UNCHANGED <<capVars, tree, edits, freeze, orch, script, runs, launches, official,
                   skipped, moved>>

\* A step of the script that may raise before there is a directory.
Before(at, next) ==
    /\ step = at
    /\ step' \in {next, "failed"}
    /\ UNCHANGED <<capVars, tree, edits, freeze, orch, script, runs, launches, official,
                   skipped, moved>>

\* Rates that load every controller as planned: of the capacity artifact.
ComputeRates == Before("prepare", "twin")

\* GET /api/v1/twin/state until there is one: the orchestrator must be up.
WaitForTwin ==
    /\ Before("twin", IF Planned \in HotRuns THEN "ping" ELSE "mkdir")
    /\ orch = NoArtifact => step' = "failed"

\* Hot-switch traffic has sinks of its own: each must answer its source.
CheckConnectivity == Before("ping", "mkdir")

\* mkdir refuses to reuse a directory.
MakeRunDir ==
    /\ step = "mkdir"
    /\ IF runs[Planned].made
       THEN step' = "failed" /\ UNCHANGED runs
       ELSE /\ ThisRun([NoRun EXCEPT !.made = TRUE, !.code = CodeOf(tree)])
            /\ step' = "sinks"
    /\ official' = "none"
    /\ UNCHANGED <<capVars, tree, edits, freeze, orch, script, launches, skipped, moved>>

\* Processes are started and looked at once, half a second later.
StartProcesses(at, next) ==
    /\ step = at
    /\ \/ step' = next /\ UNCHANGED runs
       \/ step' = "failed" /\ AbandonRun
    /\ UNCHANGED <<capVars, tree, edits, freeze, orch, script, launches, official, skipped,
                   moved>>

StartSinks      == StartProcesses("sinks", "generators")
StartGenerators == StartProcesses("generators", "metadata")

\* metadata.json, with the capacity artifact as it is now.
BeginSampling ==
    /\ step = "metadata"
    /\ ThisRun([runs[Planned] EXCEPT !.recorded = artifact]) /\ step' = "sample"
    /\ UNCHANGED <<capVars, tree, edits, freeze, orch, script, launches, official, skipped,
                   moved>>

\* GET /api/v1/twin/state, one row per controller; an error ends the run.
Sample(flaws) ==
    /\ step = "sample" /\ runs[Planned].count < Samples
    /\ ThisRun([runs[Planned] EXCEPT !.count = @ + 1, !.flaws = @ \union flaws,
                                     !.capacities = @ \union {orch}])
    /\ UNCHANGED <<capVars, tree, edits, freeze, orch, script, step, launches, official,
                   skipped, moved>>

SampleFails ==
    /\ step = "sample"
    /\ step' = "failed" /\ AbandonRun
    /\ UNCHANGED <<capVars, tree, edits, freeze, orch, script, launches, official, skipped,
                   moved>>

\* Whether the mean utilization of the samples is near the target. The other
\* workloads do not look.
AchievedLoad(r) == IF r \in HotRuns THEN BOOLEAN ELSE {TRUE}

\* The duration is over, with all samples or, after a stall, fewer of them:
\* validation.json and summary.json, then ended_at.
EndSampling ==
    /\ step = "sample" /\ runs[Planned].count > 0
    /\ step' = "load"
    /\ \E load \in AchievedLoad(Planned) :
           ThisRun([runs[Planned] EXCEPT !.ended = TRUE, !.load = load])
    /\ UNCHANGED <<capVars, tree, edits, freeze, orch, script, launches, official, skipped,
                   moved>>

LoadProblem(r) == r \in HotRuns /\ ~runs[r].load

\* Mutant of CheckLoad: the reached load is written down, not checked.
CheckLoadLogged ==
    /\ step = "load"
    /\ step' = "done"
    /\ UNCHANGED <<capVars, tree, edits, freeze, orch, script, runs, launches, official,
                   skipped, moved>>

\* Only the hot-switch script looks at the load it reached, and raises; what
\* it reached was written down before.
CheckLoad ==
    /\ step = "load"
    /\ step' = IF LoadProblem(Planned) THEN "failed" ELSE "done"
    /\ UNCHANGED <<capVars, tree, edits, freeze, orch, script, runs, launches, official,
                   skipped, moved>>

----------------------------------------------------------------------------
(* The operator and the machine                                            *)

\* Ctrl-C, or the machine goes down: the script and its run end where they are.
Interrupt ==
    /\ script.at # "off"
    /\ ScriptEnds /\ step' = "off"
    /\ IF step \in {"sinks", "generators", "metadata", "sample"} THEN AbandonRun ELSE UNCHANGED runs
    /\ UNCHANGED <<capVars, tree, edits, freeze, orch, launches, official, skipped, moved>>

\* git checkout of a tagged commit, or an edit of a tracked file.
ChangeTree ==
    /\ stage = "idle" /\ edits < MaxEdits
    /\ tree' \in [commit : Commits, clean : {TRUE}] \union {[tree EXCEPT !.clean = FALSE]}
    /\ tree' # tree
    /\ edits' = edits + 1
    /\ moved' = (moved \/ script.at # "off")
    /\ UNCHANGED <<capVars, freeze, orch, script, step, runs, launches, official, skipped>>

\* The orchestrator starts, or starts again: CapacityModel.from_file.
RestartOrchestrator ==
    /\ stage = "idle" /\ artifact # NoArtifact /\ orch # artifact
    /\ orch' = artifact
    /\ UNCHANGED <<capVars, tree, edits, freeze, script, step, runs, launches, official,
                   skipped, moved>>

\* The directory of a planned run is removed, to collect it again.
RemoveRun(r) ==
    /\ stage = "idle" /\ script.at = "off" /\ runs[r].made /\ launches < MaxLaunches
    /\ runs' = [runs EXCEPT ![r] = NoRun]
    /\ official' = "none"
    /\ UNCHANGED <<capVars, tree, edits, freeze, orch, script, step, launches, skipped,
                   moved>>

Benchmark ==
    /\ \/ Experiment
       \/ script.at = "off" /\ \E r \in Runs : StartExperiment(r) \/ MoveAway(r)
       \/ script.at = "off" /\ (ExportRuns \/ Derive)
    /\ UNCHANGED colVars

Collect ==
    \/ \E skip \in BOOLEAN, only \in 0..Len(Plan) : StartScript(only, skip)
    \/ FreezeEnvironment \/ RunOne \/ Launch \/ CommandDone \/ ValidateRun
    \/ ValidateOfficial
    \/ InitializeRuntime \/ ComputeRates \/ WaitForTwin \/ CheckConnectivity
    \/ MakeRunDir \/ StartSinks \/ StartGenerators \/ BeginSampling
    \/ \E flaws \in {{}} \union {{f} : f \in Flaws} : Sample(flaws)
    \/ SampleFails \/ EndSampling \/ CheckLoad
    \/ Interrupt \/ ChangeTree \/ RestartOrchestrator \/ \E r \in PlanRuns : RemoveRun(r)

Next == Benchmark \/ Collect

Spec == Init /\ [][Next]_vars

----------------------------------------------------------------------------
(* The artifact of the benchmark rests on sound measurements only: behind  *)
(* every repeat stands an experiment whose generator ran to its end, whose *)
(* collector had no error and saw no invalid snapshot, and whose path was  *)
(* the target's when it ended.  (summary.json, validation.json and the csv *)
(* are written at different moments, and an experiment can be stopped or   *)
(* repeated between any two of them.)                                      *)
CapacityFromSoundRuns ==
    artifact # NoArtifact => \A r \in Runs : artifact[r] \in whole

(* Ownership is looked at before and after a measurement, never during it. *)
(* One migration of the path (or any odd number) never goes unnoticed; one *)
(* that is undone before the end does.                                     *)
OddMovesNeverPass ==
    \A r \in Runs : dirs[r].validation = "valid" => ~dirs[r].odd

(* An official dataset has one capacity: every sample of every run was     *)
(* normalised with the artifact of the frozen fingerprint, whatever was    *)
(* derived again and whenever the orchestrator, which loads the artifact   *)
(* when it starts only, was restarted.                                     *)
OfficialHasOneCapacity ==
    official = "valid" => \A r \in PlanRuns : runs[r].capacities = {freeze.capacity}

(* An official dataset was collected by the frozen code, as long as nobody *)
(* changes the working tree under a running script.                        *)
OfficialRanFrozenCode ==
    official = "valid" /\ ~moved => \A r \in PlanRuns : runs[r].code = freeze.commit

(* The same without the exception: "A fingerprint is stored before the     *)
(* first real run; any later change aborts" (collect_forecast_data.sh:171).*)
AnyChangeAborts ==
    official = "valid" => \A r \in PlanRuns : runs[r].code = freeze.commit

(* A hot-switch run that missed its target load is in an official dataset  *)
(* only if its directory was skipped over by --skip-existing (the check of *)
(* the load is on, as it is unless NDT_HOT_SWITCH_CHECK_LOAD is 0).        *)
MissedLoadNeedsSkip ==
    official = "valid" /\ ~skipped => \A r \in PlanRuns \intersect HotRuns : runs[r].load

============================================================================
