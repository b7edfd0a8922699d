------------------------- MODULE CapacityBenchmark -------------------------
(***************************************************************************)
(* The capacity benchmark: run_capacity_experiment drives one measured run *)
(* on the test bed while a collector thread polls the controllers and the  *)
(* orchestrator into the run's files; the sweep scripts repeat it, and     *)
(* export_capacity_runs.py and derive_controller_capacity.py turn the run  *)
(* directories into data/benchmarks/controller_capacity.json.              *)
(*                                                                         *)
(* A run directory is named after its run, so it holds one experiment at a *)
(* time; "attempt" numbers the experiments ever started.  One controller   *)
(* and its path are modelled: "owned" says that the benchmarked controller *)
(* owns every switch of the path.  Rates and latencies are left out: a     *)
(* measured interval is a slot that the collector fills or loses.  The     *)
(* streams of a run are read once, by aggregate_run, so that they are      *)
(* variables of the experiment and not of its directory.                   *)
(***************************************************************************)
EXTENDS Naturals, FiniteSets

CONSTANTS Runs,         \* the fine runs that the capacity is derived from
          Slots,        \* telemetry intervals of the measurement window
          MinRows,      \* 80 % of them, rounded up: the coverage asked for
          MaxAttempts,  \* bound: experiments started
          MaxMoves      \* bound: ownership changes in one experiment

NoAttempt == 0

VARIABLES stage,      \* where run_capacity_experiment stands
          current,    \* the run it measures
          owned,      \* the orchestrator's map gives the path to the target
          moves,      \* ownership changes since the preflight check
          workload,   \* the generator process
          poll,       \* the collector thread: "off", "idle" or "busy"
          straggler,  \* a poll that outlived stop() is still under way
          slots,      \* intervals of the measurement window gone by
          rows,       \* what the collector appended to the run's streams
          summary,    \* summary.json
          whole,      \* history: attempts whose measurement was sound
          attempts,   \* experiments started so far
          dirs,       \* the run directories
          csv,        \* data/benchmarks/capacity_runs.csv
          artifact    \* data/benchmarks/controller_capacity.json

expVars == <<stage, current, owned, moves, workload, poll, straggler, slots, rows,
             summary>>
capFiles == <<whole, attempts, dirs, csv, artifact>>
capVars  == <<expVars, capFiles>>

----------------------------------------------------------------------------
(* The streams: the controller rows inside the measurement window, whether *)
(* a snapshot of it was invalid, whether collector_errors.jsonl exists.    *)
NoRows == [controller |-> 0, invalid |-> FALSE, error |-> FALSE]

NoDir      == [attempt |-> NoAttempt, validation |-> "none", odd |-> FALSE]
NoCsv      == [r \in Runs |-> [attempt |-> NoAttempt, valid |-> FALSE]]
NoArtifact == [r \in Runs |-> NoAttempt]

NoExperiment ==
    /\ stage = "idle" /\ current = NoAttempt /\ owned = TRUE /\ moves = 0
    /\ workload = "off" /\ poll = "off" /\ straggler = FALSE /\ slots = 0
    /\ rows = NoRows /\ summary = NoRows

EndExperiment ==
    /\ stage' = "idle" /\ current' = NoAttempt /\ owned' = TRUE /\ moves' = 0
    /\ workload' = "off" /\ poll' = "off" /\ straggler' = FALSE /\ slots' = 0
    /\ rows' = NoRows /\ summary' = NoRows

CapacityInit ==
    /\ NoExperiment
    /\ whole = {} /\ attempts = 0
    /\ dirs = [r \in Runs |-> NoDir]
    /\ csv = NoCsv /\ artifact = NoArtifact

----------------------------------------------------------------------------
(* run_capacity_experiment                                                 *)

Goto(s) == stage' = s

\* create_run_dir refuses a directory that exists.
CanCreate(r) == dirs[r].attempt = NoAttempt

\* A new process posts init-roles first, the next run of a matrix does not:
\* it finds the owners that the run before it left.
StartExperiment(r) ==
    /\ stage = "idle" /\ attempts < MaxAttempts
    /\ CanCreate(r)
    /\ attempts' = attempts + 1
    /\ dirs' = [dirs EXCEPT ![r] = [NoDir EXCEPT !.attempt = attempts + 1]]
    /\ current' = r /\ owned' \in BOOLEAN
    /\ Goto("preflight")
    /\ UNCHANGED <<moves, workload, poll, straggler, slots, rows, summary, whole,
                   csv, artifact>>

\* validate_runtime_state, then metadata.json.
Preflight ==
    /\ stage = "preflight"
    /\ Goto(IF owned THEN "prepare" ELSE "failed")
    /\ moves' = 0
    /\ UNCHANGED <<current, owned, workload, poll, straggler, slots, rows, summary,
                   capFiles>>

\* A valid snapshot, pings, flows cleared and gone, sinks up: or an exception.
Prepare ==
    /\ stage = "prepare"
    /\ \/ Goto("warmup") /\ poll' = "idle" /\ workload' = "running"
       \/ Goto("failed") /\ UNCHANGED <<poll, workload>>
    /\ UNCHANGED <<current, owned, moves, straggler, slots, rows, summary, capFiles>>

\* The generator runs for warmup plus measurement; it may die before.
WorkloadEnds ==
    /\ workload = "running"
    /\ \/ stage \in {"warmup", "measure"} /\ workload' = "failed"
       \/ stage = "finish" /\ workload' = "done"
    /\ UNCHANGED <<stage, current, owned, moves, poll, straggler, slots, rows, summary,
                   capFiles>>

BeginMeasurement ==
    /\ stage = "warmup"
    /\ Goto(IF workload = "running" THEN "measure" ELSE "failed")
    /\ UNCHANGED <<current, owned, moves, workload, poll, straggler, slots, rows,
                   summary, capFiles>>

EndMeasurement ==
    /\ stage = "measure" /\ slots = Slots
    /\ Goto("finish")
    /\ UNCHANGED <<current, owned, moves, workload, poll, straggler, slots, rows,
                   summary, capFiles>>

\* workload_process.wait(10 s) and the return code; a generator that still
\* runs raises TimeoutExpired.
WaitWorkload ==
    /\ stage = "finish"
    /\ Goto(IF workload = "done" THEN "cooldown" ELSE "failed")
    /\ UNCHANGED <<current, owned, moves, workload, poll, straggler, slots, rows,
                   summary, capFiles>>

\* collector.stop(): join() returns after five seconds, ended thread or not.
Stop == straggler' = (straggler \/ poll = "busy") /\ poll' = "off"

\* The cooldown, post_run_flows.json, ended_at, then the collector.
StopCollector ==
    /\ stage = "cooldown"
    /\ Goto("recheck")
    /\ Stop
    /\ UNCHANGED <<current, owned, moves, workload, slots, rows, summary, capFiles>>

\* Mutant of Recheck: the owners are not looked at again.
RecheckNothing ==
    /\ stage = "recheck"
    /\ Goto("aggregate")
    /\ whole' = whole \union {a \in {dirs[current].attempt} :
                     owned /\ workload = "done" /\ ~rows.error /\ ~rows.invalid}
    /\ UNCHANGED <<current, owned, moves, workload, poll, straggler, slots, rows, summary,
                   attempts, dirs, csv, artifact>>

\* validate_runtime_state again: the owner must be the target still.
Recheck ==
    /\ stage = "recheck"
    /\ Goto(IF owned THEN "aggregate" ELSE "failed")
    /\ whole' = whole \union {a \in {dirs[current].attempt} :
                     owned /\ workload = "done" /\ ~rows.error /\ ~rows.invalid}
    /\ UNCHANGED <<current, owned, moves, workload, poll, straggler, slots, rows, summary, attempts, dirs, csv, artifact>>

\* aggregate_run over the streams as they are now; then summary.json.
Aggregate ==
    /\ stage = "aggregate"
    /\ summary' = rows
    /\ Goto("validate")
    /\ UNCHANGED <<current, owned, moves, workload, poll, straggler, slots, rows,
                   capFiles>>

\* validate_summary: the rows of the window, their snapshots, the errors.
Accepts(s) == s.controller >= MinRows /\ ~s.invalid /\ ~s.error

\* validation.json; an invalid run raises.
Validate ==
    /\ stage = "validate"
    /\ LET verdict == IF Accepts(summary) THEN "valid" ELSE "invalid"
       IN  dirs' = [dirs EXCEPT ![current].validation = verdict,
                                     ![current].odd = moves % 2 = 1]
    /\ Goto(IF Accepts(summary) THEN "cleanup" ELSE "failed")
    /\ UNCHANGED <<current, owned, moves, workload, poll, straggler, slots, rows,
                   summary, whole, attempts, csv, artifact>>

\* failure.json and the finally block: collector, processes, flows.  A poll
\* that is still under way writes to streams that nobody reads again.
Finish ==
    /\ stage \in {"failed", "cleanup"}
    /\ EndExperiment
    /\ UNCHANGED capFiles

\* The process is killed, with its threads: no handler runs.
Killed ==
    /\ stage # "idle"
    /\ EndExperiment
    /\ UNCHANGED capFiles

----------------------------------------------------------------------------
(* The collector thread                                                    *)

\* _collect_once starts.
PollStarts ==
    /\ poll = "idle" /\ stage \in {"warmup", "measure", "finish", "cooldown"}
    /\ poll' = "busy"
    /\ UNCHANGED <<stage, current, owned, moves, workload, straggler, slots, rows,
                   summary, capFiles>>

InWindow == stage = "measure" /\ slots < Slots

SlotGone == slots' = IF InWindow THEN slots + 1 ELSE slots

\* One row per controller, and the latest snapshot, valid or not.
PollAppends(valid) ==
    /\ poll = "busy"
    /\ InWindow \/ valid
    /\ poll' = "idle" /\ SlotGone
    /\ rows' = [rows EXCEPT !.controller = IF InWindow THEN @ + 1 ELSE @,
                            !.invalid = @ \/ ~valid]
    /\ UNCHANGED <<stage, current, owned, moves, workload, straggler, summary, capFiles>>

\* A request fails: the loop appends the error and goes on.
PollFails ==
    /\ poll = "busy"
    /\ poll' = "idle" /\ SlotGone
    /\ rows' = [rows EXCEPT !.error = TRUE]
    /\ UNCHANGED <<stage, current, owned, moves, workload, straggler, summary, capFiles>>

\* A slow answer: an interval of the window goes by without a row.
PollIsSlow ==
    /\ poll = "busy" /\ InWindow
    /\ SlotGone
    /\ UNCHANGED <<stage, current, owned, moves, workload, poll, straggler, rows, summary, capFiles>>

\* The thread that stop() left behind ends its poll, with rows after the
\* window or with an error.
StragglerEnds ==
    /\ straggler
    /\ straggler' = FALSE
    /\ \E error \in BOOLEAN : rows' = [rows EXCEPT !.error = @ \/ error]
    /\ UNCHANGED <<stage, current, owned, moves, workload, poll, slots, summary,
                   capFiles>>

----------------------------------------------------------------------------
(* The scripts that use the directories, and the operator                  *)

\* A migration of a path switch, to the other controller or back.  After the
\* recheck the experiment does not look at the owners any more.
Migrate ==
    /\ stage \notin {"idle", "aggregate", "validate", "failed", "cleanup"}
    /\ moves < MaxMoves
    /\ owned' = ~owned /\ moves' = moves + 1
    /\ UNCHANGED <<stage, current, workload, poll, straggler, slots, rows, summary,
                   capFiles>>

\* "Move it to _failed before rerunning."
MoveAway(r) ==
    /\ stage = "idle" /\ attempts < MaxAttempts
    /\ dirs[r].attempt # NoAttempt
    /\ dirs' = [dirs EXCEPT ![r] = NoDir]
    /\ UNCHANGED <<expVars, whole, attempts, csv, artifact>>

\* A summary alone is not exported: validation.json must be there too.
Exported == {r \in Runs : dirs[r].validation # "none"}

ExportRuns ==
    /\ stage = "idle" /\ Exported # {}
    /\ csv' = [r \in Runs |-> IF r \in Exported
                              THEN [attempt |-> dirs[r].attempt,
                                    valid |-> dirs[r].validation = "valid"]
                              ELSE NoCsv[r]]
    /\ UNCHANGED <<expVars, whole, attempts, dirs, artifact>>

\* Mutant of LoadRows: the rows of every run that was exported.
LoadRowsOfAll == {r \in Runs : csv[r].attempt # NoAttempt}

\* load_rows: the valid fine rows.
LoadRows == {r \in Runs : csv[r].attempt # NoAttempt /\ csv[r].valid}

\* Every required group must have all its repeats.
Derive ==
    /\ stage = "idle" /\ LoadRows = Runs
    /\ artifact' = [r \in Runs |-> csv[r].attempt]
    /\ UNCHANGED <<expVars, whole, attempts, dirs, csv>>

\* What happens by itself during an experiment.
Experiment ==
    \/ Preflight \/ Prepare \/ WorkloadEnds \/ BeginMeasurement \/ EndMeasurement
    \/ WaitWorkload \/ StopCollector \/ Recheck \/ Aggregate \/ Validate
    \/ Finish \/ Killed
    \/ PollStarts \/ PollFails \/ PollIsSlow \/ \E valid \in BOOLEAN : PollAppends(valid)
    \/ StragglerEnds \/ Migrate

============================================================================
