# TLA+ project of the NDT safe load balancing testbed

Formal models of the program in `src/`: two Ryu controllers, Open vSwitch
switches, and an orchestrator that moves a switch from one controller to the
other, watches both through a digital twin, and forecasts their load; and of the
scripts around it that measure capacity, collect datasets and train models.

Paths below are relative to `src/src/` unless they start with `src/`.

## The system

| Part | State | Operations | Interacts with |
|---|---|---|---|
| Migration handler (`orchestrator/app.py` migrate, `ownership_manager.py`, `transaction_manager.py`) | owner, generation and version per switch; locked switches; transaction log; last generation id | `POST /migrations`: read the owner, lock, promote, verify, commit, or roll back | controllers over REST; the telemetry thread reads ownership |
| Role executor, rollback, verification (`execution/`) | none, but the deadline of each poll | `set_role`, `query_role`, `barrier`, `state`, `telemetry`, `flow-test` | one controller each, by POST and polling |
| Controller (`controller/`) | event queue, connected datapaths, cached role per switch, tables of pending requests, telemetry counters and their last sample | REST handlers; OpenFlow handlers for replies, connections, packets; a loop that samples the counters | switches over OpenFlow |
| Role initialisation (`app.py` init_roles) | none | walks over the initial ownership | controllers; resets the twinning window |
| Telemetry and snapshots (`telemetry/`, `current_state.py`, `app.py` telemetry_loop) | latest sample per controller and switch, snapshot, twin state | poll, build, publish | controllers; ownership; twin |
| Twin state and quality (`twin/state`, `twin/capacity`, `twin/decision`) | the twinning window | assess a snapshot, rate the twin | the telemetry thread |
| Forecasting at run time (`twin/forecasting`, `forecast_service.py`) | a history per controller, an out-of-range counter | one update per snapshot | the telemetry thread; the store |
| Outcome prediction (`twin/outcome`, `outcome_service.py`) | five snapshots | observe in the telemetry thread, predict in a request thread | the store |
| Migration attempts (`experiments/migration/runner.py`, `writer.py`, `validator.py`) | samples, an attempt directory, child processes | run one attempt, write and validate its directory | the orchestrator, from outside |
| Outcome collection (`experiments/migration/config.py`, `pilot.py`, `dataset_report.py`, `src/scripts/experiments/run_migration_outcome.py`) | the matrix, the attempt directories, split manifest | expand the matrix, run the planned attempts, pilot gate, dataset report | attempts; the capacity artifact |
| Forecast training (`src/scripts/experiments/build_forecast_*`, `train_forecast_baselines.py`, `compute_forecast_margin.py`, `export_forecast_artifact.py`) | datasets by horizon, one model directory | one script after the other | the runs of the data runner |
| Outcome training (`src/scripts/experiments/build_outcome_dataset.py`, `train_outcome_models.py`, `export_outcome_artifact.py`, `twin/outcome/selection.py`) | dataset, reports of two stages, frozen selection, test lock, artifact | one script after the other | outcome collection |
| Capacity benchmark (`experiments/capacity/`, `src/scripts/experiments/export_capacity_runs.py`, `derive_controller_capacity.py`) | run directories, table of runs, capacity artifact | measure with a collector thread, validate, export, derive | the test bed; every part that normalises a load |
| Forecast data runner (`experiments/runners/forecast_data_runner.py`, `experiments/topologies/runtime_2c20s.py`, `src/scripts/experiments/run_forecast_*.py`, `collect_forecast_data.sh`) | run directories, environment fingerprint | freeze, run the plan, validate | orchestrator, generators, capacity artifact, git |
| Workload generators (`experiments/workloads/`) | deadlines, ports, windows, outstanding probe | send flows at a rate or along a profile; probe an echo server | the network; started and waited for by the runners |
| Topologies, configuration | none | build a network, parse a file | all of the above |
| Evidence, reports and dashboard (`src/scripts/analysis/`, `src/dashboard/`) | none | read finished files or the orchestrator's answers | none reads them |

### What is hard

* The migration handler runs in a thread pool. Threads meet at the locks of the
  three managers, and at the controllers, whose requests outlive the deadline of
  the thread that sent them.
* A role request can be late, lost, answered late or refused in silence. The
  generation id is the only fence.
* A restart of the orchestrator forgets owners and locks, and leaves the requests
  of the dead threads on their way.
* A controller learns of connections and packets from one queue of events: a switch
  may have connected anew before the old connection is found dead. It trusts a
  cached role that the switch may have changed long ago.
* A failure in the middle of a migration is answered with another migration
  (the rollback), which can fail as well.
* The telemetry thread reads what the request threads write, piece by piece.
* The forecasts need histories without holes, from samples that may be doubled,
  late or missing.
* The scripts write files one after the other and may stop between any two of them;
  what an earlier run left stays. Configuration, capacity and working tree may be
  changed under a collection that takes hours.
* A held-out test may be opened once, over all stops, repetitions and retrainings.
* A generator that is held up sends late and all at once.

The full list with lines is `hazards` in `PROJECT.json`.

### What makes each part correct

* Migration: a switch that is not in a transaction has no MASTER but its
  registered owner; one transaction per switch; every request is answered; what a
  transaction lets go of is settled: roles, cached roles and recorded id agree.
* Role initialisation: INITIALIZED means the roles of the register, also after a
  restart of the orchestrator.
* Controllers: no dead connection is kept; the traffic check passes only on work
  that its baseline does not count.
* Telemetry and twin: a published snapshot is of one moment, its rate counts each
  attempt once.
* Histories: the samples of a forecast are consecutive, as in the training data.
* Attempts: a directory is complete and read-only, or does not exist; before,
  transition and after do not overlap.
* Collections: what passes the gate was measured in one way, and by sound runs.
* Training: nothing that is fitted or chosen has seen the held-out runs; an artifact
  is of one training.
* Generators: the samples account for every flow, and a generator ends.

## Modules

| Module | What it models |
|---|---|
| `RoleChannel` | controllers, OpenFlow channels and switches, as a client that POSTs and polls sees them |
| `Migration` | `migrate` over `RoleChannel`, one thread per request |
| `OwnershipRegister` | what the endpoint promises, without threads, messages or ids |
| `InitRoles`, `OrchestratorRestart` | `init_roles` next to `Migration`; a restart of the process that runs both |
| `ControllerProcess` | one controller application with its event queue, and the traffic check that reads its counters |
| `HistoryBuffer` | `TwinHistoryBuffer`, and the definition of a hole in the training data, as operators |
| `Forecaster` | the forecaster behind `ForecastService.on_twin_state`, over `HistoryBuffer` |
| `TwinPipeline` | the telemetry loop and the twinning window, next to request threads |
| `OutcomeService` | the feed of the outcome history and a what-if request, over `HistoryBuffer` |
| `AttemptRunner` | `collect_attempt`: windows of twin states around one scripted migration, with the poller thread |
| `MigrationAttempt` | `run_attempt` and `write_attempt` around it: processes, the directory, the verdict, reruns |
| `OutcomeCollection` | the matrix, the script that runs it, the pilot gate, the split manifest |
| `OutcomeTraining` | the outcome scripts over what `OutcomeCollection` left |
| `ForecastTraining` | the forecasting scripts as writers of files |
| `CapacityBenchmark` | one capacity experiment at a time, its directory, export and derivation |
| `ForecastCollection` | the collection of the forecast dataset, next to the benchmark |
| `WorkloadRates` | profiles and `CapacityWorkloadMapper`, as operators |
| `WorkloadGenerator` | the loops of the three generators, over `WorkloadRates` |
| `Fencing` | the inductive invariants of `Migration`: `FencingInvariant` and `SettledInvariant` |
| `Repair` | the inductive invariant of `OrchestratorRestart`: `RepairInvariant` |
| `MigrationProofs` | theorems about `Migration`: types and lock, fencing, the refinement, settled switches; about `OrchestratorRestart`: the repair |
| `AttemptProofs` | theorems about `MigrationAttempt` over `AttemptRunner` |
| `TrainingProofs` | theorems about `ForecastTraining` |
| `OutcomeProofs` | theorems about `OutcomeService`, and about `OutcomeTraining` over `OutcomeCollection` |
| `TelemetryProofs` | theorems about `ControllerProcess` and `TwinPipeline` |
| `WorkloadProofs` | theorems about `WorkloadGenerator` over `WorkloadRates` |
| `ForecasterProofs`, `CollectionProofs` | theorems about `Forecaster`, and about `CapacityBenchmark` with `ForecastCollection` |
| `MC...` | instances for TLC |

What is composed is what meets in the code. `Migration`, `InitRoles` and
`OrchestratorRestart` extend one another over `RoleChannel`, and `Migration` refines
`OwnershipRegister`. `OutcomeTraining` extends `OutcomeCollection`, whose directories
it reads, and `ForecastCollection` extends `CapacityBenchmark`, whose artifact it reads
three times. The telemetry side sees migrations only through the register
(`TwinPipeline`'s `Settles`), and the histories see snapshots only as times, ids,
owners and validity, so that each of the hard parts is small enough to be checked
on its own. The attempt runner is outside the orchestrator: it sees a transaction as
one request that is refused, executed, or not answered in time. `OutcomeCollection`
sees an attempt as the kind of record it leaves.

### RoleChannel

A client's call is two steps: `Post` puts the request into `posts` and starts
polling; the answer arrives in `poll` when the reply has been handled. Between
them the controller serves the POST (`ServePost`), the switch processes the
OpenFlow message (`SwitchRefuses`, `SwitchChangesRole`, `SwitchReports`) and the
controller handles the reply (`HandleRoleReply`, `HandleBarrierReply`). Nothing
forces any of them to happen: a call may time out in each of these places, and
its request goes on without it.

Each call is made once per thread and link, so its name (`Phase`) stands for the
xid: an answer reaches the client only while it polls that very call.

The channel between a controller and a switch is FIFO and loses its content when
it drops. A controller keeps its cached role over a reconnection
(`RoleManager.register_datapath` uses `setdefault`) and loses it in a restart.

Open vSwitch is not in the repository. It is modelled from how the code uses it,
and marked external in the map: a role change with an older generation id is
refused, a new MASTER makes the previous one a SLAVE, a new connection is EQUAL.

### Migration

`pc[r]` is the place of request `r` in `migrate`; `input[r]` its body; `tx[r]`
its locals (the source it read, the two generation ids, whether all checks of the
verification held so far). One action per REST call and per critical section,
because these are the points at which threads interleave:

| Action | Code |
|---|---|
| `ReadOwner`, `Create` | `get_owner` and the 400; `TransactionManager.create` and the 409 |
| `Promote`, `PromoteReplied`, `PromoteFenced` | `promote_target`: `set_role`, `barrier` |
| `SourceQueried`, `TargetQueried` | `verify_roles` |
| `SourceConnectivity`, `TargetConnectivity` | `verify_connectivity` |
| `TrafficVerified` | `verify_packet_in`, `verify_flow_mod` |
| `Commit`, `MarkRestored`, `Finish` | `commit_migration`, `mark_restored`, `finish` |
| `RollBack` | the `except` branch: any timeout, HTTP error or failed check |
| `RestoreReplied` .. `OtherConnectivity` | `restore_source`, `verify_rollback` |
| `GiveUp` | the rollback failed: HTTP 500, the switch stays locked |

`RollBack` and `GiveUp` are enabled wherever the code waits or reads over the
network, so an exception of any kind is one of these steps. Generation ids are
drawn in order (`GenerationIdGenerator` returns `max(last + 1, time_ns)` under a
lock); the model counts them, which keeps all that is compared. The 64-bit mask is
out of reach of `time_ns` before the year 2554.

`HoldOf` and `Masters` map a state to the register: a switch is `free`, held
(`open`), `settled` between commit or restore and the release of the lock, or
`stuck`.

### HistoryBuffer and Forecaster

`HistoryBuffer` has `append`, `ready` and `get_history` as operators on a sequence
of entries; every method of the class holds its lock, so each is one step of the
modules that use it. `SegmentOf` is `continuity.assign_segments`: what a hole is
in the training data, and the reference for the runtime.

`Forecaster` is one call of `on_twin_state` per step (only the telemetry thread
calls it). `Turns` is the loop over the controllers in `RuntimeForecaster.update`.
`UpdateFails` is a call that raises after the turns of some controllers: they have
the sample, the others do not, and the payload is the previous one. Whether a sample is
numeric is free, and so is whether a row of features is out of range (`out`) and in a
feature that the gate does not ignore (`counted`). Two history variables, the accepted
samples and the rows the gate saw, let the properties compare the counters and buffers
with what the training code makes of the same samples.

The gate and the offline evaluation are not the same. `update` drops the features of
`ood_ignore_features`; `compute_forecast_margin.py` makes its mask over all watched ones.
So `GateFollowsMask` compares the counter with `ood.gate_mask` over the rows it counts, and
says of the offline mask only that it is on wherever the fallback is taken. The converse,
`GateIsOfflineGate`, is refuted by rows that are out of range in an ignored feature alone
(which `configs/forecasting/runtime.yaml` says of most samples of a stable run): it is in no
run, and stands in the module for the reader.

### TwinPipeline

The telemetry thread at the grain of its accesses to what other threads write: the
version and the owners (two locks), and the deque of the twinning window (no lock
at all): `_prune` tests and then looks at the head, `rate` tests, sums and divides.
`InitRolesResets` may clear the deque between any two of them; what then happens
(IndexError, RuntimeError or ZeroDivisionError, and the `except` branch that
records a failure) is `PruneDrops`, `RateDivides` and `RecordFailure`.

Roles are free in each poll, which covers migrations under way, lost connections
and restarts; `lastTrue` keeps when a poll or a verification last showed a
controller as MASTER of a switch it owned. That the verification before a commit is
right is `Migration`'s matter.

The clock moves once per loop. The time a poll takes inside a loop is not modelled.

### OutcomeService

`Publish`, `Observe` and `WriteFails` are the end of `build_snapshot`; `ReadTwin`,
`CheckProblems` and `PredictReady`/`PredictMissing`/`PredictRaises` a request, which
reads the store once and the history twice. The owners in a snapshot are free.

### AttemptRunner and MigrationAttempt

`experiments/migration/runner.py` runs one attempt per directory of the dataset. Three
threads of control meet in `AttemptRunner`: `collect_attempt` (`pc`), which waits for
windows in a list of samples; the `StatePoller` thread (`reply`, `samples`,
`lastKey`), which fetches a twin state and appends it in a later step; and the
transaction in the orchestrator (`tx`), which may end before, after or without the
answer.

| Action | Code |
|---|---|
| `PollFetch`, `PollAppend` | `poll_once`: a failed fetch, the same state again, or a new one |
| `SwitchesConnected`, `NeverReady`, `PhaseWaited` | the waits for all switches and for the planned phase; `start_index` |
| `PreWindow`, `PreWindowExpires`, `PreFallback` | the pre window, or the skip with the last valid samples |
| `Act` | `check_preconditions`, the action, `send_index` |
| `Send`, `TransactionEnds`, `SendReturns`, `SendFails` | the request; the mapping of its status; no answer |
| `Skipped`, `PostWindow`, `PostWindowExpires`, `PostFallback` | the early return, the post window, or the best effort when its wait expires |

`MigrationAttempt` adds the life of an attempt: `Start` is the test that the directory
is not there and the preflight, `Drained` the end of the workload and
`compute_outcome`, `WriteData` to `Locked` are `write_attempt` step by step with
`validate_attempt` in the middle, `RunFails` and `Interrupt` its two handlers,
`Crash` is the runner killed at any step, with its children left alive, and `CleanUp`
the operator. `Next` lets the same attempt be started again after any of them.

A twin state is named by a key in the order of publication (the pair of version and
timestamp that the poller compares), with the owner of the switch and a grade:
whether it passes the Hard Gate and whether it shows every switch. States that no
poll fetches are left out. A wait may expire whenever its condition is false. The
injected failure, the choice of the switch, the phases and the utilizations are
left out, and so is the end of the workload during a wait, which ends the wait
as its deadline does.

### InitRoles and OrchestratorRestart

A run `i` of `init_roles` walks over the links: `Turn` is its order (a switch at a
time, the owner last), `RequestRole`, `RoleGiven` and `Initialized` its calls, with the
generator and the locks of `Migration` and no lock on a switch. `Restart` is the
process dying at any moment: register and locks are those of the configuration again,
the threads are gone, what they have asked for is still served. Generation ids come
from the wall clock and go on, which is what fences the requests of the dead threads.

### ControllerProcess

One controller and one of its switches, at the grain of the events a Ryu application
handles one after the other. The switch side appends events: `Connect` (features, then
main), `Disconnect` and later `NoticeDead`, `SendPacket`, replies to role requests.
The handlers take the head: `FeaturesArrive`, `ChannelIsUp`, `ChannelIsDown`,
`PacketArrives`, `RoleReplyArrives`. `Sample` is the telemetry loop. The orchestrator's
side is one migration after the other to this controller and away from it: `PromoteThis`,
`QueryThis`, `RolesVerified`, then `Baseline` and `PacketInVerified`, `Baseline`,
`TestFlow` and `FlowModVerified` of the two traffic checks, and `HandOver`. The history
variable `work` counts the packets processed in all lives of the controller; the code
has no such number, and the properties compare its counters with it.

This is the step that `Migration` has as `TrafficVerified`. The MAC table decides which
flow a packet gets, not whether it is counted, and is left out.

### OutcomeCollection and OutcomeTraining

`Expand` is the plan that `expand_attempts` makes of the matrix. A collection takes the
planned attempts in order: `SkipExisting`, `StartAttempt`, `LoadCapacity` (the
orchestrator of the attempt reads the capacity for itself), `WriteAttempt` with one of
the verdicts, or `AttemptFails`. Files are edited under it: `EditMatrix`, `Recalibrate`,
`MoveAway`. A record holds what its metadata name and with what it really ran.
`ReportPilot` is the gate, `ReportDataset` the split manifest.

`OutcomeTraining` goes on from there: `BuildDataset`, the stages `direct` and `hybrid`,
`SelectAndTest`, `WriteSelection`, `OpenTest`, `WriteOutput`, `CompleteTest`, and `Export`
to `MoveIntoPlace`. Each file is written by a step of its own, in the order of the code, and
`Stop` may come between any two; a lock that is cut off while it is written is
`TornLock`. A file is what it was made from, so that equal contents have equal sums, as
the frozen selection compares them: a dataset is its rows, a schema the features that vary
over the train rows (`FeaturesOf`), a model the train and validation rows, the features and
the grid of its stage. A stage writes its models of the response (`rf_r`, `xgb_r`) and of the
utilization (`rf_u`, `xgb_u`) one by one.

Three checks stand between a stage and the test, and each is as weak as in the code.
`SameFeatures` compares names of features, not rows. `ScoresReproduce` computes S again on
the validation rows; S leaves the response out (`selection_exclude` in
`configs/outcome/dataset.yaml`), and the scores it is compared with are those of the hybrid
stage, which has all five models in its file and so hides the scores of the direct stage.
`LoadFrozen` compares sums, of every model file, since the selection. Hence what
`ScoredModelsAreWhole` and `ArtifactIsTheTestedOne` say, and what they leave out because
the code lets it happen, as runs of this model show: the direct models are of two stages
(direct, direct with another grid stopped after its first family, hybrid, select); residual models of the
response are of another stage than those of the utilization (hybrid, hybrid with another grid stopped
after its first file, select); models were fitted on train rows that a forced rebuild has changed
since, and the manifest of the artifact names the new ones. The script records a refit
(`refit_max_abs_diff`) that would tell, and refuses nothing on it.

That scores of other models or rows differ is taken for granted (they are compared to 1e-9),
and `EditConfig` edits grids and evaluation, not the weights of S.

### ForecastTraining

The five scripts of forecasting in the same way, over a dataset for each horizon and one
model directory. Each file has the training session it comes from, the recordings behind
its rows and the runs it looked at. `Recollect` and `SetHorizon` are what an operator does
between two scripts; `chain` is how far the documented order has come without either.

### CapacityBenchmark and ForecastCollection

`run_capacity_experiment` from `StartExperiment` to `Finish`, with the collector thread
(`PollStarts`, `PollAppends`, `PollFails`, `PollIsSlow`; a poll that outlives `stop` is
the straggler), the generator, and migrations of the path at any time. A measured
interval is a slot that is filled or lost. Directories are written file by file;
`ExportRuns` and `Derive` read whatever is there.

`ForecastCollection` adds `collect_forecast_data.sh` (`StartScript`, `FreezeEnvironment`,
`RunOne`, `Launch`, `CommandDone`, `ValidateRun`, `ValidateOfficial`) and the run
process it starts (`InitializeRuntime` to `CheckLoad`, each of which may fail or be
interrupted), on the same test bed: one script at a time. What may change around them is
`RestartOrchestrator`, which loads the capacity, `ChangeTree`, `RemoveRun`, and another
benchmark.

### WorkloadRates and WorkloadGenerator

`WorkloadRates` has the profiles (`stable.py`, `gradual.py`, `burst.py`, `oscillating.py`)
and the mapper from a utilization to a rate, on whole numbers: mean points of the valid runs,
the part of them that is monotonic, interpolation and inversion, clamping or refusal,
and the rates of a hot host and of the others.

`WorkloadGenerator` is one of three loops. `udp_new_flow`: `FlushBeforeFlow`,
`WaitDeadline`, `TooLate`, `SendFlow`, `LeaveLoop`. `udp_dynamic_flow`: `ReadClock`,
`FlushElapsed`, `SleepShort`, `SendDynamic`, `DurationIsOver`. `qos_probe`: `SendProbe`,
`Receive`, `ReceiveTimesOut`, with the echo server and the network as `Echo` and `Lose`.
`Tick` may come between any two steps, so that a generator may be held up anywhere.

## Runs

| Run | Question | Instance |
|---|---|---|
| `migration_safety` | Do locks, mastership and the register stay consistent whatever two requests for one switch and the network do, is what they leave settled, and is every request answered? | 2 controllers, 1 switch, 2 requests, 1 connection loss or restart; 198 264 states |
| `stale_source` | Can a request pass the check that its target owns the switch already? Yes. | 1 switch, 2 requests, no fault |
| `init_roles` | Does INITIALIZED mean the roles of the register, next to another call, a migration and a restart of the orchestrator? | 1 switch, 1 request, 2 calls, 1 restart; 234 393 states |
| `controller` | Does the traffic check see work done after its baseline, and does no dead connection stay? | 2 connections, 2 packets, 1 restart, 2 migrations; 2 897 627 states |
| `forecaster` | Do history, gate and forecasts agree with the training data's definitions? | 1 controller, 5 calls, history of 2 + 1, gate at 2; 858 232 states |
| `twin_pipeline` | Was a valid twin state true, and does a perfect rate hide no failure? | 2 controllers, 1 switch, 3 loops, 2 settled migrations, 1 reset; 3 935 494 states |
| `outcome` | Is a READY prediction for the owner, and from consecutive snapshots? | 2 controllers, 1 switch, 5 snapshots, history of 2 + 1; 1 611 148 states |
| `attempt` | Is a record of the dataset complete and true, and does every run end, whatever poller, transaction, waits and crashes do? | windows of 2, 6 samples, 2 of them not valid; 866 047 states |
| `forecast_training` | Do held-out runs stay held out, and does the documented order give an exact artifact, whatever was left by scripts that stopped? | 4 runs, 2 horizons, 2 families, 2 trainings; 1 172 070 states |
| `outcome_training` | Is a passed pilot of one version, is the test opened for one selection with residual models of one stage, and is the artifact the tested one? | 7 attempts, 2 versions of matrix, capacity and model configuration, 3 stages; 287 887 states |
| `forecast_collection` | Does the capacity rest on sound runs, and an official dataset on one capacity and the frozen code? | 2 benchmark runs, 3 experiments, 2 planned runs, 3 launches; 3 534 187 states |
| `workload` | Do samples account for flows, does reuse of a port show, does a probe measure its own packet, and does every generator end? | 5 ticks, windows of 2, 2 ports, every generator and profile; 454 899 states |

**What the properties say.** `UnlockedSwitchIsSettled` joins three facts that each way
out of the handler has to see to: the owner is MASTER, no other controller believes to
be, and the recorded generation id is the switch's. `RegisterSpec` is the refinement;
`FrozenStaysFrozen` an action property; `EveryRequestAnswered`, `EveryRunEnds` and
`GeneratorEnds` are liveness. Each module also states its types, which are proved or
part of an invariant that is; the runs spend their time on the others.

**Bounds.** Two controllers are what is deployed. Requests for different switches
share nothing but counters and controllers, so the interesting case is two
requests for one switch; three requests without faults and two requests with two
faults were run as well, with the same result. Each request is one transaction
with up to ten calls, every one of which can be late, lost, refused or answered
after its deadline; a fault can hit any of them. Generation ids, versions and
channels are bounded by the number of requests. In `init_roles` the request asks for
the other controller and works only while an initialisation is still to come, so that
two of its three threads are at work at a time (`Bounded`); connections are not lost in
this run, `RepairHolds` being about none lost since.

In `controller` the queue holds at most three events (`ShortQueue`): two connections
that overlap have four events in all and a packet or reply between any two of them.
The theorems about this module have no such bound.

The history bounds are small because the code compares lengths only with
`history_steps` and `maxlen`: with 2 + 1 entries and five snapshots a buffer fills,
drops its oldest entry, is cleared and fills again. Clocks that go up to 4 with a
largest gap of 1 give duplicates, steps back, gaps and runs in every order.
`Forecaster` treats controllers alike and keeps nothing in common between them but
the payload; two controllers with four snapshots were run as well. In
`twin_pipeline` the third loop sees samples that are too old and attempts that leave
the window; four loops were run as well, with one migration less.

In `attempt` six samples are two windows and two more: enough for a window that is
interrupted by a sample that is not valid or twice the same, a transition between
two full windows, and samples that arrive while the windows are cut. `MaxFlawed` bounds
the samples that are not valid in one call. Calls of `run_attempt` are not bounded: each
starts from nothing but the directory and the processes that are left.

In `forecast_training` there is a run for each split, and an unseen one whose repeat is
a training repeat, so that the order of the two tests of `assign_split` matters. Two
trainings can differ in whatever a training depends on; `RareEdits` lets the second horizon
have a dataset only where no run was collected again, to keep the two kinds of change
apart. `outcome_training` allows one departure from an undisturbed pass over the project
(`Departures`: an edit, an attempt that was repeated, failed, was moved away, taken out of
order or not eligible, a stage run once more), with any stop at any file besides. In
`forecast_collection` one kind of flaw stands for those that the validation treats alike,
the two runs of the benchmark are symmetric, and no experiment starts after the tree
changed. In `workload` the last window is partial, two ports come round within the
experiment, and the clock may stand still or run past any deadline; a tick is twelve seconds
of a profile, so that five ticks see each part of a burst. Within these bounds the ports of
the uniform generator and of the probe come round late enough to matter; that reuse shows
with a dynamic profile, too, is left to `NoReuseUnseen`, which has no bounds.

Facts about operators are checked as assumptions of the MC modules, over all bounded
inputs: `PlanIsDistinct` and `ControlsAreSpread` over matrices of up to 2 workloads and
4 repeats, `MapperInverts` over all tables of three points, `ProfilesStayInRange`
and `HotHostIsHot`. `ControlsAreSpread` is weaker than the comment of
`experiments/migration/config.py`: controls spread evenly over the repeats when they are whole rounds of
them, not for every accepted number.

**Deadlock** is not checked: the systems stop when every request is answered, or
when a bound on clock, calls, snapshots, scripts or experiments is reached; an attempt
that is in the dataset is not run again.

**Fairness.** `FairSpec` of `Migration` assumes that a handler thread that can take a step
takes one (`WF` of `Proceed(r)`): each wait in the handler is a loop with a deadline
(`ControllerClient._wait`) or a request with a timeout. It assumes nothing of
controllers, switches, connections, or of clients that send requests. In
`MigrationAttempt` it assumes `WF` of `Runner`: the main thread goes on by itself,
because each of its waits has a deadline and the request a timeout. It assumes
nothing of the poller, the orchestrator, the operator, or of interrupts and crashes. In
`WorkloadGenerator` it assumes that the process runs and that time passes (`WF` of
`Generator` and of `Tick`), nothing of the network or the echo server.

## Findings

* `stale_source`: the owner is read before the lock is taken and never again. Of
  two requests for the same move, the second can pass the check "Target controller
  already owns the switch" and take the lock after the first one committed. Its
  rollback, if it comes to that, makes the previous owner MASTER and registers it.

More statements of docs and comments that the models refute. Each is an operator in the
module named, without a run of its own; TLC gives a counterexample when it is
added as an invariant to the run of that module.

* `InitRoles`!`AnsweredOwnershipHolds`: `init_roles` gives the roles of the configuration,
  takes no lock, and leaves the register as it is. `src/docs/capacity-benchmark.md`
  tells to call it again after a controller restart; after a migration the register
  then names a controller that is a SLAVE.
* `TwinPipeline`!`StartupDoesNotContaminate`: `orchestrator/app.py:380` says that startup
  snapshots must not contaminate the window. The reset does not reach a loop that is
  under way: what it collected before the roles were given is recorded, as a failure,
  after the reset.
* `OutcomeService`!`EveryPredictionAnswered`: `twin/outcome/predictor.py:12` says that
  every case that must stop the prediction returns a reason. When the history is cleared
  between `ready()` and `window()`, `HistoryNotReadyError` reaches the endpoint: HTTP 500.
* `MigrationAttempt`!`TimedOutIsNotTraining`: `experiments/migration/validator.py:10` counts
  an attempt whose post window timed out among those that are not training data. The best
  effort of `collect_attempt` after the timeout can hold as many valid samples as are
  required, not in a row; nothing reads `post_complete`, and the attempt is training data.
* `ControllerProcess`!`ConnectedIsRegistered`: `self.datapaths` are the "Active OpenFlow
  datapaths" of the controller. The event of a connection found dead after the switch had
  connected anew removes the new one (`controller/reactive_controller.py:261` pops by the id
  of the switch), and the switch stays out until it connects again.
* `ControllerProcess`!`NewPacketWasProcessed`: `src/README.md:247` says that the verification waits for a
  new processed Packet-In on the target. The baseline is the last sample, up to a period old: a packet
  of an earlier time as MASTER may count as new.
* `ForecastTraining`!`MarginLoggedToItsTraining`: `twin/forecasting/tracking.py:92`. A training
  without MLflow leaves the `mlflow_run.json` of an earlier one, and the margin is logged there.
* `OutcomeCollection`!`MetadataTellsVersions`: the comment in `experiments/migration/config.py`
  says that every attempt names its exact config. The matrix is hashed long after it was
  read, and the capacity before the orchestrator loads it: an edit in between is not seen.
* `ForecastCollection`!`AnyChangeAborts`: `src/scripts/experiments/collect_forecast_data.sh:171` says that any later
  change of the environment aborts. The commit is read once, when the script starts, and a
  clean tree of another commit goes unseen until the next start.
* `experiments/workloads/generator.py:64-65` says that ports are not reused while old flows
  may exist. The check is of the planned rate; a generator that was held up sends its
  backlog at once. `ReuseShowsInLag` is what holds instead.

## Proofs

Proved for every set of controllers, switches, requests, runs and plans, and every
number of faults, snapshots, packets and repetitions:

| Theorem | Statement |
|---|---|
| `TypeCorrect` | `Spec => []TypeOK` |
| `LockExclusionHolds` | `Spec => []LockExclusion` |
| `FencingHolds` | `Spec => []FencingInvariant` |
| `NoForeignMasterHolds` | `Spec => []NoForeignMaster` |
| `ImplementsRegister` | `Spec => RegisterSpec` |
| `IdInvariantHolds`, `OwnerIsRecorded` | `Spec => []` of `IdInvariant`, `OwnerIsMaster /\ RecordedGeneration` |
| `SettledInvariantHolds`, `UnlockedIsSettled` | with at most two controllers, `Spec => []` of `SettledInvariant`, `UnlockedSwitchIsSettled` |
| `RepairInvariantHolds`, `InitializedIsRepaired` | `RestartSpec => []` of `RestartTypeOK /\ RepairInvariant`, `RepairHolds` |
| `OutcomeInvariantHolds`, `OutcomeTypeCorrect`, `ReadyAnswerIsOwnedHolds` | `OutcomeSpec => []` of `OutcomeInvariant`, `OutcomeTypeOK`, `ReadyAnswerIsOwned` |
| `ProcessInvariantHolds`, `CheckSawWork`, `DeadConnectionsAreDropped` | `ProcessSpec => []` of `ProcessInvariant`, `PassedCheckSawWork`, `NoDeadDatapath` |
| `PipelineInvariantHolds`, `OwnersOfVersion`, `ValidTwinIsTrue`, `PerfectRateIsPerfect` | `PipelineSpec => []` of `PipelineInvariant`, `OwnersNotOlderThanVersion`, `ValidTwinWasTrue`, `PerfectRateHidesNothing` |
| `ForecasterInvariantHolds`, `HistoryIsDataset`, `GateIsMask`, `ForecastRestsOnSnapshot`, `ReasonsAreTrue` | `ForecasterSpec => []` of `ForecasterInvariant`, `HistoryMatchesDataset`, `GateFollowsMask`, `ForecastUsesItsSnapshot`, `ReasonIsTrue` |
| `BenchmarkInvariantHolds`, `CapacityIsSound`, `OddMovesAreSeen` | `Spec => []` of `BenchmarkInvariant`, `CapacityFromSoundRuns`, `OddMovesNeverPass` |
| `AttemptInvariantHolds`, `AttemptTypesHold` | `Spec => []` of `AttemptInvariant`, `TypeOK` |
| `ActionNeedsWindow`, `NoSampleLostOrDoubled` | `Spec => []` of `NoActionWithoutWindow`, `WindowsPartitionSamples` |
| `RecordsTellTheTransaction`, `TrainingSamplesAreSound`, `CommittedRecordsAreValid`, `RecordsAreSealed` | `Spec => []` of `RecordTellsTransaction`, `TrainingSampleIsSound`, `CommittedRecordIsValid`, `RecordIsSealed` |
| `TrainingInvariantHolds`, `TrainingTypesHold` | `Spec => []` of `TrainingInvariant`, `ForecastTrainingTypeOK` |
| `HeldOutRunsStayHeldOut`, `TestReadAfterFreeze`, `WorkflowIsExact` | `Spec => []` of `HeldOutStaysHeldOut`, `TestAfterFreeze`, `WorkflowGivesExactArtifact` |
| `OutcomeTrainingInvariantHolds`, `OutcomeTrainingTypesHold` | `Spec => []` of `OutcomeTrainingInvariant`, `OutcomeTrainingTypeOK` |
| `OneSelectionIsTested`, `ScoredModelsWereWhole`, `ArtifactWasTested` | `Spec => []` of `TestSeesOneSelection`, `ScoredModelsAreWhole`, `ArtifactIsTheTestedOne` |
| `PilotIsOneVersion`, `RowsHaveOneMeasure` | `Spec => []` of `PassedPilotIsOneVersion`, `RowsKeepTheirMeasure` |
| `FrozenIsFrozen` | `Spec => FrozenStaysFrozen`, an action property |
| `CollectionInvariantHolds`, `OfficialCapacity`, `OfficialCode`, `LoadsAreChecked` | `Spec => []` of `CollectionInvariant`, `OfficialHasOneCapacity`, `OfficialRanFrozenCode`, `MissedLoadNeedsSkip` |
| `LoopInvariantHolds`, `RowsAreOfTheirProbes` | `Spec => []` of `LoopInvariant`, `ProbeMeasuresItself` |
| `WindowInvariantHolds`, `SamplesTellFlows` | `Spec => []` of `WindowInvariant`, `WindowsTellFlows` |
| `LagInvariantHolds`, `NoReuseUnseen` | `Spec => []` of `LagInvariant`, `ReuseShowsInLag` |

**Migration.** `TypeOK` is inductive; the channel's part is proved once for
`ChannelStep` and once for `Post`, the only two ways in which the handler touches
the channel. `LockExclusion` is inductive with it: `HoldStep` reduces a step of one
thread to what it does to `locked` and to the program points that hold a switch.

`NoForeignMaster` is not inductive: it is silent about the role requests still on
their way. `FencingInvariant` is its strengthening, and each part is there for
another:

* `RoleFencing`: a MASTER request on its way is stale, or asks for what its sender
  may have; a controller that is MASTER is entitled to it under the id accepted last.
* `Settled`: between the commit and the release of the lock, the register names the
  controller that was verified. It gives `RoleFencing` its owner when the lock goes.
* `AcceptedIds`: past the promotion, the switch has accepted its id; past the
  restoration, that one's. So whatever is older than the id is stale when the
  transaction ends.
* `RepliesProveIds`: the reply that moves the handler past the promotion was made
  by a switch that accepted the id. It gives `AcceptedIds`.
* `DrawnIds` and `RequestsInFlight`: ids are drawn in order and a request carries the
  id of its call. A new id makes every request on its way stale.
* `Addressed`: a message is in the channel of its own link.

The proof has one lemma per kind of step: the channel, the steps that neither draw
an id nor touch lock or register (`QuietFencing`), and `ReadOwner`, `Create`,
`Promote`, `RollBack`, the two commits, and `Finish`.

The refinement uses the invariant for its two hard steps: an accepted role request
is a `Grant` only because the sender is entitled to it by a transaction that holds
the switch, and `Commit` settles with the one MASTER the register will name.
`ChannelDown` and `ControllerRestart` are `Lose`, `Create` is `Open`, `Finish` is
`Free`, `GiveUp` is `Stick`; everything else stutters.

`UnlockedSwitchIsSettled` needs `SettledInvariant` beside it. Two of its three facts hold
for any number of controllers, by `IdInvariant`: a switch that accepted an id has a master
as long as no connection was lost (`HasMaster`), and the id a transaction drew last is the
newest of its switch when it lets go (`NewestIds`), which is the one it recorded
(`Recorded`). The third, that nobody but the owner believes to be MASTER, is about replies.
A controller learns its role from a reply that may come after the handler has given up on
it, so `Clean` says of a link that the switch does not have the controller as MASTER, the
controller does not believe it, and no reply under way will tell it so; `UnlockedIsClean`
says it of every controller that does not own an unlocked switch. What gives it is the query
of the other controller: the answer SLAVE was made by the switch after it had accepted the
newest id, so no request on its way can be accepted any more, and a link delivers replies in
order, so the MASTER replies of earlier calls were taken in before it and the controller
believes its answer (`LastWord`). `Demoted` follows the query from its post to the verdict,
and `QueriesMade` knows that there is no other query of its kind. `FinishLeavesClean` then
finds the one controller that is not owner among source and target.

That last step is where the number of controllers comes in, and `AtMostTwoControllers` is a
hypothesis of the theorem: `configs/controllers.yaml` and `controllers_2c20s.yaml` name two.
With a third TLC finds the counterexample to `SingleCachedMaster`: a request that read its owner
before another one committed (the finding above) migrates from the old owner, so it queries that one
and not the controller it takes the switch from, which goes on believing to be MASTER.

**InitRoles and OrchestratorRestart.** `FencingInvariant` is about transactions that hold
their switch; a restart leaves their requests on the way and lets the switch go. The repair
has another argument, for any number of requests, runs, restarts and switches. A link is
`Given` when it has the role of the configuration and the switch has accepted an id above
that of every migration request on its way. In a process in which nothing has migrated
(`Quiet`) no such request is added, so `Given` lasts: another run of `init_roles` asks
for the same roles (`AsksFor`), and what else arrives is refused (`GivenKept`). `Repairing`
follows a run that works: its role requests are above all leftovers, because it drew their ids
after the last one was; so the one that is accepted gives its link (`GivenNow`), a reply to it
proves that, the answer a run reads is such a reply (`AnswerSource`: call and link match),
and every link it has passed is given. With INITIALIZED it has passed all of them. A run of
the old process does not answer any more, which is why the ids drawn since the restart are
enough.

**OutcomeService.** The invariant says of the stored history that it is one run of
valid snapshots, not longer than its capacity, and of a request that passed the
checks that the source owns the switch in the state it read. `StoredIsOneRun` is
the argument for the buffer: whatever `append` answers, a run stays a run.

**ControllerProcess.** `NoDeadDatapath` is not inductive: the connection that is about to be
registered may be dead by then. `DeadAreDropped` says of the registered connection, and of
each that waits in the queue to be registered, that it is live, still to be noticed dead, or
has its DEAD event further back in the queue. `PassedCheckSawWork` rests on
`CountersCountWork`: since the last sample, and since the baseline, the counters have not
grown by more than the work done. A restart makes counters smaller, which keeps both.

**TwinPipeline.** A snapshot is drafted in steps, so the invariant follows the draft:
`DraftIsNew` (its time is the loop's, the published one is older), `OwnersFollowVersions`
(the owners read after the version are of that version or a later one), `RolesWereTrue`
(`MasterSeenIsTrue`: the last poll of the owner was true when it was made, or became true
later) and `FailuresAreCounted` (each failure is out of the window, in the deque, or about
to be recorded, whatever the reset does between the accesses).

**Forecaster.** The history is compared with what `assign_segments` makes of all accepted
samples. `Segment` is the start of the last segment; a further sample either stays in it or
starts the next (`SegmentIsLast` after each append). Then `Keeps` is inductive: the buffer is
the end of the last segment, from `Low`, the later of its start and the last `Capacity`
samples. `GateKeeps` says the same of the counter: it is the number of rows at the end of the
last segment that the gate counts, and the row before them is not counted or of an earlier
segment. A counted row is out of range, so the offline mask is on where this one is
(`MaskNests`). The reasons follow from `GapKnown`, which ties the flag of a seen hole to there being an earlier
segment while the history is short.

**CapacityBenchmark and ForecastCollection.** `ParityTellsOwner` is the argument for the two
ownership checks: between them the owner is the target exactly after an even number of
moves. `SoundOnTheWay` and `SoundFiles` say that what is aggregated, written, exported or
derived is never sounder than the measurement behind it; a straggler can only make it
worse. For the collection, `FrozenCapacity` and `FrozenCode` tie what is recorded to the
fingerprint, `LoadsChecked` says that a script without `--skip-existing` has itself collected
every planned run it has passed, and `OfficialStands` that the verdict is of the directories as
they are.

**AttemptRunner and MigrationAttempt.** A record is judged by windows that were cut from
samples which another thread was appending, so the invariant starts with the stream itself.
`Stream`: the poller sees twin states in the order of their publication, skips some, and a
key never comes twice. `Owners`: a sample that names the target was published after the
commit, and none of them lies before the send mark. `Progress`: at each place of
`collect_attempt` what the transaction has done, and what of it the runner knows. `Marks`,
`PreWindows` and `PostWindows` place the windows in the samples: the pre window ends before
the request is sent, a complete post window is the end of the samples. `CountMeets` and the
lemmas around `ElementByRank` say what `find_window` returns. `Files` carries this through
the writer: from the moment the record is built it tells the transaction (`GoodRecord`), its
parts follow the step of `write_attempt` (`PartsAt`), and only a draft with all of them is
renamed. A crash leaves a draft that the next call throws away, so that nothing of one
attempt gets into the record of the next (`Fresh`).

**ForecastTraining.** A file is told by what is still to be written: the `todo` of a script
is always a tail `Left(files, k)` of its list, and the first `k` are of this session
(`FromTraining`). `LookedAt` is the held-out property with its companions, for which the
splits have to be disjoint; `SessionsPast` and `TestAfterFreeze` order sessions. `Chain`
follows the documented order: after a training every file is of one session (`OneTraining`),
after a margin the margin is of the weights on disk and of the rows configured
(`ExactMargin`), after an export card and summary are too (`ExactCard`, `ExactSummary`). Any
other script, a stop or a new recording ends the chain.

**OutcomeTraining.** Each part says what a script in progress holds and what on disk still
agrees with it. `Collected`: metadata name what an attempt ran with (`MetadataTold`), the
gate has seen one version (`GateTold`), a repeat has one side (`SplitsFollowRepeats`).
`DatasetPart`: rows in the making are of one capacity, and a manifest is of the csv beside
it. `TestPart` is the argument for the lock: before it is opened nothing was tested, from
then on exactly its selection was (`LockTells`); whoever is about to open it has checked that
its selection is the one admitted (`TestScripts`). That its residual models are of one stage
(`Whole`) comes from `ScoresReproduce` alone, as the scores of a stage are of one session
whatever is on disk. `ExportScripts` says that under an export
there is no artifact in place and what was checked still stands, because no other script
runs. The frame lemmas (`...Stays`) give each part its steps by others; there is one lemma
for each action of the part itself.

**WorkloadGenerator.** `LoopInvariant` has the types and what the guards have found at each
point of the three loops; with it a probe that waits holds the number of the row to come,
which is all that `ProbeMeasuresItself` needs. The samples rest on `FlowsComeInTime`: both
generators write the windows that are over before they count a flow, so that no flow comes
for a written window (`window.from <=` its time) and none is counted before its own
(`flows[i] < nextSample`); `FlowCountsOnce` is the step of the count. For the reuse of ports,
`Apart(p)` is the number of flows since the last one of port `p`. `PortsAreApart` says that a
port was used no later than the lag recorded since accounts for: it was used before the loop
read the time of the next flow, so the next flow's lag tells how late it was, and each flow
after that moves the deadline on by a `LeastPeriod`. When the port comes round, `Ports - 1`
flows have passed, and `Safe` makes the rest of the margin (`ReuseShows`). For a profile this
needs that no rate between two levels of the map is above the highest of its rates, which is
the one that `validate_port_reuse` looks at (`RatesOfProfile`, by `BetweenIsBetween`,
`TargetsAreInRange` and `Periods`). That the highest exists is `GreatestExists`, from the
smallest subset that had none, because the induction theorems cannot be used.

The assumptions are those the modules name: `PhaseAssumption`, `FaultsAssumption`,
`OwnerAssumption`, `RequestAssumption`, `CallsAssumption`, `HistoryAssumption`,
`OutcomeAssumption`, `ProcessAssumption`, `PipelineAssumption`, `ForecasterAssumption`,
`InitRunAssumption`, `InitCallsAssumption`, `RestartsAssumption`, `PlanAssumption`,
`RunnerAssumption`, `ForecastTrainingAssumption`, `OutcomeCollectionAssumption`,
`OutcomeTrainingAssumption`, `ConfigAssumption`. TLC evaluates them in the runs. Three of
them are about a configuration. The repeats of training, validation and test are disjoint,
which is what `splitter.py:67-133` makes of a run: one split each. The split of an outcome
matrix names a side for every repeat of it, as `experiments/migration/config.py:149` demands.
The arguments and the rate maps of a generator are those that its script does not refuse, with
whole numbers for rates.

**Model-checked only**: liveness, which under fairness is out of the prover's reach, and what
`MCWorkloadGenerator` asks of the mapper and of the host rates over bounded tables: induction
over data and recursive operators are out of its reach, too.

## Not modelled

* The MAC table; values of telemetry, features, floating-point models and their fits, the
  quality score and the overload rule (formulas without state); percentiles and rates of the
  benchmark.
* Mininet topologies; parsing of configuration files; the dashboard; the scripts that make
  evidence, tables and figures of finished files; the text of cards and reports.
* In an attempt: the choice of the switch by load, failure injection, the durations of phases
  and waits (a wait may expire whenever its condition is false), the saturation cross-check,
  and the check that a commit has increased the ownership version: the version goes up with
  the owner, whom the before window is checked for.
* In the training scripts: `--only`, `--limit`, `--dry-run` and other selections of a plan,
  `--predict-url`; two scripts at the same time. Everything assumes that an operator runs one
  script at a time, apart from a collection, under which files may be edited.
* In the forecast collection: `validate_forecast_collection.py --official` called by hand,
  which would also accept runs of `--single` whose load was missed (`official` is the verdict
  of the script's own `--all`), the check of the load switched off
  (`NDT_HOT_SWITCH_CHECK_LOAD=0`), and a late loop that samples the same twin state again. The
  exit codes of generators are looked at only when they start, as in the code.
* In the generators: whole numbers in place of floats (interpolation rounds down).

## Plan

Done so far: the handler with its refinement and proofs; roles, restarts and the controller
process; the telemetry side with its histories; attempts, collections and training scripts;
benchmark and generators. Left, in this order:

1. The durations of an attempt: a phase that ends in a pre window, and twin states of the time
   of a transaction that are published after it (two hazards without a property).
2. The values in telemetry that decide something: counters that fall, negative deltas, the
   rate calculator next to a controller restart.
3. `ControllerProcess` inside `Migration` in the place of `TrafficVerified`, for two
   controllers.
