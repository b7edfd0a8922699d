-------------------------- MODULE CollectionProofs --------------------------
(***************************************************************************)
(* Theorems about ForecastCollection: what the capacity artifact and the   *)
(* official dataset rest on, for any runs, plan and bounds.                *)
(***************************************************************************)
EXTENDS ForecastCollection, FiniteSetTheorems, TLAPS

-----------------------------------------------------------------------------
(* The capacity benchmark                                                  *)

Streams == [controller : Nat, invalid : BOOLEAN, error : BOOLEAN]

BenchmarkTypeOK ==
    /\ owned \in BOOLEAN /\ moves \in Nat /\ attempts \in Nat
    /\ stage = "idle" \/ current \in Runs
    /\ rows \in Streams /\ summary \in Streams
    /\ dirs \in [Runs -> [attempt : Nat, validation : {"none", "valid", "invalid"},
                          odd : BOOLEAN]]
    /\ csv \in [Runs -> [attempt : Nat, valid : BOOLEAN]]
    /\ artifact \in [Runs -> Nat]

\* From the preflight check to the second one the parity of the moves says who owns
\* the path; after it nothing moves.
ParityTellsOwner ==
    /\ stage \in {"prepare", "warmup", "measure", "finish", "cooldown", "recheck"}
           => (owned <=> moves % 2 = 0)
    /\ stage \in {"aggregate", "validate"} => moves % 2 = 0

\* What is aggregated is at least as bad as what the second check has seen: an error
\* that a straggler adds can turn a sound measurement down, never up.
Clean(streams) == ~streams.error /\ ~streams.invalid

SoundOnTheWay ==
    /\ stage \in {"cooldown", "recheck"} => workload = "done"
    /\ stage = "aggregate" /\ Clean(rows) => dirs[current].attempt \in whole
    /\ stage = "validate" /\ Clean(summary) => dirs[current].attempt \in whole

SoundFiles ==
    /\ \A r \in Runs : dirs[r].validation = "valid" => dirs[r].attempt \in whole
    /\ \A r \in Runs : csv[r].valid => csv[r].attempt \in whole
    /\ CapacityFromSoundRuns

BenchmarkInvariant ==
    /\ BenchmarkTypeOK /\ ParityTellsOwner /\ SoundOnTheWay /\ SoundFiles
    /\ OddMovesNeverPass

LEMMA BenchmarkInit == ASSUME CapacityInit PROVE BenchmarkInvariant
<1>. USE DEF CapacityInit, NoExperiment, NoRows, NoDir, NoCsv, NoArtifact, NoAttempt
<1>1. BenchmarkTypeOK
  BY DEF BenchmarkTypeOK, Streams
<1>2. ParityTellsOwner /\ SoundOnTheWay
  BY DEF ParityTellsOwner, SoundOnTheWay
<1>3. SoundFiles
  BY DEF SoundFiles, CapacityFromSoundRuns
<1>4. OddMovesNeverPass
  BY DEF OddMovesNeverPass
<1>. QED
  BY <1>1, <1>2, <1>3, <1>4 DEF BenchmarkInvariant

LEMMA Parity == ASSUME NEW n \in Nat PROVE (n + 1) % 2 = 0 <=> ~(n % 2 = 0)
  OBVIOUS

LEMMA ExperimentStep == ASSUME BenchmarkInvariant, Experiment PROVE BenchmarkInvariant'
<1>. USE DEF BenchmarkInvariant, BenchmarkTypeOK, Streams, ParityTellsOwner, SoundOnTheWay,
             Clean, SoundFiles, CapacityFromSoundRuns, OddMovesNeverPass, capFiles, Goto
<1>1. CASE Preflight
  BY <1>1 DEF Preflight
<1>2. CASE Prepare
  BY <1>2 DEF Prepare
<1>3. CASE WorkloadEnds
  BY <1>3 DEF WorkloadEnds
<1>4. CASE BeginMeasurement
  BY <1>4 DEF BeginMeasurement
<1>5. CASE EndMeasurement
  BY <1>5 DEF EndMeasurement
<1>6. CASE WaitWorkload
  BY <1>6 DEF WaitWorkload
<1>7. CASE Aggregate
  BY <1>7 DEF Aggregate
<1>8. CASE PollStarts
  BY <1>8 DEF PollStarts
<1>9. CASE PollFails
  BY <1>9 DEF PollFails, SlotGone, InWindow
<1>10. CASE PollIsSlow
  BY <1>10 DEF PollIsSlow, SlotGone, InWindow
<1>11. CASE StragglerEnds
  BY <1>11 DEF StragglerEnds
<1>12. CASE Migrate
  <2>1. /\ moves' = moves + 1 /\ owned' = ~owned /\ moves' \in Nat /\ owned' \in BOOLEAN
        /\ stage \notin {"aggregate", "validate"}
        /\ UNCHANGED <<stage, current, workload, rows, summary, capFiles>>
    BY <1>12 DEF Migrate
  <2>2. (moves' % 2 = 0) <=> ~(moves % 2 = 0)
    BY <2>1, Parity
  <2>3. ParityTellsOwner'
    BY <2>1, <2>2
  <2>. QED
    BY <2>1, <2>3
<1>13. CASE Recheck
  <2>1. stage = "recheck" /\ workload = "done" /\ dirs' = dirs /\ rows' = rows
    BY <1>13 DEF Recheck
  <2>2. whole \subseteq whole'
    BY <1>13 DEF Recheck
  <2>3. owned /\ Clean(rows) => dirs[current].attempt \in whole'
    BY <1>13, <2>1 DEF Recheck
  <2>4. owned => moves % 2 = 0
    BY <2>1
  <2>. QED
    BY <1>13, <2>1, <2>2, <2>3, <2>4 DEF Recheck
<1>14. CASE Validate
  <2>. DEFINE verdict == IF Accepts(summary) THEN "valid" ELSE "invalid"
              judged == [dirs EXCEPT ![current].validation = verdict]
  <2>1. /\ stage = "validate" /\ current \in Runs
        /\ Accepts(summary) => dirs[current].attempt \in whole
    BY <1>14 DEF Validate, Accepts
  <2>2. (moves % 2 = 1) = FALSE
    BY <1>14 DEF Validate
  <2>3. dirs' = [judged EXCEPT ![current].odd = FALSE]
    BY <1>14, <2>2 DEF Validate
  <2>4. \A r \in Runs :
          /\ judged[r] \in [attempt : Nat, validation : {"none", "valid", "invalid"},
                            odd : BOOLEAN]
          /\ judged[r].attempt = dirs[r].attempt /\ judged[r].odd = dirs[r].odd
          /\ judged[r].validation = IF r = current THEN verdict ELSE dirs[r].validation
    BY <2>1
  <2>5. judged \in [Runs -> [attempt : Nat, validation : {"none", "valid", "invalid"},
                             odd : BOOLEAN]]
    BY <2>4
  <2>. HIDE DEF judged
  <2>6. /\ dirs' \in [Runs -> [attempt : Nat, validation : {"none", "valid", "invalid"},
                                odd : BOOLEAN]]
        /\ \A r \in Runs : /\ dirs'[r].attempt = judged[r].attempt
                           /\ dirs'[r].validation = judged[r].validation
                           /\ dirs'[r].odd = IF r = current THEN FALSE ELSE judged[r].odd
    <3>1. current \in Runs
      BY <2>1
    <3>. QED
      BY ONLY <3>1, <2>3, <2>5
  <2>7. ASSUME NEW r \in Runs, dirs'[r].validation = "valid"
        PROVE  dirs'[r].attempt \in whole /\ ~dirs'[r].odd
    <3>1. judged[r].validation = "valid"
      BY <2>6, <2>7
    <3>2. CASE r = current
      <4>1. verdict = "valid" /\ judged[r].attempt = dirs[current].attempt
        BY ONLY <2>4, <2>7, <3>1, <3>2
      <4>2. Accepts(summary)
        BY <4>1
      <4>. QED
        BY <2>1, <2>6, <3>2, <4>1, <4>2
    <3>3. CASE r # current
      <4>1. dirs[r].validation = "valid" /\ judged[r].attempt = dirs[r].attempt
            /\ judged[r].odd = dirs[r].odd
        BY ONLY <2>4, <2>7, <3>1, <3>3
      <4>2. dirs[r].attempt \in whole /\ ~dirs[r].odd
        BY <4>1
      <4>. QED
        BY <2>6, <3>3, <4>1, <4>2
    <3>. QED
      BY <3>2, <3>3
  <2>8. /\ stage' \in {"cleanup", "failed"}
        /\ UNCHANGED <<current, owned, moves, workload, rows, summary, whole, attempts, csv,
                       artifact>>
    BY <1>14 DEF Validate
  <2>9. BenchmarkTypeOK' /\ OddMovesNeverPass'
    BY <2>1, <2>6, <2>7, <2>8
  <2>10. ParityTellsOwner' /\ SoundOnTheWay'
    BY <2>8
  <2>11. SoundFiles'
    BY <2>7, <2>8
  <2>. QED
    BY <2>9, <2>10, <2>11
<1>15. CASE StopCollector
  BY <1>15 DEF StopCollector, Stop
<1>16. CASE \E valid \in BOOLEAN : PollAppends(valid)
  <2>1. PICK valid \in BOOLEAN : PollAppends(valid)
    BY <1>16
  <2>2. /\ rows' = [rows EXCEPT !.controller = IF InWindow THEN @ + 1 ELSE @,
                                !.invalid = @ \/ ~valid]
        /\ UNCHANGED <<stage, current, owned, moves, workload, summary, capFiles>>
    BY <2>1 DEF PollAppends
  <2>3. /\ rows.controller + 1 \in Nat /\ (rows.invalid \/ ~valid) \in BOOLEAN
        /\ (IF InWindow THEN rows.controller + 1 ELSE rows.controller) \in Nat
    OBVIOUS
  <2>4. rows' \in Streams /\ (Clean(rows') => Clean(rows))
    BY <2>2, <2>3
  <2>. QED
    BY <2>2, <2>4
<1>17. CASE Finish
  BY <1>17 DEF Finish, EndExperiment, NoRows, NoAttempt
<1>18. CASE Killed
  BY <1>18 DEF Killed, EndExperiment, NoRows, NoAttempt
<1>. QED
  BY <1>1, <1>2, <1>3, <1>4, <1>5, <1>6, <1>7, <1>8, <1>9, <1>10, <1>11, <1>12, <1>13, <1>14, <1>15, <1>16, <1>17, <1>18 DEF Experiment

LEMMA EmptyDir ==
  /\ NoDir \in [attempt : Nat, validation : {"none", "valid", "invalid"}, odd : BOOLEAN]
  /\ NoDir.validation = "none" /\ ~NoDir.odd
  BY DEF NoDir, NoAttempt

\* The operator's steps and the scripts over the directories.
LEMMA OperatorStep ==
  ASSUME BenchmarkInvariant,
         \/ \E r \in Runs : StartExperiment(r) \/ MoveAway(r)
         \/ ExportRuns \/ Derive
  PROVE  BenchmarkInvariant'
<1>. USE DEF BenchmarkInvariant, BenchmarkTypeOK, Streams, ParityTellsOwner, SoundOnTheWay,
             Clean, SoundFiles, CapacityFromSoundRuns, OddMovesNeverPass
<1>1. CASE \E r \in Runs : StartExperiment(r)
  <2>1. PICK run \in Runs : StartExperiment(run)
    BY <1>1
  <2>. DEFINE fresh == [NoDir EXCEPT !.attempt = attempts + 1]
  <2>2. /\ fresh \in [attempt : Nat, validation : {"none", "valid", "invalid"}, odd : BOOLEAN]
        /\ fresh.validation = "none" /\ ~fresh.odd
    BY EmptyDir
  <2>. HIDE DEF fresh
  <2>3. dirs' = [dirs EXCEPT ![run] = fresh]
    BY <2>1 DEF StartExperiment, fresh
  <2>4. /\ stage' = "preflight" /\ current' = run /\ owned' \in BOOLEAN
        /\ attempts' = attempts + 1
        /\ UNCHANGED <<moves, rows, summary, whole, csv, artifact>>
    BY <2>1 DEF StartExperiment, Goto
  <2>5. \A r \in Runs : dirs'[r] = dirs[r] \/ dirs'[r] = fresh
    BY <2>3
  <2>. QED
    BY <2>2, <2>3, <2>4, <2>5
<1>2. CASE \E r \in Runs : MoveAway(r)
  BY <1>2, EmptyDir DEF MoveAway, expVars
<1>3. CASE ExportRuns
  <2>0. \A r \in Runs : NoCsv[r] \in [attempt : Nat, valid : BOOLEAN] /\ ~NoCsv[r].valid
    BY DEF NoCsv, NoAttempt
  <2>1. csv' = [r \in Runs |-> IF r \in Exported
                              THEN [attempt |-> dirs[r].attempt,
                                    valid |-> dirs[r].validation = "valid"]
                              ELSE NoCsv[r]]
    BY <1>3 DEF ExportRuns
  <2>2. \A r \in Runs : /\ csv'[r] \in [attempt : Nat, valid : BOOLEAN]
                        /\ csv'[r].valid => csv'[r].attempt \in whole
    BY <2>0, <2>1
  <2>3. csv' \in [Runs -> [attempt : Nat, valid : BOOLEAN]]
    BY <2>1, <2>2
  <2>. QED
    BY <1>3, <2>2, <2>3 DEF ExportRuns, expVars
<1>4. CASE Derive
  BY <1>4 DEF Derive, expVars, LoadRows, NoArtifact, NoAttempt
<1>. QED
  BY <1>1, <1>2, <1>3, <1>4

LEMMA BenchmarkStutters ==
  ASSUME BenchmarkInvariant, UNCHANGED capVars PROVE BenchmarkInvariant'
  BY DEF BenchmarkInvariant, BenchmarkTypeOK, ParityTellsOwner, SoundOnTheWay, Clean,
         SoundFiles, CapacityFromSoundRuns, OddMovesNeverPass, capVars, expVars, capFiles

LEMMA CollectLeavesBenchmark == ASSUME Collect PROVE UNCHANGED capVars
  BY DEF Collect, StartScript, FreezeEnvironment, RunOne, Launch, CommandDone, ValidateRun,
         ValidateOfficial, InitializeRuntime, ComputeRates, WaitForTwin, CheckConnectivity,
         Before, MakeRunDir, StartSinks, StartGenerators, StartProcesses, BeginSampling,
         Sample, SampleFails, EndSampling, CheckLoad, Interrupt, ChangeTree,
         RestartOrchestrator, RemoveRun

THEOREM BenchmarkInvariantHolds == Spec => []BenchmarkInvariant
<1>1. Init => BenchmarkInvariant
  BY BenchmarkInit DEF Init
<1>2. BenchmarkInvariant /\ [Next]_vars => BenchmarkInvariant'
  BY ExperimentStep, OperatorStep, BenchmarkStutters, CollectLeavesBenchmark
  DEF Next, Benchmark, vars
<1>. QED
  BY <1>1, <1>2, PTL DEF Spec

\* Behind every repeat in the capacity artifact stands a sound measurement.
THEOREM CapacityIsSound == Spec => []CapacityFromSoundRuns
<1>1. BenchmarkInvariant => CapacityFromSoundRuns
  BY DEF BenchmarkInvariant, SoundFiles
<1>. QED
  BY <1>1, BenchmarkInvariantHolds, PTL

\* A measurement during which the path moved an odd number of times never passes.
THEOREM OddMovesAreSeen == Spec => []OddMovesNeverPass
<1>1. BenchmarkInvariant => OddMovesNeverPass
  BY DEF BenchmarkInvariant
<1>. QED
  BY <1>1, BenchmarkInvariantHolds, PTL

-----------------------------------------------------------------------------
(* The official dataset                                                    *)

Code == Commits \cup {1, Dirty}

RunRecord == [made : BOOLEAN, ended : BOOLEAN, count : Nat, flaws : SUBSET Flaws,
              capacities : SUBSET [Runs -> Nat], recorded : [Runs -> Nat],
              code : Code, load : BOOLEAN]

ScriptPlaces == {"off", "freeze", "loop", "refreeze", "launch", "running", "validate"}

\* Past the check of the frozen environment, and at work on one run of the plan.
Checked == script.at \in {"loop", "refreeze", "launch", "running", "validate"}
AtRun   == script.at \in {"refreeze", "launch", "running", "validate"}

CollectionTypeOK ==
    /\ tree \in [commit : Commits \cup {1}, clean : BOOLEAN]
    /\ freeze \in [commit : Code, capacity : [Runs -> Nat]]
    /\ orch \in [Runs -> Nat]
    /\ script \in [at : ScriptPlaces, skip : BOOLEAN, only : 0..Len(Plan), next : Nat \ {0},
                   commit : Code]
    /\ runs \in [PlanRuns -> RunRecord]
    /\ \A r \in PlanRuns : IsFiniteSet(runs[r].capacities)
    /\ moved \in BOOLEAN /\ skipped \in BOOLEAN
    /\ step # "off" <=> script.at = "running"
    /\ AtRun => script.next <= Len(Plan)
    /\ script.at = "off" => script.next = 1

\* The frozen fingerprint is that of the first run that recorded anything: while the
\* script is past its check nothing is derived anew.
FrozenCapacity ==
    /\ Checked => freeze.capacity = artifact
    /\ \A r \in PlanRuns : runs[r].recorded # NoArtifact => runs[r].recorded = freeze.capacity

\* While nobody moved the tree under the script, what ran is what was frozen.
FrozenCode ==
    ~moved =>
        /\ script.at # "off" => script.commit = tree.commit
        /\ Checked => tree.clean /\ freeze.commit = script.commit
        /\ \A r \in PlanRuns : runs[r].recorded # NoArtifact => runs[r].code = freeze.commit
        /\ step \in {"sinks", "generators", "metadata"} => runs[Planned].code = freeze.commit

\* Without --skip-existing the script has collected every run that it has passed itself,
\* and no row of the plan names one of them again.
LoadsChecked ==
    /\ ~skipped => ~script.skip
    /\ ~skipped /\ script.only = 0 =>
           \A i \in 1..Len(Plan) : i < script.next =>
               /\ runs[Plan[i]].made
               /\ Plan[i] \in HotRuns => runs[Plan[i]].load
               /\ AtRun => Plan[i] # Planned
    /\ step \in {"sinks", "generators", "metadata", "sample", "load", "done"}
           => runs[Planned].made
    /\ step = "done" /\ Planned \in HotRuns => runs[Planned].load
    /\ script.at = "validate" =>
           runs[Planned].made /\ (Planned \in HotRuns => runs[Planned].load)

\* The verdict on the dataset is withdrawn before a directory changes.
OfficialStands ==
    /\ step \in {"sinks", "generators", "metadata", "sample"} => official # "valid"
    /\ official = "valid" =>
           \A r \in PlanRuns : /\ runs[r].recorded # NoArtifact
                               /\ runs[r].capacities = {runs[r].recorded}
                               /\ ~skipped /\ r \in HotRuns => runs[r].load

CollectionInvariant ==
    /\ CollectionTypeOK /\ FrozenCapacity /\ FrozenCode /\ LoadsChecked /\ OfficialStands

\* The script goes to another place in its loop, or to another row of the plan.
LEMMA ScriptMoves ==
  ASSUME CollectionTypeOK, NEW at \in ScriptPlaces, script' = [script EXCEPT !.at = at]
  PROVE  /\ script' \in [at : ScriptPlaces, skip : BOOLEAN, only : 0..Len(Plan),
                         next : Nat \ {0}, commit : Code]
         /\ script'.at = at /\ script'.skip = script.skip /\ script'.only = script.only
         /\ script'.next = script.next /\ script'.commit = script.commit
<1>1. script \in [at : ScriptPlaces, skip : BOOLEAN, only : 0..Len(Plan), next : Nat \ {0},
                  commit : Code]
  BY DEF CollectionTypeOK
<1>2. script' = [script EXCEPT !.at = at]
  OBVIOUS
<1>. QED
  BY ONLY <1>1, <1>2, at \in ScriptPlaces

LEMMA ScriptSkips ==
  ASSUME CollectionTypeOK, script' = [script EXCEPT !.next = @ + 1]
  PROVE  /\ script' \in [at : ScriptPlaces, skip : BOOLEAN, only : 0..Len(Plan),
                         next : Nat \ {0}, commit : Code]
         /\ script'.next = script.next + 1 /\ script'.next \in Nat \ {0}
         /\ script'.at = script.at /\ script'.skip = script.skip /\ script'.only = script.only
         /\ script'.commit = script.commit
<1>1. script \in [at : ScriptPlaces, skip : BOOLEAN, only : 0..Len(Plan), next : Nat \ {0},
                  commit : Code]
  BY DEF CollectionTypeOK
<1>2. script' = [script EXCEPT !.next = @ + 1]
  OBVIOUS
<1>. QED
  BY ONLY <1>1, <1>2

LEMMA PlannedIsPlanned ==
  ASSUME CollectionTypeOK, AtRun
  PROVE  Planned \in PlanRuns /\ script.next \in 1..Len(Plan)
<1>1. Len(Plan) \in Nat
  BY PlanAssumption
<1>. QED
  BY <1>1 DEF CollectionTypeOK, Planned, PlanRuns

LEMMA EmptyRun ==
  /\ NoRun \in RunRecord
  /\ ~NoRun.made /\ NoRun.recorded = NoArtifact /\ NoRun.capacities = {}
  /\ NoArtifact \in [Runs -> Nat]
<1>1. NoArtifact \in [Runs -> Nat]
  BY DEF NoArtifact, NoAttempt
<1>. QED
  BY <1>1 DEF NoRun, RunRecord, Code, Dirty

LEMMA CollectionInit == ASSUME Init PROVE CollectionInvariant
<1>. USE DEF Init
<1>1. NoArtifact \in [Runs -> Nat] /\ artifact = NoArtifact
  BY EmptyRun DEF CapacityInit
<1>2. freeze = [commit |-> 0, capacity |-> NoArtifact] /\ Len(Plan) \in Nat
  BY PlanAssumption DEF NoFreeze
<1>3. CollectionTypeOK
  <2>1. runs \in [PlanRuns -> RunRecord] /\ \A r \in PlanRuns : IsFiniteSet(runs[r].capacities)
    BY EmptyRun, FS_EmptySet
  <2>2. /\ script \in [at : ScriptPlaces, skip : BOOLEAN, only : 0..Len(Plan),
                      next : Nat \ {0}, commit : Code]
        /\ script.at = "off" /\ script.next = 1
    BY <1>2 DEF NoScript, Code, Dirty, ScriptPlaces
  <2>3. /\ tree \in [commit : Commits \cup {1}, clean : BOOLEAN]
        /\ freeze \in [commit : Code, capacity : [Runs -> Nat]] /\ orch \in [Runs -> Nat]
    BY <1>1, <1>2 DEF Code, Dirty
  <2>. QED
    BY <2>1, <2>2, <2>3 DEF CollectionTypeOK, AtRun
<1>4. FrozenCapacity /\ FrozenCode
  BY EmptyRun DEF FrozenCapacity, FrozenCode, NoScript, Checked
<1>5. LoadsChecked /\ OfficialStands
  BY <1>2 DEF LoadsChecked, OfficialStands, NoScript, AtRun
<1>. QED
  BY <1>3, <1>4, <1>5 DEF CollectionInvariant

-----------------------------------------------------------------------------
\* The benchmark next to it: nothing is derived while the script is at work.
LEMMA BenchmarkKeepsCollection ==
  ASSUME CollectionInvariant, Benchmark PROVE CollectionInvariant'
<1>1. UNCHANGED colVars
  BY DEF Benchmark
<1>2. script.at # "off" => artifact' = artifact
  BY DEF Benchmark, Experiment, Preflight, Prepare, WorkloadEnds, BeginMeasurement,
         EndMeasurement, WaitWorkload, StopCollector, Recheck, Aggregate, Validate, Finish,
         Killed, PollStarts, PollAppends, PollFails, PollIsSlow, StragglerEnds, Migrate,
         EndExperiment, capFiles
<1>3. CollectionTypeOK'
  BY <1>1 DEF CollectionInvariant, CollectionTypeOK, colVars, AtRun
<1>4. FrozenCapacity' /\ FrozenCode'
  BY <1>1, <1>2 DEF CollectionInvariant, FrozenCapacity, FrozenCode, colVars, Checked, Planned
<1>5. LoadsChecked' /\ OfficialStands'
  BY <1>1 DEF CollectionInvariant, LoadsChecked, OfficialStands, colVars, AtRun, Planned
<1>. QED
  BY <1>3, <1>4, <1>5 DEF CollectionInvariant

-----------------------------------------------------------------------------
\* The script.  None of these steps touches a directory or the working tree.
LEMMA NoScriptType ==
  /\ NoScript \in [at : ScriptPlaces, skip : BOOLEAN, only : 0..Len(Plan), next : Nat \ {0},
                   commit : Code]
  /\ NoScript.at = "off" /\ NoScript.next = 1 /\ ~NoScript.skip
<1>1. Len(Plan) \in Nat
  BY PlanAssumption
<1>. QED
  BY <1>1 DEF NoScript, ScriptPlaces, Code, Dirty

LEMMA ScriptEndsSafely ==
  ASSUME CollectionInvariant, ScriptEnds, step' = "off",
         UNCHANGED <<capVars, tree, freeze, orch, runs, skipped, moved>>,
         \/ UNCHANGED official
         \/ OfficialStands'
  PROVE  CollectionInvariant'
<1>. USE NoScriptType DEF ScriptEnds, CollectionInvariant
<1>1. CollectionTypeOK'
  BY DEF CollectionTypeOK, AtRun
<1>2. FrozenCapacity' /\ FrozenCode'
  BY DEF FrozenCapacity, FrozenCode, Checked
<1>3. LoadsChecked'
  BY PlanAssumption DEF LoadsChecked
<1>4. OfficialStands'
  BY DEF OfficialStands
<1>. QED
  BY <1>1, <1>2, <1>3, <1>4

LEMMA StartScriptStep ==
  ASSUME CollectionInvariant, NEW skip \in BOOLEAN, NEW only \in 0..Len(Plan),
         StartScript(only, skip)
  PROVE  CollectionInvariant'
<1>. USE DEF StartScript, CollectionInvariant
<1>1. CollectionTypeOK'
  BY DEF CollectionTypeOK, AtRun, ScriptPlaces, Code
<1>2. FrozenCapacity' /\ FrozenCode'
  BY DEF CollectionTypeOK, FrozenCapacity, FrozenCode, Checked
<1>3. LoadsChecked'
  BY DEF CollectionTypeOK, LoadsChecked
<1>4. OfficialStands'
  BY DEF CollectionTypeOK, OfficialStands
<1>. QED
  BY <1>1, <1>2, <1>3, <1>4

LEMMA FreezeStep ==
  ASSUME BenchmarkInvariant, CollectionInvariant, FreezeEnvironment
  PROVE  CollectionInvariant'
<1>1. CASE ~Frozen
  <2>1. ScriptEnds /\ script.at # "running"
        /\ UNCHANGED <<capVars, tree, freeze, orch, runs, skipped, moved, step, official>>
    BY <1>1 DEF FreezeEnvironment
  <2>2. step' = "off"
    BY <2>1 DEF CollectionInvariant, CollectionTypeOK
  <2>. QED
    BY <2>1, <2>2, ScriptEndsSafely
<1>2. CASE Frozen
  <2>. USE <1>2 DEF FreezeEnvironment, CollectionInvariant
  <2>0. /\ script.at \in {"freeze", "refreeze"} /\ script'.at \in {"loop", "launch"}
        /\ script'.at = IF script.at = "freeze" THEN "loop" ELSE "launch"
        /\ script'.skip = script.skip /\ script'.only = script.only
        /\ script'.next = script.next /\ script'.commit = script.commit
        /\ script' \in [at : ScriptPlaces, skip : BOOLEAN, only : 0..Len(Plan),
                        next : Nat \ {0}, commit : Code]
    <3>. DEFINE at == IF script.at = "freeze" THEN "loop" ELSE "launch"
    <3>1. /\ script.at \in {"freeze", "refreeze"} /\ script' = [script EXCEPT !.at = at]
          /\ CollectionTypeOK
      OBVIOUS
    <3>2. at \in {"loop", "launch"} /\ at \in ScriptPlaces
      BY DEF ScriptPlaces
    <3>. HIDE DEF at
    <3>3. /\ script' \in [at : ScriptPlaces, skip : BOOLEAN, only : 0..Len(Plan),
                          next : Nat \ {0}, commit : Code]
          /\ script'.at = at /\ script'.skip = script.skip /\ script'.only = script.only
          /\ script'.next = script.next /\ script'.commit = script.commit
      BY ONLY <3>1, <3>2, ScriptMoves
    <3>. QED
      BY <3>1, <3>2, <3>3 DEF at
  <2>1. freeze' = Fingerprint /\ (freeze = NoFreeze \/ freeze = Fingerprint) /\ tree.clean
    BY DEF Frozen
  <2>2. /\ freeze'.capacity = artifact /\ freeze'.commit = script.commit
        /\ freeze # freeze' => freeze.capacity = NoArtifact
    BY <2>1 DEF Fingerprint, NoFreeze
  <2>3. freeze' \in [commit : Code, capacity : [Runs -> Nat]]
    BY <2>1 DEF Fingerprint, CollectionTypeOK, BenchmarkInvariant, BenchmarkTypeOK
  <2>4. freeze # freeze' => \A r \in PlanRuns : runs[r].recorded = NoArtifact
    BY <2>2 DEF FrozenCapacity
  <2>5. CollectionTypeOK'
    BY <2>0, <2>3 DEF CollectionTypeOK, AtRun
  <2>6. FrozenCapacity'
    BY <2>0, <2>2, <2>4 DEF FrozenCapacity, capVars, capFiles
  <2>7. FrozenCode'
    BY <2>0, <2>1, <2>2, <2>4 DEF FrozenCode, CollectionTypeOK
  <2>8. LoadsChecked' /\ OfficialStands'
    BY <2>0 DEF LoadsChecked, OfficialStands, CollectionTypeOK, AtRun, Planned
  <2>. QED
    BY <2>5, <2>6, <2>7, <2>8
<1>. QED
  BY <1>1, <1>2

\* From one row to the next, or to the work on this one.
LEMMA RunOneStep == ASSUME CollectionInvariant, RunOne PROVE CollectionInvariant'
<1>. USE DEF CollectionInvariant
<1>0. /\ script.at = "loop" /\ script.next <= Len(Plan) /\ Len(Plan) \in Nat
      /\ script.next \in Nat \ {0} /\ step = "off"
      /\ UNCHANGED <<capVars, tree, edits, freeze, orch, step, runs, launches, official,
                     skipped, moved>>
  BY PlanAssumption DEF RunOne, CollectionTypeOK
<1>1. CASE ScriptEnds
  BY <1>0, <1>1, ScriptEndsSafely
<1>2. CASE script' = [script EXCEPT !.at = "refreeze"] /\ ~runs[Planned].made
  <2>0. /\ script' \in [at : ScriptPlaces, skip : BOOLEAN, only : 0..Len(Plan),
                        next : Nat \ {0}, commit : Code]
        /\ script'.at = "refreeze" /\ script'.skip = script.skip /\ script'.only = script.only
        /\ script'.next = script.next /\ script'.commit = script.commit
    BY <1>2, ScriptMoves DEF ScriptPlaces
  <2>1. CollectionTypeOK'
    BY <1>0, <2>0 DEF CollectionTypeOK, AtRun
  <2>2. FrozenCapacity' /\ FrozenCode'
    BY <1>0, <2>0 DEF FrozenCapacity, FrozenCode, Checked, capVars, capFiles
  <2>3. LoadsChecked' /\ OfficialStands'
    BY <1>0, <1>2, <2>0 DEF LoadsChecked, OfficialStands, AtRun, Planned
  <2>. QED
    BY <2>1, <2>2, <2>3
<1>3. CASE /\ script' = [script EXCEPT !.next = @ + 1]
           /\ script.only \notin {0, script.next} \/ script.skip
  <2>0. /\ script' \in [at : ScriptPlaces, skip : BOOLEAN, only : 0..Len(Plan),
                        next : Nat \ {0}, commit : Code]
        /\ script'.next = script.next + 1 /\ script'.next \in Nat \ {0}
        /\ script'.at = "loop" /\ script'.skip = script.skip /\ script'.only = script.only
        /\ script'.commit = script.commit
    BY <1>0, <1>3, ScriptSkips
  <2>1. CollectionTypeOK'
    BY <1>0, <2>0 DEF CollectionTypeOK, AtRun
  <2>2. FrozenCapacity' /\ FrozenCode'
    BY <1>0, <2>0 DEF FrozenCapacity, FrozenCode, Checked, capVars, capFiles
  <2>3. LoadsChecked' /\ OfficialStands'
    BY <1>0, <1>3, <2>0 DEF LoadsChecked, OfficialStands, CollectionTypeOK, AtRun, Planned
  <2>. QED
    BY <2>1, <2>2, <2>3
<1>. QED
  BY <1>1, <1>2, <1>3 DEF RunOne

LEMMA LaunchStep == ASSUME CollectionInvariant, Launch PROVE CollectionInvariant'
<1>. USE DEF CollectionInvariant, Launch
<1>0. /\ script' \in [at : ScriptPlaces, skip : BOOLEAN, only : 0..Len(Plan),
                      next : Nat \ {0}, commit : Code]
      /\ script'.at = "running" /\ script'.skip = script.skip /\ script'.only = script.only
      /\ script'.next = script.next /\ script'.commit = script.commit
  BY ScriptMoves DEF ScriptPlaces
<1>1. CollectionTypeOK'
  BY <1>0 DEF CollectionTypeOK, AtRun
<1>2. FrozenCapacity' /\ FrozenCode'
  BY <1>0 DEF FrozenCapacity, FrozenCode, Checked, capVars, capFiles
<1>3. LoadsChecked' /\ OfficialStands'
  BY <1>0 DEF LoadsChecked, OfficialStands, CollectionTypeOK, AtRun, Planned
<1>. QED
  BY <1>1, <1>2, <1>3

LEMMA CommandDoneStep == ASSUME CollectionInvariant, CommandDone PROVE CollectionInvariant'
<1>. USE DEF CollectionInvariant, CommandDone
<1>1. CASE step # "done"
  BY <1>1, ScriptEndsSafely
<1>2. CASE step = "done"
  <2>0. /\ script' \in [at : ScriptPlaces, skip : BOOLEAN, only : 0..Len(Plan),
                        next : Nat \ {0}, commit : Code]
        /\ script'.at = "validate" /\ script'.skip = script.skip /\ script'.only = script.only
        /\ script'.next = script.next /\ script'.commit = script.commit
    BY <1>2, ScriptMoves DEF ScriptPlaces
  <2>1. CollectionTypeOK'
    BY <1>2, <2>0 DEF CollectionTypeOK, AtRun
  <2>2. FrozenCapacity' /\ FrozenCode'
    BY <1>2, <2>0 DEF FrozenCapacity, FrozenCode, Checked, capVars, capFiles
  <2>3. LoadsChecked' /\ OfficialStands'
    BY <1>2, <2>0 DEF LoadsChecked, OfficialStands, AtRun, Planned
  <2>. QED
    BY <2>1, <2>2, <2>3
<1>. QED
  BY <1>1, <1>2

\* The run that was validated is one of those passed; the rows after it are others.
LEMMA ValidateRunStep == ASSUME CollectionInvariant, ValidateRun PROVE CollectionInvariant'
<1>. USE DEF CollectionInvariant, ValidateRun
<1>0. step = "off" /\ step' = "off" /\ script.next \in 1..Len(Plan) /\ Len(Plan) \in Nat
  BY PlannedIsPlanned, PlanAssumption DEF CollectionTypeOK, AtRun
<1>1. CASE ~Valid(runs[Planned])
  BY <1>0, <1>1, ScriptEndsSafely
<1>2. CASE Valid(runs[Planned])
  <2>0. /\ script' \in [at : ScriptPlaces, skip : BOOLEAN, only : 0..Len(Plan),
                       next : Nat \ {0}, commit : Code]
        /\ script'.at = "loop" /\ script'.next = script.next + 1
        /\ script'.skip = script.skip /\ script'.only = script.only
        /\ script'.commit = script.commit /\ script.at = "validate"
        /\ UNCHANGED <<capVars, tree, edits, freeze, orch, step, runs, launches, official,
                       skipped, moved>>
    <3>1. script.next + 1 \in Nat \ {0} /\ "loop" \in ScriptPlaces
      BY <1>0 DEF ScriptPlaces
    <3>2. script' = [script EXCEPT !.at = "loop", !.next = @ + 1]
      BY <1>2
    <3>. QED
      BY <3>1, <3>2 DEF CollectionTypeOK
  <2>1. CollectionTypeOK'
    BY <1>0, <2>0 DEF CollectionTypeOK, AtRun
  <2>2. FrozenCapacity' /\ FrozenCode'
    BY <1>0, <2>0 DEF FrozenCapacity, FrozenCode, Checked, CollectionTypeOK, capVars, capFiles
  <2>3. ASSUME ~skipped, script.only = 0, NEW i \in 1..Len(Plan), i < script'.next
        PROVE  runs[Plan[i]].made /\ (Plan[i] \in HotRuns => runs[Plan[i]].load)
    <3>1. i < script.next \/ i = script.next
      BY <1>0, <2>0, <2>3
    <3>. QED
      BY <2>0, <2>3, <3>1 DEF LoadsChecked, Planned
  <2>4. LoadsChecked'
    BY <1>0, <2>0, <2>3 DEF LoadsChecked, AtRun
  <2>5. OfficialStands'
    BY <2>0 DEF OfficialStands
  <2>. QED
    BY <2>1, <2>2, <2>4, <2>5
<1>. QED
  BY <1>1, <1>2

\* The script has passed every row: with --all each run is valid as it is, and was
\* collected by this very script unless it may skip.
LEMMA ValidateOfficialStep ==
  ASSUME CollectionInvariant, ValidateOfficial PROVE CollectionInvariant'
<1>. USE DEF CollectionInvariant
<1>1. /\ ScriptEnds /\ script.at = "loop" /\ script.next > Len(Plan) /\ step = "off"
      /\ UNCHANGED <<capVars, tree, edits, freeze, orch, step, runs, launches, skipped, moved>>
      /\ Len(Plan) \in Nat /\ script.next \in Nat
  BY PlanAssumption DEF ValidateOfficial, CollectionTypeOK
<1>2. CASE UNCHANGED official
  BY <1>1, <1>2, ScriptEndsSafely
<1>3. CASE official' # "valid"
  <2>1. OfficialStands'
    BY <1>1, <1>3 DEF OfficialStands
  <2>. QED
    BY <1>1, <2>1, ScriptEndsSafely
<1>4. CASE script.only = 0 /\ \A r \in PlanRuns : Valid(runs[r])
  <2>1. ASSUME NEW r \in PlanRuns
        PROVE  runs[r].recorded # NoArtifact /\ runs[r].capacities = {runs[r].recorded}
    <3>1. /\ IsFiniteSet(runs[r].capacities) /\ Cardinality(runs[r].capacities) = 1
          /\ runs[r].recorded \in runs[r].capacities /\ runs[r].recorded # NoArtifact
      BY <1>4 DEF Valid, OneCapacity, Described, CollectionTypeOK
    <3>2. PICK c : runs[r].capacities = {c}
      BY <3>1, FS_Singleton
    <3>. QED
      BY <3>1, <3>2
  <2>2. ASSUME NEW r \in PlanRuns, ~skipped, r \in HotRuns PROVE runs[r].load
    <3>1. PICK i \in 1..Len(Plan) : r = Plan[i]
      BY DEF PlanRuns
    <3>. QED
      BY <1>1, <1>4, <2>2, <3>1 DEF LoadsChecked
  <2>3. OfficialStands'
    BY <1>1, <2>1, <2>2 DEF OfficialStands
  <2>. QED
    BY <1>1, <2>3, ScriptEndsSafely
<1>. QED
  BY <1>2, <1>3, <1>4 DEF ValidateOfficial

-----------------------------------------------------------------------------
\* The run process.

\* A step that leaves the directories alone.
LEMMA QuietStep ==
  ASSUME CollectionInvariant, step # "off",
         UNCHANGED <<capVars, tree, freeze, orch, script, runs, skipped, moved>>,
         official' \in {official, "none"},
         \/ step' \in {"prepare", "twin", "ping", "mkdir", "failed"}
         \/ step' = "done" /\ step = "load" /\ ~LoadProblem(Planned)
  PROVE  CollectionInvariant'
<1>. USE DEF CollectionInvariant
<1>1. CollectionTypeOK'
  BY DEF CollectionTypeOK, AtRun
<1>2. FrozenCapacity' /\ FrozenCode'
  BY DEF FrozenCapacity, FrozenCode, Checked, CollectionTypeOK, capVars, capFiles
<1>3. LoadsChecked' /\ OfficialStands'
  BY DEF LoadsChecked, OfficialStands, CollectionTypeOK, AtRun, Planned, LoadProblem
<1>. QED
  BY <1>1, <1>2, <1>3

\* A step that leaves the planned run as run, in the directory that this process made.
LEMMA WritingStep ==
  ASSUME CollectionInvariant, step # "off",
         NEW run \in RunRecord, ThisRun(run), IsFiniteSet(run.capacities), run.made,
         UNCHANGED <<capVars, tree, freeze, orch, script, skipped, moved>>,
         official' # "valid",
         step' \in {"sinks", "generators", "metadata", "sample", "load", "failed"},
         run.recorded # NoArtifact => run.recorded = freeze.capacity,
         ~moved /\ (run.recorded # NoArtifact \/ step' \in {"sinks", "generators", "metadata"})
             => run.code = freeze.commit
  PROVE  CollectionInvariant'
<1>. USE DEF CollectionInvariant
<1>0. /\ script.at = "running" /\ Planned \in PlanRuns /\ Planned' = Planned
      /\ runs \in [PlanRuns -> RunRecord]
  BY PlannedIsPlanned DEF CollectionTypeOK, AtRun, Planned
<1>1. /\ runs' \in [PlanRuns -> RunRecord] /\ runs'[Planned] = run
      /\ \A r \in PlanRuns : r # Planned => runs'[r] = runs[r]
  BY <1>0 DEF ThisRun
<1>2. CollectionTypeOK'
  BY <1>0, <1>1 DEF CollectionTypeOK, AtRun
<1>3. FrozenCapacity'
  BY <1>0, <1>1 DEF FrozenCapacity, Checked, capVars, capFiles
<1>4. FrozenCode'
  BY <1>0, <1>1 DEF FrozenCode, Checked
<1>5. LoadsChecked'
  <2>1. \A i \in 1..Len(Plan) : Plan[i] \in PlanRuns
    BY DEF PlanRuns
  <2>. QED
    BY <1>0, <1>1, <2>1 DEF LoadsChecked, AtRun
<1>6. OfficialStands'
  BY DEF OfficialStands
<1>. QED
  BY <1>2, <1>3, <1>4, <1>5, <1>6

Writing == step \in {"sinks", "generators", "metadata", "sample"}

\* What is known of the planned run while its directory is written.
LEMMA WritingFacts ==
  ASSUME CollectionInvariant, Writing
  PROVE  /\ step # "off" /\ script.at = "running" /\ Planned \in PlanRuns
         /\ runs[Planned] \in RunRecord /\ IsFiniteSet(runs[Planned].capacities)
         /\ runs[Planned].made /\ official # "valid" /\ freeze.capacity = artifact
         /\ runs[Planned].recorded # NoArtifact =>
                /\ runs[Planned].recorded = freeze.capacity
                /\ ~moved => runs[Planned].code = freeze.commit
         /\ ~moved /\ step # "sample" => runs[Planned].code = freeze.commit
<1>1. step # "off" /\ script.at = "running"
  BY DEF CollectionInvariant, CollectionTypeOK, Writing
<1>2. Planned \in PlanRuns
  BY <1>1, PlannedIsPlanned DEF CollectionInvariant, AtRun
<1>. QED
  BY <1>1, <1>2 DEF CollectionInvariant, CollectionTypeOK, FrozenCapacity, FrozenCode, LoadsChecked,
                    OfficialStands, Writing, Checked

LEMMA AbandonedRun ==
  ASSUME NEW r \in RunRecord, r.made
  PROVE  LET left == [NoRun EXCEPT !.made = r.made] IN
         /\ left \in RunRecord /\ left.made /\ left.recorded = NoArtifact
         /\ IsFiniteSet(left.capacities)
<1>1. NoRun.capacities = {} /\ r.made \in BOOLEAN
  BY EmptyRun DEF RunRecord
<1>2. [NoRun EXCEPT !.made = r.made] \in RunRecord
  BY <1>1, EmptyRun DEF RunRecord
<1>3. [NoRun EXCEPT !.made = r.made].capacities = {}
  BY <1>1, EmptyRun DEF RunRecord
<1>. DEFINE left == [NoRun EXCEPT !.made = r.made]
<1>4. left.made /\ left.recorded = NoRun.recorded
  BY EmptyRun DEF RunRecord
<1>. HIDE DEF left
<1>5. IsFiniteSet(left.capacities)
  BY <1>3, FS_EmptySet DEF left
<1>. QED
  BY <1>2, <1>4, <1>5, EmptyRun DEF left

LEMMA PreparationStep ==
  ASSUME CollectionInvariant,
         InitializeRuntime \/ ComputeRates \/ WaitForTwin \/ CheckConnectivity \/ CheckLoad
  PROVE  CollectionInvariant'
<1>1. /\ step # "off"
      /\ UNCHANGED <<capVars, tree, freeze, orch, script, runs, official, skipped, moved>>
  BY DEF InitializeRuntime, ComputeRates, WaitForTwin, CheckConnectivity, Before, CheckLoad
<1>2. \/ step' \in {"prepare", "twin", "ping", "mkdir", "failed"}
      \/ step' = "done" /\ step = "load" /\ ~LoadProblem(Planned)
  BY DEF InitializeRuntime, ComputeRates, WaitForTwin, CheckConnectivity, Before, CheckLoad
<1>. QED
  BY <1>1, <1>2, QuietStep

LEMMA MakeRunDirStep == ASSUME CollectionInvariant, MakeRunDir PROVE CollectionInvariant'
<1>1. CASE runs[Planned].made
  BY <1>1, QuietStep DEF MakeRunDir
<1>2. CASE ~runs[Planned].made
  <2>. DEFINE run == [NoRun EXCEPT !.made = TRUE, !.code = CodeOf(tree)]
  <2>1. /\ ThisRun(run) /\ step # "off" /\ step = "mkdir" /\ step' = "sinks" /\ official' = "none"
        /\ UNCHANGED <<capVars, tree, freeze, orch, script, skipped, moved>>
    BY <1>2 DEF MakeRunDir
  <2>2. CodeOf(tree) \in Code
    BY DEF CollectionInvariant, CollectionTypeOK, CodeOf, Code
  <2>3. /\ run \in RunRecord /\ run.made /\ run.recorded = NoArtifact
        /\ run.capacities = {} /\ run.code = CodeOf(tree)
    BY <2>2, EmptyRun DEF RunRecord
  <2>4. ~moved => CodeOf(tree) = freeze.commit
    BY <2>1 DEF CollectionInvariant, CollectionTypeOK, FrozenCode, Checked, CodeOf
  <2>. HIDE DEF run
  <2>. QED
    BY <2>1, <2>3, <2>4, FS_EmptySet, WritingStep
<1>. QED
  BY <1>1, <1>2

LEMMA ProcessesStep == ASSUME CollectionInvariant, StartSinks \/ StartGenerators
                       PROVE CollectionInvariant'
<1>0. PICK next \in {"generators", "metadata"} :
        /\ step \in {"sinks", "generators"}
        /\ \/ step' = next /\ UNCHANGED runs
           \/ step' = "failed" /\ AbandonRun
        /\ UNCHANGED <<capVars, tree, freeze, orch, script, official, skipped, moved>>
  BY DEF StartSinks, StartGenerators, StartProcesses
<1>1. Writing /\ step # "sample"
  BY <1>0 DEF Writing
<1>2. CASE step' = next /\ UNCHANGED runs
  <2>1. ThisRun(runs[Planned])
    BY <1>1, <1>2, WritingFacts DEF ThisRun, CollectionInvariant, CollectionTypeOK
  <2>. QED
    BY <1>0, <1>1, <1>2, <2>1, WritingFacts, WritingStep
<1>3. CASE step' = "failed" /\ AbandonRun
  BY <1>0, <1>1, <1>3, WritingFacts, WritingStep, AbandonedRun DEF AbandonRun
<1>. QED
  BY <1>0, <1>2, <1>3

LEMMA BeginSamplingStep ==
  ASSUME BenchmarkInvariant, CollectionInvariant, BeginSampling PROVE CollectionInvariant'
<1>1. Writing /\ step # "sample" /\ artifact \in [Runs -> Nat]
  BY DEF BeginSampling, Writing, BenchmarkInvariant, BenchmarkTypeOK
<1>. DEFINE run == [runs[Planned] EXCEPT !.recorded = artifact]
<1>2. /\ run \in RunRecord /\ run.made /\ run.recorded = artifact
      /\ run.capacities = runs[Planned].capacities /\ run.code = runs[Planned].code
  BY <1>1, WritingFacts DEF RunRecord
<1>3. /\ ThisRun(run) /\ step' = "sample"
      /\ UNCHANGED <<capVars, tree, freeze, orch, script, official, skipped, moved>>
  BY DEF BeginSampling
<1>. HIDE DEF run
<1>. QED
  BY <1>1, <1>2, <1>3, WritingFacts, WritingStep

LEMMA SampleStep ==
  ASSUME CollectionInvariant, NEW flaws \in SUBSET Flaws, Sample(flaws)
  PROVE  CollectionInvariant'
<1>1. Writing /\ orch \in [Runs -> Nat]
  BY DEF Sample, Writing, CollectionInvariant, CollectionTypeOK
<1>. DEFINE old == runs[Planned]
            counted == [old EXCEPT !.count = @ + 1]
            flawed == [counted EXCEPT !.flaws = @ \union flaws]
            run == [flawed EXCEPT !.capacities = @ \union {orch}]
<1>2. old \in RunRecord /\ old.made
  BY <1>1, WritingFacts
<1>. HIDE DEF old
<1>3. /\ counted \in RunRecord /\ counted.made /\ counted.recorded = old.recorded
      /\ counted.capacities = old.capacities /\ counted.code = old.code
  BY <1>2 DEF RunRecord
<1>. HIDE DEF counted
<1>4. /\ flawed \in RunRecord /\ flawed.made /\ flawed.recorded = old.recorded
      /\ flawed.capacities = old.capacities /\ flawed.code = old.code
  BY <1>3 DEF RunRecord
<1>. HIDE DEF flawed
<1>5. /\ run \in RunRecord /\ run.made /\ run.recorded = old.recorded
      /\ run.capacities = old.capacities \union {orch} /\ run.code = old.code
  BY <1>1, <1>4 DEF RunRecord
<1>6. ThisRun(run)
  BY <1>2 DEF Sample, ThisRun, run, flawed, counted, old, RunRecord
<1>. HIDE DEF run
<1>7. IsFiniteSet(run.capacities)
  BY <1>1, <1>5, WritingFacts, FS_AddElement DEF old
<1>8. /\ step' = "sample"
      /\ UNCHANGED <<capVars, tree, edits, freeze, orch, script, official, skipped, moved>>
  BY DEF Sample
<1>. QED
  BY <1>1, <1>5, <1>6, <1>7, <1>8, WritingFacts, WritingStep DEF old

LEMMA SamplingEndsStep ==
  ASSUME CollectionInvariant, SampleFails \/ EndSampling PROVE CollectionInvariant'
<1>1. Writing
  BY DEF SampleFails, EndSampling, Writing
<1>2. CASE SampleFails
  BY <1>1, <1>2, WritingFacts, WritingStep, AbandonedRun DEF SampleFails, AbandonRun
<1>3. CASE EndSampling
  <2>1. PICK load \in BOOLEAN : ThisRun([runs[Planned] EXCEPT !.ended = TRUE, !.load = load])
    BY <1>3 DEF EndSampling, AchievedLoad
  <2>. DEFINE run == [runs[Planned] EXCEPT !.ended = TRUE, !.load = load]
  <2>2. /\ run \in RunRecord /\ run.made /\ run.recorded = runs[Planned].recorded
        /\ run.capacities = runs[Planned].capacities /\ run.code = runs[Planned].code
    BY <1>1, WritingFacts DEF RunRecord
  <2>3. /\ step' = "load"
        /\ UNCHANGED <<capVars, tree, freeze, orch, script, official, skipped, moved>>
    BY <1>3 DEF EndSampling
  <2>. HIDE DEF run
  <2>4. ThisRun(run)
    BY <2>1 DEF run
  <2>. QED
    BY <1>1, <2>2, <2>3, <2>4, WritingFacts, WritingStep
<1>. QED
  BY <1>2, <1>3

-----------------------------------------------------------------------------
\* The operator and the machine.

LEMMA InterruptStep == ASSUME CollectionInvariant, Interrupt PROVE CollectionInvariant'
<1>0. /\ ScriptEnds /\ step' = "off" /\ script.at # "off"
      /\ UNCHANGED <<capVars, tree, freeze, orch, official, skipped, moved>>
  BY DEF Interrupt
<1>1. CASE ~Writing
  BY <1>0, <1>1, ScriptEndsSafely DEF Interrupt, Writing
<1>2. CASE Writing
  <2>. DEFINE left == [NoRun EXCEPT !.made = runs[Planned].made]
  <2>1. /\ left \in RunRecord /\ left.recorded = NoArtifact /\ IsFiniteSet(left.capacities)
    BY <1>2, WritingFacts, AbandonedRun
  <2>2. runs' = [runs EXCEPT ![Planned] = left]
    BY <1>2 DEF Interrupt, Writing, AbandonRun, ThisRun
  <2>. HIDE DEF left
  <2>3. /\ runs' \in [PlanRuns -> RunRecord] /\ runs'[Planned] = left
        /\ \A r \in PlanRuns : r # Planned => runs'[r] = runs[r]
    BY <1>2, <2>1, <2>2, WritingFacts DEF CollectionInvariant, CollectionTypeOK
  <2>. USE NoScriptType DEF ScriptEnds, CollectionInvariant
  <2>4. CollectionTypeOK'
    BY <1>0, <2>1, <2>3 DEF CollectionTypeOK, AtRun
  <2>5. FrozenCapacity'
    BY <1>0, <2>1, <2>3 DEF FrozenCapacity, Checked
  <2>6. FrozenCode'
    BY <1>0, <2>1, <2>3 DEF FrozenCode, Checked
  <2>7. LoadsChecked'
    BY <1>0, PlanAssumption DEF LoadsChecked
  <2>8. OfficialStands'
    BY <1>0, <1>2, WritingFacts DEF OfficialStands
  <2>. QED
    BY <2>4, <2>5, <2>6, <2>7, <2>8
<1>. QED
  BY <1>1, <1>2

LEMMA ChangeTreeStep == ASSUME CollectionInvariant, ChangeTree PROVE CollectionInvariant'
<1>. USE DEF CollectionInvariant
<1>0. /\ tree' \in [commit : Commits \cup {1}, clean : BOOLEAN]
      /\ moved' = (moved \/ script.at # "off")
      /\ UNCHANGED <<capVars, freeze, orch, script, step, runs, official, skipped>>
  <2>1. CASE tree' \in [commit : Commits, clean : {TRUE}]
    BY <2>1 DEF ChangeTree
  <2>2. CASE tree' = [tree EXCEPT !.clean = FALSE]
    BY <2>2 DEF ChangeTree, CollectionTypeOK
  <2>. QED
    BY <2>1, <2>2 DEF ChangeTree
<1>1. CollectionTypeOK'
  BY <1>0 DEF CollectionTypeOK, AtRun
<1>2. FrozenCapacity' /\ FrozenCode'
  BY <1>0 DEF CollectionTypeOK, FrozenCapacity, FrozenCode, Checked, capVars, capFiles, Planned
<1>3. LoadsChecked' /\ OfficialStands'
  BY <1>0 DEF LoadsChecked, OfficialStands, AtRun, Planned
<1>. QED
  BY <1>1, <1>2, <1>3

LEMMA RestartOrchestratorStep ==
  ASSUME BenchmarkInvariant, CollectionInvariant, RestartOrchestrator
  PROVE  CollectionInvariant'
<1>. USE DEF CollectionInvariant
<1>0. /\ orch' \in [Runs -> Nat]
      /\ UNCHANGED <<capVars, tree, freeze, script, step, runs, official, skipped, moved>>
  BY DEF RestartOrchestrator, BenchmarkInvariant, BenchmarkTypeOK
<1>1. CollectionTypeOK'
  BY <1>0 DEF CollectionTypeOK, AtRun
<1>2. FrozenCapacity' /\ FrozenCode'
  BY <1>0 DEF FrozenCapacity, FrozenCode, Checked, capVars, capFiles, Planned
<1>3. LoadsChecked' /\ OfficialStands'
  BY <1>0 DEF LoadsChecked, OfficialStands, AtRun, Planned
<1>. QED
  BY <1>1, <1>2, <1>3

LEMMA RemoveRunStep ==
  ASSUME CollectionInvariant, NEW r \in PlanRuns, RemoveRun(r) PROVE CollectionInvariant'
<1>. USE DEF CollectionInvariant
<1>0. /\ script.at = "off" /\ step = "off" /\ script.next = 1 /\ official' = "none"
      /\ UNCHANGED <<capVars, tree, freeze, orch, script, step, skipped, moved>>
      /\ Len(Plan) \in Nat
  BY PlanAssumption DEF RemoveRun, CollectionTypeOK
<1>1. /\ runs' \in [PlanRuns -> RunRecord] /\ runs'[r] = NoRun
      /\ \A q \in PlanRuns : q # r => runs'[q] = runs[q]
  BY EmptyRun DEF RemoveRun, CollectionTypeOK
<1>2. CollectionTypeOK'
  BY <1>0, <1>1, EmptyRun, FS_EmptySet DEF CollectionTypeOK, AtRun
<1>3. FrozenCapacity'
  BY <1>0, <1>1, EmptyRun DEF FrozenCapacity, Checked
<1>4. FrozenCode'
  BY <1>0, <1>1, EmptyRun DEF FrozenCode, Checked
<1>5. LoadsChecked' /\ OfficialStands'
  BY <1>0 DEF LoadsChecked, OfficialStands
<1>. QED
  BY <1>2, <1>3, <1>4, <1>5

LEMMA CollectionStutters ==
  ASSUME CollectionInvariant, UNCHANGED vars PROVE CollectionInvariant'
<1>. USE DEF CollectionInvariant, vars, capVars, capFiles, colVars
<1>1. CollectionTypeOK'
  BY DEF CollectionTypeOK, AtRun
<1>2. FrozenCapacity' /\ FrozenCode'
  BY DEF FrozenCapacity, FrozenCode, Checked, Planned
<1>3. LoadsChecked' /\ OfficialStands'
  BY DEF LoadsChecked, OfficialStands, AtRun, Planned
<1>. QED
  BY <1>1, <1>2, <1>3

LEMMA CollectStep ==
  ASSUME BenchmarkInvariant, CollectionInvariant, Collect PROVE CollectionInvariant'
<1>1. CASE \E skip \in BOOLEAN, only \in 0..Len(Plan) : StartScript(only, skip)
  BY <1>1, StartScriptStep
<1>2. CASE FreezeEnvironment \/ RunOne \/ Launch \/ CommandDone \/ ValidateRun \/ ValidateOfficial
  BY <1>2, FreezeStep, RunOneStep, LaunchStep, CommandDoneStep, ValidateRunStep,
     ValidateOfficialStep
<1>3. CASE \/ InitializeRuntime \/ ComputeRates \/ WaitForTwin \/ CheckConnectivity
           \/ CheckLoad \/ MakeRunDir \/ StartSinks \/ StartGenerators \/ BeginSampling
  BY <1>3, PreparationStep, MakeRunDirStep, ProcessesStep, BeginSamplingStep
<1>4. CASE \E flaws \in {{}} \union {{f} : f \in Flaws} : Sample(flaws)
  <2>1. PICK flaws \in SUBSET Flaws : Sample(flaws)
    BY <1>4
  <2>. QED
    BY <2>1, SampleStep
<1>5. CASE SampleFails \/ EndSampling
  BY <1>5, SamplingEndsStep
<1>6. CASE Interrupt \/ ChangeTree \/ RestartOrchestrator \/ \E r \in PlanRuns : RemoveRun(r)
  BY <1>6, InterruptStep, ChangeTreeStep, RestartOrchestratorStep, RemoveRunStep
<1>. QED
  BY <1>1, <1>2, <1>3, <1>4, <1>5, <1>6 DEF Collect

\* The collection keeps its books: the frozen fingerprint, the code that ran and the
\* loads that were checked, through interruptions, restarts and changes of the tree.
THEOREM CollectionInvariantHolds == Spec => []CollectionInvariant
<1>1. Init => CollectionInvariant
  BY CollectionInit
<1>2. BenchmarkInvariant /\ CollectionInvariant /\ [Next]_vars => CollectionInvariant'
  BY CollectStep, BenchmarkKeepsCollection, CollectionStutters DEF Next
<1>. QED
  BY <1>1, <1>2, BenchmarkInvariantHolds, PTL DEF Spec

\* Every sample of an official dataset was normalised with the frozen capacity.
THEOREM OfficialCapacity == Spec => []OfficialHasOneCapacity
<1>1. CollectionInvariant => OfficialHasOneCapacity
  BY DEF CollectionInvariant, FrozenCapacity, OfficialStands, OfficialHasOneCapacity
<1>. QED
  BY <1>1, CollectionInvariantHolds, PTL

\* An official dataset was collected by the frozen code, unless the tree was changed
\* while the script was running.
THEOREM OfficialCode == Spec => []OfficialRanFrozenCode
<1>1. CollectionInvariant => OfficialRanFrozenCode
  BY DEF CollectionInvariant, FrozenCode, OfficialStands, OfficialRanFrozenCode
<1>. QED
  BY <1>1, CollectionInvariantHolds, PTL

\* Without --skip-existing an official dataset has no run that missed its load.
THEOREM LoadsAreChecked == Spec => []MissedLoadNeedsSkip
<1>1. CollectionInvariant => MissedLoadNeedsSkip
  BY DEF CollectionInvariant, OfficialStands, MissedLoadNeedsSkip
<1>. QED
  BY <1>1, CollectionInvariantHolds, PTL
=============================================================================
