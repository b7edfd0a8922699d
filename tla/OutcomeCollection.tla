------------------------- MODULE OutcomeCollection -------------------------
(***************************************************************************)
(* The collection of migration attempts under one root, seen from outside  *)
(* an attempt (MigrationAttempt models its inside): the experiment matrix  *)
(* and its plan, the script that runs the planned attempts one by one and  *)
(* for hours, the pilot report whose gate freezes the collector, and the   *)
(* dataset report that writes the split manifest.                          *)
(*                                                                         *)
(* Two files can be edited under all of them: the matrix and the capacity  *)
(* artifact. An attempt is a directory: which verdict it carries, which    *)
(* versions its metadata name, and with which versions it really ran.      *)
(***************************************************************************)
EXTENDS Naturals, Sequences, SequencesExt, FiniteSets

CONSTANTS
    Phases,         \* for each workload of the matrix: sequence of its phases
    Ends,           \* sequence of (destination level, direction)
    Repeats,        \* sequence of the repeats
    NoOpControls,   \* number of NO_OP attempts
    SplitOf,        \* for each version of the matrix: the split of a repeat
    MinAttempts,    \* of the pilot
    MaxCapacity,    \* bound: versions of the capacity artifact
    MaxTakes        \* bound: directories written for one attempt

VARIABLES
    matrix,     \* version of configs/experiments/migration_outcome.yaml
    capacity,   \* version of data/benchmarks/controller_capacity.json
    root,       \* [plan -> attempt directory or None]
    takes,      \* number of directories written so far, for each plan
    splits,     \* split_manifest.json: [plans it lists -> split]
    gate,       \* verdict of the last pilot report on what the root holds
    raced,      \* history: a file was edited while what it says was in use
    script      \* what runs: its name, what is left to do, what it holds
collectionVars == <<matrix, capacity, root, takes, splits, gate, raced>>

-----------------------------------------------------------------------------
None == [none |-> TRUE]
Idle == [name |-> "idle", todo |-> <<>>]
Start(name, todo, mem) == script' = [name |-> name, todo |-> todo, mem |-> mem]

(* The plan.                                                               *)

At(seq, i) == seq[(i % Len(seq)) + 1]
ForEach(seq, plans(_)) == FlattenSeq([i \in DOMAIN seq |-> plans(seq[i])])
Distinct(seq) == IsInjective(seq) /\ seq # <<>>

\* What validate_outcome_config accepts, and controls that fill whole cells.
ValidMatrix(phases, ends, repeats, controls) ==
    /\ phases # <<>> /\ \A w \in DOMAIN phases : Distinct(phases[w])
    /\ Distinct(ends) /\ Distinct(repeats)
    /\ controls % (Len(phases) * Len(ends)) = 0
    /\ controls <= Len(phases) * Len(ends) * Len(repeats)

\* Every MIGRATE cell, repeat by repeat. A workload is its place in the matrix.
Migrations(phases, ends, repeats) ==
    ForEach(repeats, LAMBDA r :
        ForEach([w \in DOMAIN phases |-> w], LAMBDA w :
            ForEach(phases[w], LAMBDA p :
                [e \in DOMAIN ends |->
                    [action |-> "MIGRATE", workload |-> w, phase |-> p, ends |-> ends[e],
                     repeat |-> r]])))

\* The controls of a cell run in its middle phase, at repeats a stride apart.
Controls(phases, ends, repeats, controls) ==
    LET each == controls \div (Len(phases) * Len(ends))
        stride == IF Len(repeats) \div each = 0 THEN 1 ELSE Len(repeats) \div each IN
    [i \in 1 .. controls |->
        LET cell == (i - 1) \div each
            w == (cell \div Len(ends)) + 1 IN
        [action |-> "NO_OP", workload |-> w, phase |-> At(phases[w], Len(phases[w]) \div 2),
         ends |-> At(ends, cell),
         repeat |-> At(repeats, cell + ((i - 1) % each) * stride)]]

Expand(phases, ends, repeats, controls) ==
    Migrations(phases, ends, repeats) \o Controls(phases, ends, repeats, controls)

Plan == Expand(Phases, Ends, Repeats, NoOpControls)
Attempts == ToSet(Plan)
Present == {a \in Attempts : root[a] # None}

ASSUME OutcomeCollectionAssumption ==
    /\ ValidMatrix(Phases, Ends, Repeats, NoOpControls)
    /\ SplitOf # <<>> /\ SplitOf \in Seq([ToSet(Repeats) -> STRING])
    /\ {MinAttempts, MaxCapacity, MaxTakes} \subseteq Nat \ {0}

CollectionInit ==
    /\ matrix = 1 /\ capacity = 1
    /\ root = [a \in Attempts |-> None]
    /\ takes = [a \in Attempts |-> 0]
    /\ splits = <<>>
    /\ gate = "none" /\ raced = FALSE
    /\ script = Idle

Collecting(at) == script.name = "collect" /\ script.todo # <<>> /\ script.mem.at = at
MayEdit == script.name \in {"idle", "collect"}

-----------------------------------------------------------------------------
(* The files under the collection.                                         *)

\* An edit of the matrix goes unseen by a collection that has read it.
EditMatrix ==
    /\ MayEdit /\ matrix < Len(SplitOf)
    /\ matrix' = matrix + 1
    /\ raced' = (raced \/ script # Idle)
    /\ UNCHANGED <<capacity, root, takes, splits, gate, script>>

\* The capacity is derived again. Between two attempts this shows in what they
\* record; once an attempt has recorded it, its orchestrator may load another.
Recalibrate ==
    /\ MayEdit /\ capacity < MaxCapacity
    /\ capacity' = capacity + 1
    /\ raced' = (raced \/ Collecting("started"))
    /\ UNCHANGED <<matrix, root, takes, splits, gate, script>>

\* Directories are moved away by hand, to collect the attempt again.
MoveAway(a) ==
    /\ script = Idle /\ root[a] # None /\ takes[a] < MaxTakes
    /\ root' = [root EXCEPT ![a] = None]
    /\ gate' = "none"
    /\ UNCHANGED <<matrix, capacity, takes, splits, raced, script>>

-----------------------------------------------------------------------------
(* run_migration_outcome                                                   *)

\* Attempts of some repeats and actions, in plan order. (--only and --limit
\* select other subsets of the plan.)
Selected(repeats, actions) ==
    SelectSeq(Plan, LAMBDA a : a.repeat \in repeats /\ a.action \in actions)

StartCollection(repeats, actions, keep) ==
    LET todo == Selected(repeats, actions) IN
    /\ script = Idle /\ todo # <<>>
    /\ Start("collect", todo, [at |-> "next", plan |-> matrix, keep |-> keep])
    /\ UNCHANGED collectionVars

NextAttempt ==
    [name |-> "collect", todo |-> Tail(script.todo),
     mem |-> [at |-> "next", plan |-> script.mem.plan, keep |-> script.mem.keep]]

\* Already done: validated directories are never collected again.
SkipExisting ==
    /\ Collecting("next") /\ root[Head(script.todo)] # None
    /\ script' = NextAttempt
    /\ UNCHANGED collectionVars

\* Preflight, then the version of the capacity that goes into the metadata.
StartAttempt ==
    /\ Collecting("next") /\ root[Head(script.todo)] = None
    /\ takes[Head(script.todo)] < MaxTakes
    /\ script' = [script EXCEPT !.mem = [at |-> "started", plan |-> @.plan, keep |-> @.keep,
                                         version |-> capacity]]
    /\ UNCHANGED collectionVars

\* The orchestrator of the attempt loads the capacity itself.
LoadCapacity ==
    /\ Collecting("started")
    /\ script' = [script EXCEPT !.mem = [at |-> "running", plan |-> @.plan, keep |-> @.keep,
                                         version |-> @.version, raw |-> capacity]]
    /\ UNCHANGED collectionVars

\* Verdicts of an attempt: eligible; eligible, but the roles disagree with the
\* ownership; valid without being eligible; not valid.
Kinds == {"good", "odd", "rolled_back", "invalid"}

\* The metadata name the version of the capacity that was there at the start and
\* of the configuration that is there now.
Metadata == [version |-> script.mem.version, config |-> matrix]

WriteAttempt(kind) ==
    LET a == Head(script.todo) IN
    /\ Collecting("running")
    /\ root' = [root EXCEPT ![a] =
            [kind |-> kind, take |-> takes[a] + 1,
             raw |-> script.mem.raw, plan |-> script.mem.plan,
             version |-> Metadata.version, config |-> Metadata.config]]
    /\ takes' = [takes EXCEPT ![a] = @ + 1]
    /\ gate' = "none"
    /\ script' = NextAttempt
    /\ UNCHANGED <<matrix, capacity, splits, raced>>

\* The attempt is quarantined: nothing of it stays under the root. The loop
\* goes on only when it was told to.
AttemptFails ==
    /\ \E at \in {"next", "started", "running"} : Collecting(at)
    /\ root[Head(script.todo)] = None
    /\ script' = IF script.mem.keep THEN NextAttempt ELSE Idle
    /\ UNCHANGED collectionVars

EndCollection ==
    /\ script.name = "collect" /\ script.todo = <<>>
    /\ script' = Idle
    /\ UNCHANGED collectionVars

-----------------------------------------------------------------------------
(* report_migration_pilot                                                  *)

\* validate_dataset reads every directory again.
ValidNow(a) == root[a].kind # "invalid"

\* What analyze_attempt counts as a bug; a rollback is only to be looked at.
HasBug(a) == ~ValidNow(a) \/ root[a].kind = "odd"

FreezeKeys(a) == [config |-> root[a].config, capacity |-> root[a].version]

\* Every workload, direction and level of the matrix has a migration.
Covered ==
    LET migrated == {a \in Present : a.action = "MIGRATE"} IN
    /\ {a.workload : a \in migrated} = DOMAIN Phases
    /\ {a.ends.direction : a \in migrated} = {e.direction : e \in ToSet(Ends)}
    /\ {a.ends.level : a \in migrated} = {e.level : e \in ToSet(Ends)}
    /\ \E a \in Present : a.action = "NO_OP"

\* Mutant of GatePasses: the versions of the capacity are not compared.
GatePassesAnyCapacity ==
    /\ Cardinality(Present) >= MinAttempts
    /\ Covered
    /\ \A a \in Present : ~HasBug(a)
    /\ \A a, b \in Present : FreezeKeys(a).config = FreezeKeys(b).config

GatePasses ==
    /\ Cardinality(Present) >= MinAttempts
    /\ Covered
    /\ \A a \in Present : ~HasBug(a)
    /\ \A a, b \in Present : FreezeKeys(a) = FreezeKeys(b)

ReportPilot ==
    /\ script = Idle
    /\ gate' = IF GatePasses THEN "passed" ELSE "failed"
    /\ UNCHANGED <<matrix, capacity, root, takes, splits, raced, script>>

-----------------------------------------------------------------------------
(* migration_dataset_report                                                *)

\* The split of an attempt follows its repeat, in the matrix as it is now.
SplitNow(a) == SplitOf[matrix][a.repeat]

\* Every attempt is listed, the invalid ones too.
SplitManifest == [a \in Present |-> SplitNow(a)]

ReportDataset ==
    /\ script = Idle /\ Present # {}
    /\ splits' = SplitManifest
    /\ UNCHANGED <<matrix, capacity, root, takes, gate, raced, script>>

-----------------------------------------------------------------------------
(* The rows that a dataset is built of.                                    *)

\* Valid and eligible by the files that were written with the attempt.
Considered == {a \in Present : root[a].kind \in {"good", "odd"}}

\* The capacity in the recorded snapshots is that of the artifact.
CapacityFits(a) == root[a].raw = capacity

\* One attempt that is in no split or has another capacity refuses the build.
CanBuildRows == \A a \in Considered : a \in DOMAIN splits /\ CapacityFits(a)

\* Mutant of RowsOf: the split is looked up in the matrix again.
RowsOfMatrix ==
    {[attempt |-> a, take |-> root[a].take, raw |-> root[a].raw,
      split |-> SplitOf[root[a].plan][a.repeat]] :
        a \in {b \in Considered : b.action = "MIGRATE"}}

\* One row for each committed migration; NO_OP attempts go to a table apart.
RowsOf ==
    {[attempt |-> a, take |-> root[a].take, raw |-> root[a].raw, split |-> splits[a]] :
        a \in {b \in Considered : b.action = "MIGRATE"}}

-----------------------------------------------------------------------------
CollectionNext ==
    \/ EditMatrix \/ Recalibrate
    \/ \E a \in Attempts : MoveAway(a)
    \/ \E repeats \in SUBSET ToSet(Repeats), keep \in BOOLEAN,
          actions \in {{"MIGRATE"}, {"NO_OP"}, {"MIGRATE", "NO_OP"}} :
           StartCollection(repeats, actions, keep)
    \/ SkipExisting \/ StartAttempt \/ LoadCapacity
    \/ \E kind \in Kinds : WriteAttempt(kind)
    \/ AttemptFails \/ EndCollection
    \/ ReportPilot \/ ReportDataset

-----------------------------------------------------------------------------
(* pilot.py: "collector versions (commit, config, capacity, quality)        *)
(* changing inside the pilot" block the freeze. However attempts were       *)
(* skipped, repeated or moved away and the files edited between them, a     *)
(* passed gate means that all ran with one capacity and one matrix, unless  *)
(* a file was edited while an attempt was using it.                         *)
PassedPilotIsOneVersion ==
    gate = "passed" /\ ~raced =>
        \A a, b \in Present : root[a].raw = root[b].raw /\ root[a].plan = root[b].plan

(* The same without the condition does not hold: the versions are hashed    *)
(* before the orchestrator loads the capacity, and the matrix long after it *)
(* was read ("every attempt names its exact config", config.py).            *)
MetadataTellsVersions ==
    \A a \in Present : root[a].raw = root[a].version /\ root[a].plan = root[a].config
=============================================================================
