---------------------------- MODULE TwinPipeline ----------------------------
(***************************************************************************)
(* The telemetry thread of the orchestrator and the request threads it     *)
(* meets: migrations that settle, and init_roles that resets the twinning  *)
(* window.  What is done with a published twin state is in Forecaster and  *)
(* OutcomeService.                                                         *)
(*                                                                         *)
(* The thread loops: collect_once, then build_snapshot when one is due.    *)
(* Each access to something another thread writes is a step.  The roles    *)
(* that a controller reports are free in every poll: they change with each *)
(* migration, lost connection or restart.  A migration settles with roles  *)
(* that it has verified (module Migration).                                *)
(*                                                                         *)
(* The clock advances once per loop, so the time of a snapshot names it.   *)
(***************************************************************************)
EXTENDS Integers, Sequences, FiniteSets

CONSTANTS
  Controller, Switch, InitialOwner,
  NoSnapshot,       \* no twin state is published yet
  MaxDelay,         \* longest time of a loop
  MaxAge,           \* freshness_max_age_ms
  TwinningWindow,   \* twinning_window_seconds
  MinRatePercent,   \* min_twinning_rate
  MaxTime,          \* bound on the clock
  MaxVersions,      \* bound on ownership versions
  MaxInits          \* bound on calls of init_roles

ASSUME PipelineAssumption ==
  /\ IsFiniteSet(Controller) /\ IsFiniteSet(Switch)
  /\ InitialOwner \in [Switch -> Controller]
  /\ {MaxDelay, MaxAge, TwinningWindow, MinRatePercent, MaxTime, MaxVersions, MaxInits} \subseteq Nat

VARIABLES
  clock,
  register,    \* the ownership at each version so far
  resets,      \* resets of the twinning window so far
  tpc,         \* where the telemetry thread is
  pruning,     \* where it is in _prune, or "no"; it goes on at tpc
  todo,        \* controllers it has still to poll in this loop
  seen,        \* CurrentStateStore: time and MASTER roles of the last collection
  building,    \* the snapshot being built
  attempts,    \* TwinningRateTracker._attempts
  twin,        \* CurrentStateStore._twin_state
  lastTrue,    \* history variable: when a switch was last seen with this owner as MASTER
  failures     \* history variable: times of failed builds since the last reset

threadVars == <<tpc, pruning, todo, seen, building, twin>>
pipelineVars == <<clock, register, resets, threadVars, attempts, lastTrue, failures>>

version == Len(register)
owner == register[version]

Ownership == [Switch -> Controller]
Time == 0 .. MaxTime
Never == -1
Attempt == [time : Time, ok : BOOLEAN, era : 0 .. MaxInits]
Snapshot == [time : Time, version : 1 .. MaxVersions, ownership : Ownership,
             valid : BOOLEAN, perfect : BOOLEAN]
Draft == [time : Time, era : 0 .. MaxInits, version : 1 .. MaxVersions, ownership : Ownership,
          ok : BOOLEAN, mark : 0 .. MaxInits, perfect : BOOLEAN, enough : BOOLEAN]

ThreadPoint == {"collect", "ownership", "record", "rate", "sum", "divide", "publish",
                "failed", "sleep"}

\* OTHER: EQUAL, UNKNOWN, or no connection.
Role == {"MASTER", "SLAVE", "OTHER"}

PipelineTypeOK ==
  /\ clock \in Time
  /\ register \in Seq(Ownership) /\ version \in 1 .. MaxVersions
  /\ resets \in 0 .. MaxInits
  /\ tpc \in ThreadPoint
  /\ pruning \in {"no", "check", "head"}
  /\ todo \subseteq Controller
  /\ seen \in [Controller -> [time : Time \cup {Never}, roles : [Switch -> Role]]]
  /\ building \in Draft
  /\ attempts \in Seq(Attempt)
  /\ twin \in Snapshot \cup {NoSnapshot}
  /\ lastTrue \in [Switch -> [Controller -> Time \cup {Never}]]
  /\ failures \subseteq Time

\* A loop begins at this time, after this many resets.
NewDraft(time, era) ==
  [time |-> time, era |-> era, version |-> 1, ownership |-> InitialOwner, ok |-> FALSE,
   mark |-> 0, perfect |-> FALSE, enough |-> FALSE]

PipelineInit ==
  /\ clock = 0
  /\ register = <<InitialOwner>>
  /\ resets = 0
  /\ tpc = "collect"
  /\ pruning = "no"
  /\ todo = Controller
  /\ seen = [c \in Controller |-> [time |-> Never, roles |-> [s \in Switch |-> "OTHER"]]]
  /\ building = NewDraft(0, 0)
  /\ attempts = <<>>
  /\ twin = NoSnapshot
  /\ lastTrue = [s \in Switch |-> [c \in Controller |-> Never]]
  /\ failures = {}

-----------------------------------------------------------------------------
(***************************************************************************)
(* The threads of requests.                                                *)
(***************************************************************************)
\* commit_migration or mark_restored, after the roles were verified.
Settles(s, c) ==
  /\ version < MaxVersions
  /\ register' = Append(register, [owner EXCEPT ![s] = c])
  /\ lastTrue' = [lastTrue EXCEPT ![s][c] = clock]
  /\ UNCHANGED <<clock, resets, threadVars, attempts, failures>>

\* The last step of init_roles.
InitRolesResets ==
  /\ resets < MaxInits
  /\ attempts' = <<>>
  /\ resets' = resets + 1
  /\ failures' = {}
  /\ UNCHANGED <<clock, register, threadVars, lastTrue>>

-----------------------------------------------------------------------------
(***************************************************************************)
(* The telemetry thread.                                                   *)
(***************************************************************************)
At(point) == tpc = point /\ pruning = "no"

othersVars == <<register, resets>>

NextLoop(delay) ==
  /\ At("sleep")
  /\ clock' = clock + delay
  /\ clock' <= MaxTime
  /\ tpc' = "collect"
  /\ todo' = Controller
  /\ building' = NewDraft(clock', resets)
  /\ UNCHANGED <<othersVars, pruning, seen, attempts, twin, failures>>

\* The store keeps the last sample.
PollFails(c) ==
  /\ At("collect") /\ c \in todo
  /\ todo' = todo \ {c}
  /\ UNCHANGED <<othersVars, clock, tpc, pruning, seen, building, attempts, twin, failures,
                 lastTrue>>

Collect(c, roles) ==
  /\ At("collect") /\ c \in todo
  /\ todo' = todo \ {c}
  /\ seen' = [seen EXCEPT ![c] = [time |-> clock, roles |-> roles]]
  /\ lastTrue' = [s \in Switch |->
                    IF roles[s] = "MASTER" /\ owner[s] = c
                    THEN [lastTrue[s] EXCEPT ![c] = clock] ELSE lastTrue[s]]
  /\ UNCHANGED <<othersVars, clock, tpc, pruning, building, attempts, twin, failures>>

NoSnapshotDue ==
  /\ At("collect") /\ todo = {}
  /\ tpc' = "sleep"
  /\ UNCHANGED <<othersVars, clock, pruning, todo, seen, building, attempts, twin, failures>>

\* The arguments of SnapshotBuilder.build: the version is read before the owners.
ReadVersion ==
  /\ At("collect") /\ todo = {}
  /\ building' = [building EXCEPT !.version = version]
  /\ tpc' = "ownership"
  /\ UNCHANGED <<othersVars, clock, pruning, todo, seen, attempts, twin, failures>>

\* Mutant of Fresh: a sample of any age will do.
FreshAlways == TRUE

Fresh == \A c \in Controller : seen[c].time # Never => clock - seen[c].time <= MaxAge
Complete == \A c \in Controller : seen[c].time # Never
Consistent(ownership) ==
  \A s \in Switch, c \in Controller :
    seen[c].roles[s] = IF ownership[s] = c THEN "MASTER" ELSE "SLAVE"

ReadOwnership ==
  LET ok == Fresh /\ Complete /\ Consistent(owner)
  IN  /\ At("ownership")
      /\ building' = [building EXCEPT !.ownership = owner, !.ok = ok]
      /\ failures' = IF ok THEN failures ELSE failures \cup {clock}
      /\ tpc' = "record"
      /\ UNCHANGED <<othersVars, clock, pruning, todo, seen, attempts, twin>>

\* TwinningRateTracker.record, up to its call of _prune.
Record(ok, goesOnAt) ==
  /\ attempts' = Append(attempts, [time |-> clock, ok |-> ok, era |-> building.era])
  /\ pruning' = "check"
  /\ tpc' = goesOnAt
  /\ UNCHANGED <<othersVars, clock, todo, seen, building, twin>>

RecordQuality ==
  /\ At("record")
  /\ Record(building.ok, "rate")
  /\ UNCHANGED failures

\* Mutant of RecordFailure: an exception in the build is not counted.
RecordFailureNot ==
  /\ At("failed")
  /\ tpc' = "sleep"
  /\ failures' = failures \cup {clock}
  /\ UNCHANGED <<othersVars, clock, pruning, todo, seen, building, attempts, twin>>

\* The except branch of build_snapshot; telemetry_loop catches what it raises.
RecordFailure ==
  /\ At("failed")
  /\ Record(FALSE, "sleep")
  /\ failures' = failures \cup {clock}

\* _prune, whose test and whose look at the oldest attempt are two accesses:
\* a reset in between is an IndexError.
PruneTests ==
  /\ pruning = "check"
  /\ pruning' = IF attempts = <<>> THEN "no" ELSE "head"
  /\ UNCHANGED <<othersVars, clock, tpc, todo, seen, building, attempts, twin, failures>>

PruneDrops ==
  /\ pruning = "head"
  /\ IF attempts = <<>>
     THEN /\ tpc' = IF tpc = "sleep" THEN "sleep" ELSE "failed"
          /\ pruning' = "no"
          /\ UNCHANGED attempts
     ELSE /\ IF Head(attempts).time < clock - TwinningWindow
             THEN attempts' = Tail(attempts) /\ pruning' = "check"
             ELSE pruning' = "no" /\ UNCHANGED attempts
          /\ UNCHANGED tpc
  /\ UNCHANGED <<othersVars, clock, todo, seen, building, twin, failures>>

\* TwinStateBuilder.build asks for the rate, which prunes first.
RatePrunes ==
  /\ At("rate")
  /\ tpc' = "sum"
  /\ pruning' = "check"
  /\ UNCHANGED <<othersVars, clock, todo, seen, building, attempts, twin, failures>>

Succeeded == {i \in DOMAIN attempts : attempts[i].ok}
RateIsEnough == 100 * Cardinality(Succeeded) >= MinRatePercent * Len(attempts)

RateOfNone ==
  /\ At("sum") /\ attempts = <<>>
  /\ building' = [building EXCEPT !.perfect = FALSE, !.enough = (MinRatePercent = 0)]
  /\ tpc' = "publish"
  /\ UNCHANGED <<othersVars, clock, pruning, todo, seen, attempts, twin, failures>>

RateSums ==
  /\ At("sum") /\ attempts # <<>>
  /\ building' = [building EXCEPT !.mark = resets]
  /\ tpc' = "divide"
  /\ UNCHANGED <<othersVars, clock, pruning, todo, seen, attempts, twin, failures>>

\* A reset since the window was found not empty: RuntimeError in the sum, or
\* ZeroDivisionError after it.
RateDivides ==
  /\ At("divide")
  /\ IF building.mark # resets
     THEN tpc' = "failed" /\ UNCHANGED building
     ELSE /\ building' = [building EXCEPT !.perfect = (Succeeded = DOMAIN attempts),
                                          !.enough = RateIsEnough]
          /\ tpc' = "publish"
  /\ UNCHANGED <<othersVars, clock, pruning, todo, seen, attempts, twin, failures>>

\* Mutant of Publish: the version is read again, after the owners.
PublishNewVersion ==
  /\ At("publish")
  /\ twin' = [time |-> building.time, version |-> version,
              ownership |-> building.ownership, perfect |-> building.perfect,
              valid |-> building.ok /\ building.enough]
  /\ building' = NewDraft(clock, resets)
  /\ tpc' = "sleep"
  /\ UNCHANGED <<othersVars, clock, pruning, todo, seen, attempts, failures>>

\* The twin state is valid when the snapshot is and the rate is high enough.
Publish ==
  /\ At("publish")
  /\ twin' = [time |-> building.time, version |-> building.version,
              ownership |-> building.ownership, perfect |-> building.perfect,
              valid |-> building.ok /\ building.enough]
  /\ building' = NewDraft(clock, resets)
  /\ tpc' = "sleep"
  /\ UNCHANGED <<othersVars, clock, pruning, todo, seen, attempts, failures>>

-----------------------------------------------------------------------------
TelemetryThread ==
  \/ \E delay \in 1 .. MaxDelay : NextLoop(delay)
  \/ NoSnapshotDue \/ ReadVersion \/ ReadOwnership \/ RecordQuality \/ RecordFailure
  \/ PruneTests \/ PruneDrops
  \/ RatePrunes \/ RateOfNone \/ RateSums \/ RateDivides
  \/ Publish

PipelineNext ==
  \/ \E s \in Switch, c \in Controller : Settles(s, c)
  \/ InitRolesResets
  \/ \E c \in Controller :
       PollFails(c) \/ \E roles \in [Switch -> Role] : Collect(c, roles)
  \/ TelemetryThread /\ UNCHANGED lastTrue

PipelineSpec == PipelineInit /\ [][PipelineNext]_pipelineVars

-----------------------------------------------------------------------------
(* A snapshot is put together from the version and the owners in two reads *)
(* while migrations go on (app.py:175-181).  Its owners are those of its   *)
(* version or of a later one, never of an earlier one: a reader that waits *)
(* for a version sees at least the owners of that version.                 *)
OwnersNotOlderThanVersion ==
  twin # NoSnapshot =>
    \E v \in twin.version .. version : twin.ownership = register[v]

JustPublished == tpc = "sleep" /\ twin # NoSnapshot /\ twin.time = clock

(* Roles are polled from one controller after the other, may be MaxAge old,*)
(* and are compared with a register read later (snapshot_validator.py).    *)
(* Still a valid twin state is not an invention: every switch had the owner*)
(* it shows, and that owner was polled or verified to be its MASTER, at one*)
(* moment not longer than MaxAge ago.                                      *)
ValidTwinWasTrue ==
  (JustPublished /\ twin.valid) =>
    \A s \in Switch : lastTrue[s][twin.ownership[s]] >= twin.time - MaxAge

(* A twinning rate of 100 % means that no build of the window failed since *)
(* the last reset, also when the failure was an exception half-way through *)
(* and whatever the reset interrupted.                                     *)
PerfectRateHidesNothing ==
  (JustPublished /\ twin.perfect) =>
    \A t \in failures : t < twin.time - TwinningWindow

(* app.py:380: "Startup snapshots collected before Mininet/controller      *)
(* readiness must not contaminate the experiment twinning-rate window."    *)
(* An attempt that failed in a loop begun before the reset does not count  *)
(* after it.                                                               *)
StartupDoesNotContaminate ==
  \A i \in DOMAIN attempts : attempts[i].era < resets => attempts[i].ok
=============================================================================
