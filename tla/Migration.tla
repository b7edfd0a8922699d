------------------------------ MODULE Migration ------------------------------
(***************************************************************************)
(* The orchestrator's POST /api/v1/migrations handler, run by one thread   *)
(* per request over the shared OwnershipManager, TransactionManager and    *)
(* GenerationIdGenerator.  FastAPI runs the handler in a thread pool, so   *)
(* requests interleave at every lock release and every REST call; the      *)
(* calls themselves go through RoleChannel.                                *)
(*                                                                         *)
(* A thread reads the owner, takes the switch's lock, asks the target to   *)
(* become MASTER, verifies roles, connectivity and traffic, and commits.   *)
(* Any exception on the way rolls back: the source is made MASTER again    *)
(* under a newer generation id and the roles are verified once more.  If   *)
(* the rollback fails too the transaction stays FAILED and the switch      *)
(* stays locked.                                                           *)
(***************************************************************************)
EXTENDS RoleChannel

CONSTANTS Request,       \* the requests, each one served by a thread of its own
          InitialOwner   \* the ownership the configuration gives

VARIABLES
  owner,      \* OwnershipManager._ownership
  lastGen,    \* OwnershipManager._last_generation
  version,    \* OwnershipManager._version
  locked,     \* TransactionManager._locked_switches
  lastId,     \* GenerationIdGenerator._value
  pc,         \* per request, where its thread is
  input,      \* per request, its body: switch_id and target_controller
  tx          \* per request, the locals of its thread

(* The calls a thread polls an answer for; the REST reads that answer at   *)
(* once (state, telemetry) have a program point but no request to poll.    *)
MigrateCalls  == {"promote", "promoteBarrier", "querySource", "queryTarget"}
RollbackCalls == {"restore", "restoreBarrier", "queryRestored", "queryOther"}

ASSUME OwnerAssumption == InitialOwner \in [Switch -> Controller]
ASSUME RequestAssumption == Request \subseteq Client
ASSUME CallsAssumption == MigrateCalls \cup RollbackCalls \subseteq Phase

orchestratorVars == <<owner, lastGen, version, locked, lastId, pc, input, tx>>

vars == <<channelVars, orchestratorVars>>

\* Where an exception sends the thread to the rollback, or out of it.
MigrateRaises  == MigrateCalls \cup {"connSource", "connTarget", "traffic"}
RollbackRaises == RollbackCalls \cup {"connRestored", "connOther"}

Migrating   == {"created", "commit"} \cup MigrateRaises
RollingBack == {"markRestored"} \cup RollbackRaises

\* Program points at which the thread's transaction holds its switch.
Holding == Migrating \cup RollingBack \cup {"finishCommit", "finishRestore", "stuck"}

Finished == {"rejected", "committed", "restored"}

ProgramPoints == {"idle", "read"} \cup Holding \cup Finished

SwitchOf(r) == input[r].switch
Target(r) == <<input[r].target, SwitchOf(r)>>
Source(r) == <<tx[r].source, SwitchOf(r)>>

TypeOK ==
  /\ ChannelTypeOK
  /\ owner \in [Switch -> Controller]
  /\ lastGen \in [Switch -> Nat]
  /\ version \in Nat
  /\ locked \in SUBSET Switch
  /\ lastId \in Nat
  /\ pc \in [Request -> ProgramPoints]
  /\ input \in [Request -> [switch : Switch, target : Controller]]
  /\ tx \in [Request -> [source : Controller, gen : Nat, rollbackGen : Nat, ok : BOOLEAN]]

-----------------------------------------------------------------------------
(* Migrations may be requested before and after init_roles ran for a       *)
(* switch.  gen 0 stands for a generation id that is not drawn yet.        *)
Init ==
  /\ \E started \in SUBSET Switch : ChannelInit(InitialOwner, started)
  /\ owner = InitialOwner
  /\ lastGen = [s \in Switch |-> 0]
  /\ version = 1
  /\ locked = {}
  /\ lastId = 1
  /\ pc = [r \in Request |-> "idle"]
  /\ input \in [Request -> [switch : Switch, target : Controller]]
  /\ tx = [r \in Request |-> [source |-> InitialOwner[input[r].switch],
                              gen |-> 0, rollbackGen |-> 0, ok |-> TRUE]]

Goto(r, point) == pc' = [pc EXCEPT ![r] = point]

\* get_owner, and the 400 answer if the target owns the switch already.
ReadOwner(r) ==
  /\ pc[r] = "idle"
  /\ tx' = [tx EXCEPT ![r].source = owner[SwitchOf(r)]]
  /\ Goto(r, IF owner[SwitchOf(r)] = input[r].target THEN "rejected" ELSE "read")
  /\ UNCHANGED <<channelVars, owner, lastGen, version, locked, lastId, input>>

\* Mutant of Create: the locked switches are not looked at.
CreateUnchecked(r) ==
  /\ pc[r] = "read"
  /\ Goto(r, "created")
  /\ locked' = locked \cup {SwitchOf(r)}
  /\ UNCHANGED <<channelVars, owner, lastGen, version, lastId, input, tx>>

\* TransactionManager.create, and the 409 answer if the switch is locked.
Create(r) ==
  /\ pc[r] = "read"
  /\ IF SwitchOf(r) \in locked
     THEN Goto(r, "rejected") /\ UNCHANGED locked
     ELSE Goto(r, "created") /\ locked' = locked \cup {SwitchOf(r)}
  /\ UNCHANGED <<channelVars, owner, lastGen, version, lastId, input, tx>>

\* Draw a generation id, enter ROLE_SWITCHING and ask the target to be MASTER.
Promote(r) ==
  /\ pc[r] = "created"
  /\ lastId' = lastId + 1
  /\ tx' = [tx EXCEPT ![r].gen = lastId + 1]
  /\ Post(r, "promote", Target(r), "MASTER", lastId + 1)
  /\ Goto(r, "promote")
  /\ UNCHANGED <<owner, lastGen, version, locked, input>>

\* The answer to call `at` is read and the next call is made.
NextCall(r, at, answers, next, link, kind) ==
  /\ pc[r] = at
  /\ Reads(r, at, answers)
  /\ Post(r, next, link, kind, 0)
  /\ Goto(r, next)
  /\ UNCHANGED <<owner, lastGen, version, locked, lastId, input>>

\* A check adds its reason to the list without leaving the verification.
Check(r, holds) == tx' = [tx EXCEPT ![r].ok = @ /\ holds]

PromoteReplied(r) ==
  /\ NextCall(r, "promote", Roles, "promoteBarrier", Target(r), "BARRIER")
  /\ UNCHANGED tx

\* The barrier is answered: enter VERIFYING and query the source's role.
PromoteFenced(r) ==
  /\ NextCall(r, "promoteBarrier", {"FENCED"}, "querySource", Source(r), "NOCHANGE")
  /\ UNCHANGED tx

SourceQueried(r) ==
  /\ NextCall(r, "querySource", Roles, "queryTarget", Target(r), "NOCHANGE")
  /\ Check(r, poll[r].answer = "SLAVE")

TargetQueried(r) ==
  /\ pc[r] = "queryTarget"
  /\ Reads(r, "queryTarget", Roles)
  /\ Check(r, poll[r].answer = "MASTER")
  /\ Goto(r, "connSource")
  /\ UNCHANGED <<channelVars, owner, lastGen, version, locked, lastId, input>>

\* GET /state of one controller: is the switch among its datapaths?
CheckConnected(r, at, link, next) ==
  /\ pc[r] = at
  /\ Check(r, Connected(link))
  /\ Goto(r, next)
  /\ UNCHANGED <<channelVars, owner, lastGen, version, locked, lastId, input>>

SourceConnectivity(r) == CheckConnected(r, "connSource", Source(r), "connTarget")

TargetConnectivity(r) == CheckConnected(r, "connTarget", Target(r), "traffic")

(* verify_packet_in and verify_flow_mod found the counters growing.  The   *)
(* controller accepts the test flow only while its datapath is connected   *)
(* and its cached role is MASTER.  Whether packets arrive is up to the     *)
(* traffic: the other outcome is RollBack.                                 *)
TrafficVerified(r) ==
  /\ pc[r] = "traffic"
  /\ Connected(Target(r))
  /\ cachedRole[Target(r)] = "MASTER"
  /\ tx[r].ok
  /\ Goto(r, "commit")
  /\ UNCHANGED <<channelVars, owner, lastGen, version, locked, lastId, input, tx>>

\* Mutants of SetOwner: the arguments are swapped; the version is not counted.
SetOwnerSwapped(r, controller, gen) ==
  /\ owner' = [owner EXCEPT ![SwitchOf(r)] = gen]
  /\ lastGen' = [lastGen EXCEPT ![SwitchOf(r)] = controller]
  /\ version' = version + 1
  /\ UNCHANGED <<channelVars, locked, lastId, input, tx>>

SetOwnerUnversioned(r, controller, gen) ==
  /\ owner' = [owner EXCEPT ![SwitchOf(r)] = controller]
  /\ lastGen' = [lastGen EXCEPT ![SwitchOf(r)] = gen]
  /\ UNCHANGED <<channelVars, version, locked, lastId, input, tx>>

\* OwnershipManager.commit_migration and mark_restored.
SetOwner(r, controller, gen) ==
  /\ owner' = [owner EXCEPT ![SwitchOf(r)] = controller]
  /\ lastGen' = [lastGen EXCEPT ![SwitchOf(r)] = gen]
  /\ version' = version + 1
  /\ UNCHANGED <<channelVars, locked, lastId, input, tx>>

Commit(r) ==
  /\ pc[r] = "commit"
  /\ SetOwner(r, input[r].target, tx[r].gen)
  /\ Goto(r, "finishCommit")

\* The transaction is COMMITTED or RESTORED: TransactionManager.finish.
Finish(r) ==
  /\ \/ pc[r] = "finishCommit" /\ Goto(r, "committed")
     \/ pc[r] = "finishRestore" /\ Goto(r, "restored")
  /\ locked' = locked \ {SwitchOf(r)}
  /\ UNCHANGED <<channelVars, owner, lastGen, version, lastId, input, tx>>

\* Mutants of RollBack: the source is restored under the id of the promotion;
\* the calls have no timeout, only an HTTP error raises.
RollBackSameId(r) ==
  /\ pc[r] \in MigrateRaises
  /\ tx' = [tx EXCEPT ![r] = [source |-> @.source, gen |-> @.gen,
                               rollbackGen |-> @.gen, ok |-> TRUE]]
  /\ Post(r, "restore", Source(r), "MASTER", tx[r].gen)
  /\ Goto(r, "restore")
  /\ UNCHANGED <<owner, lastGen, version, locked, lastId, input>>

RollBackOnError(r) ==
  /\ pc[r] \in MigrateRaises
  /\ pc[r] \in MigrateCalls => poll[r].answer = "HTTP_ERROR"
  /\ lastId' = lastId + 1
  /\ tx' = [tx EXCEPT ![r] = [source |-> @.source, gen |-> @.gen,
                               rollbackGen |-> lastId + 1, ok |-> TRUE]]
  /\ Post(r, "restore", Source(r), "MASTER", lastId + 1)
  /\ Goto(r, "restore")
  /\ UNCHANGED <<owner, lastGen, version, locked, input>>

(* A timeout, an HTTP error or a failed verification: the transaction is   *)
(* FAILED, then ROLLING_BACK; a new generation id is drawn and the source  *)
(* is asked to be MASTER again.  A call may time out whether or not its    *)
(* answer is on the way.                                                   *)
RollBack(r) ==
  /\ pc[r] \in MigrateRaises
  /\ lastId' = lastId + 1
  /\ tx' = [tx EXCEPT ![r] = [source |-> @.source, gen |-> @.gen,
                               rollbackGen |-> lastId + 1, ok |-> TRUE]]
  /\ Post(r, "restore", Source(r), "MASTER", lastId + 1)
  /\ Goto(r, "restore")
  /\ UNCHANGED <<owner, lastGen, version, locked, input>>

RestoreReplied(r) ==
  /\ NextCall(r, "restore", Roles, "restoreBarrier", Source(r), "BARRIER")
  /\ UNCHANGED tx

RestoreFenced(r) ==
  /\ NextCall(r, "restoreBarrier", {"FENCED"}, "queryRestored", Source(r), "NOCHANGE")
  /\ UNCHANGED tx

RestoredQueried(r) ==
  /\ NextCall(r, "queryRestored", Roles, "queryOther", Target(r), "NOCHANGE")
  /\ Check(r, poll[r].answer = "MASTER")

OtherQueried(r) ==
  /\ pc[r] = "queryOther"
  /\ Reads(r, "queryOther", Roles)
  /\ Check(r, poll[r].answer = "SLAVE")
  /\ Goto(r, "connRestored")
  /\ UNCHANGED <<channelVars, owner, lastGen, version, locked, lastId, input>>

RestoredConnectivity(r) == CheckConnected(r, "connRestored", Source(r), "connOther")

OtherConnectivity(r) == CheckConnected(r, "connOther", Target(r), "markRestored")

\* Mutant of MarkRestored: it records the generation id of the promotion.
MarkRestoredOldId(r) ==
  /\ pc[r] = "markRestored"
  /\ tx[r].ok
  /\ SetOwner(r, tx[r].source, tx[r].gen)
  /\ Goto(r, "finishRestore")

MarkRestored(r) ==
  /\ pc[r] = "markRestored"
  /\ tx[r].ok
  /\ SetOwner(r, tx[r].source, tx[r].rollbackGen)
  /\ Goto(r, "finishRestore")

\* Mutant of GiveUp: a transaction whose rollback failed lets its switch go.
GiveUpReleases(r) ==
  /\ \/ pc[r] \in RollbackRaises
     \/ pc[r] = "markRestored" /\ ~tx[r].ok
  /\ poll' = [poll EXCEPT ![r] = NoPoll]
  /\ locked' = locked \ {SwitchOf(r)}
  /\ Goto(r, "stuck")
  /\ UNCHANGED <<posts, toSwitch, toController, cachedRole, swRole, swGen, faults,
                 owner, lastGen, version, lastId, input, tx>>

(* The rollback raised or was not verified: FAILED again and HTTP 500.     *)
(* finish is not called, so the switch stays locked.                       *)
GiveUp(r) ==
  /\ \/ pc[r] \in RollbackRaises
     \/ pc[r] = "markRestored" /\ ~tx[r].ok
  /\ poll' = [poll EXCEPT ![r] = NoPoll]
  /\ Goto(r, "stuck")
  /\ UNCHANGED <<posts, toSwitch, toController, cachedRole, swRole, swGen, faults,
                 owner, lastGen, version, locked, lastId, input, tx>>

\* Everything the thread of request r does once it has read the owner.
Proceed(r) ==
  \/ Create(r) \/ Promote(r) \/ PromoteReplied(r) \/ PromoteFenced(r)
  \/ SourceQueried(r) \/ TargetQueried(r)
  \/ SourceConnectivity(r) \/ TargetConnectivity(r) \/ TrafficVerified(r)
  \/ Commit(r) \/ Finish(r)
  \/ RollBack(r) \/ RestoreReplied(r) \/ RestoreFenced(r)
  \/ RestoredQueried(r) \/ OtherQueried(r)
  \/ RestoredConnectivity(r) \/ OtherConnectivity(r) \/ MarkRestored(r)
  \/ GiveUp(r)

Next ==
  \/ ChannelStep /\ UNCHANGED orchestratorVars
  \/ \E r \in Request : ReadOwner(r) \/ Proceed(r)

Spec == Init /\ [][Next]_vars

\* A handler that runs keeps running: every wait in it has a timeout.
FairSpec == Spec /\ \A r \in Request : WF_vars(Proceed(r))
-----------------------------------------------------------------------------
(* Properties.                                                             *)

\* The transaction of r holds its switch.
Holds(r, s) == pc[r] \in Holding /\ SwitchOf(r) = s

(* TransactionManager.create and finish: a locked switch is exactly one    *)
(* that some transaction holds, and no two transactions hold the same one, *)
(* a transaction whose rollback failed included.                           *)
LockExclusion ==
  /\ \A s \in Switch : s \in locked <=> \E r \in Request : Holds(r, s)
  /\ \A q, r \in Request, s \in Switch : Holds(q, s) /\ Holds(r, s) => q = r

(* Generation fencing in migrate: once a switch is unlocked, no controller *)
(* but its registered owner is MASTER at the switch, whatever role request *)
(* of an earlier transaction was delayed, timed out or lost its reply, and *)
(* whatever connection dropped.                                            *)
NoForeignMaster ==
  \A s \in Switch \ locked, c \in Controller :
    swRole[<<c, s>>] = "MASTER" => c = owner[s]

(* As long as no connection was lost, an unlocked switch that has been     *)
(* given roles has its registered owner as MASTER: verification and        *)
(* rollback leave no switch without a master.                              *)
OwnerIsMaster ==
  faults = 0 => \A s \in Switch \ locked :
                  swGen[s] # 0 => swRole[<<owner[s], s>>] = "MASTER"

(* packet_in_handler processes packets wherever the cached role is MASTER: *)
(* two controllers believe to be master of the same switch only while a    *)
(* transaction holds it, so packets are processed twice only then.         *)
SingleCachedMaster ==
  \A s \in Switch \ locked, c, d \in Controller :
    cachedRole[<<c, s>>] = "MASTER" /\ cachedRole[<<d, s>>] = "MASTER" => c = d

(* The generation id recorded with the ownership of an unlocked switch is  *)
(* the one the switch accepted last: a late role request did not overtake  *)
(* commit_migration or mark_restored.                                      *)
RecordedGeneration ==
  \A s \in Switch \ locked : lastGen[s] # 0 => lastGen[s] = swGen[s]

(* What a transaction leaves behind when it lets go of its switch: the     *)
(* owner is master, nobody else believes to be, and the recorded id is the *)
(* switch's.  Each way out of /migrate has to see to the three together,   *)
(* with role requests of its own or of others still on their way.          *)
UnlockedSwitchIsSettled == OwnerIsMaster /\ SingleCachedMaster /\ RecordedGeneration

(* POST /api/v1/migrations always answers: every wait of the handler is    *)
(* bounded by a timeout and each failure leads to an answer.               *)
EveryRequestAnswered ==
  \A r \in Request : pc[r] = "read" ~> pc[r] \in Finished \cup {"stuck"}

(* "Target controller already owns the switch" (the 400 answer of          *)
(* migrate): no transaction is opened for a target that owns the switch.   *)
NoSelfMigration ==
  \A r \in Request : pc[r] \in Migrating \ {"commit"} => owner[SwitchOf(r)] # input[r].target

-----------------------------------------------------------------------------
(* The promise of the endpoint, with what is seen of it in this module.    *)

\* The controllers the switch s has as MASTER.
Masters(s) == {c \in Controller : swRole[<<c, s>>] = "MASTER"}

HoldOf(s) ==
  IF s \notin locked THEN "free"
  ELSE IF \E r \in Request : SwitchOf(r) = s /\ pc[r] = "stuck" THEN "stuck"
  ELSE IF \E r \in Request : SwitchOf(r) = s /\ pc[r] \in {"finishCommit", "finishRestore"}
  THEN "settled" ELSE "open"

Register == INSTANCE OwnershipRegister WITH
              masters <- [s \in Switch |-> Masters(s)],
              held <- [s \in Switch |-> HoldOf(s)]

(* The handler implements the register: ownership moves only under the     *)
(* lock, one version per settled transaction, and a switch is let go only  *)
(* when the register tells the truth about its MASTER.                     *)
RegisterSpec == Register!Spec
=============================================================================
