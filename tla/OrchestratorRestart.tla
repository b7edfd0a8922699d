------------------------- MODULE OrchestratorRestart -------------------------
(***************************************************************************)
(* The orchestrator process dies and is started again, in the middle of    *)
(* whatever its threads do.  It keeps everything in memory: the register,  *)
(* the locks and the transactions are those of the configuration again,    *)
(* while the switches have the roles they had and the controllers go on    *)
(* serving what the dead threads have asked for.  Only the wall clock,     *)
(* from which the generation ids are drawn, goes on.                       *)
(***************************************************************************)
EXTENDS InitRoles

CONSTANT MaxRestarts  \* bound on the restarts

ASSUME RestartsAssumption == MaxRestarts \in Nat

VARIABLE restarts

restartVars == <<allVars, restarts>>

RestartInit == InitRolesInit /\ (restarts = 0)

\* What the module's constructors leave behind, whatever was there before.
ForgetOwnership ==
  /\ owner' = InitialOwner
  /\ lastGen' = [s \in Switch |-> 0]
  /\ version' = 1
  /\ locked' = {}

\* The threads of the old process are gone, and with them what they polled; their
\* clients get no answer.
ForgetThreads ==
  /\ pc' = [r \in Request |-> IF pc[r] = "idle" THEN "idle" ELSE "rejected"]
  /\ ipc' = [i \in InitRun |-> IF ipc[i] = "idle" THEN "idle" ELSE "failed"]
  /\ poll' = [client \in Client |-> NoPoll]

\* Mutant of Restart: generation ids are counted from the start again.
RestartCountsAnew ==
  /\ restarts < MaxRestarts
  /\ restarts' = restarts + 1
  /\ ForgetOwnership /\ ForgetThreads
  /\ lastId' = 0
  /\ UNCHANGED <<posts, toSwitch, toController, cachedRole, swRole, swGen, faults,
                 input, tx, todo>>

\* GenerationIdGenerator starts from time_ns(), which is above every id drawn before.
Restart ==
  /\ restarts < MaxRestarts
  /\ restarts' = restarts + 1
  /\ ForgetOwnership /\ ForgetThreads
  /\ lastId' = lastId + 1
  /\ UNCHANGED <<posts, toSwitch, toController, cachedRole, swRole, swGen, faults,
                 input, tx, todo>>

RestartNext == Restart \/ (InitRolesNext /\ UNCHANGED restarts)

RestartSpec == RestartInit /\ [][RestartNext]_restartVars

-----------------------------------------------------------------------------
RestartTypeOK == InitRolesTypeOK /\ restarts \in 0 .. MaxRestarts

\* init-roles is the repair after a restart: when it has answered INITIALIZED, no
\* connection was lost and nothing migrated since, every switch has the roles of the
\* register, although role requests of the previous process, and of other calls of
\* the endpoint, were still on their way while it gave the roles.
RepairHolds ==
  (/\ faults = 0
   /\ \E i \in InitRun : ipc[i] = "initialized"
   /\ \A r \in Request : pc[r] \in {"idle", "read", "rejected"})
  => (\A link \in Link :
       swRole[link] = IF owner[link[2]] = link[1] THEN "MASTER" ELSE "SLAVE")
=============================================================================
