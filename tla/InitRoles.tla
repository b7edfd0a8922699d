------------------------------ MODULE InitRoles ------------------------------
(***************************************************************************)
(* POST /api/v1/init-roles next to the migrations: a run walks over the    *)
(* switches of the configured ownership, makes every other controller a    *)
(* SLAVE of the switch and then the configured owner its MASTER, each time *)
(* under a fresh generation id and followed by a barrier.  It takes no     *)
(* lock and does not touch the OwnershipManager.                           *)
(***************************************************************************)
EXTENDS Migration

CONSTANT InitRun   \* the calls of the endpoint, each one a thread

InitCalls == {"initRole", "initBarrier"}

ASSUME InitRunAssumption == InitRun \subseteq Client \ Request
ASSUME InitCallsAssumption == InitCalls \subseteq Phase

VARIABLES
  ipc,   \* per run: idle, waiting for the answer to a call, or answered
  todo   \* per run, the links whose role it has not requested yet

initVars == <<ipc, todo>>

allVars == <<vars, initVars>>

InitRolesTypeOK ==
  /\ TypeOK
  /\ ipc \in [InitRun -> {"idle", "initialized", "failed"} \cup InitCalls]
  /\ todo \in [InitRun -> SUBSET Link]

InitRolesInit ==
  /\ Init
  /\ ipc = [i \in InitRun |-> "idle"]
  /\ todo = [i \in InitRun |-> Link]

LinksOf(s) == Controller \X {s}

RoleFor(link) == IF InitialOwner[link[2]] = link[1] THEN "MASTER" ELSE "SLAVE"

\* One switch after the other, and on each the owner after its peers.
Turn(i, link) ==
  /\ link \in todo[i]
  /\ RoleFor(link) = "MASTER" => todo[i] \cap LinksOf(link[2]) = {link}
  /\ \A s \in Switch \ {link[2]} :
       todo[i] \cap LinksOf(s) \in {{}, LinksOf(s)}

\* The run starts, or its last call is answered, and the next role is requested.
RequestRole(i, link) ==
  /\ \/ ipc[i] = "idle"
     \/ ipc[i] = "initBarrier" /\ Reads(i, "initBarrier", {"FENCED"})
  /\ Turn(i, link)
  /\ lastId' = lastId + 1
  /\ Post(i, "initRole", link, RoleFor(link), lastId + 1)
  /\ todo' = [todo EXCEPT ![i] = @ \ {link}]
  /\ ipc' = [ipc EXCEPT ![i] = "initRole"]
  /\ UNCHANGED <<owner, lastGen, version, locked, pc, input, tx>>

RoleGiven(i) ==
  /\ ipc[i] = "initRole"
  /\ Reads(i, "initRole", Roles)
  /\ Post(i, "initBarrier", poll[i].link, "BARRIER", 0)
  /\ ipc' = [ipc EXCEPT ![i] = "initBarrier"]
  /\ UNCHANGED <<orchestratorVars, todo>>

\* The answer INITIALIZED.
Initialized(i) ==
  /\ ipc[i] = "initBarrier"
  /\ Reads(i, "initBarrier", {"FENCED"})
  /\ todo[i] = {}
  /\ ipc' = [ipc EXCEPT ![i] = "initialized"]
  /\ UNCHANGED <<vars, todo>>

\* A call timed out or got an HTTP error: HTTP 500, the rest is left undone.
InitFails(i) ==
  /\ ipc[i] \in InitCalls
  /\ ipc' = [ipc EXCEPT ![i] = "failed"]
  /\ UNCHANGED <<vars, todo>>

InitRolesNext ==
  \/ Next /\ UNCHANGED initVars
  \/ \E i \in InitRun :
       \/ \E link \in Link : RequestRole(i, link)
       \/ RoleGiven(i) \/ Initialized(i) \/ InitFails(i)

InitRolesSpec == InitRolesInit /\ [][InitRolesNext]_allVars

-----------------------------------------------------------------------------
(* The answer of init-roles carries the registered ownership as the one    *)
(* that is INITIALIZED: with no connection lost and no transaction in      *)
(* progress, the registered owner of every switch is its MASTER.           *)
AnsweredOwnershipHolds ==
  (faults = 0 /\ locked = {} /\ \E i \in InitRun : ipc[i] = "initialized") =>
     \A s \in Switch : swRole[<<owner[s], s>>] = "MASTER"
=============================================================================
