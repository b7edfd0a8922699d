------------------------------- MODULE Repair -------------------------------
(***************************************************************************)
(* Why init-roles repairs: the inductive invariant behind                  *)
(* OrchestratorRestart's RepairHolds.                                      *)
(***************************************************************************)
EXTENDS OrchestratorRestart, Fencing

\* Nothing has migrated since the process was started.
Quiet == \A r \in Request : pc[r] \in {"idle", "read", "rejected"}

Active(i) == ipc[i] \in InitCalls \cup {"initialized"}

\* What a request of an earlier process may still ask of a switch.
Leftover(m) == m.client \in Request /\ m.kind = "MASTER"

RoleRequest(m, i) == m.client = i /\ m.phase = "initRole"

(* The link has the role the configuration gives it, under an id that no   *)
(* migration request on its way to the switch reaches.                     *)
Given(link) ==
  /\ swRole[link] = RoleFor(link)
  /\ \A m \in InFlight : Leftover(m) /\ m.link[2] = link[2] => m.gen < swGen[link[2]]

\* A message is in the channel of its own link, a reply too; its id was drawn, and a
\* run of init-roles asks for the roles of the configuration only.
AsksFor(m) ==
  /\ m.gen <= lastId
  /\ \/ m.client \in Request /\ m.kind # "SLAVE"
     \/ /\ m.client \in InitRun
        /\ IF m.phase = "initRole" THEN m.kind = RoleFor(m.link) ELSE m.kind = "BARRIER"

MessagesOnTheWay ==
  /\ \A m \in InFlight : AsksFor(m)
  /\ Addressed
  /\ \A k \in Link : \A p \in DOMAIN toController[k] : toController[k][p].link = k
  /\ \A i \in InitRun : poll[i].phase = "none" \/ poll[i].link \in Link

\* A run that was not called has asked for nothing.
NotCalled(i) ==
  ipc[i] = "idle" =>
    /\ todo[i] = Link
    /\ \A m \in InFlight : m.client # i
    /\ \A k \in Link : \A p \in DOMAIN toController[k] : toController[k][p].client # i

\* The role requests of a run carry ids above those of the leftovers, so the one that is
\* answered has fenced its switch.
Repairing(i) ==
  /\ \A m, n \in InFlight : RoleRequest(m, i) /\ Leftover(n) => n.gen < m.gen
  /\ \A k \in Link : \A p \in DOMAIN toController[k] :
       RoleRequest(toController[k][p], i) => Given(k)
  /\ poll[i].phase = "initRole" /\ poll[i].answer \in Roles => Given(poll[i].link)
  /\ \A link \in Link \ todo[i] :
       \/ Given(link)
       \/ ipc[i] = "initRole" /\ poll[i].phase = "initRole" /\ poll[i].link = link
  /\ ipc[i] = "initialized" => todo[i] = {}

RepairInvariant ==
  /\ MessagesOnTheWay
  /\ \A i \in InitRun : NotCalled(i)
  /\ faults = 0 => \A link \in Link : Connected(link)
  /\ Quiet => owner = InitialOwner
  /\ Quiet /\ faults = 0 => \A i \in InitRun : Active(i) => Repairing(i)
=============================================================================
