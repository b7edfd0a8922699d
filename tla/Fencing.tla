------------------------------- MODULE Fencing -------------------------------
(***************************************************************************)
(* Why generation ids fence a migration: the inductive invariant behind    *)
(* Migration's NoForeignMaster and behind the refinement of the register;  *)
(* and what a transaction leaves behind, the one behind its                *)
(* UnlockedSwitchIsSettled.                                                *)
(***************************************************************************)
EXTENDS Migration

\* A channel carries the messages for its own link.
Addressed ==
  \A k \in Link : \A i \in DOMAIN toSwitch[k] : toSwitch[k][i].link = k

\* A message was sent by a handler, and one that asks for a role asks for
\* MASTER under the id the handler drew for that call.
ByHandler(m) ==
  /\ m.client \in Request
  /\ m.kind # "SLAVE"
  /\ m.kind = "MASTER" <=> m.phase \in {"promote", "restore"}
  /\ m.phase = "promote" =>
       m.link = Target(m.client) /\ m.gen = tx[m.client].gen /\ m.gen > 0
  /\ m.phase = "restore" =>
       m.link = Source(m.client) /\ m.gen = tx[m.client].rollbackGen /\ m.gen > 0

RequestsInFlight == \A m \in InFlight : ByHandler(m)

\* The ids of a transaction are drawn in the order of its program points.
IdsOf(r) ==
  /\ tx[r].gen <= lastId
  /\ tx[r].rollbackGen <= lastId
  /\ pc[r] \in {"idle", "read", "created", "rejected"} =>
       tx[r].gen = 0 /\ tx[r].rollbackGen = 0
  /\ pc[r] \in (Migrating \ {"created"}) \cup {"finishCommit"} =>
       tx[r].gen > 0 /\ tx[r].rollbackGen = 0
  /\ pc[r] \in RollingBack \cup {"finishRestore", "stuck"} =>
       0 < tx[r].gen /\ tx[r].gen < tx[r].rollbackGen

\* And a switch has accepted none that was not drawn.
DrawnIds ==
  /\ \A s \in Switch : swGen[s] <= lastId
  /\ \A r \in Request : IdsOf(r)

\* The switch accepted the id the transaction of r drew for its call `phase`.
Accepted(r, phase) ==
  swGen[SwitchOf(r)] >= IF phase = "promote" THEN tx[r].gen ELSE tx[r].rollbackGen

\* A reply, or an answer, to a promotion or a restoration proves that its id
\* was accepted.
ReplyProvesId(n) ==
  /\ n.client \in Request
  /\ n.phase = "promote" => tx[n.client].gen > 0 /\ Accepted(n.client, "promote")
  /\ n.phase = "restore" => tx[n.client].rollbackGen > 0 /\ Accepted(n.client, "restore")

AnswerProvesId(r) ==
  poll[r].answer \in Roles =>
    /\ poll[r].phase = "promote" => Accepted(r, "promote")
    /\ poll[r].phase = "restore" => Accepted(r, "restore")

\* The replies on their way to a controller.
Returning == UNION {{toController[k][i] : i \in DOMAIN toController[k]} : k \in Link}

RepliesProveIds ==
  /\ \A n \in Returning : ReplyProvesId(n)
  /\ \A r \in Request : AnswerProvesId(r)

Promoted == {"promoteBarrier", "querySource", "queryTarget", "connSource", "connTarget",
             "traffic", "commit", "finishCommit"}

Restored == {"restoreBarrier", "queryRestored", "queryOther", "connRestored", "connOther",
             "markRestored", "finishRestore"}

\* Behind the promotion, or the restoration, its id stays accepted.
AcceptedIds ==
  \A r \in Request :
    /\ pc[r] \in Promoted => Accepted(r, "promote")
    /\ pc[r] \in Restored => Accepted(r, "restore")

\* Between the commit, or the restoration, and the release of the lock the
\* register names the controller that was verified.
Settled ==
  \A r \in Request :
    /\ pc[r] = "finishCommit" => owner[SwitchOf(r)] = input[r].target
    /\ pc[r] = "finishRestore" => owner[SwitchOf(r)] = tx[r].source

\* Who may be MASTER of switch s under generation id g: its registered owner,
\* under an id older than those of the transaction that holds the switch, and
\* the two controllers that transaction asked, each under the id it drew.
EntitledByRegister(c, s, g) ==
  /\ c = owner[s]
  /\ \A r \in Request : Holds(r, s) /\ tx[r].gen > 0 => g < tx[r].gen

EntitledByRequest(c, s, g) ==
  /\ g > 0
  /\ \E r \in Request :
       /\ Holds(r, s)
       /\ \/ c = input[r].target /\ g = tx[r].gen
          \/ c = tx[r].source /\ g = tx[r].rollbackGen

Entitled(c, s, g) == EntitledByRegister(c, s, g) \/ EntitledByRequest(c, s, g)

\* The switch will refuse the message, or the sender may have what it asks for.
Fenced(m) == Stale(m) \/ Entitled(m.link[1], m.link[2], m.gen)

(* A MASTER request on its way to a switch is either going to be refused   *)
(* or asks for what its sender may have now, and a controller that is      *)
(* MASTER at a switch is entitled to it under the id accepted last.        *)
RoleFencing ==
  /\ \A m \in InFlight : m.kind = "MASTER" => Fenced(m)
  /\ \A c \in Controller, s \in Switch :
       swRole[<<c, s>>] = "MASTER" => Entitled(c, s, swGen[s])

(* GenerationIdGenerator and the order in which migrate draws its ids:     *)
(* what the ids, the messages that carry them and the replies say of each  *)
(* other at every moment of every interleaving.                            *)
FencingInvariant ==
  /\ Addressed
  /\ RequestsInFlight
  /\ DrawnIds
  /\ RepliesProveIds
  /\ AcceptedIds
  /\ Settled
  /\ RoleFencing
-----------------------------------------------------------------------------
(* What a transaction leaves behind: the invariant behind Migration's      *)
(* UnlockedSwitchIsSettled.                                                *)

\* A switch that has accepted an id has a master as long as no connection was lost.
HasMaster ==
  faults = 0 => \A s \in Switch : swGen[s] # 0 =>
                  \E c \in Controller : swRole[<<c, s>>] = "MASTER"

\* The last id a transaction drew is the newest of its switch while it holds it, and
\* was accepted when it let go.
LastDrawn(r) == IF tx[r].rollbackGen > 0 THEN tx[r].rollbackGen ELSE tx[r].gen

NewestIds ==
  \A r \in Request :
    /\ pc[r] \in Holding /\ tx[r].gen > 0 => swGen[SwitchOf(r)] <= LastDrawn(r)
    /\ pc[r] \in {"committed", "restored"} =>
         tx[r].gen <= swGen[SwitchOf(r)] /\ tx[r].rollbackGen <= swGen[SwitchOf(r)]

\* What is recorded with the ownership.
Recorded ==
  /\ RecordedGeneration
  /\ \A r \in Request : pc[r] \in {"finishCommit", "finishRestore"} =>
       lastGen[SwitchOf(r)] = LastDrawn(r)

\* A controller that is not master of its switch, does not believe to be, and will not
\* be told so by what is on its way.
Clean(k) ==
  /\ swRole[k] # "MASTER" /\ cachedRole[k] # "MASTER"
  /\ \A i \in DOMAIN toController[k] : toController[k][i].answer # "MASTER"

UnlockedIsClean ==
  \A s \in Switch \ locked, c \in Controller : c # owner[s] => Clean(<<c, s>>)

(* What the configurations under configs/ start.  With a third controller a *)
(* transaction that read the owner before the last one committed asks that  *)
(* owner for nothing, and leaves it believing to be MASTER.                 *)
AtMostTwoControllers == \A c, d, e \in Controller : c = d \/ d = e \/ c = e

\* The two queries that look for a second master, and where the thread is by then.
SourceAsked == {"querySource", "queryTarget", "connSource", "connTarget", "traffic",
                "commit", "finishCommit"}
OtherAsked == {"queryOther", "connRestored", "connOther", "markRestored", "finishRestore"}

BehindSource == SourceAsked \cup RollingBack
                  \cup {"committed", "finishRestore", "restored", "stuck"}
BehindOther == OtherAsked \cup {"restored", "stuck"}

AskedBy(m) ==
  /\ m.phase = "querySource" => m.link = Source(m.client) /\ pc[m.client] \in BehindSource
  /\ m.phase = "queryOther" => m.link = Target(m.client) /\ pc[m.client] \in BehindOther

QueriesMade ==
  /\ \A m \in InFlight : AskedBy(m)
  /\ \A k \in Link : \A i \in DOMAIN toController[k] :
       AskedBy(toController[k][i]) /\ toController[k][i].link = k

\* The answer SLAVE is the last word on a link: behind it there is no MASTER.
LastWord(r, k, phase) ==
  \A i \in DOMAIN toController[k] :
    LET n == toController[k][i] IN
    n.client = r /\ n.phase = phase /\ n.answer = "SLAVE" =>
      /\ swRole[k] # "MASTER"
      /\ \A j \in DOMAIN toController[k] : j > i => toController[k][j].answer # "MASTER"

\* The query is on its way, answered, or has been passed.
Demoted(r, k, phase) ==
  /\ LastWord(r, k, phase)
  /\ poll[r].phase = phase /\ poll[r].answer = "SLAVE" => Clean(k)
  /\ pc[r] # phase /\ tx[r].ok => Clean(k)

OwnDemoted(r) ==
  /\ pc[r] \notin {"idle", "rejected"} => tx[r].source # input[r].target
  /\ pc[r] \in SourceAsked => Demoted(r, Source(r), "querySource")
  /\ pc[r] \in OtherAsked => Demoted(r, Target(r), "queryOther")
  /\ pc[r] \in {"commit", "finishCommit", "finishRestore"} => tx[r].ok

OthersDemoted == \A r \in Request : OwnDemoted(r)

SettledInvariant ==
  HasMaster /\ NewestIds /\ Recorded /\ UnlockedIsClean /\ QueriesMade /\ OthersDemoted
=============================================================================
