--------------------------- MODULE MigrationProofs ---------------------------
(***************************************************************************)
(* What holds of Migration for any sets of controllers, switches and       *)
(* requests and any number of faults: its types; FencingInvariant, which is *)
(* inductive, so outside a transaction no controller but the registered    *)
(* owner is MASTER of a switch; that the handler over delayed, lost and    *)
(* reordered role requests implements OwnershipRegister; and               *)
(* SettledInvariant, so a transaction leaves its switch settled, with one  *)
(* belief in being MASTER where there are two controllers.  Last, of       *)
(* InitRoles and OrchestratorRestart: RepairInvariant, so init-roles gives *)
(* the roles of the register, also after a restart.                        *)
(***************************************************************************)
EXTENDS Fencing, Repair, SequenceTheorems, TLAPS

-----------------------------------------------------------------------------
(* The channel keeps its types.                                            *)

LEMMA PostType ==
  ASSUME ChannelTypeOK,
         NEW client \in Client, NEW phase \in Phase, NEW link \in Link,
         NEW kind \in Kinds, NEW gen \in Nat,
         Post(client, phase, link, kind, gen)
  PROVE  ChannelTypeOK'
<1>1. [link |-> link, client |-> client, phase |-> phase, kind |-> kind, gen |-> gen]
        \in RequestMsg
  BY DEF RequestMsg
<1>2. posts' \in SUBSET RequestMsg
  BY <1>1 DEF Post, ChannelTypeOK
<1>3. poll' \in [Client -> [phase : Phase \cup {"none"}, link : Link \cup {<<>>},
                            answer : Answers]]
  BY DEF Post, ChannelTypeOK, Answers
<1>. QED
  BY <1>2, <1>3 DEF Post, ChannelTypeOK

LEMMA AnsweredType ==
  ASSUME ChannelTypeOK, NEW msg, msg.client \in Client, NEW answer \in Answers
  PROVE  Answered(msg, answer) \in
           [Client -> [phase : Phase \cup {"none"}, link : Link \cup {<<>>},
                       answer : Answers]]
<1>1. poll \in [Client -> [phase : Phase \cup {"none"}, link : Link \cup {<<>>},
                           answer : Answers]]
  BY DEF ChannelTypeOK
<1>. QED
  BY ONLY <1>1, answer \in Answers, msg.client \in Client DEF Answered

LEMMA ChannelStepType ==
  ASSUME ChannelTypeOK, ChannelStep
  PROVE  ChannelTypeOK'
<1>. USE FaultsAssumption
<1>1. ASSUME NEW msg \in posts, ServePost(msg)
      PROVE  ChannelTypeOK'
  <2>1. msg \in RequestMsg /\ msg.client \in Client /\ msg.link \in Link
    BY <1>1 DEF ChannelTypeOK, RequestMsg
  <2>2. toSwitch' \in [Link -> Seq(RequestMsg)]
    <3>1. Append(toSwitch[msg.link], msg) \in Seq(RequestMsg)
      BY <2>1, AppendProperties DEF ChannelTypeOK
    <3>. QED
      BY <1>1, <2>1, <3>1 DEF ServePost, ChannelTypeOK
  <2>3. poll' \in [Client -> [phase : Phase \cup {"none"}, link : Link \cup {<<>>},
                              answer : Answers]]
    <3>1. "HTTP_ERROR" \in Answers
      BY DEF Answers
    <3>2. Answered(msg, "HTTP_ERROR") \in
            [Client -> [phase : Phase \cup {"none"}, link : Link \cup {<<>>},
                        answer : Answers]]
      BY <2>1, <3>1, AnsweredType
    <3>3. poll' = poll \/ poll' = Answered(msg, "HTTP_ERROR")
      BY <1>1 DEF ServePost
    <3>. QED
      BY <3>2, <3>3 DEF ChannelTypeOK
  <2>. QED
    BY <1>1, <2>2, <2>3 DEF ServePost, ChannelTypeOK
<1>2. ASSUME NEW link \in Link, toSwitch[link] # <<>>
      PROVE  /\ Head(toSwitch[link]) \in RequestMsg
             /\ Tail(toSwitch[link]) \in Seq(RequestMsg)
  BY <1>2, HeadTailProperties DEF ChannelTypeOK
<1>3. ASSUME NEW link \in Link, toController[link] # <<>>
      PROVE  /\ Head(toController[link]) \in ReplyMsg
             /\ Tail(toController[link]) \in Seq(ReplyMsg)
  BY <1>3, HeadTailProperties DEF ChannelTypeOK
<1>4. ASSUME NEW link \in Link, toSwitch[link] # <<>>,
             NEW answer \in Roles \cup {"FENCED"}, Reply(link, answer)
      PROVE  toController' \in [Link -> Seq(ReplyMsg)]
  <2>1. [link |-> link, client |-> Head(toSwitch[link]).client,
         phase |-> Head(toSwitch[link]).phase, answer |-> answer] \in ReplyMsg
    BY <1>2, <1>4 DEF RequestMsg, ReplyMsg
  <2>2. Append(toController[link],
               [link |-> link, client |-> Head(toSwitch[link]).client,
                phase |-> Head(toSwitch[link]).phase, answer |-> answer]) \in Seq(ReplyMsg)
    BY <2>1, AppendProperties DEF ChannelTypeOK
  <2>. QED
    BY <1>4, <2>2 DEF Reply, ChannelTypeOK
<1>5. ASSUME NEW link \in Link, SwitchRefuses(link)
      PROVE  ChannelTypeOK'
  BY <1>2, <1>5 DEF SwitchRefuses, Arrived, ChannelTypeOK
<1>6. ASSUME NEW link \in Link, SwitchChangesRole(link)
      PROVE  ChannelTypeOK'
  <2>1. Head(toSwitch[link]).kind \in Roles /\ Head(toSwitch[link]).gen \in Nat
    BY <1>2, <1>6 DEF SwitchChangesRole, Arrived, Roles, RequestMsg
  <2>2. toController' \in [Link -> Seq(ReplyMsg)]
    BY <1>4, <1>6, <2>1 DEF SwitchChangesRole, Arrived
  <2>3. swRole' \in [Link -> Roles \cup {"DOWN"}]
    BY <1>6, <2>1 DEF SwitchChangesRole, RolesAfter, ChannelTypeOK, Roles
  <2>4. swGen' \in [Switch -> Nat]
    BY <1>6, <2>1 DEF SwitchChangesRole, ChannelTypeOK
  <2>. QED
    BY <1>2, <1>6, <2>2, <2>3, <2>4 DEF SwitchChangesRole, Arrived, ChannelTypeOK
<1>7. ASSUME NEW link \in Link, SwitchReports(link)
      PROVE  ChannelTypeOK'
  <2>1. swRole[link] \in Roles \cup {"FENCED"}
    BY <1>7 DEF SwitchReports, Arrived, Connected, ChannelTypeOK
  <2>2. toController' \in [Link -> Seq(ReplyMsg)]
    BY <1>4, <1>7, <2>1 DEF SwitchReports, Arrived
  <2>. QED
    BY <1>2, <1>7, <2>2 DEF SwitchReports, Arrived, ChannelTypeOK
<1>8. ASSUME NEW link \in Link, HandleRoleReply(link)
      PROVE  ChannelTypeOK'
  <2>1. Head(toController[link]) \in ReplyMsg
    BY <1>3, <1>8 DEF HandleRoleReply
  <2>2. /\ Head(toController[link]).client \in Client
        /\ Head(toController[link]).answer \in Roles
        /\ Head(toController[link]).answer \in Answers
    BY <1>8, <2>1 DEF HandleRoleReply, ReplyMsg, Answers
  <2>3. poll' \in [Client -> [phase : Phase \cup {"none"}, link : Link \cup {<<>>},
                              answer : Answers]]
    BY <1>8, <2>2, AnsweredType DEF HandleRoleReply
  <2>. QED
    BY <1>3, <1>8, <2>2, <2>3 DEF HandleRoleReply, ChannelTypeOK
<1>9. ASSUME NEW link \in Link, HandleBarrierReply(link)
      PROVE  ChannelTypeOK'
  <2>1. Head(toController[link]).client \in Client
    BY <1>3, <1>9 DEF HandleBarrierReply, ReplyMsg
  <2>2. poll' \in [Client -> [phase : Phase \cup {"none"}, link : Link \cup {<<>>},
                              answer : Answers]]
    <3>1. "FENCED" \in Answers
      BY DEF Answers
    <3>. QED
      BY <1>9, <2>1, <3>1, AnsweredType DEF HandleBarrierReply
  <2>. QED
    BY <1>3, <1>9, <2>2 DEF HandleBarrierReply, ChannelTypeOK
<1>10. ASSUME NEW link \in Link, ChannelDown(link)
       PROVE  ChannelTypeOK'
  BY <1>10, EmptySeq DEF ChannelDown, ChannelTypeOK
<1>11. ASSUME NEW link \in Link, ChannelUp(link)
       PROVE  ChannelTypeOK'
  BY <1>11 DEF ChannelUp, ChannelTypeOK, Roles
<1>12. ASSUME NEW c \in Controller, ControllerRestart(c)
       PROVE  ChannelTypeOK'
  <2>1. /\ toSwitch' \in [Link -> Seq(RequestMsg)]
        /\ toController' \in [Link -> Seq(ReplyMsg)]
    BY <1>12, EmptySeq DEF ControllerRestart, ChannelTypeOK
  <2>2. poll' \in [Client -> [phase : Phase \cup {"none"}, link : Link \cup {<<>>},
                              answer : Answers]]
    <3>1. ASSUME NEW client \in Client
          PROVE  [poll[client] EXCEPT !.answer = "HTTP_ERROR"] \in
                   [phase : Phase \cup {"none"}, link : Link \cup {<<>>}, answer : Answers]
      BY DEF ChannelTypeOK, Answers
    <3>. QED
      BY <1>12, <3>1 DEF ControllerRestart, ChannelTypeOK
  <2>3. /\ cachedRole' \in [Link -> Roles \cup {"UNKNOWN"}]
        /\ swRole' \in [Link -> Roles \cup {"DOWN"}]
        /\ posts' \in SUBSET RequestMsg
    BY <1>12 DEF ControllerRestart, ChannelTypeOK
  <2>. QED
    BY <1>12, <2>1, <2>2, <2>3 DEF ControllerRestart, ChannelTypeOK
<1>. QED
  BY <1>1, <1>5, <1>6, <1>7, <1>8, <1>9, <1>10, <1>11, <1>12 DEF ChannelStep

-----------------------------------------------------------------------------
(* Type correctness of the handler.                                        *)

LEMMA PhaseFacts ==
  /\ Request \subseteq Client
  /\ {"promote", "promoteBarrier", "querySource", "queryTarget",
      "restore", "restoreBarrier", "queryRestored", "queryOther"} \subseteq Phase
BY RequestAssumption, CallsAssumption DEF MigrateCalls, RollbackCalls

LEMMA LinkFacts ==
  ASSUME TypeOK, NEW r \in Request
  PROVE  /\ SwitchOf(r) \in Switch
         /\ Target(r) \in Link
         /\ Source(r) \in Link
         /\ r \in Client
BY RequestAssumption DEF TypeOK, SwitchOf, Target, Source, Link

\* A step that leaves the channel alone keeps its types.
LEMMA ChannelUnchangedType ==
  ASSUME ChannelTypeOK, UNCHANGED channelVars
  PROVE  ChannelTypeOK'
BY DEF ChannelTypeOK, channelVars

\* The types of the control part of the handler's state.
LEMMA GotoType ==
  ASSUME TypeOK, NEW r \in Request, NEW point \in ProgramPoints, Goto(r, point)
  PROVE  pc' \in [Request -> ProgramPoints]
BY DEF TypeOK, Goto

LEMMA CheckType ==
  ASSUME TypeOK, NEW r \in Request, NEW holds \in BOOLEAN, Check(r, holds)
  PROVE  tx' \in [Request -> [source : Controller, gen : Nat, rollbackGen : Nat,
                              ok : BOOLEAN]]
BY DEF TypeOK, Check

LEMMA NextCallType ==
  ASSUME TypeOK, NEW r \in Request, NEW at, NEW answers,
         NEW next \in RollbackCalls \cup MigrateCalls, NEW link \in Link,
         NEW kind \in Kinds, NextCall(r, at, answers, next, link, kind)
  PROVE  /\ ChannelTypeOK'
         /\ pc' \in [Request -> ProgramPoints]
         /\ UNCHANGED <<owner, lastGen, version, locked, lastId, input>>
<1>1. next \in Phase /\ next \in ProgramPoints
  BY CallsAssumption DEF ProgramPoints, Holding, Migrating, RollingBack, MigrateRaises,
     RollbackRaises
<1>2. ChannelTypeOK'
  BY <1>1, PostType, LinkFacts DEF NextCall, TypeOK
<1>. QED
  BY <1>1, <1>2, GotoType DEF NextCall

LEMMA ReadOwnerType ==
  ASSUME TypeOK, NEW r \in Request, ReadOwner(r)
  PROVE  TypeOK'
<1>1. pc' \in [Request -> ProgramPoints]
  BY DEF ReadOwner, Goto, TypeOK, ProgramPoints, Finished
<1>2. tx' \in [Request -> [source : Controller, gen : Nat, rollbackGen : Nat, ok : BOOLEAN]]
  BY LinkFacts DEF ReadOwner, TypeOK
<1>. QED
  BY <1>1, <1>2, ChannelUnchangedType DEF ReadOwner, TypeOK

LEMMA ProceedType ==
  ASSUME TypeOK, NEW r \in Request, Proceed(r)
  PROVE  TypeOK'
<1>. USE LinkFacts, PhaseFacts
<1>. DEFINE TxType == [Request -> [source : Controller, gen : Nat, rollbackGen : Nat,
                                   ok : BOOLEAN]]
<1>1. CASE Create(r)
  <2>1. pc' \in [Request -> ProgramPoints]
    BY <1>1 DEF Create, Goto, TypeOK, ProgramPoints, Finished, Holding, Migrating
  <2>2. locked' \in SUBSET Switch
    BY <1>1 DEF Create, TypeOK
  <2>. QED
    BY <1>1, <2>1, <2>2, ChannelUnchangedType DEF Create, TypeOK
<1>2. CASE Promote(r)
  <2>0. /\ ChannelTypeOK
        /\ "promote" \in Phase /\ "MASTER" \in Kinds /\ lastId + 1 \in Nat
        /\ Post(r, "promote", Target(r), "MASTER", lastId + 1)
    BY <1>2 DEF Promote, TypeOK, Kinds
  <2>1. ChannelTypeOK'
    BY <2>0, PostType
  <2>2. tx' \in TxType /\ lastId' \in Nat
    BY <1>2 DEF Promote, TypeOK
  <2>3. pc' \in [Request -> ProgramPoints]
    BY <1>2, GotoType DEF Promote, ProgramPoints, Holding, Migrating, MigrateRaises, MigrateCalls
  <2>. QED
    BY <1>2, <2>1, <2>2, <2>3 DEF Promote, TypeOK
<1>3. ASSUME PromoteReplied(r) \/ PromoteFenced(r) \/ RestoreReplied(r) \/ RestoreFenced(r)
      PROVE  TypeOK'
  BY <1>3, NextCallType
     DEF PromoteReplied, PromoteFenced, RestoreReplied, RestoreFenced, MigrateCalls,
         RollbackCalls, Kinds, TypeOK
<1>4. ASSUME SourceQueried(r) \/ RestoredQueried(r)
      PROVE  TypeOK'
  BY <1>4, NextCallType, CheckType
     DEF SourceQueried, RestoredQueried, MigrateCalls, RollbackCalls, Kinds, TypeOK
<1>5. ASSUME TargetQueried(r) \/ OtherQueried(r)
      PROVE  TypeOK'
  <2>1. tx' \in TxType
    BY <1>5, CheckType DEF TargetQueried, OtherQueried
  <2>2. pc' \in [Request -> ProgramPoints]
    BY <1>5, GotoType DEF TargetQueried, OtherQueried, ProgramPoints, Holding, Migrating,
       RollingBack, MigrateRaises, RollbackRaises
  <2>. QED
    BY <1>5, <2>1, <2>2, ChannelUnchangedType DEF TargetQueried, OtherQueried, TypeOK
<1>6. ASSUME NEW at, NEW link, NEW next \in {"connTarget", "traffic", "connOther", "markRestored"},
             CheckConnected(r, at, link, next)
      PROVE  TypeOK'
  <2>1. tx' \in TxType
    BY <1>6, CheckType DEF CheckConnected, Connected
  <2>2. pc' \in [Request -> ProgramPoints]
    BY <1>6, GotoType DEF CheckConnected, ProgramPoints, Holding, Migrating,
       RollingBack, MigrateRaises, RollbackRaises
  <2>. QED
    BY <1>6, <2>1, <2>2, ChannelUnchangedType DEF CheckConnected, TypeOK
<1>7. CASE TrafficVerified(r)
  <2>1. pc' \in [Request -> ProgramPoints]
    BY <1>7, GotoType DEF TrafficVerified, ProgramPoints, Holding, Migrating
  <2>. QED
    BY <1>7, <2>1, ChannelUnchangedType DEF TrafficVerified, TypeOK
<1>8. ASSUME Commit(r) \/ MarkRestored(r)
      PROVE  TypeOK'
  <2>1. pc' \in [Request -> ProgramPoints]
    BY <1>8, GotoType DEF Commit, MarkRestored, ProgramPoints, Holding
  <2>2. /\ owner' \in [Switch -> Controller]
        /\ lastGen' \in [Switch -> Nat]
        /\ version' \in Nat
    BY <1>8 DEF Commit, MarkRestored, SetOwner, TypeOK
  <2>. QED
    BY <1>8, <2>1, <2>2, ChannelUnchangedType DEF Commit, MarkRestored, SetOwner, TypeOK
<1>9. CASE Finish(r)
  <2>1. pc' \in [Request -> ProgramPoints]
    BY <1>9, GotoType DEF Finish, ProgramPoints, Finished
  <2>. QED
    BY <1>9, <2>1, ChannelUnchangedType DEF Finish, TypeOK
<1>10. CASE RollBack(r)
  <2>0. /\ ChannelTypeOK
        /\ "restore" \in Phase /\ "MASTER" \in Kinds /\ lastId + 1 \in Nat
        /\ Post(r, "restore", Source(r), "MASTER", lastId + 1)
    BY <1>10 DEF RollBack, TypeOK, Kinds
  <2>1. ChannelTypeOK'
    BY <2>0, PostType
  <2>2. tx' \in TxType /\ lastId' \in Nat
    BY <1>10, <2>0 DEF RollBack, TypeOK
  <2>3. pc' \in [Request -> ProgramPoints]
    BY <1>10, GotoType DEF RollBack, ProgramPoints, Holding, RollingBack, RollbackRaises,
       RollbackCalls
  <2>. QED
    BY <1>10, <2>1, <2>2, <2>3 DEF RollBack, TypeOK
<1>11. CASE GiveUp(r)
  <2>1. pc' \in [Request -> ProgramPoints]
    BY <1>11, GotoType DEF GiveUp, ProgramPoints, Holding
  <2>2. ChannelTypeOK'
    BY <1>11 DEF GiveUp, TypeOK, ChannelTypeOK, NoPoll, Answers
  <2>. QED
    BY <1>11, <2>1, <2>2 DEF GiveUp, TypeOK
<1>. QED
  BY <1>1, <1>2, <1>3, <1>4, <1>5, <1>6, <1>7, <1>8, <1>9, <1>10, <1>11
     DEF Proceed, SourceConnectivity, TargetConnectivity, RestoredConnectivity, OtherConnectivity

(* Every variable keeps its type, whatever is lost, delayed or refused.    *)
THEOREM TypeCorrect == Spec => []TypeOK
<1>1. Init => TypeOK
  <2>1. ASSUME NEW started \in SUBSET Switch, ChannelInit(InitialOwner, started)
        PROVE  ChannelTypeOK
    BY <2>1, FaultsAssumption, EmptySeq
       DEF ChannelInit, ChannelTypeOK, Roles, NoPoll, Answers
  <2>. QED
    BY <2>1, OwnerAssumption DEF Init, TypeOK, ProgramPoints
<1>2. TypeOK /\ [Next]_vars => TypeOK'
  <2>. SUFFICES ASSUME TypeOK, [Next]_vars PROVE TypeOK'
    OBVIOUS
  <2>1. ASSUME ChannelStep, UNCHANGED orchestratorVars
        PROVE  TypeOK'
    BY <2>1, ChannelStepType DEF orchestratorVars, TypeOK
  <2>2. CASE UNCHANGED vars
    BY <2>2, ChannelUnchangedType DEF vars, orchestratorVars, TypeOK
  <2>. QED
    BY <2>1, <2>2, ReadOwnerType, ProceedType DEF Next
<1>. QED
  BY <1>1, <1>2, PTL DEF Spec

-----------------------------------------------------------------------------
(* Mutual exclusion of transactions.                                       *)

\* What a step of a thread does to its own hold on its switch.
LEMMA HoldStep ==
  ASSUME TypeOK, NEW r \in Request, ReadOwner(r) \/ Proceed(r)
  PROVE  /\ input' = input
         /\ \A q \in Request \ {r} : pc'[q] = pc[q]
         /\ \/ /\ pc[r] \notin Holding /\ pc'[r] \in Holding
               /\ SwitchOf(r) \notin locked /\ locked' = locked \cup {SwitchOf(r)}
            \/ /\ pc[r] \in Holding /\ pc'[r] \notin Holding
               /\ locked' = locked \ {SwitchOf(r)}
            \/ /\ pc[r] \in Holding <=> pc'[r] \in Holding
               /\ locked' = locked
<1>. USE DEF Goto, TypeOK
<1>. DEFINE Conclusion ==
         /\ input' = input
         /\ \A q \in Request \ {r} : pc'[q] = pc[q]
         /\ \/ /\ pc[r] \notin Holding /\ pc'[r] \in Holding
               /\ SwitchOf(r) \notin locked /\ locked' = locked \cup {SwitchOf(r)}
            \/ /\ pc[r] \in Holding /\ pc'[r] \notin Holding
               /\ locked' = locked \ {SwitchOf(r)}
            \/ /\ pc[r] \in Holding <=> pc'[r] \in Holding
               /\ locked' = locked
<1>0. USE DEF Holding, Migrating, RollingBack, MigrateRaises, RollbackRaises, MigrateCalls,
              RollbackCalls
<1>1. CASE ReadOwner(r)
  BY <1>1 DEF ReadOwner
<1>2. CASE Create(r)
  BY <1>2 DEF Create
<1>3. CASE Promote(r)
  BY <1>3 DEF Promote
<1>4. CASE PromoteReplied(r) \/ PromoteFenced(r)
  BY <1>4 DEF PromoteReplied, PromoteFenced, NextCall
<1>5. CASE SourceQueried(r) \/ TargetQueried(r)
  BY <1>5 DEF SourceQueried, NextCall, TargetQueried
<1>6. CASE SourceConnectivity(r) \/ TargetConnectivity(r) \/ TrafficVerified(r)
  BY <1>6 DEF SourceConnectivity, TargetConnectivity, CheckConnected, TrafficVerified
<1>7. CASE Commit(r) \/ MarkRestored(r)
  BY <1>7 DEF Commit, MarkRestored, SetOwner
<1>8. CASE Finish(r)
  BY <1>8 DEF Finish
<1>9. CASE RollBack(r)
  BY <1>9 DEF RollBack
<1>10. CASE RestoreReplied(r) \/ RestoreFenced(r)
  BY <1>10 DEF RestoreReplied, RestoreFenced, NextCall
<1>11. CASE RestoredQueried(r) \/ OtherQueried(r)
  BY <1>11 DEF RestoredQueried, NextCall, OtherQueried
<1>12. CASE RestoredConnectivity(r) \/ OtherConnectivity(r)
  BY <1>12 DEF RestoredConnectivity, OtherConnectivity, CheckConnected
<1>13. CASE GiveUp(r)
  BY <1>13 DEF GiveUp
<1>. QED
  BY <1>1, <1>2, <1>3, <1>4, <1>5, <1>6, <1>7, <1>8, <1>9, <1>10, <1>11, <1>12, <1>13
     DEF Proceed

(* A locked switch is exactly one that a transaction holds, and no two     *)
(* transactions hold the same switch, those that gave up included.         *)
THEOREM LockExclusionHolds == Spec => []LockExclusion
<1>1. Init => LockExclusion
  BY DEF Init, LockExclusion, Holds, Holding, Migrating, RollingBack, MigrateRaises,
     RollbackRaises, MigrateCalls, RollbackCalls
<1>2. TypeOK /\ LockExclusion /\ [Next]_vars => LockExclusion'
  <2>. SUFFICES ASSUME TypeOK, LockExclusion, [Next]_vars PROVE LockExclusion'
    OBVIOUS
  <2>1. CASE UNCHANGED orchestratorVars
    BY <2>1 DEF orchestratorVars, LockExclusion, Holds, SwitchOf
  <2>2. ASSUME NEW r \in Request, ReadOwner(r) \/ Proceed(r)
        PROVE  LockExclusion'
    <3>1. SwitchOf(r) \in Switch /\ \A q \in Request : SwitchOf(q)' = SwitchOf(q)
      BY <2>2, HoldStep, LinkFacts DEF SwitchOf
    <3>2. CASE /\ pc[r] \notin Holding /\ pc'[r] \in Holding
               /\ SwitchOf(r) \notin locked /\ locked' = locked \cup {SwitchOf(r)}
      BY <2>2, <3>1, <3>2, HoldStep DEF LockExclusion, Holds
    <3>3. CASE /\ pc[r] \in Holding /\ pc'[r] \notin Holding
               /\ locked' = locked \ {SwitchOf(r)}
      BY <2>2, <3>1, <3>3, HoldStep DEF LockExclusion, Holds
    <3>4. CASE /\ pc[r] \in Holding <=> pc'[r] \in Holding
               /\ locked' = locked
      BY <2>2, <3>1, <3>4, HoldStep DEF LockExclusion, Holds
    <3>. QED
      BY <2>2, <3>2, <3>3, <3>4, HoldStep
  <2>. QED
    BY <2>1, <2>2 DEF Next, vars
<1>. QED
  BY <1>1, <1>2, TypeCorrect, PTL DEF Spec

(***************************************************************************)
(* Fencing.                                                                *)
(***************************************************************************)
-----------------------------------------------------------------------------
(* Messages on their way.                                                  *)

LEMMA InFlightIs ==
  ASSUME NEW m
  PROVE  m \in InFlight <=>
           \/ m \in posts
           \/ \E k \in Link : \E i \in DOMAIN toSwitch[k] : m = toSwitch[k][i]
BY DEF InFlight

LEMMA InFlightType ==
  ASSUME ChannelTypeOK, NEW m \in InFlight
  PROVE  m \in RequestMsg
<1>1. CASE m \in posts
  BY <1>1 DEF ChannelTypeOK
<1>2. ASSUME NEW k \in Link, NEW i \in DOMAIN toSwitch[k], m = toSwitch[k][i]
      PROVE  m \in RequestMsg
  BY <1>2 DEF ChannelTypeOK
<1>. QED
  BY <1>1, <1>2, InFlightIs

\* A call adds its message to those on their way.
LEMMA PostInFlight ==
  ASSUME ChannelTypeOK, NEW client, NEW phase, NEW link, NEW kind, NEW gen,
         Post(client, phase, link, kind, gen)
  PROVE  InFlight' = InFlight \cup {[link |-> link, client |-> client, phase |-> phase,
                                     kind |-> kind, gen |-> gen]}
BY DEF InFlight, Post

\* What is taken from the front of a sequence leaves no element that was not there.
LEMMA TailElements ==
  ASSUME NEW S, NEW q \in Seq(S), q # <<>>, NEW i \in DOMAIN Tail(q)
  PROVE  /\ i + 1 \in DOMAIN q
         /\ Tail(q)[i] = q[i + 1]
OBVIOUS

LEMMA AppendElements ==
  ASSUME NEW S, NEW q \in Seq(S), NEW x \in S, NEW i \in DOMAIN Append(q, x)
  PROVE  \/ i \in DOMAIN q /\ Append(q, x)[i] = q[i]
         \/ Append(q, x)[i] = x
OBVIOUS

LEMMA HeadElement ==
  ASSUME NEW S, NEW q \in Seq(S), q # <<>>
  PROVE  1 \in DOMAIN q /\ Head(q) = q[1]
OBVIOUS

\* A channel sends nothing on its own.
LEMMA ChannelInFlight ==
  ASSUME ChannelTypeOK, ChannelStep
  PROVE  InFlight' \subseteq InFlight
<1>1. ASSUME NEW msg \in posts, ServePost(msg)
      PROVE  InFlight' \subseteq InFlight
  <2>0. msg \in RequestMsg /\ msg.link \in Link
    BY DEF ChannelTypeOK, RequestMsg
  <2>1. posts' \subseteq posts
    BY <1>1 DEF ServePost
  <2>2. ASSUME NEW k \in Link, NEW i \in DOMAIN toSwitch'[k]
        PROVE  toSwitch'[k][i] \in InFlight
    <3>1. CASE toSwitch'[k] = toSwitch[k]
      BY <2>2, <3>1, InFlightIs
    <3>2. CASE toSwitch'[k] = Append(toSwitch[k], msg)
      <4>0. toSwitch[k] \in Seq(RequestMsg)
        BY DEF ChannelTypeOK
      <4>1. \/ i \in DOMAIN toSwitch[k] /\ toSwitch'[k][i] = toSwitch[k][i]
            \/ toSwitch'[k][i] = msg
        BY <2>0, <2>2, <3>2, <4>0, AppendElements
      <4>. QED
        BY <4>1, InFlightIs
    <3>. QED
      BY <1>1, <2>0, <3>1, <3>2 DEF ServePost, ChannelTypeOK
  <2>. QED
    BY <2>1, <2>2, InFlightIs DEF InFlight
<1>2. ASSUME posts' \subseteq posts,
             \A k \in Link : \/ toSwitch'[k] = toSwitch[k]
                             \/ toSwitch'[k] = <<>>
                             \/ toSwitch[k] # <<>> /\ toSwitch'[k] = Tail(toSwitch[k])
      PROVE  InFlight' \subseteq InFlight
  <2>1. ASSUME NEW k \in Link, NEW i \in DOMAIN toSwitch'[k]
        PROVE  toSwitch'[k][i] \in InFlight
    <3>1. CASE toSwitch'[k] = toSwitch[k]
      BY <2>1, <3>1, InFlightIs
    <3>2. CASE toSwitch'[k] = <<>>
      BY <2>1, <3>2
    <3>3. CASE toSwitch[k] # <<>> /\ toSwitch'[k] = Tail(toSwitch[k])
      <4>0. toSwitch[k] \in Seq(RequestMsg)
        BY DEF ChannelTypeOK
      <4>1. i + 1 \in DOMAIN toSwitch[k] /\ toSwitch'[k][i] = toSwitch[k][i + 1]
        BY <2>1, <3>3, <4>0, TailElements
      <4>. QED
        BY <4>1, InFlightIs
    <3>. QED
      BY <1>2, <3>1, <3>2, <3>3
  <2>. QED
    BY <1>2, <2>1, InFlightIs DEF InFlight
<1>3. ASSUME NEW link \in Link,
             SwitchRefuses(link) \/ SwitchChangesRole(link) \/ SwitchReports(link)
      PROVE  InFlight' \subseteq InFlight
  BY <1>2, <1>3 DEF SwitchRefuses, SwitchChangesRole, SwitchReports, Arrived, ChannelTypeOK
<1>4. ASSUME NEW link \in Link,
             \/ HandleRoleReply(link) \/ HandleBarrierReply(link)
             \/ ChannelDown(link) \/ ChannelUp(link)
      PROVE  InFlight' \subseteq InFlight
  BY <1>2, <1>4 DEF HandleRoleReply, HandleBarrierReply, ChannelDown, ChannelUp, ChannelTypeOK
<1>5. ASSUME NEW c \in Controller, ControllerRestart(c)
      PROVE  InFlight' \subseteq InFlight
  BY <1>2, <1>5 DEF ControllerRestart, ChannelTypeOK
<1>. QED
  BY <1>1, <1>3, <1>4, <1>5 DEF ChannelStep

-----------------------------------------------------------------------------
(* Steps of controllers, switches and channels.                            *)

\* A switch accepts only ids that were drawn, and never an older one.
LEMMA ChannelIds ==
  ASSUME TypeOK, Addressed, RequestsInFlight, DrawnIds, ChannelStep
  PROVE  /\ swGen' \in [Switch -> Nat]
         /\ \A s \in Switch : swGen[s] <= swGen'[s] /\ swGen'[s] <= lastId
<1>. USE DEF TypeOK
<1>1. swGen' \in [Switch -> Nat]
  BY ChannelStepType DEF ChannelTypeOK
<1>2. CASE UNCHANGED swGen
  BY <1>2 DEF DrawnIds, ChannelTypeOK
<1>3. ASSUME NEW link \in Link, SwitchChangesRole(link)
      PROVE  \A s \in Switch : swGen[s] <= swGen'[s] /\ swGen'[s] <= lastId
  <2>. DEFINE msg == Head(toSwitch[link])
  <2>0. toSwitch[link] \in Seq(RequestMsg) /\ toSwitch[link] # <<>>
    BY <1>3 DEF SwitchChangesRole, Arrived, ChannelTypeOK
  <2>1. msg \in InFlight /\ msg \in RequestMsg /\ link[2] \in Switch
    <3>1. 1 \in DOMAIN toSwitch[link] /\ msg = toSwitch[link][1]
      BY <2>0, HeadElement
    <3>. QED
      BY <3>1, InFlightIs, InFlightType DEF Link
  <2>2. msg.gen <= lastId
    <3>1. ByHandler(msg) /\ msg.kind = "MASTER" /\ msg.client \in Request
      BY <1>3, <2>1 DEF SwitchChangesRole, RequestsInFlight, ByHandler
    <3>2. msg.gen = tx[msg.client].gen \/ msg.gen = tx[msg.client].rollbackGen
      BY <3>1 DEF ByHandler
    <3>. QED
      BY <3>1, <3>2 DEF DrawnIds, IdsOf
  <2>3. msg.link[2] = link[2]
    BY <2>0, HeadElement DEF Addressed
  <2>4. msg.gen \in Nat /\ swGen[link[2]] \in Nat /\ swGen[link[2]] <= msg.gen
    <3>1. msg.kind \in {"MASTER", "SLAVE"} /\ ~(msg.gen < swGen[link[2]])
      BY <1>3, <2>3 DEF SwitchChangesRole, Stale
    <3>2. msg.gen \in Nat /\ swGen[link[2]] \in Nat
      BY <2>1 DEF RequestMsg, ChannelTypeOK
    <3>. QED
      BY <3>1, <3>2
  <2>5. swGen' = [swGen EXCEPT ![link[2]] = msg.gen]
    BY <1>3 DEF SwitchChangesRole
  <2>. HIDE DEF msg
  <2>. QED
    BY <2>1, <2>2, <2>4, <2>5 DEF DrawnIds, ChannelTypeOK
<1>. QED
  BY <1>1, <1>2, <1>3 DEF ChannelStep, ServePost, SwitchRefuses, SwitchReports,
     HandleRoleReply, HandleBarrierReply, ChannelDown, ChannelUp, ControllerRestart

LEMMA ChannelAddressed ==
  ASSUME ChannelTypeOK, Addressed, ChannelStep
  PROVE  Addressed'
<1>1. ASSUME NEW msg \in posts, ServePost(msg)
      PROVE  Addressed'
  <2>0. msg \in RequestMsg /\ msg.link \in Link
    BY DEF ChannelTypeOK, RequestMsg
  <2>. SUFFICES ASSUME NEW k \in Link, NEW i \in DOMAIN toSwitch'[k]
                PROVE  toSwitch'[k][i].link = k
    BY DEF Addressed
  <2>1. CASE toSwitch'[k] = toSwitch[k]
    BY <2>1 DEF Addressed
  <2>2. CASE k = msg.link /\ toSwitch'[k] = Append(toSwitch[k], msg)
    <3>1. toSwitch[k] \in Seq(RequestMsg)
      BY DEF ChannelTypeOK
    <3>2. \/ i \in DOMAIN toSwitch[k] /\ toSwitch'[k][i] = toSwitch[k][i]
          \/ toSwitch'[k][i] = msg
      BY <2>0, <2>2, <3>1, AppendElements
    <3>. QED
      BY <2>2, <3>2 DEF Addressed
  <2>. QED
    BY <1>1, <2>0, <2>1, <2>2 DEF ServePost, ChannelTypeOK
<1>2. ASSUME \A k \in Link : \/ toSwitch'[k] = toSwitch[k]
                             \/ toSwitch'[k] = <<>>
                             \/ toSwitch[k] # <<>> /\ toSwitch'[k] = Tail(toSwitch[k])
      PROVE  Addressed'
  <2>. SUFFICES ASSUME NEW k \in Link, NEW i \in DOMAIN toSwitch'[k]
                PROVE  toSwitch'[k][i].link = k
    BY DEF Addressed
  <2>1. CASE toSwitch'[k] = toSwitch[k]
    BY <2>1 DEF Addressed
  <2>2. CASE toSwitch'[k] = <<>>
    BY <2>2
  <2>3. CASE toSwitch[k] # <<>> /\ toSwitch'[k] = Tail(toSwitch[k])
    <3>1. toSwitch[k] \in Seq(RequestMsg)
      BY DEF ChannelTypeOK
    <3>2. i + 1 \in DOMAIN toSwitch[k] /\ toSwitch'[k][i] = toSwitch[k][i + 1]
      BY <2>3, <3>1, TailElements
    <3>. QED
      BY <3>2 DEF Addressed
  <2>. QED
    BY <1>2, <2>1, <2>2, <2>3
<1>3. ASSUME NEW link \in Link,
             SwitchRefuses(link) \/ SwitchChangesRole(link) \/ SwitchReports(link)
      PROVE  Addressed'
  BY <1>2, <1>3 DEF SwitchRefuses, SwitchChangesRole, SwitchReports, Arrived, ChannelTypeOK
<1>4. ASSUME NEW link \in Link,
             \/ HandleRoleReply(link) \/ HandleBarrierReply(link)
             \/ ChannelDown(link) \/ ChannelUp(link)
      PROVE  Addressed'
  BY <1>2, <1>4 DEF HandleRoleReply, HandleBarrierReply, ChannelDown, ChannelUp, ChannelTypeOK
<1>5. ASSUME NEW c \in Controller, ControllerRestart(c)
      PROVE  Addressed'
  BY <1>2, <1>5 DEF ControllerRestart, ChannelTypeOK
<1>. QED
  BY <1>1, <1>3, <1>4, <1>5 DEF ChannelStep

\* What the front of a channel to a switch is, and where it leads.
LEMMA FrontOfChannel ==
  ASSUME ChannelTypeOK, Addressed, RequestsInFlight, NEW link \in Link, Arrived(link)
  PROVE  /\ Head(toSwitch[link]) \in InFlight
         /\ Head(toSwitch[link]) \in RequestMsg
         /\ Head(toSwitch[link]).link = link
         /\ ByHandler(Head(toSwitch[link]))
<1>1. toSwitch[link] \in Seq(RequestMsg) /\ toSwitch[link] # <<>>
  BY DEF Arrived, ChannelTypeOK
<1>2. 1 \in DOMAIN toSwitch[link] /\ Head(toSwitch[link]) = toSwitch[link][1]
  BY <1>1, HeadElement
<1>. QED
  BY <1>2, InFlightIs, InFlightType DEF Addressed, RequestsInFlight

LEMMA AcceptedKept ==
  ASSUME TypeOK, NEW r \in Request, NEW phase, Accepted(r, phase),
         swGen' \in [Switch -> Nat], \A s \in Switch : swGen[s] <= swGen'[s],
         input' = input, tx'[r].gen = tx[r].gen, tx'[r].rollbackGen = tx[r].rollbackGen
  PROVE  Accepted(r, phase)'
<1>1. SwitchOf(r) \in Switch /\ SwitchOf(r)' = SwitchOf(r)
  BY LinkFacts DEF SwitchOf
<1>2. /\ swGen[SwitchOf(r)] \in Nat /\ swGen'[SwitchOf(r)] \in Nat
      /\ swGen[SwitchOf(r)] <= swGen'[SwitchOf(r)]
      /\ tx[r].gen \in Nat /\ tx[r].rollbackGen \in Nat
  BY <1>1 DEF TypeOK, ChannelTypeOK
<1>. QED
  BY <1>1, <1>2 DEF Accepted

LEMMA ReplyKept ==
  ASSUME TypeOK, NEW n, ReplyProvesId(n), UNCHANGED orchestratorVars,
         swGen' \in [Switch -> Nat], \A s \in Switch : swGen[s] <= swGen'[s]
  PROVE  ReplyProvesId(n)'
BY AcceptedKept DEF ReplyProvesId, orchestratorVars

LEMMA AnswerKept ==
  ASSUME TypeOK, NEW r \in Request, AnswerProvesId(r), UNCHANGED orchestratorVars,
         swGen' \in [Switch -> Nat], \A s \in Switch : swGen[s] <= swGen'[s],
         poll'[r] = poll[r] \/ poll'[r].answer \notin Roles
  PROVE  AnswerProvesId(r)'
BY AcceptedKept DEF AnswerProvesId, orchestratorVars

LEMMA ChannelReplies ==
  ASSUME TypeOK, Addressed, RequestsInFlight, DrawnIds, RepliesProveIds,
         ChannelStep, UNCHANGED orchestratorVars
  PROVE  RepliesProveIds'
<1>. DEFINE Grown == /\ swGen' \in [Switch -> Nat]
                     /\ \A s \in Switch : swGen[s] <= swGen'[s]
<1>0. Grown /\ ChannelTypeOK
  BY ChannelIds DEF TypeOK
<1>1. ASSUME \A n \in Returning' : n \in Returning \/ ReplyProvesId(n)'
      PROVE  (\A n \in Returning : ReplyProvesId(n))'
  BY <1>0, <1>1, ReplyKept DEF RepliesProveIds
<1>2. ASSUME \A r \in Request : poll'[r] = poll[r] \/ poll'[r].answer \notin Roles
      PROVE  (\A r \in Request : AnswerProvesId(r))'
  BY <1>0, <1>2, AnswerKept DEF RepliesProveIds
<1>3. ASSUME \A k \in Link :
               \/ toController'[k] = toController[k]
               \/ toController'[k] = <<>>
               \/ toController[k] # <<>> /\ toController'[k] = Tail(toController[k])
      PROVE  (\A n \in Returning : ReplyProvesId(n))'
  <2>1. ASSUME NEW k \in Link, NEW i \in DOMAIN toController'[k]
        PROVE  toController'[k][i] \in Returning
    <3>1. toController[k] \in Seq(ReplyMsg)
      BY <1>0 DEF ChannelTypeOK
    <3>2. CASE toController[k] # <<>> /\ toController'[k] = Tail(toController[k])
      BY <2>1, <3>1, <3>2, TailElements DEF Returning
    <3>3. CASE toController'[k] = toController[k]
      BY <2>1, <3>3 DEF Returning
    <3>. QED
      BY <1>3, <2>1, <3>2, <3>3
  <2>. QED
    BY <1>1, <2>1 DEF Returning
<1>4. ASSUME NEW link \in Link, Arrived(link), NEW answer \in Roles \cup {"FENCED"},
             Reply(link, answer),
             Head(toSwitch[link]).kind = "MASTER" => swGen'[link[2]] = Head(toSwitch[link]).gen
      PROVE  (\A n \in Returning : ReplyProvesId(n))'
  <2>1. PICK msg : msg = Head(toSwitch[link])
    OBVIOUS
  <2>2. PICK n : n = [link |-> link, client |-> msg.client, phase |-> msg.phase,
                      answer |-> answer]
    OBVIOUS
  <2>3. msg \in RequestMsg /\ msg.link = link /\ ByHandler(msg) /\ msg.client \in Request
    BY <1>0, <1>4, <2>1, FrontOfChannel DEF ByHandler
  <2>4. n \in ReplyMsg /\ n.client = msg.client /\ n.phase = msg.phase
    BY <1>4, <2>2, <2>3 DEF RequestMsg, ReplyMsg
  <2>5. ReplyProvesId(n)'
    <3>1. msg.gen \in Nat /\ tx' = tx /\ input' = input
      BY <2>3 DEF RequestMsg, orchestratorVars
    <3>2. n.phase = "promote" => tx'[n.client].gen > 0 /\ Accepted(n.client, "promote")'
      BY <1>4, <2>1, <2>3, <2>4, <3>1 DEF ByHandler, Accepted, Target, SwitchOf
    <3>3. n.phase = "restore" => tx'[n.client].rollbackGen > 0 /\ Accepted(n.client, "restore")'
      BY <1>4, <2>1, <2>3, <2>4, <3>1 DEF ByHandler, Accepted, Source, SwitchOf
    <3>. QED
      BY <2>3, <2>4, <3>2, <3>3 DEF ReplyProvesId
  <2>6. toController' = [toController EXCEPT ![link] = Append(@, n)]
    BY <1>4, <2>1, <2>2 DEF Reply
  <2>7. ASSUME NEW k \in Link, NEW i \in DOMAIN toController'[k]
        PROVE  toController'[k][i] = n \/ toController'[k][i] \in Returning
    <3>1. toController[link] \in Seq(ReplyMsg)
      BY <1>0 DEF ChannelTypeOK
    <3>2. CASE k = link
      <4>1. toController'[k] = Append(toController[link], n)
        BY <1>0, <2>6, <3>2 DEF ChannelTypeOK
      <4>2. \/ i \in DOMAIN toController[link] /\ toController'[k][i] = toController[link][i]
            \/ toController'[k][i] = n
        BY <2>4, <2>7, <3>1, <4>1, AppendElements
      <4>. QED
        BY <4>2 DEF Returning
    <3>3. CASE k # link
      <4>1. toController'[k] = toController[k]
        BY <1>0, <2>6, <3>3 DEF ChannelTypeOK
      <4>. QED
        BY <2>7, <4>1 DEF Returning
    <3>. QED
      BY <3>2, <3>3
  <2>. QED
    BY <1>1, <2>5, <2>7 DEF Returning
<1>5. ASSUME NEW link \in Link, NEW n, n = Head(toController[link]), toController[link] # <<>>,
             NEW answer, poll' = Answered(n, answer), answer \in Roles => answer = n.answer
      PROVE  (\A r \in Request : AnswerProvesId(r))'
  <2>1. ReplyProvesId(n) /\ n \in ReplyMsg
    <3>1. toController[link] \in Seq(ReplyMsg)
      BY <1>0 DEF ChannelTypeOK
    <3>2. 1 \in DOMAIN toController[link] /\ n = toController[link][1]
      BY <1>5, <3>1, HeadElement
    <3>. QED
      BY <3>1, <3>2 DEF RepliesProveIds, Returning
  <2>2. ReplyProvesId(n)'
    BY <1>0, <2>1, ReplyKept
  <2>3. ASSUME NEW r \in Request, poll'[r] # poll[r]
        PROVE  AnswerProvesId(r)'
    <3>1. r \in Client
      BY RequestAssumption
    <3>2. r = n.client /\ poll'[r].phase = n.phase
      BY <1>0, <1>5, <2>3, <3>1 DEF Answered, ChannelTypeOK
    <3>. QED
      BY <2>2, <3>2 DEF ReplyProvesId, AnswerProvesId
  <2>4. ASSUME NEW r \in Request, poll'[r] = poll[r]
        PROVE  AnswerProvesId(r)'
    BY <1>0, <2>4, AnswerKept DEF RepliesProveIds
  <2>. QED
    BY <2>3, <2>4
<1>6. ASSUME NEW msg \in posts, ServePost(msg)
      PROVE  RepliesProveIds'
  <2>1. msg.client \in Client
    BY <1>0 DEF ChannelTypeOK, RequestMsg
  <2>2. "HTTP_ERROR" \notin Roles
    BY DEF Roles
  <2>3. poll' = poll \/ poll' = Answered(msg, "HTTP_ERROR")
    BY <1>6 DEF ServePost
  <2>4. ASSUME NEW r \in Request
        PROVE  poll'[r] = poll[r] \/ poll'[r].answer \notin Roles
    BY <1>0, <2>1, <2>2, <2>3, RequestAssumption DEF Answered, ChannelTypeOK
  <2>5. toController' = toController
    BY <1>6 DEF ServePost
  <2>. QED
    BY <1>2, <1>3, <2>4, <2>5 DEF RepliesProveIds
<1>7. ASSUME NEW link \in Link, SwitchRefuses(link) \/ ChannelUp(link)
      PROVE  RepliesProveIds'
  <2>1. toController' = toController /\ poll' = poll
    BY <1>7 DEF SwitchRefuses, ChannelUp
  <2>. QED
    BY <1>2, <1>3, <2>1 DEF RepliesProveIds
<1>8. ASSUME NEW link \in Link, SwitchChangesRole(link)
      PROVE  RepliesProveIds'
  <2>0. link[2] \in Switch
    BY DEF Link
  <2>1. /\ Arrived(link)
        /\ Reply(link, Head(toSwitch[link]).kind)
        /\ Head(toSwitch[link]).kind \in Roles \cup {"FENCED"}
        /\ swGen' = [swGen EXCEPT ![link[2]] = Head(toSwitch[link]).gen]
        /\ poll' = poll
    BY <1>8 DEF SwitchChangesRole, Roles
  <2>2. swGen'[link[2]] = Head(toSwitch[link]).gen
    BY <1>0, <2>0, <2>1 DEF ChannelTypeOK
  <2>. QED
    BY <1>2, <1>4, <2>1, <2>2 DEF RepliesProveIds
<1>9. ASSUME NEW link \in Link, SwitchReports(link)
      PROVE  RepliesProveIds'
  <2>0. /\ Arrived(link)
        /\ Head(toSwitch[link]).kind # "MASTER"
        /\ poll' = poll
    BY <1>9 DEF SwitchReports
  <2>1. PICK answer \in Roles \cup {"FENCED"} : Reply(link, answer)
    BY <1>0, <1>9 DEF SwitchReports, Arrived, Connected, ChannelTypeOK
  <2>. QED
    BY <1>2, <1>4, <2>0, <2>1 DEF RepliesProveIds
<1>10. ASSUME NEW link \in Link, HandleRoleReply(link) \/ HandleBarrierReply(link)
       PROVE  RepliesProveIds'
  <2>1. "FENCED" \notin Roles
    BY DEF Roles
  <2>2. PICK answer : /\ poll' = Answered(Head(toController[link]), answer)
                      /\ answer \in Roles => answer = Head(toController[link]).answer
    BY <1>10, <2>1 DEF HandleRoleReply, HandleBarrierReply
  <2>3. /\ toController[link] # <<>>
        /\ toController' = [toController EXCEPT ![link] = Tail(@)]
    BY <1>10 DEF HandleRoleReply, HandleBarrierReply
  <2>4. \A k \in Link : \/ toController'[k] = toController[k]
                        \/ toController[k] # <<>> /\ toController'[k] = Tail(toController[k])
    BY <1>0, <2>3 DEF ChannelTypeOK
  <2>. QED
    BY <1>3, <1>5, <2>2, <2>3, <2>4 DEF RepliesProveIds
<1>11. ASSUME NEW link \in Link, ChannelDown(link)
       PROVE  RepliesProveIds'
  <2>1. /\ toController' = [toController EXCEPT ![link] = <<>>]
        /\ poll' = poll
    BY <1>11 DEF ChannelDown
  <2>2. \A k \in Link : toController'[k] = toController[k] \/ toController'[k] = <<>>
    BY <1>0, <2>1 DEF ChannelTypeOK
  <2>. QED
    BY <1>2, <1>3, <2>1, <2>2 DEF RepliesProveIds
<1>12. ASSUME NEW c \in Controller, ControllerRestart(c)
       PROVE  RepliesProveIds'
  <2>1. \A k \in Link : toController'[k] = toController[k] \/ toController'[k] = <<>>
    BY <1>0, <1>12 DEF ControllerRestart, ChannelTypeOK
  <2>2. "HTTP_ERROR" \notin Roles
    BY DEF Roles
  <2>3. ASSUME NEW r \in Request
        PROVE  poll'[r] = poll[r] \/ poll'[r].answer \notin Roles
    <3>1. r \in Client
      BY RequestAssumption
    <3>2. poll'[r] = poll[r] \/ poll'[r] = [poll[r] EXCEPT !.answer = "HTTP_ERROR"]
      BY <1>12, <3>1 DEF ControllerRestart
    <3>. QED
      BY <1>0, <2>2, <3>1, <3>2 DEF ChannelTypeOK
  <2>. QED
    BY <1>2, <1>3, <2>1, <2>3 DEF RepliesProveIds
<1>. QED
  BY <1>6, <1>7, <1>8, <1>9, <1>10, <1>11, <1>12 DEF ChannelStep

LEMMA EntitledKept ==
  ASSUME UNCHANGED orchestratorVars, NEW c, NEW s, NEW g, Entitled(c, s, g)
  PROVE  Entitled(c, s, g)'
BY DEF Entitled, EntitledByRegister, EntitledByRequest, Holds, SwitchOf, orchestratorVars

\* A message that would be refused stays refused.
LEMMA StaleKept ==
  ASSUME TypeOK, NEW m \in RequestMsg, Stale(m), swGen' \in [Switch -> Nat],
         \A s \in Switch : swGen[s] <= swGen'[s]
  PROVE  Stale(m)'
<1>1. m.link[2] \in Switch /\ m.gen \in Nat
  BY DEF RequestMsg, Link
<1>2. /\ swGen[m.link[2]] \in Nat /\ swGen'[m.link[2]] \in Nat
      /\ swGen[m.link[2]] <= swGen'[m.link[2]]
  BY <1>1 DEF TypeOK, ChannelTypeOK
<1>. QED
  BY <1>1, <1>2 DEF Stale

LEMMA ChannelFencing ==
  ASSUME TypeOK, FencingInvariant, ChannelStep, UNCHANGED orchestratorVars
  PROVE  FencingInvariant'
<1>. USE DEF FencingInvariant
<1>0. ChannelTypeOK
  BY DEF TypeOK
<1>1. /\ swGen' \in [Switch -> Nat]
      /\ \A s \in Switch : swGen[s] <= swGen'[s] /\ swGen'[s] <= lastId
  BY ChannelIds
<1>2. Addressed' /\ RepliesProveIds'
  BY <1>0, ChannelAddressed, ChannelReplies
<1>3. RequestsInFlight'
  BY <1>0, ChannelInFlight DEF RequestsInFlight, ByHandler, Target, Source, SwitchOf,
     orchestratorVars
<1>4. DrawnIds'
  BY <1>1 DEF DrawnIds, IdsOf, orchestratorVars
<1>5. AcceptedIds'
  BY <1>1, AcceptedKept DEF AcceptedIds, orchestratorVars
<1>6. Settled'
  BY DEF Settled, SwitchOf, orchestratorVars
<1>7. ASSUME NEW m \in InFlight', m.kind = "MASTER"
      PROVE  Fenced(m)'
  <2>1. m \in InFlight /\ m \in RequestMsg
    BY <1>0, <1>7, ChannelInFlight, InFlightType
  <2>2. Stale(m) \/ Entitled(m.link[1], m.link[2], m.gen)
    BY <1>7, <2>1 DEF RoleFencing, Fenced
  <2>3. CASE Stale(m)
    BY <1>1, <2>1, <2>3, StaleKept DEF Fenced
  <2>4. CASE Entitled(m.link[1], m.link[2], m.gen)
    BY <2>4, EntitledKept DEF Fenced
  <2>. QED
    BY <2>2, <2>3, <2>4
<1>8. ASSUME NEW c \in Controller, NEW s \in Switch, swRole'[<<c, s>>] = "MASTER"
      PROVE  Entitled(c, s, swGen[s])'
  <2>0. <<c, s>> \in Link
    BY DEF Link
  <2>1. CASE swRole[<<c, s>>] = "MASTER" /\ swGen'[s] = swGen[s]
    <3>1. PICK g : g = swGen[s]
      OBVIOUS
    <3>2. Entitled(c, s, g)'
      BY <2>1, <3>1, EntitledKept DEF RoleFencing
    <3>. QED
      BY <2>1, <3>1, <3>2
  <2>2. ASSUME NEW link \in Link, SwitchChangesRole(link)
        PROVE  Entitled(c, s, swGen[s])'
    <3>1. PICK msg : msg = Head(toSwitch[link])
      OBVIOUS
    <3>2. msg \in InFlight /\ msg \in RequestMsg /\ msg.link = link /\ ByHandler(msg)
      BY <1>0, <2>2, <3>1, FrontOfChannel DEF SwitchChangesRole
    <3>3. msg.kind = "MASTER" /\ ~Stale(msg)
      BY <2>2, <3>1, <3>2 DEF SwitchChangesRole, ByHandler
    <3>4. /\ swRole' = RolesAfter(link, "MASTER")
          /\ swGen' = [swGen EXCEPT ![link[2]] = msg.gen]
      BY <2>2, <3>1, <3>3 DEF SwitchChangesRole
    <3>5. link[2] \in Switch /\ link = <<link[1], link[2]>>
      BY DEF Link
    <3>6. CASE <<c, s>> = link
      <4>1. Entitled(c, s, msg.gen)
        BY <3>2, <3>3, <3>6 DEF RoleFencing, Fenced
      <4>2. swGen'[s] = msg.gen
        BY <1>0, <3>4, <3>5, <3>6 DEF ChannelTypeOK
      <4>3. Entitled(c, s, msg.gen)'
        BY <4>1, EntitledKept
      <4>. QED
        BY <4>2, <4>3
    <3>7. CASE s # link[2]
      <4>1. swRole'[<<c, s>>] = swRole[<<c, s>>]
        BY <2>0, <3>4, <3>5, <3>7 DEF RolesAfter
      <4>2. swGen'[s] = swGen[s]
        BY <1>0, <3>4, <3>7 DEF ChannelTypeOK
      <4>. QED
        BY <1>8, <2>1, <4>1, <4>2
    <3>8. CASE s = link[2] /\ <<c, s>> # link
      <4>1. swRole'[<<c, s>>] # "MASTER"
        BY <2>0, <3>4, <3>8 DEF RolesAfter
      <4>. QED
        BY <1>8, <4>1
    <3>. QED
      BY <3>6, <3>7, <3>8
  <2>3. ASSUME UNCHANGED swGen, \A k \in Link : swRole'[k] = "MASTER" => swRole[k] = "MASTER"
        PROVE  Entitled(c, s, swGen[s])'
    BY <1>8, <2>0, <2>1, <2>3
  <2>4. ASSUME NEW msg \in posts, ServePost(msg)
        PROVE  Entitled(c, s, swGen[s])'
    BY <2>3, <2>4 DEF ServePost
  <2>5. ASSUME NEW link \in Link,
               \/ SwitchRefuses(link) \/ SwitchReports(link)
               \/ HandleRoleReply(link) \/ HandleBarrierReply(link)
        PROVE  Entitled(c, s, swGen[s])'
    BY <2>3, <2>5 DEF SwitchRefuses, SwitchReports, HandleRoleReply, HandleBarrierReply
  <2>6. ASSUME NEW link \in Link, ChannelDown(link) \/ ChannelUp(link)
        PROVE  Entitled(c, s, swGen[s])'
    BY <1>0, <2>3, <2>6 DEF ChannelDown, ChannelUp, ChannelTypeOK
  <2>7. ASSUME NEW d \in Controller, ControllerRestart(d)
        PROVE  Entitled(c, s, swGen[s])'
    BY <2>3, <2>7 DEF ControllerRestart
  <2>. QED
    BY <2>2, <2>4, <2>5, <2>6, <2>7 DEF ChannelStep
<1>. QED
  BY <1>2, <1>3, <1>4, <1>5, <1>6, <1>7, <1>8 DEF RoleFencing

-----------------------------------------------------------------------------
(* Steps of the handler.                                                   *)

\* A step inside the migration, or inside the rollback, that draws no id and
\* asks for no role.
LEMMA QuietStep ==
  ASSUME TypeOK, FencingInvariant, NEW r \in Request,
         UNCHANGED <<owner, lastId, input, toSwitch, toController, swRole, swGen>>,
         \A q \in Request : /\ tx'[q].source = tx[q].source
                            /\ tx'[q].gen = tx[q].gen
                            /\ tx'[q].rollbackGen = tx[q].rollbackGen,
         \A q \in Request \ {r} : pc'[q] = pc[q],
         \A m \in InFlight' :
            \/ m \in InFlight
            \/ /\ m.client = r
               /\ m.kind \in {"NOCHANGE", "BARRIER"}
               /\ m.phase \notin {"promote", "restore"},
         \A q \in Request : poll'[q] = poll[q] \/ poll'[q].answer \notin Roles,
         \/ /\ pc[r] \in Migrating \ {"created"}
            /\ pc'[r] \in Migrating \ {"created"}
         \/ /\ pc[r] \in RollingBack
            /\ pc'[r] \in RollingBack \cup {"stuck"},
         pc'[r] \in Promoted => Accepted(r, "promote"),
         pc'[r] \in Restored => Accepted(r, "restore")
  PROVE  FencingInvariant'
<1>. USE DEF FencingInvariant
<1>1. /\ swGen' \in [Switch -> Nat]
      /\ \A s \in Switch : swGen[s] <= swGen'[s] /\ swGen'[s] <= lastId
  BY DEF TypeOK, ChannelTypeOK, DrawnIds
<1>2. Addressed'
  BY DEF Addressed
<1>3. RequestsInFlight'
  BY DEF RequestsInFlight, ByHandler, Target, Source, SwitchOf
<1>4. DrawnIds'
  <2>1. ASSUME NEW q \in Request \ {r}
        PROVE  IdsOf(q)'
    BY DEF DrawnIds, IdsOf
  <2>2. IdsOf(r)'
    BY DEF DrawnIds, IdsOf, Migrating, RollingBack, MigrateRaises, RollbackRaises,
       MigrateCalls, RollbackCalls
  <2>. QED
    BY <1>1, <2>1, <2>2 DEF DrawnIds
<1>5. RepliesProveIds'
  <2>1. ASSUME NEW n \in Returning'
        PROVE  ReplyProvesId(n)'
    <3>1. n \in Returning
      BY DEF Returning
    <3>. QED
      BY <1>1, <3>1, AcceptedKept DEF RepliesProveIds, ReplyProvesId
  <2>2. ASSUME NEW q \in Request
        PROVE  AnswerProvesId(q)'
    BY <1>1, AcceptedKept DEF RepliesProveIds, AnswerProvesId
  <2>. QED
    BY <2>1, <2>2 DEF RepliesProveIds
<1>6. AcceptedIds'
  BY <1>1, AcceptedKept DEF AcceptedIds
<1>7. Settled'
  BY DEF Settled, SwitchOf, Migrating, RollingBack, MigrateRaises, RollbackRaises,
     MigrateCalls, RollbackCalls
<1>8. ASSUME NEW c, NEW s, NEW g, Entitled(c, s, g)
      PROVE  Entitled(c, s, g)'
  <2>1. \A q \in Request : Holds(q, s)' <=> Holds(q, s)
    BY DEF Holds, SwitchOf, Holding
  <2>. QED
    BY <1>8, <2>1 DEF Entitled, EntitledByRegister, EntitledByRequest
<1>9. ASSUME NEW m \in InFlight', m.kind = "MASTER"
      PROVE  Fenced(m)'
  BY <1>8, <1>9 DEF RoleFencing, Fenced, Stale
<1>10. ASSUME NEW c \in Controller, NEW s \in Switch, swRole'[<<c, s>>] = "MASTER"
       PROVE  Entitled(c, s, swGen[s])'
  <2>1. PICK g : g = swGen[s]
    OBVIOUS
  <2>2. Entitled(c, s, g)'
    BY <1>8, <1>10, <2>1 DEF RoleFencing
  <2>. QED
    BY <2>1, <2>2
<1>. QED
  BY <1>2, <1>3, <1>4, <1>5, <1>6, <1>7, <1>9, <1>10 DEF RoleFencing

\* What a call leaves alone, what it adds, and that it forgets the last answer.
LEMMA PostFacts ==
  ASSUME TypeOK, NEW r \in Request, NEW phase, NEW link, NEW kind, NEW gen,
         Post(r, phase, link, kind, gen)
  PROVE  /\ UNCHANGED <<toSwitch, toController, swRole, swGen>>
         /\ InFlight' = InFlight \cup {[link |-> link, client |-> r, phase |-> phase,
                                        kind |-> kind, gen |-> gen]}
         /\ \A q \in Request : poll'[q] = poll[q] \/ poll'[q].answer \notin Roles
<1>1. "PENDING" \notin Roles /\ r \in Client /\ ChannelTypeOK
  BY RequestAssumption DEF Roles, TypeOK
<1>2. \A q \in Request : poll'[q] = poll[q] \/ poll'[q].answer \notin Roles
  BY <1>1, RequestAssumption DEF Post, ChannelTypeOK
<1>. QED
  BY <1>1, <1>2, PostInFlight DEF Post

LEMMA NextCallFencing ==
  ASSUME TypeOK, FencingInvariant, NEW r \in Request, NEW at, NEW answers,
         NEW next, NEW link, NEW kind \in {"NOCHANGE", "BARRIER"},
         NextCall(r, at, answers, next, link, kind),
         tx' = tx \/ \E holds \in BOOLEAN : Check(r, holds),
         next \notin {"promote", "restore"},
         \/ at \in Migrating \ {"created"} /\ next \in Migrating \ {"created"}
         \/ at \in RollingBack /\ next \in RollingBack,
         next \in Promoted => Accepted(r, "promote"),
         next \in Restored => Accepted(r, "restore")
  PROVE  FencingInvariant'
<1>1. Post(r, next, link, kind, 0)
  BY DEF NextCall
<1>2. /\ pc[r] = at /\ pc'[r] = next
      /\ \A q \in Request \ {r} : pc'[q] = pc[q]
      /\ UNCHANGED <<owner, lastId, input>>
  BY DEF NextCall, Goto, TypeOK
<1>3. \A q \in Request : /\ tx'[q].source = tx[q].source
                         /\ tx'[q].gen = tx[q].gen
                         /\ tx'[q].rollbackGen = tx[q].rollbackGen
  BY DEF Check, TypeOK
<1>4. \A m \in InFlight' :
         \/ m \in InFlight
         \/ /\ m.client = r
            /\ m.kind \in {"NOCHANGE", "BARRIER"}
            /\ m.phase \notin {"promote", "restore"}
  BY <1>1, PostFacts
<1>5. /\ UNCHANGED <<toSwitch, toController, swRole, swGen>>
      /\ \A q \in Request : poll'[q] = poll[q] \/ poll'[q].answer \notin Roles
  BY <1>1, PostFacts
<1>. QED
  BY <1>2, <1>3, <1>4, <1>5, QuietStep

LEMMA LocalStepFencing ==
  ASSUME TypeOK, FencingInvariant, NEW r \in Request,
         UNCHANGED <<posts, toSwitch, toController, swRole, swGen>>,
         UNCHANGED <<owner, lastId, input>>,
         poll' = poll \/ poll' = [poll EXCEPT ![r] = NoPoll],
         tx' = tx \/ \E holds \in BOOLEAN : Check(r, holds),
         NEW point, Goto(r, point),
         \/ pc[r] \in Migrating \ {"created"} /\ point \in Migrating \ {"created"}
         \/ pc[r] \in RollingBack /\ point \in RollingBack \cup {"stuck"},
         point \in Promoted => pc[r] \in Promoted,
         point \in Restored => pc[r] \in Restored
  PROVE  FencingInvariant'
<1>1. pc'[r] = point /\ \A q \in Request \ {r} : pc'[q] = pc[q]
  BY DEF Goto, TypeOK
<1>2. \A q \in Request : /\ tx'[q].source = tx[q].source
                         /\ tx'[q].gen = tx[q].gen
                         /\ tx'[q].rollbackGen = tx[q].rollbackGen
  BY DEF Check, TypeOK
<1>3. \A q \in Request : poll'[q] = poll[q] \/ poll'[q].answer \notin Roles
  BY RequestAssumption DEF NoPoll, Roles, TypeOK, ChannelTypeOK
<1>4. InFlight' = InFlight
  BY DEF InFlight
<1>5. /\ point \in Promoted => Accepted(r, "promote")
      /\ point \in Restored => Accepted(r, "restore")
  BY DEF FencingInvariant, AcceptedIds
<1>. QED
  BY <1>1, <1>2, <1>3, <1>4, <1>5, QuietStep

\* The calls and checks between the role changes.
LEMMA QuietFencing ==
  ASSUME TypeOK, FencingInvariant, NEW r \in Request,
         \/ PromoteReplied(r) \/ PromoteFenced(r) \/ SourceQueried(r) \/ TargetQueried(r)
         \/ SourceConnectivity(r) \/ TargetConnectivity(r) \/ TrafficVerified(r)
         \/ RestoreReplied(r) \/ RestoreFenced(r) \/ RestoredQueried(r) \/ OtherQueried(r)
         \/ RestoredConnectivity(r) \/ OtherConnectivity(r) \/ GiveUp(r)
  PROVE  FencingInvariant'
<1>. USE DEF Migrating, RollingBack, MigrateRaises, RollbackRaises, MigrateCalls,
             RollbackCalls, Promoted, Restored
<1>1. AcceptedIds
  BY DEF FencingInvariant
<1>2. CASE PromoteReplied(r)
  <2>1. Accepted(r, "promote")
    BY <1>2 DEF PromoteReplied, NextCall, Reads, FencingInvariant, RepliesProveIds,
       AnswerProvesId
  <2>. QED
    BY <1>2, <2>1, NextCallFencing DEF PromoteReplied
<1>3. CASE RestoreReplied(r)
  <2>1. Accepted(r, "restore")
    BY <1>3 DEF RestoreReplied, NextCall, Reads, FencingInvariant, RepliesProveIds,
       AnswerProvesId
  <2>. QED
    BY <1>3, <2>1, NextCallFencing DEF RestoreReplied
<1>4. CASE PromoteFenced(r)
  <2>1. Accepted(r, "promote")
    BY <1>1, <1>4 DEF PromoteFenced, NextCall, AcceptedIds
  <2>. QED
    BY <1>4, <2>1, NextCallFencing DEF PromoteFenced
<1>5. CASE SourceQueried(r)
  <2>1. Accepted(r, "promote")
    BY <1>1, <1>5 DEF SourceQueried, NextCall, AcceptedIds
  <2>2. (poll[r].answer = "SLAVE") \in BOOLEAN
    OBVIOUS
  <2>3. \E holds \in BOOLEAN : Check(r, holds)
    BY <1>5, <2>2 DEF SourceQueried
  <2>. QED
    BY <1>5, <2>1, <2>3, NextCallFencing DEF SourceQueried
<1>6. CASE RestoreFenced(r)
  <2>1. Accepted(r, "restore")
    BY <1>1, <1>6 DEF RestoreFenced, NextCall, AcceptedIds
  <2>. QED
    BY <1>6, <2>1, NextCallFencing DEF RestoreFenced
<1>7. CASE RestoredQueried(r)
  <2>1. Accepted(r, "restore")
    BY <1>1, <1>7 DEF RestoredQueried, NextCall, AcceptedIds
  <2>2. (poll[r].answer = "MASTER") \in BOOLEAN
    OBVIOUS
  <2>3. \E holds \in BOOLEAN : Check(r, holds)
    BY <1>7, <2>2 DEF RestoredQueried
  <2>. QED
    BY <1>7, <2>1, <2>3, NextCallFencing DEF RestoredQueried
<1>8. CASE TargetQueried(r) \/ OtherQueried(r)
  BY <1>8, LocalStepFencing DEF TargetQueried, OtherQueried, channelVars
<1>9. ASSUME NEW at, NEW link, NEW next, CheckConnected(r, at, link, next),
             <<at, next>> \in {<<"connSource", "connTarget">>, <<"connTarget", "traffic">>,
                               <<"connRestored", "connOther">>, <<"connOther", "markRestored">>}
      PROVE  FencingInvariant'
  <2>1. Connected(link) \in BOOLEAN
    BY DEF Connected
  <2>. QED
    BY <1>9, <2>1, LocalStepFencing DEF CheckConnected, channelVars
<1>10. CASE TrafficVerified(r)
  BY <1>10, LocalStepFencing DEF TrafficVerified, channelVars
<1>11. CASE GiveUp(r)
  BY <1>11, LocalStepFencing DEF GiveUp
<1>. QED
  BY <1>2, <1>3, <1>4, <1>5, <1>6, <1>7, <1>8, <1>9, <1>10, <1>11
     DEF SourceConnectivity, TargetConnectivity, RestoredConnectivity, OtherConnectivity

\* What has to be shown of a step that locks, draws an id, settles or unlocks:
\* ids once drawn stay, and who is no longer entitled is refused already.
LEMMA HandlerStep ==
  ASSUME TypeOK, TypeOK', FencingInvariant, NEW r \in Request,
         UNCHANGED <<input, toSwitch, toController, swRole, swGen>>,
         \A q \in Request \ {r} : pc'[q] = pc[q] /\ tx'[q] = tx[q],
         lastId <= lastId',
         IdsOf(r)',
         tx[r].gen > 0 => tx'[r].gen = tx[r].gen,
         tx[r].rollbackGen > 0 => /\ tx'[r].rollbackGen = tx[r].rollbackGen
                                  /\ tx'[r].source = tx[r].source,
         \A m \in InFlight' :
            m \in InFlight \/ (ByHandler(m)' /\ Fenced(m)'),
         \A q \in Request :
            \/ /\ poll'[q] = poll[q] /\ tx'[q].gen = tx[q].gen
               /\ tx'[q].rollbackGen = tx[q].rollbackGen
            \/ poll'[q].answer \notin Roles,
         pc'[r] \in Promoted => Accepted(r, "promote")',
         pc'[r] \in Restored => Accepted(r, "restore")',
         Settled',
         \A c \in Controller, s \in Switch, g \in Nat :
            Entitled(c, s, g) /\ g <= lastId => Entitled(c, s, g)' \/ g < swGen[s]
  PROVE  FencingInvariant'
<1>. USE DEF FencingInvariant
<1>0. /\ swGen \in [Switch -> Nat]
      /\ lastId \in Nat /\ lastId' \in Nat
      /\ \A q \in Request : /\ tx[q].gen \in Nat /\ tx[q].rollbackGen \in Nat
                            /\ tx'[q].gen \in Nat /\ tx'[q].rollbackGen \in Nat
  BY DEF TypeOK, ChannelTypeOK
<1>1. Addressed'
  BY DEF Addressed
<1>2. ASSUME NEW m \in InFlight
      PROVE  ByHandler(m)'
  <2>1. ByHandler(m)
    BY DEF RequestsInFlight
  <2>2. m.client # r \/ m.phase \notin {"promote", "restore"} => ByHandler(m)'
    BY <2>1 DEF ByHandler, Target, Source, SwitchOf
  <2>3. m.client = r /\ m.phase = "promote" => ByHandler(m)'
    BY <2>1 DEF ByHandler, Target, SwitchOf
  <2>4. m.client = r /\ m.phase = "restore" => ByHandler(m)'
    BY <2>1 DEF ByHandler, Source, SwitchOf
  <2>. QED
    BY <2>2, <2>3, <2>4
<1>3. RequestsInFlight'
  BY <1>2 DEF RequestsInFlight
<1>4. DrawnIds'
  <2>1. ASSUME NEW q \in Request \ {r}
        PROVE  IdsOf(q)'
    BY <1>0 DEF DrawnIds, IdsOf
  <2>2. \A s \in Switch : swGen'[s] <= lastId'
    BY <1>0 DEF DrawnIds
  <2>. QED
    BY <2>1, <2>2 DEF DrawnIds
<1>5. RepliesProveIds'
  <2>1. ASSUME NEW n \in Returning'
        PROVE  ReplyProvesId(n)'
    <3>1. n \in Returning /\ ReplyProvesId(n)
      BY DEF Returning, RepliesProveIds
    <3>2. n.phase = "promote" => tx'[n.client].gen > 0 /\ Accepted(n.client, "promote")'
      BY <3>1 DEF ReplyProvesId, Accepted, SwitchOf
    <3>3. n.phase = "restore" => tx'[n.client].rollbackGen > 0 /\ Accepted(n.client, "restore")'
      BY <3>1 DEF ReplyProvesId, Accepted, SwitchOf
    <3>. QED
      BY <3>1, <3>2, <3>3 DEF ReplyProvesId
  <2>2. ASSUME NEW q \in Request
        PROVE  AnswerProvesId(q)'
    BY DEF RepliesProveIds, AnswerProvesId, Accepted, SwitchOf
  <2>. QED
    BY <2>1, <2>2 DEF RepliesProveIds
<1>6. AcceptedIds'
  <2>1. ASSUME NEW q \in Request \ {r}
        PROVE  /\ pc'[q] \in Promoted => Accepted(q, "promote")'
               /\ pc'[q] \in Restored => Accepted(q, "restore")'
    BY DEF AcceptedIds, Accepted, SwitchOf
  <2>. QED
    BY <2>1 DEF AcceptedIds
<1>7. ASSUME NEW m \in InFlight', m.kind = "MASTER"
      PROVE  Fenced(m)'
  <2>1. CASE m \in InFlight
    <3>1. /\ m.gen \in Nat /\ m.gen <= lastId
          /\ m.link[1] \in Controller /\ m.link[2] \in Switch
      <4>1. ByHandler(m) /\ m \in RequestMsg
        BY <2>1, InFlightType DEF RequestsInFlight, TypeOK
      <4>2. m.gen = tx[m.client].gen \/ m.gen = tx[m.client].rollbackGen
        BY <1>7, <4>1 DEF ByHandler
      <4>. QED
        BY <4>1, <4>2 DEF DrawnIds, IdsOf, ByHandler, RequestMsg, Link
    <3>2. Stale(m) \/ Entitled(m.link[1], m.link[2], m.gen)
      BY <1>7, <2>1 DEF RoleFencing, Fenced
    <3>3. Stale(m) \/ Entitled(m.link[1], m.link[2], m.gen)'
      BY <1>7, <3>1, <3>2 DEF Stale
    <3>4. Stale(m) => Stale(m)'
      BY DEF Stale
    <3>. QED
      BY <3>3, <3>4 DEF Fenced
  <2>. QED
    BY <2>1
<1>8. ASSUME NEW c \in Controller, NEW s \in Switch, swRole'[<<c, s>>] = "MASTER"
      PROVE  Entitled(c, s, swGen[s])'
  <2>1. PICK g : g = swGen[s]
    OBVIOUS
  <2>2. Entitled(c, s, g) /\ g \in Nat /\ g <= lastId /\ ~(g < swGen[s])
    BY <1>0, <1>8, <2>1 DEF RoleFencing, DrawnIds
  <2>3. Entitled(c, s, g)'
    BY <2>2
  <2>. QED
    BY <2>1, <2>3
<1>. QED
  BY <1>1, <1>3, <1>4, <1>5, <1>6, <1>7, <1>8 DEF RoleFencing

\* Two transactions do not hold the same switch.
LEMMA OneHolder ==
  ASSUME LockExclusion, NEW q \in Request, NEW r \in Request, NEW s \in Switch,
         Holds(q, s), Holds(r, s)
  PROVE  q = r
BY DEF LockExclusion

\* What a step of one thread leaves of the hold of the others.
LEMMA OtherHolds ==
  ASSUME NEW r \in Request, input' = input, \A q \in Request \ {r} : pc'[q] = pc[q]
  PROVE  \A q \in Request \ {r} : \A s : Holds(q, s)' <=> Holds(q, s)
BY DEF Holds, SwitchOf

LEMMA ReadOwnerFencing ==
  ASSUME TypeOK, FencingInvariant, NEW r \in Request, ReadOwner(r)
  PROVE  FencingInvariant'
<1>. USE DEF FencingInvariant
<1>0. /\ TypeOK'
      /\ pc[r] = "idle" /\ pc'[r] \in {"read", "rejected"}
      /\ \A q \in Request \ {r} : pc'[q] = pc[q] /\ tx'[q] = tx[q]
      /\ tx'[r].gen = tx[r].gen /\ tx'[r].rollbackGen = tx[r].rollbackGen
      /\ UNCHANGED <<channelVars, owner, lastId, input>>
  <2>1. TypeOK'
    BY ReadOwnerType
  <2>. QED
    BY <2>1 DEF ReadOwner, Goto, TypeOK
<1>1. tx[r].gen = 0 /\ tx[r].rollbackGen = 0
  BY <1>0 DEF DrawnIds, IdsOf
<1>2. IdsOf(r)'
  BY <1>0, <1>1 DEF DrawnIds, IdsOf, Migrating, RollingBack, MigrateRaises, RollbackRaises,
     MigrateCalls, RollbackCalls
<1>3. UNCHANGED <<toSwitch, toController, swRole, swGen>> /\ InFlight' = InFlight
      /\ poll' = poll
  BY <1>0 DEF InFlight, channelVars
<1>4. pc'[r] \notin Promoted /\ pc'[r] \notin Restored
  BY <1>0 DEF Promoted, Restored
<1>5. Settled'
  BY <1>0 DEF Settled, SwitchOf
<1>6. ASSUME NEW c \in Controller, NEW s \in Switch, NEW g \in Nat, Entitled(c, s, g)
      PROVE  Entitled(c, s, g)'
  <2>1. ~Holds(r, s) /\ ~Holds(r, s)'
    BY <1>0 DEF Holds, Holding, Migrating, RollingBack, MigrateRaises, RollbackRaises,
       MigrateCalls, RollbackCalls
  <2>2. \A q \in Request \ {r} : Holds(q, s)' <=> Holds(q, s)
    BY <1>0, OtherHolds
  <2>3. EntitledByRegister(c, s, g) => EntitledByRegister(c, s, g)'
    BY <1>0, <2>1, <2>2 DEF EntitledByRegister
  <2>4. EntitledByRequest(c, s, g) => EntitledByRequest(c, s, g)'
    BY <1>0, <2>1, <2>2 DEF EntitledByRequest
  <2>. QED
    BY <1>6, <2>3, <2>4 DEF Entitled
<1>7. lastId <= lastId'
  BY <1>0 DEF TypeOK
<1>. QED
  BY <1>0, <1>1, <1>2, <1>3, <1>4, <1>5, <1>6, <1>7, HandlerStep

\* The transaction that takes the lock has drawn no id yet.
LEMMA CreateFencing ==
  ASSUME TypeOK, FencingInvariant, NEW r \in Request, Create(r)
  PROVE  FencingInvariant'
<1>. USE DEF FencingInvariant
<1>0. /\ TypeOK'
      /\ pc[r] = "read" /\ pc'[r] \in {"created", "rejected"}
      /\ \A q \in Request \ {r} : pc'[q] = pc[q]
      /\ UNCHANGED <<channelVars, owner, lastId, input, tx>>
  <2>1. TypeOK'
    BY ProceedType DEF Proceed
  <2>. QED
    BY <2>1 DEF Create, Goto, TypeOK
<1>1. tx[r].gen = 0 /\ tx[r].rollbackGen = 0
  BY <1>0 DEF DrawnIds, IdsOf
<1>2. IdsOf(r)'
  BY <1>0, <1>1 DEF DrawnIds, IdsOf, Migrating, RollingBack, MigrateRaises, RollbackRaises,
     MigrateCalls, RollbackCalls
<1>3. UNCHANGED <<toSwitch, toController, swRole, swGen>> /\ InFlight' = InFlight
      /\ poll' = poll
  BY <1>0 DEF InFlight, channelVars
<1>4. pc'[r] \notin Promoted /\ pc'[r] \notin Restored
  BY <1>0 DEF Promoted, Restored
<1>5. Settled'
  BY <1>0 DEF Settled, SwitchOf
<1>6. ASSUME NEW c \in Controller, NEW s \in Switch, NEW g \in Nat, Entitled(c, s, g)
      PROVE  Entitled(c, s, g)'
  <2>1. ~Holds(r, s)
    BY <1>0 DEF Holds, Holding, Migrating, RollingBack, MigrateRaises, RollbackRaises,
       MigrateCalls, RollbackCalls
  <2>2. \A q \in Request \ {r} : Holds(q, s)' <=> Holds(q, s)
    BY <1>0, OtherHolds
  <2>3. EntitledByRegister(c, s, g) => EntitledByRegister(c, s, g)'
    BY <1>0, <1>1, <2>1, <2>2 DEF EntitledByRegister
  <2>4. EntitledByRequest(c, s, g) => EntitledByRequest(c, s, g)'
    BY <1>0, <2>1, <2>2 DEF EntitledByRequest
  <2>. QED
    BY <1>6, <2>3, <2>4 DEF Entitled
<1>7. lastId <= lastId'
  BY <1>0 DEF TypeOK
<1>. QED
  BY <1>0, <1>1, <1>2, <1>3, <1>4, <1>5, <1>6, <1>7, HandlerStep

\* The id of a promotion is newer than any the owner can be MASTER under.
LEMMA PromoteFencing ==
  ASSUME TypeOK, FencingInvariant, NEW r \in Request, Promote(r)
  PROVE  FencingInvariant'
<1>. USE DEF FencingInvariant
<1>0. /\ TypeOK'
      /\ pc[r] = "created" /\ pc'[r] = "promote"
      /\ \A q \in Request \ {r} : pc'[q] = pc[q] /\ tx'[q] = tx[q]
      /\ lastId \in Nat /\ lastId' = lastId + 1
      /\ tx'[r].gen = lastId + 1
      /\ tx'[r].rollbackGen = tx[r].rollbackGen
      /\ UNCHANGED <<owner, input>>
      /\ Post(r, "promote", Target(r), "MASTER", lastId + 1)
  <2>1. TypeOK'
    BY ProceedType DEF Proceed
  <2>. QED
    BY <2>1 DEF Promote, Goto, TypeOK
<1>1. tx[r].gen = 0 /\ tx[r].rollbackGen = 0
  BY <1>0 DEF DrawnIds, IdsOf
<1>2. IdsOf(r)'
  BY <1>0, <1>1 DEF IdsOf, Migrating, RollingBack, MigrateRaises, RollbackRaises,
     MigrateCalls, RollbackCalls
<1>3. PICK m : m = [link |-> Target(r), client |-> r, phase |-> "promote",
                    kind |-> "MASTER", gen |-> lastId + 1]
  OBVIOUS
<1>4. /\ UNCHANGED <<toSwitch, toController, swRole, swGen>>
      /\ InFlight' = InFlight \cup {m}
      /\ \A q \in Request : poll'[q] = poll[q] \/ poll'[q].answer \notin Roles
  BY <1>0, <1>3, PostFacts
<1>5. poll'[r].answer \notin Roles
  BY <1>0, RequestAssumption DEF Post, Roles, TypeOK, ChannelTypeOK
<1>6. ByHandler(m)'
  BY <1>0, <1>3 DEF ByHandler, Target, SwitchOf
<1>7. Fenced(m)'
  <2>1. Target(r) = <<input[r].target, SwitchOf(r)>> /\ Holds(r, SwitchOf(r))'
    BY <1>0 DEF Target, Holds, SwitchOf, Holding, Migrating, MigrateRaises, MigrateCalls
  <2>2. /\ m.link[1] = input'[r].target /\ m.link[2] = SwitchOf(r)
        /\ m.gen = tx'[r].gen /\ m.gen > 0
    BY <1>0, <1>3, <2>1
  <2>3. Holds(r, m.link[2])'
    BY <1>0, <2>1, <2>2 DEF Holds, SwitchOf
  <2>4. EntitledByRequest(m.link[1], m.link[2], m.gen)'
    BY <2>2, <2>3 DEF EntitledByRequest
  <2>. QED
    BY <2>4 DEF Fenced, Entitled
<1>8. pc'[r] \notin Promoted /\ pc'[r] \notin Restored
  BY <1>0 DEF Promoted, Restored
<1>9. Settled'
  BY <1>0 DEF Settled, SwitchOf
<1>10. ASSUME NEW c \in Controller, NEW s \in Switch, NEW g \in Nat, g <= lastId,
              Entitled(c, s, g)
       PROVE  Entitled(c, s, g)'
  <2>1. Holds(r, s)' <=> Holds(r, s)
    BY <1>0 DEF Holds, SwitchOf, Holding, Migrating, MigrateRaises, MigrateCalls
  <2>2. \A q \in Request \ {r} : Holds(q, s)' <=> Holds(q, s)
    BY <1>0, OtherHolds
  <2>3. EntitledByRegister(c, s, g) => EntitledByRegister(c, s, g)'
    BY <1>0, <1>10, <2>1, <2>2 DEF EntitledByRegister
  <2>4. EntitledByRequest(c, s, g) => EntitledByRequest(c, s, g)'
    BY <1>0, <1>1, <2>1, <2>2 DEF EntitledByRequest
  <2>. QED
    BY <1>10, <2>3, <2>4 DEF Entitled
<1>11. \A q \in Request :
         \/ /\ poll'[q] = poll[q] /\ tx'[q].gen = tx[q].gen
            /\ tx'[q].rollbackGen = tx[q].rollbackGen
         \/ poll'[q].answer \notin Roles
  BY <1>0, <1>4, <1>5
<1>12. lastId <= lastId'
  BY <1>0
<1>. QED
  BY <1>0, <1>1, <1>2, <1>4, <1>6, <1>7, <1>8, <1>9, <1>10, <1>11, <1>12, HandlerStep

\* The id of the rollback is newer than that of the promotion.
LEMMA RollBackFencing ==
  ASSUME TypeOK, FencingInvariant, NEW r \in Request, RollBack(r)
  PROVE  FencingInvariant'
<1>. USE DEF FencingInvariant
<1>0. /\ TypeOK'
      /\ pc[r] \in MigrateRaises /\ pc'[r] = "restore"
      /\ \A q \in Request \ {r} : pc'[q] = pc[q] /\ tx'[q] = tx[q]
      /\ lastId \in Nat /\ lastId' = lastId + 1
      /\ tx'[r].rollbackGen = lastId + 1
      /\ tx'[r].gen = tx[r].gen /\ tx'[r].source = tx[r].source
      /\ UNCHANGED <<owner, input>>
      /\ Post(r, "restore", Source(r), "MASTER", lastId + 1)
  <2>1. TypeOK'
    BY ProceedType DEF Proceed
  <2>. QED
    BY <2>1 DEF RollBack, Goto, TypeOK
<1>1. tx[r].gen > 0 /\ tx[r].gen <= lastId /\ tx[r].rollbackGen = 0 /\ tx[r].gen \in Nat
  BY <1>0 DEF DrawnIds, IdsOf, Migrating, MigrateRaises, MigrateCalls, TypeOK
<1>2. IdsOf(r)'
  BY <1>0, <1>1 DEF IdsOf, Migrating, RollingBack, MigrateRaises, RollbackRaises,
     MigrateCalls, RollbackCalls
<1>3. PICK m : m = [link |-> Source(r), client |-> r, phase |-> "restore",
                    kind |-> "MASTER", gen |-> lastId + 1]
  OBVIOUS
<1>4. /\ UNCHANGED <<toSwitch, toController, swRole, swGen>>
      /\ InFlight' = InFlight \cup {m}
      /\ \A q \in Request : poll'[q] = poll[q] \/ poll'[q].answer \notin Roles
  BY <1>0, <1>3, PostFacts
<1>5. poll'[r].answer \notin Roles
  BY <1>0, RequestAssumption DEF Post, Roles, TypeOK, ChannelTypeOK
<1>6. ByHandler(m)'
  BY <1>0, <1>3 DEF ByHandler, Source, SwitchOf
<1>7. Fenced(m)'
  <2>1. Source(r) = <<tx'[r].source, SwitchOf(r)>> /\ Holds(r, SwitchOf(r))'
    BY <1>0 DEF Source, Holds, SwitchOf, Holding, RollingBack, RollbackRaises, RollbackCalls
  <2>2. /\ m.link[1] = tx'[r].source /\ m.link[2] = SwitchOf(r)
        /\ m.gen = tx'[r].rollbackGen /\ m.gen > 0
    BY <1>0, <1>3, <2>1
  <2>3. Holds(r, m.link[2])'
    BY <1>0, <2>1, <2>2 DEF Holds, SwitchOf
  <2>4. EntitledByRequest(m.link[1], m.link[2], m.gen)'
    BY <2>2, <2>3 DEF EntitledByRequest
  <2>. QED
    BY <2>4 DEF Fenced, Entitled
<1>8. pc'[r] \notin Promoted /\ pc'[r] \notin Restored
  BY <1>0 DEF Promoted, Restored
<1>9. Settled'
  BY <1>0 DEF Settled, SwitchOf
<1>10. ASSUME NEW c \in Controller, NEW s \in Switch, NEW g \in Nat, Entitled(c, s, g)
       PROVE  Entitled(c, s, g)'
  <2>1. Holds(r, s)' <=> Holds(r, s)
    BY <1>0 DEF Holds, SwitchOf, Holding, Migrating, MigrateRaises, RollingBack,
       RollbackRaises, RollbackCalls
  <2>2. \A q \in Request \ {r} : Holds(q, s)' <=> Holds(q, s)
    BY <1>0, OtherHolds
  <2>3. EntitledByRegister(c, s, g) => EntitledByRegister(c, s, g)'
    BY <1>0, <2>1, <2>2 DEF EntitledByRegister
  <2>4. EntitledByRequest(c, s, g) => EntitledByRequest(c, s, g)'
    BY <1>0, <1>1, <2>1, <2>2 DEF EntitledByRequest
  <2>. QED
    BY <1>10, <2>3, <2>4 DEF Entitled
<1>11. \A q \in Request :
         \/ /\ poll'[q] = poll[q] /\ tx'[q].gen = tx[q].gen
            /\ tx'[q].rollbackGen = tx[q].rollbackGen
         \/ poll'[q].answer \notin Roles
  BY <1>0, <1>4, <1>5
<1>12. lastId <= lastId'
  BY <1>0
<1>. QED
  BY <1>0, <1>1, <1>2, <1>4, <1>6, <1>7, <1>8, <1>9, <1>10, <1>11, <1>12, HandlerStep

\* The register changes hands when the switch refuses the previous owner's ids.
LEMMA SettleFencing ==
  ASSUME TypeOK, LockExclusion, FencingInvariant, NEW r \in Request,
         Commit(r) \/ MarkRestored(r)
  PROVE  FencingInvariant'
<1>. USE DEF FencingInvariant
<1>s. PICK s0 : s0 = SwitchOf(r)
  OBVIOUS
<1>0. /\ TypeOK'
      /\ \/ pc[r] = "commit" /\ pc'[r] = "finishCommit" /\ owner'[s0] = input[r].target
         \/ pc[r] = "markRestored" /\ pc'[r] = "finishRestore" /\ owner'[s0] = tx[r].source
      /\ \A q \in Request \ {r} : pc'[q] = pc[q]
      /\ \A s \in Switch \ {s0} : owner'[s] = owner[s]
      /\ UNCHANGED <<channelVars, lastId, input, tx>>
  <2>1. TypeOK'
    BY ProceedType DEF Proceed
  <2>2. s0 \in Switch
    BY <1>s, LinkFacts
  <2>. QED
    BY <2>1, <2>2, <1>s DEF Commit, MarkRestored, SetOwner, Goto, TypeOK
<1>1. s0 \in Switch /\ SwitchOf(r)' = s0 /\ swGen[s0] \in Nat /\ tx[r].gen \in Nat
      /\ tx[r].rollbackGen \in Nat
  BY <1>0, <1>s, LinkFacts DEF TypeOK, ChannelTypeOK, SwitchOf
<1>2. IdsOf(r)'
  BY <1>0 DEF DrawnIds, IdsOf, Migrating, RollingBack, MigrateRaises, RollbackRaises,
     MigrateCalls, RollbackCalls
<1>3. UNCHANGED <<toSwitch, toController, swRole, swGen>> /\ InFlight' = InFlight
      /\ poll' = poll
  BY <1>0 DEF InFlight, channelVars
<1>4. 0 < tx[r].gen /\ tx[r].gen <= swGen[s0]
  <2>1. CASE pc[r] = "commit"
    <3>1. Accepted(r, "promote")
      BY <2>1 DEF AcceptedIds, Promoted
    <3>2. tx[r].gen > 0
      BY <2>1 DEF DrawnIds, IdsOf, Migrating
    <3>. QED
      BY <1>1, <1>s, <3>1, <3>2 DEF Accepted
  <2>2. CASE pc[r] = "markRestored"
    <3>1. Accepted(r, "restore")
      BY <2>2 DEF AcceptedIds, Restored
    <3>2. 0 < tx[r].gen /\ tx[r].gen < tx[r].rollbackGen
      BY <2>2 DEF DrawnIds, IdsOf, RollingBack
    <3>3. swGen[s0] >= tx[r].rollbackGen
      BY <1>s, <3>1 DEF Accepted
    <3>. QED
      BY <1>1, <3>2, <3>3
  <2>. QED
    BY <1>0, <2>1, <2>2
<1>5. /\ pc'[r] \in Promoted => Accepted(r, "promote")'
      /\ pc'[r] \in Restored => Accepted(r, "restore")'
  BY <1>0, <1>3 DEF AcceptedIds, Promoted, Restored, Accepted, SwitchOf
<1>6. \A s : Holds(r, s)' <=> Holds(r, s)
  BY <1>0 DEF Holds, SwitchOf, Holding, Migrating, RollingBack
<1>7. \A q \in Request \ {r} : \A s : Holds(q, s)' <=> Holds(q, s)
  BY <1>0, OtherHolds
<1>8. Holds(r, s0)
  BY <1>0, <1>s DEF Holds, Holding, Migrating, RollingBack
<1>9. Settled'
  <2>1. ASSUME NEW q \in Request \ {r}, pc[q] \in {"finishCommit", "finishRestore"}
        PROVE  owner'[SwitchOf(q)] = owner[SwitchOf(q)]
    <3>1. SwitchOf(q) \in Switch /\ Holds(q, SwitchOf(q))
      BY <2>1, LinkFacts DEF Holds, Holding
    <3>2. SwitchOf(q) # s0
      BY <1>8, <3>1, OneHolder
    <3>. QED
      BY <1>0, <3>1, <3>2
  <2>2. ASSUME NEW q \in Request \ {r}
        PROVE  /\ pc'[q] = "finishCommit" => owner'[SwitchOf(q)'] = input'[q].target
               /\ pc'[q] = "finishRestore" => owner'[SwitchOf(q)'] = tx'[q].source
    BY <1>0, <2>1 DEF Settled, SwitchOf
  <2>3. /\ pc'[r] = "finishCommit" => owner'[SwitchOf(r)'] = input'[r].target
        /\ pc'[r] = "finishRestore" => owner'[SwitchOf(r)'] = tx'[r].source
    BY <1>0, <1>1
  <2>. QED
    BY <2>2, <2>3 DEF Settled
<1>10. ASSUME NEW c \in Controller, NEW s \in Switch, NEW g \in Nat, Entitled(c, s, g)
       PROVE  Entitled(c, s, g)' \/ g < swGen[s]
  <2>1. EntitledByRequest(c, s, g) => EntitledByRequest(c, s, g)'
    BY <1>0, <1>6, <1>7 DEF EntitledByRequest
  <2>2. CASE EntitledByRegister(c, s, g) /\ s = s0
    <3>1. g < tx[r].gen
      BY <1>4, <1>8, <2>2 DEF EntitledByRegister
    <3>. QED
      BY <1>1, <1>4, <2>2, <3>1
  <2>3. CASE EntitledByRegister(c, s, g) /\ s # s0
    BY <1>0, <1>6, <1>7, <2>3 DEF EntitledByRegister, Entitled
  <2>. QED
    BY <1>10, <2>1, <2>2, <2>3 DEF Entitled
<1>11. lastId <= lastId'
  BY <1>0 DEF TypeOK
<1>. QED
  BY <1>0, <1>2, <1>3, <1>5, <1>9, <1>10, <1>11, HandlerStep

\* The lock is released when the controller that is entitled under the newest
\* id is the registered owner.
LEMMA FinishFencing ==
  ASSUME TypeOK, LockExclusion, FencingInvariant, NEW r \in Request, Finish(r)
  PROVE  FencingInvariant'
<1>. USE DEF FencingInvariant
<1>s. PICK s0 : s0 = SwitchOf(r)
  OBVIOUS
<1>0. /\ TypeOK'
      /\ \/ pc[r] = "finishCommit" /\ pc'[r] = "committed"
         \/ pc[r] = "finishRestore" /\ pc'[r] = "restored"
      /\ \A q \in Request \ {r} : pc'[q] = pc[q]
      /\ UNCHANGED <<channelVars, owner, lastId, input, tx>>
  <2>1. TypeOK'
    BY ProceedType DEF Proceed
  <2>. QED
    BY <2>1 DEF Finish, Goto, TypeOK
<1>1. s0 \in Switch /\ swGen[s0] \in Nat /\ tx[r].gen \in Nat /\ tx[r].rollbackGen \in Nat
  BY <1>s, LinkFacts DEF TypeOK, ChannelTypeOK
<1>2. IdsOf(r)'
  BY <1>0 DEF DrawnIds, IdsOf, Migrating, RollingBack, MigrateRaises, RollbackRaises,
     MigrateCalls, RollbackCalls
<1>3. UNCHANGED <<toSwitch, toController, swRole, swGen>> /\ InFlight' = InFlight
      /\ poll' = poll
  BY <1>0 DEF InFlight, channelVars
<1>4. pc'[r] \notin Promoted /\ pc'[r] \notin Restored
  BY <1>0 DEF Promoted, Restored
<1>5. Settled'
  BY <1>0 DEF Settled, SwitchOf
<1>6. Holds(r, s0) /\ \A s : ~Holds(r, s)'
  BY <1>0, <1>s DEF Holds, Holding, Migrating, RollingBack, MigrateRaises, RollbackRaises,
     MigrateCalls, RollbackCalls
<1>7. \A q \in Request \ {r} : \A s : Holds(q, s)' <=> Holds(q, s)
  BY <1>0, OtherHolds
<1>8. \A q \in Request : ~Holds(q, s0)'
  BY <1>1, <1>6, <1>7, OneHolder
<1>9. ASSUME NEW c \in Controller, NEW g \in Nat, g > 0,
             \/ c = input[r].target /\ g = tx[r].gen
             \/ c = tx[r].source /\ g = tx[r].rollbackGen
      PROVE  c = owner[s0] \/ g < swGen[s0]
  <2>1. CASE pc[r] = "finishCommit"
    <3>1. owner[s0] = input[r].target /\ tx[r].rollbackGen = 0
      BY <1>s, <2>1 DEF Settled, DrawnIds, IdsOf
    <3>. QED
      BY <1>9, <3>1
  <2>2. CASE pc[r] = "finishRestore"
    <3>1. owner[s0] = tx[r].source /\ tx[r].gen < tx[r].rollbackGen
      BY <1>s, <2>2 DEF Settled, DrawnIds, IdsOf
    <3>2. swGen[s0] >= tx[r].rollbackGen
      BY <1>s, <2>2 DEF AcceptedIds, Restored, Accepted
    <3>. QED
      BY <1>1, <1>9, <3>1, <3>2
  <2>. QED
    BY <1>0, <2>1, <2>2
<1>10. ASSUME NEW c \in Controller, NEW s \in Switch, NEW g \in Nat, Entitled(c, s, g)
       PROVE  Entitled(c, s, g)' \/ g < swGen[s]
  <2>1. CASE EntitledByRegister(c, s, g)
    BY <1>0, <1>6, <1>7, <2>1 DEF EntitledByRegister, Entitled
  <2>2. ASSUME g > 0, NEW q \in Request, Holds(q, s),
               \/ c = input[q].target /\ g = tx[q].gen
               \/ c = tx[q].source /\ g = tx[q].rollbackGen
        PROVE  Entitled(c, s, g)' \/ g < swGen[s]
    <3>1. CASE q = r
      <4>1. s = s0
        BY <1>s, <2>2, <3>1 DEF Holds
      <4>2. c = owner[s] => EntitledByRegister(c, s, g)'
        BY <1>0, <1>8, <4>1 DEF EntitledByRegister
      <4>. QED
        BY <1>9, <2>2, <3>1, <4>1, <4>2 DEF Entitled
    <3>2. CASE q # r
      BY <1>0, <1>7, <2>2, <3>2 DEF EntitledByRequest, Entitled
    <3>. QED
      BY <3>1, <3>2
  <2>. QED
    BY <1>10, <2>1, <2>2 DEF Entitled, EntitledByRequest
<1>11. lastId <= lastId'
  BY <1>0 DEF TypeOK
<1>. QED
  BY <1>0, <1>2, <1>3, <1>4, <1>5, <1>10, <1>11, HandlerStep

-----------------------------------------------------------------------------
(* The theorems.                                                           *)

LEMMA InitFencing == Init => FencingInvariant
<1>. SUFFICES ASSUME Init PROVE FencingInvariant
  OBVIOUS
<1>1. PICK started \in SUBSET Switch : ChannelInit(InitialOwner, started)
  BY DEF Init
<1>2. /\ InFlight = {} /\ Returning = {}
      /\ \A k \in Link : toSwitch[k] = <<>>
  BY <1>1 DEF ChannelInit, InFlight, Returning
<1>3. /\ \A r \in Request : /\ pc[r] = "idle"
                            /\ tx[r].gen = 0 /\ tx[r].rollbackGen = 0
      /\ lastId = 1 /\ owner = InitialOwner
      /\ \A s \in Switch : swGen[s] \in {0, 1}
  BY <1>1 DEF Init, ChannelInit
<1>4. Addressed /\ RequestsInFlight
  BY <1>2 DEF Addressed, RequestsInFlight
<1>5. DrawnIds
  BY <1>3 DEF DrawnIds, IdsOf, Migrating, RollingBack, MigrateRaises, RollbackRaises,
     MigrateCalls, RollbackCalls
<1>6. RepliesProveIds
  <2>1. \A r \in Request : poll[r].answer \notin Roles
    BY <1>1, RequestAssumption DEF ChannelInit, NoPoll, Roles
  <2>. QED
    BY <1>2, <2>1 DEF RepliesProveIds, AnswerProvesId
<1>7. AcceptedIds /\ Settled
  BY <1>3 DEF AcceptedIds, Settled, Promoted, Restored
<1>8. RoleFencing
  <2>1. ASSUME NEW c \in Controller, NEW s \in Switch, swRole[<<c, s>>] = "MASTER"
        PROVE  Entitled(c, s, swGen[s])
    <3>1. c = owner[s]
      BY <1>1, <1>3, <2>1 DEF ChannelInit, Link
    <3>. QED
      BY <1>3, <3>1 DEF Entitled, EntitledByRegister
  <2>. QED
    BY <1>2, <2>1 DEF RoleFencing
<1>. QED
  BY <1>4, <1>5, <1>6, <1>7, <1>8 DEF FencingInvariant

(* The generation ids of concurrent migrations fence each other: the       *)
(* inductive invariant of Fencing holds of every reachable state.          *)
THEOREM FencingHolds == Spec => []FencingInvariant
<1>1. TypeOK /\ LockExclusion /\ FencingInvariant /\ [Next]_vars => FencingInvariant'
  <2>. SUFFICES ASSUME TypeOK, LockExclusion, FencingInvariant, [Next]_vars
                PROVE  FencingInvariant'
    OBVIOUS
  <2>1. ASSUME ChannelStep, UNCHANGED orchestratorVars
        PROVE  FencingInvariant'
    BY <2>1, ChannelFencing
  <2>2. ASSUME NEW r \in Request, ReadOwner(r)
        PROVE  FencingInvariant'
    BY <2>2, ReadOwnerFencing
  <2>3. ASSUME NEW r \in Request, Proceed(r)
        PROVE  FencingInvariant'
    BY <2>3, CreateFencing, PromoteFencing, RollBackFencing, SettleFencing, FinishFencing,
       QuietFencing DEF Proceed
  <2>4. CASE UNCHANGED vars
    BY <2>4 DEF vars, channelVars, orchestratorVars, FencingInvariant, Addressed,
       RequestsInFlight, InFlight, ByHandler, Target, Source, SwitchOf, DrawnIds, IdsOf,
       RepliesProveIds, Returning, ReplyProvesId, AnswerProvesId, Accepted, AcceptedIds,
       Settled, RoleFencing, Fenced, Stale, Entitled, EntitledByRegister, EntitledByRequest,
       Holds
  <2>. QED
    BY <2>1, <2>2, <2>3, <2>4 DEF Next
<1>. QED
  BY <1>1, InitFencing, TypeCorrect, LockExclusionHolds, PTL DEF Spec

(* Outside a transaction no controller but the registered owner is MASTER  *)
(* of a switch, whatever was delayed, lost or answered late.               *)
THEOREM NoForeignMasterHolds == Spec => []NoForeignMaster
<1>1. LockExclusion /\ FencingInvariant => NoForeignMaster
  <2>. SUFFICES ASSUME LockExclusion, FencingInvariant,
                       NEW s \in Switch \ locked, NEW c \in Controller,
                       swRole[<<c, s>>] = "MASTER"
                PROVE  c = owner[s]
    BY DEF NoForeignMaster
  <2>1. Entitled(c, s, swGen[s])
    BY DEF FencingInvariant, RoleFencing
  <2>2. \A r \in Request : ~Holds(r, s)
    BY DEF LockExclusion
  <2>. QED
    BY <2>1, <2>2 DEF Entitled, EntitledByRegister, EntitledByRequest
<1>. QED
  BY <1>1, LockExclusionHolds, FencingHolds, PTL

(***************************************************************************)
(* The handler implements OwnershipRegister.  A role change accepted by a  *)
(* switch is a Grant, a lost connection a Lose; of the handler, Create     *)
(* opens, Commit and MarkRestored settle, Finish frees, GiveUp sticks, the *)
(* rest stutters.                                                          *)
(***************************************************************************)
-----------------------------------------------------------------------------
(* The hold on a switch is told by the program point of its one holder.    *)

LEMMA HoldNow ==
  ASSUME LockExclusion, NEW r \in Request, NEW s \in Switch, Holds(r, s)
  PROVE  /\ pc[r] = "stuck" => HoldOf(s) = "stuck"
         /\ pc[r] \in {"finishCommit", "finishRestore"} => HoldOf(s) = "settled"
         /\ pc[r] \in Migrating \cup RollingBack => HoldOf(s) = "open"
<1>1. s \in locked /\ SwitchOf(r) = s
  BY DEF LockExclusion, Holds
<1>2. \A q \in Request : SwitchOf(q) = s /\ pc[q] \in Holding => q = r
  BY DEF LockExclusion, Holds
<1>. QED
  BY <1>1, <1>2 DEF HoldOf, Holding, Migrating, RollingBack, MigrateRaises, RollbackRaises,
     MigrateCalls, RollbackCalls

LEMMA HoldAfter ==
  ASSUME LockExclusion', NEW r \in Request, NEW s \in Switch, Holds(r, s)'
  PROVE  /\ pc'[r] = "stuck" => HoldOf(s)' = "stuck"
         /\ pc'[r] \in {"finishCommit", "finishRestore"} => HoldOf(s)' = "settled"
         /\ pc'[r] \in Migrating \cup RollingBack => HoldOf(s)' = "open"
<1>1. s \in locked' /\ SwitchOf(r)' = s
  BY DEF LockExclusion, Holds
<1>2. \A q \in Request : SwitchOf(q)' = s /\ pc'[q] \in Holding => q = r
  BY DEF LockExclusion, Holds
<1>. QED
  BY <1>1, <1>2 DEF HoldOf, Holding, Migrating, RollingBack, MigrateRaises, RollbackRaises,
     MigrateCalls, RollbackCalls

\* A thread changes the hold on no switch but its own.
LEMMA OtherSwitches ==
  ASSUME TypeOK, NEW r \in Request, ReadOwner(r) \/ Proceed(r), NEW s \in Switch,
         s # SwitchOf(r)
  PROVE  HoldOf(s)' = HoldOf(s)
<1>1. /\ input' = input
      /\ \A q \in Request \ {r} : pc'[q] = pc[q]
      /\ s \in locked' <=> s \in locked
  BY HoldStep
<1>2. \A q \in Request : /\ SwitchOf(q)' = SwitchOf(q)
                         /\ SwitchOf(q) = s => pc'[q] = pc[q]
  BY <1>1 DEF SwitchOf
<1>. QED
  BY <1>1, <1>2 DEF HoldOf

\* Nor on its own while it stays on one side of the lock and of the outcome.
LEMMA OwnSwitch ==
  ASSUME TypeOK, LockExclusion, LockExclusion', NEW r \in Request,
         ReadOwner(r) \/ Proceed(r),
         \/ pc[r] \notin Holding /\ pc'[r] \notin Holding
         \/ /\ pc[r] \in Migrating \cup RollingBack
            /\ pc'[r] \in Migrating \cup RollingBack,
         NEW s \in Switch, s = SwitchOf(r)
  PROVE  HoldOf(s)' = HoldOf(s)
<1>1. /\ input' = input
      /\ \A q \in Request \ {r} : pc'[q] = pc[q]
  BY HoldStep
<1>2. \A q \in Request : SwitchOf(q)' = SwitchOf(q)
  BY <1>1 DEF SwitchOf
<1>3. CASE pc[r] \notin Holding /\ pc'[r] \notin Holding
  <2>1. locked' = locked
    BY <1>3, HoldStep
  <2>2. \A q \in Request : pc'[q] = pc[q] \/ (pc[q] \notin Holding /\ pc'[q] \notin Holding)
    BY <1>1, <1>3
  <2>3. {"stuck", "finishCommit", "finishRestore"} \subseteq Holding
    BY DEF Holding
  <2>. QED
    BY <1>2, <2>1, <2>2, <2>3 DEF HoldOf
<1>4. CASE /\ pc[r] \in Migrating \cup RollingBack
           /\ pc'[r] \in Migrating \cup RollingBack
  <2>1. Holds(r, s) /\ Holds(r, s)'
    BY <1>2, <1>4 DEF Holds, Holding
  <2>. QED
    BY <1>4, <2>1, HoldNow, HoldAfter
<1>. QED
  BY <1>3, <1>4

-----------------------------------------------------------------------------
(* Who may be MASTER of a switch under an id the switch does not refuse.   *)

LEMMA FreeIs ==
  ASSUME LockExclusion, NEW s \in Switch
  PROVE  /\ HoldOf(s) = "free" => \A r \in Request : ~Holds(r, s)
         /\ HoldOf(s) = "settled" =>
              \E r \in Request : Holds(r, s) /\ pc[r] \in {"finishCommit", "finishRestore"}
BY DEF HoldOf, LockExclusion, Holds, Holding

LEMMA EntitledWhenSettled ==
  ASSUME TypeOK, LockExclusion, FencingInvariant, NEW r \in Request,
         pc[r] \in {"commit", "finishCommit", "markRestored", "finishRestore"},
         NEW c \in Controller, NEW s \in Switch, s = SwitchOf(r), NEW g \in Nat,
         Entitled(c, s, g), g >= swGen[s]
  PROVE  /\ pc[r] = "commit" => c = input[r].target
         /\ pc[r] = "markRestored" => c = tx[r].source
         /\ pc[r] \in {"finishCommit", "finishRestore"} => c = owner[s]
<1>. USE DEF FencingInvariant
<1>0. /\ Holds(r, s)
      /\ swGen[s] \in Nat /\ tx[r].gen \in Nat /\ tx[r].rollbackGen \in Nat
  BY DEF Holds, Holding, Migrating, RollingBack, TypeOK, ChannelTypeOK
<1>1. CASE pc[r] \in {"commit", "finishCommit"}
  <2>1. tx[r].gen > 0 /\ tx[r].rollbackGen = 0
    BY <1>1 DEF DrawnIds, IdsOf, Migrating
  <2>2. swGen[s] >= tx[r].gen
    BY <1>1 DEF AcceptedIds, Promoted, Accepted
  <2>3. ~EntitledByRegister(c, s, g) 
    BY <1>0, <2>1, <2>2 DEF EntitledByRegister
  <2>4. c = input[r].target
    BY <1>0, <2>1, <2>3, OneHolder DEF Entitled, EntitledByRequest
  <2>5. pc[r] = "finishCommit" => owner[s] = input[r].target
    BY DEF Settled
  <2>. QED
    BY <1>1, <2>4, <2>5
<1>2. CASE pc[r] \in {"markRestored", "finishRestore"}
  <2>1. 0 < tx[r].gen /\ tx[r].gen < tx[r].rollbackGen
    BY <1>2 DEF DrawnIds, IdsOf, RollingBack
  <2>2. swGen[s] >= tx[r].rollbackGen
    BY <1>2 DEF AcceptedIds, Restored, Accepted
  <2>3. ~EntitledByRegister(c, s, g)
    BY <1>0, <2>1, <2>2 DEF EntitledByRegister
  <2>4. c = tx[r].source
    <3>1. g # tx[r].gen
      BY <1>0, <2>1, <2>2
    <3>. QED
      BY <1>0, <2>3, <3>1, OneHolder DEF Entitled, EntitledByRequest
  <2>5. pc[r] = "finishRestore" => owner[s] = tx[r].source
    BY DEF Settled
  <2>. QED
    BY <1>2, <2>4, <2>5
<1>. QED
  BY <1>1, <1>2

LEMMA EntitledIsOwner ==
  ASSUME TypeOK, LockExclusion, FencingInvariant,
         NEW c \in Controller, NEW s \in Switch, NEW g \in Nat,
         Entitled(c, s, g), g >= swGen[s], HoldOf(s) \in {"free", "settled"}
  PROVE  c = owner[s]
<1>1. CASE HoldOf(s) = "free"
  BY <1>1, FreeIs DEF Entitled, EntitledByRegister, EntitledByRequest
<1>2. CASE HoldOf(s) = "settled"
  <2>1. PICK r \in Request : Holds(r, s) /\ pc[r] \in {"finishCommit", "finishRestore"}
    BY <1>2, FreeIs
  <2>. QED
    BY <2>1, EntitledWhenSettled DEF Holds
<1>. QED
  BY <1>1, <1>2

\* A MASTER of a switch whose transaction settles is the one it settles for.
LEMMA MastersWhenSettling ==
  ASSUME TypeOK, LockExclusion, FencingInvariant, NEW r \in Request,
         NEW s \in Switch, s = SwitchOf(r)
  PROVE  /\ pc[r] = "commit" => Masters(s) \subseteq {input[r].target}
         /\ pc[r] = "markRestored" => Masters(s) \subseteq {tx[r].source}
<1>1. ASSUME NEW c \in Masters(s)
      PROVE  c \in Controller /\ Entitled(c, s, swGen[s])
  BY DEF Masters, FencingInvariant, RoleFencing
<1>2. swGen[s] \in Nat /\ swGen[s] >= swGen[s]
  BY DEF TypeOK, ChannelTypeOK
<1>. QED
  BY <1>1, <1>2, EntitledWhenSettled

-----------------------------------------------------------------------------
(* Steps of controllers, switches and channels.                            *)

\* A role change that a switch accepts makes the sender its only MASTER, and
\* outside the open part of a transaction only the registered owner.
LEMMA AcceptedRoleGrants ==
  ASSUME TypeOK, LockExclusion, FencingInvariant, NEW link \in Link,
         SwitchChangesRole(link)
  PROVE  \E s \in Switch, c \in Controller :
            /\ HoldOf(s) \in {"free", "settled"} => c = owner[s]
            /\ Masters(s)' = {c}
            /\ \A t \in Switch \ {s} : Masters(t)' = Masters(t)
<1>. USE DEF FencingInvariant
<1>1. PICK msg : msg = Head(toSwitch[link])
  OBVIOUS
<1>2. PICK c \in Controller, s \in Switch : link = <<c, s>>
  BY DEF Link
<1>3. /\ msg \in InFlight /\ msg \in RequestMsg /\ msg.link = link
      /\ msg.kind = "MASTER" /\ ~Stale(msg)
      /\ swRole' = RolesAfter(link, "MASTER")
  <2>1. Arrived(link) /\ ChannelTypeOK
    BY DEF SwitchChangesRole, TypeOK
  <2>2. msg \in InFlight /\ msg \in RequestMsg /\ msg.link = link /\ ByHandler(msg)
    BY <1>1, <2>1, FrontOfChannel
  <2>. QED
    BY <1>1, <2>2 DEF SwitchChangesRole, ByHandler
<1>4. Entitled(c, s, msg.gen) /\ msg.gen \in Nat /\ msg.gen >= swGen[s]
  <2>1. Fenced(msg)
    BY <1>3 DEF RoleFencing
  <2>2. Entitled(c, s, msg.gen)
    BY <1>2, <1>3, <2>1 DEF Fenced
  <2>. QED
    BY <1>2, <1>3, <2>2 DEF Stale, RequestMsg, TypeOK, ChannelTypeOK
<1>5. HoldOf(s) \in {"free", "settled"} => c = owner[s]
  BY <1>4, EntitledIsOwner
<1>6. \A d \in Controller, t \in Switch :
        swRole'[<<d, t>>] = "MASTER" <=>
          IF t = s THEN d = c ELSE swRole[<<d, t>>] = "MASTER"
  BY <1>2, <1>3 DEF RolesAfter, Link
<1>7. Masters(s)' = {c} /\ \A t \in Switch \ {s} : Masters(t)' = Masters(t)
  BY <1>6 DEF Masters
<1>. QED
  BY <1>5, <1>7

LEMMA ChannelRegister ==
  ASSUME TypeOK, LockExclusion, FencingInvariant, ChannelStep, UNCHANGED orchestratorVars
  PROVE  [Register!Next]_Register!registerVars
<1>. DEFINE masters == [s \in Switch |-> Masters(s)]
            held == [s \in Switch |-> HoldOf(s)]
<1>. USE DEF TypeOK
<1>1. /\ UNCHANGED <<owner, version>>
      /\ \A s \in Switch : HoldOf(s)' = HoldOf(s)
  BY DEF orchestratorVars, HoldOf, SwitchOf
<1>2. held' = held
  BY <1>1
<1>3. ASSUME \A c \in Controller, s \in Switch :
               swRole'[<<c, s>>] = "MASTER" <=> swRole[<<c, s>>] = "MASTER"
      PROVE  UNCHANGED Register!registerVars
  <2>1. \A s \in Switch : Masters(s)' = Masters(s)
    BY <1>3 DEF Masters
  <2>2. masters' = masters
    BY <2>1
  <2>. QED
    BY <1>1, <1>2, <2>2 DEF Register!registerVars
<1>4. ASSUME NEW c \in Controller, NEW lost \in SUBSET Switch,
             \A d \in Controller, s \in Switch :
               swRole'[<<d, s>>] = "MASTER" <=>
                 swRole[<<d, s>>] = "MASTER" /\ ~(d = c /\ s \in lost)
      PROVE  Register!Next
  <2>1. \A s \in Switch : Masters(s)' = IF s \in lost THEN Masters(s) \ {c} ELSE Masters(s)
    BY <1>4 DEF Masters
  <2>2. masters' = [s \in Switch |-> IF s \in lost THEN masters[s] \ {c} ELSE masters[s]]
    BY <2>1
  <2>3. Register!Lose(c, lost)
    BY <1>1, <1>2, <2>2 DEF Register!Lose
  <2>. QED
    BY <2>3 DEF Register!Next
<1>5. ASSUME NEW link \in Link, SwitchChangesRole(link)
      PROVE  Register!Next
  <2>1. PICK s \in Switch, c \in Controller :
          /\ HoldOf(s) \in {"free", "settled"} => c = owner[s]
          /\ Masters(s)' = {c}
          /\ \A t \in Switch \ {s} : Masters(t)' = Masters(t)
    BY <1>5, AcceptedRoleGrants
  <2>2. masters' = [masters EXCEPT ![s] = {c}]
    BY <2>1
  <2>3. held[s] \in {"free", "settled"} => c = owner[s]
    BY <2>1
  <2>4. Register!Grant(s, c)
    BY <1>1, <1>2, <2>2, <2>3 DEF Register!Grant
  <2>. QED
    BY <2>4 DEF Register!Next
<1>6. ASSUME NEW link \in Link, ChannelDown(link)
      PROVE  Register!Next
  <2>1. PICK c \in Controller, s \in Switch : link = <<c, s>>
    BY DEF Link
  <2>2. \A d \in Controller, t \in Switch :
          swRole'[<<d, t>>] = "MASTER" <=>
            swRole[<<d, t>>] = "MASTER" /\ ~(d = c /\ t \in {s})
    BY <1>6, <2>1 DEF ChannelDown, ChannelTypeOK, Link
  <2>. QED
    BY <1>4, <2>2
<1>7. ASSUME NEW link \in Link, ChannelUp(link)
      PROVE  UNCHANGED Register!registerVars
  BY <1>3, <1>7 DEF ChannelUp, Connected, ChannelTypeOK, Link
<1>8. ASSUME NEW c \in Controller, ControllerRestart(c)
      PROVE  Register!Next
  <2>1. \A d \in Controller, t \in Switch :
          swRole'[<<d, t>>] = "MASTER" <=>
            swRole[<<d, t>>] = "MASTER" /\ ~(d = c /\ t \in Switch)
    BY <1>8 DEF ControllerRestart, Link
  <2>. QED
    BY <1>4, <2>1
<1>9. CASE UNCHANGED swRole
  BY <1>3, <1>9
<1>. QED
  BY <1>5, <1>6, <1>7, <1>8, <1>9 DEF ChannelStep, ServePost, SwitchRefuses, SwitchReports,
     HandleRoleReply, HandleBarrierReply

-----------------------------------------------------------------------------
(* Steps of the handler.                                                   *)

LEMMA HandlerMasters ==
  ASSUME NEW r \in Request, ReadOwner(r) \/ Proceed(r)
  PROVE  UNCHANGED swRole
BY DEF Proceed, ReadOwner, Create, Promote, PromoteReplied, PromoteFenced, SourceQueried,
   TargetQueried, SourceConnectivity, TargetConnectivity, CheckConnected, TrafficVerified,
   Commit, Finish, RollBack, RestoreReplied, RestoreFenced, RestoredQueried, OtherQueried,
   RestoredConnectivity, OtherConnectivity, MarkRestored, GiveUp, NextCall, Post, SetOwner,
   channelVars

\* A step of a thread changes the hold on its own switch at most.
LEMMA HandlerHeld ==
  ASSUME TypeOK, NEW r \in Request, ReadOwner(r) \/ Proceed(r),
         NEW hold, HoldOf(SwitchOf(r))' = hold, SwitchOf(r)' = SwitchOf(r)
  PROVE  [s \in Switch |-> HoldOf(s)]' =
           [[s \in Switch |-> HoldOf(s)] EXCEPT ![SwitchOf(r)] = hold]
<1>1. PICK s0 : s0 = SwitchOf(r)
  OBVIOUS
<1>2. HoldOf(s0)' = hold
  BY <1>1
<1>3. \A s \in Switch \ {s0} : HoldOf(s)' = HoldOf(s)
  BY <1>1, OtherSwitches
<1>. QED
  BY <1>1, <1>2, <1>3

LEMMA MastersUnchanged ==
  ASSUME UNCHANGED swRole
  PROVE  [s \in Switch |-> Masters(s)]' = [s \in Switch |-> Masters(s)]
BY DEF Masters

\* What a thread does between the actions the register knows.
LEMMA StutterRegister ==
  ASSUME TypeOK, LockExclusion, LockExclusion', NEW r \in Request,
         ReadOwner(r) \/ Proceed(r), UNCHANGED <<owner, version>>,
         \/ pc[r] \notin Holding /\ pc'[r] \notin Holding
         \/ /\ pc[r] \in Migrating \cup RollingBack
            /\ pc'[r] \in Migrating \cup RollingBack
  PROVE  UNCHANGED Register!registerVars
<1>1. \A s \in Switch : HoldOf(s)' = HoldOf(s)
  BY OtherSwitches, OwnSwitch
<1>2. [s \in Switch |-> HoldOf(s)]' = [s \in Switch |-> HoldOf(s)]
  BY <1>1
<1>. QED
  BY <1>2, HandlerMasters, MastersUnchanged DEF Register!registerVars

LEMMA HandlerRegister ==
  ASSUME TypeOK, LockExclusion, LockExclusion', FencingInvariant, NEW r \in Request,
         ReadOwner(r) \/ Proceed(r)
  PROVE  [Register!Next]_Register!registerVars
<1>. DEFINE masters == [s \in Switch |-> Masters(s)]
            held == [s \in Switch |-> HoldOf(s)]
<1>. USE DEF TypeOK, Goto
<1>1. /\ SwitchOf(r) \in Switch /\ SwitchOf(r)' = SwitchOf(r) /\ input' = input
      /\ pc'[r] \in Holding => Holds(r, SwitchOf(r))'
      /\ pc[r] \in Holding => Holds(r, SwitchOf(r))
  BY LinkFacts, HoldStep DEF Holds, SwitchOf
<1>2. PICK s0 \in Switch : s0 = SwitchOf(r) /\ s0 = SwitchOf(r)'
  BY <1>1
<1>3. masters' = masters
  BY HandlerMasters, MastersUnchanged
<1>4. ASSUME NEW hold, HoldOf(s0)' = hold
      PROVE  held' = [held EXCEPT ![s0] = hold]
  BY <1>2, <1>4, HandlerHeld
<1>5. CASE Create(r) /\ SwitchOf(r) \notin locked
  <2>1. pc'[r] = "created"
    BY <1>5 DEF Create
  <2>2. HoldOf(s0)' = "open"
    <3>1. Holds(r, s0)'
      BY <1>1, <1>2, <2>1 DEF Holds, Holding, Migrating
    <3>. QED
      BY <2>1, <3>1, HoldAfter DEF Migrating
  <2>3. HoldOf(s0) = "free"
    BY <1>2, <1>5 DEF HoldOf
  <2>4. Register!Open(s0)
    BY <1>3, <1>4, <1>5, <2>2, <2>3 DEF Register!Open, Create
  <2>. QED
    BY <2>4 DEF Register!Next
<1>6. ASSUME NEW c \in Controller, Commit(r) \/ MarkRestored(r),
             pc[r] = "commit" => c = input[r].target,
             pc[r] = "markRestored" => c = tx[r].source
      PROVE  Register!Next
  <2>1. /\ pc[r] \in {"commit", "markRestored"} /\ pc'[r] \in {"finishCommit", "finishRestore"}
        /\ version' = version + 1
        /\ owner' = [owner EXCEPT ![s0] = c]
    BY <1>2, <1>6 DEF Commit, MarkRestored, SetOwner
  <2>2. Holds(r, s0) /\ Holds(r, s0)'
    BY <1>1, <1>2, <2>1 DEF Holds, Holding, Migrating, RollingBack
  <2>3. HoldOf(s0) = "open" /\ HoldOf(s0)' = "settled"
    BY <2>1, <2>2, HoldNow, HoldAfter DEF Migrating, RollingBack
  <2>4. Masters(s0) \subseteq {c}
    BY <1>2, <1>6, <2>1, MastersWhenSettling
  <2>5. held' = [held EXCEPT ![s0] = "settled"]
    BY <1>4, <2>3
  <2>6. Register!Settle(s0, c)
    BY <1>3, <2>1, <2>3, <2>4, <2>5 DEF Register!Settle
  <2>. QED
    BY <2>6 DEF Register!Next
<1>7. CASE Finish(r)
  <2>1. /\ pc[r] \in {"finishCommit", "finishRestore"}
        /\ locked' = locked \ {s0} /\ UNCHANGED <<owner, version>>
    BY <1>2, <1>7 DEF Finish
  <2>2. HoldOf(s0) = "settled"
    <3>1. Holds(r, s0)
      BY <1>1, <1>2, <2>1 DEF Holding
    <3>. QED
      BY <2>1, <3>1, HoldNow
  <2>3. HoldOf(s0)' = "free"
    BY <2>1 DEF HoldOf
  <2>4. Register!Free(s0)
    BY <1>3, <1>4, <2>1, <2>2, <2>3 DEF Register!Free
  <2>. QED
    BY <2>4 DEF Register!Next
<1>8. CASE GiveUp(r)
  <2>1. /\ pc[r] \in Migrating \cup RollingBack /\ pc'[r] = "stuck"
        /\ UNCHANGED <<owner, version>>
    BY <1>8 DEF GiveUp, RollingBack
  <2>2. Holds(r, s0) /\ Holds(r, s0)'
    BY <1>1, <1>2, <2>1 DEF Holding
  <2>3. HoldOf(s0) = "open" /\ HoldOf(s0)' = "stuck"
    BY <2>1, <2>2, HoldNow, HoldAfter
  <2>4. held' = [held EXCEPT ![s0] = "stuck"]
    BY <1>4, <2>3
  <2>5. Register!Stick(s0)
    BY <1>3, <2>1, <2>3, <2>4 DEF Register!Stick
  <2>. QED
    BY <2>5 DEF Register!Next
<1>9. CASE ReadOwner(r) \/ (Create(r) /\ SwitchOf(r) \in locked)
  <2>1. UNCHANGED <<owner, version>> /\ pc[r] \notin Holding /\ pc'[r] \notin Holding
    BY <1>9 DEF ReadOwner, Create, Holding, Migrating, RollingBack, MigrateRaises,
       RollbackRaises, MigrateCalls, RollbackCalls
  <2>. QED
    BY <2>1, StutterRegister
<1>10. CASE \/ Promote(r) \/ PromoteReplied(r) \/ PromoteFenced(r) \/ SourceQueried(r)
            \/ TargetQueried(r) \/ RollBack(r)
            \/ SourceConnectivity(r) \/ TargetConnectivity(r) \/ TrafficVerified(r)
            \/ RestoreReplied(r) \/ RestoreFenced(r) \/ RestoredQueried(r) \/ OtherQueried(r)
            \/ RestoredConnectivity(r) \/ OtherConnectivity(r)
  <2>1. UNCHANGED <<owner, version>>
    BY <1>10 DEF Promote, PromoteReplied, PromoteFenced, SourceQueried, TargetQueried, RollBack,
       SourceConnectivity, TargetConnectivity, CheckConnected, TrafficVerified, RestoreReplied,
       RestoreFenced, RestoredQueried, OtherQueried, RestoredConnectivity, OtherConnectivity,
       NextCall
  <2>2. /\ pc[r] \in Migrating \cup RollingBack
        /\ pc'[r] \in Migrating \cup RollingBack
    BY <1>10 DEF Promote, PromoteReplied, PromoteFenced, SourceQueried, TargetQueried, RollBack,
       SourceConnectivity, TargetConnectivity, CheckConnected, TrafficVerified, RestoreReplied,
       RestoreFenced, RestoredQueried, OtherQueried, RestoredConnectivity, OtherConnectivity,
       NextCall, Migrating, RollingBack, MigrateRaises, RollbackRaises, MigrateCalls,
       RollbackCalls
  <2>. QED
    BY <2>1, <2>2, StutterRegister
<1>11. /\ pc[r] = "commit" => input[r].target \in Controller
       /\ pc[r] = "markRestored" => tx[r].source \in Controller
  OBVIOUS
<1>12. ASSUME Commit(r) \/ MarkRestored(r)
       PROVE  Register!Next
  <2>1. PICK c : c = IF pc[r] = "commit" THEN input[r].target ELSE tx[r].source
    OBVIOUS
  <2>. QED
    BY <1>6, <1>11, <1>12, <2>1
<1>. QED
  BY <1>5, <1>7, <1>8, <1>9, <1>10, <1>12 DEF Proceed

-----------------------------------------------------------------------------
(* Every behaviour of the handler is one of the register.                  *)

LEMMA RegisterInit == Init => Register!Init
<1>. SUFFICES ASSUME Init PROVE Register!Init
  OBVIOUS
<1>1. PICK started \in SUBSET Switch : ChannelInit(InitialOwner, started)
  BY DEF Init
<1>2. \A s \in Switch : Masters(s) \subseteq {owner[s]}
  BY <1>1 DEF ChannelInit, Init, Masters, Link
<1>3. \A s \in Switch : HoldOf(s) = "free"
  BY DEF Init, HoldOf
<1>4. \A s \in Switch : Masters(s) \in SUBSET Controller
  BY DEF Masters
<1>. QED
  BY <1>2, <1>3, <1>4 DEF Init, Register!Init

(* The migration endpoint implements OwnershipRegister: ownership moves    *)
(* only under the lock of its switch, one version per settled transaction, *)
(* and no switch is let go while a controller other than the registered    *)
(* owner is its MASTER.                                                    *)
THEOREM ImplementsRegister == Spec => RegisterSpec
<1>1. TypeOK /\ LockExclusion /\ LockExclusion' /\ FencingInvariant /\ [Next]_vars
        => [Register!Next]_Register!registerVars
  <2>. SUFFICES ASSUME TypeOK, LockExclusion, LockExclusion', FencingInvariant, [Next]_vars
                PROVE  [Register!Next]_Register!registerVars
    OBVIOUS
  <2>1. CASE UNCHANGED vars
    BY <2>1 DEF vars, channelVars, orchestratorVars, Register!registerVars, Masters, HoldOf,
       SwitchOf
  <2>2. ASSUME ChannelStep, UNCHANGED orchestratorVars
        PROVE  [Register!Next]_Register!registerVars
    BY <2>2, ChannelRegister
  <2>3. ASSUME NEW r \in Request, ReadOwner(r) \/ Proceed(r)
        PROVE  [Register!Next]_Register!registerVars
    BY <2>3, HandlerRegister
  <2>. QED
    BY <2>1, <2>2, <2>3 DEF Next
<1>. QED
  BY <1>1, RegisterInit, TypeCorrect, LockExclusionHolds, FencingHolds, PTL
     DEF Spec, RegisterSpec, Register!Spec

-----------------------------------------------------------------------------
(* What the channel does to roles and ids.                                 *)

\* A role change that a switch accepts.
LEMMA AcceptedRole ==
  ASSUME TypeOK, FencingInvariant, NEW link \in Link, SwitchChangesRole(link),
         NEW m, m = Head(toSwitch[link])
  PROVE  /\ m \in InFlight /\ m \in RequestMsg /\ m.link = link
         /\ ByHandler(m) /\ m.kind = "MASTER" /\ ~Stale(m)
         /\ swRole' = RolesAfter(link, "MASTER")
         /\ swGen' = [swGen EXCEPT ![link[2]] = m.gen]
         /\ Reply(link, "MASTER")
<1>1. Arrived(link) /\ ChannelTypeOK
  BY DEF SwitchChangesRole, TypeOK
<1>2. m \in InFlight /\ m \in RequestMsg /\ m.link = link /\ ByHandler(m)
  BY <1>1, FrontOfChannel DEF FencingInvariant
<1>. QED
  BY <1>2 DEF SwitchChangesRole, ByHandler

\* No other step of the channel accepts an id or makes a master.
LEMMA OtherChannelSteps ==
  ASSUME TypeOK, ChannelStep, \A link \in Link : ~SwitchChangesRole(link)
  PROVE  /\ swGen' = swGen
         /\ \A k \in Link : swRole'[k] = "MASTER" => swRole[k] = "MASTER"
         /\ faults' = 0 => faults = 0 /\ \A k \in Link : swRole[k] = "MASTER" => swRole'[k] = "MASTER"
<1>1. ASSUME NEW msg \in posts, ServePost(msg)
      PROVE  UNCHANGED <<swGen, swRole, faults>>
  BY <1>1 DEF ServePost
<1>2. ASSUME NEW link \in Link, \/ SwitchRefuses(link) \/ SwitchReports(link)
                                \/ HandleRoleReply(link) \/ HandleBarrierReply(link)
      PROVE  UNCHANGED <<swGen, swRole, faults>>
  BY <1>2 DEF SwitchRefuses, SwitchReports, HandleRoleReply, HandleBarrierReply
<1>3. faults \in Nat
  BY FaultsAssumption DEF TypeOK, ChannelTypeOK
<1>4. ASSUME NEW link \in Link, ChannelDown(link)
      PROVE  /\ swGen' = swGen /\ faults' # 0
             /\ \A k \in Link : swRole'[k] = "MASTER" => swRole[k] = "MASTER"
  BY <1>3, <1>4 DEF ChannelDown, TypeOK, ChannelTypeOK
<1>5. ASSUME NEW link \in Link, ChannelUp(link)
      PROVE  /\ swGen' = swGen /\ faults' = faults
             /\ \A k \in Link : swRole'[k] = "MASTER" <=> swRole[k] = "MASTER"
  BY <1>5 DEF ChannelUp, Connected, TypeOK, ChannelTypeOK
<1>6. ASSUME NEW c \in Controller, ControllerRestart(c)
      PROVE  /\ swGen' = swGen /\ faults' # 0
             /\ \A k \in Link : swRole'[k] = "MASTER" => swRole[k] = "MASTER"
  BY <1>3, <1>6 DEF ControllerRestart
<1>. QED
  BY <1>1, <1>2, <1>4, <1>5, <1>6 DEF ChannelStep

\* A thread touches roles, ids and replies only through what it posts.
LEMMA HandlerChannel ==
  ASSUME NEW r \in Request, ReadOwner(r) \/ Proceed(r)
  PROVE  UNCHANGED <<toSwitch, toController, cachedRole, swRole, swGen, faults>>
BY DEF Proceed, ReadOwner, Create, Promote, PromoteReplied, PromoteFenced, SourceQueried,
   TargetQueried, SourceConnectivity, TargetConnectivity, CheckConnected, TrafficVerified,
   Commit, Finish, RollBack, RestoreReplied, RestoreFenced, RestoredQueried, OtherQueried,
   RestoredConnectivity, OtherConnectivity, MarkRestored, GiveUp, NextCall, Post, SetOwner,
   channelVars

-----------------------------------------------------------------------------
(* Masters, and the ids that are recorded.                                 *)

LEMMA ChannelHasMaster ==
  ASSUME TypeOK, FencingInvariant, HasMaster, ChannelStep
  PROVE  HasMaster'
<1>1. CASE \A link \in Link : ~SwitchChangesRole(link)
  BY <1>1, OtherChannelSteps DEF HasMaster, Link
<1>2. ASSUME NEW link \in Link, SwitchChangesRole(link)
      PROVE  HasMaster'
  <2>1. PICK m : m = Head(toSwitch[link])
    OBVIOUS
  <2>2. /\ swRole' = RolesAfter(link, "MASTER")
        /\ swGen' = [swGen EXCEPT ![link[2]] = m.gen]
        /\ faults' = faults
    BY <1>2, <2>1, AcceptedRole DEF SwitchChangesRole
  <2>3. PICK c \in Controller, s \in Switch : link = <<c, s>>
    BY DEF Link
  <2>4. swRole'[<<c, s>>] = "MASTER"
    BY <2>2, <2>3 DEF RolesAfter, Link
  <2>5. ASSUME NEW t \in Switch, t # s
        PROVE  swGen'[t] = swGen[t] /\ \A d \in Controller : swRole'[<<d, t>>] = swRole[<<d, t>>]
    BY <2>2, <2>3, <2>5 DEF RolesAfter, Link, TypeOK, ChannelTypeOK
  <2>. QED
    BY <2>2, <2>4, <2>5 DEF HasMaster
<1>. QED
  BY <1>1, <1>2

\* An id that a switch is about to accept is the one it has, or was drawn by the
\* transaction that holds it.
LEMMA IdIsKnown ==
  ASSUME TypeOK, FencingInvariant, NewestIds,
         NEW m \in InFlight, m.kind = "MASTER", ~Stale(m)
  PROVE  \/ m.gen = swGen[m.link[2]]
         \/ /\ m.client \in Request
            /\ Holds(m.client, m.link[2]) /\ tx[m.client].gen > 0
            /\ m.gen <= LastDrawn(m.client)
<1>1. ByHandler(m) /\ m \in RequestMsg
  BY InFlightType DEF FencingInvariant, RequestsInFlight, TypeOK
<1>2. PICK r \in Request : r = m.client
  BY <1>1 DEF ByHandler
<1>3. /\ m.link[2] = SwitchOf(r) /\ m.gen > 0 /\ m.gen \in Nat
      /\ m.gen = tx[r].gen \/ m.gen = tx[r].rollbackGen
  BY <1>1, <1>2 DEF ByHandler, Target, Source, RequestMsg
<1>4. /\ tx[r].gen \in Nat /\ tx[r].rollbackGen \in Nat /\ swGen[SwitchOf(r)] \in Nat
      /\ pc[r] \in ProgramPoints /\ IdsOf(r)
  BY LinkFacts DEF TypeOK, ChannelTypeOK, FencingInvariant, DrawnIds
<1>5. CASE pc[r] \in {"committed", "restored"}
  <2>1. m.gen <= swGen[SwitchOf(r)]
    BY <1>3, <1>5 DEF NewestIds
  <2>. QED
    BY <1>3, <1>4, <2>1 DEF Stale
<1>6. CASE pc[r] \in Holding \ {"created"}
  <2>1. tx[r].gen > 0 /\ (tx[r].rollbackGen = 0 \/ tx[r].gen < tx[r].rollbackGen)
    BY <1>4, <1>6 DEF IdsOf, Holding
  <2>2. m.gen <= LastDrawn(r)
    BY <1>3, <1>4, <2>1 DEF LastDrawn
  <2>. QED
    BY <1>2, <1>3, <1>6, <2>1, <2>2 DEF Holds
<1>7. pc[r] \notin {"idle", "read", "created", "rejected"}
  BY <1>3, <1>4 DEF IdsOf
<1>. QED
  BY <1>4, <1>5, <1>6, <1>7 DEF ProgramPoints, Finished

LEMMA ChannelNewestIds ==
  ASSUME TypeOK, LockExclusion, FencingInvariant, NewestIds, Recorded, ChannelStep,
         UNCHANGED orchestratorVars
  PROVE  NewestIds' /\ Recorded'
<1>. USE DEF orchestratorVars
<1>1. CASE \A link \in Link : ~SwitchChangesRole(link)
  BY <1>1, OtherChannelSteps DEF NewestIds, LastDrawn, Recorded, RecordedGeneration, SwitchOf
<1>2. ASSUME NEW link \in Link, SwitchChangesRole(link)
      PROVE  NewestIds' /\ Recorded'
  <2>1. PICK m : m = Head(toSwitch[link])
    OBVIOUS
  <2>2. PICK s \in Switch : s = link[2]
    BY DEF Link
  <2>3. /\ m \in InFlight /\ m.kind = "MASTER" /\ ~Stale(m) /\ m.link[2] = s
        /\ swGen' = [swGen EXCEPT ![s] = m.gen] /\ m.gen \in Nat /\ m.gen >= swGen[s]
        /\ swGen \in [Switch -> Nat]
    <3>1. /\ m \in InFlight /\ m \in RequestMsg /\ m.kind = "MASTER" /\ ~Stale(m)
          /\ m.link = link /\ swGen' = [swGen EXCEPT ![link[2]] = m.gen]
      BY <1>2, <2>1, AcceptedRole
    <3>. QED
      BY <2>2, <3>1 DEF Stale, RequestMsg, TypeOK, ChannelTypeOK
  <2>4. CASE m.gen = swGen[s]
    <3>1. swGen' = swGen
      BY <2>3, <2>4
    <3>. QED
      BY <3>1 DEF NewestIds, LastDrawn, Recorded, RecordedGeneration, SwitchOf
  <2>5. ASSUME NEW q \in Request, Holds(q, s), tx[q].gen > 0, m.gen <= LastDrawn(q)
        PROVE  NewestIds' /\ Recorded'
    <3>1. ASSUME NEW r \in Request, pc[r] \in Holding
          PROVE  SwitchOf(r) = s => r = q
      BY <2>5, <3>1 DEF LockExclusion, Holds
    <3>2. \A r \in Request : SwitchOf(r) \in Switch /\ tx[r].gen \in Nat /\ tx[r].rollbackGen \in Nat
      BY LinkFacts DEF TypeOK
    <3>3. NewestIds'
      <4>1. ASSUME NEW r \in Request, pc[r] \in Holding, tx[r].gen > 0
            PROVE  swGen'[SwitchOf(r)] <= LastDrawn(r)
        BY <2>3, <2>5, <3>1, <3>2, <4>1 DEF NewestIds
      <4>2. ASSUME NEW r \in Request, pc[r] \in {"committed", "restored"}
            PROVE  tx[r].gen <= swGen'[SwitchOf(r)] /\ tx[r].rollbackGen <= swGen'[SwitchOf(r)]
        <5>1. swGen[SwitchOf(r)] <= swGen'[SwitchOf(r)]
          BY <2>3, <3>2
        <5>. QED
          BY <2>3, <3>2, <4>2, <5>1 DEF NewestIds
      <4>. QED
        BY <4>1, <4>2 DEF NewestIds, LastDrawn, SwitchOf
    <3>4. s \in locked
      BY <2>5 DEF LockExclusion
    <3>. QED
      BY <2>3, <3>3, <3>4 DEF Recorded, RecordedGeneration, LastDrawn, SwitchOf
  <2>. QED
    BY <2>3, <2>4, <2>5, IdIsKnown
<1>. QED
  BY <1>1, <1>2

\* A step of a thread that draws no id, and lets nothing go.
LEMMA SameIds ==
  ASSUME TypeOK, NewestIds, Recorded, NEW r \in Request,
         UNCHANGED <<input, swGen, lastGen>>,
         \A q \in Request : tx'[q].gen = tx[q].gen /\ tx'[q].rollbackGen = tx[q].rollbackGen,
         \A q \in Request \ {r} : pc'[q] = pc[q],
         pc'[r] \in Holding /\ tx[r].gen > 0 => pc[r] \in Holding,
         pc'[r] \notin {"committed", "restored", "finishCommit", "finishRestore"},
         locked \subseteq locked'
  PROVE  NewestIds' /\ Recorded'
<1>1. NewestIds'
  BY DEF NewestIds, LastDrawn, SwitchOf
<1>2. Recorded'
  BY DEF Recorded, RecordedGeneration, LastDrawn, SwitchOf
<1>. QED
  BY <1>1, <1>2

LEMMA HandlerNewestIds ==
  ASSUME TypeOK, LockExclusion, FencingInvariant, NewestIds, Recorded,
         NEW r \in Request, ReadOwner(r) \/ Proceed(r)
  PROVE  NewestIds' /\ Recorded'
<1>. USE DEF Holding, Migrating, RollingBack, MigrateRaises, RollbackRaises, MigrateCalls,
             RollbackCalls
<1>0. /\ UNCHANGED <<input, swGen>> /\ SwitchOf(r) \in Switch
      /\ \A q \in Request \ {r} : pc'[q] = pc[q]
      /\ \A q \in Request : SwitchOf(q)' = SwitchOf(q)
  BY HoldStep, HandlerChannel, LinkFacts DEF SwitchOf
<1>1. /\ pc \in [Request -> ProgramPoints] /\ lastId \in Nat /\ swGen \in [Switch -> Nat]
      /\ lastGen \in [Switch -> Nat]
      /\ tx \in [Request -> [source : Controller, gen : Nat, rollbackGen : Nat, ok : BOOLEAN]]
      /\ \A s \in Switch : swGen[s] <= lastId
      /\ IdsOf(r)
  BY DEF TypeOK, ChannelTypeOK, FencingInvariant, DrawnIds
<1>2. CASE ReadOwner(r) \/ Create(r)
  <2>1. tx[r].gen = 0 /\ tx[r].rollbackGen = 0
    BY <1>1, <1>2 DEF IdsOf, ReadOwner, Create
  <2>2. \A q \in Request : tx'[q].gen = tx[q].gen /\ tx'[q].rollbackGen = tx[q].rollbackGen
    BY <1>1, <1>2 DEF ReadOwner, Create
  <2>. QED
    BY <1>0, <1>1, <1>2, <2>1, <2>2, SameIds DEF ReadOwner, Create, Goto
<1>3. CASE PromoteReplied(r) \/ PromoteFenced(r) \/ RestoreReplied(r) \/ RestoreFenced(r)
  BY <1>0, <1>1, <1>3, SameIds
     DEF PromoteReplied, PromoteFenced, RestoreReplied, RestoreFenced, NextCall, Goto
<1>4. CASE \/ SourceQueried(r) \/ RestoredQueried(r) \/ TargetQueried(r) \/ OtherQueried(r)
           \/ SourceConnectivity(r) \/ TargetConnectivity(r)
           \/ RestoredConnectivity(r) \/ OtherConnectivity(r)
  <2>1. \A q \in Request : tx'[q].gen = tx[q].gen /\ tx'[q].rollbackGen = tx[q].rollbackGen
    BY <1>1, <1>4
       DEF SourceQueried, RestoredQueried, TargetQueried, OtherQueried, SourceConnectivity,
           TargetConnectivity, RestoredConnectivity, OtherConnectivity, CheckConnected, Check
  <2>. QED
    BY <1>0, <1>1, <1>4, <2>1, SameIds
       DEF SourceQueried, RestoredQueried, TargetQueried, OtherQueried, SourceConnectivity,
           TargetConnectivity, RestoredConnectivity, OtherConnectivity, CheckConnected,
           NextCall, Goto
<1>5. CASE TrafficVerified(r) \/ GiveUp(r)
  BY <1>0, <1>1, <1>5, SameIds DEF TrafficVerified, GiveUp, Goto
<1>6. CASE Promote(r) \/ RollBack(r)
  <2>1. /\ lastId' = lastId + 1 /\ UNCHANGED <<lastGen, locked>>
        /\ \A q \in Request \ {r} : tx'[q] = tx[q]
        /\ pc[r] \in Migrating /\ pc'[r] \in {"promote", "restore"}
        /\ LastDrawn(r)' = lastId + 1
    <3>1. CASE Promote(r)
      BY <1>1, <3>1 DEF Promote, Goto, IdsOf, LastDrawn
    <3>2. CASE RollBack(r)
      BY <1>1, <3>2 DEF RollBack, Goto, LastDrawn
    <3>. QED
      BY <1>6, <3>1, <3>2
  <2>2. NewestIds'
    <3>1. swGen[SwitchOf(r)] <= LastDrawn(r)'
      BY <1>0, <1>1, <2>1
    <3>. QED
      BY <1>0, <2>1, <3>1 DEF NewestIds, LastDrawn
  <2>3. Recorded'
    BY <1>0, <2>1 DEF Recorded, RecordedGeneration, LastDrawn
  <2>. QED
    BY <2>2, <2>3
<1>7. CASE Commit(r) \/ MarkRestored(r)
  <2>1. PICK s \in Switch : s = SwitchOf(r)
    BY <1>0
  <2>2. /\ pc[r] \in {"commit", "markRestored"} /\ pc'[r] \in {"finishCommit", "finishRestore"}
        /\ lastGen' = [lastGen EXCEPT ![s] = LastDrawn(r)]
        /\ UNCHANGED <<locked, tx>>
    <3>1. CASE Commit(r)
      <4>1. pc[r] = "commit" /\ LastDrawn(r) = tx[r].gen
        BY <1>1, <3>1 DEF Commit, IdsOf, LastDrawn
      <4>. QED
        BY <1>1, <2>1, <3>1, <4>1 DEF Commit, SetOwner, Goto
    <3>2. CASE MarkRestored(r)
      <4>1. pc[r] = "markRestored" /\ LastDrawn(r) = tx[r].rollbackGen
        BY <1>1, <3>2 DEF MarkRestored, IdsOf, LastDrawn
      <4>. QED
        BY <1>1, <2>1, <3>2, <4>1 DEF MarkRestored, SetOwner, Goto
    <3>. QED
      BY <1>7, <3>1, <3>2
  <2>3. NewestIds'
    BY <1>0, <2>2 DEF NewestIds, LastDrawn
  <2>4. s \in locked /\ \A q \in Request \ {r} : pc[q] \in Holding => SwitchOf(q) # s
    BY <2>1, <2>2 DEF LockExclusion, Holds
  <2>5. ASSUME NEW q \in Request, pc'[q] \in {"finishCommit", "finishRestore"}
        PROVE  lastGen'[SwitchOf(q)] = LastDrawn(q)
    <3>1. CASE q = r
      BY <1>1, <2>1, <2>2, <3>1
    <3>2. CASE q # r
      BY <1>0, <1>1, <2>2, <2>4, <2>5, <3>2 DEF Recorded
    <3>. QED
      BY <3>1, <3>2
  <2>6. Recorded'
    BY <1>0, <1>1, <2>2, <2>4, <2>5 DEF Recorded, RecordedGeneration, LastDrawn
  <2>. QED
    BY <2>3, <2>6
<1>8. CASE Finish(r)
  <2>1. PICK s \in Switch : s = SwitchOf(r)
    BY <1>0
  <2>2. /\ pc[r] \in {"finishCommit", "finishRestore"} /\ pc'[r] \in {"committed", "restored"}
        /\ locked' = locked \ {s} /\ UNCHANGED <<lastGen, tx>>
    BY <1>1, <1>8, <2>1 DEF Finish, Goto
  <2>3. /\ tx[r].gen <= LastDrawn(r) /\ tx[r].rollbackGen <= LastDrawn(r)
        /\ swGen[s] = LastDrawn(r) /\ lastGen[s] = LastDrawn(r)
    <3>1. /\ LastDrawn(r) \in Nat /\ tx[r].gen > 0
          /\ tx[r].gen <= LastDrawn(r) /\ tx[r].rollbackGen <= LastDrawn(r)
      BY <1>1, <2>2 DEF IdsOf, LastDrawn
    <3>2. swGen[s] <= LastDrawn(r) /\ lastGen[s] = LastDrawn(r)
      BY <2>1, <2>2, <3>1 DEF NewestIds, Recorded
    <3>3. swGen[s] >= LastDrawn(r)
      BY <1>1, <2>1, <2>2 DEF FencingInvariant, AcceptedIds, Accepted, Promoted, Restored,
         LastDrawn, IdsOf
    <3>4. swGen[s] \in Nat
      BY <1>1
    <3>. QED
      BY ONLY <3>1, <3>2, <3>3, <3>4
  <2>4. NewestIds'
    <3>1. ASSUME NEW q \in Request, q # r
          PROVE  /\ pc'[q] \in Holding /\ tx'[q].gen > 0 => swGen[SwitchOf(q)] <= LastDrawn(q)
                 /\ pc'[q] \in {"committed", "restored"} =>
                      tx[q].gen <= swGen[SwitchOf(q)] /\ tx[q].rollbackGen <= swGen[SwitchOf(q)]
      BY <1>0, <2>2, <3>1 DEF NewestIds
    <3>. QED
      BY <1>0, <2>1, <2>2, <2>3, <3>1 DEF NewestIds, LastDrawn
  <2>5. Recorded'
    BY <1>0, <2>1, <2>2, <2>3 DEF Recorded, RecordedGeneration, LastDrawn
  <2>. QED
    BY <2>4, <2>5
<1>. QED
  BY <1>2, <1>3, <1>4, <1>5, <1>6, <1>7, <1>8 DEF Proceed

IdInvariant == HasMaster /\ NewestIds /\ Recorded

\* Masters and recorded ids, for any number of controllers.
THEOREM IdInvariantHolds == Spec => []IdInvariant
<1>1. Init => IdInvariant
  <2>. SUFFICES ASSUME Init PROVE IdInvariant
    OBVIOUS
  <2>1. PICK started \in SUBSET Switch : ChannelInit(InitialOwner, started)
    BY DEF Init
  <2>2. HasMaster
    <3>1. ASSUME NEW s \in Switch, swGen[s] # 0
          PROVE  swRole[<<InitialOwner[s], s>>] = "MASTER" /\ InitialOwner[s] \in Controller
      BY <2>1, <3>1, OwnerAssumption DEF ChannelInit, Link
    <3>. QED
      BY <3>1 DEF HasMaster
  <2>3. NewestIds /\ Recorded
    BY DEF Init, NewestIds, Recorded, RecordedGeneration, Holding, Migrating, RollingBack,
       MigrateRaises, RollbackRaises, MigrateCalls, RollbackCalls
  <2>. QED
    BY <2>2, <2>3 DEF IdInvariant
<1>2. TypeOK /\ LockExclusion /\ FencingInvariant /\ IdInvariant /\ [Next]_vars => IdInvariant'
  <2>. SUFFICES ASSUME TypeOK, LockExclusion, FencingInvariant, IdInvariant, [Next]_vars
                PROVE  IdInvariant'
    OBVIOUS
  <2>. USE DEF IdInvariant
  <2>1. ASSUME ChannelStep, UNCHANGED orchestratorVars
        PROVE  IdInvariant'
    BY <2>1, ChannelHasMaster, ChannelNewestIds
  <2>2. ASSUME NEW r \in Request, ReadOwner(r) \/ Proceed(r)
        PROVE  IdInvariant'
    BY <2>2, HandlerNewestIds, HandlerChannel DEF HasMaster
  <2>3. CASE UNCHANGED vars
    BY <2>3 DEF vars, channelVars, orchestratorVars, HasMaster, NewestIds, Recorded,
       RecordedGeneration, LastDrawn, SwitchOf
  <2>. QED
    BY <2>1, <2>2, <2>3 DEF Next
<1>. QED
  BY <1>1, <1>2, TypeCorrect, LockExclusionHolds, FencingHolds, PTL DEF Spec

-----------------------------------------------------------------------------
(* Nobody else believes to be master.                                      *)

\* What a channel step does to the replies of a link.
LEMMA RepliesAfter ==
  ASSUME TypeOK, FencingInvariant, ChannelStep, NEW k \in Link
  PROVE  \/ toController'[k] = toController[k]
         \/ toController'[k] = <<>>
         \/ toController[k] # <<>> /\ toController'[k] = Tail(toController[k])
         \/ \E n \in ReplyMsg, m \in InFlight :
              /\ toController'[k] = Append(toController[k], n)
              /\ n.link = k /\ m.link = k /\ n.client = m.client /\ n.phase = m.phase
              /\ n.answer \in {"FENCED", swRole'[k]}
<1>0. ChannelTypeOK
  BY DEF TypeOK
<1>1. ASSUME NEW link \in Link, Arrived(link), NEW answer \in Roles \cup {"FENCED"},
             Reply(link, answer), answer \in {"FENCED", swRole'[link]}
      PROVE  \/ toController'[k] = toController[k]
             \/ \E n \in ReplyMsg, m \in InFlight :
                  /\ toController'[k] = Append(toController[k], n)
                  /\ n.link = k /\ m.link = k /\ n.client = m.client /\ n.phase = m.phase
                  /\ n.answer \in {"FENCED", swRole'[k]}
  <2>1. PICK m : m = Head(toSwitch[link])
    OBVIOUS
  <2>2. m \in InFlight /\ m \in RequestMsg /\ m.link = link
    BY <1>0, <1>1, <2>1, FrontOfChannel DEF FencingInvariant
  <2>3. PICK n : n = [link |-> link, client |-> m.client, phase |-> m.phase,
                      answer |-> answer]
    OBVIOUS
  <2>4. n \in ReplyMsg
    BY <1>1, <2>2, <2>3 DEF RequestMsg, ReplyMsg
  <2>5. toController' = [toController EXCEPT ![link] = Append(@, n)]
    BY <1>1, <2>1, <2>3 DEF Reply
  <2>6. CASE k = link
    <3>1. toController'[k] = Append(toController[k], n)
      BY <1>0, <2>5, <2>6 DEF ChannelTypeOK
    <3>. QED
      BY <1>1, <2>2, <2>3, <2>4, <2>6, <3>1
  <2>7. CASE k # link
    BY <1>0, <2>5, <2>7 DEF ChannelTypeOK
  <2>. QED
    BY <2>6, <2>7
<1>2. ASSUME NEW link \in Link, SwitchChangesRole(link)
      PROVE  Arrived(link) /\ Reply(link, "MASTER") /\ swRole'[link] = "MASTER"
  <2>1. PICK m : m = Head(toSwitch[link])
    OBVIOUS
  <2>. QED
    BY <1>2, <2>1, AcceptedRole DEF SwitchChangesRole, RolesAfter
<1>3. ASSUME NEW link \in Link, SwitchReports(link)
      PROVE  /\ Arrived(link)
             /\ \E answer \in Roles \cup {"FENCED"} :
                  Reply(link, answer) /\ answer \in {"FENCED", swRole'[link]}
  BY <1>0, <1>3 DEF SwitchReports, Arrived, Connected, ChannelTypeOK
<1>4. ASSUME NEW msg \in posts, ServePost(msg)
      PROVE  toController' = toController
  BY <1>4 DEF ServePost
<1>5. ASSUME NEW link \in Link, SwitchRefuses(link) \/ ChannelUp(link)
      PROVE  toController' = toController
  BY <1>5 DEF SwitchRefuses, ChannelUp
<1>6. ASSUME NEW link \in Link,
             HandleRoleReply(link) \/ HandleBarrierReply(link) \/ ChannelDown(link)
      PROVE  \/ toController'[k] = toController[k]
             \/ toController'[k] = <<>>
             \/ toController[k] # <<>> /\ toController'[k] = Tail(toController[k])
  BY <1>0, <1>6 DEF HandleRoleReply, HandleBarrierReply, ChannelDown, ChannelTypeOK
<1>7. ASSUME NEW c \in Controller, ControllerRestart(c)
      PROVE  toController'[k] = toController[k] \/ toController'[k] = <<>>
  BY <1>0, <1>7 DEF ControllerRestart, ChannelTypeOK
<1>8. "MASTER" \in Roles
  BY DEF Roles
<1>. QED
  BY <1>1, <1>2, <1>3, <1>4, <1>5, <1>6, <1>7, <1>8 DEF ChannelStep

\* And to the cached role: it is what the first reply says.
LEMMA CacheAfter ==
  ASSUME TypeOK, ChannelStep, NEW k \in Link, cachedRole'[k] # cachedRole[k],
         cachedRole'[k] = "MASTER"
  PROVE  toController[k] # <<>> /\ Head(toController[k]).answer = "MASTER"
<1>0. ChannelTypeOK
  BY DEF TypeOK
<1>1. ASSUME NEW msg \in posts, ServePost(msg)
      PROVE  FALSE
  BY <1>1 DEF ServePost
<1>2. ASSUME NEW link \in Link, \/ SwitchRefuses(link) \/ SwitchReports(link)
                                \/ SwitchChangesRole(link)
                                \/ HandleBarrierReply(link) \/ ChannelDown(link)
      PROVE  FALSE
  BY <1>2 DEF SwitchRefuses, SwitchReports, SwitchChangesRole, HandleBarrierReply, ChannelDown
<1>3. ASSUME NEW link \in Link, ChannelUp(link)
      PROVE  FALSE
  BY <1>0, <1>3 DEF ChannelUp, ChannelTypeOK
<1>4. ASSUME NEW c \in Controller, ControllerRestart(c)
      PROVE  FALSE
  BY <1>0, <1>4 DEF ControllerRestart, ChannelTypeOK
<1>5. ASSUME NEW link \in Link, HandleRoleReply(link)
      PROVE  toController[k] # <<>> /\ Head(toController[k]).answer = "MASTER"
  BY <1>0, <1>5 DEF HandleRoleReply, ChannelTypeOK
<1>. QED
  BY <1>1, <1>2, <1>3, <1>4, <1>5 DEF ChannelStep

\* No request on its way will make this link master.
Refusing(k) == \A m \in InFlight : m.link = k /\ m.kind = "MASTER" => Stale(m)

LEMMA NoMasterAfter ==
  ASSUME TypeOK, FencingInvariant, ChannelStep, NEW k \in Link, Refusing(k),
         swRole[k] # "MASTER"
  PROVE  swRole'[k] # "MASTER"
<1>1. CASE \A link \in Link : ~SwitchChangesRole(link)
  BY <1>1, OtherChannelSteps
<1>2. ASSUME NEW link \in Link, SwitchChangesRole(link)
      PROVE  swRole'[k] # "MASTER"
  <2>1. PICK m : m = Head(toSwitch[link])
    OBVIOUS
  <2>2. /\ m \in InFlight /\ m.link = link /\ m.kind = "MASTER" /\ ~Stale(m)
        /\ swRole' = RolesAfter(link, "MASTER")
    BY <1>2, <2>1, AcceptedRole
  <2>3. k # link
    BY <2>2 DEF Refusing
  <2>. QED
    BY <2>2, <2>3 DEF RolesAfter
<1>. QED
  BY <1>1, <1>2

LEMMA CleanKept ==
  ASSUME TypeOK, FencingInvariant, ChannelStep, NEW k \in Link, Refusing(k), Clean(k)
  PROVE  Clean(k)'
<1>1. swRole'[k] # "MASTER"
  BY NoMasterAfter DEF Clean
<1>2. toController[k] \in Seq(ReplyMsg)
  BY DEF TypeOK, ChannelTypeOK
<1>3. cachedRole'[k] # "MASTER"
  <2>1. toController[k] # <<>> => Head(toController[k]).answer # "MASTER"
    BY <1>2, HeadElement DEF Clean
  <2>. QED
    BY <2>1, CacheAfter DEF Clean
<1>4. ASSUME NEW i \in DOMAIN toController'[k]
      PROVE  toController'[k][i].answer # "MASTER"
  <2>1. CASE toController'[k] = toController[k]
    BY <1>4, <2>1 DEF Clean
  <2>2. CASE toController'[k] = <<>>
    BY <1>4, <2>2
  <2>3. CASE toController[k] # <<>> /\ toController'[k] = Tail(toController[k])
    BY <1>2, <1>4, <2>3, TailElements DEF Clean
  <2>4. ASSUME NEW n \in ReplyMsg, toController'[k] = Append(toController[k], n),
               n.answer \in {"FENCED", swRole'[k]}
        PROVE  toController'[k][i].answer # "MASTER"
    BY <1>1, <1>2, <1>4, <2>4, AppendElements DEF Clean
  <2>. QED
    BY <2>1, <2>2, <2>3, <2>4, RepliesAfter
<1>. QED
  BY <1>1, <1>3, <1>4 DEF Clean

LEMMA LastWordKept ==
  ASSUME TypeOK, FencingInvariant, ChannelStep, NEW k \in Link, Refusing(k),
         NEW r, NEW phase, LastWord(r, k, phase)
  PROVE  LastWord(r, k, phase)'
<1>1. toController[k] \in Seq(ReplyMsg)
  BY DEF TypeOK, ChannelTypeOK
<1>. DEFINE Says(n) == n.client = r /\ n.phase = phase /\ n.answer = "SLAVE"
<1>2. ASSUME NEW i \in DOMAIN toController[k], Says(toController[k][i])
      PROVE  /\ swRole'[k] # "MASTER"
             /\ \A j \in DOMAIN toController[k] : j > i => toController[k][j].answer # "MASTER"
  BY <1>2, NoMasterAfter DEF LastWord
<1>3. SUFFICES ASSUME NEW i \in DOMAIN toController'[k], Says(toController'[k][i])
               PROVE  /\ swRole'[k] # "MASTER"
                      /\ \A j \in DOMAIN toController'[k] :
                           j > i => toController'[k][j].answer # "MASTER"
  BY DEF LastWord
<1>. HIDE DEF Says
<1>4. CASE toController'[k] = toController[k]
  BY <1>2, <1>3, <1>4
<1>5. CASE toController'[k] = <<>>
  BY <1>3, <1>5
<1>6. CASE toController[k] # <<>> /\ toController'[k] = Tail(toController[k])
  <2>1. i + 1 \in DOMAIN toController[k] /\ toController'[k][i] = toController[k][i + 1]
    BY <1>1, <1>3, <1>6, TailElements
  <2>2. /\ swRole'[k] # "MASTER"
        /\ \A j \in DOMAIN toController[k] : j > i + 1 => toController[k][j].answer # "MASTER"
    BY <1>2, <1>3, <2>1
  <2>3. ASSUME NEW j \in DOMAIN toController'[k], j > i
        PROVE  toController'[k][j].answer # "MASTER"
    <3>1. j + 1 \in DOMAIN toController[k] /\ toController'[k][j] = toController[k][j + 1]
      BY <1>1, <1>6, <2>3, TailElements
    <3>2. toController'[k] \in Seq(ReplyMsg)
      BY <1>1, <1>6
    <3>3. i \in Nat /\ j \in Nat
      BY <1>3, <2>3, <3>2
    <3>4. j + 1 > i + 1
      BY <2>3, <3>3
    <3>. QED
      BY <2>2, <3>1, <3>4
  <2>. QED
    BY <2>2, <2>3
<1>7. ASSUME NEW n \in ReplyMsg, toController'[k] = Append(toController[k], n),
             n.answer \in {"FENCED", swRole'[k]}
      PROVE  /\ swRole'[k] # "MASTER"
             /\ \A j \in DOMAIN toController'[k] :
                  j > i => toController'[k][j].answer # "MASTER"
  <2>1. /\ DOMAIN toController'[k] = 1 .. Len(toController[k]) + 1
        /\ DOMAIN toController[k] = 1 .. Len(toController[k])
        /\ Len(toController[k]) \in Nat
        /\ toController'[k][Len(toController[k]) + 1] = n
        /\ \A j \in DOMAIN toController[k] : toController'[k][j] = toController[k][j]
    BY <1>1, <1>7
  <2>2. CASE i \in DOMAIN toController[k]
    <3>1. /\ swRole'[k] # "MASTER"
          /\ \A j \in DOMAIN toController[k] : j > i => toController[k][j].answer # "MASTER"
      BY <1>2, <1>3, <2>1, <2>2
    <3>2. n.answer # "MASTER"
      BY <1>7, <3>1
    <3>. QED
      BY <2>1, <3>1, <3>2
  <2>3. CASE i = Len(toController[k]) + 1
    <3>1. n.answer = "SLAVE" /\ swRole'[k] = "SLAVE"
      BY <1>3, <1>7, <2>1, <2>3 DEF Says
    <3>2. ~\E j \in DOMAIN toController'[k] : j > i
      BY <2>1, <2>3
    <3>. QED
      BY <3>1, <3>2
  <2>. QED
    BY <1>3, <2>1, <2>2, <2>3
<1>. QED
  BY <1>4, <1>5, <1>6, <1>7, RepliesAfter

\* An answer SLAVE is read from the first reply of the link it was asked on.
LEMMA AnswerAfter ==
  ASSUME TypeOK, ChannelStep, NEW r \in Request, poll'[r] # poll[r],
         poll'[r].answer = "SLAVE"
  PROVE  \E link \in Link :
           /\ HandleRoleReply(link)
           /\ Head(toController[link]).client = r
           /\ Head(toController[link]).phase = poll'[r].phase
           /\ Head(toController[link]).answer = "SLAVE"
<1>0. ChannelTypeOK /\ r \in Client
  BY RequestAssumption DEF TypeOK
<1>1. ASSUME NEW msg, NEW answer, poll' = Answered(msg, answer)
      PROVE  msg.client = r /\ poll'[r].phase = msg.phase /\ answer = "SLAVE"
  BY <1>0, <1>1 DEF Answered, ChannelTypeOK
<1>2. ASSUME NEW msg \in posts, ServePost(msg)
      PROVE  FALSE
  BY <1>1, <1>2 DEF ServePost
<1>3. ASSUME NEW link \in Link, \/ SwitchRefuses(link) \/ SwitchReports(link)
                                \/ SwitchChangesRole(link)
                                \/ ChannelUp(link) \/ ChannelDown(link)
      PROVE  FALSE
  BY <1>3 DEF SwitchRefuses, SwitchReports, SwitchChangesRole, ChannelUp, ChannelDown
<1>4. ASSUME NEW link \in Link, HandleBarrierReply(link)
      PROVE  FALSE
  BY <1>1, <1>4 DEF HandleBarrierReply
<1>5. ASSUME NEW c \in Controller, ControllerRestart(c)
      PROVE  FALSE
  <2>1. poll'[r] = [poll[r] EXCEPT !.answer = "HTTP_ERROR"]
    BY <1>0, <1>5 DEF ControllerRestart
  <2>. QED
    BY <1>0, <2>1 DEF ChannelTypeOK
<1>6. ASSUME NEW link \in Link, HandleRoleReply(link)
      PROVE  /\ Head(toController[link]).client = r
             /\ Head(toController[link]).phase = poll'[r].phase
             /\ Head(toController[link]).answer = "SLAVE"
  BY <1>1, <1>6 DEF HandleRoleReply
<1>. QED
  BY <1>2, <1>3, <1>4, <1>5, <1>6 DEF ChannelStep

\* With that answer the controller knows that it is not master.
LEMMA AnswerIsClean ==
  ASSUME TypeOK, NEW k \in Link, NEW r, NEW phase, LastWord(r, k, phase),
         HandleRoleReply(k), Head(toController[k]).client = r,
         Head(toController[k]).phase = phase, Head(toController[k]).answer = "SLAVE"
  PROVE  Clean(k)'
<1>1. toController[k] \in Seq(ReplyMsg) /\ toController[k] # <<>> /\ ChannelTypeOK
  BY DEF HandleRoleReply, TypeOK, ChannelTypeOK
<1>2. 1 \in DOMAIN toController[k] /\ Head(toController[k]) = toController[k][1]
  BY <1>1, HeadElement
<1>3. /\ swRole[k] # "MASTER"
      /\ \A j \in DOMAIN toController[k] : j > 1 => toController[k][j].answer # "MASTER"
  BY <1>2 DEF LastWord
<1>4. /\ toController'[k] = Tail(toController[k]) /\ cachedRole'[k] = "SLAVE"
      /\ swRole' = swRole
  BY <1>1 DEF HandleRoleReply, ChannelTypeOK
<1>5. ASSUME NEW i \in DOMAIN toController'[k]
      PROVE  toController'[k][i].answer # "MASTER"
  <2>1. i + 1 \in DOMAIN toController[k] /\ toController'[k][i] = toController[k][i + 1]
    BY <1>1, <1>4, <1>5, TailElements
  <2>2. i + 1 > 1
    BY <1>1, <1>4, <1>5
  <2>. QED
    BY <1>3, <2>1, <2>2
<1>. QED
  BY <1>3, <1>4, <1>5 DEF Clean

LEMMA DemotedKept ==
  ASSUME TypeOK, FencingInvariant, QueriesMade, ChannelStep, UNCHANGED orchestratorVars,
         NEW r \in Request, NEW k \in Link, NEW phase \in {"querySource", "queryTarget", "queryOther"},
         Refusing(k), Demoted(r, k, phase),
         \A link \in Link : \A i \in DOMAIN toController[link] :
            toController[link][i].client = r /\ toController[link][i].phase = phase => link = k
  PROVE  Demoted(r, k, phase)'
<1>1. LastWord(r, k, phase)'
  BY LastWordKept DEF Demoted
<1>2. Clean(k) => Clean(k)'
  BY CleanKept
<1>3. ASSUME poll'[r].phase = phase, poll'[r].answer = "SLAVE"
      PROVE  Clean(k)'
  <2>1. CASE poll'[r] = poll[r]
    BY <1>2, <1>3, <2>1 DEF Demoted
  <2>2. CASE poll'[r] # poll[r]
    <3>1. PICK link \in Link :
            /\ HandleRoleReply(link)
            /\ Head(toController[link]).client = r
            /\ Head(toController[link]).phase = phase
            /\ Head(toController[link]).answer = "SLAVE"
      BY <1>3, <2>2, AnswerAfter
    <3>2. toController[link] \in Seq(ReplyMsg) /\ toController[link] # <<>>
      BY <3>1 DEF HandleRoleReply, TypeOK, ChannelTypeOK
    <3>3. link = k
      BY <3>1, <3>2, HeadElement
    <3>. QED
      BY <3>1, <3>3, AnswerIsClean DEF Demoted
  <2>. QED
    BY <2>1, <2>2
<1>. QED
  BY <1>1, <1>2, <1>3 DEF Demoted, orchestratorVars

\* Why nobody else can become master of an unlocked switch, or of one whose transaction
\* has promoted the target, or restored the source.
LEMMA UnlockedRefuses ==
  ASSUME TypeOK, LockExclusion, FencingInvariant,
         NEW s \in Switch \ locked, NEW c \in Controller, c # owner[s]
  PROVE  Refusing(<<c, s>>)
<1>. SUFFICES ASSUME NEW m \in InFlight, m.link = <<c, s>>, m.kind = "MASTER"
              PROVE  Stale(m)
  BY DEF Refusing
<1>1. \A r \in Request : ~Holds(r, s)
  BY DEF LockExclusion
<1>2. Stale(m) \/ Entitled(c, s, m.gen)
  BY DEF FencingInvariant, RoleFencing, Fenced
<1>. QED
  BY <1>1, <1>2 DEF Entitled, EntitledByRegister, EntitledByRequest

LEMMA HeldRefuses ==
  ASSUME TypeOK, LockExclusion, FencingInvariant, NEW r \in Request,
         pc[r] \in Holding, tx[r].source # input[r].target
  PROVE  /\ pc[r] \in Promoted => Refusing(Source(r))
         /\ pc[r] \in Restored => Refusing(Target(r))
<1>1. PICK s \in Switch : s = SwitchOf(r)
  BY LinkFacts
<1>2. /\ tx[r].gen \in Nat /\ tx[r].rollbackGen \in Nat /\ swGen[s] \in Nat
      /\ Holds(r, s) /\ \A q \in Request : Holds(q, s) => q = r
  BY <1>1, OneHolder DEF TypeOK, ChannelTypeOK, Holds
<1>3. ASSUME NEW m \in InFlight, m.kind = "MASTER", m.link[2] = s
      PROVE  m.gen \in Nat /\ (Stale(m) \/ Entitled(m.link[1], s, m.gen))
  BY <1>3, InFlightType DEF FencingInvariant, RoleFencing, Fenced, TypeOK, RequestMsg
<1>4. ASSUME NEW m \in InFlight, m.kind = "MASTER", m.link = Source(r), pc[r] \in Promoted
      PROVE  Stale(m)
  <2>1. tx[r].gen > 0 /\ tx[r].rollbackGen = 0 /\ swGen[s] >= tx[r].gen
    BY <1>1, <1>4 DEF FencingInvariant, DrawnIds, IdsOf, AcceptedIds, Accepted, Promoted,
       Migrating, MigrateRaises, MigrateCalls
  <2>2. m.link[1] = tx[r].source /\ m.link[2] = s
    BY <1>1, <1>4 DEF Source
  <2>3. Entitled(m.link[1], s, m.gen) => m.gen < tx[r].gen
    BY <1>2, <1>3, <1>4, <2>1, <2>2 DEF Entitled, EntitledByRegister, EntitledByRequest
  <2>. QED
    BY <1>2, <1>3, <1>4, <2>1, <2>2, <2>3 DEF Stale
<1>5. ASSUME NEW m \in InFlight, m.kind = "MASTER", m.link = Target(r), pc[r] \in Restored
      PROVE  Stale(m)
  <2>1. tx[r].gen > 0 /\ tx[r].gen < tx[r].rollbackGen /\ swGen[s] >= tx[r].rollbackGen
    BY <1>1, <1>5 DEF FencingInvariant, DrawnIds, IdsOf, AcceptedIds, Accepted, Restored,
       RollingBack, RollbackRaises, RollbackCalls
  <2>2. m.link[1] = input[r].target /\ m.link[2] = s
    BY <1>1, <1>5 DEF Target
  <2>3. Entitled(m.link[1], s, m.gen) => m.gen <= tx[r].gen
    BY <1>2, <1>3, <1>5, <2>1, <2>2 DEF Entitled, EntitledByRegister, EntitledByRequest
  <2>. QED
    BY <1>2, <1>3, <1>5, <2>1, <2>2, <2>3 DEF Stale
<1>. QED
  BY <1>4, <1>5 DEF Refusing

LEMMA ChannelQueries ==
  ASSUME TypeOK, FencingInvariant, QueriesMade, ChannelStep, UNCHANGED orchestratorVars
  PROVE  QueriesMade'
<1>1. \A m : AskedBy(m) => AskedBy(m)'
  BY DEF AskedBy, Source, Target, SwitchOf, orchestratorVars
<1>2. ASSUME NEW m \in InFlight'
      PROVE  AskedBy(m)'
  BY <1>1, ChannelInFlight DEF QueriesMade, TypeOK
<1>3. ASSUME NEW k \in Link, NEW i \in DOMAIN toController'[k]
      PROVE  \E n : toController'[k][i] = n /\ AskedBy(n) /\ n.link = k
  <2>1. toController[k] \in Seq(ReplyMsg)
    BY DEF TypeOK, ChannelTypeOK
  <2>2. CASE toController'[k] = toController[k]
    BY <1>3, <2>2 DEF QueriesMade
  <2>3. CASE toController'[k] = <<>>
    BY <1>3, <2>3
  <2>4. CASE toController[k] # <<>> /\ toController'[k] = Tail(toController[k])
    BY <1>3, <2>1, <2>4, TailElements DEF QueriesMade
  <2>5. ASSUME NEW n \in ReplyMsg, NEW m \in InFlight,
               toController'[k] = Append(toController[k], n),
               n.link = k, m.link = k, n.client = m.client, n.phase = m.phase
        PROVE  \E x : toController'[k][i] = x /\ AskedBy(x) /\ x.link = k
    <3>1. AskedBy(n)
      BY <2>5 DEF QueriesMade, AskedBy
    <3>. QED
      BY <1>3, <2>1, <2>5, <3>1, AppendElements DEF QueriesMade
  <2>. QED
    BY <2>2, <2>3, <2>4, <2>5, RepliesAfter
<1>4. ASSUME NEW k \in Link, NEW i \in DOMAIN toController'[k]
      PROVE  (AskedBy(toController[k][i]) /\ toController[k][i].link = k)'
  <2>1. PICK n : toController'[k][i] = n /\ AskedBy(n) /\ n.link = k
    BY <1>3, <1>4
  <2>2. AskedBy(n)'
    BY <1>1, <2>1
  <2>. QED
    BY <2>1, <2>2 DEF AskedBy, Source, Target, SwitchOf
<1>. QED
  BY <1>2, <1>4 DEF QueriesMade

LEMMA ChannelClean ==
  ASSUME TypeOK, LockExclusion, FencingInvariant, QueriesMade, UnlockedIsClean, OthersDemoted,
         ChannelStep, UNCHANGED orchestratorVars
  PROVE  UnlockedIsClean' /\ OthersDemoted'
<1>1. UnlockedIsClean'
  <2>. SUFFICES ASSUME NEW s \in Switch \ locked, NEW c \in Controller, c # owner[s]
                PROVE  Clean(<<c, s>>)'
    BY DEF UnlockedIsClean, orchestratorVars
  <2>1. <<c, s>> \in Link
    BY DEF Link
  <2>2. Refusing(<<c, s>>) /\ Clean(<<c, s>>)
    BY UnlockedRefuses DEF UnlockedIsClean
  <2>. QED
    BY <2>1, <2>2, CleanKept
<1>2. ASSUME NEW r \in Request, pc[r] \in SourceAsked
      PROVE  Demoted(r, Source(r), "querySource")'
  <2>1. PICK k \in Link : k = Source(r)
    BY LinkFacts
  <2>2. pc[r] \in Holding /\ pc[r] \in Promoted /\ pc[r] \notin {"idle", "rejected"}
    BY <1>2 DEF SourceAsked, Promoted, Holding, Migrating, MigrateRaises, MigrateCalls
  <2>3. Refusing(k) /\ Demoted(r, k, "querySource")
    BY <1>2, <2>1, <2>2, HeldRefuses DEF OthersDemoted, OwnDemoted
  <2>4. \A link \in Link : \A i \in DOMAIN toController[link] :
          toController[link][i].client = r /\ toController[link][i].phase = "querySource" => link = k
    BY <2>1 DEF QueriesMade, AskedBy
  <2>5. Demoted(r, k, "querySource")'
    BY <2>3, <2>4, DemotedKept
  <2>6. Source(r)' = k
    BY <2>1 DEF Source, SwitchOf, orchestratorVars
  <2>. QED
    BY <2>5, <2>6
<1>3. ASSUME NEW r \in Request, pc[r] \in OtherAsked
      PROVE  Demoted(r, Target(r), "queryOther")'
  <2>1. PICK k \in Link : k = Target(r)
    BY LinkFacts
  <2>2. pc[r] \in Holding /\ pc[r] \in Restored /\ pc[r] \notin {"idle", "rejected"}
    BY <1>3 DEF OtherAsked, Restored, Holding, RollingBack, RollbackRaises, RollbackCalls
  <2>3. Refusing(k) /\ Demoted(r, k, "queryOther")
    BY <1>3, <2>1, <2>2, HeldRefuses DEF OthersDemoted, OwnDemoted
  <2>4. \A link \in Link : \A i \in DOMAIN toController[link] :
          toController[link][i].client = r /\ toController[link][i].phase = "queryOther" => link = k
    BY <2>1 DEF QueriesMade, AskedBy
  <2>5. Demoted(r, k, "queryOther")'
    BY <2>3, <2>4, DemotedKept
  <2>6. Target(r)' = k
    BY <2>1 DEF Target, SwitchOf, orchestratorVars
  <2>. QED
    BY <2>5, <2>6
<1>4. pc' = pc /\ tx' = tx /\ input' = input
  BY DEF orchestratorVars
<1>. QED
  BY <1>1, <1>2, <1>3, <1>4 DEF OthersDemoted, OwnDemoted

-----------------------------------------------------------------------------
(* What a thread does to the queries.                                      *)

\* A thread posts the call it goes on to wait for, and goes only forward.
LEMMA ThreadPosts ==
  ASSUME TypeOK, NEW r \in Request, ReadOwner(r) \/ Proceed(r)
  PROVE  /\ \A m \in InFlight' :
              \/ m \in InFlight
              \/ /\ m.client = r /\ m.phase = pc'[r]
                 /\ m.phase = "querySource" => m.link = Source(r)
                 /\ m.phase = "queryOther" => m.link = Target(r)
         /\ \A q \in Request \ {r} : tx'[q] = tx[q] /\ poll'[q] = poll[q]
         /\ IF pc[r] = "idle" THEN pc'[r] \in {"read", "rejected"}
                              ELSE tx'[r].source = tx[r].source
         /\ pc[r] \in BehindSource => pc'[r] \in BehindSource
         /\ pc[r] \in BehindOther => pc'[r] \in BehindOther
<1>. DEFINE Calls ==
              \A m \in InFlight' :
                \/ m \in InFlight
                \/ /\ m.client = r /\ m.phase = pc'[r]
                   /\ m.phase = "querySource" => m.link = Source(r)
                   /\ m.phase = "queryOther" => m.link = Target(r)
            Rest ==
              /\ \A q \in Request \ {r} : tx'[q] = tx[q] /\ poll'[q] = poll[q]
              /\ IF pc[r] = "idle" THEN pc'[r] \in {"read", "rejected"}
                              ELSE tx'[r].source = tx[r].source
              /\ pc[r] \in BehindSource => pc'[r] \in BehindSource
              /\ pc[r] \in BehindOther => pc'[r] \in BehindOther
<1>. USE DEF BehindSource, BehindOther, SourceAsked, OtherAsked, RollingBack, RollbackRaises,
             RollbackCalls, MigrateRaises, MigrateCalls
<1>1. /\ pc \in [Request -> ProgramPoints] /\ ChannelTypeOK
      /\ tx \in [Request -> [source : Controller, gen : Nat, rollbackGen : Nat, ok : BOOLEAN]]
      /\ poll \in [Client -> [phase : Phase \cup {"none"}, link : Link \cup {<<>>},
                              answer : Answers]]
      /\ Request \subseteq Client
  BY RequestAssumption DEF TypeOK, ChannelTypeOK
<1>2. ASSUME UNCHANGED <<posts, toSwitch>>
      PROVE  Calls
  BY <1>2 DEF InFlight
<1>3. ASSUME NEW phase, NEW link, NEW kind, NEW gen, Post(r, phase, link, kind, gen),
             pc' = [pc EXCEPT ![r] = phase],
             phase = "querySource" => link = Source(r),
             phase = "queryOther" => link = Target(r)
      PROVE  Calls /\ pc'[r] = phase /\ \A q \in Request \ {r} : poll'[q] = poll[q]
  <2>1. pc'[r] = phase
    BY <1>1, <1>3
  <2>2. \A q \in Request \ {r} : poll'[q] = poll[q]
    BY <1>1, <1>3 DEF Post
  <2>. QED
    BY <1>1, <1>3, <2>1, <2>2, PostInFlight
<1>4. CASE ReadOwner(r) \/ Create(r) \/ Commit(r) \/ MarkRestored(r) \/ Finish(r)
           \/ TrafficVerified(r)
  <2>1. Rest
    BY <1>1, <1>4 DEF ReadOwner, Create, Commit, MarkRestored, SetOwner, Finish,
       TrafficVerified, Goto, channelVars
  <2>. QED
    BY <1>2, <1>4, <2>1 DEF ReadOwner, Create, Commit, MarkRestored, SetOwner, Finish,
       TrafficVerified, channelVars
<1>5. CASE GiveUp(r)
  <2>1. Rest
    BY <1>1, <1>5 DEF GiveUp, Goto
  <2>. QED
    BY <1>2, <1>5, <2>1 DEF GiveUp
<1>6. CASE \/ TargetQueried(r) \/ OtherQueried(r)
           \/ SourceConnectivity(r) \/ TargetConnectivity(r)
           \/ RestoredConnectivity(r) \/ OtherConnectivity(r)
  <2>1. Rest
    BY <1>1, <1>6 DEF TargetQueried, OtherQueried, SourceConnectivity, TargetConnectivity,
       RestoredConnectivity, OtherConnectivity, CheckConnected, Check, Goto, channelVars
  <2>. QED
    BY <1>2, <1>6, <2>1 DEF TargetQueried, OtherQueried, SourceConnectivity,
       TargetConnectivity, RestoredConnectivity, OtherConnectivity, CheckConnected, channelVars
<1>7. CASE \/ PromoteReplied(r) \/ PromoteFenced(r) \/ RestoreReplied(r) \/ RestoreFenced(r)
           \/ SourceQueried(r) \/ RestoredQueried(r)
  <2>1. PICK at, answers, next, link, kind :
          /\ NextCall(r, at, answers, next, link, kind)
          /\ next = "querySource" => link = Source(r)
          /\ next = "queryOther" => link = Target(r)
          /\ at \in BehindSource => next \in BehindSource
          /\ at \in BehindOther => next \in BehindOther
          /\ at # "idle"
    BY <1>7 DEF PromoteReplied, PromoteFenced, RestoreReplied, RestoreFenced, SourceQueried,
       RestoredQueried
  <2>2. /\ \A q \in Request \ {r} : tx'[q] = tx[q]
        /\ tx'[r].source = tx[r].source
    BY <1>1, <1>7 DEF PromoteReplied, PromoteFenced, RestoreReplied, RestoreFenced,
       SourceQueried, RestoredQueried, Check
  <2>3. Calls /\ pc'[r] = next /\ \A q \in Request \ {r} : poll'[q] = poll[q]
    BY <1>3, <2>1 DEF NextCall, Goto
  <2>4. pc[r] = at
    BY <2>1 DEF NextCall
  <2>. QED
    BY <2>1, <2>2, <2>3, <2>4
<1>8. CASE Promote(r)
  <2>1. Calls /\ pc'[r] = "promote" /\ \A q \in Request \ {r} : poll'[q] = poll[q]
    BY <1>3, <1>8 DEF Promote, Goto
  <2>. QED
    BY <1>1, <1>8, <2>1 DEF Promote
<1>9. CASE RollBack(r)
  <2>1. Calls /\ pc'[r] = "restore" /\ \A q \in Request \ {r} : poll'[q] = poll[q]
    BY <1>3, <1>9 DEF RollBack, Goto
  <2>. QED
    BY <1>1, <1>9, <2>1 DEF RollBack
<1>. QED
  BY <1>4, <1>5, <1>6, <1>7, <1>8, <1>9 DEF Proceed

LEMMA HandlerQueries ==
  ASSUME TypeOK, FencingInvariant, QueriesMade, NEW r \in Request, ReadOwner(r) \/ Proceed(r)
  PROVE  QueriesMade'
<1>1. /\ UNCHANGED <<input, toController>>
      /\ \A q \in Request \ {r} : pc'[q] = pc[q]
  BY HoldStep, HandlerChannel
<1>2. ASSUME NEW m, m.client = r, AskedBy(m)
      PROVE  AskedBy(m)'
  <2>1. "idle" \notin BehindSource /\ "idle" \notin BehindOther
    BY DEF BehindSource, BehindOther, SourceAsked, OtherAsked, RollingBack, RollbackRaises,
       RollbackCalls
  <2>. QED
    BY <1>1, <1>2, <2>1, ThreadPosts DEF AskedBy, Source, Target, SwitchOf
<1>3. ASSUME NEW m, m.client \in Request \ {r}, AskedBy(m)
      PROVE  AskedBy(m)'
  BY <1>1, <1>3, ThreadPosts DEF AskedBy, Source, Target, SwitchOf
<1>4. ASSUME NEW m \in InFlight'
      PROVE  AskedBy(m)'
  <2>1. CASE m \in InFlight
    <3>1. m.client \in Request /\ AskedBy(m)
      BY <2>1 DEF FencingInvariant, RequestsInFlight, ByHandler, QueriesMade
    <3>. QED
      BY <1>2, <1>3, <3>1
  <2>2. CASE /\ m.client = r /\ m.phase = pc'[r]
             /\ m.phase = "querySource" => m.link = Source(r)
             /\ m.phase = "queryOther" => m.link = Target(r)
    <3>1. /\ "querySource" \in BehindSource /\ "queryOther" \in BehindOther
          /\ {"querySource", "queryOther"} \cap {"read", "rejected"} = {}
      BY DEF BehindSource, BehindOther, SourceAsked, OtherAsked
    <3>2. tx'[r].source = tx[r].source \/ m.phase \notin {"querySource", "queryOther"}
      BY <2>2, <3>1, ThreadPosts
    <3>. QED
      BY <1>1, <2>2, <3>1, <3>2 DEF AskedBy, Source, Target, SwitchOf
  <2>. QED
    BY <1>4, <2>1, <2>2, ThreadPosts
<1>5. ASSUME NEW k \in Link, NEW i \in DOMAIN toController[k]
      PROVE  /\ toController[k][i].client \in Request
             /\ AskedBy(toController[k][i]) /\ toController[k][i].link = k
  BY <1>5 DEF FencingInvariant, RepliesProveIds, ReplyProvesId, Returning, QueriesMade
<1>6. ASSUME NEW k \in Link, NEW i \in DOMAIN toController'[k]
      PROVE  (AskedBy(toController[k][i]) /\ toController[k][i].link = k)'
  <2>1. PICK n : n = toController[k][i]
    OBVIOUS
  <2>2. n.client \in Request /\ AskedBy(n) /\ n.link = k
    BY <1>1, <1>5, <1>6, <2>1
  <2>3. AskedBy(n)' /\ toController'[k][i] = n
    BY <1>1, <1>2, <1>3, <2>1, <2>2
  <2>. QED
    BY <2>2, <2>3 DEF AskedBy, Source, Target, SwitchOf
<1>. QED
  BY <1>4, <1>6 DEF QueriesMade

\* The evidence of a thread is touched by no other.
LEMMA CleanSame ==
  ASSUME UNCHANGED <<toController, swRole, cachedRole>>, NEW k, Clean(k)
  PROVE  Clean(k)'
BY DEF Clean

LEMMA LastWordSame ==
  ASSUME UNCHANGED <<toController, swRole, cachedRole>>, NEW r, NEW k, NEW phase,
         LastWord(r, k, phase)
  PROVE  LastWord(r, k, phase)'
BY DEF LastWord

\* Before its query nobody has answered it.
LEMMA NotYetAnswered ==
  ASSUME QueriesMade, NEW r \in Request, NEW k \in Link
  PROVE  /\ pc[r] \notin BehindSource => LastWord(r, k, "querySource")
         /\ pc[r] \notin BehindOther => LastWord(r, k, "queryOther")
BY DEF QueriesMade, AskedBy, LastWord

\* What the verification of the thread itself may conclude.
LEMMA OwnEvidence ==
  ASSUME TypeOK, QueriesMade, OthersDemoted, NEW r \in Request, ReadOwner(r) \/ Proceed(r)
  PROVE  /\ pc'[r] \in SourceAsked => Demoted(r, Source(r), "querySource")'
         /\ pc'[r] \in OtherAsked => Demoted(r, Target(r), "queryOther")'
         /\ pc'[r] \in {"commit", "finishCommit", "finishRestore"} => tx'[r].ok
<1>. USE DEF SourceAsked, OtherAsked
<1>0. /\ UNCHANGED <<input, toController, swRole, cachedRole>>
      /\ pc \in [Request -> ProgramPoints] /\ Request \subseteq Client
      /\ tx \in [Request -> [source : Controller, gen : Nat, rollbackGen : Nat, ok : BOOLEAN]]
      /\ poll \in [Client -> [phase : Phase \cup {"none"}, link : Link \cup {<<>>},
                              answer : Answers]]
      /\ Source(r) \in Link /\ Target(r) \in Link /\ Target(r)' = Target(r)
  BY HoldStep, HandlerChannel, RequestAssumption, LinkFacts
     DEF TypeOK, ChannelTypeOK, Target, SwitchOf
<1>1. pc[r] # "idle" => Source(r)' = Source(r)
  BY <1>0, ThreadPosts DEF Source, SwitchOf
<1>2. CASE pc'[r] \notin SourceAsked \cup OtherAsked
  BY <1>2
<1>3. ASSUME NEW k \in Link, NEW phase \in {"querySource", "queryOther"},
             LastWord(r, k, phase), pc'[r] = phase, poll'[r].answer = "PENDING"
      PROVE  Demoted(r, k, phase)'
  BY <1>0, <1>3, LastWordSame DEF Demoted
<1>4. ASSUME NEW k \in Link, NEW phase \in {"querySource", "queryOther"},
             Demoted(r, k, phase), pc'[r] # phase,
             poll'[r] = poll[r] \/ poll'[r].phase # phase,
             \/ pc[r] # phase /\ (tx'[r].ok => tx[r].ok)
             \/ /\ poll[r].phase = phase
                /\ tx'[r].ok => poll[r].answer = "SLAVE"
      PROVE  Demoted(r, k, phase)'
  BY <1>0, <1>4, CleanSame, LastWordSame DEF Demoted
<1>5. CASE PromoteFenced(r)
  <2>1. /\ pc[r] = "promoteBarrier" /\ pc'[r] = "querySource"
        /\ poll'[r].answer = "PENDING"
    BY <1>0, <1>5 DEF PromoteFenced, NextCall, Goto, Post
  <2>2. pc[r] \notin BehindSource
    BY <2>1 DEF BehindSource, RollingBack, RollbackRaises, RollbackCalls
  <2>3. PICK k \in Link : k = Source(r)
    BY <1>0
  <2>4. Demoted(r, k, "querySource")'
    BY <1>3, <2>1, <2>2, NotYetAnswered
  <2>. QED
    BY <1>1, <2>1, <2>3, <2>4
<1>6. CASE RestoredQueried(r)
  <2>1. /\ pc[r] = "queryRestored" /\ pc'[r] = "queryOther"
        /\ poll'[r].answer = "PENDING"
    BY <1>0, <1>6 DEF RestoredQueried, NextCall, Goto, Post
  <2>2. pc[r] \notin BehindOther
    BY <2>1 DEF BehindOther
  <2>3. PICK k \in Link : k = Target(r)
    BY <1>0
  <2>4. Demoted(r, k, "queryOther")'
    BY <1>3, <2>1, <2>2, NotYetAnswered
  <2>. QED
    BY <1>0, <2>1, <2>3, <2>4
<1>7. CASE \/ SourceQueried(r) \/ TargetQueried(r) \/ SourceConnectivity(r)
           \/ TargetConnectivity(r) \/ TrafficVerified(r) \/ Commit(r)
  <2>1. PICK k \in Link : k = Source(r)
    BY <1>0
  <2>2. /\ pc[r] \in SourceAsked \ {"finishCommit"} /\ pc'[r] \in SourceAsked \ {"querySource"}
        /\ poll'[r] = poll[r] \/ poll'[r].phase = "queryTarget"
    BY <1>0, <1>7 DEF SourceQueried, NextCall, Post, TargetQueried, SourceConnectivity,
       TargetConnectivity, CheckConnected, TrafficVerified, Commit, SetOwner, Goto, channelVars
  <2>3. \/ pc[r] # "querySource" /\ (tx'[r].ok => tx[r].ok)
        \/ /\ poll[r].phase = "querySource"
           /\ tx'[r].ok => poll[r].answer = "SLAVE"
    <3>1. CASE SourceQueried(r)
      BY <1>0, <3>1 DEF SourceQueried, NextCall, Reads, Check
    <3>2. CASE \/ TargetQueried(r) \/ SourceConnectivity(r) \/ TargetConnectivity(r)
               \/ TrafficVerified(r) \/ Commit(r)
      BY <1>0, <3>2 DEF TargetQueried, SourceConnectivity, TargetConnectivity,
         CheckConnected, Check, TrafficVerified, Commit, SetOwner
    <3>. QED
      BY <1>7, <3>1, <3>2
  <2>4. Demoted(r, k, "querySource")
    BY <2>1, <2>2 DEF OthersDemoted, OwnDemoted
  <2>5. Demoted(r, k, "querySource")'
    BY <1>4, <2>2, <2>3, <2>4
  <2>6. pc'[r] \in {"commit", "finishCommit"} => tx'[r].ok
    BY <1>0, <1>7 DEF OthersDemoted, OwnDemoted, SourceQueried, NextCall, TargetQueried,
       SourceConnectivity, TargetConnectivity, CheckConnected, TrafficVerified, Commit,
       SetOwner, Goto
  <2>. QED
    BY <1>1, <2>1, <2>2, <2>5, <2>6
<1>8. CASE \/ OtherQueried(r) \/ RestoredConnectivity(r) \/ OtherConnectivity(r)
           \/ MarkRestored(r)
  <2>1. PICK k \in Link : k = Target(r)
    BY <1>0
  <2>2. /\ pc[r] \in OtherAsked \ {"finishRestore"} /\ pc'[r] \in OtherAsked \ {"queryOther"}
        /\ poll'[r] = poll[r]
    BY <1>0, <1>8 DEF OtherQueried, RestoredConnectivity, OtherConnectivity, CheckConnected,
       MarkRestored, SetOwner, Goto, channelVars
  <2>3. \/ pc[r] # "queryOther" /\ (tx'[r].ok => tx[r].ok)
        \/ /\ poll[r].phase = "queryOther"
           /\ tx'[r].ok => poll[r].answer = "SLAVE"
    <3>1. CASE OtherQueried(r)
      BY <1>0, <3>1 DEF OtherQueried, Reads, Check
    <3>2. CASE RestoredConnectivity(r) \/ OtherConnectivity(r) \/ MarkRestored(r)
      BY <1>0, <3>2 DEF RestoredConnectivity, OtherConnectivity, CheckConnected, Check,
         MarkRestored, SetOwner
    <3>. QED
      BY <1>8, <3>1, <3>2
  <2>4. Demoted(r, k, "queryOther")
    BY <2>1, <2>2 DEF OthersDemoted, OwnDemoted
  <2>5. Demoted(r, k, "queryOther")'
    BY <1>4, <2>2, <2>3, <2>4
  <2>6. pc'[r] = "finishRestore" => tx'[r].ok
    BY <1>0, <1>8 DEF OtherQueried, RestoredConnectivity, OtherConnectivity, CheckConnected,
       MarkRestored, SetOwner, Goto
  <2>. QED
    BY <1>0, <2>1, <2>2, <2>5, <2>6
<1>9. CASE \/ ReadOwner(r) \/ Create(r) \/ Promote(r) \/ PromoteReplied(r) \/ Finish(r)
           \/ RollBack(r) \/ RestoreReplied(r) \/ RestoreFenced(r) \/ GiveUp(r)
  <2>1. pc'[r] \notin SourceAsked \cup OtherAsked
    BY <1>0, <1>9 DEF ReadOwner, Create, Promote, PromoteReplied, Finish, RollBack,
       RestoreReplied, RestoreFenced, GiveUp, NextCall, Goto
  <2>. QED
    BY <1>2, <2>1
<1>. QED
  BY <1>5, <1>6, <1>7, <1>8, <1>9 DEF Proceed

-----------------------------------------------------------------------------
(* What a thread leaves behind.                                            *)

\* The switch a thread lets go of is owned by one controller it has verified, and
\* the other one is the one it has seen demoted.
LEMMA FinishLeavesClean ==
  ASSUME TypeOK, FencingInvariant, OthersDemoted, AtMostTwoControllers,
         NEW r \in Request, Finish(r), NEW c \in Controller, c # owner[SwitchOf(r)]
  PROVE  Clean(<<c, SwitchOf(r)>>)
<1>1. input[r].target \in Controller /\ tx[r].source \in Controller
  BY DEF TypeOK
<1>2. CASE pc[r] = "finishCommit"
  <2>1. /\ owner[SwitchOf(r)] = input[r].target /\ tx[r].source # input[r].target
        /\ Clean(Source(r))
    BY <1>2 DEF FencingInvariant, Settled, OthersDemoted, OwnDemoted, SourceAsked, Demoted
  <2>2. c = tx[r].source
    BY <1>1, <2>1 DEF AtMostTwoControllers
  <2>. QED
    BY <2>1, <2>2 DEF Source
<1>3. CASE pc[r] = "finishRestore"
  <2>1. /\ owner[SwitchOf(r)] = tx[r].source /\ tx[r].source # input[r].target
        /\ Clean(Target(r))
    BY <1>3 DEF FencingInvariant, Settled, OthersDemoted, OwnDemoted, OtherAsked, Demoted
  <2>2. c = input[r].target
    BY <1>1, <2>1 DEF AtMostTwoControllers
  <2>. QED
    BY <2>1, <2>2 DEF Target
<1>. QED
  BY <1>2, <1>3 DEF Finish

\* Only Finish unlocks, and only the holder of a switch names another owner.
LEMMA UnlockedAfter ==
  ASSUME TypeOK, LockExclusion, NEW r \in Request, ReadOwner(r) \/ Proceed(r),
         NEW s \in Switch \ locked'
  PROVE  /\ owner'[s] = owner[s]
         /\ s \notin locked \/ (Finish(r) /\ s = SwitchOf(r))
<1>. USE DEF Holding, Migrating, RollingBack, MigrateRaises, RollbackRaises, MigrateCalls,
             RollbackCalls
<1>1. CASE Commit(r) \/ MarkRestored(r)
  <2>1. pc[r] \in Holding /\ locked' = locked /\ SwitchOf(r) \in Switch
    BY <1>1, LinkFacts DEF Commit, MarkRestored, SetOwner
  <2>2. SwitchOf(r) \in locked
    BY <2>1 DEF LockExclusion, Holds
  <2>3. s # SwitchOf(r) /\ s \notin locked
    BY <2>1, <2>2
  <2>. QED
    BY <1>1, <2>3 DEF TypeOK, Commit, MarkRestored, SetOwner
<1>2. CASE Finish(r)
  BY <1>2 DEF Finish
<1>3. CASE Create(r)
  BY <1>3 DEF Create
<1>4. CASE ReadOwner(r) \/ (Proceed(r) /\ ~Commit(r) /\ ~MarkRestored(r) /\ ~Finish(r)
                             /\ ~Create(r))
  BY <1>4 DEF ReadOwner, Proceed, Promote, PromoteReplied, PromoteFenced, SourceQueried,
     TargetQueried, SourceConnectivity, TargetConnectivity, CheckConnected, TrafficVerified,
     RollBack, RestoreReplied, RestoreFenced, RestoredQueried, OtherQueried,
     RestoredConnectivity, OtherConnectivity, GiveUp, NextCall
<1>. QED
  BY <1>1, <1>2, <1>3, <1>4

\* A request whose source is its target is rejected at once.
LEMMA SourceIsNotTarget ==
  ASSUME TypeOK, OthersDemoted, NEW r \in Request, ReadOwner(r) \/ Proceed(r),
         pc'[r] \notin {"idle", "rejected"}
  PROVE  tx'[r].source # input'[r].target
<1>1. input' = input /\ pc \in [Request -> ProgramPoints]
      /\ tx \in [Request -> [source : Controller, gen : Nat, rollbackGen : Nat, ok : BOOLEAN]]
  BY HoldStep DEF TypeOK
<1>2. CASE ReadOwner(r)
  BY <1>1, <1>2 DEF ReadOwner, Goto
<1>3. CASE Proceed(r)
  <2>1. pc[r] \notin {"idle", "rejected"}
    BY <1>1, <1>3 DEF Proceed, Create, Promote, PromoteReplied, PromoteFenced, SourceQueried,
       TargetQueried, SourceConnectivity, TargetConnectivity, CheckConnected,
       TrafficVerified, Commit, Finish, RollBack, RestoreReplied, RestoreFenced,
       RestoredQueried, OtherQueried, RestoredConnectivity, OtherConnectivity, MarkRestored,
       GiveUp, NextCall, MigrateRaises, MigrateCalls, RollbackRaises, RollbackCalls
  <2>. QED
    BY <1>1, <2>1, ThreadPosts DEF OthersDemoted, OwnDemoted
<1>. QED
  BY <1>2, <1>3

\* A thread that does not move keeps its evidence as long as the channel does.
LEMMA EvidenceSame ==
  ASSUME UNCHANGED <<toController, swRole, cachedRole, input>>, NEW q,
         pc'[q] = pc[q], tx'[q] = tx[q], poll'[q] = poll[q], OwnDemoted(q)
  PROVE  OwnDemoted(q)'
<1>1. Source(q)' = Source(q) /\ Target(q)' = Target(q)
  BY DEF Source, Target, SwitchOf
<1>2. ASSUME NEW k, NEW phase, Demoted(q, k, phase)
      PROVE  Demoted(q, k, phase)'
  BY <1>2, CleanSame, LastWordSame DEF Demoted
<1>3. PICK src, dst : src = Source(q) /\ dst = Target(q)
  OBVIOUS
<1>4. /\ pc[q] \in SourceAsked => Demoted(q, src, "querySource")'
      /\ pc[q] \in OtherAsked => Demoted(q, dst, "queryOther")'
  BY <1>2, <1>3 DEF OwnDemoted
<1>. QED
  BY <1>1, <1>3, <1>4 DEF OwnDemoted

LEMMA HandlerClean ==
  ASSUME TypeOK, LockExclusion, FencingInvariant, AtMostTwoControllers, QueriesMade,
         UnlockedIsClean, OthersDemoted, NEW r \in Request, ReadOwner(r) \/ Proceed(r)
  PROVE  UnlockedIsClean' /\ OthersDemoted'
<1>1. /\ UNCHANGED <<toController, swRole, cachedRole, input>>
      /\ \A q \in Request \ {r} : pc'[q] = pc[q] /\ tx'[q] = tx[q] /\ poll'[q] = poll[q]
  BY HoldStep, HandlerChannel, ThreadPosts
<1>2. UnlockedIsClean'
  <2>. SUFFICES ASSUME NEW s \in Switch \ locked', NEW c \in Controller, c # owner'[s]
                PROVE  Clean(<<c, s>>)'
    BY DEF UnlockedIsClean
  <2>1. c # owner[s] /\ (s \notin locked \/ (Finish(r) /\ s = SwitchOf(r)))
    BY UnlockedAfter
  <2>2. Clean(<<c, s>>)
    BY <2>1, FinishLeavesClean DEF UnlockedIsClean
  <2>. QED
    BY <1>1, <2>2, CleanSame
<1>3. \A q \in Request \ {r} : OwnDemoted(q)'
  BY <1>1, EvidenceSame DEF OthersDemoted, OwnDemoted
<1>4. OthersDemoted'
  BY <1>3, OwnEvidence, SourceIsNotTarget DEF OthersDemoted, OwnDemoted
<1>. QED
  BY <1>2, <1>4

-----------------------------------------------------------------------------
\* With the two controllers of the deployment every step keeps the invariant.
LEMMA SettledStep ==
  ASSUME AtMostTwoControllers, TypeOK, LockExclusion, FencingInvariant, SettledInvariant,
         IdInvariant', [Next]_vars
  PROVE  SettledInvariant'
<1>. USE DEF SettledInvariant, IdInvariant
<1>1. ASSUME ChannelStep, UNCHANGED orchestratorVars
      PROVE  SettledInvariant'
  BY <1>1, ChannelClean, ChannelQueries
<1>2. ASSUME NEW r \in Request, ReadOwner(r) \/ Proceed(r)
      PROVE  SettledInvariant'
  BY <1>2, HandlerClean, HandlerQueries
<1>3. CASE UNCHANGED vars
  <2>1. UnlockedIsClean'
    BY <1>3 DEF vars, channelVars, orchestratorVars, UnlockedIsClean, Clean
  <2>2. QueriesMade'
    BY <1>3 DEF vars, channelVars, orchestratorVars, QueriesMade, InFlight, AskedBy, Source,
       Target, SwitchOf
  <2>3. OthersDemoted'
    <3>1. ASSUME NEW q \in Request
          PROVE  OwnDemoted(q)'
      BY <1>3, EvidenceSame DEF vars, channelVars, orchestratorVars, OthersDemoted, OwnDemoted
    <3>. QED
      BY <3>1 DEF OthersDemoted, OwnDemoted
  <2>. QED
    BY <2>1, <2>2, <2>3
<1>. QED
  BY <1>1, <1>2, <1>3 DEF Next

(* Verification leaves no second controller that is master, believes to be *)
(* or will be told so: what is on its way when the switch is let go        *)
(* included.                                                               *)
THEOREM SettledInvariantHolds ==
  ASSUME AtMostTwoControllers
  PROVE  Spec => []SettledInvariant
<1>1. Init => UnlockedIsClean /\ QueriesMade /\ OthersDemoted
  <2>. SUFFICES ASSUME Init PROVE UnlockedIsClean /\ QueriesMade /\ OthersDemoted
    OBVIOUS
  <2>1. PICK started \in SUBSET Switch : ChannelInit(InitialOwner, started)
    BY DEF Init
  <2>2. /\ InFlight = {} /\ \A k \in Link : toController[k] = <<>>
        /\ \A c \in Controller, s \in Switch :
             c # InitialOwner[s] => swRole[<<c, s>>] # "MASTER" /\ cachedRole[<<c, s>>] # "MASTER"
    BY <2>1 DEF ChannelInit, InFlight, Link
  <2>3. owner = InitialOwner /\ \A r \in Request : pc[r] = "idle"
    BY DEF Init
  <2>4. QueriesMade
    BY <2>2 DEF QueriesMade
  <2>5. OthersDemoted
    BY <2>3 DEF OthersDemoted, OwnDemoted, SourceAsked, OtherAsked
  <2>6. \A c \in Controller, s \in Switch : <<c, s>> \in Link
    BY DEF Link
  <2>7. UnlockedIsClean
    BY <2>2, <2>3, <2>6 DEF UnlockedIsClean, Clean
  <2>. QED
    BY <2>4, <2>5, <2>7
<1>2. IdInvariant /\ UnlockedIsClean /\ QueriesMade /\ OthersDemoted <=> SettledInvariant
  BY DEF IdInvariant, SettledInvariant
<1>3. TypeOK /\ LockExclusion /\ FencingInvariant /\ SettledInvariant /\ IdInvariant'
        /\ [Next]_vars => SettledInvariant'
  BY SettledStep
<1>. QED
  BY <1>1, <1>2, <1>3, TypeCorrect, LockExclusionHolds, FencingHolds, IdInvariantHolds, PTL
     DEF Spec

(* However many controllers there are, an unlocked switch has its owner as *)
(* master while no connection was lost, and the id recorded with the owner *)
(* is the one the switch accepted last.                                    *)
THEOREM OwnerIsRecorded == Spec => [](OwnerIsMaster /\ RecordedGeneration)
<1>1. IdInvariant /\ NoForeignMaster => OwnerIsMaster /\ RecordedGeneration
  BY DEF IdInvariant, HasMaster, Recorded, NoForeignMaster, OwnerIsMaster
<1>. QED
  BY <1>1, IdInvariantHolds, NoForeignMasterHolds, PTL

(* A transaction that lets go of its switch leaves it settled: the owner   *)
(* is master, nobody else believes to be, the recorded id is the switch's. *)
THEOREM UnlockedIsSettled ==
  ASSUME AtMostTwoControllers
  PROVE  Spec => []UnlockedSwitchIsSettled
<1>1. TypeOK /\ SettledInvariant => SingleCachedMaster
  BY DEF SettledInvariant, UnlockedIsClean, Clean, SingleCachedMaster
<1>2. OwnerIsMaster /\ RecordedGeneration /\ SingleCachedMaster <=> UnlockedSwitchIsSettled
  BY DEF UnlockedSwitchIsSettled
<1>. QED
  BY <1>1, <1>2, TypeCorrect, SettledInvariantHolds, OwnerIsRecorded, PTL

-----------------------------------------------------------------------------
(* Init-roles and restarts: types.                                         *)

LEMMA InitCallFacts ==
  /\ InitRun \subseteq Client \ Request
  /\ "initRole" \in Phase /\ "initBarrier" \in Phase
  /\ "initRole" \notin MigrateCalls \cup RollbackCalls
BY InitRunAssumption, InitCallsAssumption DEF InitCalls, MigrateCalls, RollbackCalls

LEMMA RequestRoleType ==
  ASSUME InitRolesTypeOK, NEW i \in InitRun, NEW link \in Link, RequestRole(i, link)
  PROVE  InitRolesTypeOK'
<1>1. ChannelTypeOK /\ lastId \in Nat /\ i \in Client /\ "initRole" \in Phase
      /\ RoleFor(link) \in Kinds
  BY InitCallFacts DEF InitRolesTypeOK, TypeOK, RoleFor, Kinds
<1>2. ChannelTypeOK'
  BY <1>1, PostType DEF RequestRole
<1>. QED
  BY <1>1, <1>2 DEF RequestRole, InitRolesTypeOK, TypeOK, InitCalls

LEMMA RoleGivenType ==
  ASSUME InitRolesTypeOK, NEW i \in InitRun, RoleGiven(i), poll[i].link \in Link
  PROVE  InitRolesTypeOK'
<1>1. ChannelTypeOK /\ i \in Client /\ "initBarrier" \in Phase /\ "BARRIER" \in Kinds
  BY InitCallFacts DEF InitRolesTypeOK, TypeOK, Kinds
<1>2. ChannelTypeOK'
  BY <1>1, PostType DEF RoleGiven
<1>. QED
  BY <1>1, <1>2 DEF RoleGiven, InitRolesTypeOK, TypeOK, InitCalls, orchestratorVars

LEMMA RestartType ==
  ASSUME InitRolesTypeOK, Restart
  PROVE  InitRolesTypeOK'
<1>1. ChannelTypeOK'
  BY DEF InitRolesTypeOK, TypeOK, ChannelTypeOK, Restart, ForgetThreads, NoPoll, Answers
<1>2. pc' \in [Request -> ProgramPoints]
  BY DEF InitRolesTypeOK, TypeOK, Restart, ForgetThreads, ProgramPoints, Finished
<1>3. ipc' \in [InitRun -> {"idle", "initialized", "failed"} \cup InitCalls]
  BY DEF Restart, ForgetThreads
<1>. QED
  BY <1>1, <1>2, <1>3, OwnerAssumption
     DEF InitRolesTypeOK, TypeOK, Restart, ForgetOwnership

-----------------------------------------------------------------------------
(* Init-roles and restarts: the channel.                                   *)

\* What a switch takes from its channel was asked for.
LEMMA TakenMessage ==
  ASSUME ChannelTypeOK, MessagesOnTheWay, NEW link \in Link, Arrived(link),
         NEW m, m = Head(toSwitch[link])
  PROVE  m \in InFlight /\ m \in RequestMsg /\ m.link = link /\ AsksFor(m)
<1>1. toSwitch[link] \in Seq(RequestMsg) /\ toSwitch[link] # <<>>
  BY DEF Arrived, ChannelTypeOK
<1>2. 1 \in DOMAIN toSwitch[link] /\ m = toSwitch[link][1]
  BY <1>1, HeadElement
<1>. QED
  BY <1>2, InFlightIs, InFlightType DEF MessagesOnTheWay, Addressed

\* A reply was there before, or is the switch's to what it has just taken.
LEMMA ReplySource ==
  ASSUME ChannelTypeOK, MessagesOnTheWay, ChannelStep,
         NEW k \in Link, NEW p \in DOMAIN toController'[k]
  PROVE  \/ \E q \in DOMAIN toController[k] : toController'[k][p] = toController[k][q]
         \/ \E m \in InFlight :
              /\ m = Head(toSwitch[k]) /\ Arrived(k)
              /\ toController'[k][p].link = k
              /\ toController'[k][p].client = m.client
              /\ toController'[k][p].phase = m.phase
              /\ SwitchChangesRole(k) \/ m.kind \in {"NOCHANGE", "BARRIER"}
<1>. DEFINE Old == \E q \in DOMAIN toController[k] : toController'[k][p] = toController[k][q]
            New == \E m \in InFlight :
              /\ m = Head(toSwitch[k]) /\ Arrived(k)
              /\ toController'[k][p].link = k
              /\ toController'[k][p].client = m.client
              /\ toController'[k][p].phase = m.phase
              /\ SwitchChangesRole(k) \/ m.kind \in {"NOCHANGE", "BARRIER"}
<1>0. toController[k] \in Seq(ReplyMsg)
  BY DEF ChannelTypeOK
<1>1. ASSUME NEW link \in Link, Arrived(link), NEW answer \in Roles \cup {"FENCED"},
             Reply(link, answer),
             \/ SwitchChangesRole(link)
             \/ Head(toSwitch[link]).kind \in {"NOCHANGE", "BARRIER"}
      PROVE  Old \/ New
  <2>1. PICK m : m = Head(toSwitch[link])
    OBVIOUS
  <2>2. m \in InFlight /\ m \in RequestMsg /\ m.link = link
    BY <1>1, <2>1, TakenMessage
  <2>3. PICK n : n = [link |-> link, client |-> m.client, phase |-> m.phase,
                      answer |-> answer]
    OBVIOUS
  <2>4. n \in ReplyMsg
    BY <1>1, <2>2, <2>3 DEF RequestMsg, ReplyMsg
  <2>5. toController' = [toController EXCEPT ![link] = Append(@, n)]
    BY <1>1, <2>1, <2>3 DEF Reply
  <2>6. CASE k = link
    <3>1. toController'[k] = Append(toController[k], n)
      BY <2>5, <2>6 DEF ChannelTypeOK
    <3>2. Old \/ toController'[k][p] = n
      BY <1>0, <2>4, <3>1, AppendElements
    <3>. QED
      BY <1>1, <2>1, <2>2, <2>3, <2>6, <3>2
  <2>7. CASE k # link
    BY <2>5, <2>7 DEF ChannelTypeOK
  <2>. QED
    BY <2>6, <2>7
<1>2. ASSUME \/ toController'[k] = toController[k]
             \/ toController'[k] = <<>>
             \/ toController[k] # <<>> /\ toController'[k] = Tail(toController[k])
      PROVE  Old
  <2>1. CASE toController'[k] = toController[k]
    BY <2>1
  <2>2. CASE toController'[k] = <<>>
    BY <2>2
  <2>3. CASE toController[k] # <<>> /\ toController'[k] = Tail(toController[k])
    BY <1>0, <2>3, TailElements
  <2>. QED
    BY <1>2, <2>1, <2>2, <2>3
<1>3. ASSUME NEW link \in Link, SwitchChangesRole(link)
      PROVE  Old \/ New
  <2>1. Head(toSwitch[link]).kind \in Roles
    BY <1>3 DEF SwitchChangesRole, Roles
  <2>. QED
    BY <1>1, <1>3, <2>1 DEF SwitchChangesRole
<1>4. ASSUME NEW link \in Link, SwitchReports(link)
      PROVE  Old \/ New
  <2>1. /\ Arrived(link) /\ Head(toSwitch[link]).kind \in {"NOCHANGE", "BARRIER"}
        /\ \E answer \in Roles \cup {"FENCED"} : Reply(link, answer)
    BY <1>4 DEF SwitchReports, Arrived, Connected, ChannelTypeOK
  <2>. QED
    BY <1>1, <2>1
<1>5. ASSUME NEW msg \in posts, ServePost(msg)
      PROVE  Old
  BY <1>2, <1>5 DEF ServePost
<1>6. ASSUME NEW link \in Link, SwitchRefuses(link) \/ ChannelUp(link)
      PROVE  Old
  BY <1>2, <1>6 DEF SwitchRefuses, ChannelUp
<1>7. ASSUME NEW link \in Link,
             HandleRoleReply(link) \/ HandleBarrierReply(link) \/ ChannelDown(link)
      PROVE  Old
  BY <1>2, <1>7 DEF HandleRoleReply, HandleBarrierReply, ChannelDown, ChannelTypeOK
<1>8. ASSUME NEW c \in Controller, ControllerRestart(c)
      PROVE  Old
  BY <1>2, <1>8 DEF ControllerRestart, ChannelTypeOK
<1>. QED
  BY <1>3, <1>4, <1>5, <1>6, <1>7, <1>8 DEF ChannelStep

\* A polled role was told by a reply to that very call.
LEMMA AnswerSource ==
  ASSUME ChannelTypeOK, ChannelStep, NEW c \in Client
  PROVE  /\ poll'[c].phase = poll[c].phase /\ poll'[c].link = poll[c].link
         /\ poll'[c].answer \in Roles =>
              \/ poll[c].answer \in Roles
              \/ \E k \in Link : \E p \in DOMAIN toController[k] :
                   /\ toController[k][p].client = c
                   /\ toController[k][p].phase = poll[c].phase
                   /\ toController[k][p].link = poll[c].link
<1>. DEFINE Same == poll'[c].phase = poll[c].phase /\ poll'[c].link = poll[c].link
<1>0. poll \in [Client -> [phase : Phase \cup {"none"}, link : Link \cup {<<>>},
                           answer : Answers]]
  BY DEF ChannelTypeOK
<1>1. ASSUME NEW msg, NEW answer, poll' = Answered(msg, answer)
      PROVE  /\ Same
             /\ poll'[c].answer # poll[c].answer =>
                  /\ msg.client = c /\ poll'[c].answer = answer
                  /\ msg.phase = poll[c].phase /\ msg.link = poll[c].link
  BY <1>0, <1>1 DEF Answered
<1>2. {"HTTP_ERROR", "FENCED"} \cap Roles = {}
  BY DEF Roles
<1>3. ASSUME NEW msg \in posts, ServePost(msg)
      PROVE  Same /\ (poll'[c].answer \in Roles => poll[c].answer \in Roles)
  BY <1>1, <1>2, <1>3 DEF ServePost
<1>4. ASSUME NEW link \in Link, HandleBarrierReply(link)
      PROVE  Same /\ (poll'[c].answer \in Roles => poll[c].answer \in Roles)
  BY <1>1, <1>2, <1>4 DEF HandleBarrierReply
<1>5. ASSUME NEW link \in Link, HandleRoleReply(link)
      PROVE  /\ Same
             /\ poll'[c].answer \in Roles =>
                  \/ poll[c].answer \in Roles
                  \/ \E p \in DOMAIN toController[link] :
                       /\ toController[link][p].client = c
                       /\ toController[link][p].phase = poll[c].phase
                       /\ toController[link][p].link = poll[c].link
  <2>1. PICK msg : msg = Head(toController[link])
    OBVIOUS
  <2>2. toController[link] \in Seq(ReplyMsg) /\ toController[link] # <<>>
    BY <1>5 DEF HandleRoleReply, ChannelTypeOK
  <2>3. 1 \in DOMAIN toController[link] /\ msg = toController[link][1]
    BY <2>1, <2>2, HeadElement
  <2>4. poll' = Answered(msg, msg.answer)
    BY <1>5, <2>1 DEF HandleRoleReply
  <2>. QED
    BY <1>1, <2>3, <2>4
<1>6. ASSUME NEW d \in Controller, ControllerRestart(d)
      PROVE  Same /\ (poll'[c].answer \in Roles => poll[c].answer \in Roles)
  BY <1>0, <1>2, <1>6 DEF ControllerRestart
<1>7. ASSUME NEW link \in Link, \/ SwitchRefuses(link) \/ SwitchChangesRole(link)
                                \/ SwitchReports(link) \/ ChannelDown(link) \/ ChannelUp(link)
      PROVE  poll' = poll
  BY <1>7 DEF SwitchRefuses, SwitchChangesRole, SwitchReports, ChannelDown, ChannelUp
<1>. QED
  BY <1>3, <1>4, <1>5, <1>6, <1>7 DEF ChannelStep

\* A role that was given stays: what asks for another one is refused.
LEMMA GivenKept ==
  ASSUME TypeOK, MessagesOnTheWay, ChannelStep, faults' = 0,
         faults = 0 => \A link \in Link : Connected(link), NEW l \in Link, Given(l)
  PROVE  Given(l)'
<1>0. ChannelTypeOK /\ faults \in Nat /\ InFlight' \subseteq InFlight
  BY FaultsAssumption, ChannelInFlight DEF TypeOK, ChannelTypeOK
<1>1. l[2] \in Switch /\ l[1] \in Controller
  BY DEF Link
<1>2. CASE swRole'[l] = swRole[l] /\ swGen'[l[2]] = swGen[l[2]]
  BY <1>0, <1>2 DEF Given, Leftover, RoleFor
<1>3. ASSUME NEW link \in Link, SwitchChangesRole(link), link[2] = l[2]
      PROVE  Given(l)'
  <2>1. PICK m : m = Head(toSwitch[link])
    OBVIOUS
  <2>2. m \in InFlight /\ m \in RequestMsg /\ m.link = link /\ AsksFor(m)
    BY <1>0, <1>3, <2>1, TakenMessage DEF SwitchChangesRole
  <2>3. /\ m.kind \in {"MASTER", "SLAVE"} /\ ~(m.gen < swGen[l[2]])
        /\ swRole' = RolesAfter(link, m.kind)
        /\ swGen' = [swGen EXCEPT ![l[2]] = m.gen]
    BY <1>3, <2>1, <2>2 DEF SwitchChangesRole, Stale
  <2>4. swGen'[l[2]] = m.gen /\ swGen[l[2]] \in Nat /\ m.gen \in Nat
    BY <1>0, <1>1, <2>2, <2>3 DEF ChannelTypeOK, RequestMsg
  <2>5. m.kind = RoleFor(link)
    <3>1. ~Leftover(m)
      BY <1>3, <2>2, <2>3 DEF Given
    <3>. QED
      BY <2>2, <2>3, <3>1 DEF AsksFor, Leftover
  <2>6. swRole'[l] = RoleFor(l)
    <3>1. l = link \/ l[1] # link[1]
      BY <1>3 DEF Link
    <3>2. swRole'[l] = IF l = link THEN m.kind
                       ELSE IF m.kind = "MASTER" /\ l[2] = link[2] /\ swRole[l] = "MASTER"
                            THEN "SLAVE" ELSE swRole[l]
      BY <2>3 DEF RolesAfter
    <3>3. swRole[l] = RoleFor(l)
      BY DEF Given
    <3>. QED
      BY <1>3, <2>5, <3>1, <3>2, <3>3 DEF RoleFor
  <2>7. ASSUME NEW n \in InFlight', Leftover(n), n.link[2] = l[2]
        PROVE  n.gen < swGen'[l[2]]
    <3>1. n \in InFlight /\ n.gen \in Nat
      BY <1>0, <2>7, InFlightType DEF RequestMsg
    <3>2. n.gen < swGen[l[2]]
      BY <2>7, <3>1 DEF Given
    <3>. QED
      BY <2>3, <2>4, <3>1, <3>2
  <2>. QED
    BY <2>6, <2>7 DEF Given, Leftover, RoleFor
<1>4. ASSUME NEW link \in Link, SwitchChangesRole(link), link[2] # l[2]
      PROVE  swRole'[l] = swRole[l] /\ swGen'[l[2]] = swGen[l[2]]
  <2>1. PICK m : m = Head(toSwitch[link])
    OBVIOUS
  <2>2. m.link = link
    BY <1>0, <1>4, <2>1, TakenMessage DEF SwitchChangesRole
  <2>. QED
    BY <1>0, <1>1, <1>4, <2>1, <2>2 DEF SwitchChangesRole, RolesAfter, ChannelTypeOK
<1>5. ASSUME NEW msg \in posts, ServePost(msg)
      PROVE  UNCHANGED <<swRole, swGen>>
  BY <1>5 DEF ServePost
<1>6. ASSUME NEW link \in Link, \/ SwitchRefuses(link) \/ SwitchReports(link)
                                \/ HandleRoleReply(link) \/ HandleBarrierReply(link)
      PROVE  UNCHANGED <<swRole, swGen>>
  BY <1>6 DEF SwitchRefuses, SwitchReports, HandleRoleReply, HandleBarrierReply
<1>7. ASSUME NEW link \in Link, ChannelDown(link) \/ ChannelUp(link)
      PROVE  FALSE
  BY <1>0, <1>7 DEF ChannelDown, ChannelUp
<1>8. ASSUME NEW c \in Controller, ControllerRestart(c)
      PROVE  FALSE
  BY <1>0, <1>8 DEF ControllerRestart
<1>. QED
  BY <1>2, <1>3, <1>4, <1>5, <1>6, <1>7, <1>8 DEF ChannelStep

\* The switch that accepts a role request of a run is fenced by its id.
LEMMA GivenNow ==
  ASSUME TypeOK, MessagesOnTheWay, ChannelStep, NEW link \in Link, SwitchChangesRole(link),
         NEW m, m = Head(toSwitch[link]), NEW i \in InitRun, RoleRequest(m, i),
         \A n \in InFlight : Leftover(n) => n.gen < m.gen
  PROVE  Given(link)'
<1>0. ChannelTypeOK /\ InFlight' \subseteq InFlight /\ link[2] \in Switch
  BY ChannelInFlight DEF TypeOK, Link
<1>1. m \in InFlight /\ m.link = link /\ AsksFor(m)
  BY <1>0, TakenMessage DEF SwitchChangesRole
<1>2. m.kind = RoleFor(link)
  BY <1>1, InitCallFacts DEF AsksFor, RoleRequest
<1>3. swRole'[link] = m.kind /\ swGen'[link[2]] = m.gen
  BY <1>0, <1>1 DEF SwitchChangesRole, RolesAfter, ChannelTypeOK
<1>. QED
  BY <1>0, <1>2, <1>3 DEF Given, Leftover, RoleFor

LEMMA ChannelMessages ==
  ASSUME TypeOK, MessagesOnTheWay, ChannelStep, UNCHANGED <<orchestratorVars, initVars>>
  PROVE  MessagesOnTheWay'
<1>0. ChannelTypeOK /\ InFlight' \subseteq InFlight
  BY ChannelInFlight DEF TypeOK
<1>1. \A m \in InFlight' : AsksFor(m)'
  BY <1>0 DEF MessagesOnTheWay, AsksFor, RoleFor, orchestratorVars
<1>2. Addressed'
  BY <1>0, ChannelAddressed DEF MessagesOnTheWay
<1>3. \A k \in Link : \A p \in DOMAIN toController'[k] : toController'[k][p].link = k
  BY <1>0, ReplySource DEF MessagesOnTheWay
<1>4. \A i \in InitRun : poll'[i].phase = "none" \/ poll'[i].link \in Link
  BY <1>0, AnswerSource, InitCallFacts DEF MessagesOnTheWay
<1>. QED
  BY <1>1, <1>2, <1>3, <1>4 DEF MessagesOnTheWay

LEMMA ChannelNotCalled ==
  ASSUME TypeOK, MessagesOnTheWay, ChannelStep, UNCHANGED initVars, NEW i \in InitRun,
         NotCalled(i)
  PROVE  NotCalled(i)'
<1>0. ChannelTypeOK /\ InFlight' \subseteq InFlight
  BY ChannelInFlight DEF TypeOK
<1>1. ASSUME ipc[i] = "idle", NEW k \in Link, NEW p \in DOMAIN toController'[k]
      PROVE  toController'[k][p].client # i
  BY <1>0, <1>1, ReplySource DEF NotCalled
<1>. QED
  BY <1>0, <1>1 DEF NotCalled, initVars

LEMMA ChannelRepairing ==
  ASSUME TypeOK, MessagesOnTheWay, ChannelStep, UNCHANGED initVars, faults' = 0,
         faults = 0 => \A link \in Link : Connected(link),
         NEW i \in InitRun, Repairing(i)
  PROVE  Repairing(i)'
<1>0. ChannelTypeOK /\ InFlight' \subseteq InFlight /\ i \in Client
  BY ChannelInFlight, InitCallFacts DEF TypeOK
<1>1. \A m, n \in InFlight' : RoleRequest(m, i) /\ Leftover(n) => n.gen < m.gen
  BY <1>0 DEF Repairing
<1>2. ASSUME NEW k \in Link, NEW p \in DOMAIN toController'[k],
             RoleRequest(toController'[k][p], i)
      PROVE  Given(k)'
  <2>1. CASE \E q \in DOMAIN toController[k] : toController'[k][p] = toController[k][q]
    <3>1. Given(k)
      BY <1>2, <2>1 DEF Repairing, RoleRequest
    <3>. QED
      BY <3>1, GivenKept
  <2>2. CASE \E m \in InFlight :
               /\ m = Head(toSwitch[k]) /\ Arrived(k)
               /\ toController'[k][p].client = m.client
               /\ toController'[k][p].phase = m.phase
               /\ SwitchChangesRole(k) \/ m.kind \in {"NOCHANGE", "BARRIER"}
    <3>1. PICK m \in InFlight :
               /\ m = Head(toSwitch[k]) /\ Arrived(k)
               /\ toController'[k][p].client = m.client
               /\ toController'[k][p].phase = m.phase
               /\ SwitchChangesRole(k) \/ m.kind \in {"NOCHANGE", "BARRIER"}
      BY <2>2
    <3>2. RoleRequest(m, i) /\ m.kind = RoleFor(m.link)
      BY <1>2, <3>1, InitCallFacts DEF RoleRequest, MessagesOnTheWay, AsksFor
    <3>3. SwitchChangesRole(k)
      BY <3>1, <3>2 DEF RoleFor
    <3>4. \A n \in InFlight : Leftover(n) => n.gen < m.gen
      BY <3>1, <3>2 DEF Repairing
    <3>. QED
      BY <3>1, <3>2, <3>3, <3>4, GivenNow
  <2>. QED
    BY <1>0, <2>1, <2>2, ReplySource
<1>3. ASSUME poll'[i].phase = "initRole", poll'[i].answer \in Roles
      PROVE  Given(poll[i].link)' /\ poll'[i].link = poll[i].link
  <2>1. PICK l : l = poll[i].link
    OBVIOUS
  <2>2. poll[i].phase = "initRole" /\ poll'[i].link = l /\ l \in Link
    BY <1>0, <1>3, <2>1, AnswerSource DEF MessagesOnTheWay
  <2>3. Given(l)
    <3>1. CASE poll[i].answer \in Roles
      BY <2>1, <2>2, <3>1 DEF Repairing
    <3>2. ASSUME NEW k \in Link, NEW p \in DOMAIN toController[k],
                 toController[k][p].client = i, toController[k][p].phase = poll[i].phase,
                 toController[k][p].link = poll[i].link
          PROVE  Given(l)
      <4>1. RoleRequest(toController[k][p], i) /\ k = l
        BY <2>1, <2>2, <3>2 DEF RoleRequest, MessagesOnTheWay
      <4>. QED
        BY <4>1 DEF Repairing
    <3>. QED
      BY <1>0, <1>3, <3>1, <3>2, AnswerSource
  <2>4. Given(l)'
    BY <2>2, <2>3, GivenKept
  <2>5. poll'[i].link = poll[i].link
    BY <2>1, <2>2
  <2>. QED
    BY <2>1, <2>4, <2>5 DEF Given, RoleFor, Leftover
<1>4. ASSUME NEW link \in Link \ todo[i]
      PROVE  \/ Given(link)'
             \/ ipc[i] = "initRole" /\ poll'[i].phase = "initRole" /\ poll'[i].link = link
  BY <1>0, <1>4, AnswerSource, GivenKept DEF Repairing
<1>. QED
  BY <1>1, <1>2, <1>3, <1>4 DEF Repairing, RoleRequest, Leftover, initVars

LEMMA ChannelConnected ==
  ASSUME TypeOK, ChannelStep, faults' = 0,
         faults = 0 => \A link \in Link : Connected(link), NEW l \in Link
  PROVE  Connected(l)'
<1>0. ChannelTypeOK /\ faults \in Nat
  BY FaultsAssumption DEF TypeOK, ChannelTypeOK
<1>1. ASSUME NEW link \in Link, SwitchChangesRole(link)
      PROVE  Connected(l)'
  <2>1. faults = 0 /\ swRole[l] # "DOWN"
    BY <1>1 DEF SwitchChangesRole, Connected
  <2>2. PICK kind \in {"MASTER", "SLAVE"} : swRole' = RolesAfter(link, kind)
    BY <1>1 DEF SwitchChangesRole
  <2>. QED
    BY <2>1, <2>2 DEF RolesAfter, Connected
<1>2. ASSUME NEW msg \in posts, ServePost(msg)
      PROVE  UNCHANGED <<swRole, faults>>
  BY <1>2 DEF ServePost
<1>3. ASSUME NEW link \in Link, \/ SwitchRefuses(link) \/ SwitchReports(link)
                                \/ HandleRoleReply(link) \/ HandleBarrierReply(link)
      PROVE  UNCHANGED <<swRole, faults>>
  BY <1>3 DEF SwitchRefuses, SwitchReports, HandleRoleReply, HandleBarrierReply
<1>4. ASSUME NEW link \in Link, ChannelDown(link) \/ ChannelUp(link)
      PROVE  FALSE
  BY <1>0, <1>4 DEF ChannelDown, ChannelUp
<1>5. ASSUME NEW c \in Controller, ControllerRestart(c)
      PROVE  FALSE
  BY <1>0, <1>5 DEF ControllerRestart
<1>. QED
  BY <1>1, <1>2, <1>3, <1>4, <1>5 DEF ChannelStep, Connected

LEMMA ChannelRepair ==
  ASSUME TypeOK, RepairInvariant, ChannelStep, UNCHANGED <<orchestratorVars, initVars>>
  PROVE  RepairInvariant'
<1>1. MessagesOnTheWay' /\ \A i \in InitRun : NotCalled(i)'
  BY ChannelMessages, ChannelNotCalled DEF RepairInvariant
<1>2. faults' = 0 => faults = 0 /\ \A link \in Link : Connected(link)'
  <2>1. faults \in Nat
    BY FaultsAssumption DEF TypeOK, ChannelTypeOK
  <2>2. faults' = faults \/ faults' = faults + 1
    BY DEF ChannelStep, ServePost, SwitchRefuses, SwitchChangesRole, SwitchReports,
       HandleRoleReply, HandleBarrierReply, ChannelDown, ChannelUp, ControllerRestart
  <2>. QED
    BY <2>1, <2>2, ChannelConnected DEF RepairInvariant
<1>3. (Quiet' <=> Quiet) /\ owner' = owner /\ ipc' = ipc
  BY DEF Quiet, orchestratorVars, initVars
<1>4. ASSUME Quiet', faults' = 0, NEW i \in InitRun, Active(i)'
      PROVE  Repairing(i)'
  <2>1. Repairing(i)
    BY <1>2, <1>3, <1>4 DEF RepairInvariant, Active
  <2>. QED
    BY <1>4, <2>1, ChannelRepairing DEF RepairInvariant
<1>. QED
  BY <1>1, <1>2, <1>3, <1>4 DEF RepairInvariant

-----------------------------------------------------------------------------
(* Init-roles and restarts: the threads.                                   *)

\* What a migration asks for under which id, and that it is not quiet when it asks.
LEMMA MigrationPosts ==
  ASSUME TypeOK, NEW r \in Request, ReadOwner(r) \/ Proceed(r)
  PROVE  /\ lastId <= lastId'
         /\ \A m \in InFlight' :
              m \in InFlight \/ (m.client = r /\ m.kind # "SLAVE" /\ m.gen <= lastId')
         /\ \A i \in InitRun : poll'[i] = poll[i]
         /\ Quiet' => Quiet /\ InFlight' = InFlight /\ owner' = owner
<1>. DEFINE Asked ==
              /\ lastId <= lastId'
              /\ \A m \in InFlight' :
                   m \in InFlight \/ (m.client = r /\ m.kind # "SLAVE" /\ m.gen <= lastId')
              /\ \A i \in InitRun : poll'[i] = poll[i]
<1>0. /\ ChannelTypeOK /\ lastId \in Nat /\ pc \in [Request -> ProgramPoints]
      /\ InitRun \subseteq Client \ Request
      /\ poll \in [Client -> [phase : Phase \cup {"none"}, link : Link \cup {<<>>},
                              answer : Answers]]
  BY InitCallFacts DEF TypeOK, ChannelTypeOK
<1>1. ASSUME NEW phase, NEW link, NEW kind, NEW gen, Post(r, phase, link, kind, gen),
             kind # "SLAVE", gen \in Int, gen <= lastId', lastId <= lastId'
      PROVE  Asked
  <2>1. \A i \in InitRun : poll'[i] = poll[i]
    BY <1>0, <1>1 DEF Post
  <2>. QED
    BY <1>0, <1>1, <2>1, PostInFlight
<1>2. ASSUME UNCHANGED <<posts, toSwitch, lastId>>,
             \A i \in InitRun : poll'[i] = poll[i]
      PROVE  Asked /\ InFlight' = InFlight
  BY <1>0, <1>2 DEF InFlight
<1>3. CASE ReadOwner(r) \/ Create(r)
  <2>1. Asked /\ InFlight' = InFlight
    BY <1>2, <1>3 DEF ReadOwner, Create, channelVars
  <2>2. pc[r] \in {"idle", "read"} /\ owner' = owner
        /\ \A q \in Request \ {r} : pc'[q] = pc[q]
    BY <1>0, <1>3 DEF ReadOwner, Create, Goto
  <2>. QED
    BY <2>1, <2>2 DEF Quiet
<1>4. CASE Proceed(r) /\ ~Create(r)
  <2>1. ~Quiet'
    <3>1. pc'[r] \notin {"idle", "read", "rejected"}
      BY <1>0, <1>4 DEF Proceed, Promote, PromoteReplied, PromoteFenced, SourceQueried,
         TargetQueried, SourceConnectivity, TargetConnectivity, CheckConnected,
         TrafficVerified, Commit, Finish, RollBack, RestoreReplied, RestoreFenced,
         RestoredQueried, OtherQueried, RestoredConnectivity, OtherConnectivity,
         MarkRestored, GiveUp, NextCall, Goto
    <3>. QED
      BY <3>1 DEF Quiet
  <2>2. CASE \/ Commit(r) \/ MarkRestored(r) \/ Finish(r) \/ TrafficVerified(r)
             \/ TargetQueried(r) \/ OtherQueried(r)
             \/ SourceConnectivity(r) \/ TargetConnectivity(r)
             \/ RestoredConnectivity(r) \/ OtherConnectivity(r)
    BY <1>2, <2>1, <2>2 DEF Commit, MarkRestored, SetOwner, Finish, TrafficVerified,
       TargetQueried, OtherQueried, SourceConnectivity, TargetConnectivity,
       RestoredConnectivity, OtherConnectivity, CheckConnected, channelVars
  <2>3. CASE GiveUp(r)
    <3>1. \A i \in InitRun : poll'[i] = poll[i]
      BY <1>0, <2>3 DEF GiveUp
    <3>. QED
      BY <1>2, <2>1, <2>3, <3>1 DEF GiveUp
  <2>4. CASE \/ PromoteReplied(r) \/ PromoteFenced(r) \/ RestoreReplied(r)
             \/ RestoreFenced(r) \/ SourceQueried(r) \/ RestoredQueried(r)
    <3>1. PICK at, answers, next, link, kind :
            NextCall(r, at, answers, next, link, kind) /\ kind # "SLAVE"
      BY <2>4 DEF PromoteReplied, PromoteFenced, RestoreReplied, RestoreFenced,
         SourceQueried, RestoredQueried
    <3>2. Post(r, next, link, kind, 0) /\ lastId' = lastId
      BY <3>1 DEF NextCall
    <3>. QED
      BY <1>0, <1>1, <2>1, <3>1, <3>2
  <2>5. CASE Promote(r)
    <3>1. Post(r, "promote", Target(r), "MASTER", lastId + 1) /\ lastId' = lastId + 1
      BY <2>5 DEF Promote
    <3>. QED
      BY <1>0, <1>1, <2>1, <3>1
  <2>6. CASE RollBack(r)
    <3>1. Post(r, "restore", Source(r), "MASTER", lastId + 1) /\ lastId' = lastId + 1
      BY <2>6 DEF RollBack
    <3>. QED
      BY <1>0, <1>1, <2>1, <3>1
  <2>. QED
    BY <1>4, <2>2, <2>3, <2>4, <2>5, <2>6 DEF Proceed
<1>. QED
  BY <1>3, <1>4

\* Nothing on its way, no role and no answer of the runs changes: nothing given is lost.
LEMMA RepairingSame ==
  ASSUME InFlight' = InFlight, UNCHANGED <<toController, swRole, swGen>>,
         NEW i, poll'[i] = poll[i], todo'[i] = todo[i], ipc'[i] = ipc[i], Repairing(i)
  PROVE  Repairing(i)'
<1>1. \A link : Given(link) => Given(link)'
  BY DEF Given, Leftover, RoleFor
<1>2. PICK l : l = poll[i].link
  OBVIOUS
<1>3. poll[i].phase = "initRole" /\ poll[i].answer \in Roles => Given(l)'
  BY <1>1, <1>2 DEF Repairing
<1>4. poll'[i].phase = "initRole" /\ poll'[i].answer \in Roles => Given(poll[i].link)'
  BY <1>2, <1>3 DEF Given, Leftover, RoleFor
<1>. QED
  BY <1>1, <1>4 DEF Repairing, RoleRequest, Leftover

LEMMA MigrationRepair ==
  ASSUME TypeOK, RepairInvariant, NEW r \in Request, ReadOwner(r) \/ Proceed(r),
         UNCHANGED initVars
  PROVE  RepairInvariant'
<1>0. /\ ChannelTypeOK /\ lastId \in Nat /\ lastId' \in Nat
      /\ r \notin InitRun /\ InitRun \subseteq Client
  BY ReadOwnerType, ProceedType, InitCallFacts DEF TypeOK
<1>1. UNCHANGED <<toSwitch, toController, swRole, swGen, faults, ipc, todo>>
  BY HandlerChannel DEF initVars
<1>2. ASSUME NEW m \in InFlight'
      PROVE  AsksFor(m)'
  <2>1. CASE m \in InFlight
    <3>1. m.gen \in Nat /\ AsksFor(m)
      BY <1>0, <2>1, InFlightType DEF RequestMsg, RepairInvariant, MessagesOnTheWay
    <3>. QED
      BY <1>0, <3>1, MigrationPosts DEF AsksFor, RoleFor
  <2>2. CASE m.client = r /\ m.kind # "SLAVE" /\ m.gen <= lastId'
    BY <2>2 DEF AsksFor
  <2>. QED
    BY <1>2, <2>1, <2>2, MigrationPosts
<1>3. MessagesOnTheWay'
  BY <1>1, <1>2, MigrationPosts DEF RepairInvariant, MessagesOnTheWay, Addressed
<1>4. \A i \in InitRun : NotCalled(i)'
  BY <1>0, <1>1, MigrationPosts DEF RepairInvariant, NotCalled
<1>5. ASSUME Quiet', faults' = 0, NEW i \in InitRun, Active(i)'
      PROVE  Repairing(i)'
  <2>1. Quiet /\ InFlight' = InFlight /\ Active(i)
    BY <1>1, <1>5, MigrationPosts DEF Active
  <2>2. Repairing(i)
    BY <1>1, <1>5, <2>1 DEF RepairInvariant
  <2>. QED
    BY <1>1, <2>1, <2>2, MigrationPosts, RepairingSame
<1>6. faults' = 0 => \A link \in Link : Connected(link)'
  BY <1>1 DEF RepairInvariant, Connected
<1>7. Quiet' => owner' = InitialOwner
  BY MigrationPosts DEF RepairInvariant
<1>. QED
  BY <1>3, <1>4, <1>5, <1>6, <1>7 DEF RepairInvariant

-----------------------------------------------------------------------------
(* Init-roles and restarts: the runs of init-roles.                        *)

\* What a run posts changes neither what was given nor what another run has asked for.
LEMMA RunPosts ==
  ASSUME TypeOK, NEW i \in InitRun, NEW phase, NEW link \in Link, NEW kind, NEW gen,
         Post(i, phase, link, kind, gen)
  PROVE  /\ \A l : Given(l) => Given(l)'
         /\ \A j \in InitRun \ {i} : poll'[j] = poll[j]
         /\ poll'[i] = [phase |-> phase, link |-> link, answer |-> "PENDING"]
         /\ \A m \in InFlight' :
              m \in InFlight
                \/ (m.client = i /\ m.phase = phase /\ m.link = link /\ m.kind = kind
                     /\ m.gen = gen)
         /\ UNCHANGED <<toSwitch, toController, swRole, swGen, faults>>
<1>1. /\ ChannelTypeOK /\ i \in Client /\ i \notin Request
      /\ poll \in [Client -> [phase : Phase \cup {"none"}, link : Link \cup {<<>>},
                              answer : Answers]]
  BY InitCallFacts DEF TypeOK, ChannelTypeOK
<1>2. InFlight' = InFlight \cup {[link |-> link, client |-> i, phase |-> phase,
                                  kind |-> kind, gen |-> gen]}
  BY <1>1, PostInFlight
<1>3. UNCHANGED <<toSwitch, toController, swRole, swGen, faults>>
  BY DEF Post
<1>4. \A l : Given(l) => Given(l)'
  BY <1>1, <1>2, <1>3 DEF Given, Leftover, RoleFor
<1>5. poll'[i] = [phase |-> phase, link |-> link, answer |-> "PENDING"]
      /\ \A j \in InitRun \ {i} : poll'[j] = poll[j]
  BY <1>1, InitCallFacts DEF Post
<1>. QED
  BY <1>2, <1>3, <1>4, <1>5

\* The message a run adds keeps what is known of all messages.
LEMMA RunMessages ==
  ASSUME TypeOK, RepairInvariant, NEW i \in InitRun, NEW phase, NEW link \in Link, NEW kind,
         NEW gen \in Nat, Post(i, phase, link, kind, gen), lastId' \in Nat,
         lastId <= lastId', gen <= lastId',
         IF phase = "initRole" THEN kind = RoleFor(link) ELSE kind = "BARRIER"
  PROVE  MessagesOnTheWay'
<1>1. ChannelTypeOK /\ lastId \in Nat
  BY DEF TypeOK
<1>p. /\ \A l : Given(l) => Given(l)'
      /\ \A j \in InitRun \ {i} : poll'[j] = poll[j]
      /\ poll'[i] = [phase |-> phase, link |-> link, answer |-> "PENDING"]
      /\ \A m \in InFlight' :
           m \in InFlight
             \/ (m.client = i /\ m.phase = phase /\ m.link = link
                  /\ m.kind = kind /\ m.gen = gen)
      /\ UNCHANGED <<toSwitch, toController, swRole, swGen, faults>>
  BY RunPosts
<1>2. ASSUME NEW m \in InFlight'
      PROVE  AsksFor(m)'
  <2>1. CASE m \in InFlight
    <3>1. m.gen \in Nat /\ AsksFor(m)
      BY <1>1, <2>1, InFlightType DEF RequestMsg, RepairInvariant, MessagesOnTheWay
    <3>. QED
      BY <1>1, <3>1 DEF AsksFor, RoleFor
  <2>2. CASE m.client = i /\ m.phase = phase /\ m.link = link /\ m.kind = kind /\ m.gen = gen
    BY <2>2 DEF AsksFor, RoleFor
  <2>. QED
    BY <1>2, <2>1, <2>2, <1>p
<1>3. \A j \in InitRun : poll'[j].phase = "none" \/ poll'[j].link \in Link
  BY <1>p DEF RepairInvariant, MessagesOnTheWay
<1>. QED
  BY <1>2, <1>3, <1>p DEF RepairInvariant, MessagesOnTheWay, Addressed

\* And the runs that did not post are where they were.
LEMMA OtherRuns ==
  ASSUME TypeOK, RepairInvariant, NEW i \in InitRun, NEW phase, NEW link \in Link, NEW kind,
         NEW gen, Post(i, phase, link, kind, gen),
         NEW j \in InitRun \ {i}, ipc'[j] = ipc[j], todo'[j] = todo[j]
  PROVE  /\ NotCalled(j)'
         /\ Repairing(j) => Repairing(j)'
<1>1. i \notin Request
  BY InitCallFacts
<1>p. /\ \A l : Given(l) => Given(l)'
      /\ \A q \in InitRun \ {i} : poll'[q] = poll[q]
      /\ poll'[i] = [phase |-> phase, link |-> link, answer |-> "PENDING"]
      /\ \A m \in InFlight' :
           m \in InFlight
             \/ (m.client = i /\ m.phase = phase /\ m.link = link
                  /\ m.kind = kind /\ m.gen = gen)
      /\ UNCHANGED <<toSwitch, toController, swRole, swGen, faults>>
  BY RunPosts
<1>2. NotCalled(j)'
  <2>1. NotCalled(j)
    BY DEF RepairInvariant
  <2>. QED
    BY <1>p, <2>1 DEF NotCalled
<1>3. ASSUME Repairing(j)
      PROVE  Repairing(j)'
  <2>1. \A m, n \in InFlight' : RoleRequest(m, j) /\ Leftover(n) => n.gen < m.gen
    BY <1>1, <1>3, <1>p DEF Repairing, RoleRequest, Leftover
  <2>2. \A k \in Link : \A p \in DOMAIN toController'[k] :
          RoleRequest(toController'[k][p], j) => Given(k)'
    BY <1>3, <1>p DEF Repairing, RoleRequest
  <2>3. poll'[j].phase = "initRole" /\ poll'[j].answer \in Roles => Given(poll[j].link)'
    <3>1. PICK l : l = poll[j].link
      OBVIOUS
    <3>2. poll'[j].phase = "initRole" /\ poll'[j].answer \in Roles => Given(l)'
      BY <1>3, <3>1, <1>p DEF Repairing
    <3>3. poll'[j].link = poll[j].link
      BY <1>p
    <3>. QED
      BY <3>1, <3>2, <3>3 DEF Given, Leftover, RoleFor
  <2>4. \A l \in Link \ todo'[j] :
          \/ Given(l)'
          \/ ipc'[j] = "initRole" /\ poll'[j].phase = "initRole" /\ poll'[j].link = l
    BY <1>3, <1>p DEF Repairing
  <2>5. ipc'[j] = "initialized" => todo'[j] = {}
    BY <1>3 DEF Repairing
  <2>6. poll'[j].link = poll[j].link
    BY <1>p
  <2>. QED
    BY <2>1, <2>2, <2>3, <2>4, <2>5, <2>6 DEF Repairing, RoleRequest, Leftover
<1>. QED
  BY <1>2, <1>3

\* An answered call of a run has given its link the role.
LEMMA NothingPending ==
  ASSUME NEW i \in InitRun, Repairing(i),
         ipc[i] = "initBarrier" \/ (ipc[i] = "initRole" /\ Reads(i, "initRole", Roles)),
         NEW l \in Link \ todo[i]
  PROVE  Given(l)
<1>1. CASE ipc[i] = "initBarrier"
  BY <1>1 DEF Repairing
<1>2. CASE ipc[i] = "initRole" /\ Reads(i, "initRole", Roles)
  <2>1. PICK k : k = poll[i].link
    OBVIOUS
  <2>2. Given(k)
    BY <1>2, <2>1 DEF Repairing, Reads
  <2>3. Given(l) \/ k = l
    BY <2>1 DEF Repairing
  <2>. QED
    BY <2>2, <2>3
<1>. QED
  BY <1>1, <1>2

LEMMA RequestRoleRepair ==
  ASSUME InitRolesTypeOK, RepairInvariant, NEW i \in InitRun, NEW link \in Link,
         RequestRole(i, link)
  PROVE  RepairInvariant'
<1>0. /\ TypeOK /\ ChannelTypeOK /\ lastId \in Nat /\ lastId' = lastId + 1
      /\ Post(i, "initRole", link, RoleFor(link), lastId + 1)
      /\ ipc' = [ipc EXCEPT ![i] = "initRole"] /\ todo' = [todo EXCEPT ![i] = @ \ {link}]
      /\ owner' = owner /\ pc' = pc /\ i \notin Request
      /\ ipc[i] \in {"idle", "initBarrier"}
      /\ ipc'[i] = "initRole" /\ todo'[i] = todo[i] \ {link} /\ link \in todo[i]
      /\ \A j \in InitRun \ {i} : ipc'[j] = ipc[j] /\ todo'[j] = todo[j]
  BY InitCallFacts DEF InitRolesTypeOK, TypeOK, RequestRole, Turn
<1>p. /\ \A l : Given(l) => Given(l)'
      /\ \A j \in InitRun \ {i} : poll'[j] = poll[j]
      /\ poll'[i] = [phase |-> "initRole", link |-> link, answer |-> "PENDING"]
      /\ \A m \in InFlight' :
           m \in InFlight
             \/ (m.client = i /\ m.phase = "initRole" /\ m.link = link
                  /\ m.kind = RoleFor(link) /\ m.gen = lastId + 1)
      /\ UNCHANGED <<toSwitch, toController, swRole, swGen, faults>>
  BY <1>0, RunPosts
<1>1. MessagesOnTheWay'
  BY <1>0, RunMessages
<1>2. \A j \in InitRun : NotCalled(j)'
  <2>1. NotCalled(i)'
    BY <1>0 DEF NotCalled
  <2>. QED
    BY <1>0, <2>1, OtherRuns
<1>3. ASSUME Quiet', faults' = 0
      PROVE  Repairing(i)'
  <2>0. Quiet /\ faults = 0
    BY <1>0, <1>3, <1>p DEF Quiet
  <2>1. ASSUME NEW m \in InFlight', NEW n \in InFlight', RoleRequest(m, i), Leftover(n)
        PROVE  n.gen < m.gen
    <3>1. n \in InFlight /\ n.gen \in Nat /\ n.gen <= lastId
      BY <1>0, <2>1, <1>p, InFlightType
         DEF Leftover, RepairInvariant, MessagesOnTheWay, AsksFor, RequestMsg
    <3>2. CASE m \in InFlight
      <4>1. ipc[i] = "initBarrier"
        BY <1>0, <2>1, <3>2 DEF RepairInvariant, NotCalled, RoleRequest
      <4>. QED
        BY <2>0, <2>1, <3>1, <3>2, <4>1
           DEF RepairInvariant, Active, InitCalls, Repairing
    <3>3. CASE m.gen = lastId + 1
      BY <1>0, <3>1, <3>3
    <3>. QED
      BY <1>0, <2>1, <3>2, <3>3, <1>p
  <2>2. ASSUME NEW k \in Link, NEW p \in DOMAIN toController'[k],
               RoleRequest(toController'[k][p], i)
        PROVE  Given(k)'
    <3>1. ipc[i] = "initBarrier" /\ toController' = toController
      BY <1>0, <2>2, <1>p DEF RepairInvariant, NotCalled, RoleRequest
    <3>2. Given(k)
      BY <2>0, <2>2, <3>1 DEF RepairInvariant, Active, InitCalls, Repairing
    <3>. QED
      BY <1>0, <3>2, <1>p
  <2>3. poll'[i].phase = "initRole" /\ poll'[i].link = link /\ poll'[i].answer \notin Roles
    BY <1>0, <1>p DEF Roles
  <2>4. ASSUME NEW l \in Link \ todo'[i], l # link
        PROVE  Given(l)'
    <3>1. l \in Link \ todo[i]
      BY <1>0, <2>4
    <3>2. ipc[i] = "initBarrier"
      BY <1>0, <3>1 DEF RepairInvariant, NotCalled
    <3>3. Repairing(i)
      BY <2>0, <3>2 DEF RepairInvariant, Active, InitCalls
    <3>. QED
      BY <1>0, <3>1, <3>2, <3>3, NothingPending, <1>p
  <2>. QED
    BY <1>0, <2>1, <2>2, <2>3, <2>4 DEF Repairing, RoleRequest, Leftover
<1>4. ASSUME Quiet', faults' = 0, NEW j \in InitRun, Active(j)'
      PROVE  Repairing(j)'
  <2>1. CASE j = i
    BY <1>3, <1>4, <2>1
  <2>2. CASE j # i
    <3>1. Quiet /\ faults = 0 /\ Active(j)
      BY <1>0, <1>4, <2>2, <1>p DEF Quiet, Active
    <3>. QED
      BY <1>0, <2>2, <3>1, OtherRuns DEF RepairInvariant
  <2>. QED
    BY <2>1, <2>2
<1>5. /\ faults' = 0 => \A l \in Link : Connected(l)'
      /\ Quiet' => owner' = InitialOwner
  BY <1>0, <1>p DEF RepairInvariant, Connected, Quiet
<1>. QED
  BY <1>1, <1>2, <1>4, <1>5 DEF RepairInvariant

LEMMA RoleGivenRepair ==
  ASSUME InitRolesTypeOK, RepairInvariant, NEW i \in InitRun, RoleGiven(i)
  PROVE  RepairInvariant' /\ InitRolesTypeOK'
<1>0. PICK link \in Link : link = poll[i].link
  BY DEF RoleGiven, Reads, RepairInvariant, MessagesOnTheWay
<1>1. /\ TypeOK /\ ChannelTypeOK /\ lastId \in Nat /\ lastId' = lastId
      /\ Post(i, "initBarrier", link, "BARRIER", 0)
      /\ owner' = owner /\ pc' = pc /\ i \notin Request
      /\ ipc[i] = "initRole" /\ ipc'[i] = "initBarrier" /\ todo' = todo
      /\ \A j \in InitRun \ {i} : ipc'[j] = ipc[j] /\ todo'[j] = todo[j]
  BY <1>0, InitCallFacts DEF InitRolesTypeOK, TypeOK, RoleGiven, orchestratorVars
<1>p. /\ \A l : Given(l) => Given(l)'
      /\ \A j \in InitRun \ {i} : poll'[j] = poll[j]
      /\ poll'[i] = [phase |-> "initBarrier", link |-> link, answer |-> "PENDING"]
      /\ \A m \in InFlight' :
           m \in InFlight
             \/ (m.client = i /\ m.phase = "initBarrier" /\ m.link = link
                  /\ m.kind = "BARRIER" /\ m.gen = 0)
      /\ UNCHANGED <<toSwitch, toController, swRole, swGen, faults>>
  BY <1>1, RunPosts
<1>2. MessagesOnTheWay'
  <2>1. 0 \in Nat /\ 0 <= lastId' /\ lastId' \in Nat /\ lastId <= lastId'
    BY <1>1
  <2>2. IF "initBarrier" = "initRole" THEN "BARRIER" = RoleFor(link) ELSE "BARRIER" = "BARRIER"
    OBVIOUS
  <2>. QED
    BY <1>1, <2>1, <2>2, RunMessages
<1>3. \A j \in InitRun : NotCalled(j)'
  <2>1. NotCalled(i)'
    BY <1>1 DEF NotCalled
  <2>. QED
    BY <1>1, <2>1, OtherRuns
<1>4. ASSUME Quiet', faults' = 0
      PROVE  Repairing(i)'
  <2>0. Repairing(i)
    BY <1>1, <1>4, <1>p DEF Quiet, RepairInvariant, Active, InitCalls
  <2>1. \A m, n \in InFlight' : RoleRequest(m, i) /\ Leftover(n) => n.gen < m.gen
    BY <1>1, <2>0, <1>p DEF Repairing, RoleRequest, Leftover
  <2>2. \A k \in Link : \A p \in DOMAIN toController'[k] :
          RoleRequest(toController'[k][p], i) => Given(k)'
    BY <1>1, <2>0, <1>p DEF Repairing, RoleRequest
  <2>3. \A l \in Link \ todo[i] : Given(l)'
    BY <1>1, <2>0, NothingPending, <1>p DEF RoleGiven
  <2>4. poll'[i].phase = "initBarrier"
    BY <1>1, <1>p
  <2>. QED
    BY <1>1, <2>1, <2>2, <2>3, <2>4 DEF Repairing, RoleRequest, Leftover
<1>5. ASSUME Quiet', faults' = 0, NEW j \in InitRun, Active(j)'
      PROVE  Repairing(j)'
  <2>1. CASE j = i
    BY <1>4, <1>5, <2>1
  <2>2. CASE j # i
    <3>1. Quiet /\ faults = 0 /\ Active(j)
      BY <1>1, <1>5, <2>2, <1>p DEF Quiet, Active
    <3>. QED
      BY <1>1, <2>2, <3>1, OtherRuns DEF RepairInvariant
  <2>. QED
    BY <2>1, <2>2
<1>6. /\ faults' = 0 => \A l \in Link : Connected(l)'
      /\ Quiet' => owner' = InitialOwner
  BY <1>1, <1>p DEF RepairInvariant, Connected, Quiet
<1>. QED
  BY <1>0, <1>2, <1>3, <1>5, <1>6, RoleGivenType DEF RepairInvariant

\* The answers of the endpoint.
LEMMA AnswerRepair ==
  ASSUME InitRolesTypeOK, RepairInvariant, NEW i \in InitRun, Initialized(i) \/ InitFails(i)
  PROVE  RepairInvariant' /\ InitRolesTypeOK'
<1>0. /\ UNCHANGED vars /\ todo' = todo
      /\ \A j \in InitRun \ {i} : ipc'[j] = ipc[j]
      /\ ipc[i] \in InitCalls /\ ipc'[i] \in {"initialized", "failed"}
      /\ ipc'[i] = "initialized" => todo[i] = {} /\ ipc[i] = "initBarrier"
      /\ ipc' \in [InitRun -> {"idle", "initialized", "failed"} \cup InitCalls]
  BY DEF InitRolesTypeOK, Initialized, InitFails, InitCalls
<1>1. /\ InFlight' = InFlight /\ pc' = pc
      /\ UNCHANGED <<toSwitch, toController, swRole, swGen, poll, faults, owner, lastId>>
  BY <1>0 DEF vars, channelVars, orchestratorVars, InFlight
<1>2. InitRolesTypeOK'
  BY <1>0, ChannelUnchangedType DEF vars, orchestratorVars, InitRolesTypeOK, TypeOK
<1>3. MessagesOnTheWay'
  BY <1>1 DEF RepairInvariant, MessagesOnTheWay, AsksFor, RoleFor, Addressed
<1>4. \A j \in InitRun : NotCalled(j)'
  BY <1>0, <1>1 DEF RepairInvariant, NotCalled
<1>5. ASSUME Quiet', faults' = 0, NEW j \in InitRun, Active(j)'
      PROVE  Repairing(j)'
  <2>1. Quiet /\ faults = 0
    BY <1>1, <1>5 DEF Quiet
  <2>2. CASE j # i
    <3>1. Repairing(j)
      BY <1>0, <1>5, <2>1, <2>2 DEF RepairInvariant, Active
    <3>. QED
      BY <1>0, <1>1, <2>2, <3>1, RepairingSame
  <2>3. CASE j = i
    <3>1. ipc'[i] = "initialized" /\ todo[i] = {} /\ ipc[i] = "initBarrier"
      BY <1>0, <1>5, <2>3 DEF Active, InitCalls
    <3>2. Repairing(i)
      BY <1>0, <2>1 DEF RepairInvariant, Active
    <3>3. \A l : Given(l) => Given(l)'
      BY <1>1 DEF Given, Leftover, RoleFor
    <3>4. \A l \in Link : Given(l)'
      BY <3>1, <3>2, <3>3, NothingPending
    <3>5. \A m, n \in InFlight' : RoleRequest(m, i) /\ Leftover(n) => n.gen < m.gen
      BY <1>1, <3>2 DEF Repairing
    <3>6. poll[i].phase = "initRole" => poll[i].link \in Link
      BY DEF RepairInvariant, MessagesOnTheWay
    <3>7. PICK l : l = poll[i].link
      OBVIOUS
    <3>8. poll'[i].phase = "initRole" /\ poll'[i].answer \in Roles => Given(l)'
      BY <1>1, <3>4, <3>6, <3>7
    <3>9. poll'[i].phase = "initRole" /\ poll'[i].answer \in Roles => Given(poll[i].link)'
      BY <1>1, <3>7, <3>8 DEF Given, Leftover, RoleFor
    <3>. QED
      BY <1>0, <1>1, <2>3, <3>1, <3>4, <3>5, <3>9 DEF Repairing, RoleRequest, Leftover
  <2>. QED
    BY <2>2, <2>3
<1>6. /\ faults' = 0 => \A l \in Link : Connected(l)'
      /\ Quiet' => owner' = InitialOwner
  BY <1>1 DEF RepairInvariant, Connected, Quiet
<1>. QED
  BY <1>2, <1>3, <1>4, <1>5, <1>6 DEF RepairInvariant

-----------------------------------------------------------------------------
(* Init-roles and restarts: the restart, and what follows.                 *)

\* Nobody has asked for anything since.
LEMMA RestartRepair ==
  ASSUME InitRolesTypeOK, RepairInvariant, Restart
  PROVE  RepairInvariant'
<1>0. /\ InFlight' = InFlight /\ owner' = InitialOwner /\ todo' = todo /\ lastId' = lastId + 1
      /\ UNCHANGED <<toSwitch, toController, swRole, faults>>
      /\ ChannelTypeOK /\ lastId \in Nat
      /\ \A i \in InitRun : /\ ipc'[i] \in {"idle", "failed"}
                            /\ ipc'[i] = "idle" => ipc[i] = "idle"
                            /\ poll'[i].phase = "none"
  BY InitCallFacts DEF Restart, ForgetOwnership, ForgetThreads, InFlight, NoPoll,
     InitRolesTypeOK, TypeOK
<1>1. ASSUME NEW m \in InFlight'
      PROVE  AsksFor(m)'
  <2>1. m.gen \in Nat /\ AsksFor(m)
    BY <1>0, <1>1, InFlightType DEF RequestMsg, RepairInvariant, MessagesOnTheWay
  <2>. QED
    BY <1>0, <2>1 DEF AsksFor, RoleFor
<1>2. MessagesOnTheWay'
  BY <1>0, <1>1 DEF RepairInvariant, MessagesOnTheWay, Addressed
<1>3. \A i \in InitRun : NotCalled(i)'
  BY <1>0 DEF RepairInvariant, NotCalled
<1>4. \A i \in InitRun : ~Active(i)'
  BY <1>0 DEF Active, InitCalls
<1>5. faults' = 0 => \A link \in Link : Connected(link)'
  BY <1>0 DEF RepairInvariant, Connected
<1>. QED
  BY <1>0, <1>2, <1>3, <1>4, <1>5 DEF RepairInvariant

\* A step of any of the threads, of the channel, or of nobody.
LEMMA InitRolesStep ==
  ASSUME InitRolesTypeOK, RepairInvariant, [InitRolesNext]_allVars
  PROVE  InitRolesTypeOK' /\ RepairInvariant'
<1>0. TypeOK
  BY DEF InitRolesTypeOK
<1>1. ASSUME ChannelStep, UNCHANGED orchestratorVars, UNCHANGED initVars
      PROVE  InitRolesTypeOK' /\ RepairInvariant'
  <2>1. InitRolesTypeOK'
    BY <1>1, ChannelStepType DEF InitRolesTypeOK, TypeOK, orchestratorVars, initVars
  <2>. QED
    BY <1>0, <1>1, <2>1, ChannelRepair
<1>2. ASSUME NEW r \in Request, ReadOwner(r) \/ Proceed(r), UNCHANGED initVars
      PROVE  InitRolesTypeOK' /\ RepairInvariant'
  <2>1. TypeOK'
    BY <1>0, <1>2, ReadOwnerType, ProceedType
  <2>. QED
    BY <1>0, <1>2, <2>1, MigrationRepair DEF InitRolesTypeOK, initVars
<1>3. ASSUME NEW i \in InitRun, NEW link \in Link, RequestRole(i, link)
      PROVE  InitRolesTypeOK' /\ RepairInvariant'
  BY <1>3, RequestRoleType, RequestRoleRepair
<1>4. ASSUME NEW i \in InitRun, RoleGiven(i) \/ Initialized(i) \/ InitFails(i)
      PROVE  InitRolesTypeOK' /\ RepairInvariant'
  BY <1>4, RoleGivenRepair, AnswerRepair
<1>5. CASE UNCHANGED allVars
  <2>1. /\ InFlight' = InFlight /\ pc' = pc /\ ipc' = ipc /\ todo' = todo
        /\ UNCHANGED <<toSwitch, toController, swRole, swGen, poll, faults, owner, lastId>>
    BY <1>5 DEF allVars, vars, channelVars, orchestratorVars, initVars, InFlight
  <2>2. InitRolesTypeOK'
    BY <1>0, <1>5, ChannelUnchangedType
       DEF allVars, vars, orchestratorVars, initVars, InitRolesTypeOK, TypeOK
  <2>3. MessagesOnTheWay'
    BY <2>1 DEF RepairInvariant, MessagesOnTheWay, AsksFor, RoleFor, Addressed
  <2>4. \A i \in InitRun : NotCalled(i)'
    BY <2>1 DEF RepairInvariant, NotCalled
  <2>5. \A i \in InitRun : Repairing(i) => Repairing(i)'
    BY <2>1, RepairingSame
  <2>6. /\ (Quiet' <=> Quiet) /\ \A i \in InitRun : Active(i)' <=> Active(i)
        /\ \A link : Connected(link)' <=> Connected(link)
    BY <2>1 DEF Quiet, Active, Connected
  <2>. QED
    BY <2>1, <2>2, <2>3, <2>4, <2>5, <2>6 DEF RepairInvariant
<1>. QED
  BY <1>1, <1>2, <1>3, <1>4, <1>5 DEF InitRolesNext, Next

LEMMA RestartStep ==
  ASSUME RestartTypeOK, RepairInvariant, [RestartNext]_restartVars
  PROVE  RestartTypeOK' /\ RepairInvariant'
<1>1. CASE Restart
  BY <1>1, RestartType, RestartRepair, RestartsAssumption DEF RestartTypeOK, Restart
<1>2. CASE [InitRolesNext]_allVars /\ UNCHANGED restarts
  BY <1>2, InitRolesStep DEF RestartTypeOK
<1>. QED
  BY <1>1, <1>2 DEF RestartNext, restartVars

LEMMA RestartInitRepair == RestartInit => RestartTypeOK /\ RepairInvariant
<1>. SUFFICES ASSUME RestartInit PROVE RestartTypeOK /\ RepairInvariant
  OBVIOUS
<1>1. PICK started \in SUBSET Switch : ChannelInit(InitialOwner, started)
  BY DEF RestartInit, InitRolesInit, Init
<1>2. RestartTypeOK
  <2>1. ChannelTypeOK
    BY <1>1, FaultsAssumption, EmptySeq
       DEF ChannelInit, ChannelTypeOK, Roles, NoPoll, Answers
  <2>2. TypeOK
    BY <2>1, OwnerAssumption DEF RestartInit, InitRolesInit, Init, TypeOK, ProgramPoints
  <2>. QED
    BY <2>2, RestartsAssumption DEF RestartInit, InitRolesInit, RestartTypeOK, InitRolesTypeOK
<1>3. /\ InFlight = {} /\ \A k \in Link : toController[k] = <<>> /\ toSwitch[k] = <<>>
      /\ owner = InitialOwner
      /\ \A i \in InitRun : ipc[i] = "idle" /\ todo[i] = Link /\ poll[i].phase = "none"
      /\ \A k \in Link : swRole[k] # "DOWN"
  BY <1>1, InitCallFacts DEF RestartInit, InitRolesInit, Init, ChannelInit, InFlight, NoPoll
<1>4. MessagesOnTheWay /\ \A i \in InitRun : NotCalled(i) /\ ~Active(i)
  BY <1>3 DEF MessagesOnTheWay, Addressed, NotCalled, Active, InitCalls
<1>. QED
  BY <1>2, <1>3, <1>4 DEF RepairInvariant, Connected

\* Every variable keeps its type, whatever is initialised or restarted; and a run of
\* init-roles gives the roles of the configuration, fenced from whatever an earlier
\* process or another call has asked for.
THEOREM RepairInvariantHolds == RestartSpec => [](RestartTypeOK /\ RepairInvariant)
BY RestartInitRepair, RestartStep, PTL DEF RestartSpec

(* init-roles is the repair after a restart: INITIALIZED, while nothing    *)
(* migrated and no connection was lost since, means that every switch has  *)
(* the roles of the register.                                              *)
THEOREM InitializedIsRepaired == RestartSpec => []RepairHolds
<1>1. RestartTypeOK /\ RepairInvariant => RepairHolds
  <2>. SUFFICES ASSUME RestartTypeOK, RepairInvariant, faults = 0, Quiet,
                       NEW i \in InitRun, ipc[i] = "initialized", NEW link \in Link
                PROVE  swRole[link] = IF owner[link[2]] = link[1] THEN "MASTER" ELSE "SLAVE"
    BY DEF RepairHolds, Quiet
  <2>1. Repairing(i) /\ owner = InitialOwner
    BY DEF RepairInvariant, Active
  <2>2. Given(link)
    BY <2>1 DEF Repairing
  <2>. QED
    BY <2>1, <2>2 DEF Given, RoleFor
<1>. QED
  BY <1>1, RepairInvariantHolds, PTL
=============================================================================
