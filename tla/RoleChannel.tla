----------------------------- MODULE RoleChannel -----------------------------
(***************************************************************************)
(* The OpenFlow side of a migration: the Ryu controllers that serve the    *)
(* orchestrator's REST calls (role, role query, barrier), the OpenFlow     *)
(* channel between every controller and every switch, and the switches     *)
(* that grant the MASTER role.                                             *)
(*                                                                         *)
(* A client (a thread of the orchestrator) POSTs a request to a controller *)
(* and then polls the controller until the request is answered.  The POST  *)
(* may be served long after the client gave up on it, or never.  A         *)
(* controller queues the OpenFlow message on the channel to the switch;    *)
(* each channel is FIFO in both directions and loses its content when the  *)
(* connection drops.                                                       *)
(*                                                                         *)
(* The switch (Open vSwitch) is not part of the repository.  It is         *)
(* modelled from how the code uses it: a role request with a generation id *)
(* older than the last one is refused with an error message, for which the *)
(* controller has no handler, and a new MASTER silently turns the previous *)
(* one into a SLAVE.                                                       *)
(***************************************************************************)
EXTENDS Integers, Sequences, FiniteSets

CONSTANTS Controller,  \* the Ryu controllers (c1, c2)
          Switch,      \* the switches (s1 .. s4)
          Client,      \* orchestrator threads that issue REST calls
          Phase,       \* names of the calls a thread makes; each one is made
                       \* at most once per thread and link, so it stands for the xid
          MaxFaults    \* bound on connection losses and controller restarts

ASSUME FaultsAssumption == MaxFaults \in Nat
ASSUME PhaseAssumption == "none" \notin Phase

VARIABLES
  posts,         \* REST POSTs sent and not yet served by their controller
  toSwitch,      \* per link, the OpenFlow messages on their way to the switch
  toController,  \* per link, the replies on their way to the controller
  cachedRole,    \* RoleManager._roles of each controller
  swRole,        \* the role the switch gives each connection, "DOWN" if there is none
  swGen,         \* the switch's last accepted generation id
  poll,          \* per client, the request it polls and the answer it can read
  faults         \* connection losses and restarts so far

channelVars == <<posts, toSwitch, toController, cachedRole, swRole, swGen, poll, faults>>

Link == Controller \X Switch

Roles == {"EQUAL", "MASTER", "SLAVE"}

Kinds == {"MASTER", "SLAVE", "NOCHANGE", "BARRIER"}

\* What a polling client can read: nothing yet, an HTTP error, the role of a
\* role reply, or the completion of a barrier.
Answers == Roles \cup {"PENDING", "HTTP_ERROR", "FENCED"}

RequestMsg == [link : Link, client : Client, phase : Phase, kind : Kinds, gen : Nat]

ReplyMsg == [link : Link, client : Client, phase : Phase, answer : Roles \cup {"FENCED"}]

NoPoll == [phase |-> "none", link |-> <<>>, answer |-> "PENDING"]

ChannelTypeOK ==
  /\ posts \in SUBSET RequestMsg
  /\ toSwitch \in [Link -> Seq(RequestMsg)]
  /\ toController \in [Link -> Seq(ReplyMsg)]
  /\ cachedRole \in [Link -> Roles \cup {"UNKNOWN"}]
  /\ swRole \in [Link -> Roles \cup {"DOWN"}]
  /\ swGen \in [Switch -> Nat]
  /\ poll \in [Client -> [phase : Phase \cup {"none"}, link : Link \cup {<<>>},
                          answer : Answers]]
  /\ faults \in 0..MaxFaults

\* A controller lists a switch as connected exactly while its channel is up.
Connected(link) == swRole[link] # "DOWN"

\* Every role or barrier request that is still on its way to a switch.
InFlight == posts \cup UNION {{toSwitch[k][i] : i \in DOMAIN toSwitch[k]} : k \in Link}

-----------------------------------------------------------------------------
(* The switches of `started` have been through init_roles, the others are  *)
(* freshly connected: every connection has the role EQUAL.                 *)
ChannelInit(owner, started) ==
  LET role(k) == IF k[2] \notin started THEN "EQUAL"
                 ELSE IF owner[k[2]] = k[1] THEN "MASTER" ELSE "SLAVE"
  IN /\ posts = {}
     /\ toSwitch = [k \in Link |-> <<>>]
     /\ toController = [k \in Link |-> <<>>]
     /\ cachedRole = [k \in Link |-> role(k)]
     /\ swRole = [k \in Link |-> role(k)]
     /\ swGen = [s \in Switch |-> IF s \in started THEN 1 ELSE 0]
     /\ poll = [client \in Client |-> NoPoll]
     /\ faults = 0

(* ControllerClient.set_role, query_role and barrier: POST the request,    *)
(* then poll for its answer.                                               *)
Post(client, phase, link, kind, gen) ==
  /\ posts' = posts \cup {[link |-> link, client |-> client, phase |-> phase,
                           kind |-> kind, gen |-> gen]}
  /\ poll' = [poll EXCEPT ![client] = [phase |-> phase, link |-> link,
                                       answer |-> "PENDING"]]
  /\ UNCHANGED <<toSwitch, toController, cachedRole, swRole, swGen, faults>>

\* The answer to the call `phase`, as the thread that made it reads it.
Reads(client, phase, answers) ==
  /\ poll[client].phase = phase
  /\ poll[client].answer \in answers

\* An answer reaches a client only while it still polls that very request.
Answered(msg, answer) ==
  IF poll[msg.client].phase = msg.phase /\ poll[msg.client].link = msg.link
  THEN [poll EXCEPT ![msg.client].answer = answer]
  ELSE poll

(* NDTRestController.set_role, query_role, barrier: refuse with 404 when   *)
(* the switch is not connected, otherwise record the request as PENDING    *)
(* and send the OpenFlow message.                                          *)
ServePost(msg) ==
  /\ msg \in posts
  /\ posts' = posts \ {msg}
  /\ IF Connected(msg.link)
     THEN /\ toSwitch' = [toSwitch EXCEPT ![msg.link] = Append(@, msg)]
          /\ UNCHANGED poll
     ELSE /\ poll' = Answered(msg, "HTTP_ERROR")
          /\ UNCHANGED toSwitch
  /\ UNCHANGED <<toController, cachedRole, swRole, swGen, faults>>

\* A role change that carries an older generation id than the last one.
Stale(msg) == msg.kind \in {"MASTER", "SLAVE"} /\ msg.gen < swGen[msg.link[2]]

\* The roles after `link` gets `role`: a new MASTER demotes the previous one.
RolesAfter(link, role) ==
  [k \in Link |->
     IF k = link THEN role
     ELSE IF role = "MASTER" /\ k[2] = link[2] /\ swRole[k] = "MASTER" THEN "SLAVE"
     ELSE swRole[k]]

\* A message waits at the switch's end of a channel that is up.
Arrived(link) == Connected(link) /\ toSwitch[link] # <<>>

Reply(link, answer) ==
  LET msg == Head(toSwitch[link])
  IN toController' = [toController EXCEPT ![link] =
       Append(@, [link |-> link, client |-> msg.client, phase |-> msg.phase,
                  answer |-> answer])]

(* The switch refuses a stale role change; the error it sends back is      *)
(* handled nowhere, so the request stays PENDING until the poll times out. *)
SwitchRefuses(link) ==
  /\ Arrived(link)
  /\ Stale(Head(toSwitch[link]))
  /\ toSwitch' = [toSwitch EXCEPT ![link] = Tail(@)]
  /\ UNCHANGED <<posts, toController, cachedRole, swRole, swGen, poll, faults>>

SwitchChangesRole(link) ==
  LET msg == Head(toSwitch[link])
  IN /\ Arrived(link)
     /\ msg.kind \in {"MASTER", "SLAVE"}
     /\ ~Stale(msg)
     /\ toSwitch' = [toSwitch EXCEPT ![link] = Tail(@)]
     /\ swRole' = RolesAfter(link, msg.kind)
     /\ swGen' = [swGen EXCEPT ![link[2]] = msg.gen]
     /\ Reply(link, msg.kind)
     /\ UNCHANGED <<posts, cachedRole, poll, faults>>

(* NOCHANGE reports the current role; a barrier reply says that all that   *)
(* came before it on the channel has been processed.                       *)
SwitchReports(link) ==
  LET msg == Head(toSwitch[link])
  IN /\ Arrived(link)
     /\ msg.kind \in {"NOCHANGE", "BARRIER"}
     /\ toSwitch' = [toSwitch EXCEPT ![link] = Tail(@)]
     /\ Reply(link, IF msg.kind = "BARRIER" THEN "FENCED" ELSE swRole[link])
     /\ UNCHANGED <<posts, cachedRole, swRole, swGen, poll, faults>>

(* RoleManager.handle_role_reply: the cached role is what the reply says,  *)
(* whoever asked for it; the request becomes REPLIED.                      *)
HandleRoleReply(link) ==
  LET msg == Head(toController[link])
  IN /\ toController[link] # <<>>
     /\ msg.answer \in Roles
     /\ toController' = [toController EXCEPT ![link] = Tail(@)]
     /\ cachedRole' = [cachedRole EXCEPT ![link] = msg.answer]
     /\ poll' = Answered(msg, msg.answer)
     /\ UNCHANGED <<posts, toSwitch, swRole, swGen, faults>>

(* BarrierManager.handle_reply.                                            *)
HandleBarrierReply(link) ==
  LET msg == Head(toController[link])
  IN /\ toController[link] # <<>>
     /\ msg.answer = "FENCED"
     /\ toController' = [toController EXCEPT ![link] = Tail(@)]
     /\ poll' = Answered(msg, "FENCED")
     /\ UNCHANGED <<posts, toSwitch, cachedRole, swRole, swGen, faults>>

(* state_change_handler, DEAD_DISPATCHER: the datapath is forgotten, its   *)
(* cached role is not.  What was on the channel is lost.                   *)
ChannelDown(link) ==
  /\ faults < MaxFaults
  /\ faults' = faults + 1
  /\ Connected(link)
  /\ swRole' = [swRole EXCEPT ![link] = "DOWN"]
  /\ toSwitch' = [toSwitch EXCEPT ![link] = <<>>]
  /\ toController' = [toController EXCEPT ![link] = <<>>]
  /\ UNCHANGED <<posts, cachedRole, swGen, poll>>

(* switch_features_handler and state_change_handler, MAIN_DISPATCHER: the  *)
(* switch gives a new connection the role EQUAL, the controller keeps a    *)
(* role it already had in its cache (setdefault).                          *)
ChannelUp(link) ==
  /\ ~Connected(link)
  /\ swRole' = [swRole EXCEPT ![link] = "EQUAL"]
  /\ cachedRole' = [cachedRole EXCEPT ![link] = IF @ = "UNKNOWN" THEN "EQUAL" ELSE @]
  /\ UNCHANGED <<posts, toSwitch, toController, swGen, poll, faults>>

(* A controller process restarts: its caches, its request tables and the   *)
(* POSTs it had not served are gone, and every channel of it drops.        *)
ControllerRestart(c) ==
  LET mine == {c} \X Switch
  IN /\ faults < MaxFaults
     /\ faults' = faults + 1
     /\ posts' = {m \in posts : m.link \notin mine}
     /\ toSwitch' = [k \in Link |-> IF k \in mine THEN <<>> ELSE toSwitch[k]]
     /\ toController' = [k \in Link |-> IF k \in mine THEN <<>> ELSE toController[k]]
     /\ cachedRole' = [k \in Link |-> IF k \in mine THEN "UNKNOWN" ELSE cachedRole[k]]
     /\ swRole' = [k \in Link |-> IF k \in mine THEN "DOWN" ELSE swRole[k]]
     /\ poll' = [client \in Client |->
                   IF poll[client].link \in mine
                   THEN [poll[client] EXCEPT !.answer = "HTTP_ERROR"]
                   ELSE poll[client]]
     /\ UNCHANGED swGen

ChannelStep ==
  \/ \E msg \in posts : ServePost(msg)
  \/ \E link \in Link :
       \/ SwitchRefuses(link)
       \/ SwitchChangesRole(link)
       \/ SwitchReports(link)
       \/ HandleRoleReply(link)
       \/ HandleBarrierReply(link)
       \/ ChannelDown(link)
       \/ ChannelUp(link)
  \/ \E c \in Controller : ControllerRestart(c)
=============================================================================
