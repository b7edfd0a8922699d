-------------------------- MODULE ControllerProcess --------------------------
(***************************************************************************)
(* One controller process (a Ryu application) and one of its switches: the *)
(* queue of OpenFlow events, the registered datapath, the cached role, the *)
(* counters and their samples, and the traffic check the orchestrator      *)
(* bases a migration to this controller on.  RoleChannel and Migration     *)
(* have every controller but neither packets nor counters.                 *)
(*                                                                         *)
(* A controller learns of its connections by events.  A switch may have    *)
(* connected anew long before the controller finds the old connection      *)
(* dead.                                                                   *)
(***************************************************************************)
EXTENDS Naturals, Sequences

CONSTANTS
  MaxConns,      \* bound on the connections of the switch
  MaxPackets,    \* bound on the packets it sends to the controller
  MaxRestarts,   \* bound on the restarts of the controller
  MaxRounds      \* bound on the migrations to the controller

ASSUME ProcessAssumption ==
  /\ MaxConns \in Nat \ {0}
  /\ MaxPackets \in Nat /\ MaxRestarts \in Nat /\ MaxRounds \in Nat

VARIABLES
  queue,       \* events of the application, handled one after the other
  datapath,    \* the connection self.datapaths has for the switch, 0 if none
  cachedRole,  \* what the role manager has for the switch
  counters,    \* telemetry of the switch: registered, processed, flowMods
  latest,      \* the last sample of the counters, and how much work there was by then
  conns,       \* connections ever made
  linked,      \* the one the switch uses, 0 if none
  undead,      \* connections that ended without the controller having noticed
  swRole,      \* the role the switch gives this controller
  step,        \* where the orchestrator is with a migration to or from it
  request,     \* its last role request: xid, and the answer or "pending"
  before,      \* the sample the traffic check compares with, and the work by the first one
  rounds, packets, restarts,
  work,        \* packets this controller processed, in all its lives
  granted      \* how many of them by the time the switch made it MASTER

appVars == <<queue, datapath, cachedRole, counters, latest>>
netVars == <<conns, linked, undead, swRole>>
checkVars == <<step, request, before, rounds>>
boundVars == <<packets, restarts>>
ghostVars == <<work, granted>>
processVars == <<appVars, netVars, checkVars, boundVars, ghostVars>>

Conns == 1 .. MaxConns
Steps == {"idle", "promote", "query", "baseline", "packetIn", "flowBaseline",
          "flowTest", "flowMod", "passed", "failed", "handover", "locked"}

NoCounters == [registered |-> FALSE, processed |-> 0, flowMods |-> 0]
NoSample == [of |-> NoCounters, work |-> 0]
NoRequest == [xid |-> 0, answer |-> "pending"]

Event(kind, conn) == [kind |-> kind, conn |-> conn, role |-> "NONE", xid |-> 0]
RoleReply(conn, role, xid) ==
  [kind |-> "reply", conn |-> conn, role |-> role, xid |-> xid]

ProcessInit ==
  /\ queue = <<>> /\ datapath = 0 /\ cachedRole = "UNKNOWN"
  /\ counters = NoCounters /\ latest = NoSample
  /\ conns = 0 /\ linked = 0 /\ undead = {} /\ swRole = "EQUAL"
  /\ step = "idle" /\ request = NoRequest /\ before = NoSample
  /\ rounds = 0 /\ packets = 0 /\ restarts = 0
  /\ work = 0 /\ granted = 0

-----------------------------------------------------------------------------
(* The connections (Ryu and the switch).                                   *)

\* The switch connects, also anew; the old connection may still be found dead.
Connect ==
  /\ linked = 0 /\ conns < MaxConns
  /\ conns' = conns + 1
  /\ linked' = conns + 1
  /\ swRole' = "EQUAL"
  /\ queue' = queue \o <<Event("features", conns + 1), Event("main", conns + 1)>>
  /\ UNCHANGED <<datapath, cachedRole, counters, latest, undead, checkVars, boundVars,
                 ghostVars>>

\* The connection breaks, which the controller does not see yet.
Disconnect ==
  /\ linked # 0
  /\ linked' = 0
  /\ undead' = undead \cup {linked}
  /\ UNCHANGED <<appVars, conns, swRole, checkVars, boundVars, ghostVars>>

NoticeDead(c) ==
  /\ c \in undead
  /\ undead' = undead \ {c}
  /\ queue' = Append(queue, Event("dead", c))
  /\ UNCHANGED <<datapath, cachedRole, counters, latest, conns, linked, swRole,
                 checkVars, boundVars, ghostVars>>

\* A table miss: a SLAVE gets none.
SendPacket ==
  /\ packets < MaxPackets /\ linked # 0 /\ swRole # "SLAVE"
  /\ packets' = packets + 1
  /\ queue' = Append(queue, Event("packet", linked))
  /\ UNCHANGED <<datapath, cachedRole, counters, latest, netVars, checkVars, restarts,
                 ghostVars>>

\* A new process: it knows nothing, and the switch is not connected to it.
RestartController ==
  /\ restarts < MaxRestarts
  /\ restarts' = restarts + 1
  /\ queue' = <<>> /\ datapath' = 0 /\ cachedRole' = "UNKNOWN"
  /\ counters' = NoCounters /\ latest' = NoSample
  /\ linked' = 0 /\ undead' = {}
  /\ request' = [request EXCEPT !.answer = "pending"]
  /\ UNCHANGED <<conns, swRole, step, before, rounds, packets, ghostVars>>

-----------------------------------------------------------------------------
(* The handlers of the application.                                        *)

Handles(kind) == queue # <<>> /\ Head(queue).kind = kind

\* RoleManager.register_datapath keeps a role it has.
RegisteredRole == IF cachedRole = "UNKNOWN" THEN "EQUAL" ELSE cachedRole

FeaturesArrive ==
  /\ Handles("features")
  /\ queue' = Tail(queue)
  /\ cachedRole' = RegisteredRole
  /\ counters' = [counters EXCEPT !.registered = TRUE, !.flowMods = @ + 1]
  /\ UNCHANGED <<datapath, latest, netVars, checkVars, boundVars, ghostVars>>

ChannelIsUp ==
  /\ Handles("main")
  /\ queue' = Tail(queue)
  /\ datapath' = Head(queue).conn
  /\ cachedRole' = RegisteredRole
  /\ counters' = [counters EXCEPT !.registered = TRUE]
  /\ UNCHANGED <<latest, netVars, checkVars, boundVars, ghostVars>>

\* Mutant of ChannelIsDown: the event is only logged.
ChannelIsDownLogged ==
  /\ Handles("dead")
  /\ queue' = Tail(queue)
  /\ UNCHANGED <<datapath, cachedRole, counters, latest, netVars, checkVars, boundVars,
                 ghostVars>>

\* The entry of the switch is dropped, whichever connection it names.
ChannelIsDown ==
  /\ Handles("dead")
  /\ queue' = Tail(queue)
  /\ datapath' = 0
  /\ UNCHANGED <<cachedRole, counters, latest, netVars, checkVars, boundVars, ghostVars>>

Processes == cachedRole = "MASTER"

\* A flow is installed if the destination has been learned, else the packet is flooded.
PacketArrives ==
  /\ Handles("packet")
  /\ queue' = Tail(queue)
  /\ IF Processes
       THEN /\ work' = work + 1
            /\ \E flow \in {0, 1} :
                 counters' = [counters EXCEPT !.processed = @ + 1, !.flowMods = @ + flow]
       ELSE UNCHANGED <<work, counters>>
  /\ UNCHANGED <<datapath, cachedRole, latest, netVars, checkVars, boundVars, granted>>

RoleReplyArrives ==
  /\ Handles("reply")
  /\ queue' = Tail(queue)
  /\ cachedRole' = Head(queue).role
  /\ request' = IF request.xid = Head(queue).xid
                  THEN [request EXCEPT !.answer = Head(queue).role] ELSE request
  /\ UNCHANGED <<datapath, counters, latest, netVars, step, before, rounds, boundVars,
                 ghostVars>>

\* The telemetry loop, once a second; a round that raises changes nothing.
Sample ==
  /\ latest' = [of |-> counters, work |-> work]
  /\ UNCHANGED <<queue, datapath, cachedRole, counters, netVars, checkVars, boundVars,
                 ghostVars>>

-----------------------------------------------------------------------------
(* What the orchestrator asks of it.                                       *)

\* A role request over the registered datapath: 404 if there is none.  A dead
\* connection takes the message and delivers nothing.
AskRole(role, next) ==
  LET xid == request.xid + 1
      new == IF role = "NOCHANGE" THEN swRole ELSE role
  IN IF datapath = 0
       THEN step' = "failed" /\ UNCHANGED <<queue, swRole, request>>
       ELSE /\ step' = next
            /\ request' = [xid |-> xid, answer |-> "pending"]
            /\ IF datapath = linked
                 THEN /\ swRole' = new
                      /\ queue' = Append(queue, RoleReply(linked, new, xid))
                 ELSE UNCHANGED <<swRole, queue>>

UnchangedByAsking == UNCHANGED <<datapath, cachedRole, counters, latest, conns, linked,
                                 undead, before, boundVars, work>>

PromoteThis ==
  /\ step = "idle" /\ rounds < MaxRounds
  /\ rounds' = rounds + 1
  /\ AskRole("MASTER", "promote")
  /\ granted' = IF swRole' = "MASTER" THEN work ELSE granted
  /\ UnchangedByAsking

QueryThis ==
  /\ step = "promote" /\ request.answer = "MASTER"
  /\ AskRole("NOCHANGE", "query")
  /\ UNCHANGED <<rounds, granted>> /\ UnchangedByAsking

Goes(from, to) ==
  /\ step = from /\ step' = to
  /\ UNCHANGED <<queue, datapath, cachedRole, latest, netVars, request, rounds, boundVars,
                 ghostVars>>

RolesVerified ==
  /\ request.answer = "MASTER" /\ datapath # 0
  /\ Goes("query", "baseline")
  /\ UNCHANGED <<before, counters>>

\* Mutant of Baseline: a switch that has no sample yet counts from zero.
BaselineOfMissing(from, to) ==
  /\ before' = [of |-> IF latest.of.registered THEN latest.of ELSE NoCounters,
                work |-> IF from = "baseline" THEN work ELSE before.work]
  /\ Goes(from, to)
  /\ UNCHANGED counters

\* The first read of verify_packet_in and of verify_flow_mod.
Baseline(from, to) ==
  /\ latest.of.registered
  /\ before' = [of |-> latest.of,
                work |-> IF from = "baseline" THEN latest.work ELSE before.work]
  /\ Goes(from, to)
  /\ UNCHANGED counters

PacketInVerified ==
  /\ latest.of.registered /\ latest.of.processed > before.of.processed
  /\ Goes("packetIn", "flowBaseline")
  /\ UNCHANGED <<before, counters>>

\* POST flow-test: 404 without a datapath, 409 unless MASTER.
TestFlow ==
  /\ datapath # 0 /\ cachedRole = "MASTER"
  /\ Goes("flowTest", "flowMod")
  /\ counters' = [counters EXCEPT !.flowMods = @ + 1]
  /\ UNCHANGED before

FlowModVerified ==
  /\ latest.of.registered /\ latest.of.flowMods > before.of.flowMods
  /\ Goes("flowMod", "passed")
  /\ UNCHANGED <<before, counters>>

\* A deadline passed, or a read had a reason against the migration.
CheckFails ==
  /\ \E s \in Steps \ {"idle", "passed", "failed", "handover", "locked"} : Goes(s, "failed")
  /\ UNCHANGED <<before, counters>>

\* The switch is given to the other controller, by a rollback or by the next
\* migration, which tells this one nothing; then its role is asked for.
HandOver ==
  /\ step \in {"passed", "failed"}
  /\ swRole' = "SLAVE"
  /\ IF datapath = 0
       THEN step' = "locked" /\ UNCHANGED <<queue, request>>
       ELSE /\ step' = "handover"
            /\ request' = [xid |-> request.xid + 1, answer |-> "pending"]
            /\ queue' = IF datapath = linked
                          THEN Append(queue, RoleReply(linked, "SLAVE", request.xid + 1))
                          ELSE queue
  /\ UNCHANGED <<datapath, cachedRole, counters, latest, conns, linked, undead, before,
                 rounds, boundVars, ghostVars>>

HandedOver ==
  /\ request.answer = "SLAVE"
  /\ Goes("handover", "idle")
  /\ UNCHANGED <<before, counters>>

HandOverFails ==
  /\ Goes("handover", "locked")
  /\ UNCHANGED <<before, counters>>

ProcessNext ==
  \/ Connect \/ Disconnect \/ SendPacket \/ RestartController
  \/ \E c \in Conns : NoticeDead(c)
  \/ FeaturesArrive \/ ChannelIsUp \/ ChannelIsDown \/ PacketArrives \/ RoleReplyArrives
  \/ Sample
  \/ PromoteThis \/ QueryThis \/ RolesVerified
  \/ Baseline("baseline", "packetIn") \/ PacketInVerified
  \/ Baseline("flowBaseline", "flowTest") \/ TestFlow \/ FlowModVerified
  \/ CheckFails \/ HandOver \/ HandedOver \/ HandOverFails

ProcessSpec == ProcessInit /\ [][ProcessNext]_processVars

-----------------------------------------------------------------------------
CounterRecord == [registered : BOOLEAN, processed : Nat, flowMods : Nat]
SampleRecord == [of : CounterRecord, work : Nat]

ControllerTypeOK ==
  /\ datapath \in 0 .. conns /\ linked \in 0 .. conns
  /\ undead \subseteq (1 .. conns) \ {linked}
  /\ cachedRole \in {"UNKNOWN", "EQUAL", "MASTER", "SLAVE"}
  /\ swRole \in {"EQUAL", "MASTER", "SLAVE"}
  /\ counters \in CounterRecord /\ latest \in SampleRecord /\ before \in SampleRecord
  /\ step \in Steps
  /\ \A i \in 1 .. Len(queue) : queue[i].conn \in 1 .. conns
  /\ latest.of.processed <= counters.processed /\ latest.of.flowMods <= counters.flowMods

\* A migration passes the traffic check only if its target processed a packet after
\* the sample that was taken as the baseline, whatever restarts and reconnections
\* happened in between (counters start from zero again, the sample may be missing).
PassedCheckSawWork ==
  step \in {"flowBaseline", "flowTest", "flowMod", "passed"} => work > before.work

\* The controller never keeps a dead connection in self.datapaths: if the registered
\* one is dead, that is still to be noticed, or the event that drops it is waiting.
NoDeadDatapath ==
  datapath \notin {0, linked} =>
    \/ datapath \in undead
    \/ \E i \in 1 .. Len(queue) : queue[i].kind = "dead"

(* README: the verification "waits for a new processed Packet-In on the    *)
(* target": one that it processed since it was made MASTER.                *)
NewPacketWasProcessed ==
  step \in {"flowBaseline", "flowTest", "flowMod", "passed"} => work > granted

(* reactive_controller.py: self.datapaths are the "Active OpenFlow         *)
(* datapaths connected to this controller": once the controller has        *)
(* handled all its events, the connection of the switch is among them.     *)
ConnectedIsRegistered ==
  (queue = <<>> /\ undead = {} /\ linked # 0) => datapath = linked
=============================================================================
