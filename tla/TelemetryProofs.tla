-------------------------- MODULE TelemetryProofs --------------------------
(***************************************************************************)
(* Theorems about the two ends of the telemetry.  ControllerProcess: which *)
(* connection a controller keeps, and what the traffic check has seen, for *)
(* any numbers of connections, packets, restarts and migrations and a      *)
(* queue of any length.  TwinPipeline: what a published twin state tells,  *)
(* for any controllers, switches, roles and lengths of the windows, and    *)
(* however settling migrations and resets meet the telemetry thread.       *)
(***************************************************************************)
EXTENDS ControllerProcess, TwinPipeline, TLAPS

(***************************************************************************)
(* ControllerProcess                                                       *)
(***************************************************************************)
Roles == {"EQUAL", "MASTER", "SLAVE"}
Kinds == {"features", "main", "dead", "packet", "reply"}
Events == [kind : Kinds, conn : Nat \ {0}, role : Roles \cup {"NONE"}, xid : Nat]

ProcessTypeOK ==
  /\ queue \in Seq(Events)
  /\ datapath \in Nat /\ conns \in Nat /\ linked \in Nat
  /\ swRole \in Roles /\ request \in [xid : Nat, answer : Roles \cup {"pending", "NONE"}]
  /\ counters \in CounterRecord /\ latest \in SampleRecord /\ before \in SampleRecord
  /\ work \in Nat

\* A connection that is not the switch's any more will be dropped: the controller has
\* still to find it dead, or the event of that is in the queue, behind position i.
ToBeDropped(conn, i) ==
  conn # linked =>
    \/ conn \in undead
    \/ \E j \in 1 .. Len(queue) : j > i /\ queue[j].kind = "dead"

\* That holds of the registered connection and of those about to be registered.
DeadAreDropped ==
  /\ datapath # 0 => ToBeDropped(datapath, 0)
  /\ \A i \in 1 .. Len(queue) : queue[i].kind = "main" => ToBeDropped(queue[i].conn, i)

\* The counters never grow by more than the work that was done, since the last sample
\* and since the baseline; a restart makes them smaller.
CountersCountWork ==
  /\ latest.of.processed <= counters.processed
  /\ counters.processed + latest.work <= work + latest.of.processed
  /\ before.work <= work /\ latest.work <= work
  /\ step = "packetIn" => counters.processed + before.work <= work + before.of.processed
  /\ PassedCheckSawWork

ProcessInvariant == ProcessTypeOK /\ DeadAreDropped /\ CountersCountWork

-----------------------------------------------------------------------------
(* The queue                                                               *)

LEMMA Handled ==
  ASSUME ProcessTypeOK, queue # <<>>
  PROVE  /\ Head(queue) \in Events /\ Head(queue) = queue[1] /\ 1 \in 1 .. Len(queue)
         /\ Tail(queue) \in Seq(Events) /\ Len(queue) \in Nat
         /\ Len(Tail(queue)) = Len(queue) - 1
         /\ \A i \in 1 .. Len(queue) - 1 : Tail(queue)[i] = queue[i + 1]
  BY DEF ProcessTypeOK

LEMMA Enqueued ==
  ASSUME ProcessTypeOK, NEW event \in Events
  PROVE  /\ Append(queue, event) \in Seq(Events) /\ Len(queue) \in Nat
         /\ Len(Append(queue, event)) = Len(queue) + 1
         /\ \A i \in 1 .. Len(queue) : Append(queue, event)[i] = queue[i]
         /\ Append(queue, event)[Len(queue) + 1] = event
  BY DEF ProcessTypeOK

\* A handler that takes the first event and registers no connection but that of a
\* "main" event.
LEMMA HandlingDrops ==
  ASSUME ProcessTypeOK, DeadAreDropped, queue # <<>>, queue' = Tail(queue),
         UNCHANGED <<linked, undead>>,
         \/ datapath' = 0
         \/ datapath' = datapath /\ Head(queue).kind # "dead"
         \/ datapath' = Head(queue).conn /\ Head(queue).kind = "main"
  PROVE  DeadAreDropped'
<1>1. ASSUME NEW conn, NEW i \in 1 .. Len(queue), ToBeDropped(conn, i)
      PROVE  ToBeDropped(conn, i - 1)'
  <2>1. CASE conn = linked \/ conn \in undead
    BY <2>1 DEF ToBeDropped
  <2>2. CASE ~(conn = linked \/ conn \in undead)
    <3>1. PICK j \in 1 .. Len(queue) : j > i /\ queue[j].kind = "dead"
      BY <1>1, <2>2 DEF ToBeDropped
    <3>2. j - 1 \in 1 .. Len(queue') /\ j - 1 > i - 1 /\ queue'[j - 1].kind = "dead"
      BY <3>1, Handled
    <3>. QED
      BY <3>2 DEF ToBeDropped
  <2>. QED
    BY <2>1, <2>2
<1>2. ASSUME NEW conn, ToBeDropped(conn, 0), Head(queue).kind # "dead"
      PROVE  ToBeDropped(conn, 1)
  <2>. SUFFICES ASSUME conn # linked, conn \notin undead
               PROVE  \E j \in 1 .. Len(queue) : j > 1 /\ queue[j].kind = "dead"
    BY DEF ToBeDropped
  <2>1. PICK j \in 1 .. Len(queue) : j > 0 /\ queue[j].kind = "dead"
    BY <1>2 DEF ToBeDropped
  <2>2. j # 1
    BY <1>2, <2>1, Handled
  <2>. QED
    BY <2>1, <2>2, Handled
<1>3. datapath' # 0 => ToBeDropped(datapath, 0)'
  <2>1. CASE datapath' = 0
    BY <2>1
  <2>2. CASE datapath' = datapath /\ Head(queue).kind # "dead"
    BY <1>1, <1>2, <2>2, Handled DEF DeadAreDropped
  <2>3. CASE datapath' = Head(queue).conn /\ Head(queue).kind = "main"
    BY <1>1, <2>3, Handled DEF DeadAreDropped
  <2>. QED
    BY <2>1, <2>2, <2>3
<1>4. ASSUME NEW i \in 1 .. Len(queue'), queue'[i].kind = "main"
      PROVE  ToBeDropped(queue[i].conn, i)'
  <2>1. i + 1 \in 1 .. Len(queue) /\ queue'[i] = queue[i + 1]
    BY Handled
  <2>2. PICK conn : conn = queue[i + 1].conn
    OBVIOUS
  <2>3. ToBeDropped(conn, i + 1)
    BY <1>4, <2>1, <2>2 DEF DeadAreDropped
  <2>4. ToBeDropped(conn, i + 1 - 1)'
    BY <1>1, <2>1, <2>3
  <2>5. i + 1 - 1 = i /\ queue'[i].conn = conn
    BY <2>1, <2>2
  <2>. QED
    BY <2>4, <2>5
<1>. QED
  BY <1>3, <1>4 DEF DeadAreDropped

\* A new event at the end of the queue.
LEMMA EnqueuingDrops ==
  ASSUME ProcessTypeOK, DeadAreDropped, NEW event \in Events, queue' = Append(queue, event),
         UNCHANGED <<datapath, linked>>, event.kind # "main",
         undead' = undead \/ event.kind = "dead"
  PROVE  DeadAreDropped'
<1>1. ASSUME NEW conn, NEW i \in Nat, i <= Len(queue), ToBeDropped(conn, i)
      PROVE  ToBeDropped(conn, i)'
  <2>1. CASE event.kind = "dead"
    BY <1>1, <2>1, Enqueued DEF ToBeDropped
  <2>2. CASE undead' = undead
    BY <1>1, <2>2, Enqueued DEF ToBeDropped
  <2>. QED
    BY <2>1, <2>2
<1>2. datapath' # 0 => ToBeDropped(datapath, 0)'
  BY <1>1, Enqueued DEF DeadAreDropped
<1>3. ASSUME NEW i \in 1 .. Len(queue'), queue'[i].kind = "main"
      PROVE  ToBeDropped(queue[i].conn, i)'
  <2>1. i \in 1 .. Len(queue) /\ queue'[i] = queue[i]
    BY <1>3, Enqueued
  <2>2. ToBeDropped(queue[i].conn, i)
    BY <1>3, <2>1 DEF DeadAreDropped
  <2>. QED
    BY <1>1, <2>1, <2>2
<1>. QED
  BY <1>2, <1>3 DEF DeadAreDropped

-----------------------------------------------------------------------------
(* The invariant                                                           *)

LEMMA ProcessBegins == ASSUME ProcessInit PROVE ProcessInvariant
<1>. USE DEF ProcessInit, NoCounters, NoSample, NoRequest
<1>1. ProcessTypeOK
  BY DEF ProcessTypeOK, Events, Roles, CounterRecord, SampleRecord
<1>2. DeadAreDropped
  BY DEF DeadAreDropped
<1>3. CountersCountWork
  BY DEF CountersCountWork, PassedCheckSawWork
<1>. QED
  BY <1>1, <1>2, <1>3 DEF ProcessInvariant

LEMMA ConnectStep == ASSUME ProcessInvariant, Connect PROVE ProcessInvariant'
<1>. DEFINE one == Event("features", conns + 1)
            two == Event("main", conns + 1)
<1>0. /\ linked = 0 /\ conns \in Nat /\ linked' = conns + 1 /\ conns' = conns + 1
      /\ UNCHANGED <<datapath, cachedRole, counters, latest, undead, checkVars, boundVars,
                     ghostVars>>
      /\ queue' = queue \o <<one, two>> /\ swRole' = "EQUAL" /\ queue \in Seq(Events)
  BY DEF Connect, ProcessInvariant, ProcessTypeOK
<1>1. one \in Events /\ two \in Events /\ two.kind = "main" /\ two.conn = conns + 1
      /\ one.kind = "features"
  BY <1>0 DEF Event, Events, Kinds
<1>. HIDE DEF one, two
<1>2. /\ queue' \in Seq(Events) /\ Len(queue) \in Nat /\ Len(queue') = Len(queue) + 2
      /\ \A i \in 1 .. Len(queue) : queue'[i] = queue[i]
      /\ queue'[Len(queue) + 1] = one /\ queue'[Len(queue) + 2] = two
  BY <1>0, <1>1
<1>3. ProcessTypeOK'
  BY <1>0, <1>2 DEF ProcessInvariant, ProcessTypeOK, checkVars, ghostVars, Roles
<1>4. ASSUME NEW conn \in Nat \ {0}, NEW i \in Nat, i <= Len(queue), ToBeDropped(conn, i)
      PROVE  ToBeDropped(conn, i)'
  BY <1>0, <1>2, <1>4 DEF ToBeDropped
<1>5. datapath' # 0 => ToBeDropped(datapath, 0)'
  BY <1>0, <1>2, <1>4 DEF ProcessInvariant, DeadAreDropped, ProcessTypeOK
<1>6. ASSUME NEW i \in 1 .. Len(queue'), queue'[i].kind = "main"
      PROVE  ToBeDropped(queue[i].conn, i)'
  <2>1. CASE i \in 1 .. Len(queue)
    <3>0. queue[i] \in Events
      BY <2>1, <1>0
    <3>1. PICK conn \in Nat \ {0} : conn = queue[i].conn
      BY <3>0 DEF Events
    <3>2. ToBeDropped(conn, i)
      BY <1>2, <1>6, <2>1, <3>1 DEF ProcessInvariant, DeadAreDropped
    <3>3. ToBeDropped(conn, i)' /\ queue'[i].conn = conn
      BY <1>2, <1>4, <2>1, <3>1, <3>2
    <3>. QED
      BY <3>3
  <2>2. CASE i = Len(queue) + 2
    BY <1>0, <1>1, <1>2, <2>2 DEF ToBeDropped
  <2>. QED
    BY <1>1, <1>2, <1>6, <2>1, <2>2
<1>7. DeadAreDropped'
  BY <1>5, <1>6 DEF DeadAreDropped
<1>8. CountersCountWork'
  BY <1>0 DEF ProcessInvariant, CountersCountWork, PassedCheckSawWork, checkVars, ghostVars
<1>. QED
  BY <1>3, <1>7, <1>8 DEF ProcessInvariant

LEMMA DisconnectStep == ASSUME ProcessInvariant, Disconnect PROVE ProcessInvariant'
<1>0. /\ linked' = 0 /\ undead' = undead \cup {linked}
      /\ UNCHANGED <<appVars, conns, swRole, checkVars, boundVars, ghostVars>>
  BY DEF Disconnect
<1>1. ProcessTypeOK'
  BY <1>0 DEF ProcessInvariant, ProcessTypeOK, appVars, checkVars, ghostVars
<1>2. ASSUME NEW conn, NEW i \in Nat, ToBeDropped(conn, i) PROVE ToBeDropped(conn, i)'
  BY <1>0, <1>2 DEF ToBeDropped, appVars
<1>3. datapath' # 0 => ToBeDropped(datapath, 0)'
  BY <1>0, <1>2 DEF ProcessInvariant, DeadAreDropped, appVars
<1>4. ASSUME NEW i \in 1 .. Len(queue'), queue'[i].kind = "main"
      PROVE  ToBeDropped(queue[i].conn, i)'
  <2>1. PICK conn : conn = queue[i].conn
    OBVIOUS
  <2>2. ToBeDropped(conn, i)
    BY <1>0, <1>4, <2>1 DEF ProcessInvariant, DeadAreDropped, appVars
  <2>3. ToBeDropped(conn, i)' /\ queue'[i].conn = conn /\ i \in Nat
    BY <1>0, <1>2, <2>1, <2>2 DEF appVars
  <2>. QED
    BY <2>3
<1>5. CountersCountWork'
  BY <1>0 DEF ProcessInvariant, CountersCountWork, PassedCheckSawWork, appVars, checkVars,
              ghostVars
<1>. QED
  BY <1>1, <1>3, <1>4, <1>5 DEF ProcessInvariant, DeadAreDropped

LEMMA NoticeDeadStep ==
  ASSUME ProcessInvariant, NEW c \in Conns, NoticeDead(c), c \in Nat \ {0}
  PROVE  ProcessInvariant'
<1>. DEFINE event == Event("dead", c)
<1>0. /\ undead' = undead \ {c} /\ queue' = Append(queue, event)
      /\ UNCHANGED <<datapath, cachedRole, counters, latest, conns, linked, swRole,
                     checkVars, boundVars, ghostVars>>
  BY DEF NoticeDead
<1>1. event \in Events /\ event.kind = "dead"
  BY DEF Event, Events, Kinds
<1>. HIDE DEF event
<1>2. ProcessTypeOK'
  BY <1>0, <1>1, Enqueued DEF ProcessInvariant, ProcessTypeOK, checkVars, ghostVars
<1>3. DeadAreDropped'
  BY <1>0, <1>1, EnqueuingDrops DEF ProcessInvariant
<1>4. CountersCountWork'
  BY <1>0 DEF ProcessInvariant, CountersCountWork, PassedCheckSawWork, checkVars, ghostVars
<1>. QED
  BY <1>2, <1>3, <1>4 DEF ProcessInvariant

LEMMA SendPacketStep == ASSUME ProcessInvariant, SendPacket PROVE ProcessInvariant'
<1>. DEFINE event == Event("packet", linked)
<1>0. /\ linked # 0 /\ linked \in Nat /\ queue' = Append(queue, event)
      /\ UNCHANGED <<datapath, cachedRole, counters, latest, netVars, checkVars, restarts,
                     ghostVars>>
  BY DEF SendPacket, ProcessInvariant, ProcessTypeOK
<1>1. event \in Events /\ event.kind = "packet"
  BY <1>0 DEF Event, Events, Kinds
<1>. HIDE DEF event
<1>2. ProcessTypeOK'
  BY <1>0, <1>1, Enqueued DEF ProcessInvariant, ProcessTypeOK, netVars, checkVars, ghostVars
<1>3. DeadAreDropped'
  BY <1>0, <1>1, EnqueuingDrops DEF ProcessInvariant, netVars
<1>4. CountersCountWork'
  BY <1>0 DEF ProcessInvariant, CountersCountWork, PassedCheckSawWork, checkVars, ghostVars
<1>. QED
  BY <1>2, <1>3, <1>4 DEF ProcessInvariant

\* Everything the process knew is gone; the baseline of a check that is going on stays.
LEMMA RestartStep == ASSUME ProcessInvariant, RestartController PROVE ProcessInvariant'
<1>1. /\ queue' = <<>> /\ datapath' = 0 /\ counters' = NoCounters /\ latest' = NoSample
      /\ linked' = 0 /\ request' = [request EXCEPT !.answer = "pending"]
      /\ UNCHANGED <<conns, swRole, step, before, work>>
  BY DEF RestartController, ghostVars
<1>2. /\ ProcessTypeOK /\ DeadAreDropped /\ CountersCountWork
      /\ counters' \in CounterRecord /\ counters'.processed = 0
      /\ latest' \in SampleRecord /\ latest'.of.processed = 0 /\ latest'.work = 0
  BY <1>1 DEF ProcessInvariant, NoCounters, NoSample, CounterRecord, SampleRecord
<1>3. request' \in [xid : Nat, answer : Roles \cup {"pending", "NONE"}]
  BY <1>1, <1>2 DEF ProcessTypeOK
<1>4. queue' \in Seq(Events) /\ Len(queue') = 0
  BY <1>1
<1>5. ProcessTypeOK'
  BY <1>1, <1>2, <1>3, <1>4 DEF ProcessTypeOK
<1>6. DeadAreDropped'
  BY <1>1, <1>4 DEF DeadAreDropped
<1>7. CountersCountWork'
  <2>1. /\ work \in Nat /\ before.work \in Nat /\ before.of.processed \in Nat
        /\ before.work <= work
    BY <1>2 DEF ProcessTypeOK, SampleRecord, CounterRecord, CountersCountWork
  <2>2. PassedCheckSawWork'
    BY <1>1, <1>2 DEF CountersCountWork, PassedCheckSawWork
  <2>. QED
    BY <1>1, <1>2, <2>1, <2>2 DEF CountersCountWork
<1>. QED
  BY <1>5, <1>6, <1>7 DEF ProcessInvariant

-----------------------------------------------------------------------------
\* The handlers: each takes the first event of the queue.

LEMMA CountersGrow ==
  ASSUME NEW c \in CounterRecord
  PROVE  /\ [c EXCEPT !.processed = @ + 1] \in CounterRecord
         /\ [c EXCEPT !.processed = @ + 1].processed = c.processed + 1
         /\ \A m \in {0, 1} : /\ [c EXCEPT !.flowMods = @ + m] \in CounterRecord
                             /\ [c EXCEPT !.flowMods = @ + m].processed = c.processed
         /\ [c EXCEPT !.registered = TRUE] \in CounterRecord
         /\ [c EXCEPT !.registered = TRUE].processed = c.processed
<1>1. c.processed \in Nat /\ c.flowMods \in Nat /\ c.registered \in BOOLEAN
  BY DEF CounterRecord
<1>2. /\ [c EXCEPT !.processed = @ + 1] \in CounterRecord
      /\ [c EXCEPT !.processed = @ + 1].processed = c.processed + 1
  BY <1>1 DEF CounterRecord
<1>3. ASSUME NEW m \in {0, 1}
      PROVE  /\ [c EXCEPT !.flowMods = @ + m] \in CounterRecord
             /\ [c EXCEPT !.flowMods = @ + m].processed = c.processed
  <2>1. c.flowMods + m \in Nat
    BY <1>1
  <2>. QED
    BY <2>1 DEF CounterRecord
<1>4. /\ [c EXCEPT !.registered = TRUE] \in CounterRecord
      /\ [c EXCEPT !.registered = TRUE].processed = c.processed
  BY DEF CounterRecord
<1>. QED
  BY <1>2, <1>3, <1>4

LEMMA HandlersStep ==
  ASSUME ProcessInvariant,
         \/ FeaturesArrive \/ ChannelIsUp \/ ChannelIsDown \/ PacketArrives
         \/ RoleReplyArrives
  PROVE  ProcessInvariant'
<1>0. /\ queue # <<>> /\ queue' = Tail(queue) /\ Head(queue) \in Events
      /\ UNCHANGED <<latest, netVars, step, before>>
      /\ \/ datapath' = 0
         \/ datapath' = datapath /\ Head(queue).kind # "dead"
         \/ datapath' = Head(queue).conn /\ Head(queue).kind = "main"
  BY Handled DEF FeaturesArrive, ChannelIsUp, ChannelIsDown, PacketArrives, RoleReplyArrives,
                 Handles, checkVars, ProcessInvariant
<1>1. DeadAreDropped'
  BY <1>0, HandlingDrops DEF ProcessInvariant, netVars
<1>2. request' \in [xid : Nat, answer : Roles \cup {"pending", "NONE"}]
  <2>1. CASE RoleReplyArrives
    BY <1>0, <2>1 DEF RoleReplyArrives, ProcessInvariant, ProcessTypeOK, Events
  <2>2. CASE FeaturesArrive \/ ChannelIsUp \/ ChannelIsDown \/ PacketArrives
    BY <2>2 DEF FeaturesArrive, ChannelIsUp, ChannelIsDown, PacketArrives, checkVars,
                ProcessInvariant, ProcessTypeOK
  <2>. QED
    BY <2>1, <2>2
<1>3. PICK n \in {0, 1} :
        /\ counters' \in CounterRecord /\ counters'.processed = counters.processed + n
        /\ work' = work + n
  <2>0. counters \in CounterRecord /\ work \in Nat
    BY DEF ProcessInvariant, ProcessTypeOK
  <2>1. CASE PacketArrives /\ Processes
    <3>1. PICK flow \in {0, 1} :
            counters' = [counters EXCEPT !.processed = @ + 1, !.flowMods = @ + flow]
      BY <2>1 DEF PacketArrives
    <3>. DEFINE once == [counters EXCEPT !.processed = @ + 1]
    <3>2. once \in CounterRecord /\ once.processed = counters.processed + 1
      BY <2>0, CountersGrow
    <3>3. counters' = [once EXCEPT !.flowMods = @ + flow]
      BY <2>0, <3>1 DEF CounterRecord
    <3>. HIDE DEF once
    <3>4. counters' \in CounterRecord /\ counters'.processed = counters.processed + 1
      BY <3>2, <3>3, CountersGrow
    <3>5. work' = work + 1
      BY <2>1 DEF PacketArrives
    <3>. QED
      BY <3>4, <3>5
  <2>2. CASE FeaturesArrive
    <3>. DEFINE once == [counters EXCEPT !.registered = TRUE]
    <3>1. once \in CounterRecord /\ once.processed = counters.processed
      BY <2>0, CountersGrow
    <3>2. counters' = [once EXCEPT !.flowMods = @ + 1]
      BY <2>0, <2>2 DEF FeaturesArrive, CounterRecord
    <3>. HIDE DEF once
    <3>3. counters' \in CounterRecord /\ counters'.processed = counters.processed
      BY <3>1, <3>2, CountersGrow
    <3>4. work' = work + 0 /\ counters'.processed = counters.processed + 0
      BY <2>0, <2>2, <3>3 DEF FeaturesArrive, ghostVars, CounterRecord
    <3>. QED
      BY <3>3, <3>4
  <2>4. CASE ChannelIsUp
    <3>1. counters' \in CounterRecord /\ counters'.processed = counters.processed
      BY <2>0, <2>4, CountersGrow DEF ChannelIsUp
    <3>2. work' = work + 0 /\ counters'.processed = counters.processed + 0
      BY <2>0, <2>4, <3>1 DEF ChannelIsUp, ghostVars, CounterRecord
    <3>. QED
      BY <3>1, <3>2
  <2>3. CASE ChannelIsDown \/ RoleReplyArrives \/ (PacketArrives /\ ~Processes)
    <3>1. /\ counters' \in CounterRecord /\ counters'.processed = counters.processed + 0
          /\ work' = work + 0
      BY <2>3 DEF ChannelIsDown, RoleReplyArrives, PacketArrives, ProcessInvariant,
                  ProcessTypeOK, CounterRecord, ghostVars
    <3>. QED
      BY <3>1
  <2>. QED
    BY <2>1, <2>2, <2>3, <2>4
<1>4. work' \in Nat /\ work' >= work /\ counters'.processed \in Nat
  BY <1>3 DEF CounterRecord, ProcessInvariant, ProcessTypeOK
<1>5. datapath' \in Nat /\ queue' \in Seq(Events)
  BY <1>0, Handled DEF ProcessInvariant, ProcessTypeOK, Events
<1>6. ProcessTypeOK'
  BY <1>0, <1>2, <1>3, <1>4, <1>5 DEF ProcessInvariant, ProcessTypeOK, netVars
<1>7. CountersCountWork'
  <2>1. /\ counters.processed \in Nat /\ work \in Nat /\ latest.work \in Nat /\ before.work \in Nat
        /\ latest.of.processed \in Nat /\ before.of.processed \in Nat
    BY DEF ProcessInvariant, ProcessTypeOK, CounterRecord, SampleRecord
  <2>2. /\ latest.of.processed <= counters'.processed /\ before.work <= work'
        /\ counters'.processed + latest.work <= work' + latest.of.processed
        /\ latest.work <= work'
        /\ step = "packetIn" => counters'.processed + before.work <= work' + before.of.processed
    BY <1>3, <1>4, <2>1 DEF ProcessInvariant, CountersCountWork
  <2>3. step \in {"flowBaseline", "flowTest", "flowMod", "passed"} => work' > before.work
    BY <1>4, <2>1 DEF ProcessInvariant, CountersCountWork, PassedCheckSawWork
  <2>. QED
    BY <1>0, <2>2, <2>3 DEF CountersCountWork, PassedCheckSawWork
<1>. QED
  BY <1>1, <1>6, <1>7 DEF ProcessInvariant

\* A step that leaves the connections and the events alone.
LEMMA QuietDrops ==
  ASSUME DeadAreDropped, UNCHANGED <<queue, datapath, linked, undead>>
  PROVE  DeadAreDropped'
  BY DEF DeadAreDropped, ToBeDropped

LEMMA SampleStep == ASSUME ProcessInvariant, Sample PROVE ProcessInvariant'
<1>. USE DEF ProcessInvariant
<1>0. /\ latest' = [of |-> counters, work |-> work]
      /\ UNCHANGED <<queue, datapath, cachedRole, counters, netVars, checkVars, boundVars,
                     ghostVars>>
  BY DEF Sample
<1>1. latest' \in SampleRecord /\ latest'.of = counters /\ latest'.work = work
  BY <1>0 DEF ProcessTypeOK, SampleRecord
<1>2. ProcessTypeOK'
  BY <1>0, <1>1 DEF ProcessTypeOK, netVars, checkVars, ghostVars
<1>3. DeadAreDropped'
  BY <1>0, QuietDrops DEF netVars
<1>4. CountersCountWork'
  BY <1>0, <1>1 DEF CountersCountWork, PassedCheckSawWork, ProcessTypeOK, SampleRecord,
                    CounterRecord, checkVars, ghostVars
<1>. QED
  BY <1>2, <1>3, <1>4

-----------------------------------------------------------------------------
\* What the orchestrator asks of the process.

\* A role request: the switch may change its role and answer over its connection.
LEMMA RequestStep ==
  ASSUME ProcessInvariant, NEW event \in Events, event.kind = "reply",
         queue' \in {queue, Append(queue, event)}, swRole' \in Roles,
         request' \in [xid : Nat, answer : Roles \cup {"pending", "NONE"}],
         step' \notin {"packetIn", "flowBaseline", "flowTest", "flowMod", "passed"},
         UNCHANGED <<datapath, cachedRole, counters, latest, conns, linked, undead, before,
                     work>>
  PROVE  ProcessInvariant'
<1>. USE DEF ProcessInvariant
<1>1. ProcessTypeOK'
  BY Enqueued DEF ProcessTypeOK
<1>2. DeadAreDropped'
  BY QuietDrops, EnqueuingDrops
<1>3. CountersCountWork'
  BY DEF CountersCountWork, PassedCheckSawWork
<1>. QED
  BY <1>1, <1>2, <1>3

LEMMA ReplyIsEvent ==
  ASSUME NEW conn \in Nat \ {0}, NEW role \in Roles, NEW xid \in Nat
  PROVE  RoleReply(conn, role, xid) \in Events /\ RoleReply(conn, role, xid).kind = "reply"
  BY DEF RoleReply, Events, Kinds

LEMMA AskingStep ==
  ASSUME ProcessInvariant, PromoteThis \/ QueryThis PROVE ProcessInvariant'
<1>. USE DEF ProcessInvariant
<1>0. UnchangedByAsking
  BY DEF PromoteThis, QueryThis
<1>1. PICK role \in {"MASTER", "NOCHANGE"}, next \in {"promote", "query"} : AskRole(role, next)
  BY DEF PromoteThis, QueryThis
<1>. DEFINE xid == request.xid + 1
            new == IF role = "NOCHANGE" THEN swRole ELSE role
<1>2. new \in Roles /\ xid \in Nat /\ request \in [xid : Nat, answer : Roles \cup {"pending", "NONE"}]
      /\ swRole \in Roles /\ linked \in Nat
  BY DEF ProcessTypeOK, Roles
<1>3. CASE datapath = 0
  <2>1. step' = "failed" /\ UNCHANGED <<queue, swRole, request>>
    BY <1>1, <1>3 DEF AskRole
  <2>2. RoleReply(1, swRole, 0) \in Events /\ RoleReply(1, swRole, 0).kind = "reply"
    BY <1>2, ReplyIsEvent
  <2>. QED
    BY <1>0, <1>2, <2>1, <2>2, RequestStep DEF UnchangedByAsking
<1>4. CASE datapath # 0 /\ datapath # linked
  <2>1. /\ step' = next /\ request' = [xid |-> xid, answer |-> "pending"]
        /\ UNCHANGED <<swRole, queue>>
    BY <1>1, <1>4 DEF AskRole
  <2>2. RoleReply(1, swRole, 0) \in Events /\ RoleReply(1, swRole, 0).kind = "reply"
    BY <1>2, ReplyIsEvent
  <2>. QED
    BY <1>0, <1>2, <2>1, <2>2, RequestStep DEF UnchangedByAsking
<1>5. CASE datapath # 0 /\ datapath = linked
  <2>1. /\ step' = next /\ request' = [xid |-> xid, answer |-> "pending"]
        /\ swRole' = new /\ queue' = Append(queue, RoleReply(linked, new, xid))
    BY <1>1, <1>5 DEF AskRole
  <2>2. RoleReply(linked, new, xid) \in Events /\ RoleReply(linked, new, xid).kind = "reply"
    BY <1>2, <1>5, ReplyIsEvent
  <2>. QED
    BY <1>0, <1>2, <2>1, <2>2, RequestStep DEF UnchangedByAsking
<1>. QED
  BY <1>3, <1>4, <1>5

LEMMA HandOverStep == ASSUME ProcessInvariant, HandOver PROVE ProcessInvariant'
<1>. USE DEF ProcessInvariant
<1>. DEFINE event == RoleReply(IF linked = 0 THEN 1 ELSE linked, "SLAVE", request.xid + 1)
<1>0. /\ swRole' \in Roles /\ step' \in {"locked", "handover"}
      /\ request' \in [xid : Nat, answer : Roles \cup {"pending", "NONE"}]
      /\ UNCHANGED <<datapath, cachedRole, counters, latest, conns, linked, undead, before,
                     rounds, boundVars, ghostVars>>
  BY DEF HandOver, ProcessTypeOK, Roles
<1>1. queue' \in {queue, Append(queue, event)}
  BY DEF HandOver
<1>2. event \in Events /\ event.kind = "reply"
  BY ReplyIsEvent DEF ProcessTypeOK, Roles
<1>. HIDE DEF event
<1>. QED
  BY <1>0, <1>1, <1>2, RequestStep DEF ghostVars

\* A step of the check that reads the sample at most.
LEMMA GoesStep ==
  ASSUME ProcessInvariant, NEW from \in Steps, NEW to \in Steps, Goes(from, to),
         counters' \in CounterRecord, counters'.processed = counters.processed,
         before' \in SampleRecord, before'.work <= work, to # "packetIn",
         to \in {"flowBaseline", "flowTest", "flowMod", "passed"} => work > before'.work
  PROVE  ProcessInvariant'
<1>. USE DEF ProcessInvariant
<1>1. ProcessTypeOK'
  BY DEF ProcessTypeOK, Goes, netVars, ghostVars
<1>2. DeadAreDropped'
  BY QuietDrops DEF Goes, netVars
<1>3. CountersCountWork'
  BY DEF CountersCountWork, PassedCheckSawWork, Goes, ghostVars
<1>. QED
  BY <1>1, <1>2, <1>3

\* The baseline of the Packet-In test: later counters are compared with this sample.
LEMMA FirstBaselineStep ==
  ASSUME ProcessInvariant, Baseline("baseline", "packetIn") PROVE ProcessInvariant'
<1>. USE DEF ProcessInvariant
<1>0. /\ before' = [of |-> latest.of, work |-> latest.work]
      /\ step' = "packetIn"
      /\ UNCHANGED <<queue, datapath, cachedRole, latest, netVars, request, rounds, boundVars,
                     ghostVars, counters>>
  BY DEF Baseline, Goes
<1>1. before' \in SampleRecord /\ before'.of = latest.of /\ before'.work = latest.work
  BY <1>0 DEF ProcessTypeOK, SampleRecord
<1>2. ProcessTypeOK'
  BY <1>0, <1>1 DEF ProcessTypeOK, netVars, ghostVars
<1>3. DeadAreDropped'
  BY <1>0, QuietDrops DEF netVars
<1>4. CountersCountWork'
  BY <1>0, <1>1 DEF CountersCountWork, PassedCheckSawWork, ghostVars
<1>. QED
  BY <1>2, <1>3, <1>4

\* A sample above the baseline was taken after a packet was processed: the counters
\* never run ahead of the work.
LEMMA CheckStep ==
  ASSUME ProcessInvariant,
         \/ RolesVerified \/ PacketInVerified \/ Baseline("flowBaseline", "flowTest")
         \/ TestFlow \/ FlowModVerified \/ CheckFails \/ HandedOver \/ HandOverFails
  PROVE  ProcessInvariant'
<1>. USE DEF ProcessInvariant
<1>0. /\ counters \in CounterRecord /\ before \in SampleRecord /\ latest \in SampleRecord
      /\ work \in Nat /\ before.work <= work
  BY DEF ProcessTypeOK, CountersCountWork
<1>1. CASE RolesVerified \/ HandedOver \/ HandOverFails
  BY <1>0, <1>1, GoesStep DEF RolesVerified, HandedOver, HandOverFails, Steps
<1>2. CASE PacketInVerified
  <2>1. step = "packetIn" /\ latest.of.processed > before.of.processed
    BY <1>2 DEF PacketInVerified, Goes
  <2>2. work > before.work
    BY <1>0, <2>1 DEF CountersCountWork, CounterRecord, SampleRecord
  <2>. QED
    BY <1>0, <1>2, <2>2, GoesStep DEF PacketInVerified, Steps
<1>3. CASE Baseline("flowBaseline", "flowTest")
  <2>1. /\ before' = [of |-> latest.of, work |-> before.work] /\ counters' = counters
        /\ Goes("flowBaseline", "flowTest") /\ step = "flowBaseline"
    BY <1>3 DEF Baseline, Goes
  <2>2. before' \in SampleRecord /\ before'.work = before.work
    BY <1>0, <2>1 DEF SampleRecord
  <2>. QED
    BY <1>0, <2>1, <2>2, GoesStep DEF CountersCountWork, PassedCheckSawWork, Steps
<1>4. CASE TestFlow
  <2>1. Goes("flowTest", "flowMod") /\ before' = before /\ step = "flowTest"
    BY <1>4 DEF TestFlow, Goes
  <2>2. counters' \in CounterRecord /\ counters'.processed = counters.processed
    BY <1>0, <1>4 DEF TestFlow, CounterRecord
  <2>. QED
    BY <1>0, <2>1, <2>2, GoesStep DEF CountersCountWork, PassedCheckSawWork, Steps
<1>5. CASE FlowModVerified
  <2>1. Goes("flowMod", "passed") /\ step = "flowMod"
    BY <1>5 DEF FlowModVerified, Goes
  <2>. QED
    BY <1>0, <1>5, <2>1, GoesStep DEF FlowModVerified, CountersCountWork, PassedCheckSawWork,
                                      Steps
<1>6. CASE CheckFails
  <2>1. PICK s \in Steps : Goes(s, "failed")
    BY <1>6 DEF CheckFails
  <2>. QED
    BY <1>0, <1>6, <2>1, GoesStep DEF CheckFails, Steps
<1>. QED
  BY <1>1, <1>2, <1>3, <1>4, <1>5, <1>6

LEMMA ProcessStutters == ASSUME ProcessInvariant, UNCHANGED processVars PROVE ProcessInvariant'
<1>. USE DEF ProcessInvariant, processVars, appVars, netVars, checkVars, boundVars, ghostVars
<1>1. ProcessTypeOK'
  BY DEF ProcessTypeOK
<1>2. DeadAreDropped'
  BY QuietDrops
<1>3. CountersCountWork'
  BY DEF CountersCountWork, PassedCheckSawWork
<1>. QED
  BY <1>1, <1>2, <1>3

-----------------------------------------------------------------------------
\* A controller process keeps its connections and its counters straight through
\* restarts, reconnections and role changes, with any number of events in its queue.
THEOREM ProcessInvariantHolds == ProcessSpec => []ProcessInvariant
<1>1. ProcessInit => ProcessInvariant
  BY ProcessBegins
<1>2. ProcessInvariant /\ [ProcessNext]_processVars => ProcessInvariant'
  <2>1. ASSUME NEW c \in Conns PROVE c \in Nat \ {0}
    BY ProcessAssumption DEF Conns
  <2>. QED
    BY <2>1, ConnectStep, DisconnectStep, NoticeDeadStep, SendPacketStep, RestartStep,
       HandlersStep, SampleStep, AskingStep, HandOverStep, FirstBaselineStep, CheckStep,
       ProcessStutters DEF ProcessNext
<1>. QED
  BY <1>1, <1>2, PTL DEF ProcessSpec

\* The traffic check passes only after a packet was processed that its baseline sample
\* does not count.
THEOREM CheckSawWork == ProcessSpec => []PassedCheckSawWork
<1>1. ProcessInvariant => PassedCheckSawWork
  BY DEF ProcessInvariant, CountersCountWork
<1>. QED
  BY <1>1, ProcessInvariantHolds, PTL

\* A dead connection does not stay registered: the event that drops it is to come.
THEOREM DeadConnectionsAreDropped == ProcessSpec => []NoDeadDatapath
<1>1. ProcessInvariant => NoDeadDatapath
  BY DEF ProcessInvariant, DeadAreDropped, ToBeDropped, NoDeadDatapath
<1>. QED
  BY <1>1, ProcessInvariantHolds, PTL

-----------------------------------------------------------------------------
(***************************************************************************)
(* TwinPipeline                                                            *)
(***************************************************************************)
RoleMaps == [Switch -> Role]
Polls == [time : Nat \cup {Never}, roles : RoleMaps]
Drafts == [time : Nat, era : Nat, version : Nat \ {0}, ownership : Ownership,
           ok : BOOLEAN, mark : Nat, perfect : BOOLEAN, enough : BOOLEAN]
Snapshots == [time : Nat, version : Nat \ {0}, ownership : Ownership,
              valid : BOOLEAN, perfect : BOOLEAN]
Attempts == [time : Nat, ok : BOOLEAN, era : Nat]

ThreadTypeOK ==
  /\ clock \in Nat /\ resets \in Nat
  /\ register \in Seq(Ownership) /\ version \in Nat \ {0}
  /\ seen \in [Controller -> Polls]
  /\ building \in Drafts /\ twin \in Snapshots \cup {NoSnapshot}
  /\ attempts \in Seq(Attempts)
  /\ lastTrue \in [Switch -> [Controller -> Nat \cup {Never}]]
  /\ failures \subseteq Nat

\* The points of a build that has compared the owners with the roles.
Compared == {"record", "rate", "sum", "divide", "publish"}

\* The draft is of this loop until it is published, and the last twin state of an earlier
\* one.  The window is pruned after a record and before a rate.
DraftIsNew ==
  /\ pruning # "no" => tpc \in {"rate", "sum", "sleep"}
  /\ tpc # "sleep" => building.time = clock
  /\ twin # NoSnapshot => twin.time <= clock /\ (tpc # "sleep" => twin.time < clock)

(***************************************************************************)
(* Owners and versions                                                     *)
(***************************************************************************)
OwnedSince(ownership, v) == \E w \in 1 .. version : w >= v /\ ownership = register[w]

OwnersFollowVersions ==
  /\ tpc \in {"ownership"} \cup Compared => building.version <= version
  /\ tpc \in Compared => OwnedSince(building.ownership, building.version)
  /\ twin # NoSnapshot => OwnedSince(twin.ownership, twin.version)

(***************************************************************************)
(* Owners and roles                                                        *)
(***************************************************************************)
\* The owner's answer that it is MASTER was true when it came, or became so later.
MasterSeenIsTrue ==
  \A s \in Switch :
    LET poll == seen[owner[s]] IN
    poll.time # Never /\ poll.roles[s] = "MASTER" => lastTrue[s][owner[s]] >= poll.time

WasTrue(ownership) == \A s \in Switch : lastTrue[s][ownership[s]] >= clock - MaxAge

RolesWereTrue ==
  /\ \A s \in Switch, c \in Controller : lastTrue[s][c] <= clock
  /\ \A c \in Controller : seen[c].time <= clock
  /\ MasterSeenIsTrue
  /\ tpc \in Compared /\ building.ok => WasTrue(building.ownership)
  /\ twin # NoSnapshot /\ twin.valid /\ twin.time = clock => WasTrue(twin.ownership)

(***************************************************************************)
(* Failures and the window                                                 *)
(***************************************************************************)
Old(t) == t < clock - TwinningWindow
Counted(t) == \E i \in 1 .. Len(attempts) : attempts[i].time = t /\ ~attempts[i].ok

\* A failure since the last reset is in the window, or older than it, or about to be
\* recorded; a perfect rate has seen that none is in the window.
FailuresAreCounted ==
  /\ \A t \in failures : Old(t) \/ Counted(t) \/ (tpc = "record" /\ ~building.ok /\ t = clock)
  /\ tpc = "publish" /\ building.perfect => \A t \in failures : Old(t)
  /\ twin # NoSnapshot /\ twin.perfect /\ twin.time = clock => \A t \in failures : Old(t)

PipelineInvariant ==
  /\ ThreadTypeOK /\ DraftIsNew /\ OwnersFollowVersions /\ RolesWereTrue /\ FailuresAreCounted

-----------------------------------------------------------------------------
LEMMA NewDraftType ==
  ASSUME NEW time \in Nat, NEW era \in Nat
  PROVE  NewDraft(time, era) \in Drafts /\ NewDraft(time, era).time = time
  BY PipelineAssumption DEF NewDraft, Drafts, Ownership

LEMMA PipelineBegins == ASSUME PipelineInit PROVE PipelineInvariant
<1>. USE DEF PipelineInit
<1>1. ThreadTypeOK
  <2>1. building \in Drafts
    BY NewDraftType
  <2>2. seen \in [Controller -> Polls]
    BY DEF Polls, RoleMaps, Role
  <2>3. register \in Seq(Ownership) /\ version = 1
    BY PipelineAssumption DEF Ownership, version
  <2>. QED
    BY <2>1, <2>2, <2>3 DEF ThreadTypeOK
<1>2. DraftIsNew /\ OwnersFollowVersions
  BY NewDraftType DEF DraftIsNew, OwnersFollowVersions, Compared
<1>3. RolesWereTrue
  <2>1. \A s \in Switch : owner[s] \in Controller
    BY PipelineAssumption DEF owner, version
  <2>. QED
    BY <2>1 DEF RolesWereTrue, MasterSeenIsTrue, Compared, Never
<1>4. FailuresAreCounted
  BY DEF FailuresAreCounted
<1>. QED
  BY <1>1, <1>2, <1>3, <1>4 DEF PipelineInvariant

\* The owners of the moment.
LEMMA OwnerIsOne ==
  ASSUME ThreadTypeOK
  PROVE  /\ owner \in Ownership /\ version \in 1 .. version
         /\ \A s \in Switch : owner[s] \in Controller
<1>1. owner \in Ownership
  BY DEF ThreadTypeOK, owner, version
<1>. QED
  BY <1>1 DEF Ownership, ThreadTypeOK

-----------------------------------------------------------------------------
(* Types                                                                   *)

LEMMA AttemptsType ==
  ASSUME ThreadTypeOK, NEW ok \in BOOLEAN, NEW goesOnAt, Record(ok, goesOnAt)
  PROVE  attempts' \in Seq(Attempts)
<1>1. [time |-> clock, ok |-> ok, era |-> building.era] \in Attempts
  BY DEF ThreadTypeOK, Drafts, Attempts
<1>. QED
  BY <1>1 DEF Record, ThreadTypeOK

LEMMA RequestTypes ==
  ASSUME ThreadTypeOK,
         InitRolesResets \/ \E s \in Switch, c \in Controller : Settles(s, c)
  PROVE  ThreadTypeOK'
<1>1. CASE InitRolesResets
  BY <1>1 DEF InitRolesResets, ThreadTypeOK, threadVars, version
<1>2. CASE \E s \in Switch, c \in Controller : Settles(s, c)
  <2>1. PICK s \in Switch, c \in Controller : Settles(s, c)
    BY <1>2
  <2>2. [owner EXCEPT ![s] = c] \in Ownership
    BY OwnerIsOne DEF Ownership
  <2>3. register' \in Seq(Ownership) /\ version' = version + 1 /\ version' \in Nat \ {0}
    BY <2>1, <2>2 DEF Settles, ThreadTypeOK, version
  <2>4. lastTrue' \in [Switch -> [Controller -> Nat \cup {Never}]]
    <3>1. [lastTrue[s] EXCEPT ![c] = clock] \in [Controller -> Nat \cup {Never}]
      BY DEF ThreadTypeOK
    <3>2. lastTrue' = [lastTrue EXCEPT ![s] = [lastTrue[s] EXCEPT ![c] = clock]]
      BY <2>1 DEF Settles
    <3>. QED
      BY <3>1, <3>2 DEF ThreadTypeOK
  <2>. QED
    BY <2>1, <2>3, <2>4 DEF ThreadTypeOK, Settles, threadVars
<1>. QED
  BY <1>1, <1>2

LEMMA PollTypes ==
  ASSUME ThreadTypeOK, NEW c \in Controller,
         PollFails(c) \/ \E roles \in [Switch -> Role] : Collect(c, roles)
  PROVE  ThreadTypeOK'
<1>1. CASE PollFails(c)
  BY <1>1 DEF PollFails, ThreadTypeOK, othersVars, version
<1>2. CASE \E roles \in [Switch -> Role] : Collect(c, roles)
  <2>1. PICK roles \in RoleMaps : Collect(c, roles)
    BY <1>2 DEF RoleMaps
  <2>2. seen' \in [Controller -> Polls]
    BY <2>1 DEF Collect, ThreadTypeOK, Polls
  <2>3. lastTrue' \in [Switch -> [Controller -> Nat \cup {Never}]]
    BY <2>1 DEF Collect, ThreadTypeOK
  <2>. QED
    BY <2>1, <2>2, <2>3 DEF Collect, ThreadTypeOK, othersVars, version
<1>. QED
  BY <1>1, <1>2

LEMMA ThreadTypes ==
  ASSUME ThreadTypeOK, TelemetryThread, UNCHANGED lastTrue PROVE ThreadTypeOK'
<1>. USE DEF ThreadTypeOK, othersVars, version
<1>1. CASE \E delay \in 1 .. MaxDelay : NextLoop(delay)
  <2>1. PICK delay \in 1 .. MaxDelay : NextLoop(delay)
    BY <1>1
  <2>2. clock' \in Nat
    BY <2>1, PipelineAssumption DEF NextLoop
  <2>. QED
    BY <2>1, <2>2, NewDraftType DEF NextLoop
<1>2. CASE NoSnapshotDue \/ PruneTests \/ RatePrunes
  BY <1>2 DEF NoSnapshotDue, PruneTests, RatePrunes
<1>3. CASE ReadVersion
  BY <1>3 DEF ReadVersion, Drafts
<1>4. CASE ReadOwnership
  <2>. DEFINE ok == Fresh /\ Complete /\ Consistent(owner)
  <2>1. building' = [building EXCEPT !.ownership = owner, !.ok = ok] /\ owner \in Ownership
    BY <1>4, OwnerIsOne DEF ReadOwnership
  <2>2. ok \in BOOLEAN
    BY DEF Fresh, Complete, Consistent
  <2>. HIDE DEF ok
  <2>3. building' \in Drafts
    BY <2>1, <2>2 DEF Drafts
  <2>4. failures' \subseteq Nat
    BY <1>4 DEF ReadOwnership
  <2>. QED
    BY <1>4, <2>3, <2>4 DEF ReadOwnership
<1>5. CASE RecordQuality
  <2>1. building.ok \in BOOLEAN
    BY DEF Drafts
  <2>. QED
    BY <1>5, <2>1, AttemptsType DEF RecordQuality, Record
<1>6. CASE RecordFailure
  BY <1>6, AttemptsType DEF RecordFailure, Record
<1>7. CASE PruneDrops
  <2>1. attempts' \in Seq(Attempts)
    <3>1. attempts # <<>> => Tail(attempts) \in Seq(Attempts)
      OBVIOUS
    <3>. QED
      BY <1>7, <3>1 DEF PruneDrops
  <2>. QED
    BY <1>7, <2>1 DEF PruneDrops
<1>8. CASE RateOfNone \/ RateSums
  BY <1>8 DEF RateOfNone, RateSums, Drafts
<1>9. CASE RateDivides
  <2>. DEFINE full == Succeeded = DOMAIN attempts
  <2>1. full \in BOOLEAN /\ RateIsEnough \in BOOLEAN
    BY DEF RateIsEnough
  <2>2. \/ UNCHANGED building
        \/ building' = [building EXCEPT !.perfect = full, !.enough = RateIsEnough]
    BY <1>9 DEF RateDivides
  <2>. HIDE DEF full
  <2>3. building' \in Drafts
    BY <2>1, <2>2 DEF Drafts
  <2>. QED
    BY <1>9, <2>3 DEF RateDivides
<1>10. CASE Publish
  <2>1. twin' \in Snapshots
    <3>. DEFINE valid == building.ok /\ building.enough
    <3>1. valid \in BOOLEAN
      OBVIOUS
    <3>2. twin' = [time |-> building.time, version |-> building.version,
                   ownership |-> building.ownership, perfect |-> building.perfect,
                   valid |-> valid]
      BY <1>10 DEF Publish
    <3>. HIDE DEF valid
    <3>. QED
      BY <3>1, <3>2 DEF Drafts, Snapshots
  <2>2. building' \in Drafts
    BY <1>10, NewDraftType DEF Publish
  <2>. QED
    BY <1>10, <2>1, <2>2 DEF Publish
<1>. QED
  BY <1>1, <1>2, <1>3, <1>4, <1>5, <1>6, <1>7, <1>8, <1>9, <1>10 DEF TelemetryThread

\* What the thread does in a loop, step by step.
ThreadSteps == \/ NoSnapshotDue \/ ReadVersion \/ ReadOwnership \/ RecordQuality \/ RecordFailure
         \/ PruneTests \/ PruneDrops \/ RatePrunes \/ RateOfNone \/ RateSums \/ RateDivides

LEMMA StepsOfALoop ==
  ASSUME ThreadTypeOK, ThreadSteps
  PROVE  /\ UNCHANGED <<clock, register, resets, seen, twin>>
         /\ building'.time = building.time
         /\ ~ReadVersion => building'.version = building.version
         /\ ~ReadOwnership => building'.ownership = building.ownership /\ building'.ok = building.ok
         /\ tpc = "sleep" => tpc' = "sleep" /\ UNCHANGED failures
  BY DEF ThreadTypeOK, Drafts, ThreadSteps, NoSnapshotDue, ReadVersion, ReadOwnership, RecordQuality,
         RecordFailure, Record, PruneTests, PruneDrops, RatePrunes, RateOfNone, RateSums,
         RateDivides, At, othersVars

\* Where a step can lead.
LEMMA StepsGoOn ==
  ASSUME ThreadSteps
  PROVE  /\ tpc' = "ownership" => tpc = "ownership" \/ ReadVersion
         /\ tpc' \in Compared => tpc \in Compared \/ ReadOwnership
         /\ (pruning # "no" => tpc \in {"rate", "sum", "sleep"})
               => (pruning' # "no" => tpc' \in {"rate", "sum", "sleep"})
  BY DEF ThreadSteps, NoSnapshotDue, ReadVersion, ReadOwnership, RecordQuality,
         RecordFailure, Record, PruneTests, PruneDrops, RatePrunes, RateOfNone, RateSums,
         RateDivides, At, Compared

-----------------------------------------------------------------------------
(* The draft and the clock                                                 *)

LEMMA DraftStep ==
  ASSUME ThreadTypeOK, DraftIsNew, PipelineNext PROVE DraftIsNew'
<1>. USE DEF DraftIsNew
<1>0. clock \in Nat /\ (twin # NoSnapshot => twin.time \in Nat)
  BY DEF ThreadTypeOK, Snapshots
<1>1. CASE InitRolesResets \/ \E s \in Switch, c \in Controller : Settles(s, c)
  BY <1>1 DEF InitRolesResets, Settles, threadVars
<1>2. CASE \E c \in Controller : PollFails(c) \/ \E roles \in [Switch -> Role] : Collect(c, roles)
  BY <1>2 DEF PollFails, Collect, At, othersVars
<1>3. CASE \E delay \in 1 .. MaxDelay : NextLoop(delay)
  <2>1. PICK delay \in 1 .. MaxDelay : NextLoop(delay)
    BY <1>3
  <2>2. clock' > clock /\ clock' \in Nat
    BY <1>0, <2>1, PipelineAssumption DEF NextLoop
  <2>3. building'.time = clock'
    BY <2>1, <2>2, NewDraftType DEF NextLoop, ThreadTypeOK
  <2>. QED
    BY <1>0, <2>1, <2>2, <2>3 DEF NextLoop, At
<1>4. CASE ThreadSteps
  BY <1>0, <1>4, StepsOfALoop, StepsGoOn
<1>5. CASE Publish
  <2>1. twin'.time = building.time /\ building.time = clock
    BY <1>5 DEF Publish, At
  <2>. QED
    BY <1>0, <1>5, <2>1 DEF Publish
<1>. QED
  BY <1>1, <1>2, <1>3, <1>4, <1>5 DEF PipelineNext, TelemetryThread, ThreadSteps

-----------------------------------------------------------------------------
(* Owners and versions                                                     *)

\* Versions only grow, and each keeps its owners.
LEMMA RegisterGrows ==
  ASSUME ThreadTypeOK, NEW s \in Switch, NEW c \in Controller, Settles(s, c)
  PROVE  /\ version' = version + 1
         /\ \A v \in 1 .. version : register'[v] = register[v]
         /\ owner' = [owner EXCEPT ![s] = c]
<1>1. [owner EXCEPT ![s] = c] \in Ownership
  BY OwnerIsOne DEF Ownership
<1>. QED
  BY <1>1 DEF Settles, ThreadTypeOK, version, owner

LEMMA OwnersStep ==
  ASSUME ThreadTypeOK, OwnersFollowVersions, PipelineNext PROVE OwnersFollowVersions'
<1>. USE DEF OwnersFollowVersions
<1>0. version \in Nat \ {0}
  BY DEF ThreadTypeOK
<1>1. CASE InitRolesResets
  BY <1>1 DEF InitRolesResets, threadVars, OwnedSince, version
<1>2. CASE \E s \in Switch, c \in Controller : Settles(s, c)
  <2>1. PICK s \in Switch, c \in Controller : Settles(s, c)
    BY <1>2
  <2>2. UNCHANGED threadVars
    BY <2>1 DEF Settles
  <2>3. ASSUME NEW ownership, NEW v, OwnedSince(ownership, v) PROVE OwnedSince(ownership, v)'
    BY <1>0, <2>1, <2>3, RegisterGrows DEF OwnedSince
  <2>4. building.version \in Nat \ {0}
    BY DEF ThreadTypeOK, Drafts
  <2>5. tpc' \in {"ownership"} \cup Compared => building'.version <= version'
    BY <1>0, <2>1, <2>2, <2>4, RegisterGrows DEF threadVars
  <2>6. tpc' \in Compared => OwnedSince(building.ownership, building.version)'
    <3>1. PICK ownership, v : ownership = building.ownership /\ v = building.version
      OBVIOUS
    <3>. QED
      BY <2>2, <2>3, <3>1 DEF threadVars
  <2>7. twin' # NoSnapshot => OwnedSince(twin.ownership, twin.version)'
    <3>1. PICK ownership, v : ownership = twin.ownership /\ v = twin.version
      OBVIOUS
    <3>. QED
      BY <2>2, <2>3, <3>1 DEF threadVars
  <2>. QED
    BY <2>5, <2>6, <2>7
<1>3. CASE \E c \in Controller : PollFails(c) \/ \E roles \in [Switch -> Role] : Collect(c, roles)
  BY <1>3 DEF PollFails, Collect, At, othersVars, OwnedSince, version, Compared
<1>4. CASE \E delay \in 1 .. MaxDelay : NextLoop(delay)
  BY <1>4 DEF NextLoop, othersVars, OwnedSince, version, Compared
<1>5. CASE ThreadSteps
  <2>1. UNCHANGED <<register, twin, version>>
    BY <1>5, StepsOfALoop DEF version
  <2>2. twin' # NoSnapshot => OwnedSince(twin.ownership, twin.version)'
    BY <2>1 DEF OwnedSince
  <2>3. CASE ReadVersion
    <3>1. building'.version = version /\ tpc' = "ownership"
      BY <2>3 DEF ReadVersion, ThreadTypeOK, Drafts
    <3>. QED
      BY <1>0, <2>1, <2>2, <3>1 DEF Compared
  <2>4. CASE ReadOwnership
    <3>1. /\ building'.version = building.version /\ tpc = "ownership"
          /\ building'.ownership = owner /\ tpc' = "record"
      BY <2>4 DEF ReadOwnership, At, ThreadTypeOK, Drafts
    <3>2. building.version \in Nat \ {0} /\ building.version <= version
      BY <3>1 DEF ThreadTypeOK, Drafts
    <3>3. OwnedSince(building.ownership, building.version)'
      BY <1>0, <2>1, <3>1, <3>2 DEF OwnedSince, owner
    <3>. QED
      BY <2>1, <2>2, <3>1, <3>2, <3>3
  <2>5. CASE ~ReadVersion /\ ~ReadOwnership
    <3>1. building'.version = building.version /\ building'.ownership = building.ownership
      BY <1>5, <2>5, StepsOfALoop
    <3>2. /\ tpc' = "ownership" => tpc = "ownership"
          /\ tpc' \in Compared => tpc \in Compared
      BY <1>5, <2>5, StepsGoOn
    <3>. QED
      BY <2>1, <2>2, <3>1, <3>2 DEF OwnedSince
  <2>. QED
    BY <2>3, <2>4, <2>5
<1>6. CASE Publish
  <2>1. /\ tpc = "publish" /\ tpc' = "sleep" /\ UNCHANGED register
        /\ twin'.ownership = building.ownership /\ twin'.version = building.version
    BY <1>6 DEF Publish, At, othersVars
  <2>. QED
    BY <2>1 DEF OwnedSince, version, Compared
<1>. QED
  BY <1>1, <1>2, <1>3, <1>4, <1>5, <1>6 DEF PipelineNext, TelemetryThread, ThreadSteps

-----------------------------------------------------------------------------
(* Owners and roles                                                        *)

Times == Nat \cup {Never}

LEMMA TimesOf ==
  ASSUME ThreadTypeOK
  PROVE  /\ clock \in Nat /\ MaxAge \in Nat /\ MaxDelay \in Nat
         /\ \A s \in Switch, c \in Controller : lastTrue[s][c] \in Times
         /\ \A c \in Controller : seen[c].time \in Times
         /\ building.ownership \in Ownership
         /\ twin # NoSnapshot => twin.ownership \in Ownership /\ twin.time \in Nat
<1>1. clock \in Nat /\ MaxAge \in Nat /\ MaxDelay \in Nat
  BY PipelineAssumption DEF ThreadTypeOK
<1>2. /\ \A s \in Switch, c \in Controller : lastTrue[s][c] \in Times
      /\ \A c \in Controller : seen[c].time \in Times
  BY DEF ThreadTypeOK, Polls, Times
<1>3. /\ building.ownership \in Ownership
      /\ twin # NoSnapshot => twin.ownership \in Ownership /\ twin.time \in Nat
  BY DEF ThreadTypeOK, Drafts, Snapshots
<1>. QED
  BY <1>1, <1>2, <1>3

\* What was seen stays seen as long as the clock stands.
LEMMA SightsStay ==
  ASSUME ThreadTypeOK, ThreadTypeOK', UNCHANGED clock, NEW ownership \in Ownership,
         \A s \in Switch, c \in Controller : lastTrue'[s][c] >= lastTrue[s][c],
         WasTrue(ownership)
  PROVE  \A s \in Switch : lastTrue'[s][ownership[s]] >= clock' - MaxAge
<1>1. \A s \in Switch : ownership[s] \in Controller
  BY DEF Ownership
<1>2. \A s \in Switch, c \in Controller : lastTrue'[s][c] \in Times /\ lastTrue[s][c] \in Times
  BY DEF ThreadTypeOK, Times
<1>. QED
  BY <1>1, <1>2, TimesOf DEF WasTrue, Times, Never

\* A step that leaves the sights alone, and has no new owners to compare.
LEMMA QuietRoles ==
  ASSUME RolesWereTrue, UNCHANGED <<clock, seen, lastTrue, register, twin>>,
         tpc' \in Compared =>
           tpc \in Compared /\ UNCHANGED <<building.ok, building.ownership>>
  PROVE  RolesWereTrue'
  BY DEF RolesWereTrue, MasterSeenIsTrue, WasTrue, owner, version

\* The clock stands, and every sight is kept or renewed.
LEMMA NewSights ==
  ASSUME ThreadTypeOK, ThreadTypeOK', RolesWereTrue, UNCHANGED <<clock, tpc, building, twin>>,
         \A s \in Switch, c \in Controller : lastTrue'[s][c] \in {lastTrue[s][c], clock},
         \A c \in Controller : seen'[c].time \in {seen[c].time, clock},
         MasterSeenIsTrue'
  PROVE  RolesWereTrue'
<1>1. \A s \in Switch, c \in Controller :
        lastTrue'[s][c] >= lastTrue[s][c] /\ lastTrue'[s][c] <= clock'
  BY TimesOf DEF RolesWereTrue, Times, Never
<1>2. \A c \in Controller : seen'[c].time <= clock'
  BY TimesOf DEF RolesWereTrue
<1>3. ASSUME NEW ownership \in Ownership, WasTrue(ownership) PROVE WasTrue(ownership)'
  BY <1>1, <1>3, SightsStay DEF WasTrue
<1>4. tpc \in Compared /\ building.ok => WasTrue(building.ownership)'
  <2>1. PICK ownership \in Ownership : ownership = building.ownership
    BY TimesOf
  <2>. QED
    BY <1>3, <2>1 DEF RolesWereTrue
<1>5. twin # NoSnapshot /\ twin.valid /\ twin.time = clock => WasTrue(twin.ownership)'
  <2>1. SUFFICES ASSUME twin # NoSnapshot, twin.valid, twin.time = clock
                 PROVE  WasTrue(twin.ownership)'
    OBVIOUS
  <2>2. PICK ownership \in Ownership : ownership = twin.ownership
    BY <2>1, TimesOf
  <2>. QED
    BY <1>3, <2>1, <2>2 DEF RolesWereTrue
<1>. QED
  BY <1>1, <1>2, <1>4, <1>5 DEF RolesWereTrue

LEMMA RolesStep ==
  ASSUME ThreadTypeOK, ThreadTypeOK', DraftIsNew, RolesWereTrue, PipelineNext
  PROVE  RolesWereTrue'
<1>1. CASE InitRolesResets
  BY <1>1, QuietRoles DEF InitRolesResets, threadVars
<1>2. CASE \E s \in Switch, c \in Controller : Settles(s, c)
  <2>1. PICK s \in Switch, c \in Controller : Settles(s, c)
    BY <1>2
  <2>2. /\ owner' = [owner EXCEPT ![s] = c] /\ owner \in Ownership
        /\ UNCHANGED <<clock, seen, tpc, building, twin>>
    BY <2>1, RegisterGrows, OwnerIsOne DEF Settles, threadVars
  <2>3. \A q \in Switch, d \in Controller :
          lastTrue'[q][d] = IF q = s /\ d = c THEN clock ELSE lastTrue[q][d]
    BY <2>1 DEF Settles, ThreadTypeOK
  <2>4. MasterSeenIsTrue'
    <3>1. ASSUME NEW q \in Switch, seen'[owner'[q]].time # Never,
                 seen'[owner'[q]].roles[q] = "MASTER"
          PROVE  lastTrue'[q][owner'[q]] >= seen'[owner'[q]].time
      <4>1. CASE q = s
        <5>1. owner'[q] = c
          BY <2>2, <4>1 DEF Ownership
        <5>. QED
          BY <2>2, <2>3, <4>1, <5>1, TimesOf DEF RolesWereTrue, Times, Never
      <4>2. CASE q # s
        <5>1. owner'[q] = owner[q] /\ owner[q] \in Controller
          BY <2>2, <4>2 DEF Ownership
        <5>. QED
          BY <2>2, <2>3, <3>1, <4>2, <5>1 DEF RolesWereTrue, MasterSeenIsTrue
      <4>. QED
        BY <4>1, <4>2
    <3>. QED
      BY <3>1 DEF MasterSeenIsTrue
  <2>. QED
    BY <2>2, <2>3, <2>4, NewSights
<1>3. CASE \E c \in Controller : PollFails(c)
  BY <1>3, QuietRoles DEF PollFails, At, othersVars
<1>4. CASE \E c \in Controller, roles \in [Switch -> Role] : Collect(c, roles)
  <2>1. PICK c \in Controller, roles \in [Switch -> Role] : Collect(c, roles)
    BY <1>4
  <2>2. /\ UNCHANGED <<clock, tpc, building, twin, register>> /\ owner' = owner
        /\ owner \in Ownership
    BY <2>1, OwnerIsOne DEF Collect, othersVars, owner, version
  <2>3. \A s \in Switch, d \in Controller :
          lastTrue'[s][d] = IF roles[s] = "MASTER" /\ owner[s] = c /\ d = c
                            THEN clock ELSE lastTrue[s][d]
    BY <2>1 DEF Collect, ThreadTypeOK
  <2>4. \A d \in Controller : seen'[d] = IF d = c THEN [time |-> clock, roles |-> roles]
                                                  ELSE seen[d]
    BY <2>1 DEF Collect, ThreadTypeOK
  <2>5. MasterSeenIsTrue'
    <3>1. ASSUME NEW s \in Switch, seen'[owner[s]].time # Never,
                 seen'[owner[s]].roles[s] = "MASTER"
          PROVE  lastTrue'[s][owner[s]] >= seen'[owner[s]].time
      <4>1. owner[s] \in Controller
        BY <2>2 DEF Ownership
      <4>2. CASE owner[s] = c
        BY <2>3, <2>4, <3>1, <4>1, <4>2, TimesOf
      <4>3. CASE owner[s] # c
        BY <2>3, <2>4, <3>1, <4>1, <4>3 DEF RolesWereTrue, MasterSeenIsTrue
      <4>. QED
        BY <4>2, <4>3
    <3>. QED
      BY <2>2, <3>1 DEF MasterSeenIsTrue
  <2>6. \A d \in Controller : seen'[d].time \in {seen[d].time, clock}
    BY <2>4
  <2>. QED
    BY <2>2, <2>3, <2>5, <2>6, NewSights
<1>5. CASE \E delay \in 1 .. MaxDelay : NextLoop(delay)
  <2>1. PICK delay \in 1 .. MaxDelay : NextLoop(delay)
    BY <1>5
  <2>2. /\ clock' > clock /\ clock' \in Nat
        /\ UNCHANGED <<seen, register, twin>> /\ tpc' = "collect"
    BY <2>1, TimesOf DEF NextLoop, othersVars
  <2>3. UNCHANGED lastTrue
    BY <1>5 DEF PipelineNext, NextLoop, At, InitRolesResets, Settles, Collect, PollFails, threadVars
  <2>4. twin # NoSnapshot => twin.time # clock'
    BY <2>2, TimesOf DEF DraftIsNew
  <2>5. MasterSeenIsTrue'
    BY <2>2, <2>3 DEF RolesWereTrue, MasterSeenIsTrue, owner, version
  <2>6. \A s \in Switch, c \in Controller : lastTrue'[s][c] <= clock'
    BY <2>2, <2>3, TimesOf DEF RolesWereTrue, Times, Never
  <2>7. \A c \in Controller : seen'[c].time <= clock'
    BY <2>2, TimesOf DEF RolesWereTrue, Times, Never
  <2>. QED
    BY <2>2, <2>4, <2>5, <2>6, <2>7 DEF RolesWereTrue, Compared
<1>6. CASE ThreadSteps /\ UNCHANGED lastTrue
  <2>1. UNCHANGED <<clock, seen, lastTrue, register, twin>>
    BY <1>6, StepsOfALoop
  <2>2. CASE ReadOwnership
    <3>1. /\ building'.ownership = owner /\ tpc' = "record"
          /\ building'.ok = (Fresh /\ Complete /\ Consistent(owner))
      BY <2>2 DEF ReadOwnership, ThreadTypeOK, Drafts
    <3>2. ASSUME building'.ok, NEW s \in Switch PROVE lastTrue[s][owner[s]] >= clock - MaxAge
      <4>1. owner[s] \in Controller
        BY OwnerIsOne
      <4>2. /\ seen[owner[s]].time # Never /\ clock - seen[owner[s]].time <= MaxAge
            /\ seen[owner[s]].roles[s] = "MASTER"
        BY <3>1, <3>2, <4>1 DEF Fresh, Complete, Consistent
      <4>3. lastTrue[s][owner[s]] >= seen[owner[s]].time
        BY <4>2 DEF RolesWereTrue, MasterSeenIsTrue
      <4>. QED
        BY <4>1, <4>2, <4>3, TimesOf DEF Times, Never
    <3>3. building'.ok => WasTrue(building.ownership)'
      BY <2>1, <3>1, <3>2 DEF WasTrue
    <3>. QED
      BY <2>1, <3>3 DEF RolesWereTrue, MasterSeenIsTrue, WasTrue, owner, version
  <2>3. CASE ~ReadOwnership
    BY <1>6, <2>1, <2>3, StepsOfALoop, StepsGoOn, QuietRoles
  <2>. QED
    BY <2>2, <2>3
<1>7. CASE Publish /\ UNCHANGED lastTrue
  <2>1. /\ twin'.ownership = building.ownership /\ (twin'.valid => building.ok)
        /\ tpc = "publish" /\ tpc' = "sleep" /\ UNCHANGED <<clock, seen, register>>
    BY <1>7 DEF Publish, At, othersVars
  <2>2. twin'.valid => WasTrue(twin.ownership)'
    BY <1>7, <2>1 DEF RolesWereTrue, WasTrue, Compared
  <2>. QED
    BY <1>7, <2>1, <2>2 DEF RolesWereTrue, MasterSeenIsTrue, Compared, owner, version
<1>. QED
  BY <1>1, <1>2, <1>3, <1>4, <1>5, <1>6, <1>7 DEF PipelineNext, TelemetryThread, ThreadSteps

-----------------------------------------------------------------------------
(* Failures and the window                                                 *)

\* A failure that was accounted for stays so when attempts are only added.
LEMMA QuietFailures ==
  ASSUME FailuresAreCounted, UNCHANGED <<clock, twin>>, failures' \subseteq failures,
         \A t \in failures' : Counted(t) => Counted(t)',
         tpc = "record" /\ ~building.ok => tpc' = "record" /\ ~building'.ok,
         tpc' = "publish" /\ building'.perfect => tpc = "publish" /\ building.perfect
  PROVE  FailuresAreCounted'
  BY DEF FailuresAreCounted, Old

LEMMA Older ==
  ASSUME NEW t \in Nat, NEW now \in Nat, NEW later \in Nat, NEW w \in Nat, later > now,
         t < now - w
  PROVE  t < later - w
  OBVIOUS

LEMMA FailuresStep ==
  ASSUME ThreadTypeOK, DraftIsNew, FailuresAreCounted, PipelineNext
  PROVE  FailuresAreCounted'
<1>0. /\ attempts \in Seq(Attempts) /\ Len(attempts) \in Nat /\ clock \in Nat
      /\ TwinningWindow \in Nat /\ failures \subseteq Nat
      /\ twin # NoSnapshot => twin.time \in Nat
  BY PipelineAssumption DEF ThreadTypeOK, Snapshots
<1>1. CASE InitRolesResets
  BY <1>1 DEF InitRolesResets, FailuresAreCounted
<1>2. CASE \/ \E s \in Switch, c \in Controller : Settles(s, c)
           \/ \E c \in Controller : PollFails(c) \/ \E roles \in [Switch -> Role] : Collect(c, roles)
           \/ NoSnapshotDue \/ ReadVersion \/ PruneTests \/ RatePrunes \/ RateOfNone \/ RateSums
  <2>1. UNCHANGED <<clock, twin, failures, attempts>>
    BY <1>2 DEF Settles, PollFails, Collect, NoSnapshotDue, ReadVersion, PruneTests, RatePrunes,
                RateOfNone, RateSums, threadVars
  <2>2. tpc = "record" => UNCHANGED <<tpc, building>>
    BY <1>2 DEF Settles, PollFails, Collect, NoSnapshotDue, ReadVersion, PruneTests, RatePrunes,
                RateOfNone, RateSums, At, threadVars
  <2>3. tpc' = "publish" /\ building'.perfect => tpc = "publish" /\ building.perfect
    BY <1>2 DEF Settles, PollFails, Collect, NoSnapshotDue, ReadVersion, PruneTests, RatePrunes,
                RateOfNone, RateSums, At, threadVars, ThreadTypeOK, Drafts
  <2>. QED
    BY <2>1, <2>2, <2>3, QuietFailures DEF Counted
<1>3. CASE \E delay \in 1 .. MaxDelay : NextLoop(delay)
  <2>1. PICK delay \in 1 .. MaxDelay : NextLoop(delay)
    BY <1>3
  <2>2. clock' > clock /\ clock' \in Nat
    BY <1>0, <2>1, PipelineAssumption DEF NextLoop
  <2>3. /\ tpc = "sleep" /\ tpc' = "collect" /\ UNCHANGED <<failures, attempts, twin>>
    BY <2>1 DEF NextLoop, At
  <2>4. twin' # NoSnapshot => twin'.time # clock'
    BY <1>0, <2>2, <2>3 DEF DraftIsNew
  <2>5. ASSUME NEW t \in failures, Old(t) PROVE Old(t)'
    <3>1. t \in Nat /\ t < clock - TwinningWindow
      BY <1>0, <2>5 DEF Old
    <3>2. t < clock' - TwinningWindow
      BY <1>0, <2>2, <3>1, Older
    <3>. QED
      BY <3>2 DEF Old
  <2>. QED
    BY <2>3, <2>4, <2>5 DEF FailuresAreCounted, Counted
<1>4. CASE ReadOwnership
  <2>1. /\ tpc = "ownership" /\ tpc' = "record" /\ UNCHANGED <<clock, twin, attempts>>
        /\ failures' = IF building'.ok THEN failures ELSE failures \cup {clock}
    BY <1>4 DEF ReadOwnership, At, ThreadTypeOK, Drafts
  <2>2. twin # NoSnapshot => twin.time # clock
    BY <1>0, <2>1 DEF DraftIsNew
  <2>. QED
    BY <2>1, <2>2 DEF FailuresAreCounted, Old, Counted
<1>5. CASE RecordQuality \/ RecordFailure
  <2>1. PICK ok \in BOOLEAN :
          /\ attempts' = Append(attempts, [time |-> clock, ok |-> ok, era |-> building.era])
          /\ ok => tpc = "record" /\ building.ok /\ failures' = failures
          /\ failures' \subseteq failures \cup {clock}
          /\ failures' # failures => ~ok
          /\ ~ok \/ building.ok
    <3>1. CASE RecordQuality
      BY <3>1 DEF RecordQuality, Record, At, ThreadTypeOK, Drafts
    <3>2. CASE RecordFailure
      BY <3>2 DEF RecordFailure, Record, At
    <3>. QED
      BY <1>5, <3>1, <3>2
  <2>2. /\ UNCHANGED <<clock, twin, building>> /\ tpc # "sleep"
        /\ tpc' \in {"rate", "sleep"} /\ (tpc = "record" /\ ~building.ok => ~ok)
    BY <1>5, <2>1 DEF RecordQuality, RecordFailure, Record, At
  <2>3. /\ Len(attempts') = Len(attempts) + 1
        /\ \A i \in 1 .. Len(attempts) : attempts'[i] = attempts[i]
        /\ attempts'[Len(attempts) + 1] = [time |-> clock, ok |-> ok, era |-> building.era]
    BY <1>0, <2>1
  <2>4. \A t : Counted(t) => Counted(t)'
    BY <1>0, <2>3 DEF Counted
  <2>5. ~ok => Counted(clock)'
    <3>. SUFFICES ASSUME ~ok PROVE \E i \in 1 .. Len(attempts') :
                                     attempts'[i].time = clock' /\ ~attempts'[i].ok
      BY DEF Counted
    <3>1. Len(attempts) + 1 \in 1 .. Len(attempts')
      BY <1>0, <2>3
    <3>2. /\ attempts'[Len(attempts) + 1].time = clock'
          /\ ~attempts'[Len(attempts) + 1].ok
      BY <2>2, <2>3
    <3>. QED
      BY <3>1, <3>2
  <2>6. ASSUME NEW t \in failures' PROVE Old(t)' \/ Counted(t)'
    <3>1. CASE t = clock /\ ~ok
      BY <2>2, <2>5, <3>1 DEF Counted
    <3>2. CASE t \in failures
      BY <2>2, <2>4, <2>5, <3>2 DEF FailuresAreCounted, Old, Counted
    <3>. QED
      BY <2>1, <2>6, <3>1, <3>2
  <2>7. twin' # NoSnapshot => twin'.time # clock'
    BY <1>0, <2>2 DEF DraftIsNew
  <2>. QED
    BY <2>2, <2>6, <2>7 DEF FailuresAreCounted
<1>6. CASE PruneDrops
  <2>1. /\ UNCHANGED <<clock, twin, failures, building>> /\ tpc \in {"rate", "sum", "sleep"}
        /\ tpc' \in {"rate", "sum", "sleep", "failed"}
    BY <1>6 DEF PruneDrops, DraftIsNew
  <2>2. CASE UNCHANGED attempts
    BY <2>1, <2>2, QuietFailures DEF Counted
  <2>3. CASE attempts # <<>> /\ Head(attempts).time < clock - TwinningWindow /\ attempts' = Tail(attempts)
    <3>1. /\ Head(attempts) = attempts[1] /\ Len(attempts') = Len(attempts) - 1
          /\ \A i \in 1 .. Len(attempts') : attempts'[i] = attempts[i + 1]
      BY <1>0, <2>3
    <3>2. ASSUME NEW t \in failures, Counted(t) PROVE Old(t)' \/ Counted(t)'
      <4>1. PICK i \in 1 .. Len(attempts) : attempts[i].time = t /\ ~attempts[i].ok
        BY <3>2 DEF Counted
      <4>2. CASE i = 1
        BY <2>1, <2>3, <3>1, <4>1, <4>2 DEF Old
      <4>3. CASE i # 1
        <5>1. i - 1 \in 1 .. Len(attempts') /\ attempts'[i - 1] = attempts[i]
          BY <1>0, <3>1, <4>1, <4>3
        <5>. QED
          BY <4>1, <5>1 DEF Counted
      <4>. QED
        BY <4>2, <4>3
    <3>. QED
      BY <2>1, <3>2 DEF FailuresAreCounted, Old
  <2>. QED
    BY <1>6, <2>2, <2>3 DEF PruneDrops
<1>7. CASE RateDivides
  <2>1. /\ UNCHANGED <<clock, twin, failures, attempts>> /\ tpc = "divide"
        /\ \/ tpc' = "failed"
           \/ tpc' = "publish" /\ (building'.perfect <=> Succeeded = DOMAIN attempts)
    BY <1>7 DEF RateDivides, At, ThreadTypeOK, Drafts
  <2>2. Succeeded = DOMAIN attempts => \A t \in failures : Old(t)
    BY <1>0, <2>1 DEF FailuresAreCounted, Counted, Succeeded
  <2>. QED
    BY <2>1, <2>2 DEF FailuresAreCounted, Old, Counted
<1>8. CASE Publish
  <2>1. /\ UNCHANGED <<clock, failures, attempts>> /\ tpc = "publish" /\ tpc' = "sleep"
        /\ twin'.perfect = building.perfect
    BY <1>8 DEF Publish, At
  <2>. QED
    BY <2>1 DEF FailuresAreCounted, Old, Counted
<1>. QED
  BY <1>1, <1>2, <1>3, <1>4, <1>5, <1>6, <1>7, <1>8 DEF PipelineNext, TelemetryThread

-----------------------------------------------------------------------------
LEMMA PipelineStutters ==
  ASSUME PipelineInvariant, UNCHANGED pipelineVars PROVE PipelineInvariant'
<1>. USE DEF PipelineInvariant, pipelineVars, threadVars
<1>1. ThreadTypeOK' /\ DraftIsNew'
  BY DEF ThreadTypeOK, DraftIsNew, version
<1>2. OwnersFollowVersions'
  BY DEF OwnersFollowVersions, OwnedSince, version
<1>3. RolesWereTrue'
  BY QuietRoles
<1>4. FailuresAreCounted'
  BY QuietFailures DEF Counted
<1>. QED
  BY <1>1, <1>2, <1>3, <1>4

\* What the telemetry thread builds from pieces that other threads change meanwhile:
\* owners not older than the version, roles that were true, failures that are counted.
THEOREM PipelineInvariantHolds == PipelineSpec => []PipelineInvariant
<1>1. PipelineInit => PipelineInvariant
  BY PipelineBegins
<1>2. PipelineInvariant /\ [PipelineNext]_pipelineVars => PipelineInvariant'
  <2>1. ASSUME PipelineInvariant, PipelineNext PROVE ThreadTypeOK'
    BY <2>1, RequestTypes, PollTypes, ThreadTypes DEF PipelineNext, PipelineInvariant
  <2>2. ASSUME PipelineInvariant, PipelineNext PROVE PipelineInvariant'
    BY <2>1, <2>2, DraftStep, OwnersStep, RolesStep, FailuresStep DEF PipelineInvariant
  <2>. QED
    BY <2>2, PipelineStutters
<1>. QED
  BY <1>1, <1>2, PTL DEF PipelineSpec

\* A snapshot's owners are those of its version or of a later one.
THEOREM OwnersOfVersion == PipelineSpec => []OwnersNotOlderThanVersion
<1>1. PipelineInvariant => OwnersNotOlderThanVersion
  <2>1. ASSUME PipelineInvariant, twin # NoSnapshot
        PROVE  \E v \in twin.version .. version : twin.ownership = register[v]
    <3>1. OwnedSince(twin.ownership, twin.version) /\ twin.version \in Nat /\ version \in Nat
      BY <2>1 DEF PipelineInvariant, OwnersFollowVersions, ThreadTypeOK, Snapshots
    <3>. QED
      BY <3>1 DEF OwnedSince
  <2>. QED
    BY <2>1 DEF OwnersNotOlderThanVersion
<1>. QED
  BY <1>1, PipelineInvariantHolds, PTL

\* Every owner in a valid twin state was MASTER, at a moment that is not too old.
THEOREM ValidTwinIsTrue == PipelineSpec => []ValidTwinWasTrue
<1>1. PipelineInvariant => ValidTwinWasTrue
  BY DEF PipelineInvariant, RolesWereTrue, WasTrue, ValidTwinWasTrue, JustPublished
<1>. QED
  BY <1>1, PipelineInvariantHolds, PTL

\* A rate of 100 % means that the window holds no failure since the last reset.
THEOREM PerfectRateIsPerfect == PipelineSpec => []PerfectRateHidesNothing
<1>1. PipelineInvariant => PerfectRateHidesNothing
  BY DEF PipelineInvariant, FailuresAreCounted, Old, PerfectRateHidesNothing, JustPublished
<1>. QED
  BY <1>1, PipelineInvariantHolds, PTL
=============================================================================
