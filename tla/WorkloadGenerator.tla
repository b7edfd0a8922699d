------------------------- MODULE WorkloadGenerator -------------------------
(***************************************************************************)
(* The traffic generators: udp_new_flow.py sends one packet per new flow   *)
(* at the deadlines of a fixed rate, udp_dynamic_flow.py at deadlines that *)
(* follow a profile, and qos_probe.py waits at each deadline of a fixed    *)
(* rate for the answer of an echo server.  All three take the source ports *)
(* in turn, so that a flow is new only while no flow of its port is left   *)
(* in the switch, and all three may be held up at any point of their loop. *)
(*                                                                         *)
(* Time is counted in ticks from the start of the generator.  Rates are    *)
(* periods: ticks from one deadline to the next.                           *)
(***************************************************************************)
EXTENDS WorkloadRates

CONSTANTS Duration,     \* --duration
          Interval,     \* --sample-interval
          Ports,        \* source ports in the range
          IdleTimeout,  \* --flow-idle-timeout: how long a silent flow stays
          SafetyFactor, \* --port-reuse-safety-factor
          Timeout,      \* --timeout of a probe
          Rate,         \* --rate of the generators with a fixed one
          Runs,         \* the rows of the controller in capacity_runs.csv
          Capacity,     \* and its safe capacity
          RateTicks,    \* rates are flows in this many ticks
          TickSeconds,  \* seconds of a profile in a tick
          MaxClock      \* bound: the clock stops here

\* The profile that udp_dynamic_flow follows, or one of the other generators.
Kinds == {"new_flow", "probe"} \union Patterns

PeriodOf(rate) == IF rate >= RateTicks THEN 1 ELSE RateTicks \div rate

Period == PeriodOf(Rate)

Benchmark == MeanPoints(Runs)

\* The period that the profile asks for at a tick.
ProfilePeriod(rates, pattern, t) ==
    PeriodOf(RateFor(rates, TargetAt(pattern, t * TickSeconds)))

\* validate_port_reuse: with the rate, or the highest rate of the map.
Safe(rate) == Ports * PeriodOf(rate) >= IdleTimeout * SafetyFactor

\* What the generators refuse to run with.
ValidRateMaps ==
    \A p \in Patterns :
        LET rates == RateMap(Benchmark, Capacity, p)
        IN  (\A u \in Levels(p) : rates[u] \in Nat \ {0}) /\ Safe(Max(Range(rates)))

ValidConfig == Rate > 0 /\ Duration > 0 /\ Interval > 0 /\ IdleTimeout > 0
               /\ SafetyFactor >= 1 /\ Timeout > 0 /\ Ports > 0 /\ Safe(Rate)

ASSUME ConfigAssumption ==
    /\ {Duration, Interval, Ports, IdleTimeout, SafetyFactor, Timeout, Rate} \subseteq Nat
    /\ MaxClock \in Nat /\ MaxClock >= Duration
    /\ RateTicks \in Nat \ {0} /\ TickSeconds \in Nat \ {0} /\ Capacity \in Nat \ {0}
    /\ Usable(Benchmark)
    /\ ValidConfig /\ ValidRateMaps

VARIABLES kind,      \* which of the generators runs
          rateMap,   \* the rate map that it has loaded, if it follows a profile
          clock,     \* time.monotonic_ns
          pc,        \* where its loop stands
          now,       \* the time that the loop has read
          deadline,  \* of the next flow or probe
          nextPort,  \* PortAllocator.current
          nextSample,\* end of the current sampling window
          window,    \* its counters
          written,   \* workload.jsonl
          socket,    \* the port that the probe listens on
          net,       \* packets and answers of probes on their way
          rows,      \* qos.jsonl
          flows,     \* history: the time that each flow was counted for
          sentAt,    \* history: when each port was last used
          reused,    \* history: a port was used while its last flow may be left
          maxLag     \* the largest lag of a sample or a row so far

setup     == <<kind, rateMap>>
loopVars  == <<pc, now, deadline>>
sentVars  == <<nextPort, flows, sentAt, reused>>
probeVars == <<socket, net, rows>>
vars == <<setup, clock, loopVars, sentVars, probeVars, nextSample, window, written, maxLag>>

----------------------------------------------------------------------------
Never    == MaxClock + IdleTimeout + 1
NoSocket == [port |-> Ports, sequence |-> 0, opened |-> 0]

EmptyWindow(from) == [from |-> from, attempted |-> 0, emitted |-> 0]

Init ==
    /\ kind \in Kinds
    /\ rateMap = IF kind \in Patterns THEN RateMap(Benchmark, Capacity, kind) ELSE <<>>
    /\ clock = 0 /\ pc = "loop" /\ now = 0 /\ deadline = 0
    /\ nextPort = 0 /\ nextSample = Interval
    /\ window = EmptyWindow(0) /\ written = <<>>
    /\ socket = NoSocket /\ net = {} /\ rows = <<>>
    /\ flows = <<>> /\ sentAt = [p \in 0..Ports-1 |-> Never] /\ reused = FALSE
    /\ maxLag = 0

Dynamic == kind \in Patterns

Later(a, b) == IF a > b THEN a ELSE b

Goto(s) == pc' = s

\* Mutant of Lag: the deadline has moved on before the lag is taken.
LagToNext == IF now > deadline + Period THEN now - (deadline + Period) ELSE 0

\* The schedule lag of a flow or a probe.
Lag == IF now > deadline THEN now - deadline ELSE 0

\* PortAllocator.next_port.
NextPort == IF nextPort >= Ports - 1 THEN 0 ELSE nextPort + 1

\* The generator uses the next port now; the flow is counted for a time.
UsePort(time) ==
    /\ nextPort' = NextPort
    /\ flows' = Append(flows, time)
    /\ sentAt' = [sentAt EXCEPT ![nextPort] = clock]
    /\ reused' = (reused \/ (sentAt[nextPort] # Never
                             /\ clock - sentAt[nextPort] < IdleTimeout))

----------------------------------------------------------------------------
(* Sampling windows                                                        *)

\* create_workload_sample, from the counters of the window.
Sample(end) == [from |-> window.from, to |-> end,
                attempted |-> window.attempted, emitted |-> window.emitted]

\* The sample is written and the counters start again.
Flush(end) ==
    /\ written' = Append(written, Sample(end))
    /\ window' = EmptyWindow(end)
    /\ UNCHANGED <<setup, clock, now, deadline, sentVars, probeVars, maxLag>>

\* send_udp_flow, or an OSError: the flow was attempted in both cases.
Count(ok) ==
    window' = [window EXCEPT !.attempted = @ + 1, !.emitted = IF ok THEN @ + 1 ELSE @]

----------------------------------------------------------------------------
(* udp_new_flow.run_generator                                              *)

\* Mutant of WindowIsOver: a flow on the boundary belongs to the window before.
WindowIsOverAfter == deadline > nextSample

\* "A flow whose deadline is exactly on a sample boundary belongs to the NEW
\* window."
WindowIsOver == deadline >= nextSample

\* Windows that end before the next deadline are written before its flow.
FlushBeforeFlow ==
    /\ kind = "new_flow" /\ pc = "loop" /\ deadline < Duration
    /\ WindowIsOver
    /\ Flush(nextSample) /\ nextSample' = nextSample + Interval
    /\ UNCHANGED pc

\* DeadlinePacer.wait_until, and the lag that it returns.
WaitDeadline ==
    /\ ~Dynamic /\ pc = "loop" /\ deadline < Duration
    /\ kind = "new_flow" => ~WindowIsOver
    /\ clock >= deadline
    /\ now' = clock /\ Goto("send")
    /\ UNCHANGED <<setup, clock, deadline, sentVars, probeVars, nextSample, window, written,
                   maxLag>>

\* "Generator is too late and experiment window has already finished."
TooLate ==
    /\ ~Dynamic /\ pc = "send" /\ now >= Duration
    /\ Goto("drain")
    /\ UNCHANGED <<setup, clock, now, deadline, sentVars, probeVars, nextSample, window,
                   written, maxLag>>

SendFlow(ok) ==
    /\ kind = "new_flow" /\ pc = "send" /\ now < Duration
    /\ UsePort(deadline) /\ Count(ok)
    /\ maxLag' = Later(maxLag, Lag)
    /\ deadline' = deadline + Period
    /\ Goto("loop")
    /\ UNCHANGED <<setup, clock, now, probeVars, nextSample, written>>

\* The next deadline is outside of the experiment.
LeaveLoop ==
    /\ ~Dynamic /\ pc = "loop" /\ deadline >= Duration
    /\ Goto("drain")
    /\ UNCHANGED <<setup, clock, now, deadline, sentVars, probeVars, nextSample, window,
                   written, maxLag>>

\* The rest of the full windows, not before the experiment is over.
FlushRest ==
    /\ kind # "probe" /\ pc = "drain" /\ clock >= Duration
    /\ nextSample <= Duration
    /\ Flush(nextSample) /\ nextSample' = nextSample + Interval
    /\ UNCHANGED pc

\* "Handle final partial window."
FlushPartial ==
    /\ kind = "new_flow" /\ pc = "drain" /\ clock >= Duration
    /\ nextSample > Duration /\ window.from < Duration
    /\ Flush(Duration)
    /\ UNCHANGED <<pc, nextSample>>

Finish ==
    /\ pc = "drain"
    /\ kind # "probe" => nextSample > Duration
    /\ kind = "new_flow" => window.from >= Duration /\ clock >= Duration
    /\ Goto("done")
    /\ UNCHANGED <<setup, clock, now, deadline, sentVars, probeVars, nextSample, window,
                   written, maxLag>>

----------------------------------------------------------------------------
(* udp_dynamic_flow.run_generator                                          *)

ReadClock ==
    /\ Dynamic /\ pc = "loop"
    /\ now' = clock /\ Goto("look")
    /\ UNCHANGED <<setup, clock, deadline, sentVars, probeVars, nextSample, window, written,
                   maxLag>>

\* Windows that are over, by the time that was read.
DynamicWindowIsOver == now >= nextSample /\ nextSample <= Duration

FlushElapsed ==
    /\ Dynamic /\ pc = "look"
    /\ DynamicWindowIsOver
    /\ Flush(nextSample) /\ nextSample' = nextSample + Interval
    /\ UNCHANGED pc

DurationIsOver ==
    /\ Dynamic /\ pc = "look" /\ ~DynamicWindowIsOver /\ now >= Duration
    /\ Goto("drain")
    /\ UNCHANGED <<setup, clock, now, deadline, sentVars, probeVars, nextSample, window,
                   written, maxLag>>

\* At most 10 ms at a time: the profile may change before the deadline.
SleepShort ==
    /\ Dynamic /\ pc = "look" /\ ~DynamicWindowIsOver /\ now < Duration
    /\ now < deadline
    /\ clock > now
    /\ Goto("loop")
    /\ UNCHANGED <<setup, clock, now, deadline, sentVars, probeVars, nextSample, window,
                   written, maxLag>>

SendDynamic(ok) ==
    /\ Dynamic /\ pc = "look" /\ ~DynamicWindowIsOver /\ now < Duration
    /\ now >= deadline
    /\ UsePort(now) /\ Count(ok)
    /\ maxLag' = Later(maxLag, Lag)
    /\ deadline' = deadline + ProfilePeriod(rateMap, kind, now)
    /\ Goto("loop")
    /\ UNCHANGED <<setup, clock, now, probeVars, nextSample, written>>

----------------------------------------------------------------------------
(* qos_probe.run_probe and qos_echo                                        *)

Sequence == Len(rows)

\* The socket is bound and the packet sent.
SendProbe ==
    /\ kind = "probe" /\ pc = "send" /\ now < Duration
    /\ UsePort(deadline)
    /\ socket' = [port |-> nextPort, sequence |-> Sequence, opened |-> clock]
    /\ net' = net \union {[port |-> nextPort, sequence |-> Sequence, to |-> "echo"]}
    /\ maxLag' = Later(maxLag, Lag)
    /\ deadline' = deadline + Period
    /\ Goto("await")
    /\ UNCHANGED <<setup, clock, now, rows, nextSample, window, written>>

\* qos_echo answers with the sequence number of the request.
Echo ==
    \E m \in net :
        /\ m.to = "echo"
        /\ net' = (net \ {m}) \union {[m EXCEPT !.to = "probe"]}
        /\ UNCHANGED <<setup, clock, loopVars, sentVars, socket, rows, nextSample, window,
                       written, maxLag>>

\* A packet is lost, or an answer finds no socket on its port.
Lose ==
    \E m \in net :
        /\ net' = net \ {m}
        /\ UNCHANGED <<setup, clock, loopVars, sentVars, socket, rows, nextSample, window,
                       written, maxLag>>

\* The row of the probe, with what it took for its answer, and the next one.
WriteRow(success, answer) ==
    /\ rows' = Append(rows, [success |-> success, answer |-> answer])
    /\ socket' = NoSocket
    /\ Goto("loop")
    /\ UNCHANGED <<setup, clock, now, nextSample, window, written>>

\* An OSError of the socket: the row says so and the port is gone.
ProbeFails ==
    /\ kind = "probe" /\ pc = "send" /\ now < Duration
    /\ UsePort(deadline)
    /\ maxLag' = Later(maxLag, Lag)
    /\ deadline' = deadline + Period
    /\ WriteRow(FALSE, Sequence)
    /\ UNCHANGED net

\* Mutant of IsAnswer: the sequence number of the answer is not compared.
IsAnswerOfPort(m) == TRUE

\* "QoS response sequence mismatch": an answer to an earlier probe of the port.
IsAnswer(m) == m.sequence = socket.sequence

\* recvfrom returns the first answer that comes to the port, whoever it is for.
Receive ==
    /\ pc = "await"
    /\ \E m \in net :
          /\ m.to = "probe" /\ m.port = socket.port
          /\ net' = net \ {m}
          /\ WriteRow(IsAnswer(m), m.sequence)
    /\ UNCHANGED <<deadline, sentVars, maxLag>>

\* effective_timeout: the end of the experiment may come before the timeout.
ProbeDeadline ==
    IF socket.opened + Timeout < Duration
    THEN socket.opened + Timeout ELSE Later(socket.opened, Duration)

\* Mutant of TimedOut: the rest of the experiment is not waited out.
TimedOutNever == clock > MaxClock

TimedOut == clock >= ProbeDeadline

ReceiveTimesOut ==
    /\ pc = "await" /\ TimedOut
    /\ WriteRow(FALSE, Sequence)
    /\ UNCHANGED <<net, deadline, sentVars, maxLag>>

----------------------------------------------------------------------------
\* The machine: time goes by wherever the generator stands.
Tick ==
    /\ pc # "done" /\ clock < MaxClock
    /\ clock' = clock + 1
    /\ UNCHANGED <<setup, loopVars, sentVars, probeVars, nextSample, window, written, maxLag>>

Generator ==
    \/ FlushBeforeFlow \/ WaitDeadline \/ TooLate \/ LeaveLoop \/ FlushRest \/ FlushPartial
    \/ Finish \/ (\E ok \in BOOLEAN : SendFlow(ok) \/ SendDynamic(ok))
    \/ ReadClock \/ FlushElapsed \/ DurationIsOver \/ SleepShort
    \/ SendProbe \/ ProbeFails \/ Receive \/ ReceiveTimesOut

Next == Generator \/ Echo \/ Lose \/ Tick

Spec == Init /\ [][Next]_vars

\* The generator is a process that runs, and time passes.
FairSpec == Spec /\ WF_vars(Generator) /\ WF_vars(Tick)

----------------------------------------------------------------------------
(* The samples account for the flows: the windows follow each other from   *)
(* the start, each counts the flows of its own time and no others, however *)
(* late they were sent, and when the generator is done no flow is missing. *)
(* (udp_new_flow takes the deadline for the time of a flow, and            *)
(* udp_dynamic_flow the clock, read before the windows are written; the    *)
(* latter drops a window that is cut short by the end.)                    *)
FlowsOf(from, to) == {i \in 1..Len(flows) : from <= flows[i] /\ flows[i] < to}

WindowsTellFlows ==
    /\ \A k \in 1..Len(written) :
          /\ written[k].from = IF k = 1 THEN 0 ELSE written[k-1].to
          /\ written[k].attempted = Cardinality(FlowsOf(written[k].from, written[k].to))
          /\ written[k].emitted <= written[k].attempted
    /\ pc = "done" /\ kind # "probe" =>
          \/ FlowsOf(0, Duration) = FlowsOf(0, window.from)
          \/ Dynamic /\ window.from + Interval > Duration

(* "Ensure source ports are not reused while old benchmark flows may still *)
(* exist" is checked once, for the deadlines.  A generator that is held up *)
(* sends its backlog at once and reuses ports within the idle timeout, so  *)
(* that packets are sent that are no new flows.  It never does so unseen:  *)
(* a lag of more than the margin, less one period, is in the samples.      *)
ReuseShowsInLag ==
    reused => \E p \in IF Dynamic
                            THEN {ProfilePeriod(rateMap, kind, t) : t \in 0..Duration}
                            ELSE {Period} :
                 maxLag + p > (SafetyFactor - 1) * IdleTimeout

(* A probe that succeeded has measured its own packet, although an answer  *)
(* may come after the probe gave it up and its port came round again.      *)
ProbeMeasuresItself ==
    \A i \in 1..Len(rows) : rows[i].success => rows[i].answer = i - 1

(* Every generator ends, whatever is lost and however late it is: the      *)
(* experiment that waits for it can go on.                                 *)
GeneratorEnds == <>(pc = "done")

============================================================================
