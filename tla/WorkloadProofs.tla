--------------------------- MODULE WorkloadProofs ---------------------------
(***************************************************************************)
(* Theorems about WorkloadGenerator: what the samples and the rows of the  *)
(* traffic generators tell, for any duration, windows, ports, timeouts and *)
(* benchmark, and however long a generator is held up between two steps.   *)
(***************************************************************************)
EXTENDS WorkloadGenerator, FiniteSetTheorems, TLAPS

Samples  == [from : Nat, to : Nat, attempted : Nat, emitted : Nat]
Counters == [from : Nat, attempted : Nat, emitted : Nat]
Packets  == [port : Nat, sequence : Nat, to : {"echo", "probe"}]
QosRows  == [success : BOOLEAN, answer : Nat]

WorkloadTypeOK ==
  /\ kind \in Kinds
  /\ rateMap = IF kind \in Patterns THEN RateMap(Benchmark, Capacity, kind) ELSE <<>>
  /\ clock \in 0 .. MaxClock /\ now \in 0 .. clock /\ deadline \in Nat
  /\ pc \in {"loop", "look", "send", "await", "drain", "done"}
  /\ nextPort \in 0 .. Ports - 1 /\ nextSample \in Nat
  /\ window \in Counters /\ written \in Seq(Samples)
  /\ socket \in [port : Nat, sequence : Nat, opened : Nat]
  /\ net \subseteq Packets /\ rows \in Seq(QosRows)
  /\ flows \in Seq(Nat) /\ maxLag \in Nat /\ reused \in BOOLEAN
  /\ sentAt \in [0 .. Ports - 1 -> (0 .. MaxClock) \cup {Never}]

\* Where each of the three loops can stand, and what its guards have found there.
LoopStands ==
  /\ pc = "look" => Dynamic
  /\ pc = "send" => ~Dynamic /\ deadline <= now /\ deadline < Duration
  /\ pc = "await" => kind = "probe" /\ socket.sequence = Len(rows)

\* The windows follow each other up to the one that is counted.
WindowsFollow ==
  /\ window.from = IF written = <<>> THEN 0 ELSE written[Len(written)].to
  /\ \A k \in 1 .. Len(written) :
        /\ written[k].from = IF k = 1 THEN 0 ELSE written[k-1].to
        /\ written[k].to <= window.from
  /\ kind = "probe" => written = <<>>
  /\ \/ nextSample = window.from + Interval
     \/ /\ kind = "new_flow" /\ pc \in {"drain", "done"}
        /\ window.from = Duration /\ nextSample > Duration

\* The counted window ends after all flows, and the flow to come is not before it.
FlowsComeInTime ==
  /\ \A i \in 1 .. Len(flows) : flows[i] < nextSample /\ flows[i] < Duration
  /\ kind = "new_flow" /\ pc \in {"loop", "send"} => window.from <= deadline
  /\ kind = "new_flow" /\ pc = "send" => deadline < nextSample
  /\ Dynamic /\ pc \in {"loop", "look"} => window.from <= now

WindowsCount ==
  /\ \A k \in 1 .. Len(written) :
        /\ written[k].attempted = Cardinality(FlowsOf(written[k].from, written[k].to))
        /\ written[k].emitted <= written[k].attempted
  /\ window.attempted = Cardinality(FlowsOf(window.from, nextSample))
  /\ window.emitted <= window.attempted

NothingIsLeft ==
  pc = "done" /\ kind # "probe" =>
    IF Dynamic THEN nextSample > Duration ELSE window.from >= Duration

WindowInvariant ==
  /\ WorkloadTypeOK /\ LoopStands /\ WindowsFollow
  /\ kind # "probe" => FlowsComeInTime /\ WindowsCount /\ NothingIsLeft

\* The flows that were sent after the last one of a port.
Apart(p) == IF p < nextPort THEN nextPort - 1 - p ELSE nextPort - 1 - p + Ports

\* No two deadlines of a generator are closer than this.
LeastPeriod == IF Dynamic THEN PeriodOf(Max(Range(rateMap))) ELSE Period

\* A port was used before the time that the loop has read since: the lag of the flow after
\* it shows by how much it was sent late, and the deadlines of the flows after that are at
\* least a period from each other.
PortsAreApart ==
  \A p \in 0 .. Ports - 1 : sentAt[p] # Never =>
     /\ sentAt[p] <= clock
     /\ pc \in {"look", "send"} => sentAt[p] <= now
     /\ Apart(p) > 0 => sentAt[p] + Apart(p) * LeastPeriod <= maxLag + deadline

LagInvariant ==
  /\ WorkloadTypeOK /\ LoopStands /\ PortsAreApart
  /\ reused => maxLag + LeastPeriod > (SafetyFactor - 1) * IdleTimeout

-----------------------------------------------------------------------------
(* The greatest and the least of a finite set                              *)

\* By the least finite subset that had none.
LEMMA GreatestExists ==
  ASSUME NEW S \in SUBSET Int, IsFiniteSet(S), S # {}
  PROVE  Max(S) \in S /\ \A y \in S : y <= Max(S)
<1>. DEFINE HasGreatest(U) == \E x \in U : \A y \in U : x >= y
            Without == {U \in FiniteSubsetsOf(S) : U # {} /\ ~HasGreatest(U)}
<1>1. HasGreatest(S)
  <2>. SUFFICES ASSUME ~HasGreatest(S) PROVE FALSE
    OBVIOUS
  <2>1. S \in Without
    BY DEF FiniteSubsetsOf
  <2>. HIDE DEF HasGreatest
  <2>2. PICK U \in Without : \A V \in Without : ~(<<V, U>> \in StrictSubsetOrdering(S))
    BY <2>1, FS_StrictSubsetOrderingWellFounded, WFMin
  <2>3. PICK x \in U : TRUE
    OBVIOUS
  <2>4. IsFiniteSet(U \ {x}) /\ U \ {x} \in FiniteSubsetsOf(S)
    BY FS_Subset DEF FiniteSubsetsOf
  <2>5. <<U \ {x}, U>> \in StrictSubsetOrdering(S)
    BY <2>3 DEF StrictSubsetOrdering, FiniteSubsetsOf
  <2>6. U \ {x} = {} \/ HasGreatest(U \ {x})
    BY <2>2, <2>4, <2>5
  <2>7. U \subseteq Int /\ x \in Int
    BY <2>3 DEF FiniteSubsetsOf
  <2>8. HasGreatest(U)
    BY <2>3, <2>6, <2>7 DEF HasGreatest
  <2>. QED
    BY <2>8
<1>. QED
  BY <1>1 DEF Max

LEMMA LeastExists ==
  ASSUME NEW S \in SUBSET Int, IsFiniteSet(S), S # {}
  PROVE  Min(S) \in S /\ \A y \in S : Min(S) <= y
<1>. DEFINE Opposite == {-x : x \in S}
            f == [x \in S |-> -x]
<1>0. f \in Surjection(S, Opposite)
  BY DEF Surjection
<1>1. IsFiniteSet(Opposite) /\ Opposite \in SUBSET Int /\ Opposite # {}
  <2>1. IsFiniteSet(Opposite)
    <3>. HIDE DEF f, Opposite
    <3>. QED
      BY <1>0, FS_Surjection
  <2>2. \A x \in S : -x \in Int
    OBVIOUS
  <2>. QED
    BY <2>1, <2>2
<1>2. PICK x \in S : -x = Max(Opposite)
  BY <1>1, GreatestExists
<1>3. \A y \in S : x <= y
  <2>. TAKE y \in S
  <2>1. -y \in Opposite
    OBVIOUS
  <2>. QED
    BY <1>1, <1>2, <2>1, GreatestExists
<1>. QED
  BY <1>3 DEF Min

-----------------------------------------------------------------------------
(* Periods and rates                                                       *)

\* A rate of at least one is a period of at least a tick, and a higher rate is no
\* longer period.
LEMMA Periods ==
  ASSUME NEW r \in Nat \ {0}, NEW s \in Nat \ {0}, r <= s
  PROVE  /\ PeriodOf(r) \in Nat \ {0} /\ PeriodOf(s) \in Nat \ {0}
         /\ PeriodOf(s) <= PeriodOf(r)
<1>0. RateTicks \in Nat \ {0}
  BY ConfigAssumption
<1>. DEFINE q == RateTicks \div r
            p == RateTicks \div s
<1>1. q \in Nat /\ q * r <= RateTicks /\ RateTicks < (q + 1) * r
  BY <1>0
<1>2. p \in Nat /\ p * s <= RateTicks /\ RateTicks < (p + 1) * s
  BY <1>0
<1>3. r < RateTicks => q >= 1
  BY <1>0, <1>1
<1>4. s < RateTicks => p >= 1
  BY <1>0, <1>2
<1>5. p <= q
  <2>. SUFFICES ASSUME p >= q + 1 PROVE FALSE
    BY <1>1, <1>2
  <2>. HIDE DEF p, q
  <2>1. p * r <= p * s
    BY <1>2
  <2>2. (q + 1) * r <= p * r
    BY <1>1, <1>2
  <2>. QED
    BY <1>0, <1>1, <1>2, <2>1, <2>2
<1>. QED
  BY <1>0, <1>1, <1>2, <1>3, <1>4, <1>5 DEF PeriodOf

\* The line between two points stays between their values.
LEMMA BetweenIsBetween ==
  ASSUME NEW lx \in Int, NEW ly \in Int, NEW rx \in Int, NEW ry \in Int, NEW x \in Int,
         lx <= x, x <= rx, lx < rx
  PROVE  LET y == Between([x |-> lx, y |-> ly], [x |-> rx, y |-> ry], x)
         IN  y \in Int /\ (ly <= y \/ ry <= y) /\ (y <= ly \/ y <= ry)
<1>. DEFINE k == x - lx
            d == rx - lx
            h == ry - ly
            q == (k * h) \div d
<1>1. k \in Nat /\ d \in Nat \ {0} /\ h \in Int /\ k <= d
  OBVIOUS
<1>. HIDE DEF k, d, h
<1>2. k * h \in Int /\ q \in Int /\ q * d <= k * h /\ k * h < (q + 1) * d
  BY <1>1
<1>. HIDE DEF q
<1>3. CASE h >= 0
  <2>1. 0 <= k * h /\ k * h <= d * h
    BY <1>1, <1>3
  <2>2. 0 <= q
    BY <1>1, <1>2, <2>1
  <2>3. q <= h
    BY <1>1, <1>2, <1>3, <2>1
  <2>. QED
    BY <1>2, <2>2, <2>3 DEF Between, k, d, h, q
<1>4. CASE h < 0
  <2>1. k * h <= 0 /\ d * h <= k * h
    BY <1>1, <1>4
  <2>2. q <= 0
    BY <1>1, <1>2, <2>1
  <2>3. h <= q
    BY <1>1, <1>2, <1>4, <2>1
  <2>. QED
    BY <1>2, <2>2, <2>3 DEF Between, k, d, h, q
<1>. QED
  BY <1>1, <1>3, <1>4

LEMMA LevelsAreFinite ==
  ASSUME NEW pattern \in Patterns
  PROVE  /\ IsFiniteSet(Levels(pattern)) /\ Levels(pattern) # {}
         /\ Levels(pattern) \in SUBSET Nat
<1>1. Levels(pattern) \in SUBSET Nat /\ Levels(pattern) # {}
  BY DEF Patterns, Levels, StableLevel
<1>2. \A l \in Levels(pattern) : l <= 110
  BY DEF Patterns, Levels, StableLevel
<1>3. \A n \in Nat : (\A l \in Levels(pattern) : l <= n) => IsFiniteSet(Levels(pattern))
  BY <1>1, FS_BoundedSetOfNaturals
<1>. QED
  BY <1>1, <1>2, <1>3

\* A profile asks for one of the levels, or for something between two of them.
LEMMA TargetsAreInRange ==
  ASSUME NEW pattern \in Patterns, NEW t \in Nat
  PROVE  LET u == TargetAt(pattern, t)
         IN  \/ u \in Levels(pattern)
             \/ u \in Int /\ \E a \in Levels(pattern), b \in Levels(pattern) : a < u /\ u < b
<1>1. CASE pattern = "stable"
  BY <1>1 DEF TargetAt, Levels
<1>2. CASE pattern = "gradual"
  <2>1. t < 50 => t \div 10 \in 0 .. 4
    OBVIOUS
  <2>2. t < 50 => \/ t \div 10 = 0 \/ t \div 10 = 1 \/ t \div 10 = 2
                  \/ t \div 10 = 3 \/ t \div 10 = 4
    BY <2>1
  <2>3. Gradual(t) \in {40, 50, 60, 70, 80, 95}
    BY <2>2 DEF Gradual
  <2>. QED
    BY <1>2, <2>3 DEF TargetAt, Levels
<1>3. CASE pattern = "burst"
  <2>1. Burst(t) \in {110, 105, 50}
    BY DEF Burst
  <2>. QED
    BY <1>3, <2>1 DEF TargetAt, Levels
<1>4. CASE pattern = "oscillating"
  <2>1. t % 20 \in 0 .. 19
    OBVIOUS
  <2>2. \A i \in 1 .. 20 : Sine[i] \in -100 .. 100
    BY DEF Sine
  <2>3. Oscillating(t) \in 50 .. 90
    <3>0. (t % 20) + 1 \in 1 .. 20
      BY <2>1
    <3>1. PICK s \in -100 .. 100 : Oscillating(t) = 70 + (20 * s) \div 100
      BY <2>2, <3>0, Zenon DEF Oscillating
    <3>. QED
      BY <3>1
  <2>4. Levels(pattern) = {50 + 5 * k : k \in 0 .. 8}
    BY <1>4 DEF Levels
  <2>5. 50 \in Levels(pattern) /\ 90 \in Levels(pattern)
    BY <2>4
  <2>6. TargetAt(pattern, t) = Oscillating(t)
    BY <1>4 DEF TargetAt
  <2>. QED
    BY <2>3, <2>5, <2>6
<1>. QED
  BY <1>1, <1>2, <1>3, <1>4 DEF Patterns

\* The rates of a map that was not refused are positive, none of what a profile asks for is
\* above the highest of them, and the ports are enough for that.
LEMMA RatesOfProfile ==
  ASSUME NEW pattern \in Patterns, NEW t \in Nat
  PROVE  LET rates == RateMap(Benchmark, Capacity, pattern)
             rate  == RateFor(rates, TargetAt(pattern, t))
         IN  /\ rate \in Nat \ {0} /\ rate <= Max(Range(rates))
             /\ Max(Range(rates)) \in Nat \ {0} /\ Safe(Max(Range(rates)))
<1>. DEFINE rates == RateMap(Benchmark, Capacity, pattern)
            u == TargetAt(pattern, t)
            top == Max(Range(rates))
            rate == RateFor(rates, u)
<1>1. DOMAIN rates = Levels(pattern)
  BY DEF RateMap
<1>2. /\ \A l \in Levels(pattern) : rates[l] \in Nat \ {0}
      /\ Safe(top)
  BY ConfigAssumption DEF ValidRateMaps
<1>. HIDE DEF rates, u
<1>3. rates \in Surjection(Levels(pattern), Range(rates))
  <2>1. rates \in [Levels(pattern) -> Range(rates)]
    BY <1>1 DEF Range, rates, RateMap
  <2>. QED
    BY <1>1, <2>1 DEF Range, Surjection
<1>4. /\ IsFiniteSet(Range(rates)) /\ Range(rates) # {} /\ Range(rates) \in SUBSET Int
      /\ \A r \in Range(rates) : r \in Nat \ {0}
  <2>1. IsFiniteSet(Range(rates))
    BY <1>3, LevelsAreFinite, FS_Surjection
  <2>. QED
    BY <1>1, <1>2, <2>1, LevelsAreFinite DEF Range
<1>5. top \in Nat \ {0} /\ \A l \in Levels(pattern) : rates[l] <= top
  BY <1>1, <1>4, GreatestExists DEF Range
<1>6. CASE u \in Levels(pattern)
  BY <1>1, <1>2, <1>5, <1>6 DEF RateFor, rates, u
<1>7. CASE u \notin Levels(pattern)
  <2>. DEFINE below == {l \in Levels(pattern) : l < u}
              above == {l \in Levels(pattern) : l > u}
  <2>1. u \in Int /\ below # {} /\ above # {}
    BY <1>7, TargetsAreInRange, LevelsAreFinite DEF u
  <2>2. /\ IsFiniteSet(below) /\ IsFiniteSet(above)
        /\ below \in SUBSET Int /\ above \in SUBSET Int
    BY LevelsAreFinite, FS_Subset
  <2>3. Max(below) \in below /\ Min(above) \in above
    BY <2>1, <2>2, GreatestExists, LeastExists
  <2>4. rate = Between([x |-> Max(below), y |-> rates[Max(below)]],
                       [x |-> Min(above), y |-> rates[Min(above)]], u)
    BY <1>1, <1>7 DEF RateFor
  <2>. HIDE DEF rate
  <2>5. PICK a \in Levels(pattern), b \in Levels(pattern) :
           /\ a < u /\ u < b
           /\ rate = Between([x |-> a, y |-> rates[a]], [x |-> b, y |-> rates[b]], u)
    BY <2>3, <2>4
  <2>6. /\ a \in Int /\ b \in Int /\ a <= u /\ u <= b /\ a < b
        /\ rates[a] \in Nat \ {0} /\ rates[b] \in Nat \ {0}
        /\ rates[a] <= top /\ rates[b] <= top
    BY <1>2, <1>5, <2>1, <2>5, LevelsAreFinite
  <2>7. /\ rate \in Int /\ (rates[a] <= rate \/ rates[b] <= rate)
        /\ (rate <= rates[a] \/ rate <= rates[b])
    BY <2>1, <2>5, <2>6, BetweenIsBetween
  <2>8. rate \in Nat \ {0} /\ rate <= top
    <3>. HIDE DEF top
    <3>. QED
      BY <1>5, <2>6, <2>7
  <2>. QED
    BY <1>2, <1>5, <2>8 DEF rate, rates, u
<1>. QED
  BY <1>6, <1>7

LEMMA Constants ==
  /\ Duration \in Nat \ {0} /\ Interval \in Nat \ {0} /\ Ports \in Nat \ {0}
  /\ IdleTimeout \in Nat \ {0} /\ SafetyFactor \in Nat \ {0} /\ Timeout \in Nat
  /\ MaxClock \in Nat /\ TickSeconds \in Nat \ {0} /\ Rate \in Nat \ {0} /\ Safe(Rate)
  /\ Never \in Nat /\ Never > MaxClock
  BY ConfigAssumption DEF ValidConfig, Never

\* Whatever the generator, its deadlines are at least LeastPeriod from each other, which
\* keeps the uses of a port a safe time from each other.
LEMMA DeadlinesAdvance ==
  ASSUME WorkloadTypeOK
  PROVE  /\ LeastPeriod \in Nat \ {0}
         /\ Ports * LeastPeriod >= IdleTimeout * SafetyFactor
         /\ ~Dynamic => Period = LeastPeriod
         /\ Dynamic => \A t \in Nat : /\ ProfilePeriod(rateMap, kind, t) \in Nat \ {0}
                                      /\ ProfilePeriod(rateMap, kind, t) >= LeastPeriod
<1>1. CASE ~Dynamic
  <2>1. Period \in Nat \ {0} /\ Ports * Period >= IdleTimeout * SafetyFactor
    BY Constants, Periods DEF Period, Safe
  <2>. QED
    BY <1>1, <2>1 DEF LeastPeriod
<1>2. CASE Dynamic
  <2>1. kind \in Patterns /\ rateMap = RateMap(Benchmark, Capacity, kind)
    BY <1>2 DEF Dynamic, WorkloadTypeOK
  <2>2. \A t \in Nat : t * TickSeconds \in Nat
    BY Constants
  <2>3. ASSUME NEW t \in Nat
        PROVE  /\ RateFor(rateMap, TargetAt(kind, t * TickSeconds)) \in Nat \ {0}
               /\ RateFor(rateMap, TargetAt(kind, t * TickSeconds)) <= Max(Range(rateMap))
               /\ Max(Range(rateMap)) \in Nat \ {0} /\ Safe(Max(Range(rateMap)))
    BY <2>1, <2>2, RatesOfProfile
  <2>4. /\ LeastPeriod = PeriodOf(Max(Range(rateMap)))
        /\ Max(Range(rateMap)) \in Nat \ {0} /\ Safe(Max(Range(rateMap)))
    BY <1>2, <2>3 DEF LeastPeriod
  <2>5. LeastPeriod \in Nat \ {0} /\ Ports * LeastPeriod >= IdleTimeout * SafetyFactor
    BY <2>4, Periods DEF Safe
  <2>6. ASSUME NEW t \in Nat
        PROVE  /\ ProfilePeriod(rateMap, kind, t) \in Nat \ {0}
               /\ ProfilePeriod(rateMap, kind, t) >= LeastPeriod
    <3>1. LeastPeriod \in Nat
      BY <2>5
    <3>. QED
      BY <2>3, <2>4, <3>1, Periods DEF ProfilePeriod
  <2>. QED
    BY <1>2, <2>5, <2>6
<1>. QED
  BY <1>1, <1>2

-----------------------------------------------------------------------------
(* Types, and where the loops stand                                        *)

LoopInvariant == WorkloadTypeOK /\ LoopStands

\* The steps that write no sample, send nothing and leave the probe alone.
Moves ==
  \/ WaitDeadline \/ TooLate \/ LeaveLoop \/ Finish \/ ReadClock \/ DurationIsOver
  \/ SleepShort \/ Tick

Flushes == FlushBeforeFlow \/ FlushRest \/ FlushPartial \/ FlushElapsed

Sends == SendProbe \/ ProbeFails \/ \E ok \in BOOLEAN : SendFlow(ok) \/ SendDynamic(ok)

Answers == Echo \/ Lose \/ Receive \/ ReceiveTimesOut

LEMMA EveryStep ==
  Next => Moves \/ Flushes \/ Sends \/ Answers
  BY DEF Next, Generator, Moves, Flushes, Sends, Answers

LEMMA MovesOnly ==
  ASSUME Moves
  PROVE  UNCHANGED <<setup, deadline, sentVars, probeVars, nextSample, window, written,
                     maxLag>>
  BY DEF Moves, WaitDeadline, TooLate, LeaveLoop, Finish, ReadClock, DurationIsOver,
         SleepShort, Tick, loopVars

LEMMA MovesKeepLoop ==
  ASSUME LoopInvariant, Moves
  PROVE  LoopInvariant'
<1>0. WorkloadTypeOK /\ LoopStands
  BY DEF LoopInvariant
<1>1. /\ clock' \in 0 .. MaxClock /\ now' \in 0 .. clock'
      /\ pc' \in {"loop", "look", "send", "await", "drain", "done"}
  <2>1. /\ clock \in 0 .. MaxClock /\ now \in 0 .. clock /\ MaxClock \in Nat
        /\ pc \in {"loop", "look", "send", "await", "drain", "done"}
    BY <1>0, Constants DEF WorkloadTypeOK
  <2>2. CASE Tick
    BY <2>1, <2>2 DEF Tick, loopVars
  <2>3. CASE ~Tick
    <3>1. /\ clock' = clock /\ now' \in {now, clock}
          /\ pc' \in {"loop", "look", "send", "drain", "done"}
      BY <2>3 DEF Moves, WaitDeadline, TooLate, LeaveLoop, Finish, ReadClock, DurationIsOver,
         SleepShort, Goto
    <3>. QED
      BY <2>1, <3>1
  <2>. QED
    BY <2>2, <2>3
<1>2. WorkloadTypeOK'
  BY <1>0, <1>1, MovesOnly DEF WorkloadTypeOK, setup, sentVars, probeVars
<1>3. LoopStands'
  BY <1>0, MovesOnly DEF LoopStands, WorkloadTypeOK, Moves, WaitDeadline, TooLate, LeaveLoop,
     Finish, ReadClock, DurationIsOver, SleepShort, Tick, loopVars, Goto, setup, Dynamic,
     probeVars
<1>. QED
  BY <1>2, <1>3 DEF LoopInvariant

\* Flushes write the counted window, and count the next from its end.
LEMMA FlushesOnly ==
  ASSUME LoopInvariant, Flushes
  PROVE  /\ UNCHANGED <<setup, clock, loopVars, sentVars, probeVars, maxLag>>
         /\ \E end \in {nextSample, Duration} :
              /\ written' = Append(written, Sample(end)) /\ window' = EmptyWindow(end)
              /\ \/ /\ end = nextSample /\ nextSample' = nextSample + Interval
                    /\ kind = "new_flow" /\ pc = "loop" => nextSample <= deadline
                    /\ Dynamic /\ pc = "look" => nextSample <= now
                    /\ pc # "loop" => nextSample <= Duration
                    /\ pc \in {"loop", "look", "drain"}
                 \/ /\ end = Duration /\ nextSample' = nextSample
                    /\ kind = "new_flow" /\ pc = "drain"
                    /\ nextSample > Duration /\ window.from < Duration
         /\ kind # "probe" /\ (Dynamic => pc # "loop")
  BY DEF Flushes, FlushBeforeFlow, FlushRest, FlushPartial, FlushElapsed, Flush, WindowIsOver,
         DynamicWindowIsOver, loopVars, Dynamic, Patterns

LEMMA FlushesKeepLoop ==
  ASSUME LoopInvariant, Flushes
  PROVE  LoopInvariant'
<1>0. WorkloadTypeOK /\ LoopStands
  BY DEF LoopInvariant
<1>1. PICK end \in {nextSample, Duration} :
         /\ written' = Append(written, Sample(end)) /\ window' = EmptyWindow(end)
         /\ nextSample' \in {nextSample, nextSample + Interval}
  BY FlushesOnly
<1>2. end \in Nat /\ Sample(end) \in Samples /\ EmptyWindow(end) \in Counters
  BY <1>0, Constants DEF WorkloadTypeOK, Sample, EmptyWindow, Samples, Counters
<1>3. written' \in Seq(Samples) /\ window' \in Counters /\ nextSample' \in Nat
  BY <1>0, <1>1, <1>2, Constants DEF WorkloadTypeOK
<1>. QED
  BY <1>0, <1>3, FlushesOnly DEF LoopInvariant, WorkloadTypeOK, LoopStands, setup, loopVars,
     sentVars, probeVars, Dynamic

\* A flow or a probe is sent once its deadline is over, and from the next port.
LEMMA SendsOnly ==
  ASSUME LoopInvariant, Sends
  PROVE  /\ UNCHANGED <<setup, clock, now, nextSample, written>>
         /\ deadline <= now /\ now < Duration
         /\ pc \in {"look", "send"} /\ pc' \in {"loop", "await"}
         /\ maxLag' = Later(maxLag, Lag)
         /\ deadline' \in Nat /\ deadline' >= deadline + LeastPeriod
         /\ \E time \in Nat :
              /\ UsePort(time)
              /\ IF Dynamic THEN time = now /\ ~DynamicWindowIsOver ELSE time = deadline
         /\ kind = "probe" => UNCHANGED window
         /\ kind # "probe" => /\ UNCHANGED probeVars /\ pc' = "loop"
                              /\ \E ok \in BOOLEAN : Count(ok)
<1>0. WorkloadTypeOK /\ LoopStands
  BY DEF LoopInvariant
<1>1. now \in Nat /\ deadline \in Nat /\ LeastPeriod \in Nat \ {0}
  BY <1>0, DeadlinesAdvance DEF WorkloadTypeOK
<1>2. CASE SendProbe \/ ProbeFails \/ \E ok \in BOOLEAN : SendFlow(ok)
  <2>1. ~Dynamic /\ pc = "send"
    BY <1>2 DEF SendProbe, ProbeFails, SendFlow, Dynamic, Patterns
  <2>2. deadline' = deadline + LeastPeriod
    BY <1>0, <1>2, <2>1, DeadlinesAdvance DEF SendProbe, ProbeFails, SendFlow
  <2>3. deadline <= now
    BY <1>0, <2>1 DEF LoopStands
  <2>4. /\ UNCHANGED <<setup, clock, now, nextSample, written>>
        /\ now < Duration /\ pc' \in {"loop", "await"}
        /\ maxLag' = Later(maxLag, Lag) /\ UsePort(deadline)
        /\ kind = "probe" => UNCHANGED window
        /\ kind # "probe" => /\ UNCHANGED probeVars /\ pc' = "loop"
                             /\ \E ok \in BOOLEAN : Count(ok)
    BY <1>2 DEF SendProbe, ProbeFails, SendFlow, Goto, WriteRow
  <2>. QED
    BY <1>1, <2>1, <2>2, <2>3, <2>4
<1>3. CASE \E ok \in BOOLEAN : SendDynamic(ok)
  <2>1. /\ UNCHANGED <<setup, clock, now, nextSample, written>>
        /\ deadline <= now /\ now < Duration /\ pc = "look" /\ pc' = "loop"
        /\ maxLag' = Later(maxLag, Lag) /\ UsePort(now) /\ Dynamic /\ ~DynamicWindowIsOver
        /\ deadline' = deadline + ProfilePeriod(rateMap, kind, now)
        /\ UNCHANGED probeVars /\ \E ok \in BOOLEAN : Count(ok)
    BY <1>1, <1>3 DEF SendDynamic, Goto
  <2>2. /\ ProfilePeriod(rateMap, kind, now) \in Nat
        /\ ProfilePeriod(rateMap, kind, now) >= LeastPeriod
    BY <1>0, <1>1, <2>1, DeadlinesAdvance
  <2>3. kind # "probe"
    BY <2>1 DEF Dynamic, Patterns
  <2>. QED
    BY <1>1, <2>1, <2>2, <2>3
<1>. QED
  BY <1>2, <1>3 DEF Sends

LEMMA SendsKeepLoop ==
  ASSUME LoopInvariant, Sends
  PROVE  LoopInvariant'
<1>0. WorkloadTypeOK /\ LoopStands
  BY DEF LoopInvariant
<1>1. PICK time \in Nat : UsePort(time)
  BY SendsOnly
<1>2. nextPort' \in 0 .. Ports - 1 /\ flows' \in Seq(Nat) /\ reused' \in BOOLEAN
  BY <1>0, <1>1, Constants DEF WorkloadTypeOK, UsePort, NextPort
<1>3. sentAt' \in [0 .. Ports - 1 -> (0 .. MaxClock) \cup {Never}]
  BY <1>0, <1>1 DEF WorkloadTypeOK, UsePort
<1>4. maxLag' \in Nat
  BY <1>0, SendsOnly DEF WorkloadTypeOK, Later, Lag
<1>5. window' \in Counters
  <2>1. CASE kind = "probe"
    BY <1>0, <2>1, SendsOnly DEF WorkloadTypeOK
  <2>2. CASE kind # "probe"
    <3>1. PICK ok \in BOOLEAN : Count(ok)
      BY <2>2, SendsOnly
    <3>2. window' = [from |-> window.from, attempted |-> window.attempted + 1,
                     emitted |-> IF ok THEN window.emitted + 1 ELSE window.emitted]
      BY <1>0, <3>1 DEF WorkloadTypeOK, Count, Counters
    <3>. QED
      BY <1>0, <3>2 DEF WorkloadTypeOK, Counters
  <2>. QED
    BY <2>1, <2>2
<1>6. /\ socket' \in [port : Nat, sequence : Nat, opened : Nat]
      /\ net' \subseteq Packets /\ rows' \in Seq(QosRows)
      /\ pc' = "await" => kind' = "probe" /\ socket'.sequence = Len(rows')
  <2>1. Len(rows) \in Nat /\ nextPort \in Nat /\ clock \in Nat /\ Ports \in Nat
    BY <1>0, Constants DEF WorkloadTypeOK
  <2>2. CASE kind # "probe"
    BY <1>0, <2>2, SendsOnly DEF WorkloadTypeOK, probeVars
  <2>3. CASE SendProbe
    <3>1. [port |-> nextPort, sequence |-> Sequence, to |-> "echo"] \in Packets
      BY <2>1 DEF Packets, Sequence
    <3>2. /\ net' = net \cup {[port |-> nextPort, sequence |-> Sequence, to |-> "echo"]}
          /\ socket' = [port |-> nextPort, sequence |-> Len(rows), opened |-> clock]
          /\ rows' = rows /\ kind' = kind /\ kind = "probe"
      BY <2>3 DEF SendProbe, Sequence, setup
    <3>3. net \subseteq Packets /\ rows \in Seq(QosRows)
      BY <1>0 DEF WorkloadTypeOK
    <3>. QED
      BY <2>1, <3>1, <3>2, <3>3
  <2>4. CASE ProbeFails
    <3>1. /\ [success |-> FALSE, answer |-> Sequence] \in QosRows
          /\ NoSocket \in [port : Nat, sequence : Nat, opened : Nat]
      BY <2>1 DEF QosRows, Sequence, NoSocket
    <3>. QED
      BY <1>0, <2>4, <3>1 DEF WorkloadTypeOK, ProbeFails, WriteRow, Goto
  <2>. QED
    BY <2>2, <2>3, <2>4 DEF Sends, SendFlow, SendDynamic, Dynamic, Patterns
<1>7. WorkloadTypeOK'
  BY <1>0, <1>2, <1>3, <1>4, <1>5, <1>6, SendsOnly DEF WorkloadTypeOK, setup
<1>8. LoopStands'
  BY <1>6, SendsOnly DEF LoopStands
<1>. QED
  BY <1>7, <1>8 DEF LoopInvariant

\* Packets and answers move nothing but the probe.
LEMMA AnswersOnly ==
  ASSUME Answers
  PROVE  /\ UNCHANGED <<setup, clock, now, deadline, sentVars, maxLag, nextSample, window,
                        written>>
         /\ pc' = pc \/ (pc = "await" /\ pc' = "loop")
         /\ pc' = pc => UNCHANGED <<socket, rows>>
  BY DEF Answers, Echo, Lose, Receive, ReceiveTimesOut, WriteRow, Goto, loopVars

LEMMA AnswersKeepLoop ==
  ASSUME LoopInvariant, Answers
  PROVE  LoopInvariant'
<1>0. WorkloadTypeOK /\ LoopStands
  BY DEF LoopInvariant
<1>1. net' \subseteq Packets
  <2>1. net \subseteq Packets
    BY <1>0 DEF WorkloadTypeOK
  <2>2. CASE Echo
    <3>1. PICK m \in net : net' = (net \ {m}) \cup {[m EXCEPT !.to = "probe"]}
      BY <2>2 DEF Echo
    <3>2. [m EXCEPT !.to = "probe"] \in Packets
      BY <2>1 DEF Packets
    <3>. QED
      BY <2>1, <3>1, <3>2
  <2>3. CASE Lose \/ Receive \/ ReceiveTimesOut
    BY <2>1, <2>3 DEF Lose, Receive, ReceiveTimesOut
  <2>. QED
    BY <2>2, <2>3 DEF Answers
<1>2. rows' \in Seq(QosRows) /\ socket' \in [port : Nat, sequence : Nat, opened : Nat]
  <2>1. NoSocket \in [port : Nat, sequence : Nat, opened : Nat] /\ Len(rows) \in Nat
    BY <1>0, Constants DEF NoSocket, WorkloadTypeOK
  <2>2. CASE Echo \/ Lose
    BY <1>0, <2>2 DEF WorkloadTypeOK, Echo, Lose
  <2>3. CASE Receive \/ ReceiveTimesOut
    <3>1. \E row \in QosRows : rows' = Append(rows, row) /\ socket' = NoSocket
      BY <1>0, <2>1, <2>3 DEF WorkloadTypeOK, Receive, ReceiveTimesOut, WriteRow, QosRows,
         Packets, IsAnswer, Sequence
    <3>. QED
      BY <1>0, <2>1, <3>1 DEF WorkloadTypeOK
  <2>. QED
    BY <2>2, <2>3 DEF Answers
<1>3. WorkloadTypeOK'
  BY <1>0, <1>1, <1>2, AnswersOnly DEF WorkloadTypeOK, setup, sentVars
<1>4. LoopStands'
  BY <1>0, AnswersOnly DEF LoopStands, setup, Dynamic
<1>. QED
  BY <1>3, <1>4 DEF LoopInvariant

LEMMA StutterKeepsLoop == LoopInvariant /\ UNCHANGED vars => LoopInvariant'
  BY DEF vars, setup, loopVars, sentVars, probeVars, LoopInvariant, WorkloadTypeOK,
     LoopStands, Dynamic

LEMMA InitialLoop == Init => LoopInvariant
<1>1. EmptyWindow(0) \in Counters /\ NoSocket \in [port : Nat, sequence : Nat, opened : Nat]
  BY Constants DEF EmptyWindow, Counters, NoSocket
<1>2. [p \in 0 .. Ports - 1 |-> Never] \in [0 .. Ports - 1 -> (0 .. MaxClock) \cup {Never}]
  OBVIOUS
<1>. SUFFICES ASSUME Init PROVE LoopInvariant
  OBVIOUS
<1>3. /\ clock \in 0 .. MaxClock /\ now \in 0 .. clock /\ nextPort \in 0 .. Ports - 1
      /\ written \in Seq(Samples) /\ rows \in Seq(QosRows) /\ flows \in Seq(Nat)
  BY Constants DEF Init
<1>4. WorkloadTypeOK
  BY <1>1, <1>2, <1>3, Constants DEF Init, WorkloadTypeOK
<1>. QED
  BY <1>4 DEF Init, LoopInvariant, LoopStands

\* Types, and the points where the loops stand.
THEOREM LoopInvariantHolds == Spec => []LoopInvariant
<1>1. Init => LoopInvariant
  BY InitialLoop
<1>2. LoopInvariant /\ [Next]_vars => LoopInvariant'
  <2>. SUFFICES ASSUME LoopInvariant, [Next]_vars PROVE LoopInvariant'
    OBVIOUS
  <2>. QED
    BY StutterKeepsLoop, EveryStep, MovesKeepLoop, FlushesKeepLoop, SendsKeepLoop, AnswersKeepLoop
<1>. QED
  BY <1>1, <1>2, PTL DEF Spec

-----------------------------------------------------------------------------
(* The rows of the probe                                                   *)

\* The row of a probe that succeeded has the answer to its own packet.
THEOREM RowsAreOfTheirProbes == Spec => []ProbeMeasuresItself
<1>1. Init => ProbeMeasuresItself
  BY DEF Init, ProbeMeasuresItself
<1>2. LoopInvariant /\ ProbeMeasuresItself /\ [Next]_vars => ProbeMeasuresItself'
  <2>. SUFFICES ASSUME LoopInvariant, ProbeMeasuresItself, [Next]_vars
                PROVE  ProbeMeasuresItself'
    OBVIOUS
  <2>1. rows \in Seq(QosRows) /\ (pc = "await" => socket.sequence = Len(rows))
    BY DEF LoopInvariant, WorkloadTypeOK, LoopStands
  <2>2. CASE UNCHANGED rows
    BY <2>2 DEF ProbeMeasuresItself
  <2>3. CASE ProbeFails \/ Receive \/ ReceiveTimesOut
    <3>1. PICK success \in BOOLEAN, answer \in Nat :
             /\ rows' = Append(rows, [success |-> success, answer |-> answer])
             /\ success => answer = Len(rows)
      <4>1. CASE Receive
        <5>1. PICK m \in net : WriteRow(IsAnswer(m), m.sequence)
          BY <4>1 DEF Receive
        <5>2. IsAnswer(m) \in BOOLEAN /\ m.sequence \in Nat /\ pc = "await"
          BY <4>1 DEF IsAnswer, Receive, LoopInvariant, WorkloadTypeOK, Packets
        <5>3. rows' = Append(rows, [success |-> IsAnswer(m), answer |-> m.sequence])
          BY <5>1 DEF WriteRow
        <5>4. IsAnswer(m) => m.sequence = Len(rows)
          BY <2>1, <5>2 DEF IsAnswer
        <5>. QED
          BY <5>2, <5>3, <5>4, Zenon
      <4>2. CASE ProbeFails \/ ReceiveTimesOut
        <5>1. rows' = Append(rows, [success |-> FALSE, answer |-> Len(rows)])
          BY <4>2 DEF ProbeFails, ReceiveTimesOut, WriteRow, Sequence
        <5>2. Len(rows) \in Nat
          BY <2>1
        <5>. QED
          BY <5>1, <5>2, Zenon
      <4>. QED
        BY <2>3, <4>1, <4>2
    <3>. QED
      BY <2>1, <3>1 DEF ProbeMeasuresItself
  <2>4. UNCHANGED rows \/ ProbeFails \/ Receive \/ ReceiveTimesOut
    <3>1. CASE UNCHANGED vars
      BY <3>1 DEF vars, probeVars
    <3>2. CASE Moves \/ Flushes
      BY <3>2, MovesOnly, FlushesOnly DEF probeVars
    <3>3. CASE Sends
      BY <3>3 DEF Sends, SendProbe, SendFlow, SendDynamic, probeVars
    <3>4. CASE Answers
      BY <3>4 DEF Answers, Echo, Lose
    <3>. QED
      BY <3>1, <3>2, <3>3, <3>4, EveryStep
  <2>. QED
    BY <2>2, <2>3, <2>4
<1>. QED
  BY <1>1, <1>2, LoopInvariantHolds, PTL DEF Spec

-----------------------------------------------------------------------------
(* The windows of the samples                                              *)

LEMMA MovesKeepWindows ==
  ASSUME LoopInvariant, WindowsFollow, Moves
  PROVE  WindowsFollow'
<1>1. pc \in {"drain", "done"} => pc' \in {"drain", "done"}
  BY DEF Moves, WaitDeadline, TooLate, LeaveLoop, Finish, ReadClock, DurationIsOver,
     SleepShort, Tick, loopVars, Goto
<1>. QED
  BY <1>1, MovesOnly DEF WindowsFollow, setup

LEMMA FlushesKeepWindows ==
  ASSUME LoopInvariant, WindowsFollow, Flushes
  PROVE  WindowsFollow'
<1>0. /\ window \in Counters /\ written \in Seq(Samples) /\ nextSample \in Nat
      /\ Duration \in Nat /\ Interval \in Nat
  BY Constants DEF LoopInvariant, WorkloadTypeOK
<1>1. PICK end \in {nextSample, Duration} :
         /\ written' = Append(written, Sample(end)) /\ window' = EmptyWindow(end)
         /\ \/ /\ end = nextSample /\ nextSample' = nextSample + Interval
               /\ pc # "loop" => nextSample <= Duration
            \/ /\ end = Duration /\ nextSample' = nextSample
               /\ kind = "new_flow" /\ pc = "drain"
               /\ nextSample > Duration /\ window.from < Duration
  BY FlushesOnly
<1>2. /\ end \in Nat /\ window.from \in Nat /\ window.from <= end
      /\ \/ nextSample' = end + Interval
         \/ /\ kind = "new_flow" /\ pc = "drain" /\ end = Duration /\ nextSample' > Duration
  <2>1. window.from \in Nat
    BY <1>0 DEF Counters
  <2>2. CASE /\ end = nextSample /\ nextSample' = nextSample + Interval
             /\ pc # "loop" => nextSample <= Duration
    <3>1. nextSample = window.from + Interval
      BY <1>0, <2>2 DEF WindowsFollow
    <3>. QED
      BY <1>0, <2>1, <2>2, <3>1
  <2>3. CASE /\ end = Duration /\ nextSample' = nextSample
             /\ kind = "new_flow" /\ pc = "drain"
             /\ nextSample > Duration /\ window.from < Duration
    BY <1>0, <2>1, <2>3
  <2>. QED
    BY <1>1, <2>2, <2>3
<1>3. window'.from = end /\ Sample(end).from = window.from /\ Sample(end).to = end
  BY <1>1 DEF EmptyWindow, Sample
<1>4. /\ Len(written) \in Nat /\ Len(written') = Len(written) + 1 /\ written' # <<>>
      /\ \A k \in 1 .. Len(written) : written'[k] = written[k] /\ written[k] \in Samples
      /\ written'[Len(written) + 1] = Sample(end)
      /\ written = <<>> <=> Len(written) = 0
  <2>1. Sample(end) \in Samples
    BY <1>0, <1>2 DEF Sample, Samples, Counters
  <2>. QED
    BY <1>0, <1>1, <2>1
<1>5. \A k \in 1 .. Len(written') :
         /\ written'[k].from = IF k = 1 THEN 0 ELSE written'[k-1].to
         /\ written'[k].to <= end
  <2>. TAKE k \in 1 .. Len(written')
  <2>1. CASE k \in 1 .. Len(written)
    <3>1. k # 1 => k - 1 \in 1 .. Len(written)
      BY <1>4, <2>1
    <3>2. written[k].to \in Nat
      BY <1>4, <2>1 DEF Samples
    <3>3. /\ written[k].from = IF k = 1 THEN 0 ELSE written[k-1].to
          /\ written[k].to <= window.from
      BY <2>1 DEF WindowsFollow
    <3>4. /\ written'[k] = written[k]
          /\ k # 1 => written'[k-1] = written[k-1]
      BY <1>4, <2>1, <3>1
    <3>5. written'[k].to <= end
      BY <1>2, <3>2, <3>3, <3>4
    <3>. QED
      BY <3>3, <3>4, <3>5
  <2>2. CASE k = Len(written) + 1
    <3>1. k # 1 => Len(written) \in 1 .. Len(written) /\ written # <<>> /\ k - 1 = Len(written)
      BY <1>4, <2>2
    <3>2. k = 1 => written = <<>>
      BY <1>4, <2>2
    <3>. QED
      BY <1>2, <1>3, <1>4, <2>2, <3>1, <3>2 DEF WindowsFollow
  <2>. QED
    BY <1>4, <2>1, <2>2
<1>6. UNCHANGED <<kind, pc>> /\ kind # "probe"
  BY FlushesOnly DEF setup, loopVars
<1>. QED
  BY <1>2, <1>3, <1>4, <1>5, <1>6 DEF WindowsFollow

LEMMA SendsKeepWindows ==
  ASSUME LoopInvariant, WindowsFollow, Sends
  PROVE  WindowsFollow'
<1>1. window'.from = window.from
  BY SendsOnly DEF Count, LoopInvariant, WorkloadTypeOK, Counters
<1>. QED
  BY <1>1, SendsOnly DEF WindowsFollow, setup

LEMMA AnswersKeepWindows ==
  ASSUME LoopInvariant, WindowsFollow, Answers
  PROVE  WindowsFollow'
  BY AnswersOnly DEF WindowsFollow, setup

\* The time that a flow is counted for is in the counted window.
LEMMA FlowIsInWindow ==
  ASSUME LoopInvariant, FlowsComeInTime, Sends, kind # "probe"
  PROVE  \E time \in Nat : /\ UsePort(time)
                           /\ window.from <= time /\ time < nextSample /\ time < Duration
<1>1. PICK time \in Nat :
         /\ UsePort(time)
         /\ IF Dynamic THEN time = now /\ ~DynamicWindowIsOver ELSE time = deadline
  BY SendsOnly
<1>2. now \in Nat /\ nextSample \in Nat /\ Duration \in Nat /\ window.from \in Nat
  BY Constants DEF LoopInvariant, WorkloadTypeOK, Counters
<1>3. now < Duration /\ pc \in {"look", "send"}
  BY SendsOnly
<1>4. CASE Dynamic
  <2>1. pc = "look" /\ time = now /\ ~DynamicWindowIsOver
    BY <1>1, <1>3, <1>4 DEF LoopInvariant, LoopStands
  <2>. QED
    BY <1>1, <1>2, <1>3, <1>4, <2>1 DEF FlowsComeInTime, DynamicWindowIsOver
<1>5. CASE ~Dynamic
  <2>1. kind = "new_flow" /\ pc = "send" /\ time = deadline
    BY <1>1, <1>3, <1>5 DEF LoopInvariant, LoopStands, WorkloadTypeOK, Kinds, Dynamic
  <2>. QED
    BY <1>1, <2>1 DEF FlowsComeInTime, LoopInvariant, LoopStands
<1>. QED
  BY <1>4, <1>5

\* Both loops write the windows that are over before they count a flow.
LEMMA FlowsStayInTime ==
  ASSUME LoopInvariant, FlowsComeInTime, Next, kind # "probe"
  PROVE  FlowsComeInTime'
<1>0. /\ clock \in Nat /\ now \in Nat /\ now <= clock /\ deadline \in Nat /\ flows \in Seq(Nat)
      /\ nextSample \in Nat /\ Interval \in Nat /\ LoopStands /\ Duration \in Nat
      /\ LeastPeriod \in Nat /\ window.from \in Nat
  BY Constants, DeadlinesAdvance DEF LoopInvariant, WorkloadTypeOK, Counters
<1>1. CASE Moves
  <2>1. /\ kind' = kind /\ deadline' = deadline /\ window' = window
        /\ nextSample' = nextSample /\ flows' = flows
    BY <1>1, MovesOnly DEF setup, sentVars
  <2>2. kind = "new_flow" /\ pc' = "send" => pc = "send" \/ ~WindowIsOver
    BY <1>1 DEF Moves, WaitDeadline, TooLate, LeaveLoop, Finish, ReadClock, DurationIsOver,
       SleepShort, Tick, loopVars, Goto
  <2>3. /\ pc' \in {"loop", "look", "send"} => pc \in {"loop", "look", "send"}
        /\ Dynamic /\ pc' \in {"loop", "look"} => pc \in {"loop", "look"}
        /\ kind = "new_flow" /\ pc' \in {"loop", "send"} => pc \in {"loop", "send"}
        /\ now' \in {now, clock}
    BY <1>1 DEF Moves, WaitDeadline, TooLate, LeaveLoop, Finish, ReadClock, DurationIsOver,
       SleepShort, Tick, loopVars, Goto, Dynamic, Patterns
  <2>. QED
    BY <1>0, <2>1, <2>2, <2>3 DEF FlowsComeInTime, WindowIsOver, Dynamic
<1>2. CASE Flushes
  <2>1. PICK end \in {nextSample, Duration} :
           /\ window' = EmptyWindow(end)
           /\ \/ /\ end = nextSample /\ nextSample' = nextSample + Interval
                 /\ kind = "new_flow" /\ pc = "loop" => nextSample <= deadline
                 /\ Dynamic /\ pc = "look" => nextSample <= now
                 /\ pc \in {"loop", "look", "drain"}
              \/ /\ end = Duration /\ nextSample' = nextSample
                 /\ kind = "new_flow" /\ pc = "drain"
    BY <1>2, FlushesOnly
  <2>2. UNCHANGED <<kind, pc, now, deadline, flows>> /\ (Dynamic => pc # "loop")
    BY <1>2, FlushesOnly DEF setup, loopVars, sentVars
  <2>3. window'.from = end
    BY <2>1 DEF EmptyWindow
  <2>4. \A i \in 1 .. Len(flows) : flows[i] \in Nat
    BY <1>0
  <2>5. kind = "new_flow" => ~Dynamic
    BY DEF Dynamic, Patterns
  <2>. QED
    BY <1>0, <2>1, <2>2, <2>3, <2>4, <2>5 DEF FlowsComeInTime, Dynamic
<1>3. CASE Sends
  <2>1. PICK time \in Nat : /\ UsePort(time) /\ window.from <= time
                            /\ time < nextSample /\ time < Duration
    BY <1>3, FlowIsInWindow
  <2>2. /\ kind' = kind /\ now' = now /\ nextSample' = nextSample /\ pc' = "loop"
        /\ pc \in {"look", "send"} /\ deadline' \in Nat /\ deadline' >= deadline
    BY <1>0, <1>3, SendsOnly DEF setup
  <2>3. window'.from = window.from
    BY <1>3, SendsOnly DEF Count, LoopInvariant, WorkloadTypeOK, Counters
  <2>4. \A i \in 1 .. Len(flows') : flows'[i] < nextSample /\ flows'[i] < Duration
    BY <1>0, <2>1 DEF UsePort, FlowsComeInTime
  <2>5. /\ Dynamic => pc = "look"
        /\ ~Dynamic => pc = "send"
    BY <1>0, <2>2 DEF LoopStands
  <2>6. kind = "new_flow" => ~Dynamic
    BY DEF Dynamic, Patterns
  <2>. QED
    BY <1>0, <2>2, <2>3, <2>4, <2>5, <2>6 DEF FlowsComeInTime, Dynamic
<1>4. CASE Answers
  <2>1. pc' = pc
    BY <1>0, <1>4, AnswersOnly DEF LoopStands
  <2>. QED
    BY <1>4, <2>1, AnswersOnly DEF FlowsComeInTime, setup, sentVars, Dynamic
<1>. QED
  BY <1>1, <1>2, <1>3, <1>4, EveryStep

LEMMA FlowsAreFinite ==
  ASSUME flows \in Seq(Nat), NEW from, NEW to
  PROVE  IsFiniteSet(FlowsOf(from, to)) /\ Cardinality(FlowsOf(from, to)) \in Nat
<1>1. FlowsOf(from, to) \in SUBSET Nat /\ \A i \in FlowsOf(from, to) : i <= Len(flows)
  BY DEF FlowsOf
<1>2. \A n \in Nat : (\A i \in FlowsOf(from, to) : i <= n) => IsFiniteSet(FlowsOf(from, to))
  BY <1>1, FS_BoundedSetOfNaturals
<1>3. Len(flows) \in Nat
  OBVIOUS
<1>. QED
  BY <1>1, <1>2, <1>3, FS_CardinalityType

\* A flow counts once in the windows that its time is in, and in no other.
LEMMA FlowCountsOnce ==
  ASSUME flows \in Seq(Nat), NEW time \in Nat, flows' = Append(flows, time),
         NEW from \in Nat, NEW to \in Nat
  PROVE  Cardinality(FlowsOf(from, to)') =
           IF from <= time /\ time < to THEN Cardinality(FlowsOf(from, to)) + 1
                                        ELSE Cardinality(FlowsOf(from, to))
<1>1. /\ Len(flows) \in Nat /\ Len(flows') = Len(flows) + 1 /\ flows'[Len(flows) + 1] = time
      /\ \A i \in 1 .. Len(flows) : flows'[i] = flows[i]
  OBVIOUS
<1>2. Len(flows) + 1 \notin FlowsOf(from, to)
  BY <1>1 DEF FlowsOf
<1>3. CASE from <= time /\ time < to
  <2>1. FlowsOf(from, to)' = FlowsOf(from, to) \cup {Len(flows) + 1}
    BY <1>1, <1>3 DEF FlowsOf
  <2>. QED
    BY <1>2, <1>3, <2>1, FlowsAreFinite, FS_AddElement
<1>4. CASE ~(from <= time /\ time < to)
  <2>1. FlowsOf(from, to)' = FlowsOf(from, to)
    BY <1>1, <1>4 DEF FlowsOf
  <2>. QED
    BY <1>4, <2>1
<1>. QED
  BY <1>3, <1>4

LEMMA SendsKeepCount ==
  ASSUME LoopInvariant, WindowsFollow, FlowsComeInTime, WindowsCount, Sends, kind # "probe"
  PROVE  WindowsCount'
<1>0. /\ window \in Counters /\ written \in Seq(Samples) /\ flows \in Seq(Nat)
      /\ nextSample \in Nat /\ window.from \in Nat
  BY DEF LoopInvariant, WorkloadTypeOK, Counters
<1>1. PICK time \in Nat : /\ flows' = Append(flows, time) /\ window.from <= time
                          /\ time < nextSample
  BY FlowIsInWindow DEF UsePort
<1>2. PICK ok \in BOOLEAN : Count(ok)
  BY SendsOnly
<1>3. /\ window'.from = window.from /\ window'.attempted = window.attempted + 1
      /\ window'.emitted \in {window.emitted, window.emitted + 1}
  BY <1>0, <1>2 DEF Count, Counters
<1>4. written' = written /\ nextSample' = nextSample
  BY SendsOnly
<1>5. ASSUME NEW k \in 1 .. Len(written)
      PROVE  Cardinality(FlowsOf(written[k].from, written[k].to)')
               = Cardinality(FlowsOf(written[k].from, written[k].to))
  <2>1. written[k].from \in Nat /\ written[k].to \in Nat /\ written[k].to <= time
    <3>1. written[k] \in Samples
      BY <1>0
    <3>2. written[k].to <= window.from
      BY DEF WindowsFollow
    <3>3. written[k].from \in Nat /\ written[k].to \in Nat
      BY <3>1 DEF Samples
    <3>. QED
      BY <1>0, <1>1, <3>2, <3>3
  <2>. QED
    BY <1>0, <1>1, <1>4, <2>1, FlowCountsOnce
<1>6. Cardinality(FlowsOf(window.from, nextSample)')
        = Cardinality(FlowsOf(window.from, nextSample)) + 1
  BY <1>0, <1>1, <1>3, <1>4, FlowCountsOnce
<1>7. \A k \in 1 .. Len(written') :
         /\ written'[k].attempted = Cardinality(FlowsOf(written[k].from, written[k].to)')
         /\ written'[k].emitted <= written'[k].attempted
  BY <1>4, <1>5 DEF WindowsCount
<1>8. /\ window'.attempted = Cardinality(FlowsOf(window.from, nextSample)')
      /\ window'.emitted <= window'.attempted
  BY <1>0, <1>3, <1>6 DEF WindowsCount, Counters
<1>. QED
  BY <1>3, <1>4, <1>7, <1>8 DEF WindowsCount, FlowsOf

LEMMA FlushesKeepCount ==
  ASSUME LoopInvariant, WindowsFollow, FlowsComeInTime, WindowsCount, Flushes
  PROVE  WindowsCount'
<1>0. /\ window \in Counters /\ written \in Seq(Samples) /\ flows \in Seq(Nat)
      /\ nextSample \in Nat /\ window.from \in Nat /\ Duration \in Nat
  BY Constants DEF LoopInvariant, WorkloadTypeOK, Counters
<1>1. PICK end \in {nextSample, Duration} :
         /\ written' = Append(written, Sample(end)) /\ window' = EmptyWindow(end)
         /\ end = Duration => nextSample >= Duration \/ end = nextSample
  BY <1>0, FlushesOnly
<1>2. flows' = flows /\ end \in Nat
  BY <1>0, <1>1, FlushesOnly DEF sentVars
<1>3. \A i \in 1 .. Len(flows) : flows[i] \in Nat /\ flows[i] < nextSample /\ flows[i] < Duration
  BY <1>0 DEF FlowsComeInTime
<1>4. FlowsOf(window.from, end) = FlowsOf(window.from, nextSample)
  BY <1>0, <1>1, <1>3 DEF FlowsOf
<1>5. \A to : FlowsOf(end, to) = {}
  BY <1>0, <1>1, <1>3 DEF FlowsOf
<1>6. Sample(end) \in Samples
  BY <1>0, <1>2 DEF Sample, Samples, Counters
<1>7. /\ Len(written) \in Nat /\ Len(written') = Len(written) + 1
      /\ \A k \in 1 .. Len(written) : written'[k] = written[k]
      /\ written'[Len(written) + 1] = Sample(end)
  BY <1>0, <1>1, <1>6
<1>8. /\ Sample(end).attempted = Cardinality(FlowsOf(Sample(end).from, Sample(end).to))
      /\ Sample(end).emitted <= Sample(end).attempted
  BY <1>4 DEF Sample, WindowsCount
<1>9. \A k \in 1 .. Len(written') :
         /\ written'[k].attempted = Cardinality(FlowsOf(written'[k].from, written'[k].to))
         /\ written'[k].emitted <= written'[k].attempted
  BY <1>7, <1>8 DEF WindowsCount
<1>10. /\ window'.attempted = Cardinality(FlowsOf(window'.from, nextSample'))
       /\ window'.emitted <= window'.attempted
  <2>1. window'.attempted = 0 /\ window'.emitted = 0 /\ window'.from = end
    BY <1>1 DEF EmptyWindow
  <2>. QED
    BY <1>5, <2>1, FS_EmptySet
<1>. QED
  BY <1>2, <1>9, <1>10 DEF WindowsCount, FlowsOf

LEMMA WindowsStayCounted ==
  ASSUME LoopInvariant, WindowsFollow, FlowsComeInTime, WindowsCount, Next, kind # "probe"
  PROVE  WindowsCount'
<1>1. CASE Moves
  BY <1>1, MovesOnly DEF WindowsCount, FlowsOf, sentVars
<1>2. CASE Answers
  BY <1>2, AnswersOnly DEF WindowsCount, FlowsOf, sentVars
<1>. QED
  BY <1>1, <1>2, EveryStep, SendsKeepCount, FlushesKeepCount

LEMMA NothingStaysLeft ==
  ASSUME LoopInvariant, NothingIsLeft, Next, kind # "probe"
  PROVE  NothingIsLeft'
<1>1. CASE Finish
  <2>1. window.from \in Nat /\ Duration \in Nat /\ (Dynamic \/ kind = "new_flow")
    BY Constants DEF LoopInvariant, WorkloadTypeOK, Counters, Kinds, Dynamic
  <2>. QED
    BY <1>1, <2>1 DEF Finish, NothingIsLeft, setup, Dynamic
<1>2. CASE ~Finish
  <2>1. pc' = "done" => UNCHANGED <<kind, pc, window, nextSample>>
    <3>1. CASE Moves
      BY <1>2, <3>1 DEF Moves, WaitDeadline, TooLate, LeaveLoop, ReadClock, DurationIsOver,
         SleepShort, Tick, loopVars, Goto
    <3>2. CASE Flushes
      BY <3>2, FlushesOnly DEF loopVars
    <3>3. CASE Sends
      BY <3>3, SendsOnly
    <3>4. CASE Answers
      BY <3>4, AnswersOnly DEF setup
    <3>. QED
      BY <3>1, <3>2, <3>3, <3>4, EveryStep
  <2>. QED
    BY <2>1 DEF NothingIsLeft, Dynamic
<1>. QED
  BY <1>1, <1>2

\* The windows follow each other and each flow is counted in that of its time.
THEOREM WindowInvariantHolds == Spec => []WindowInvariant
<1>1. Init => WindowInvariant
  <2>. SUFFICES ASSUME Init PROVE WindowInvariant
    OBVIOUS
  <2>0. LoopInvariant
    BY InitialLoop
  <2>1. /\ written = <<>> /\ flows = <<>> /\ window.from = 0 /\ window.attempted = 0
        /\ window.emitted = 0 /\ nextSample = Interval /\ now = 0 /\ deadline = 0
        /\ pc = "loop"
    BY DEF Init, EmptyWindow
  <2>2. WindowsFollow /\ FlowsComeInTime /\ NothingIsLeft
    BY <2>1, Constants DEF WindowsFollow, FlowsComeInTime, NothingIsLeft
  <2>3. FlowsOf(0, Interval) = {}
    BY <2>1 DEF FlowsOf
  <2>4. WindowsCount
    <3>1. Cardinality(FlowsOf(window.from, nextSample)) = 0
      BY <2>1, <2>3, FS_EmptySet
    <3>2. 1 .. Len(written) = {}
      BY <2>1
    <3>. QED
      BY <2>1, <3>1, <3>2 DEF WindowsCount
  <2>. QED
    BY <2>0, <2>2, <2>4 DEF WindowInvariant, LoopInvariant
<1>2. WindowInvariant /\ [Next]_vars => WindowInvariant'
  <2>. SUFFICES ASSUME WindowInvariant, [Next]_vars PROVE WindowInvariant'
    OBVIOUS
  <2>0. LoopInvariant /\ WindowsFollow
    BY DEF WindowInvariant, LoopInvariant
  <2>1. CASE UNCHANGED vars
    <3>1. UNCHANGED <<kind, pc, window, written, nextSample, deadline, now, flows>>
      BY <2>1 DEF vars, setup, loopVars, sentVars
    <3>2. LoopInvariant'
      BY <2>0, <2>1, StutterKeepsLoop
    <3>3. WindowsFollow' /\ (FlowsComeInTime => FlowsComeInTime')
      BY <2>0, <3>1 DEF WindowsFollow, FlowsComeInTime, Dynamic
    <3>4. (WindowsCount => WindowsCount') /\ (NothingIsLeft => NothingIsLeft')
      BY <3>1 DEF WindowsCount, FlowsOf, NothingIsLeft, Dynamic
    <3>. QED
      BY <3>1, <3>2, <3>3, <3>4 DEF WindowInvariant, LoopInvariant
  <2>2. CASE Next
    <3>1. LoopInvariant'
      BY <2>0, <2>2, EveryStep, MovesKeepLoop, FlushesKeepLoop, SendsKeepLoop, AnswersKeepLoop
    <3>2. WindowsFollow'
      BY <2>0, <2>2, EveryStep, MovesKeepWindows, FlushesKeepWindows, SendsKeepWindows,
         AnswersKeepWindows
    <3>3. kind' = kind
      BY <2>0, <2>2, EveryStep, MovesOnly, FlushesOnly, SendsOnly, AnswersOnly DEF setup
    <3>4. kind # "probe" => FlowsComeInTime' /\ WindowsCount' /\ NothingIsLeft'
      BY <2>0, <2>2, FlowsStayInTime, WindowsStayCounted, NothingStaysLeft DEF WindowInvariant
    <3>. QED
      BY <3>1, <3>2, <3>3, <3>4 DEF WindowInvariant, LoopInvariant
  <2>. QED
    BY <2>1, <2>2
<1>. QED
  BY <1>1, <1>2, PTL DEF Spec

\* The samples account for the flows: each window counts those of its own time and no
\* others, and none is missing when the generator is done.
THEOREM SamplesTellFlows == Spec => []WindowsTellFlows
<1>1. WindowInvariant => WindowsTellFlows
  <2>. SUFFICES ASSUME WindowInvariant PROVE WindowsTellFlows
    OBVIOUS
  <2>0. /\ WindowsFollow /\ nextSample \in Nat /\ window.from \in Nat /\ Interval \in Nat
        /\ Duration \in Nat /\ flows \in Seq(Nat) /\ kind \in Kinds
    BY Constants DEF WindowInvariant, WorkloadTypeOK, Counters
  <2>1. ASSUME NEW k \in 1 .. Len(written)
        PROVE  /\ written[k].from = IF k = 1 THEN 0 ELSE written[k-1].to
               /\ written[k].attempted = Cardinality(FlowsOf(written[k].from, written[k].to))
               /\ written[k].emitted <= written[k].attempted
    <3>1. kind # "probe"
      BY <2>0 DEF WindowsFollow
    <3>. QED
      BY <2>0, <3>1 DEF WindowInvariant, WindowsFollow, WindowsCount
  <2>2. ASSUME pc = "done", kind # "probe"
        PROVE  \/ FlowsOf(0, Duration) = FlowsOf(0, window.from)
               \/ Dynamic /\ window.from + Interval > Duration
    <3>1. NothingIsLeft /\ FlowsComeInTime
      BY <2>2 DEF WindowInvariant
    <3>2. CASE Dynamic
      <4>1. nextSample = window.from + Interval
        BY <2>0, <3>2 DEF WindowsFollow, Dynamic, Patterns
      <4>. QED
        BY <2>2, <3>1, <3>2, <4>1 DEF NothingIsLeft
    <3>3. CASE ~Dynamic
      <4>1. window.from >= Duration
        BY <2>2, <3>1, <3>3 DEF NothingIsLeft
      <4>2. \A i \in 1 .. Len(flows) : flows[i] \in Nat /\ flows[i] < Duration
        BY <2>0, <3>1 DEF FlowsComeInTime
      <4>. QED
        BY <2>0, <4>1, <4>2 DEF FlowsOf
    <3>. QED
      BY <3>2, <3>3
  <2>. QED
    BY <2>1, <2>2 DEF WindowsTellFlows
<1>. QED
  BY <1>1, WindowInvariantHolds, PTL

-----------------------------------------------------------------------------
(* The reuse of ports                                                      *)

\* A port that comes round again was used Ports flows ago.
LEMMA PortDistance ==
  ASSUME WorkloadTypeOK, NEW p \in 0 .. Ports - 1
  PROVE  /\ Apart(p) \in 0 .. Ports - 1
         /\ p = nextPort => Apart(p) = Ports - 1
         /\ nextPort' = NextPort =>
              Apart(p)' = IF p = nextPort THEN 0 ELSE Apart(p) + 1
<1>1. nextPort \in 0 .. Ports - 1 /\ Ports \in Nat \ {0}
  BY Constants DEF WorkloadTypeOK
<1>2. ASSUME nextPort' = NextPort
      PROVE  Apart(p)' = IF p = nextPort THEN 0 ELSE Apart(p) + 1
  <2>1. CASE nextPort = Ports - 1
    BY <1>1, <1>2, <2>1 DEF Apart, NextPort
  <2>2. CASE nextPort < Ports - 1
    BY <1>1, <1>2, <2>2 DEF Apart, NextPort
  <2>. QED
    BY <1>1, <2>1, <2>2
<1>. QED
  BY <1>1, <1>2 DEF Apart

\* What a flow was sent late, against the lag of the next one and the margin of the ports.
LEMMA LagShows ==
  /\ \A used, read, due, lag \in Nat : used <= read /\ read <= due + lag => used <= lag + due
  /\ \A used, span, due, before, lag \in Nat :
        used + span <= before + due /\ before <= lag => used + span <= lag + due
  /\ \A span, period, margin, idle, lag \in Nat :
        span + period >= margin + idle /\ span < lag + idle => lag + period > margin
  /\ \A used, span, due, at, lag, idle \in Nat :
        /\ used + span <= lag + due /\ due <= at /\ at - used < idle
        => span < lag + idle
  /\ \A used, span, period, due, next, lag \in Nat :
        used + span <= lag + due /\ next >= due + period => used + (span + period) <= lag + next
  OBVIOUS

\* A send of the next port: the one before it was read before its time was, so that what
\* the generator was held up for after that shows in the lag of this one.
LEMMA SendsKeepApart ==
  ASSUME LoopInvariant, PortsAreApart, Sends
  PROVE  PortsAreApart'
<1>0. /\ WorkloadTypeOK /\ clock \in Nat /\ clock <= MaxClock /\ now \in Nat /\ deadline \in Nat
      /\ maxLag \in Nat /\ LeastPeriod \in Nat \ {0} /\ now <= clock
      /\ nextPort \in 0 .. Ports - 1 /\ Ports \in Nat \ {0}
      /\ sentAt \in [0 .. Ports - 1 -> (0 .. MaxClock) \cup {Never}]
  <2>1. WorkloadTypeOK
    BY DEF LoopInvariant
  <2>2. LeastPeriod \in Nat \ {0}
    BY <2>1, DeadlinesAdvance
  <2>. QED
    BY <2>1, <2>2, Constants DEF WorkloadTypeOK
<1>1. /\ clock' = clock /\ pc \in {"look", "send"} /\ pc' \in {"loop", "await"}
      /\ maxLag' = Later(maxLag, Lag) /\ deadline <= now
      /\ deadline' \in Nat /\ deadline' >= deadline + LeastPeriod
  BY SendsOnly
<1>2. nextPort' = NextPort /\ sentAt' = [sentAt EXCEPT ![nextPort] = clock]
  BY SendsOnly DEF UsePort
<1>3. LeastPeriod' = LeastPeriod
  BY SendsOnly DEF LeastPeriod, setup, Dynamic, Period
<1>4. maxLag' \in Nat /\ maxLag <= maxLag' /\ now <= deadline + maxLag'
  BY <1>0, <1>1 DEF Later, Lag
<1>. SUFFICES ASSUME NEW p \in 0 .. Ports - 1, sentAt'[p] # Never
              PROVE  /\ sentAt'[p] <= clock'
                     /\ Apart(p)' > 0 =>
                          sentAt'[p] + Apart(p)' * LeastPeriod <= maxLag' + deadline'
  BY <1>1, <1>3 DEF PortsAreApart
<1>5. Apart(p) \in Nat /\ Apart(p)' = IF p = nextPort THEN 0 ELSE Apart(p) + 1
  BY <1>0, <1>2, PortDistance
<1>6. CASE p = nextPort
  BY <1>0, <1>1, <1>2, <1>5, <1>6
<1>7. CASE p # nextPort
  <2>1. sentAt'[p] = sentAt[p] /\ sentAt[p] # Never
    BY <1>0, <1>2, <1>7
  <2>2. /\ sentAt[p] \in Nat /\ sentAt[p] <= clock /\ sentAt[p] <= now
        /\ Apart(p) > 0 => sentAt[p] + Apart(p) * LeastPeriod <= maxLag + deadline
    BY <1>0, <1>1, <2>1 DEF PortsAreApart
  <2>3. /\ Apart(p) * LeastPeriod \in Nat
        /\ (Apart(p) + 1) * LeastPeriod = Apart(p) * LeastPeriod + LeastPeriod
        /\ Apart(p) = 0 => Apart(p) * LeastPeriod = 0
    BY <1>0, <1>5
  <2>4. Apart(p)' = Apart(p) + 1
    BY <1>5, <1>7
  <2>5. sentAt[p] + Apart(p) * LeastPeriod <= maxLag' + deadline
    <3>1. CASE Apart(p) = 0
      <4>1. Apart(p) * LeastPeriod = 0
        BY <2>3, <3>1
      <4>2. sentAt[p] <= maxLag' + deadline
        <5>1. /\ sentAt[p] \in Nat /\ sentAt[p] <= now /\ now \in Nat /\ maxLag' \in Nat
              /\ deadline \in Nat /\ now <= deadline + maxLag'
          BY <1>0, <1>4, <2>2
        <5>. QED
          BY <5>1, LagShows
      <4>. QED
        BY <2>2, <4>1, <4>2
    <3>2. CASE Apart(p) > 0
      <4>. DEFINE ahead == Apart(p) * LeastPeriod
      <4>1. ahead \in Nat /\ sentAt[p] + ahead <= maxLag + deadline
        BY <2>2, <2>3, <3>2
      <4>. HIDE DEF ahead
      <4>2. sentAt[p] + ahead <= maxLag' + deadline
        BY <1>0, <1>4, <2>2, <4>1
      <4>. QED
        BY <4>2 DEF ahead
    <3>. QED
      BY <1>5, <3>1, <3>2
  <2>6. sentAt[p] + (Apart(p) * LeastPeriod + LeastPeriod) <= maxLag' + deadline'
    <3>1. /\ sentAt[p] \in Nat /\ Apart(p) * LeastPeriod \in Nat /\ LeastPeriod \in Nat
          /\ deadline \in Nat /\ deadline' \in Nat /\ maxLag' \in Nat
          /\ deadline' >= deadline + LeastPeriod
      BY <1>0, <1>1, <1>4, <2>2, <2>3
    <3>. QED
      BY <2>5, <3>1, LagShows
  <2>. QED
    BY <1>1, <2>1, <2>2, <2>3, <2>4, <2>6
<1>. QED
  BY <1>6, <1>7

\* A port that is used too early was used, or will be seen to be, too late before.
LEMMA ReuseShows ==
  ASSUME LoopInvariant, PortsAreApart, Sends,
         sentAt[nextPort] # Never, clock - sentAt[nextPort] < IdleTimeout
  PROVE  maxLag' + LeastPeriod > (SafetyFactor - 1) * IdleTimeout
<1>. DEFINE q == nextPort
            span == (Ports - 1) * LeastPeriod
            margin == (SafetyFactor - 1) * IdleTimeout
<1>0. WorkloadTypeOK
  BY DEF LoopInvariant
<1>1. /\ clock \in Nat /\ now \in Nat /\ deadline \in Nat /\ maxLag \in Nat /\ now <= clock
      /\ q \in 0 .. Ports - 1 /\ sentAt \in [0 .. Ports - 1 -> (0 .. MaxClock) \cup {Never}]
  BY <1>0, Constants DEF WorkloadTypeOK
<1>2. /\ Ports \in Nat \ {0} /\ IdleTimeout \in Nat \ {0} /\ SafetyFactor \in Nat \ {0}
      /\ MaxClock \in Nat /\ LeastPeriod \in Nat \ {0}
  BY <1>0, Constants, DeadlinesAdvance
<1>3. pc \in {"look", "send"} /\ maxLag' = Later(maxLag, Lag) /\ deadline <= now
  BY SendsOnly
<1>4. maxLag' \in Nat /\ maxLag <= maxLag' /\ now <= deadline + maxLag'
  BY <1>1, <1>3 DEF Later, Lag
<1>5. Apart(q) = Ports - 1 /\ sentAt[q] \in Nat
  BY <1>0, <1>1, <1>2, PortDistance
<1>6. /\ sentAt[q] <= now
      /\ Ports > 1 => sentAt[q] + span <= maxLag + deadline
  <2>1. /\ sentAt[q] <= now
        /\ Apart(q) > 0 => sentAt[q] + Apart(q) * LeastPeriod <= maxLag + deadline
    BY <1>1, <1>3 DEF PortsAreApart
  <2>2. Ports > 1 => Apart(q) > 0
    BY <1>2, <1>5
  <2>3. Apart(q) * LeastPeriod = span
    BY <1>5
  <2>. QED
    BY <2>1, <2>2, <2>3
<1>7. /\ span \in Nat /\ margin \in Nat /\ (Ports = 1 => span = 0)
      /\ span + LeastPeriod >= margin + IdleTimeout
  <2>1. span \in Nat /\ margin \in Nat
    BY <1>2
  <2>2. Ports * LeastPeriod = span + LeastPeriod
    BY <1>2
  <2>3. IdleTimeout * SafetyFactor = margin + IdleTimeout
    BY <1>2
  <2>4. Ports = 1 => span = 0
    BY <1>2
  <2>5. Ports * LeastPeriod >= IdleTimeout * SafetyFactor
    BY <1>0, DeadlinesAdvance
  <2>. QED
    BY <1>2, <2>1, <2>2, <2>3, <2>4, <2>5
<1>. HIDE DEF span, margin
<1>8. sentAt[q] + span <= maxLag' + deadline
  <2>1. CASE Ports = 1
    <3>1. span = 0
      BY <1>7, <2>1
    <3>2. sentAt[q] <= maxLag' + deadline
      <4>1. /\ sentAt[q] \in Nat /\ sentAt[q] <= now /\ now \in Nat /\ maxLag' \in Nat
            /\ deadline \in Nat /\ now <= deadline + maxLag'
        BY <1>1, <1>4, <1>5, <1>6
      <4>. QED
        BY <4>1, LagShows
    <3>. QED
      BY <1>5, <3>1, <3>2
  <2>2. CASE Ports > 1
    <3>1. sentAt[q] + span <= maxLag + deadline
      BY <1>6, <2>2
    <3>2. /\ maxLag \in Nat /\ maxLag' \in Nat /\ maxLag <= maxLag' /\ deadline \in Nat
          /\ sentAt[q] \in Nat /\ span \in Nat
      BY <1>1, <1>4, <1>5, <1>7
    <3>. QED
      BY <3>1, <3>2, LagShows
  <2>. QED
    BY <1>2, <2>1, <2>2
<1>9. span < maxLag' + IdleTimeout
  <2>1. /\ sentAt[q] \in Nat /\ span \in Nat /\ maxLag' \in Nat /\ deadline \in Nat
        /\ clock \in Nat /\ IdleTimeout \in Nat /\ deadline <= clock
    BY <1>1, <1>2, <1>3, <1>4, <1>5, <1>7
  <2>2. clock - sentAt[q] < IdleTimeout
    OBVIOUS
  <2>. QED
    BY <1>8, <2>1, <2>2, LagShows
<1>10. maxLag' + LeastPeriod > margin
  <2>1. /\ maxLag' \in Nat /\ LeastPeriod \in Nat /\ margin \in Nat /\ span \in Nat
        /\ IdleTimeout \in Nat
    BY <1>2, <1>4, <1>7
  <2>. QED
    BY <1>7, <1>9, <2>1, LagShows
<1>. QED
  BY <1>10 DEF margin

LEMMA OthersKeepApart ==
  ASSUME LoopInvariant, PortsAreApart, Moves \/ Flushes \/ Answers
  PROVE  PortsAreApart' /\ LeastPeriod' = LeastPeriod /\ maxLag' = maxLag /\ reused' = reused
<1>0. /\ clock \in Nat /\ Never \in Nat /\ Never > MaxClock
      /\ sentAt \in [0 .. Ports - 1 -> (0 .. MaxClock) \cup {Never}] /\ MaxClock \in Nat
  BY Constants DEF LoopInvariant, WorkloadTypeOK
<1>1. UNCHANGED <<kind, rateMap, deadline, sentAt, nextPort, maxLag, reused>>
  BY MovesOnly, FlushesOnly, AnswersOnly DEF setup, sentVars, loopVars
<1>2. LeastPeriod' = LeastPeriod /\ \A p : Apart(p)' = Apart(p)
  BY <1>1 DEF LeastPeriod, Dynamic, Period, Apart
<1>3. /\ clock' \in {clock, clock + 1}
      /\ pc' \in {"look", "send"} => \/ pc \in {"look", "send"} /\ now' = now
                                     \/ now' = clock
  <2>1. CASE Moves
    BY <2>1 DEF Moves, WaitDeadline, TooLate, LeaveLoop, Finish, ReadClock, DurationIsOver,
       SleepShort, Tick, loopVars, Goto
  <2>2. CASE Flushes \/ Answers
    BY <2>2, FlushesOnly, AnswersOnly DEF loopVars
  <2>. QED
    BY <2>1, <2>2
<1>4. ASSUME NEW p \in 0 .. Ports - 1, sentAt[p] # Never
      PROVE  /\ sentAt[p] <= clock'
             /\ pc' \in {"look", "send"} => sentAt[p] <= now'
             /\ Apart(p) > 0 => sentAt[p] + Apart(p) * LeastPeriod <= maxLag + deadline
  <2>1. sentAt[p] \in Nat /\ sentAt[p] <= clock
    BY <1>0, <1>4 DEF PortsAreApart
  <2>2. pc' \in {"look", "send"} => sentAt[p] <= now'
    BY <1>3, <1>4, <2>1 DEF PortsAreApart
  <2>. QED
    BY <1>0, <1>3, <1>4, <2>1, <2>2 DEF PortsAreApart
<1>. QED
  BY <1>1, <1>2, <1>4 DEF PortsAreApart

\* The uses of a port are as far apart as the deadlines between them, less the lag.
THEOREM LagInvariantHolds == Spec => []LagInvariant
<1>1. Init => LagInvariant
  <2>. SUFFICES ASSUME Init PROVE LagInvariant
    OBVIOUS
  <2>1. \A p \in 0 .. Ports - 1 : sentAt[p] = Never
    BY DEF Init
  <2>2. ~reused
    BY DEF Init
  <2>. QED
    BY <2>1, <2>2, InitialLoop DEF LagInvariant, LoopInvariant, PortsAreApart
<1>2. LagInvariant /\ [Next]_vars => LagInvariant'
  <2>. SUFFICES ASSUME LagInvariant, [Next]_vars PROVE LagInvariant'
    OBVIOUS
  <2>0. /\ LoopInvariant /\ PortsAreApart
        /\ reused => maxLag + LeastPeriod > (SafetyFactor - 1) * IdleTimeout
    BY DEF LagInvariant, LoopInvariant
  <2>1. CASE UNCHANGED vars
    <3>1. LoopInvariant'
      BY <2>0, <2>1, StutterKeepsLoop
    <3>2. UNCHANGED <<kind, rateMap, clock, pc, now, deadline, nextPort, sentAt, reused, maxLag>>
      BY <2>1 DEF vars, setup, loopVars, sentVars
    <3>3. LeastPeriod' = LeastPeriod /\ \A p : Apart(p)' = Apart(p)
      BY <3>2 DEF LeastPeriod, Dynamic, Period, Apart
    <3>4. PortsAreApart'
      BY <2>0, <3>2, <3>3 DEF PortsAreApart
    <3>. QED
      BY <2>0, <3>1, <3>2, <3>3, <3>4 DEF LagInvariant, LoopInvariant
  <2>2. CASE Next
    <3>1. LoopInvariant'
      BY <2>0, <2>2, EveryStep, MovesKeepLoop, FlushesKeepLoop, SendsKeepLoop, AnswersKeepLoop
    <3>2. CASE Moves \/ Flushes \/ Answers
      BY <2>0, <3>1, <3>2, OthersKeepApart DEF LagInvariant, LoopInvariant
    <3>3. CASE Sends
      <4>1. reused' = (reused \/ (sentAt[nextPort] # Never
                                  /\ clock - sentAt[nextPort] < IdleTimeout))
        BY <2>0, <3>3, SendsOnly DEF UsePort
      <4>2. LeastPeriod' = LeastPeriod
        BY <2>0, <3>3, SendsOnly DEF LeastPeriod, setup, Dynamic, Period
      <4>3. /\ maxLag' >= maxLag /\ maxLag \in Nat /\ maxLag' \in Nat
            /\ LeastPeriod \in Nat /\ (SafetyFactor - 1) * IdleTimeout \in Int
        <5>1. /\ maxLag \in Nat /\ now \in Nat /\ deadline \in Nat /\ LeastPeriod \in Nat
              /\ SafetyFactor \in Nat /\ IdleTimeout \in Nat
          BY <2>0, Constants, DeadlinesAdvance DEF LoopInvariant, WorkloadTypeOK
        <5>. QED
          BY <2>0, <3>3, <5>1, SendsOnly DEF Later, Lag
      <4>4. reused' => maxLag' + LeastPeriod > (SafetyFactor - 1) * IdleTimeout
        <5>1. CASE reused
          BY <2>0, <4>3, <5>1
        <5>2. CASE sentAt[nextPort] # Never /\ clock - sentAt[nextPort] < IdleTimeout
          BY <2>0, <3>3, <5>2, ReuseShows
        <5>. QED
          BY <4>1, <5>1, <5>2
      <4>. QED
        BY <2>0, <3>1, <3>3, <4>2, <4>4, SendsKeepApart DEF LagInvariant, LoopInvariant
    <3>. QED
      BY <2>2, <3>2, <3>3, EveryStep
  <2>. QED
    BY <2>1, <2>2
<1>. QED
  BY <1>1, <1>2, PTL DEF Spec

\* A generator that was held up may send packets that are no new flows, and never does so
\* without a lag of more than the margin, less one period, in its samples.
THEOREM NoReuseUnseen == Spec => []ReuseShowsInLag
<1>1. LagInvariant => ReuseShowsInLag
  <2>. SUFFICES ASSUME LagInvariant, reused
                PROVE  \E p \in IF Dynamic
                                  THEN {ProfilePeriod(rateMap, kind, t) : t \in 0 .. Duration}
                                  ELSE {Period} :
                          maxLag + p > (SafetyFactor - 1) * IdleTimeout
    BY DEF ReuseShowsInLag
  <2>1. maxLag + LeastPeriod > (SafetyFactor - 1) * IdleTimeout
    BY DEF LagInvariant
  <2>2. WorkloadTypeOK /\ maxLag \in Nat /\ (SafetyFactor - 1) * IdleTimeout \in Int
    BY Constants DEF LagInvariant, WorkloadTypeOK
  <2>3. CASE ~Dynamic
    BY <2>1, <2>2, <2>3, DeadlinesAdvance
  <2>4. CASE Dynamic
    <3>1. /\ LeastPeriod \in Nat /\ ProfilePeriod(rateMap, kind, 0) \in Nat
          /\ ProfilePeriod(rateMap, kind, 0) >= LeastPeriod
      BY <2>2, <2>4, DeadlinesAdvance
    <3>2. maxLag + ProfilePeriod(rateMap, kind, 0) > (SafetyFactor - 1) * IdleTimeout
      BY <2>1, <2>2, <3>1
    <3>3. 0 \in 0 .. Duration
      BY Constants
    <3>. QED
      BY <2>4, <3>2, <3>3
  <2>. QED
    BY <2>3, <2>4
<1>. QED
  BY <1>1, LagInvariantHolds, PTL

=============================================================================
