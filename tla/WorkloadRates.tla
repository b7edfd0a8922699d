--------------------------- MODULE WorkloadRates ---------------------------
(***************************************************************************)
(* From a utilization to the rate of a traffic generator: the profiles say *)
(* what utilization is asked for at a time, CapacityWorkloadMapper inverts *)
(* the capacity benchmark, and udp_dynamic_flow interpolates between the   *)
(* levels that the mapper was asked for.                                   *)
(*                                                                         *)
(* Utilizations are in percent of the safe capacity, times in seconds.     *)
(* Rates are whole numbers, so interpolation rounds down, which the floats *)
(* of the code do not.                                                     *)
(***************************************************************************)
EXTENDS Integers, SequencesExt, FiniteSetsExt

----------------------------------------------------------------------------
(* Profiles                                                                *)

Burst(t) == CASE t \in 15..24 -> 110 [] t \in 45..54 -> 105 [] OTHER -> 50

Gradual(t) == IF t < 50 THEN <<40, 50, 60, 70, 80>>[(t \div 10) + 1] ELSE 95

StableLevel == 60

\* The sine of a twentieth of a turn, in percent.
Sine == <<0, 31, 59, 81, 95, 100, 95, 81, 59, 31,
          0, -31, -59, -81, -95, -100, -95, -81, -59, -31>>

Oscillating(t) == 70 + (20 * Sine[(t % 20) + 1]) \div 100

Patterns == {"stable", "gradual", "burst", "oscillating"}

TargetAt(pattern, t) ==
    CASE pattern = "stable" -> StableLevel
      [] pattern = "gradual" -> Gradual(t)
      [] pattern = "burst" -> Burst(t)
      [] pattern = "oscillating" -> Oscillating(t)

\* The levels that the script of the pattern asks the mapper for.
Levels(pattern) ==
    CASE pattern = "stable" -> {StableLevel}
      [] pattern = "gradual" -> {40, 50, 60, 70, 80, 95}
      [] pattern = "burst" -> {50, 105, 110}
      [] pattern = "oscillating" -> {50 + 5 * k : k \in 0..8}

----------------------------------------------------------------------------
(* The benchmark                                                           *)

\* The valid rows of capacity_runs.csv, those with one offered rate taken
\* together, by offered rate.
MeanPoints(rows) ==
    LET valid == {r \in rows : r.valid}
        With(offered) == {r \in valid : r.offered = offered}
        Mean(offered) == MapThenSumSet(LAMBDA r : r.processed, With(offered))
                           \div Cardinality(With(offered))
    IN  SetToSortSeq({[offered |-> x, processed |-> Mean(x)] : x \in {r.offered : r \in valid}},
                     LAMBDA a, b : a.offered < b.offered)

\* The first point that processes no more than the one before it, and all the
\* points after it, are discarded.
MonotonicPoints(points) ==
    LET drops == {i \in 2..Len(points) : points[i].processed <= points[i-1].processed}
    IN  SelectSeq(points, LAMBDA p :
            \A i \in drops : p.offered < points[i].offered)

\* _load_benchmarks refuses a controller with fewer than two of them.
Usable(points) == Len(MonotonicPoints(points)) >= 2

\* The value at x of the line from one point to the other.
Between(left, right, x) ==
    left.y + ((x - left.x) * (right.y - left.y)) \div (right.x - left.x)

\* The rate that makes the controller process the target, which is clamped to
\* what was observed (the burst script) or refused outside of it (the others).
Refused == -1

OfferedRate(points, capacity, utilization, policy) ==
    LET monotonic == MonotonicPoints(points)
        asked  == (utilization * capacity) \div 100
        least  == monotonic[1].processed
        most   == monotonic[Len(monotonic)].processed
        target == IF asked < least THEN least ELSE IF asked > most THEN most ELSE asked
        right  == CHOOSE i \in 2..Len(monotonic) :
                      /\ target <= monotonic[i].processed
                      /\ i = 2 \/ target > monotonic[i-1].processed
        Point(i) == [x |-> monotonic[i].processed, y |-> monotonic[i].offered]
    IN  IF policy = "reject" /\ asked # target THEN Refused
        ELSE Between(Point(right - 1), Point(right), target)

\* build_rate_map of the script.
RateMap(points, capacity, pattern) ==
    [u \in Levels(pattern) |->
        OfferedRate(points, capacity, u, IF pattern = "burst" THEN "clamp" ELSE "reject")]

\* rate_for_utilization: the level itself, or between the levels next to it.
RateFor(rates, u) ==
    IF u \in DOMAIN rates THEN rates[u]
    ELSE LET below == Max({l \in DOMAIN rates : l < u})
             above == Min({l \in DOMAIN rates : l > u})
         IN  Between([x |-> below, y |-> rates[below]], [x |-> above, y |-> rates[above]], u)

----------------------------------------------------------------------------
(* run_forecast_hot_switch does not ask the mapper: the rates of the hosts *)
(* of a controller share its target, in flows of perFlow messages each.    *)

HostRates(hosts, hot, capacity, utilization, perFlow, share) ==
    LET total == (utilization * capacity) \div (100 * perFlow)
    IN  [h \in hosts |->
            IF h = hot THEN (total * share) \div 100
            ELSE (total * (100 - share)) \div (100 * (Cardinality(hosts) - 1))]

============================================================================
