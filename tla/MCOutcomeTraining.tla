------------------------- MODULE MCOutcomeTraining -------------------------
(* One cell of two phases with three repeats and a control: seven attempts. *)
(* The second version of the matrix has the repeats of train and validation *)
(* the other way round. Two versions of the capacity and of the model       *)
(* configuration; three training stages. Other features come with another   *)
(* number of train rows, and a hybrid wins on a full set of rows.           *)
EXTENDS OutcomeTraining

MCPhases == << <<"before", "middle">> >>
MCEnds == <<[level |-> "low", direction |-> "c1_to_c2"]>>
MCRepeats == <<"r01", "r02", "r03">>
MCSplitOf ==
    <<[r \in ToSet(MCRepeats) |->
          CASE r = "r01" -> "train" [] r = "r02" -> "validation" [] r = "r03" -> "test"],
      [r \in ToSet(MCRepeats) |->
          CASE r = "r01" -> "validation" [] r = "r02" -> "train" [] r = "r03" -> "test"]>>
MCFeaturesOf(rows) == Cardinality(rows)
MCHybridWins(sel) == Cardinality(sel.csv.data) = 6

\* Bound: what departs from one undisturbed pass over the whole project, in
\* which the attempts are taken in the order of the plan.
PassedOver(i) == takes[Plan[i]] = 0 /\ \E j \in DOMAIN Plan : j > i /\ takes[Plan[j]] > 0
Departures ==
    (matrix - 1) + (capacity - 1)
        + Cardinality({a \in Attempts : takes[a] > 1 \/ (takes[a] = 1 /\ root[a] = None)})
        + Cardinality({a \in Present : root[a].kind # "good"})
        + Cardinality({i \in DOMAIN Plan : PassedOver(i)})
        + (IF stages > 2 \/ config > 1 THEN 1 ELSE 0)

\* Splits are reported, and datasets built, once every attempt was taken and the
\* pilot was reported; attempts of the first phase end well, in the first go.
MCBound ==
    /\ Departures <= 1
    /\ \A a \in Attempts : a.phase = "before" =>
           /\ takes[a] < 2 /\ (root[a] # None => root[a].kind = "good")
           /\ (takes[a] = 1 => root[a] # None)
    /\ splits # <<>> =>
           /\ \A a \in Attempts : takes[a] > 0
           /\ gate = "none" => \E a \in Attempts : takes[a] > 1 \/ root[a] = None
    /\ script.name = "collect" /\ splits # <<>> =>
           script.mem.keep /\ Len(script.todo) <= 2 /\ Present # Attempts

\* Sizes of matrices over which the plan is checked: workloads, phases of a
\* workload (the second has one more), ends, repeats and controls.
MCNumbers(n) == [i \in 1..n |-> i]
MCPhasesOf(m) == [w \in 1..m[1] |-> MCNumbers(m[2] + w - 1)]
MCMatrices ==
    {m \in (1..2) \X (1..2) \X (1..3) \X (1..4) \X (0..12) :
        ValidMatrix(MCPhasesOf(m), MCNumbers(m[3]), MCNumbers(m[4]), m[5])}
MCPlan(m) == Expand(MCPhasesOf(m), MCNumbers(m[3]), MCNumbers(m[4]), m[5])
MCControlsAt(m, r) ==
    Len(SelectSeq(MCPlan(m), LAMBDA a : a.action = "NO_OP" /\ a.repeat = r))

\* No attempt is planned twice, and when there are as many controls of each cell
\* as divide the repeats, and whole rounds of them, they "spread evenly over
\* repeats and therefore over the splits" (config.py).
ASSUME PlanIsDistinct == \A m \in MCMatrices : IsInjective(MCPlan(m))
ASSUME ControlsAreSpread ==
    \A m \in MCMatrices :
        LET cells == m[1] * m[3] IN
        m[5] > 0 /\ m[5] % m[4] = 0 /\ cells % m[4] = 0 =>
            \A r \in 1..m[4] : MCControlsAt(m, r) = m[5] \div m[4]
=============================================================================
