------------------------ MODULE MCForecastCollection ------------------------
(* Two fine runs of the benchmark, measured at most three times, and a     *)
(* plan of a stable and a hot-switch run.                                  *)
EXTENDS ForecastCollection, TLC

MCPlan == <<"stable", "hot-switch">>

MCHotRuns == {"hot-switch"}

\* Bound: no experiment after the working tree changed, and of the flaws of a
\* sample, which are alike to the validation, one in each run.
MCBound ==
    /\ edits = 0 \/ stage = "idle"
    /\ runs["stable"].flaws \subseteq {"clock"}
    /\ runs["hot-switch"].flaws \subseteq {"invalid"}

MCSymmetry == Permutations(Runs)

============================================================================
