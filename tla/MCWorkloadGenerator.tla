------------------------ MODULE MCWorkloadGenerator ------------------------
(* Five ticks in windows of two, so that the last window is partial, and   *)
(* two ports.  A tick is twelve seconds of a profile, so that five ticks   *)
(* see each part of the burst.  The benchmark saturates: a point and what  *)
(* follows are discarded, the rate of a burst is clamped, and four flows   *)
(* every four ticks are as much as the ports allow.                        *)
EXTENDS WorkloadGenerator

Row(offered, processed, valid) ==
    [offered |-> offered, processed |-> processed, valid |-> valid]

MCRuns == {Row(1, 3, TRUE), Row(1, 9, FALSE), Row(2, 5, TRUE), Row(2, 7, TRUE),
           Row(4, 12, TRUE), Row(5, 11, TRUE), Row(6, 20, TRUE)}

\* The mapper against the benchmark, for each table of three points: what is
\* asked for at a point is the rate that was offered there, more is never less,
\* and whatever is clamped stays in the observed range.
Tables == {t \in [1..3 -> [offered : {1, 2, 4}, processed : 1..4]] :
              /\ t[1].offered < t[2].offered /\ t[2].offered < t[3].offered
              /\ Usable(t)}

ASSUME MapperInverts ==
    \A t \in Tables :
        LET points == MonotonicPoints(t)
            At(u) == OfferedRate(t, 100, u, "clamp")
        IN  /\ \A i \in 1..Len(points) : At(points[i].processed) = points[i].offered
            /\ \A u \in 0..5 : At(u) <= At(u + 1)
            /\ \A u \in 0..5 : /\ points[1].offered <= At(u)
                              /\ At(u) <= points[Len(points)].offered
                              /\ OfferedRate(t, 100, u, "reject") \in {At(u), Refused}

\* Every profile stays within the levels that its script asks for, so that
\* rate_for_utilization never gives up during an experiment.
ASSUME ProfilesStayInRange ==
    \A p \in Patterns : \A t \in 0..80 :
        Min(Levels(p)) <= TargetAt(p, t) /\ TargetAt(p, t) <= Max(Levels(p))

\* The hot host has its share, the hosts together no more than the target.
ASSUME HotHostIsHot ==
    \A share \in {25, 40, 55}, hosts \in 3..5 :
        LET rates == HostRates(1..hosts, 1, 100, 80, 2, share)
        IN  /\ rates[1] = (40 * share) \div 100
            /\ MapThenSumSet(LAMBDA h : rates[h], 1..hosts) <= 40

============================================================================
