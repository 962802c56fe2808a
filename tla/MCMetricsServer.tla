-------------------------- MODULE MCMetricsServer --------------------------
(* Small instances of MetricsServer for TLC, and a history variable for    *)
(* the property that needs timing.                                         *)
EXTENDS MetricsServer
CONSTANTS p1, p2, g1, g2
OnePid  == {p1}
TwoPids == {p1, p2}
OneGPU  == {g1}
NoGPU   == {}

VARIABLE hurried      \* history: some step was untimely

TimedInit == Init /\ hurried = FALSE
TimedNext == Next /\ hurried' = (hurried \/ Untimely)
TimedSpec == TimedInit /\ [][TimedNext]_<<vars, hurried>> /\ Fairness

(* The metrics published for an answered process come to hold its own data *)
(* of every GPU, unless a pid is reused at once or main falls behind.      *)
SampleArrives ==
  \A p \in Pid, g \in GPU : \A i \in 1 .. MaxInc :
    (Served(p) /\ inc[p] = i) ~>
      hurried \/ Inc(p) # i \/ (cm[p] # Absent /\ cm[p][g] = i)
=============================================================================
