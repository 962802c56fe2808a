--------------------------- MODULE ClientRegistry ---------------------------
(***************************************************************************)
(* What the daemon promises a client process, with no thread, lock or      *)
(* cache in sight: a process that has been answered stays in the published *)
(* metrics for as long as it lives, and is forgotten only once it is gone. *)
(*                                                                         *)
(* A pid is reused by the operating system, so a process is a pair: a pid  *)
(* and its incarnation.                                                    *)
(***************************************************************************)
EXTENDS Naturals

CONSTANT Pid

VARIABLES
  live,       \* pids that have a /proc directory now
  inc,        \* inc[p]: how many processes have had pid p so far
  tracked,    \* pids in the published metrics
  answered    \* answered[p]: the incarnations of p that were sent a message

vars == <<live, inc, tracked, answered>>

Init ==
  /\ live = {}
  /\ inc = [p \in Pid |-> 0]
  /\ tracked = {}
  /\ answered = [p \in Pid |-> {}]

Spawn(p) ==
  /\ p \notin live
  /\ live' = live \cup {p}
  /\ inc' = [inc EXCEPT ![p] = @ + 1]
  /\ UNCHANGED <<tracked, answered>>

Exit(p) ==
  /\ p \in live
  /\ live' = live \ {p}
  /\ UNCHANGED <<inc, tracked, answered>>

Register(p) ==
  /\ tracked' = tracked \cup {p}
  /\ UNCHANGED <<live, inc, answered>>

Answer(p, i) ==
  /\ p \in tracked
  /\ i \in 1 .. inc[p]
  /\ answered' = [answered EXCEPT ![p] = @ \cup {i}]
  /\ UNCHANGED <<live, inc, tracked>>

(* The running process of pid p, if any, has been sent its metrics. *)
Served(p) == p \in live /\ inc[p] \in answered[p]

Forget(P) ==
  /\ \A p \in P : ~Served(p)
  /\ tracked' = tracked \ P
  /\ UNCHANGED <<live, inc, answered>>

Next ==
  \/ \E p \in Pid : Spawn(p) \/ Exit(p) \/ Register(p)
  \/ \E p \in Pid : \E i \in 1 .. inc[p] : Answer(p, i)
  \/ \E P \in SUBSET Pid : Forget(P)

Spec == Init /\ [][Next]_vars

TypeOK ==
  /\ live \subseteq Pid
  /\ inc \in [Pid -> Nat]
  /\ tracked \subseteq Pid
  /\ answered \in [Pid -> SUBSET Nat]

(* The promise: an answered process stays tracked while it lives.          *)
ServedStaysTracked == \A p \in Pid : Served(p) => p \in tracked

=============================================================================
