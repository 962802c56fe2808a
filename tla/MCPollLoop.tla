----------------------------- MODULE MCPollLoop -----------------------------
(* Small instances of PollLoop for TLC: descriptor 3 listens. *)
EXTENDS PollLoop
OneFd    == {4}
TwoFds   == {4, 5}
ThreeFds == {4, 5, 6}
MainThread  == {"main"}
ApiThread   == {"api"}
BothThreads == {"main", "api"}
=============================================================================
