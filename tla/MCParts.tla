----------------------------- MODULE MCParts --------------------------------
EXTENDS Parts

ThreeCores == {0, 1, 2}
OneFrequency == {1400}
TwoFrequencies == {1400, 3600}

OneGPU == {1}
TwoGPUs == {1, 2}
(* Tables of two GPUs, a longer one next to a shorter one. *)
PairsOfVersions ==
  { << <<1, 1>>, <<2, 3>> >>, << <<1, 3>>, <<2, 2>> >>, << <<2, 2>>, <<2, 4>> >> }
LongAndUnknown == { << <<2, 4>> >>, << <<2, 1>> >>, << <<3, 0>> >> }
EitherHalf == {{"temp", "cpu"}, {"avg_temp", "core"}}

TwoReasons == {"pl1", "pl2"}
FourReasons == {"pl1", "pl2", "thermal", "other"}
PowerFiles == [c \in Class |-> IF c = "POWER" THEN <<"pl1", "pl2">> ELSE <<>>]
ThreeFiles == [PowerFiles EXCEPT !["TEMP"] = <<"thermal">>]

TwoPids == {1, 2}
(* Two descriptors of one process, the second's stream after the first's,  *)
(* and one of another.                                                     *)
ThreeFds == {<<1, 3>>, <<1, 4>>, <<2, 3>>}
OneFd == {<<1, 3>>}

Temperatures == {"Tctl", "Tdie", "hotspot", "locked", "fan1"}
(* Three files of the first sensor, of which one does not open, one of the *)
(* second sensor, and one of both.                                         *)
OfSensors ==
  [f \in Temperatures |->
     CASE f \in {"Tctl", "Tdie", "locked"} -> {1} [] f = "hotspot" -> {1, 2} [] OTHER -> {2}]
Locked == {"locked"}

OneDaemon == {"d1"}
ThreeDaemons == {"d1", "d2", "d3"}
=============================================================================
