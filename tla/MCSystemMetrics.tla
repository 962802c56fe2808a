-------------------------- MODULE MCSystemMetrics ---------------------------
(* Instances of SystemMetrics for TLC. *)
EXTENDS SystemMetrics

Machine(a, b, c, free) == [driver |-> <<a, b, c>>, port_free |-> free]

(* An APU alone; an APU in the second slot behind a node without support,  *)
(* with the port taken, to keep the api thread out of that instance; and   *)
(* more GPUs than slots.                                                   *)
MCMachines == {Machine("apu", "none", "none", TRUE),
               Machine("none", "nvidia", "apu", FALSE),
               Machine("nvidia", "nvidia", "nvidia", FALSE)}

(* Only an APU's figures change. *)
MCFirstReading == <<1, 0, 1>>
MCMaxReading   == [d \in Driver |-> IF d = "apu" THEN 2 ELSE 0]

(* Two GPUs behind a node without support, so that neither's slot is its   *)
(* node, and no SIGINT; one GPU whose figures change; one, with an api     *)
(* thread; and none.                                                       *)
MCLiveMachines == {Machine("none", "nvidia", "nvidia", FALSE),
                   Machine("none", "amdgpu", "none", FALSE),
                   Machine("nvidia", "none", "none", TRUE),
                   Machine("none", "none", "none", FALSE)}
MCUninterrupted == {<<"none", "nvidia", "nvidia">>}
MCInterrupted   == {}

MCLiveFirst == <<1, 2, 3>>
MCLiveMax   == [d \in Driver |-> IF d = "amdgpu" THEN 3 ELSE 0]

=============================================================================
