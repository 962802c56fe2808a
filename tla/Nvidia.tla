-------------------------------- MODULE Nvidia ---------------------------------
(***************************************************************************)
(* Process memory on an Nvidia GPU.  NVML lists the graphics processes in  *)
(* two calls, one for their number and one for the list, between which     *)
(* processes come and go; any call may fail.  The library is loaded once;  *)
(* without all of its functions the GPU is skipped.                        *)
(***************************************************************************)
EXTENDS Naturals, FiniteSets

CONSTANTS
  NvPid,     \* the client processes
  NvMemory,  \* what a process may use of the GPU's memory
  MaxFails   \* bound: calls that fail

ASSUME NvAssumption ==
  IsFiniteSet(NvPid) /\ 0 \notin NvPid /\ NvMemory \subseteq Nat \ {0} /\ MaxFails \in Nat

VARIABLES
  used,       \* the memory of each process that runs on the GPU
  nvml,       \* "unknown", "available" or "skipped"
  asked,      \* the pid whose memory is looked up (0: none)
  info_count, \* what the first call said
  vram,       \* what was shown last for each pid
  fails

nvidiaVars == <<used, nvml, asked, info_count, vram, fails>>

Using(p) == IF p \in DOMAIN used THEN used[p] ELSE 0

-----------------------------------------------------------------------------
(* A process starts, grows, shrinks or goes. *)
Use(p) ==
  /\ \/ \E m \in NvMemory : used' = [q \in DOMAIN used \cup {p} |-> IF q = p THEN m ELSE used[q]]
     \/ used' = [q \in DOMAIN used \ {p} |-> used[q]]
  /\ UNCHANGED <<nvml, asked, info_count, vram, fails>>

(* libnvml_loader::load(): a function that is missing unloads the library. *)
LoadNVML == \E opens, complete \in BOOLEAN : nvml' = IF opens /\ complete THEN "available" ELSE "skipped"

(* Nvidia::Nvidia() and what GPUS::GPUS() does without NVML: every call    *)
(* must succeed.                                                           *)
InitNVML ==
  /\ nvml = "unknown"
  /\ LoadNVML \/ nvml' = "skipped"
  /\ UNCHANGED <<used, asked, info_count, vram, fails>>

(* get_process_vram_used(p): the first call is asked for the number. *)
CountProcesses(p) ==
  /\ nvml = "available" /\ asked = 0
  /\ asked' = p
  /\ info_count' = Cardinality(DOMAIN used)
  /\ UNCHANGED <<used, nvml, vram, fails>>

Show(v) ==
  /\ vram' = [vram EXCEPT ![asked] = v]
  /\ asked' = 0 /\ info_count' = 0
  /\ UNCHANGED <<used, nvml>>

\* mutant: room is made for one process too few
ListProcessesShort ==
  /\ asked # 0
  /\ Show(IF Cardinality(DOMAIN used) < info_count THEN Using(asked) ELSE 0)
  /\ UNCHANGED fails

(* The second call fills the list, if it has not grown: none is read then, *)
(* nor if there was none.  Where it has shrunk, the rest of the list is    *)
(* zeroes, which are no client's.                                          *)
ListProcesses ==
  /\ asked # 0
  /\ Show(IF Cardinality(DOMAIN used) <= info_count THEN Using(asked) ELSE 0)
  /\ UNCHANGED fails

(* Either call fails otherwise. *)
CallFails ==
  /\ asked # 0 /\ fails < MaxFails
  /\ fails' = fails + 1
  /\ Show(0)

-----------------------------------------------------------------------------
NvidiaInit ==
  /\ used = [p \in {} |-> 0] /\ nvml = "unknown" /\ asked = 0 /\ info_count = 0
  /\ vram = [p \in NvPid |-> 0] /\ fails = 0

NvidiaNext ==
  InitNVML \/ ListProcesses \/ CallFails \/ \E p \in NvPid : Use(p) \/ CountProcesses(p)

NvidiaSpec == NvidiaInit /\ [][NvidiaNext]_nvidiaVars

-----------------------------------------------------------------------------
(* Properties.                                                             *)

NvidiaTypeOK ==
  /\ DOMAIN used \subseteq NvPid /\ \A p \in DOMAIN used : used[p] \in NvMemory
  /\ nvml \in {"unknown", "available", "skipped"} /\ asked \in NvPid \cup {0}
  /\ info_count \in 0 .. Cardinality(NvPid)
  /\ vram \in [NvPid -> NvMemory \cup {0}]
  /\ fails \in 0 .. MaxFails

(* Once the list stays as it is, each process comes to be shown what it    *)
(* uses, whatever lookups raced with others coming and going before.       *)
MemorySettles ==
  <>[][UNCHANGED used]_nvidiaVars =>
    <>[](nvml = "available" => \A p \in NvPid : vram[p] = Using(p))

=============================================================================
