--------------------------- MODULE AMDGPUMetrics ----------------------------
(***************************************************************************)
(* The gpu_metrics tables of amdgpu.  The worker of each AMD GPU reads its *)
(* table once per poll into one buffer that all of them share, picks the   *)
(* layout by the version in the buffer, and keeps what it finds.           *)
(*                                                                         *)
(* A table is abstracted to whose it is, how new it is, and which of its   *)
(* metrics are valid (not all ones); a figure to the table it is from.     *)
(* The buffer has four parts, by what the layouts share:                   *)
(*   1  the header and the fields of every layout                          *)
(*   2  indep_throttle_status of v1_3                                      *)
(*   3  indep_throttle_status of v2_2 and later                            *)
(*   4  the average temperatures of v2_3 and later                         *)
(***************************************************************************)
EXTENDS Naturals

CONSTANTS
  Dev,        \* the AMD GPUs
  Versions,   \* <<format_revision, content_revision>> of their tables
  Valids,     \* which metrics a table may hold: sets of "temp", "avg_temp",
              \* "cpu" (average_cpu_power) and "core" (average_core_power)
  MaxTable    \* bound: tables a GPU produces

ASSUME DevAssumption == Dev \subseteq Nat \ {0}
ASSUME VersionsAssumption == Versions \subseteq [Dev -> Nat \X Nat]
ASSUME ValidsAssumption == Valids \subseteq SUBSET {"temp", "avg_temp", "cpu", "core"}
ASSUME MaxTableAssumption == MaxTable \in Nat

VARIABLES
  version,    \* of each GPU's table
  table,      \* the sysfs file now
  apc,        \* where each worker is in gpu_metrics.poll()
  available,  \* metrics_available
  failed,     \* the stream has failbit or eofbit set
  buf,        \* the static buffer, by part
  metrics,    \* the figures: where each is from
  summed,     \* how many tables average_cpu_power_w adds up; 2: more than one
  own         \* history: no poll of this GPU has overlapped another GPU's

amdVars == <<version, table, apc, available, failed, buf, metrics, summed, own>>

Part   == 1 .. 4
Table  == [dev : Nat, version : Nat \X Nat, n : Nat,
           valid : SUBSET {"temp", "avg_temp", "cpu", "core"}]
Zeros  == [dev |-> 0, version |-> <<0, 0>>, n |-> 0, valid |-> {}]
From(t) == <<t.dev, t.n>>
Nothing == From(Zeros)

(* The parts that a file of version v fills. *)
Extent(v) ==
  IF v[1] = 1 THEN IF v[2] >= 3 THEN 1 .. 2 ELSE {1}
  ELSE IF v[2] <= 1 THEN 1 .. 2 ELSE IF v[2] = 2 THEN 1 .. 3 ELSE Part

-----------------------------------------------------------------------------
(* verify_metrics() *)
Supported(v) == (v[1] = 1 /\ v[2] \in 1 .. 3) \/ (v[1] = 2 /\ v[2] \in 1 .. 4)

(* setup(): the file may be missing, or of a version that is not known. *)
AMDSetup(d) ==
  /\ apc[d] = "setup"
  /\ \E opens \in BOOLEAN :
       /\ available' = [available EXCEPT ![d] = opens /\ Supported(version[d])]
       /\ apc' = [apc EXCEPT ![d] = IF available'[d] THEN "idle" ELSE "off"]
  /\ UNCHANGED <<version, table, failed, buf, metrics, summed, own>>

(* The firmware updates the table. *)
NewTable(d) ==
  /\ table[d].n < MaxTable
  /\ \E valid \in Valids : table' = [table EXCEPT ![d].n = @ + 1, ![d].valid = valid]
  /\ UNCHANGED <<version, apc, available, failed, buf, metrics, summed, own>>

(* History: d's poll begins, while those of the GPUs in D are under way. *)
Overlap(d) ==
  LET D == {e \in Dev \ {d} : apc[e] \notin {"setup", "idle", "off"}}
  IN  own' = [e \in Dev |-> own[e] /\ e \notin D /\ (e = d => D = {})]

\* mutant: the stream is not cleared first
ReadTableNoClear(d) ==
  /\ apc[d] = "idle" /\ ~failed[d]
  /\ buf' = [p \in Part |-> IF p \in Extent(version[d]) THEN table[d] ELSE buf[p]]
  /\ failed' = [failed EXCEPT ![d] = version[d] # <<2, 4>>]
  /\ apc' = [apc EXCEPT ![d] = "header"]
  /\ Overlap(d)
  /\ UNCHANGED <<version, table, available, metrics, summed>>

(* poll(): the stream is cleared and rewound and the buffer is read full,  *)
(* which for all but the longest table ends in eof and fail; what a        *)
(* shorter table does not reach stays as it was.                           *)
ReadTable(d) ==
  /\ apc[d] = "idle"
  /\ buf' = [p \in Part |-> IF p \in Extent(version[d]) THEN table[d] ELSE buf[p]]
  /\ failed' = [failed EXCEPT ![d] = version[d] # <<2, 4>>]
  /\ apc' = [apc EXCEPT ![d] = "header"]
  /\ Overlap(d)
  /\ UNCHANGED <<version, table, available, metrics, summed>>

(* The read fails, as of a GPU that is suspended, or ends within the       *)
(* header: the figures stay.  (The driver fills the file in one piece, so  *)
(* that no read ends between the header and the end of the table.)         *)
ReadNothing(d) ==
  /\ apc[d] = "idle"
  /\ failed' = [failed EXCEPT ![d] = TRUE]
  /\ UNCHANGED <<version, table, apc, available, buf, metrics, summed, own>>

Header(d) ==
  /\ apc[d] = "header"
  /\ apc' = [apc EXCEPT ![d] = CASE buf[1].version[1] = 1 -> "v1"
                                 [] buf[1].version[1] = 2 -> "v2"
                                 [] OTHER -> "neither"]
  /\ UNCHANGED <<version, table, available, failed, buf, metrics, summed, own>>

(* parse_metrics_v1_3(): everything is taken as it is. *)
ParseV1(d) ==
  /\ apc[d] = "v1"
  /\ metrics' = [metrics EXCEPT ![d].load = From(buf[1]), ![d].temp = From(buf[1])]
  /\ apc' = [apc EXCEPT ![d] = "throttle_v1"]
  /\ UNCHANGED <<version, table, available, failed, buf, summed, own>>

\* mutant: the average temperature is used whatever the revision
TempOfAny(t, avg, old) ==
  IF "temp" \in t.valid THEN From(t)
  ELSE IF "avg_temp" \in avg.valid THEN From(avg)
  ELSE old

(* An invalid metric falls back on another or stays. *)
TempOf(t, avg, old) ==
  IF "temp" \in t.valid THEN From(t)
  ELSE IF t.version[2] >= 3 /\ "avg_temp" \in avg.valid THEN From(avg)
  ELSE old

(* parse_metrics_v2_3().  Without an average_cpu_power the power of the    *)
(* cores is added up, on top of what average_cpu_power_w held.             *)
ParseV2(d) ==
  /\ apc[d] = "v2"
  /\ LET t == buf[1]
         power == {"cpu", "core"} \cap t.valid
     IN
     /\ metrics' = [metrics EXCEPT
          ![d].load = From(t),
          ![d].temp = TempOf(t, buf[4], @),
          ![d].cpu_power = IF power = {} THEN @ ELSE From(t)]
     /\ summed' = [summed EXCEPT ![d] =
          IF "cpu" \in power THEN 1
          ELSE IF power = {} THEN @
          ELSE IF @ = 0 THEN 1 ELSE 2]
  /\ apc' = [apc EXCEPT ![d] = "throttle_v2"]
  /\ UNCHANGED <<version, table, available, failed, buf, own>>

(* indep_throttle_status: 0 unless the layout has one.  All of format 1    *)
(* is taken to have that of v1_3.                                          *)
Throttle(d) ==
  /\ apc[d] \in {"throttle_v1", "throttle_v2", "neither"}
  /\ metrics' = [metrics EXCEPT ![d].throttle =
       CASE apc[d] = "throttle_v1" -> From(buf[2])
         [] apc[d] = "throttle_v2" /\ buf[1].version[2] >= 2 -> From(buf[3])
         [] OTHER -> Nothing]
  /\ apc' = [apc EXCEPT ![d] = "idle"]
  /\ UNCHANGED <<version, table, available, failed, buf, summed, own>>

-----------------------------------------------------------------------------
AMDInit ==
  /\ version \in Versions
  /\ table = [d \in Dev |-> [dev |-> d, version |-> version[d], n |-> 0, valid |-> {}]]
  /\ apc = [d \in Dev |-> "setup"]
  /\ available = [d \in Dev |-> FALSE] /\ failed = [d \in Dev |-> FALSE]
  /\ buf = [p \in Part |-> Zeros]
  /\ metrics = [d \in Dev |-> [load |-> Nothing, temp |-> Nothing,
                              cpu_power |-> Nothing, throttle |-> Nothing]]
  /\ summed = [d \in Dev |-> 0] /\ own = [d \in Dev |-> TRUE]

Parse(d) == Header(d) \/ ParseV1(d) \/ ParseV2(d) \/ Throttle(d)

AMDNext ==
  \E d \in Dev : AMDSetup(d) \/ NewTable(d) \/ ReadTable(d) \/ ReadNothing(d) \/ Parse(d)

AMDSpec == AMDInit /\ [][AMDNext]_amdVars

-----------------------------------------------------------------------------
(* Properties.                                                             *)

Source == Nat \X Nat

AMDTypeOK ==
  /\ version \in [Dev -> Nat \X Nat] /\ table \in [Dev -> Table]
  /\ apc \in [Dev -> {"setup", "off", "idle", "header", "v1", "v2", "throttle_v1",
                     "throttle_v2", "neither"}]
  /\ available \in [Dev -> BOOLEAN] /\ failed \in [Dev -> BOOLEAN]
  /\ buf \in [Part -> Table]
  /\ metrics \in [Dev -> [load : Source, temp : Source, cpu_power : Source, throttle : Source]]
  /\ summed \in [Dev -> 0 .. 2] /\ own \in [Dev -> BOOLEAN]

(* v1_1 and v1_2 have no indep_throttle_status, but one is read. *)
NoThrottleStatus == {<<1, 1>>, <<1, 2>>}

(* As long as a GPU's polls overlap no other GPU's, the shared buffer does *)
(* not mix them up: all its figures are from its own tables, none is newer *)
(* than its load, and the throttle bits are of the same table as the load  *)
(* or absent.  (Where the layout has no throttle bits, those found are of  *)
(* whatever longer table was in the buffer before.)                        *)
OwnFigures ==
  \A d \in Dev : own[d] /\ apc[d] = "idle" =>
    LET f == metrics[d] IN
    /\ \A s \in {f.load, f.temp, f.cpu_power} :
         s = Nothing \/ (s[1] = d /\ s[2] <= f.load[2])
    /\ version[d] \notin NoThrottleStatus => f.throttle \in {Nothing, f.load}

(* A GPU that is the only one with a table comes to show the latest,       *)
(* however many reads have failed or ended short before.                   *)
FollowsTable ==
  \A d \in Dev :
    <>[](\/ ~available[d] \/ \E e \in Dev \ {d} : available[e]
         \/ metrics[d].load = <<d, table[d].n>>)

(* The comment on the fallback, "sum of core power": the power shown is    *)
(* that of one table.                                                      *)
CorePowerIsSum == \A d \in Dev : summed[d] <= 1

=============================================================================
