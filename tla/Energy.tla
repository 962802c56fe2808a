-------------------------------- MODULE Energy --------------------------------
(***************************************************************************)
(* Power from an energy counter: that of the CPU (zenergy, RAPL) or of an  *)
(* Intel GPU (i915, xe).  A hwmon sensor holds what the counter's file     *)
(* said when it could last be read; the power is the difference of two     *)
(* polls, modelled as the energy of the interval.  zenpower reports power  *)
(* and is not modelled further.                                            *)
(***************************************************************************)
EXTENDS Naturals

CONSTANTS
  CounterRange,  \* the counter wraps there (max_energy_range_uj)
  Word           \* 2^64: what has been read is a uint64_t

ASSUME WordAssumption == Word \in Nat /\ CounterRange \in 1 .. Word

VARIABLES
  counter,         \* the sysfs file
  source,          \* who shows it
  epc,             \* where its thread is
  val,             \* the sensor's value
  previous_usage,
  power,           \* the energy shown for the last interval
  ebase,           \* history: the first value that is not 0
  eshown,          \* history: sum of what has been shown since, until it wraps
  wrapped          \* history: the counter has wrapped

energyVars ==
  <<counter, source, epc, val, previous_usage, power, ebase, eshown, wrapped>>

Driver == {"zenpower", "zenergy", "RAPL", "Intel"}

-----------------------------------------------------------------------------
Consume ==
  /\ counter' = (counter + 1) % CounterRange
  /\ wrapped' = (wrapped \/ counter' = 0)
  /\ UNCHANGED <<source, epc, val, previous_usage, power, ebase, eshown>>

(* init_power_usage(): the first whose files open; a GPU has its own. *)
InitPowerUsage ==
  /\ epc = "setup"
  /\ \E opens \in SUBSET Driver :
       source' = CASE "Intel" \in opens -> "Intel"
                   [] "zenpower" \in opens -> "zenpower"
                   [] "zenergy" \in opens -> "zenergy"
                   [] "RAPL" \in opens -> "RAPL"
                   [] OTHER -> "none"
  /\ epc' = IF source' \in Driver \ {"zenpower"} THEN "idle" ELSE "off"
  /\ UNCHANGED <<counter, val, previous_usage, power, ebase, eshown, wrapped>>

(* poll_sensors(): a file that yields nothing leaves the value; the read   *)
(* goes around the stream's state, so that the next may succeed.           *)
PollSensors ==
  /\ epc = "idle"
  /\ \E readable \in BOOLEAN : val' = IF readable THEN counter ELSE val
  /\ epc' = "power"
  /\ UNCHANGED <<counter, source, previous_usage, power, ebase, eshown, wrapped>>

Difference(a, b) == IF b <= a THEN a - b ELSE Word + a - b

(* The three get_power_usage(): what they show for the sensor's value.     *)
ZenergyPower == IF previous_usage = 0 THEN 0 ELSE Difference(val, previous_usage)
RAPLPower    == IF previous_usage = 0 \/ val = previous_usage THEN 0
                ELSE Difference(val, previous_usage)
IntelPower   == IF previous_usage = 0 THEN 0 ELSE Difference(val, previous_usage)

Shown == CASE source = "zenergy" -> ZenergyPower
           [] source = "RAPL" -> RAPLPower
           [] OTHER -> IntelPower

\* mutant: the base is never moved on
GetPowerUsageKeepsFirst ==
  /\ epc = "power"
  /\ power' = Shown
  /\ previous_usage' = IF previous_usage = 0 THEN val ELSE previous_usage
  /\ ebase' = IF ebase = 0 THEN val ELSE ebase
  /\ eshown' = IF ebase = 0 \/ wrapped THEN 0 ELSE eshown + Shown
  /\ epc' = "idle"
  /\ UNCHANGED <<counter, source, val, wrapped>>

\* mutant: the power is left alone when the counter stands still
GetPowerUsageOnChange ==
  /\ epc = "power"
  /\ power' = IF val = previous_usage THEN power ELSE Shown
  /\ previous_usage' = val
  /\ epc' = "idle"
  /\ UNCHANGED <<counter, source, val, ebase, eshown, wrapped>>

GetPowerUsage ==
  /\ epc = "power"
  /\ power' = Shown
  /\ previous_usage' = val
  /\ ebase' = IF ebase = 0 THEN val ELSE ebase
  /\ eshown' = IF ebase = 0 \/ wrapped THEN 0 ELSE eshown + Shown
  /\ epc' = "idle"
  /\ UNCHANGED <<counter, source, val, wrapped>>

-----------------------------------------------------------------------------
EnergyInit ==
  /\ counter = 0 /\ source = "none" /\ epc = "setup" /\ val = 0 /\ previous_usage = 0 /\ power = 0
  /\ ebase = 0 /\ eshown = 0 /\ wrapped = FALSE

EnergyPoll == PollSensors \/ GetPowerUsage
EnergyNext == Consume \/ InitPowerUsage \/ EnergyPoll
EnergySpec == EnergyInit /\ [][EnergyNext]_energyVars

-----------------------------------------------------------------------------
(* Properties.                                                             *)

(* Every variable has its type; in particular the unsigned difference.     *)
EnergyTypeOK ==
  /\ counter \in 0 .. CounterRange - 1 /\ val \in 0 .. CounterRange - 1
  /\ previous_usage \in 0 .. CounterRange - 1
  /\ source \in Driver \cup {"none"} /\ epc \in {"setup", "off", "idle", "power"}
  /\ power \in 0 .. Word - 1 /\ ebase \in 0 .. CounterRange - 1 /\ eshown \in Nat
  /\ wrapped \in BOOLEAN

(* Until the counter wraps, what is shown adds up to the energy used since *)
(* the base, however many reads fail: an interval without one is shown as  *)
(* 0 and its energy with the next.                                         *)
EnergyAddsUp ==
  ~wrapped => previous_usage = ebase + eshown /\ previous_usage <= val /\ val <= counter

(* A device that has stopped using energy comes to be shown 0, also after  *)
(* the counter has wrapped and whether or not it can be read.              *)
NoEnergyNoPower ==
  <>[][UNCHANGED counter]_energyVars => <>[](power = 0)

=============================================================================
