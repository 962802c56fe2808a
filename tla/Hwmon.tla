-------------------------------- MODULE Hwmon ---------------------------------
(***************************************************************************)
(* Which files the sensors of a HwmonBase read: the search for the CPU's   *)
(* temperature, chip by chip, or the setup of a GPU or of a power source,  *)
(* which is the search of one chip for several sensors.  What a directory  *)
(* holds, and in which order it is listed, is chosen when it is reached.   *)
(***************************************************************************)
EXTENDS Naturals

CONSTANTS
  Chips,      \* number of chips that are tried, in the order of preference
  Sensors,    \* number of sensors of a setup, in the order of std::map
  File,       \* files that a directory may hold
  Matching,   \* of each file the sensors whose filename and label it matches
  Unreadable, \* files that do not open
  NoFile

Sensor == 1 .. Sensors

ASSUME HwmonAssumption ==
  /\ Chips \in Nat \ {0} /\ Sensors \in Nat \ {0} /\ NoFile \notin File
  /\ Matching \in [File -> SUBSET Sensor] /\ Unreadable \subseteq File

VARIABLES
  hpc,          \* where the search is
  chip,         \* p in find_temperature_sensor()
  base_dir,     \* the files of the directory
  entries,      \* those that the iteration has yet to come to
  path, opened, \* of each sensor: path, and if stream.is_open()
  found_sensor

hwmonVars == <<hpc, chip, base_dir, entries, path, opened, found_sensor>>

-----------------------------------------------------------------------------
(* The loop over the chips goes on, or ends with the last. *)
NextChip == IF chip < Chips THEN chip' = chip + 1 /\ hpc' = "dir"
                            ELSE chip' = chip     /\ hpc' = "done"

\* mutant: the sensors are not cleared
FindDirNoClear ==
  /\ hpc = "dir"
  /\ base_dir' \in SUBSET File /\ entries' = base_dir'
  /\ hpc' = "find"
  /\ UNCHANGED <<chip, path, opened, found_sensor>>

(* find_hwmon_dir_by_name() finds a directory, the first that matches;     *)
(* then setup(), which begins with no sensors.                             *)
FindDir ==
  /\ hpc = "dir"
  /\ base_dir' \in SUBSET File /\ entries' = base_dir'
  /\ path' = [s \in Sensor |-> NoFile] /\ opened' = [s \in Sensor |-> FALSE]
  /\ hpc' = "find"
  /\ UNCHANGED <<chip, found_sensor>>

NoSuchDir ==
  /\ hpc = "dir"
  /\ NextChip
  /\ UNCHANGED <<base_dir, entries, path, opened, found_sensor>>

(* The sensor that takes file f: the first that matches, also if it has a  *)
(* path from another file.                                                 *)
Takers(f) == {s \in Matching[f] : \A r \in Matching[f] : s <= r}

(* find_sensors(): one entry of the directory. *)
FindSensor ==
  /\ hpc = "find"
  /\ \E f \in entries :
       /\ entries' = entries \ {f}
       /\ path' = [s \in Sensor |-> IF s \in Takers(f) THEN f ELSE path[s]]
  /\ UNCHANGED <<hpc, chip, base_dir, opened, found_sensor>>

Opens(s) == path[s] # NoFile /\ path[s] \notin Unreadable

(* open_sensors(), and is_open(): the search ends, or tries the next chip. *)
OpenSensors ==
  /\ hpc = "find" /\ entries = {}
  /\ opened' = [s \in Sensor |-> Opens(s)]
  /\ found_sensor' = opened'[1]
  /\ IF opened'[1] THEN hpc' = "done" /\ chip' = chip ELSE NextChip
  /\ UNCHANGED <<base_dir, entries, path>>

-----------------------------------------------------------------------------
HwmonInit ==
  /\ hpc = "dir" /\ chip = 1 /\ base_dir = {} /\ entries = {}
  /\ path = [s \in Sensor |-> NoFile] /\ opened = [s \in Sensor |-> FALSE]
  /\ found_sensor = FALSE

HwmonNext == FindDir \/ NoSuchDir \/ FindSensor \/ OpenSensors
HwmonSpec == HwmonInit /\ [][HwmonNext]_hwmonVars

-----------------------------------------------------------------------------
(* Properties.                                                             *)

(* Every variable has its type. *)
HwmonTypeOK ==
  /\ hpc \in {"dir", "find", "done"} /\ chip \in 1 .. Chips
  /\ base_dir \subseteq File /\ entries \subseteq base_dir
  /\ path \in [Sensor -> File \cup {NoFile}] /\ opened \in [Sensor -> BOOLEAN]
  /\ found_sensor \in BOOLEAN

(* A sensor reads a file of the directory that was searched last, one that *)
(* matches it, and no two sensors read the same file, in whatever order    *)
(* the files are listed; the search ends with a sensor that has opened, or *)
(* after the last chip.  (Of several files that match a sensor it is the   *)
(* one listed last: Tdie or Tctl, of k10temp.)                             *)
OwnFile ==
  /\ \A s \in Sensor : path[s] # NoFile => path[s] \in base_dir /\ s \in Matching[path[s]]
  /\ \A r, s \in Sensor : r # s /\ path[r] = path[s] => path[r] = NoFile
  /\ hpc = "done" => IF found_sensor THEN opened[1] /\ path[1] \notin Unreadable ELSE chip = Chips

=============================================================================
