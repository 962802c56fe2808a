--------------------------------- MODULE CPU ----------------------------------
(***************************************************************************)
(* Loads and frequencies of the cores while cores go offline and come      *)
(* back.  /proc/stat and /proc/cpuinfo list the cores that are online; CPU *)
(* matches lines to its slots by position and never removes a slot.  What  *)
(* a slot holds is abstracted to WHOSE times and frequency it is.          *)
(***************************************************************************)
EXTENDS Naturals, Sequences, FiniteSets, SequencesExt, FiniteSetsExt

CONSTANTS
  Core,       \* core numbers; core 0 cannot be taken offline
  Frequency,  \* frequencies of a core, in MHz
  NoCore      \* no times yet: they count from boot

ASSUME CoreAssumption ==
  Core \subseteq Nat /\ IsFiniteSet(Core) /\ 0 \in Core /\ NoCore \notin Core
ASSUME FrequencyAssumption == Frequency \subseteq Nat \ {0}

VARIABLES
  online,     \* cores that are online
  clock,      \* the frequency each core runs at
  prev,       \* prev_idle_times and prev_total_times: whose times, by slot
  cores,      \* the slots: whose load, since whose times, whose frequency
  frequency,  \* info.frequency
  cpc,
  read,       \* history: the frequencies the last poll read, in order
  changed     \* history: cores came or went in the middle of the last poll

hardware == <<online, clock>>
slots == <<prev, cores>>
cpuVars == <<online, clock, prev, cores, frequency, cpc, read, changed>>

-----------------------------------------------------------------------------
(* The hardware.                                                           *)

Unplug(c) ==
  /\ c \in online \ {0}
  /\ online' = online \ {c}
  /\ changed' = (changed \/ cpc = "frequency")
  /\ UNCHANGED <<clock, slots, frequency, cpc, read>>

Plug(c) ==
  /\ c \in Core \ online
  /\ online' = online \cup {c}
  /\ changed' = (changed \/ cpc = "frequency")
  /\ UNCHANGED <<clock, slots, frequency, cpc, read>>

Scale(c) ==
  /\ c \in online
  /\ \E h \in Frequency : clock' = [clock EXCEPT ![c] = h]
  /\ UNCHANGED <<online, slots, frequency, cpc, read, changed>>

-----------------------------------------------------------------------------
(* CPU::poll().                                                            *)

(* The lines of a file that lists the cores, in order. *)
Before(c, S) == {b \in S : b < c}
Lines == [k \in 1 .. Cardinality(online) |->
            CHOOSE c \in online : Cardinality(Before(c, online)) = k - 1]

(* core_info_t(), pushed for a line that has no slot yet. *)
NewSlot == [of |-> NoCore, since |-> NoCore, frequency_of |-> NoCore, frequency |-> 0]
Slot(k) == IF k <= Len(cores) THEN cores[k] ELSE NewSlot
Slots == 1 .. Max({Len(Lines), Len(cores)})

\* mutant: the base of a slot is taken once and for all
PollLoadFromBoot ==
  /\ cpc = "idle"
  /\ cores' = [k \in Slots |->
       IF k > Len(Lines) THEN cores[k]
       ELSE [Slot(k) EXCEPT !.of = Lines[k],
                            !.since = IF k <= Len(prev) THEN prev[k] ELSE NoCore]]
  /\ prev' = [k \in 1 .. Max({Len(Lines), Len(prev)}) |->
                IF k <= Len(prev) THEN prev[k] ELSE Lines[k]]
  /\ changed' = FALSE
  /\ cpc' = "frequency"
  /\ UNCHANGED <<hardware, frequency, read>>

(* poll_load(): the k-th line updates the k-th slot, from the times the    *)
(* slot had before.                                                        *)
PollLoad ==
  /\ cpc = "idle"
  /\ cores' = [k \in Slots |->
       IF k > Len(Lines) THEN cores[k]
       ELSE [Slot(k) EXCEPT !.of = Lines[k],
                            !.since = IF k <= Len(prev) THEN prev[k] ELSE NoCore]]
  /\ prev' = [k \in 1 .. Max({Len(Lines), Len(prev)}) |->
                IF k <= Len(Lines) THEN Lines[k] ELSE prev[k]]
  /\ changed' = FALSE
  /\ cpc' = "frequency"
  /\ UNCHANGED <<hardware, frequency, read>>

\* mutant: the slot is taken from the core's number
PollFrequencyByNumber ==
  /\ cpc = "frequency"
  /\ read' = [k \in DOMAIN Lines |-> clock[Lines[k]]]
  /\ cores' = [k \in Slots |->
       IF k - 1 \in online
       THEN [Slot(k) EXCEPT !.frequency_of = k - 1, !.frequency = clock[k - 1]]
       ELSE Slot(k)]
  /\ frequency' = Max({cores'[k].frequency : k \in Slots})
  /\ cpc' = "idle"
  /\ UNCHANGED <<hardware, prev, changed>>

(* poll_frequency(): likewise; info.frequency is the maximum of the slots. *)
PollFrequency ==
  /\ cpc = "frequency"
  /\ read' = [k \in DOMAIN Lines |-> clock[Lines[k]]]
  /\ cores' = [k \in Slots |->
       IF k > Len(Lines) THEN cores[k]
       ELSE [Slot(k) EXCEPT !.frequency_of = Lines[k], !.frequency = clock[Lines[k]]]]
  /\ frequency' = Max({cores'[k].frequency : k \in Slots})
  /\ cpc' = "idle"
  /\ UNCHANGED <<hardware, prev, changed>>

-----------------------------------------------------------------------------
CPUInit ==
  /\ online \in {S \in SUBSET Core : 0 \in S}
  /\ clock \in [Core -> Frequency]
  /\ prev = <<>> /\ cores = <<>> /\ frequency = 0
  /\ cpc = "idle" /\ read = <<>> /\ changed = FALSE

CPUPoll == PollLoad \/ PollFrequency

CPUNext == CPUPoll \/ \E c \in Core : Unplug(c) \/ Plug(c) \/ Scale(c)

(* poll_metrics() polls again and again. *)
CPUSpec == CPUInit /\ [][CPUNext]_cpuVars /\ WF_cpuVars(CPUPoll)

-----------------------------------------------------------------------------
(* Properties.                                                             *)

(* Every variable has its type. *)
CPUTypeOK ==
  /\ online \subseteq Core /\ clock \in [Core -> Frequency]
  /\ prev \in Seq(Core)
  /\ cores \in Seq([of : Core \cup {NoCore}, since : Core \cup {NoCore},
                    frequency_of : Core \cup {NoCore}, frequency : Frequency \cup {0}])
  /\ Len(prev) <= Len(cores) /\ Len(cores) <= Cardinality(Core)
  /\ frequency \in Frequency \cup {0} /\ read \in Seq(Frequency)
  /\ cpc \in {"idle", "frequency"} /\ changed \in BOOLEAN

(* The load and the frequency that a poll writes to a slot are of the same *)
(* core, whatever the slot held before, unless cores came or went between  *)
(* the two files.                                                          *)
SideBySide ==
  cpc = "idle" /\ ~changed =>
    \A k \in DOMAIN read : cores[k].frequency_of = cores[k].of

(* Once the set of online cores stays as it is and polls go on, the first  *)
(* slots come to be theirs, each load measured from the same core's own    *)
(* times.                                                                  *)
Settles ==
  <>[][UNCHANGED online]_cpuVars /\ []<>(cpc = "frequency") =>
    <>[](cpc = "idle" => \A k \in DOMAIN Lines :
           /\ k <= Len(cores)
           /\ cores[k].of = Lines[k] /\ cores[k].since = Lines[k]
           /\ cores[k].frequency_of = Lines[k])

(* "cpu frequency is equal to maximum frequency of one of its cores"       *)
(* (cpu.cpp, poll_frequency): of one that the poll has just read.          *)
MaximumOfItsCores ==
  cpc = "idle" /\ ~changed /\ read # <<>> => frequency = Max(ToSet(read))

=============================================================================
