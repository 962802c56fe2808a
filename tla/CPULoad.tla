------------------------------- MODULE CPULoad --------------------------------
(***************************************************************************)
(* The load of one line of /proc/stat, that of the whole CPU or of a core, *)
(* from its times in poll_load().  CPU models which line goes to which     *)
(* slot; here a slot's line stays its own, and the figures count: their    *)
(* widths, and the column that is taken for the idle time.  The load is    *)
(* left as the pair of differences it is the quotient of.                  *)
(***************************************************************************)
EXTENDS Integers

CONSTANTS
  IntRange,    \* 2^32: a line's times are added up in an int
  TimeRange,   \* 2^64
  MaxTime,     \* bound: jiffies of a line
  ThirdDigit   \* bound: what follows the second digit of a core's number

ASSUME RangeAssumption ==
  /\ IntRange \in Nat \ {0} /\ TimeRange \in Nat /\ IntRange <= TimeRange
  /\ MaxTime \in Nat /\ MaxTime < TimeRange /\ ThirdDigit \subseteq Nat

VARIABLES
  digits,                      \* of the core's number; 0 for the whole CPU; 3 or more
  rest,                        \* the number those from the third on are; 0 without one
  user, system, idle,          \* the line's columns
  prev_idle, prev_total,       \* prev_idle_times[i], prev_total_times[i]
  idle_time_delta, total_time_delta,  \* the share that info.load or cores[i - 1].load is of
  last                         \* history: the columns at the last two polls

loadVars == <<digits, rest, user, system, idle, prev_idle, prev_total, idle_time_delta,
              total_time_delta, last>>

(* get_cpu_times(): the columns are read from the line's sixth character   *)
(* on.  What follows the second digit of the core's number comes first     *)
(* then, as a column of the sum, and the fourth number is the system time. *)
Columns == [rest |-> rest, user |-> user, system |-> system, idle |-> idle]
Total(c) == c.rest + c.user + c.system + c.idle
IdleColumn == IF digits > 2 THEN system ELSE idle

-----------------------------------------------------------------------------
(* The kernel's accounts.  The idle time of a core has been seen to fall.  *)
Tick ==
  /\ user + system + idle < MaxTime
  /\ \/ user' = user + 1 /\ UNCHANGED <<system, idle>>
     \/ system' = system + 1 /\ UNCHANGED <<user, idle>>
     \/ idle' = idle + 1 /\ UNCHANGED <<user, system>>
  /\ UNCHANGED <<digits, rest, prev_idle, prev_total, idle_time_delta, total_time_delta, last>>

FallBack ==
  /\ idle > 0 /\ idle' = idle - 1
  /\ UNCHANGED <<digits, rest, user, system, prev_idle, prev_total, idle_time_delta,
                 total_time_delta, last>>

-----------------------------------------------------------------------------
(* std::accumulate() with an int for its seed; the sum is then extended.   *)
Accumulate(total) ==
  LET s == total % IntRange
  IN  IF 2 * s < IntRange THEN s ELSE TimeRange - IntRange + s

Elapsed(a, b) == (a - b) % TimeRange

\* mutant: the base of the total is never moved on
PollOnce ==
  /\ idle_time_delta' = Elapsed(IdleColumn, prev_idle)
  /\ total_time_delta' = Elapsed(Accumulate(Total(Columns)), prev_total)
  /\ prev_idle' = IdleColumn
  /\ prev_total' = IF prev_total = 0 THEN Accumulate(Total(Columns)) ELSE prev_total
  /\ last' = <<last[2], Columns>>
  /\ UNCHANGED <<digits, rest, user, system, idle>>

(* poll_load() *)
Poll ==
  /\ idle_time_delta' = Elapsed(IdleColumn, prev_idle)
  /\ total_time_delta' = Elapsed(Accumulate(Total(Columns)), prev_total)
  /\ prev_idle' = IdleColumn
  /\ prev_total' = Accumulate(Total(Columns))
  /\ last' = <<last[2], Columns>>
  /\ UNCHANGED <<digits, rest, user, system, idle>>

-----------------------------------------------------------------------------
LoadInit ==
  LET boot == [rest |-> 0, user |-> 0, system |-> 0, idle |-> 0] IN
  /\ digits \in 0 .. 3 /\ rest \in (IF digits > 2 THEN ThirdDigit ELSE {0})
  /\ user = 0 /\ system = 0 /\ idle = 0
  /\ prev_idle = 0 /\ prev_total = 0 /\ idle_time_delta = 0 /\ total_time_delta = 0
  /\ last = <<boot, boot>>

LoadNext == Tick \/ FallBack \/ Poll
LoadSpec == LoadInit /\ [][LoadNext]_loadVars

-----------------------------------------------------------------------------
(* Properties.                                                             *)

(* Every variable has its type. *)
LoadTypeOK ==
  /\ digits \in 0 .. 3 /\ rest \in ThirdDigit \cup {0} /\ {user, system, idle} \subseteq 0 .. MaxTime
  /\ {prev_idle, prev_total, idle_time_delta, total_time_delta} \subseteq 0 .. TimeRange - 1
  /\ \A k \in 1 .. 2 : last[k] \in
       [rest : ThirdDigit \cup {0}, user : 0 .. MaxTime, system : 0 .. MaxTime, idle : 0 .. MaxTime]

(* The times have not fallen, and less than half an int's range (years of  *)
(* a core, weeks of a large machine) has passed between the two polls; for *)
(* the first poll of a daemon, whose base is 0, that is the time since     *)
(* boot, and what is left of the number of a core counts as time.          *)
Ordinary ==
  /\ last[1].idle <= last[2].idle
  /\ 2 * (Total(last[2]) - Total(last[1])) < IntRange

(* In the upper half of an int's range the sum is negative. *)
Upper(c) == 2 * (Total(c) % IntRange) >= IntRange

(* The total's difference is the interval's, but for the one poll in which *)
(* the sum passes the greatest int: its difference is too large by all of  *)
(* the upper bits (and the load looks like 100), and the next one is right *)
(* again.  Coming back from the negative half costs nothing.  The idle     *)
(* time is the interval's always, of the whole CPU and of the first        *)
(* hundred cores: their idle share is never more than 1.                   *)
OneBadPoll ==
  Ordinary =>
    LET interval == Total(last[2]) - Total(last[1])
        passed   == Upper(last[2]) /\ ~Upper(last[1])
    IN  /\ total_time_delta = IF passed THEN TimeRange - IntRange + interval ELSE interval
        /\ digits < 3 => idle_time_delta = last[2].idle - last[1].idle

=============================================================================
