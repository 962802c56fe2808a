------------------------------- MODULE CPUProofs -------------------------------
(***************************************************************************)
(* Theorems about what is shown of the CPU: the load of a line, the slots  *)
(* of the cores, the sensors' files, and the power of an energy counter    *)
(* (which the Intel GPUs share).                                           *)
(***************************************************************************)
EXTENDS CPULoad, CPU, Hwmon, Energy, FiniteSetTheorems, SequenceTheorems, WellFoundedInduction, TLAPS

-----------------------------------------------------------------------------
(* Hwmon.                                                                  *)

(* The files still to come have been given to no sensor. *)
HwmonInv ==
  /\ HwmonTypeOK /\ OwnFile
  /\ \A s \in Sensor : path[s] # NoFile => path[s] \notin entries
  /\ hpc = "dir" => ~found_sensor

(* A file is taken by one sensor at most, and by one that it matches. *)
LEMMA TakersAreOne ==
  ASSUME NEW f \in File
  PROVE  /\ Takers(f) \subseteq Matching[f]
         /\ \A r, s \in Takers(f) : r = s
<1>1. Matching[f] \subseteq Nat
  BY HwmonAssumption DEF Sensor
<1>2. \A r, s \in Takers(f) : r \in Nat /\ s \in Nat /\ r <= s /\ s <= r
  BY <1>1 DEF Takers
<1> QED
  BY <1>2 DEF Takers

LEMMA HwmonInitInv == HwmonInit => HwmonInv
<1> SUFFICES ASSUME HwmonInit PROVE HwmonInv
  OBVIOUS
<1>1. /\ hpc = "dir" /\ chip = 1 /\ base_dir = {} /\ entries = {} /\ found_sensor = FALSE
      /\ \A s \in Sensor : path[s] = NoFile
  BY DEF HwmonInit
<1>2. 1 \in 1 .. Chips
  BY HwmonAssumption
<1>3. path \in [Sensor -> File \cup {NoFile}] /\ opened \in [Sensor -> BOOLEAN]
  BY DEF HwmonInit
<1>4. HwmonTypeOK
  BY <1>1, <1>2, <1>3 DEF HwmonTypeOK
<1> QED
  BY <1>1, <1>4 DEF HwmonInv, OwnFile

LEMMA FindSensorInv == HwmonInv /\ FindSensor => HwmonInv'
<1> SUFFICES ASSUME HwmonInv, FindSensor PROVE HwmonInv'
  OBVIOUS
<1>1. PICK f \in entries :
        /\ entries' = entries \ {f}
        /\ path' = [s \in Sensor |-> IF s \in Takers(f) THEN f ELSE path[s]]
  BY DEF FindSensor
<1>2. /\ hpc = "find" /\ hpc' = "find" /\ chip' = chip /\ base_dir' = base_dir
      /\ opened' = opened /\ found_sensor' = found_sensor
  BY DEF FindSensor
<1>3. f \in File /\ f \in base_dir /\ f # NoFile
  BY HwmonAssumption DEF HwmonInv, HwmonTypeOK
<1>4. HwmonTypeOK'
  BY <1>1, <1>2, <1>3 DEF HwmonInv, HwmonTypeOK
<1>5. \A s \in Sensor : path'[s] = IF s \in Takers(f) THEN f ELSE path[s]
  BY <1>1
<1>6. \A s \in Sensor : path[s] # f
  BY <1>3 DEF HwmonInv
<1>7. \A s \in Sensor : path'[s] # NoFile => path'[s] \in base_dir /\ s \in Matching[path'[s]]
  BY <1>3, <1>5, TakersAreOne DEF HwmonInv, OwnFile
<1>8. \A r, s \in Sensor : r # s /\ path'[r] = path'[s] => path'[r] = NoFile
  BY <1>3, <1>5, <1>6, TakersAreOne DEF HwmonInv, OwnFile
<1>9. \A s \in Sensor : path'[s] # NoFile => path'[s] \notin entries'
  BY <1>1, <1>5 DEF HwmonInv
<1> QED
  BY <1>2, <1>4, <1>7, <1>8, <1>9 DEF HwmonInv, OwnFile

LEMMA OpenSensorsInv == HwmonInv /\ OpenSensors => HwmonInv'
<1> SUFFICES ASSUME HwmonInv, OpenSensors PROVE HwmonInv'
  OBVIOUS
<1>1. /\ opened' = [s \in Sensor |-> Opens(s)] /\ found_sensor' = opened'[1]
      /\ base_dir' = base_dir /\ entries' = entries /\ path' = path
      /\ 1 \in Sensor
  BY HwmonAssumption DEF OpenSensors, Sensor
<1>2. opened' \in [Sensor -> BOOLEAN]
  BY <1>1 DEF Opens
<1>3. \/ found_sensor' /\ opened'[1] /\ hpc' = "done" /\ chip' = chip
      \/ ~found_sensor' /\ NextChip
  BY <1>1, <1>2 DEF OpenSensors
<1>4. hpc' \in {"dir", "done"} /\ chip' \in 1 .. Chips
      /\ (~found_sensor' /\ hpc' = "done" => chip' = Chips) /\ (found_sensor' => hpc' = "done")
  BY <1>3, HwmonAssumption DEF NextChip, HwmonInv, HwmonTypeOK
<1>5. opened'[1] => path[1] \notin Unreadable
  BY <1>1 DEF Opens
<1>6. HwmonTypeOK'
  BY <1>1, <1>2, <1>4 DEF HwmonInv, HwmonTypeOK
<1>7. OwnFile'
  BY <1>1, <1>4, <1>5 DEF HwmonInv, OwnFile
<1> QED
  BY <1>1, <1>4, <1>6, <1>7 DEF HwmonInv

LEMMA HwmonNextInv == HwmonInv /\ [HwmonNext]_hwmonVars => HwmonInv'
<1> SUFFICES ASSUME HwmonInv, [HwmonNext]_hwmonVars PROVE HwmonInv'
  OBVIOUS
<1>1. CASE FindDir
  BY <1>1, HwmonAssumption DEF FindDir, HwmonInv, HwmonTypeOK, OwnFile
<1>2. CASE NoSuchDir
  BY <1>2, HwmonAssumption DEF NoSuchDir, NextChip, HwmonInv, HwmonTypeOK, OwnFile
<1>3. CASE FindSensor
  BY <1>3, FindSensorInv
<1>4. CASE OpenSensors
  BY <1>4, OpenSensorsInv
<1>5. CASE UNCHANGED hwmonVars
  BY <1>5 DEF hwmonVars, HwmonInv, HwmonTypeOK, OwnFile
<1> QED
  BY <1>1, <1>2, <1>3, <1>4, <1>5 DEF HwmonNext

(* Whatever files a directory holds and in whatever order they are listed, *)
(* a sensor reads one of that directory that it matches and no other       *)
(* sensor reads, for any number of chips, sensors and files.               *)
THEOREM SensorsReadOwnFiles == HwmonSpec => [](HwmonTypeOK /\ OwnFile)
<1>1. HwmonInv => HwmonTypeOK /\ OwnFile
  BY DEF HwmonInv
<1> QED
  BY <1>1, HwmonInitInv, HwmonNextInv, PTL DEF HwmonSpec

-----------------------------------------------------------------------------
(* CPULoad.                                                                *)

(* The remainder, by a divisor that is not a number, of an integer in the  *)
(* divisor's range or just below it.                                       *)
LEMMA ModUnique ==
  ASSUME NEW n \in Int, n > 0, NEW q \in Int, NEW r \in Int, 0 <= r, r < n
  PROVE  (n * q + r) % n = r
  BY Z3

LEMMA ModSmall ==
  ASSUME NEW n \in Nat \ {0}, NEW x \in Int
  PROVE  /\ x % n \in 0 .. n - 1
         /\ 0 <= x /\ x < n => x % n = x
         /\ -n <= x /\ x < 0 => x % n = x + n
<1>1. x % n \in 0 .. n - 1
  OBVIOUS
<1>2. ASSUME 0 <= x, x < n PROVE x % n = x
  <2>1. (n * 0 + x) % n = x
    BY <1>2, ModUnique
  <2> QED
    BY <2>1
<1>3. ASSUME -n <= x, x < 0 PROVE x % n = x + n
  <2>1. (n * (-1) + (x + n)) % n = x + n
    BY <1>3, ModUnique
  <2>2. n * (-1) + (x + n) = x
    OBVIOUS
  <2> QED
    BY <2>1, <2>2
<1> QED
  BY <1>1, <1>2, <1>3

(* The remainders of two numbers less than the divisor apart. *)
LEMMA ModStep ==
  ASSUME NEW n \in Nat \ {0}, NEW x \in Int, NEW y \in 0 .. n - 1
  PROVE  (x + y) % n = (x % n) + y \/ (x + y) % n = (x % n) + y - n
<1> DEFINE q == x \div n
           r == x % n
<1>1. q \in Int /\ r \in 0 .. n - 1 /\ x = n * q + r
  OBVIOUS
<1> HIDE DEF q, r
<1>2. CASE r + y < n
  <2>1. (n * q + (r + y)) % n = r + y
    BY <1>1, <1>2, ModUnique
  <2>2. x + y = n * q + (r + y)
    BY <1>1
  <2> QED
    BY <2>1, <2>2 DEF r
<1>3. CASE r + y >= n
  <2>1. (n * (q + 1) + (r + y - n)) % n = r + y - n
    BY <1>1, <1>3, ModUnique
  <2>2. x + y = n * (q + 1) + (r + y - n)
    BY <1>1
  <2> QED
    BY <2>1, <2>2 DEF r
<1> QED
  BY <1>1, <1>2, <1>3

(* What prev_idle_times and prev_total_times keep of a line's columns. *)
IdleOf(c) == IF digits > 2 THEN c.system ELSE c.idle

(* The bases are those of the last poll, the deltas those of the last two; *)
(* and of the columns only the idle time has ever fallen.  (Those of a     *)
(* core's first poll follow columns of 0.)                                 *)
LoadInv ==
  /\ LoadTypeOK
  /\ user + system + idle <= MaxTime
  /\ prev_idle = IdleOf(last[2]) /\ prev_total = Accumulate(Total(last[2]))
  /\ idle_time_delta = Elapsed(IdleOf(last[2]), IdleOf(last[1]))
  /\ total_time_delta = Elapsed(Accumulate(Total(last[2])), Accumulate(Total(last[1])))
  /\ last[1].user <= last[2].user /\ last[2].user <= user
  /\ last[1].system <= last[2].system /\ last[2].system <= system
  /\ last[1].rest <= last[2].rest /\ last[2].rest <= rest

Times == [rest : ThirdDigit \cup {0}, user : 0 .. MaxTime, system : 0 .. MaxTime, idle : 0 .. MaxTime]

LEMMA SumType == \A t \in Nat : Accumulate(t) \in 0 .. TimeRange - 1
<1> SUFFICES ASSUME NEW t \in Nat PROVE Accumulate(t) \in 0 .. TimeRange - 1
  OBVIOUS
<1>1. t % IntRange \in 0 .. IntRange - 1
  BY ModSmall, RangeAssumption
<1> QED
  BY <1>1, RangeAssumption DEF Accumulate

LEMMA ElapsedType == \A a, b \in 0 .. TimeRange - 1 : Elapsed(a, b) \in 0 .. TimeRange - 1
<1> SUFFICES ASSUME NEW a \in 0 .. TimeRange - 1, NEW b \in 0 .. TimeRange - 1
             PROVE  Elapsed(a, b) \in 0 .. TimeRange - 1
  OBVIOUS
<1>1. TimeRange \in Nat \ {0} /\ a - b \in Int
  BY RangeAssumption
<1> QED
  BY <1>1, ModSmall DEF Elapsed

LEMMA LoadInitInv == LoadInit => LoadInv
<1> SUFFICES ASSUME LoadInit PROVE LoadInv
  OBVIOUS
<1>1. /\ last[1] = [rest |-> 0, user |-> 0, system |-> 0, idle |-> 0] /\ last[2] = last[1]
      /\ digits \in 0 .. 3 /\ rest \in ThirdDigit \cup {0} /\ user = 0 /\ system = 0 /\ idle = 0 /\ prev_idle = 0
      /\ prev_total = 0 /\ idle_time_delta = 0 /\ total_time_delta = 0
  BY DEF LoadInit
<1>2. 0 \in 0 .. TimeRange - 1 /\ 0 \in 0 .. MaxTime
  BY RangeAssumption
<1>3. LoadTypeOK
  BY <1>1, <1>2 DEF LoadTypeOK
<1>4. Total(last[1]) = 0 /\ IdleOf(last[1]) = 0 /\ 0 <= MaxTime /\ last[2].rest <= rest
  BY <1>1, <1>2, RangeAssumption DEF Total, IdleOf
<1>5. Accumulate(0) = 0
  <2>1. 0 % IntRange = 0
    BY ModSmall, RangeAssumption
  <2> QED
    BY <2>1, RangeAssumption DEF Accumulate
<1>6. Elapsed(0, 0) = 0
  BY ModSmall, RangeAssumption DEF Elapsed
<1> QED
  BY <1>1, <1>3, <1>4, <1>5, <1>6 DEF LoadInv

LEMMA PollLoadInv == LoadInv /\ Poll => LoadInv'
<1> SUFFICES ASSUME LoadInv, Poll PROVE LoadInv'
  OBVIOUS
<1>1. /\ idle_time_delta' = Elapsed(IdleColumn, prev_idle)
      /\ total_time_delta' = Elapsed(Accumulate(Total(Columns)), prev_total)
      /\ prev_idle' = IdleColumn /\ prev_total' = Accumulate(Total(Columns))
      /\ last'[1] = last[2] /\ last'[2] = Columns
      /\ user' = user /\ system' = system /\ idle' = idle /\ digits' = digits /\ rest' = rest
  BY DEF Poll
<1>2. /\ Columns \in Times /\ last[2] \in Times
      /\ Total(Columns) \in Nat
      /\ IdleColumn = IdleOf(Columns) /\ IdleColumn \in 0 .. MaxTime
      /\ Columns.user = user /\ Columns.system = system /\ Columns.rest = rest
  BY RangeAssumption DEF LoadInv, LoadTypeOK, Columns, Times, Total, IdleColumn, IdleOf
<1>3. IdleColumn \in 0 .. TimeRange - 1 /\ Accumulate(Total(Columns)) \in 0 .. TimeRange - 1
  BY <1>2, SumType, RangeAssumption
<1>4. LoadTypeOK'
  <2>1. /\ idle_time_delta' \in 0 .. TimeRange - 1 /\ total_time_delta' \in 0 .. TimeRange - 1
        /\ prev_idle' \in 0 .. TimeRange - 1 /\ prev_total' \in 0 .. TimeRange - 1
    BY <1>1, <1>3, ElapsedType DEF LoadInv, LoadTypeOK
  <2>2. \A k \in 1 .. 2 : last'[k] \in Times
    BY <1>1, <1>2
  <2> QED
    BY <1>1, <2>1, <2>2 DEF LoadInv, LoadTypeOK, Times
<1>5. IdleOf(last[2])' = IdleOf(Columns) /\ IdleOf(last[1])' = IdleOf(last[2])
  BY <1>1 DEF IdleOf
<1>6. user \in Nat /\ system \in Nat /\ rest \in Nat
  BY RangeAssumption DEF LoadInv, LoadTypeOK
<1> QED
  BY <1>1, <1>2, <1>4, <1>5, <1>6 DEF LoadInv

LEMMA LoadNextInv == LoadInv /\ [LoadNext]_loadVars => LoadInv'
<1> SUFFICES ASSUME LoadInv, [LoadNext]_loadVars PROVE LoadInv'
  OBVIOUS
<1>1. CASE Tick
  <2>1. /\ UNCHANGED <<digits, rest, prev_idle, prev_total, idle_time_delta, total_time_delta,
                       last>>
        /\ user' \in 0 .. MaxTime /\ system' \in 0 .. MaxTime /\ idle' \in 0 .. MaxTime
        /\ user' >= user /\ system' >= system /\ user' + system' + idle' <= MaxTime
    BY <1>1, RangeAssumption DEF Tick, LoadInv, LoadTypeOK
  <2>2. last[2].user <= user' /\ last[2].system <= system'
    BY <2>1 DEF LoadInv, LoadTypeOK
  <2> QED
    BY <2>1, <2>2 DEF LoadInv, LoadTypeOK, IdleOf
<1>2. CASE FallBack
  <2>1. /\ UNCHANGED <<digits, rest, prev_idle, prev_total, idle_time_delta, total_time_delta,
                       last, user, system>>
        /\ idle' \in 0 .. MaxTime /\ user + system + idle' <= MaxTime
    BY <1>2, RangeAssumption DEF FallBack, LoadInv, LoadTypeOK
  <2> QED
    BY <2>1 DEF LoadInv, LoadTypeOK, IdleOf
<1>3. CASE Poll
  BY <1>3, PollLoadInv
<1>4. CASE UNCHANGED loadVars
  BY <1>4 DEF loadVars, LoadInv, LoadTypeOK, IdleOf
<1> QED
  BY <1>1, <1>2, <1>3, <1>4 DEF LoadNext

(* The difference of two sums of an interval below half an int's range.    *)
LEMMA SumsElapsed ==
  ASSUME NEW t \in Nat, NEW y \in Nat, 2 * y < IntRange
  PROVE  Elapsed(Accumulate(t + y), Accumulate(t)) =
           IF 2 * ((t + y) % IntRange) >= IntRange /\ 2 * (t % IntRange) < IntRange
           THEN TimeRange - IntRange + y ELSE y
<1> DEFINE a == t % IntRange
           b == (t + y) % IntRange
<1>1. /\ IntRange \in Nat \ {0} /\ TimeRange \in Nat \ {0} /\ IntRange <= TimeRange
      /\ y \in 0 .. IntRange - 1
  BY RangeAssumption
<1>2. a \in 0 .. IntRange - 1 /\ b \in 0 .. IntRange - 1
  BY <1>1, ModSmall
<1>3. b = a + y \/ b = a + y - IntRange
  <2>1. t \in Int /\ IntRange \in Nat \ {0} /\ y \in 0 .. IntRange - 1
    BY <1>1
  <2>2. (t + y) % IntRange = (t % IntRange) + y \/ (t + y) % IntRange = (t % IntRange) + y - IntRange
    BY <2>1, ModStep
  <2> QED
    BY <2>2
<1>4. /\ Accumulate(t) = IF 2 * a < IntRange THEN a ELSE TimeRange - IntRange + a
      /\ Accumulate(t + y) = IF 2 * b < IntRange THEN b ELSE TimeRange - IntRange + b
  BY DEF Accumulate
<1> HIDE DEF a, b
<1>5. CASE 2 * a < IntRange /\ 2 * b < IntRange
  <2>1. Accumulate(t + y) - Accumulate(t) = y
    BY <1>1, <1>2, <1>3, <1>4, <1>5
  <2> QED
    BY <2>1, <1>1, <1>5, ModSmall DEF Elapsed, a, b
<1>6. CASE 2 * a < IntRange /\ 2 * b >= IntRange
  <2>1. Accumulate(t + y) - Accumulate(t) = TimeRange - IntRange + y
    BY <1>1, <1>2, <1>3, <1>4, <1>6
  <2>2. TimeRange - IntRange + y >= 0 /\ TimeRange - IntRange + y < TimeRange
    BY <1>1
  <2>3. (TimeRange - IntRange + y) % TimeRange = TimeRange - IntRange + y
    <3> DEFINE z == TimeRange - IntRange + y
    <3>1. z \in Int /\ 0 <= z /\ z < TimeRange
      BY <2>2, <1>1
    <3> HIDE DEF z
    <3>2. z % TimeRange = z
      BY <3>1, <1>1, ModSmall
    <3> QED
      BY <3>2 DEF z
  <2> QED
    BY <2>1, <2>3, <1>1, <1>6 DEF Elapsed, a, b
<1>7. CASE 2 * a >= IntRange /\ 2 * b >= IntRange
  <2>1. Accumulate(t + y) - Accumulate(t) = y
    BY <1>1, <1>2, <1>3, <1>4, <1>7
  <2>2. y % TimeRange = y
    BY <1>1, ModSmall
  <2> QED
    BY <2>1, <2>2, <1>1, <1>2, <1>7 DEF Elapsed, a, b
<1>8. CASE 2 * a >= IntRange /\ 2 * b < IntRange
  <2>1. Accumulate(t + y) - Accumulate(t) = y - TimeRange /\ y - TimeRange < 0 /\ -TimeRange <= y - TimeRange
    BY <1>1, <1>2, <1>3, <1>4, <1>8
  <2>2. (y - TimeRange) % TimeRange = (y - TimeRange) + TimeRange
    <3> DEFINE z == y - TimeRange
    <3>1. z \in Int /\ z < 0 /\ -TimeRange <= z
      BY <2>1, <1>1
    <3> HIDE DEF z
    <3>2. z % TimeRange = z + TimeRange
      BY <3>1, <1>1, ModSmall
    <3> QED
      BY <3>2 DEF z
  <2> QED
    BY <2>1, <2>2, <1>1, <1>2, <1>8 DEF Elapsed, a, b
<1>9. (2 * a < IntRange \/ 2 * a >= IntRange) /\ (2 * b < IntRange \/ 2 * b >= IntRange)
  BY <1>1, <1>2
<1> QED
  BY <1>5, <1>6, <1>7, <1>8, <1>9

LEMMA OneBadPollHolds == LoadInv => OneBadPoll
<1> SUFFICES ASSUME LoadInv, Ordinary PROVE OneBadPoll
  BY DEF OneBadPoll
<1> DEFINE t == Total(last[1])
           y == Total(last[2]) - Total(last[1])
<1>1. last[1] \in Times /\ last[2] \in Times
  BY DEF LoadInv, LoadTypeOK, Times
<1>2. t \in Nat /\ y \in Nat /\ 2 * y < IntRange /\ t + y = Total(last[2])
  <2>1. \A c \in Times : c.rest \in Nat /\ c.user \in Nat /\ c.system \in Nat /\ c.idle \in Nat
    <3> SUFFICES ASSUME NEW c \in Times
                 PROVE  c.rest \in Nat /\ c.user \in Nat /\ c.system \in Nat /\ c.idle \in Nat
      OBVIOUS
    <3>1. c.rest \in Nat
      <4>1. c.rest \in ThirdDigit \cup {0}
        BY DEF Times
      <4>2. ThirdDigit \cup {0} \subseteq Nat
        BY RangeAssumption
      <4> QED
        BY <4>1, <4>2
    <3>2. c.user \in 0 .. MaxTime /\ c.system \in 0 .. MaxTime /\ c.idle \in 0 .. MaxTime
      BY DEF Times
    <3> QED
      BY <3>1, <3>2, RangeAssumption
  <2>2. /\ last[1].rest <= last[2].rest /\ last[1].user <= last[2].user
        /\ last[1].system <= last[2].system /\ last[1].idle <= last[2].idle
    BY DEF LoadInv, Ordinary
  <2>3. 2 * y < IntRange
    BY DEF Ordinary
  <2> QED
    BY <1>1, <2>1, <2>2, <2>3 DEF Total
<1> HIDE DEF t, y
<1>3. total_time_delta =
        IF Upper(last[2]) /\ ~Upper(last[1]) THEN TimeRange - IntRange + y ELSE y
  <2>1. /\ Accumulate(Total(last[2])) = Accumulate(t + y) /\ Total(last[1]) = t
        /\ 2 * (t % IntRange) < IntRange <=> ~(2 * (t % IntRange) >= IntRange)
    BY <1>2, ModSmall, RangeAssumption DEF t
  <2> QED
    BY <2>1, <1>2, SumsElapsed DEF LoadInv, Upper
<1>4. digits < 3 => idle_time_delta = last[2].idle - last[1].idle
  <2> SUFFICES ASSUME digits < 3 PROVE idle_time_delta = last[2].idle - last[1].idle
    OBVIOUS
  <2>1. idle_time_delta = (last[2].idle - last[1].idle) % TimeRange
    BY DEF LoadInv, LoadTypeOK, IdleOf, Elapsed
  <2>2. /\ last[2].idle - last[1].idle >= 0 /\ last[2].idle - last[1].idle \in Int
        /\ last[2].idle - last[1].idle < TimeRange
    BY <1>1, RangeAssumption DEF Ordinary, Times
  <2> QED
    <3> DEFINE z == last[2].idle - last[1].idle
    <3>1. z \in Int /\ 0 <= z /\ z < TimeRange /\ TimeRange \in Nat \ {0}
      BY <2>2, RangeAssumption
    <3> HIDE DEF z
    <3>2. z % TimeRange = z
      BY <3>1, ModSmall
    <3> QED
      BY <2>1, <3>2 DEF z
<1> QED
  BY <1>3, <1>4 DEF OneBadPoll, y

(* Of any widths of an int and of its extension, the total's difference is *)
(* the interval's but for the poll in which the sum passes the greatest    *)
(* int, and the idle time's always, below a hundred cores.                 *)
THEOREM LoadIsOneBadPollOff == LoadSpec => [](LoadTypeOK /\ OneBadPoll)
<1>1. LoadInv => LoadTypeOK /\ OneBadPoll
  BY OneBadPollHolds DEF LoadInv
<1> QED
  BY <1>1, LoadInitInv, LoadNextInv, PTL DEF LoadSpec

-----------------------------------------------------------------------------
(* CPU.                                                                    *)

(* A function over 1 .. n is a sequence of length n. *)
LEMMA OneToN ==
  ASSUME NEW S, NEW n \in Nat, NEW s \in [1 .. n -> S]
  PROVE  s \in Seq(S) /\ Len(s) = n /\ DOMAIN s = 1 .. n
  OBVIOUS

(* A nonempty set of naturals has a least element. *)
LEMMA Least ==
  ASSUME NEW S \in SUBSET Nat, S # {}
  PROVE  \E x \in S : \A y \in S : x <= y
<1>1. PICK x \in S : \A y \in S : ~ (<<y, x>> \in OpToRel(<, Nat))
  BY NatLessThanWellFounded, WFMin, Zenon
<1>2. \A y \in S : x <= y
  <2> TAKE y \in S
  <2>1. ~ (y < x)
    BY <1>1 DEF OpToRel
  <2> QED
    BY <2>1
<1> QED
  BY <1>2

(* Max of what the slots hold is of one of them. *)
LEMMA MaxOfSlots ==
  ASSUME NEW n \in Nat \ {0}, NEW f \in [1 .. n -> Nat]
  PROVE  LET S == {f[k] : k \in 1 .. n}
         IN  Max(S) \in S /\ \A y \in S : Max(S) >= y
<1> DEFINE S == {f[k] : k \in 1 .. n}
           Best(j, m) == j \in 1 .. m /\ \A k \in 1 .. m : f[j] >= f[k]
           Bad == {m \in 1 .. n : \A j \in 1 .. m : ~Best(j, m)}
<1>1. Bad = {}
  <2> SUFFICES ASSUME Bad # {} PROVE FALSE
    OBVIOUS
  <2>0. Bad \in SUBSET Nat
    OBVIOUS
  <2>1. PICK m \in Bad : \A j \in Bad : m <= j
    <3> HIDE DEF Bad
    <3> QED
      BY <2>0, Least
  <2>2. m \in 1 .. n /\ \A j \in 1 .. m : ~Best(j, m)
    OBVIOUS
  <2>3. m # 1
    <3> SUFFICES ASSUME m = 1 PROVE FALSE
      OBVIOUS
    <3>1. Best(1, m)
      OBVIOUS
    <3> QED
      BY <2>2, <3>1
  <2>4. m - 1 \in 1 .. n /\ m - 1 \notin Bad
    <3>1. m - 1 \in 1 .. n /\ ~(m <= m - 1)
      BY <2>2, <2>3
    <3> HIDE DEF Bad
    <3> QED
      BY <2>1, <3>1
  <2>5. PICK j \in 1 .. m - 1 : Best(j, m - 1)
    BY <2>4
  <2>6. f[j] \in Nat /\ \A k \in 1 .. m : f[k] \in Nat /\ (k = m \/ k \in 1 .. m - 1)
    BY <2>2, <2>4
  <2>7. CASE f[j] >= f[m]
    <3>1. Best(j, m)
      BY <2>2, <2>5, <2>6, <2>7
    <3> QED
      BY <2>2, <2>5, <3>1
  <2>8. CASE f[j] < f[m]
    <3>1. m \in 1 .. m
      BY <2>2
    <3>2. ASSUME NEW k \in 1 .. m PROVE f[m] >= f[k]
      <4>1. f[k] \in Nat /\ f[m] \in Nat
        BY <2>6, <3>1
      <4>2. k = m \/ f[j] >= f[k]
        BY <2>5, <2>6
      <4>3. f[j] \in Nat /\ f[j] < f[m]
        BY <2>6, <2>8
      <4>4. \A x, y, z \in Nat : x >= y /\ x < z => z >= y
        OBVIOUS
      <4>5. CASE k = m
        <5>1. \A x \in Nat : x >= x
          OBVIOUS
        <5> QED
          BY <4>1, <4>5, <5>1
      <4>6. CASE f[j] >= f[k]
        BY <4>1, <4>3, <4>4, <4>6
      <4> QED
        BY <4>2, <4>5, <4>6
    <3> QED
      BY <2>2, <3>1, <3>2
  <2>9. f[j] \in Nat /\ f[m] \in Nat
    BY <2>2, <2>6
  <2>10. f[j] >= f[m] \/ f[j] < f[m]
    BY <2>9
  <2> QED
    BY <2>7, <2>8, <2>10
<1>2. PICK j \in 1 .. n : Best(j, n)
  <2>1. n \in 1 .. n
    OBVIOUS
  <2>2. n \notin Bad
    <3> HIDE DEF Bad
    <3> QED
      BY <1>1
  <2> QED
    BY <2>1, <2>2
<1>3. f[j] \in S /\ \A y \in S : f[j] >= y
  BY <1>2
<1> QED
  BY <1>3 DEF Max

LEMMA MaxOfTwo ==
  ASSUME NEW a \in Nat, NEW b \in Nat
  PROVE  Max({a, b}) = IF a >= b THEN a ELSE b
<1>1. CASE a >= b
  <2>1. \A x \in {a, b} : (\A y \in {a, b} : x >= y) => x = a
    BY <1>1
  <2> QED
    BY <1>1, <2>1 DEF Max
<1>2. CASE ~(a >= b)
  <2>1. \A x \in {a, b} : (\A y \in {a, b} : x >= y) => x = b
    BY <1>2
  <2>2. \A y \in {a, b} : b >= y
    BY <1>2
  <2> QED
    BY <1>2, <2>1, <2>2 DEF Max
<1> QED
  BY <1>1, <1>2

(* Each line of the file is of some core: the k-th of those online.        *)
LEMMA KthExists ==
  ASSUME NEW S \in SUBSET Nat, IsFiniteSet(S), NEW n \in 1 .. Cardinality(S)
  PROVE  \E c \in S : Cardinality(Before(c, S)) = n - 1
<1> DEFINE Bad == {m \in 1 .. Cardinality(S) : \A c \in S : Cardinality(Before(c, S)) # m - 1}
<1> SUFFICES ASSUME Bad # {} PROVE FALSE
  OBVIOUS
<1>1. Cardinality(S) \in Nat /\ \A c \in S : c \in Nat
  BY FS_CardinalityType
<1>2. PICK m \in Bad : \A j \in Bad : m <= j
  <2>1. Bad \in SUBSET Nat
    BY <1>1
  <2> HIDE DEF Bad
  <2> QED
    BY <2>1, Least
<1>3. m \in 1 .. Cardinality(S) /\ \A c \in S : Cardinality(Before(c, S)) # m - 1
  OBVIOUS
<1>4. CASE m = 1
  <2>1. S # {}
    BY <1>1, <1>3, FS_EmptySet
  <2>2. PICK c \in S : \A b \in S : c <= b
    BY <2>1, Least
  <2>3. Before(c, S) = {}
    <3>1. \A b \in S : ~(b < c)
      BY <1>1, <2>2
    <3> QED
      BY <3>1 DEF Before
  <2> QED
    BY <1>3, <1>4, <2>3, FS_EmptySet
<1>5. CASE m # 1
  <2>1. m - 1 \in 1 .. Cardinality(S) /\ m - 1 \notin Bad
    BY <1>1, <1>2, <1>3, <1>5
  <2>2. PICK c \in S : Cardinality(Before(c, S)) = (m - 1) - 1
    BY <2>1
  <2> DEFINE B == Before(c, S)
             After == {b \in S : c < b}
  <2>3. IsFiniteSet(B) /\ c \notin B
    BY <1>1, FS_Subset DEF Before
  <2>4. Cardinality(B \cup {c}) = m - 1
    <3>1. Cardinality(B \cup {c}) = Cardinality(B) + 1
      BY <2>3, FS_AddElement
    <3> QED
      BY <1>3, <2>2, <3>1
  <2>5. After # {}
    <3> SUFFICES ASSUME After = {} PROVE FALSE
      OBVIOUS
    <3>1. \A b \in S : b < c \/ b = c
      BY <1>1
    <3>2. S = B \cup {c}
      BY <3>1 DEF Before
    <3> QED
      BY <1>1, <1>3, <2>4, <3>2
  <2>6. PICK d \in After : \A b \in After : d <= b
    BY <1>1, <2>5, Least
  <2>7. Before(d, S) = B \cup {c}
    <3>1. c < d /\ \A b \in S : b < d <=> b < c \/ b = c
      <4>1. c < d /\ d \in S /\ \A b \in S : c < b => d <= b
        BY <2>6
      <4> QED
        BY <1>1, <4>1
    <3> QED
      BY <3>1 DEF Before
  <2> QED
    BY <1>3, <2>4, <2>6, <2>7
<1> QED
  BY <1>4, <1>5

(* From the load of a poll to its frequencies, the slots hold the lines as *)
(* long as no core comes or goes.                                          *)
CPUInv ==
  /\ CPUTypeOK /\ SideBySide
  /\ 0 \in online
  /\ cpc = "frequency" /\ ~changed =>
       \A k \in 1 .. Len(Lines) : k <= Len(cores) /\ cores[k].of = Lines[k]

LEMMA LinesType ==
  ASSUME online \subseteq Core, 0 \in online
  PROVE  /\ Len(Lines) = Cardinality(online) /\ Lines \in Seq(online)
         /\ Len(Lines) \in Nat \ {0} /\ Len(Lines) <= Cardinality(Core)
         /\ DOMAIN Lines = 1 .. Len(Lines)
         /\ \A k \in 1 .. Len(Lines) : Lines[k] \in online
<1>1. IsFiniteSet(online) /\ Cardinality(online) <= Cardinality(Core)
  BY CoreAssumption, FS_Subset
<1>2. Cardinality(online) \in Nat \ {0} /\ online \in SUBSET Nat
  BY <1>1, CoreAssumption, FS_CardinalityType, FS_EmptySet
<1>3. \A k \in 1 .. Cardinality(online) : \E c \in online : Cardinality(Before(c, online)) = k - 1
  BY <1>1, <1>2, KthExists
<1>4. Lines \in [1 .. Cardinality(online) -> online]
  BY <1>3 DEF Lines
<1> QED
  BY <1>1, <1>2, <1>4, OneToN

SlotType == [of : Core \cup {NoCore}, since : Core \cup {NoCore},
             frequency_of : Core \cup {NoCore}, frequency : Frequency \cup {0}]

LEMMA SlotsType ==
  ASSUME CPUInv
  PROVE  /\ Slots = 1 .. Max({Len(Lines), Len(cores)})
         /\ Max({Len(Lines), Len(cores)}) \in Nat \ {0}
         /\ Max({Len(Lines), Len(cores)}) <= Cardinality(Core)
         /\ Len(Lines) <= Max({Len(Lines), Len(cores)})
         /\ Len(cores) <= Max({Len(Lines), Len(cores)})
         /\ \A k \in Slots : Slot(k) \in SlotType /\ (k > Len(Lines) => cores[k] \in SlotType)
<1>1. /\ Len(Lines) \in Nat \ {0} /\ Len(Lines) <= Cardinality(Core)
      /\ cores \in Seq(SlotType) /\ Len(cores) \in Nat /\ Len(cores) <= Cardinality(Core)
  BY LinesType DEF CPUInv, CPUTypeOK, SlotType
<1>2. Max({Len(Lines), Len(cores)}) = IF Len(Lines) >= Len(cores) THEN Len(Lines) ELSE Len(cores)
  BY <1>1, MaxOfTwo
<1>3. NewSlot \in SlotType
  BY DEF NewSlot, SlotType
<1> HIDE DEF SlotType
<1>4. \A k \in Slots : Slot(k) \in SlotType /\ (k > Len(Lines) => cores[k] \in SlotType)
  BY <1>1, <1>2, <1>3 DEF Slots, Slot
<1>5. /\ Max({Len(Lines), Len(cores)}) \in Nat \ {0}
      /\ Max({Len(Lines), Len(cores)}) <= Cardinality(Core)
      /\ Len(Lines) <= Max({Len(Lines), Len(cores)})
      /\ Len(cores) <= Max({Len(Lines), Len(cores)})
  <2> HIDE DEF Lines
  <2> QED
    BY <1>1, <1>2
<1> QED
  BY <1>4, <1>5 DEF Slots

LEMMA CPUInitInv == CPUInit => CPUInv
<1> SUFFICES ASSUME CPUInit PROVE CPUInv
  OBVIOUS
<1>1. /\ online \subseteq Core /\ 0 \in online /\ clock \in [Core -> Frequency]
      /\ prev = <<>> /\ cores = <<>> /\ frequency = 0
      /\ cpc = "idle" /\ read = <<>> /\ changed = FALSE
  BY DEF CPUInit
<1>2. Cardinality(Core) \in Nat
  BY CoreAssumption, FS_CardinalityType
<1>3. CPUTypeOK
  <2>1. Len(prev) = 0 /\ Len(cores) = 0 /\ 0 <= Cardinality(Core)
    BY <1>1, <1>2
  <2>2. /\ prev \in Seq(Core) /\ read \in Seq(Frequency)
        /\ cores \in Seq([of : Core \cup {NoCore}, since : Core \cup {NoCore},
                          frequency_of : Core \cup {NoCore}, frequency : Frequency \cup {0}])
    BY <1>1
  <2> QED
    BY <1>1, <2>1, <2>2 DEF CPUTypeOK
<1>4. SideBySide
  BY <1>1 DEF SideBySide
<1> QED
  BY <1>1, <1>3, <1>4 DEF CPUInv

LEMMA PollLoadSlots == CPUInv /\ PollLoad => CPUInv'
<1> SUFFICES ASSUME CPUInv, PollLoad PROVE CPUInv'
  OBVIOUS
<1> DEFINE n == Max({Len(Lines), Len(cores)})
           p == Max({Len(Lines), Len(prev)})
           Since(k) == IF k <= Len(prev) THEN prev[k] ELSE NoCore
<1>1. /\ cores' = [k \in Slots |->
                     IF k > Len(Lines) THEN cores[k]
                     ELSE [Slot(k) EXCEPT !.of = Lines[k], !.since = Since(k)]]
      /\ prev' = [k \in 1 .. p |-> IF k <= Len(Lines) THEN Lines[k] ELSE prev[k]]
      /\ changed' = FALSE /\ cpc' = "frequency"
      /\ online' = online /\ clock' = clock /\ frequency' = frequency /\ read' = read
  BY DEF PollLoad, hardware
<1>2. /\ online \subseteq Core /\ 0 \in online /\ prev \in Seq(Core) /\ Len(prev) <= Len(cores)
      /\ Len(prev) \in Nat /\ Len(cores) \in Nat
  BY DEF CPUInv, CPUTypeOK
<1>3. Len(Lines) \in Nat /\ \A k \in 1 .. Len(Lines) : Lines[k] \in Core
  BY <1>2, LinesType
<1>4. /\ Slots = 1 .. n /\ n \in Nat \ {0} /\ n <= Cardinality(Core)
      /\ Len(Lines) <= n /\ Len(cores) <= n
      /\ \A k \in Slots : Slot(k) \in SlotType /\ (k > Len(Lines) => cores[k] \in SlotType)
  BY SlotsType
<1>5. p = IF Len(Lines) >= Len(prev) THEN Len(Lines) ELSE Len(prev)
  BY <1>2, <1>3, MaxOfTwo
<1> HIDE DEF n, p, Lines, Slots
<1>6. \A k \in Slots : Since(k) \in Core \cup {NoCore}
  BY <1>2, <1>4
<1>7. \A k \in Slots : cores'[k] \in SlotType
  <2> SUFFICES ASSUME NEW k \in Slots PROVE cores'[k] \in SlotType
    OBVIOUS
  <2>1. CASE k > Len(Lines)
    BY <1>1, <1>4, <2>1
  <2>2. CASE ~(k > Len(Lines))
    <3>1. cores'[k] = [Slot(k) EXCEPT !.of = Lines[k], !.since = Since(k)]
      BY <1>1, <2>2
    <3>2. Lines[k] \in Core /\ Since(k) \in Core \cup {NoCore} /\ Slot(k) \in SlotType
      BY <1>3, <1>4, <1>6, <2>2
    <3> QED
      BY <3>1, <3>2 DEF SlotType
  <2> QED
    BY <2>1, <2>2
<1>8. cores' \in Seq(SlotType) /\ Len(cores') = n
  BY <1>1, <1>4, <1>7, OneToN
<1>9. prev' \in Seq(Core) /\ Len(prev') = p /\ p <= n
  <2>1. \A k \in 1 .. p : (IF k <= Len(Lines) THEN Lines[k] ELSE prev[k]) \in Core
    BY <1>2, <1>3, <1>5
  <2>2. prev' \in [1 .. p -> Core] /\ p \in Nat
    BY <1>1, <1>2, <1>3, <1>5, <2>1
  <2> QED
    BY <1>2, <1>3, <1>4, <1>5, <2>2, OneToN
<1>10. CPUTypeOK'
  BY <1>1, <1>4, <1>8, <1>9 DEF CPUInv, CPUTypeOK, SlotType
<1>11. Lines' = Lines
  <2>1. online' = online
    BY <1>1
  <2> QED
    BY <2>1 DEF Lines
<1>12. \A k \in 1 .. Len(Lines) : k <= Len(cores') /\ cores'[k].of = Lines[k]
  <2> SUFFICES ASSUME NEW k \in 1 .. Len(Lines)
               PROVE  k <= Len(cores') /\ cores'[k].of = Lines[k]
    OBVIOUS
  <2>1. k \in Slots /\ ~(k > Len(Lines)) /\ k <= n
    BY <1>3, <1>4
  <2>2. cores'[k] = [Slot(k) EXCEPT !.of = Lines[k], !.since = Since(k)] /\ Slot(k) \in SlotType
    BY <1>1, <1>4, <2>1
  <2> QED
    BY <1>8, <2>1, <2>2 DEF SlotType
<1>13. SideBySide'
  BY <1>1 DEF SideBySide
<1> QED
  BY <1>1, <1>2, <1>10, <1>11, <1>12, <1>13 DEF CPUInv

LEMMA PollFrequencySlots == CPUInv /\ PollFrequency => CPUInv'
<1> SUFFICES ASSUME CPUInv, PollFrequency PROVE CPUInv'
  OBVIOUS
<1> DEFINE n == Max({Len(Lines), Len(cores)})
<1>1. /\ cores' = [k \in Slots |->
                     IF k > Len(Lines) THEN cores[k]
                     ELSE [Slot(k) EXCEPT !.frequency_of = Lines[k],
                                          !.frequency = clock[Lines[k]]]]
      /\ read' = [k \in DOMAIN Lines |-> clock[Lines[k]]]
      /\ frequency' = Max({cores'[k].frequency : k \in Slots})
      /\ cpc = "frequency" /\ cpc' = "idle"
      /\ online' = online /\ clock' = clock /\ prev' = prev /\ changed' = changed
  BY DEF PollFrequency, hardware
<1>2. /\ online \subseteq Core /\ 0 \in online /\ clock \in [Core -> Frequency]
      /\ Len(prev) \in Nat /\ Len(prev) <= Len(cores) /\ Len(cores) \in Nat
  BY DEF CPUInv, CPUTypeOK
<1>3. /\ Len(Lines) \in Nat /\ DOMAIN Lines = 1 .. Len(Lines)
      /\ \A k \in 1 .. Len(Lines) : Lines[k] \in Core /\ clock[Lines[k]] \in Frequency
  BY <1>2, LinesType
<1>4. /\ Slots = 1 .. n /\ n \in Nat \ {0} /\ n <= Cardinality(Core)
      /\ Len(Lines) <= n /\ Len(cores) <= n
      /\ \A k \in Slots : Slot(k) \in SlotType /\ (k > Len(Lines) => cores[k] \in SlotType)
  BY SlotsType
<1>5. cpc = "frequency" /\ ~changed =>
        \A k \in 1 .. Len(Lines) : k <= Len(cores) /\ cores[k].of = Lines[k]
  BY DEF CPUInv
<1> HIDE DEF n, Lines, Slots
<1>6. \A k \in Slots : cores'[k] \in SlotType
  <2> SUFFICES ASSUME NEW k \in Slots PROVE cores'[k] \in SlotType
    OBVIOUS
  <2>1. CASE k > Len(Lines)
    BY <1>1, <1>4, <2>1
  <2>2. CASE ~(k > Len(Lines))
    <3>1. cores'[k] = [Slot(k) EXCEPT !.frequency_of = Lines[k], !.frequency = clock[Lines[k]]]
      BY <1>1, <2>2
    <3>2. Lines[k] \in Core /\ clock[Lines[k]] \in Frequency /\ Slot(k) \in SlotType
      BY <1>3, <1>4, <2>2
    <3> QED
      BY <3>1, <3>2 DEF SlotType
  <2> QED
    BY <2>1, <2>2
<1>7. cores' \in Seq(SlotType) /\ Len(cores') = n
  BY <1>1, <1>4, <1>6, OneToN
<1>8. frequency' \in Frequency \cup {0}
  <2> DEFINE f == [k \in 1 .. n |-> cores'[k].frequency]
  <2>1. \A k \in 1 .. n : f[k] \in Frequency \cup {0}
    BY <1>4, <1>6 DEF SlotType
  <2>2. f \in [1 .. n -> Nat]
    <3>1. Frequency \cup {0} \subseteq Nat
      BY FrequencyAssumption
    <3>2. f = [k \in 1 .. n |-> f[k]]
      OBVIOUS
    <3> HIDE DEF f
    <3>3. \A k \in 1 .. n : f[k] \in Nat
      BY <2>1, <3>1
    <3> QED
      BY <3>2, <3>3
  <2>3. {cores'[k].frequency : k \in Slots} = {f[k] : k \in 1 .. n}
    BY <1>4
  <2> HIDE DEF f
  <2>4. Max({f[k] : k \in 1 .. n}) \in {f[k] : k \in 1 .. n}
    BY <1>4, <2>2, MaxOfSlots
  <2> QED
    BY <1>1, <2>1, <2>3, <2>4
<1>9. read' \in Seq(Frequency) /\ DOMAIN read' = 1 .. Len(Lines)
  <2>1. read' \in [1 .. Len(Lines) -> Frequency]
    BY <1>1, <1>3
  <2> QED
    BY <1>3, <2>1, OneToN
<1>10. CPUTypeOK'
  <2>1. Len(prev') <= Len(cores') /\ Len(cores') <= Cardinality(Core)
    <3>1. Len(prev') = Len(prev) /\ Len(cores') = n /\ Cardinality(Core) \in Nat
      BY <1>1, <1>7, CoreAssumption, FS_CardinalityType
    <3> QED
      BY <3>1, <1>2, <1>4
  <2>2. prev' \in Seq(Core) /\ changed' \in BOOLEAN
    BY <1>1 DEF CPUInv, CPUTypeOK
  <2> QED
    BY <1>1, <1>2, <1>7, <1>8, <1>9, <2>1, <2>2 DEF CPUTypeOK, SlotType
<1>11. SideBySide'
  <2> SUFFICES ASSUME ~changed', NEW k \in DOMAIN read'
               PROVE  cores'[k].frequency_of = cores'[k].of
    BY DEF SideBySide
  <2>1. k \in 1 .. Len(Lines) /\ k \in Slots /\ ~(k > Len(Lines))
    BY <1>3, <1>4, <1>9
  <2>2. /\ cores'[k] = [Slot(k) EXCEPT !.frequency_of = Lines[k], !.frequency = clock[Lines[k]]]
        /\ Slot(k) \in SlotType /\ Slot(k) = cores[k] /\ cores[k].of = Lines[k]
    BY <1>1, <1>4, <1>5, <2>1 DEF Slot
  <2> QED
    BY <2>2 DEF SlotType
<1> QED
  BY <1>1, <1>2, <1>10, <1>11 DEF CPUInv

LEMMA CPUNextInv == CPUInv /\ [CPUNext]_cpuVars => CPUInv'
<1> SUFFICES ASSUME CPUInv, [CPUNext]_cpuVars PROVE CPUInv'
  OBVIOUS
<1>1. ASSUME NEW c \in Core, Unplug(c) \/ Plug(c) PROVE CPUInv'
  <2>1. /\ UNCHANGED <<clock, prev, cores, frequency, cpc, read>>
        /\ online' \subseteq Core /\ 0 \in online' /\ changed' = (changed \/ cpc = "frequency")
    BY <1>1 DEF Unplug, Plug, slots, CPUInv, CPUTypeOK
  <2>2. CPUTypeOK'
    BY <2>1 DEF CPUInv, CPUTypeOK
  <2>3. SideBySide'
    BY <2>1 DEF CPUInv, SideBySide
  <2>4. ~(cpc' = "frequency" /\ ~changed')
    BY <2>1
  <2> QED
    BY <2>1, <2>2, <2>3, <2>4 DEF CPUInv
<1>2. ASSUME NEW c \in Core, Scale(c) PROVE CPUInv'
  <2>1. /\ UNCHANGED <<online, prev, cores, frequency, cpc, read, changed>>
        /\ clock' \in [Core -> Frequency]
    BY <1>2 DEF Scale, slots, CPUInv, CPUTypeOK
  <2>2. CPUTypeOK'
    BY <2>1 DEF CPUInv, CPUTypeOK
  <2>3. SideBySide' /\ Lines' = Lines
    BY <2>1 DEF CPUInv, SideBySide, Lines
  <2> QED
    BY <2>1, <2>2, <2>3 DEF CPUInv
<1>3. CASE PollLoad
  BY <1>3, PollLoadSlots
<1>4. CASE PollFrequency
  BY <1>4, PollFrequencySlots
<1>5. CASE UNCHANGED cpuVars
  <2>1. UNCHANGED <<online, clock, prev, cores, frequency, cpc, read, changed>>
    BY <1>5 DEF cpuVars
  <2>2. CPUTypeOK' /\ SideBySide' /\ Lines' = Lines
    BY <2>1 DEF CPUInv, CPUTypeOK, SideBySide, Lines
  <2> QED
    BY <2>1, <2>2 DEF CPUInv
<1> QED
  BY <1>1, <1>2, <1>3, <1>4, <1>5 DEF CPUNext, CPUPoll

(* CPU::poll(): whichever cores there are and whenever they come and go,   *)
(* the slots never outnumber the cores, and a slot's load and frequency    *)
(* are of one core after each poll that no core came or went in.           *)
THEOREM CoresSideBySide == CPUSpec => [](CPUTypeOK /\ SideBySide)
<1>1. CPUInv => CPUTypeOK /\ SideBySide
  BY DEF CPUInv
<1> QED
  BY <1>1, CPUInitInv, CPUNextInv, PTL DEF CPUSpec

-----------------------------------------------------------------------------
(* Energy.                                                                 *)

(* get_power_usage() tells by previous_usage whether there is a base yet,  *)
(* the history by ebase.                                                   *)
NoPowerBeforeBase == ebase = 0 => eshown = 0

EnergyInv == EnergyTypeOK /\ EnergyAddsUp /\ NoPowerBeforeBase

LEMMA DifferenceType == \A a, b \in 0 .. CounterRange - 1 : Difference(a, b) \in 0 .. Word - 1
  BY WordAssumption DEF Difference

LEMMA ShownType == EnergyTypeOK => Shown \in 0 .. Word - 1
  BY DifferenceType, WordAssumption
  DEF EnergyTypeOK, Shown, ZenergyPower, RAPLPower, IntelPower

(* All sources show the same of a counter that does not go back.           *)
LEMMA ShownIsDifference ==
  ASSUME EnergyTypeOK, previous_usage # 0, previous_usage <= val
  PROVE  Shown = val - previous_usage
  BY WordAssumption
  DEF EnergyTypeOK, Shown, ZenergyPower, RAPLPower, IntelPower, Difference

LEMMA EnergyInitInv == EnergyInit => EnergyInv
<1> SUFFICES ASSUME EnergyInit PROVE EnergyInv OBVIOUS
<1>1. 0 \in 0 .. CounterRange - 1 /\ 0 \in 0 .. Word - 1 BY WordAssumption
<1>2. EnergyTypeOK BY <1>1 DEF EnergyInit, EnergyTypeOK
<1> QED BY <1>2 DEF EnergyInit, EnergyInv, EnergyAddsUp, NoPowerBeforeBase

LEMMA ConsumeInv == EnergyInv /\ Consume => EnergyInv'
<1> SUFFICES ASSUME EnergyInv, Consume PROVE EnergyInv' OBVIOUS
<1> USE DEF EnergyInv
<1>1. counter' \in 0 .. CounterRange - 1
  BY WordAssumption DEF Consume, EnergyTypeOK
<1>2. counter' # 0 => counter' = counter + 1
  BY WordAssumption DEF Consume, EnergyTypeOK
<1>3. EnergyTypeOK' BY <1>1 DEF Consume, EnergyTypeOK
<1>4. EnergyAddsUp'
  <2> SUFFICES ASSUME ~wrapped' PROVE EnergyAddsUp' BY DEF EnergyAddsUp
  <2>1. ~wrapped /\ counter' = counter + 1 BY <1>2 DEF Consume, EnergyTypeOK
  <2> QED BY <2>1, WordAssumption DEF Consume, EnergyAddsUp, EnergyTypeOK
<1> QED BY <1>3, <1>4 DEF Consume, NoPowerBeforeBase

LEMMA GetPowerUsageInv == EnergyInv /\ GetPowerUsage => EnergyInv'
<1> SUFFICES ASSUME EnergyInv, GetPowerUsage PROVE EnergyInv' OBVIOUS
<1> USE DEF EnergyInv
<1>1. Shown \in 0 .. Word - 1 BY ShownType
<1>2. eshown' \in Nat BY <1>1, WordAssumption DEF GetPowerUsage, EnergyTypeOK
<1>3. EnergyTypeOK' BY <1>1, <1>2 DEF GetPowerUsage, EnergyTypeOK
<1>4. NoPowerBeforeBase' BY DEF GetPowerUsage, NoPowerBeforeBase
<1>5. EnergyAddsUp'
  <2> SUFFICES ASSUME ~wrapped PROVE EnergyAddsUp' BY DEF GetPowerUsage, EnergyAddsUp
  <2>1. previous_usage = ebase + eshown /\ previous_usage <= val /\ val <= counter
    BY DEF EnergyAddsUp
  <2>2. CASE ebase = 0
    BY <2>1, <2>2, WordAssumption DEF GetPowerUsage, EnergyAddsUp, EnergyTypeOK
  <2>3. CASE ebase # 0
    <3>1. previous_usage # 0 BY <2>1, <2>3, WordAssumption DEF EnergyTypeOK
    <3>2. Shown = val - previous_usage BY <2>1, <3>1, ShownIsDifference
    <3>3. ebase' = ebase /\ eshown' = eshown + (val - previous_usage)
      BY <2>3, <3>2 DEF GetPowerUsage, EnergyTypeOK
    <3>4. previous_usage' = val /\ val' = val /\ counter' = counter BY DEF GetPowerUsage
    <3>5. val = ebase + (eshown + (val - previous_usage))
      BY <2>1, WordAssumption DEF EnergyTypeOK
    <3> QED BY <2>1, <3>3, <3>4, <3>5, WordAssumption DEF EnergyAddsUp, EnergyTypeOK
  <2> QED BY <2>2, <2>3
<1> QED BY <1>3, <1>4, <1>5

LEMMA EnergyNextInv == EnergyInv /\ [EnergyNext]_energyVars => EnergyInv'
<1> SUFFICES ASSUME EnergyInv, [EnergyNext]_energyVars PROVE EnergyInv' OBVIOUS
<1> USE DEF EnergyInv, EnergyTypeOK, EnergyAddsUp, NoPowerBeforeBase
<1>1. CASE Consume BY <1>1, ConsumeInv
<1>2. CASE InitPowerUsage
  BY <1>2 DEF InitPowerUsage, Driver
<1>3. CASE PollSensors
  BY <1>3, WordAssumption DEF PollSensors
<1>4. CASE GetPowerUsage BY <1>4, GetPowerUsageInv
<1>5. CASE UNCHANGED energyVars BY <1>5 DEF energyVars
<1> QED BY <1>1, <1>2, <1>3, <1>4, <1>5 DEF EnergyNext, EnergyPoll

(* The energy backends are well typed: neither the counter nor a           *)
(* difference leaves the range of its type.                                *)
THEOREM EnergyTypeCorrect == EnergySpec => []EnergyTypeOK
<1>1. EnergyInv => EnergyTypeOK BY DEF EnergyInv
<1> QED BY <1>1, EnergyInitInv, EnergyNextInv, PTL DEF EnergySpec

(* get_power_usage() of zenergy, RAPL, i915 and xe: what is shown adds up  *)
(* to the energy used since the base until the counter wraps, for any      *)
(* range of the counter and whichever reads fail.                          *)
THEOREM EnergyShownOnce == EnergySpec => []EnergyAddsUp
<1>1. EnergyInv => EnergyAddsUp BY DEF EnergyInv
<1> QED BY <1>1, EnergyInitInv, EnergyNextInv, PTL DEF EnergySpec

=============================================================================
