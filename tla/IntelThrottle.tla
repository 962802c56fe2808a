---------------------------- MODULE IntelThrottle -----------------------------
(***************************************************************************)
(* Throttle reasons of an Intel GPU, as i915 and xe find them: the status  *)
(* file, then the file of each reason, one after the other, while the GPU  *)
(* starts and stops being throttled.  A read that fails leaves failbit or  *)
(* badbit set in the stream, which nothing clears: that file is never read *)
(* again.                                                                  *)
(***************************************************************************)
EXTENDS Naturals, Sequences, FiniteSets

CONSTANTS
  Reason,    \* the throttle reasons
  Files,     \* the reasons of each class that have a file, in the code's order
  MaxBroken  \* bound: files that fail

Class == {"POWER", "CURRENT", "TEMP"}

ASSUME FilesAssumption == Files \in [Class -> Seq(Reason)] /\ "status" \notin Reason

VARIABLES
  active,      \* the reasons that throttle the GPU now
  broken,      \* the files whose stream has failed
  tpc,         \* where get_throttling_status() is
  left,        \* the classes it has yet to check
  current, k,  \* the class and the file it is at
  found,       \* the classes it has found
  throttling,  \* what it returned last
  during,      \* history: the reasons active at some moment of the last call
  steady       \* history: they were the same all the time

throttleVars == <<active, broken, tpc, left, current, k, found, throttling, during, steady>>

FilesOf(c) == {Files[c][j] : j \in 1 .. Len(Files[c])}

-----------------------------------------------------------------------------
Change(r) ==
  /\ active' = IF r \in active THEN active \ {r} ELSE active \cup {r}
  /\ IF tpc = "idle" THEN UNCHANGED <<during, steady>>
     ELSE during' = during \cup active' /\ steady' = FALSE
  /\ UNCHANGED <<broken, tpc, left, current, k, found, throttling>>

(* seekg() and getline(): does the file say "1", as it should if on? *)
Read(file) ==
  \/ UNCHANGED broken
  \/ Cardinality(broken) < MaxBroken /\ broken' = broken \cup {file}

Says(file, on)    == Read(file) /\ on /\ file \notin broken'
SaysNot(file, on) == Read(file) /\ (~on \/ file \in broken')

CheckStatus ==
  /\ tpc = "idle"
  /\ \/ /\ Says("status", active # {})
        /\ tpc' = "reasons" /\ left' = Class /\ UNCHANGED throttling
     \/ /\ SaysNot("status", active # {})
        /\ throttling' = {} /\ UNCHANGED <<tpc, left>>
  /\ during' = active /\ steady' = TRUE
  /\ UNCHANGED <<active, current, k, found>>

(* The three classes are operands of one sum, in whatever order. *)
CheckClass(c) ==
  /\ tpc = "reasons" /\ current = "none" /\ c \in left
  /\ left' = left \ {c} /\ current' = c
  /\ UNCHANGED <<active, broken, tpc, k, found, throttling, during, steady>>

(* check_throttle_reasons(): the first file that says "1" decides. *)
CheckReason ==
  /\ tpc = "reasons" /\ current # "none"
  /\ \/ /\ k <= Len(Files[current]) /\ Says(Files[current][k], Files[current][k] \in active)
        /\ found' = found \cup {current} /\ current' = "none" /\ k' = 1
     \/ /\ k <= Len(Files[current]) /\ SaysNot(Files[current][k], Files[current][k] \in active)
        /\ k' = k + 1 /\ UNCHANGED <<found, current>>
     \/ /\ k > Len(Files[current])
        /\ current' = "none" /\ k' = 1 /\ UNCHANGED <<broken, found>>
  /\ UNCHANGED <<active, tpc, left, throttling, during, steady>>

\* mutant: reasons are added to those of the last call
SumReasonsUp ==
  /\ tpc = "reasons" /\ current = "none" /\ left = {}
  /\ throttling' = throttling \cup (IF found = {} THEN {"OTHER"} ELSE found)
  /\ tpc' = "idle" /\ found' = {}
  /\ UNCHANGED <<active, broken, left, current, k, during, steady>>

SumReasons ==
  /\ tpc = "reasons" /\ current = "none" /\ left = {}
  /\ throttling' = IF found = {} THEN {"OTHER"} ELSE found
  /\ tpc' = "idle" /\ found' = {}
  /\ UNCHANGED <<active, broken, left, current, k, during, steady>>

-----------------------------------------------------------------------------
ThrottleInit ==
  /\ active = {} /\ broken = {} /\ tpc = "idle" /\ left = {} /\ current = "none" /\ k = 1
  /\ found = {} /\ throttling = {} /\ during = {} /\ steady = TRUE

ThrottlePoll == CheckStatus \/ (\E c \in Class : CheckClass(c)) \/ CheckReason \/ SumReasons
ThrottleNext == ThrottlePoll \/ \E r \in Reason : Change(r)
ThrottleSpec == ThrottleInit /\ [][ThrottleNext]_throttleVars

-----------------------------------------------------------------------------
(* Properties.                                                             *)

ThrottleTypeOK ==
  /\ active \subseteq Reason /\ broken \subseteq Reason \cup {"status"}
  /\ tpc \in {"idle", "reasons"} /\ left \subseteq Class
  /\ current \in Class \cup {"none"}
  /\ k \in 1 .. (IF current = "none" THEN 1 ELSE Len(Files[current]) + 1)
  /\ found \subseteq Class /\ throttling \subseteq Class \cup {"OTHER"}
  /\ during \subseteq Reason /\ steady \in BOOLEAN

(* Nothing is reported that was not so at some moment of the call: a class *)
(* had a reason, and OTHER stands for some reason.                         *)
NothingInvented ==
  tpc = "idle" =>
    /\ \A c \in throttling \cap Class : FilesOf(c) \cap during # {}
    /\ "OTHER" \in throttling => throttling = {"OTHER"} /\ during # {}

(* Reasons that did not change during the call, none of whose files has    *)
(* failed, are reported exactly: all their classes, or OTHER if none of    *)
(* them has a file.                                                        *)
SteadyIsExact ==
  tpc = "idle" /\ steady /\ broken = {} =>
    LET classes == {c \in Class : FilesOf(c) \cap during # {}} IN
    throttling = IF during # {} /\ classes = {} THEN {"OTHER"} ELSE classes

(* However the reasons change during a call, what it reports held in it,   *)
(* and is all there was if nothing changed and no file has failed.         *)
ReportsWhatHeld == NothingInvented /\ SteadyIsExact

=============================================================================
