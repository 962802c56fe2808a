------------------------------ MODULE GPUProofs -------------------------------
(***************************************************************************)
(* Theorems about the figures of a GPU: the throttle reasons of an Intel GPU,*)
(* the cycles of the clients of xe, and the metrics tables of AMD GPUs.    *)
(***************************************************************************)
EXTENDS IntelThrottle, XeCycles, AMDGPUMetrics, TLAPS

-----------------------------------------------------------------------------
(* IntelThrottle.                                                          *)

(* Between two calls nothing is left of the last. *)
Rests == tpc = "idle" => found = {} /\ current = "none"

(* During a call: what has been found is so, and what has been passed      *)
(* without a finding was not, if nothing has changed or failed.            *)
FoundIsSo ==
  /\ active \subseteq during /\ during # {}
  /\ \A c \in found : FilesOf(c) \cap during # {}
  /\ current \notin left /\ current \notin found /\ left \cap found = {}

PassedIsNot ==
  /\ steady => during = active
  /\ steady /\ broken = {} =>
       /\ \A c \in Class \ (left \cup {current}) : FilesOf(c) \cap active # {} => c \in found
       /\ current # "none" => \A j \in 1 .. k - 1 : Files[current][j] \notin active

ThrottleInv ==
  /\ ThrottleTypeOK /\ Rests
  /\ tpc = "reasons" => FoundIsSo /\ PassedIsNot
  /\ NothingInvented /\ SteadyIsExact

-----------------------------------------------------------------------------
LEMMA FilesAreReasons ==
  ASSUME NEW c \in Class
  PROVE  /\ Files[c] \in Seq(Reason) /\ Len(Files[c]) \in Nat
         /\ \A j \in 1 .. Len(Files[c]) : Files[c][j] \in FilesOf(c) /\ Files[c][j] \in Reason
         /\ \A r \in FilesOf(c) : \E j \in 1 .. Len(Files[c]) : Files[c][j] = r
  BY FilesAssumption DEF FilesOf

LEMMA ClassNames == "OTHER" \notin Class /\ "none" \notin Class
  BY DEF Class

LEMMA ReadType ==
  ASSUME NEW file \in Reason \cup {"status"}, Read(file), broken \subseteq Reason \cup {"status"}
  PROVE  broken \subseteq broken' /\ broken' \subseteq Reason \cup {"status"}
  BY DEF Read

LEMMA ThrottleInitInv == ThrottleInit => ThrottleInv
<1> SUFFICES ASSUME ThrottleInit PROVE ThrottleInv OBVIOUS
<1> USE DEF ThrottleInit
<1>1. ThrottleTypeOK BY DEF ThrottleTypeOK
<1>2. {c \in Class : FilesOf(c) \cap during # {}} = {} OBVIOUS
<1> QED BY <1>1, <1>2 DEF ThrottleInv, Rests, NothingInvented, SteadyIsExact

LEMMA ChangeInv ==
  ASSUME ThrottleInv, NEW r \in Reason, Change(r)
  PROVE  ThrottleInv'
<1> USE DEF ThrottleInv
<1>1. ThrottleTypeOK' BY DEF Change, ThrottleTypeOK
<1>2. Rests' BY DEF Change, Rests
<1>3. CASE tpc = "idle"
  BY <1>1, <1>2, <1>3 DEF Change, NothingInvented, SteadyIsExact
<1>4. CASE tpc = "reasons"
  <2>1. during' = during \cup active' /\ steady' = FALSE /\ UNCHANGED <<tpc, left, current, found>>
    BY <1>4 DEF Change
  <2>2. FoundIsSo' BY <1>4, <2>1 DEF FoundIsSo
  <2>3. PassedIsNot' BY <2>1 DEF PassedIsNot
  <2>4. NothingInvented' /\ SteadyIsExact' BY <1>4, <2>1 DEF NothingInvented, SteadyIsExact
  <2> QED BY <1>1, <1>2, <2>2, <2>3, <2>4
<1> QED BY <1>3, <1>4 DEF ThrottleTypeOK

LEMMA CheckStatusInv == ThrottleInv /\ CheckStatus => ThrottleInv'
<1> SUFFICES ASSUME ThrottleInv, CheckStatus PROVE ThrottleInv' OBVIOUS
<1> USE DEF ThrottleInv
<1>1. /\ tpc = "idle" /\ found = {} /\ current = "none" /\ during' = active /\ steady' = TRUE
      /\ UNCHANGED <<active, current, k, found>>
  BY DEF CheckStatus, Rests
<1>2. CASE /\ Says("status", active # {})
           /\ tpc' = "reasons" /\ left' = Class /\ UNCHANGED throttling
  <2>1. active # {} /\ Read("status") BY <1>2 DEF Says
  <2>2. ThrottleTypeOK' BY <1>1, <1>2, <2>1, ReadType DEF ThrottleTypeOK
  <2>3. FoundIsSo' BY <1>1, <1>2, <2>1, ClassNames DEF FoundIsSo
  <2>4. PassedIsNot' BY <1>1, <1>2 DEF PassedIsNot
  <2> QED BY <1>1, <1>2, <2>2, <2>3, <2>4 DEF Rests, NothingInvented, SteadyIsExact
<1>3. CASE /\ SaysNot("status", active # {})
           /\ throttling' = {} /\ UNCHANGED <<tpc, left>>
  <2>1. Read("status") /\ (active = {} \/ "status" \in broken') BY <1>3 DEF SaysNot
  <2>2. ThrottleTypeOK' BY <1>1, <1>3, <2>1, ReadType DEF ThrottleTypeOK
  <2>3. NothingInvented' BY <1>3 DEF NothingInvented
  <2>4. SteadyIsExact'
    <3> SUFFICES ASSUME broken' = {}
                 PROVE  /\ during' = {} /\ throttling' = {}
                        /\ {c \in Class : FilesOf(c) \cap during' # {}} = {}
      BY DEF SteadyIsExact
    <3>1. during' = {} BY <1>1, <2>1
    <3> QED BY <1>3, <3>1
  <2> QED BY <1>1, <1>3, <2>2, <2>3, <2>4 DEF Rests
<1> QED BY <1>2, <1>3 DEF CheckStatus

LEMMA CheckClassInv ==
  ASSUME ThrottleInv, NEW c \in Class, CheckClass(c)
  PROVE  ThrottleInv'
<1> USE DEF ThrottleInv
<1>1. /\ tpc = "reasons" /\ current = "none" /\ c \in left /\ k = 1
      /\ left' = left \ {c} /\ current' = c
      /\ UNCHANGED <<active, broken, tpc, k, found, throttling, during, steady>>
  BY DEF CheckClass, ThrottleTypeOK
<1>2. ThrottleTypeOK'
  BY <1>1, FilesAreReasons, ClassNames DEF ThrottleTypeOK
<1>3. FoundIsSo' BY <1>1 DEF FoundIsSo
<1>4. PassedIsNot'
  <2>1. 1 .. k' - 1 = {} BY <1>1
  <2>2. Class \ (left' \cup {current'}) = Class \ (left \cup {current})
    BY <1>1, ClassNames DEF ThrottleTypeOK
  <2> QED BY <1>1, <2>1, <2>2 DEF PassedIsNot
<1> QED BY <1>1, <1>2, <1>3, <1>4 DEF Rests, NothingInvented, SteadyIsExact

LEMMA CheckReasonInv == ThrottleInv /\ CheckReason => ThrottleInv'
<1> SUFFICES ASSUME ThrottleInv, CheckReason PROVE ThrottleInv' OBVIOUS
<1> USE DEF ThrottleInv
<1>1. /\ tpc = "reasons" /\ current \in Class
      /\ UNCHANGED <<active, tpc, left, throttling, during, steady>>
  BY DEF CheckReason, ThrottleTypeOK
<1>2. k \in 1 .. Len(Files[current]) + 1 /\ Len(Files[current]) \in Nat
  BY <1>1, FilesAreReasons, ClassNames DEF ThrottleTypeOK
<1> DEFINE file == Files[current][k]
<1>3. ASSUME k <= Len(Files[current])
      PROVE  k \in 1 .. Len(Files[current]) /\ file \in FilesOf(current) /\ file \in Reason
  BY <1>1, <1>2, <1>3, FilesAreReasons
<1>4. Rests' /\ NothingInvented' /\ SteadyIsExact'
  BY <1>1 DEF Rests, NothingInvented, SteadyIsExact
<1>5. CASE /\ k <= Len(Files[current]) /\ Says(file, file \in active)
           /\ found' = found \cup {current} /\ current' = "none" /\ k' = 1
  <2>1. file \in active /\ Read(file) BY <1>5 DEF Says
  <2>2. broken \subseteq broken' /\ ThrottleTypeOK'
    BY <1>1, <1>3, <1>5, <2>1, ReadType DEF ThrottleTypeOK
  <2>3. FoundIsSo' BY <1>1, <1>3, <1>5, <2>1, ClassNames DEF FoundIsSo, ThrottleTypeOK
  <2>4. PassedIsNot' BY <1>1, <1>5, <2>2 DEF PassedIsNot
  <2> QED BY <1>4, <2>2, <2>3, <2>4
<1>6. CASE /\ k <= Len(Files[current]) /\ SaysNot(file, file \in active)
           /\ k' = k + 1 /\ UNCHANGED <<found, current>>
  <2>1. Read(file) /\ (file \notin active \/ file \in broken') BY <1>6 DEF SaysNot
  <2>2. broken \subseteq broken' /\ ThrottleTypeOK'
    BY <1>1, <1>2, <1>3, <1>6, <2>1, ReadType, ClassNames DEF ThrottleTypeOK
  <2>3. FoundIsSo' BY <1>1, <1>6 DEF FoundIsSo
  <2>4. PassedIsNot'
    <3>1. ASSUME steady, broken' = {}, NEW j \in 1 .. k' - 1
          PROVE  Files[current][j] \notin active
      <4>1. CASE j = k BY <2>1, <3>1, <4>1
      <4>2. CASE j # k
        <5>1. j \in 1 .. k - 1 BY <1>2, <1>6, <4>2
        <5> QED BY <1>1, <2>2, <3>1, <5>1, ClassNames DEF PassedIsNot
      <4> QED BY <4>1, <4>2
    <3> QED BY <1>1, <1>6, <2>2, <3>1 DEF PassedIsNot
  <2> QED BY <1>1, <1>4, <2>2, <2>3, <2>4
<1>7. CASE /\ k > Len(Files[current])
           /\ current' = "none" /\ k' = 1 /\ UNCHANGED <<broken, found>>
  <2>1. ThrottleTypeOK' BY <1>1, <1>7 DEF ThrottleTypeOK
  <2>2. FoundIsSo' BY <1>1, <1>7, ClassNames DEF FoundIsSo, ThrottleTypeOK
  <2>3. PassedIsNot'
    <3>1. ASSUME steady, broken = {} PROVE FilesOf(current) \cap active = {}
      <4>1. k - 1 = Len(Files[current]) BY <1>2, <1>7
      <4>2. \A j \in 1 .. Len(Files[current]) : Files[current][j] \notin active
        BY <1>1, <3>1, <4>1, ClassNames DEF PassedIsNot
      <4> QED BY <4>2 DEF FilesOf
    <3> QED BY <1>1, <1>7, <3>1 DEF PassedIsNot
  <2> QED BY <1>1, <1>4, <2>1, <2>2, <2>3
<1> QED BY <1>5, <1>6, <1>7 DEF CheckReason

LEMMA SumReasonsInv == ThrottleInv /\ SumReasons => ThrottleInv'
<1> SUFFICES ASSUME ThrottleInv, SumReasons PROVE ThrottleInv' OBVIOUS
<1> USE DEF ThrottleInv
<1>1. /\ tpc = "reasons" /\ current = "none" /\ left = {} /\ tpc' = "idle" /\ found' = {}
      /\ throttling' = IF found = {} THEN {"OTHER"} ELSE found
      /\ UNCHANGED <<active, broken, left, current, k, during, steady>>
  BY DEF SumReasons
<1>2. ThrottleTypeOK' /\ Rests' BY <1>1 DEF ThrottleTypeOK, Rests
<1>3. NothingInvented'
  BY <1>1, ClassNames DEF NothingInvented, FoundIsSo, ThrottleTypeOK
<1>4. SteadyIsExact'
  <2> SUFFICES ASSUME steady, broken = {}
               PROVE  throttling' = IF during # {} /\ {c \in Class : FilesOf(c) \cap during # {}} = {}
                                    THEN {"OTHER"} ELSE {c \in Class : FilesOf(c) \cap during # {}}
    BY <1>1 DEF SteadyIsExact
  <2>1. during # {} BY <1>1 DEF FoundIsSo
  <2>2. found = {c \in Class : FilesOf(c) \cap during # {}}
    BY <1>1, ClassNames DEF FoundIsSo, PassedIsNot, ThrottleTypeOK
  <2> QED BY <1>1, <2>1, <2>2
<1> QED BY <1>1, <1>2, <1>3, <1>4

LEMMA ThrottleNextInv == ThrottleInv /\ [ThrottleNext]_throttleVars => ThrottleInv'
<1> SUFFICES ASSUME ThrottleInv, [ThrottleNext]_throttleVars PROVE ThrottleInv' OBVIOUS
<1>1. CASE ThrottlePoll
  BY <1>1, CheckStatusInv, CheckClassInv, CheckReasonInv, SumReasonsInv DEF ThrottlePoll
<1>2. ASSUME NEW r \in Reason, Change(r) PROVE ThrottleInv' BY <1>2, ChangeInv
<1>3. CASE UNCHANGED throttleVars
  BY <1>3 DEF throttleVars, ThrottleInv, ThrottleTypeOK, Rests, FoundIsSo, PassedIsNot,
              NothingInvented, SteadyIsExact
<1> QED BY <1>1, <1>2, <1>3 DEF ThrottleNext

LEMMA ThrottleInvShows == ThrottleInv => ReportsWhatHeld
  BY DEF ThrottleInv, ReportsWhatHeld

LEMMA ThrottleSpecInv == ThrottleSpec => []ThrottleInv
  BY ThrottleInitInv, ThrottleNextInv, PTL DEF ThrottleSpec

-----------------------------------------------------------------------------
(* Every variable of IntelThrottle has its type: no file past the end of a *)
(* class's list is read, and OTHER is only ever added to no class.         *)
THEOREM ThrottleTypeCorrect == ThrottleSpec => []ThrottleTypeOK
  BY ThrottleSpecInv, PTL DEF ThrottleInv

(* get_throttling_status() reports no class and no OTHER without a reason  *)
(* that was active during the call, however the reasons change and the     *)
(* files fail under it; and if they rest and no file has ever failed, the  *)
(* classes of the active reasons, all of them and no other.                *)
THEOREM ThrottlingIsSound == ThrottleSpec => []ReportsWhatHeld
  BY ThrottleInvShows, ThrottleSpecInv, PTL

-----------------------------------------------------------------------------
(* XeCycles.                                                               *)

(* Two readings of one client, the second no earlier than the first: both  *)
(* counters go up, the client's by no more than the GPU's.                 *)
Precedes(a, b) == a[1] <= b[1] /\ a[2] <= b[2] /\ b[1] - a[1] <= b[2] - a[2]

Now(c) == <<cycles[c], total_cycles>>

(* A client that is not doubled is known through one process's descriptors *)
(* and at most one stream.                                                 *)
OneStream ==
  \A c \in XeClient \ doubled : \A f, g \in XeFd :
    Knows(f, c) /\ Knows(g, c) =>
      f[1] = g[1] /\ (f \in DOMAIN fds_data /\ g \in DOMAIN fds_data => f = g)

(* A stream has a client's last reading, no older than what was accounted. *)
InOrder ==
  \A c \in XeClient \ doubled :
    /\ c \in DOMAIN previous_cycles => Precedes(previous_cycles[c], Now(c))
    /\ \A f \in DOMAIN fds_data : fds_data[f].id = c =>
         /\ Precedes(fds_data[f].read, Now(c))
         /\ c \in DOMAIN previous_cycles => Precedes(previous_cycles[c], fds_data[f].read)

Accounted ==
  \A c \in XeClient \ doubled :
    accounted[c] = IF c \in DOMAIN previous_cycles THEN previous_cycles[c][1] ELSE 0

XeInv ==
  /\ XeTypeOK
  /\ \A c \in XeClient : cycles[c] <= total_cycles
  /\ \A f \in DOMAIN fds_data : fds_data[f].id <= last_id
  /\ OneStream /\ InOrder /\ Accounted

-----------------------------------------------------------------------------
LEMMA PrecedesIsOrder ==
  /\ \A a \in Reading : Precedes(a, a)
  /\ \A a, b, c \in Reading : Precedes(a, b) /\ Precedes(b, c) => Precedes(a, c)
  BY XeAssumption DEF Reading, Precedes

LEMMA LessType == \A a, b \in 0 .. MaxCycles : Less(a, b) \in 0 .. XeWord - 1
  BY XeAssumption, XeWordAssumption DEF Less

LEMMA FdsArePairs ==
  \A f, g \in XeFd : f[2] \in Nat /\ (f[1] = g[1] /\ f[2] = g[2] => f = g)
  BY XeAssumption

LEMMA ContentsOf ==
  ASSUME XeTypeOK, NEW f \in DOMAIN fds_data
  PROVE  f \in XeFd /\ fds_data[f].id \in 0 .. MaxClients /\ fds_data[f].read \in Reading
  BY DEF XeTypeOK, Contents

LEMMA XeInitInv == XeInit => XeInv
<1> SUFFICES ASSUME XeInit PROVE XeInv OBVIOUS
<1> USE DEF XeInit
<1>1. DOMAIN fds_data = {} /\ DOMAIN previous_cycles = {} OBVIOUS
<1>2. XeTypeOK BY <1>1, XeAssumption DEF XeTypeOK
<1>3. OneStream BY <1>1 DEF OneStream, Knows, XeClient
<1> QED BY <1>1, <1>2, <1>3 DEF XeInv, InOrder, Accounted

(* A step that changes who has a client, but nothing that was read. *)
LEMMA DescriptorsInv ==
  ASSUME XeInv, XeTypeOK', OneStream', doubled \subseteq doubled', last_id' >= last_id,
         last_id' \in Nat, last_id \in Nat,
         UNCHANGED <<cycles, total_cycles, fds_data, previous_cycles, accounted>>
  PROVE  XeInv'
<1> USE DEF XeInv
<1>1. InOrder' BY DEF InOrder, Now
<1>2. Accounted' BY DEF Accounted
<1>3. \A f \in DOMAIN fds_data : fds_data[f].id <= last_id'
  BY ContentsOf, XeAssumption
<1> QED BY <1>1, <1>2, <1>3

LEMMA OpenInv ==
  ASSUME XeInv, NEW f \in XeFd, Open(f)
  PROVE  XeInv'
<1> USE DEF XeInv
<1>1. /\ last_id' = last_id + 1 /\ last_id < MaxClients /\ client' = [client EXCEPT ![f] = last_id']
      /\ UNCHANGED <<cycles, total_cycles, doubled, workVars>>
  BY DEF Open
<1>2. last_id \in Nat /\ last_id' \in 0 .. MaxClients /\ last_id' \in Nat
  BY <1>1, XeAssumption DEF XeTypeOK
<1>3. client' \in [XeFd -> 0 .. last_id']
  <2>1. \A g \in XeFd : client[g] \in 0 .. last_id' BY <1>1, <1>2 DEF XeTypeOK
  <2>2. last_id' \in 0 .. last_id' BY <1>2
  <2> QED BY <1>1, <2>1, <2>2 DEF XeTypeOK
<1>4. XeTypeOK' BY <1>1, <1>2, <1>3 DEF XeTypeOK, workVars
<1>5. \A g \in XeFd : client'[g] = IF g = f THEN last_id' ELSE client[g]
  BY <1>1 DEF XeTypeOK
<1>6. \A g \in XeFd : client[g] # last_id'
  <2> TAKE g \in XeFd
  <2>1. client[g] \in 0 .. last_id BY DEF XeTypeOK
  <2> QED BY <1>1, <1>2, <2>1
<1>7. \A g \in DOMAIN fds_data : fds_data[g].id # last_id'
  <2> TAKE g \in DOMAIN fds_data
  <2>1. fds_data[g].id <= last_id /\ fds_data[g].id \in Nat BY ContentsOf, XeAssumption
  <2> QED BY <1>1, <1>2, <2>1
<1>8. ASSUME NEW c \in XeClient, NEW g \in XeFd, Knows(g, c)'
      PROVE  IF c = last_id' THEN g = f ELSE Knows(g, c)
  BY <1>1, <1>5, <1>6, <1>7, <1>8 DEF Knows, workVars
<1>9. OneStream' BY <1>1, <1>8 DEF OneStream, workVars
<1>10. last_id' >= last_id BY <1>1, <1>2
<1> QED BY <1>1, <1>2, <1>4, <1>9, <1>10, DescriptorsInv DEF workVars

LEMMA DuplicateInv ==
  ASSUME XeInv, NEW f \in XeFd, NEW g \in XeFd, Duplicate(f, g)
  PROVE  XeInv'
<1> USE DEF XeInv
<1> DEFINE c == client[f]
<1>1. /\ c # 0 /\ client' = [client EXCEPT ![g] = c] /\ doubled \subseteq doubled'
      /\ doubled' \subseteq doubled \cup {c}
      /\ f[1] # g[1] => c \in doubled'
      /\ (g \in DOMAIN fds_data /\ \E h \in DOMAIN fds_data \ {g} : Knows(h, c)) => c \in doubled'
      /\ UNCHANGED <<last_id, cycles, total_cycles, workVars>>
  BY DEF Duplicate
<1>2. c \in 0 .. last_id /\ last_id \in Nat /\ last_id <= MaxClients /\ c \in XeClient
  BY <1>1, XeAssumption DEF XeTypeOK, XeClient
<1>3. XeTypeOK'
  <2>1. client' \in [XeFd -> 0 .. last_id] BY <1>1, <1>2 DEF XeTypeOK
  <2>2. doubled' \subseteq XeClient BY <1>1, <1>2 DEF XeTypeOK
  <2> QED BY <1>1, <2>1, <2>2 DEF XeTypeOK, workVars
<1>4. Knows(f, c) BY DEF Knows
<1>5. \A h \in XeFd : client'[h] = IF h = g THEN c ELSE client[h]
  BY <1>1 DEF XeTypeOK
<1>6. ASSUME NEW d \in XeClient, NEW h \in XeFd, Knows(h, d)'
      PROVE  Knows(h, d) \/ (d = c /\ h = g)
  BY <1>1, <1>5, <1>6 DEF Knows, workVars
<1>7. OneStream'
  <2> SUFFICES ASSUME NEW d \in XeClient, d \notin doubled', NEW h \in XeFd, NEW i \in XeFd,
                      Knows(h, d)', Knows(i, d)'
               PROVE  h[1] = i[1] /\ (h \in DOMAIN fds_data /\ i \in DOMAIN fds_data => h = i)
    BY <1>1 DEF OneStream, workVars
  <2>1. d \notin doubled BY <1>1
  <2>2. CASE Knows(h, d) /\ Knows(i, d) BY <2>1, <2>2 DEF OneStream
  <2>3. CASE d = c
    <3>1. f[1] = g[1] BY <1>1, <2>3
    <3>2. \A j \in XeFd : Knows(j, d) => j[1] = f[1] BY <1>4, <2>1, <2>3 DEF OneStream
    <3>3. h[1] = f[1] /\ i[1] = f[1] BY <1>6, <2>3, <3>1, <3>2
    <3>4. g \in DOMAIN fds_data => \A j \in DOMAIN fds_data : Knows(j, d) => j = g
      BY <1>1, <2>3
    <3> QED BY <1>6, <2>1, <2>2, <2>3, <3>3, <3>4
  <2> QED BY <1>6, <2>2, <2>3
<1> QED BY <1>1, <1>2, <1>3, <1>7, DescriptorsInv DEF workVars

LEMMA CloseFileInv ==
  ASSUME XeInv, NEW f \in XeFd, CloseFile(f)
  PROVE  XeInv'
<1> USE DEF XeInv
<1>1. /\ client' = [client EXCEPT ![f] = 0]
      /\ UNCHANGED <<last_id, cycles, total_cycles, doubled, workVars>>
  BY DEF CloseFile
<1>2. last_id \in Nat BY XeAssumption DEF XeTypeOK
<1>3. XeTypeOK' BY <1>1, <1>2 DEF XeTypeOK, workVars
<1>4. \A g \in XeFd : client'[g] = IF g = f THEN 0 ELSE client[g]
  BY <1>1 DEF XeTypeOK
<1>5. ASSUME NEW c \in XeClient, NEW g \in XeFd, Knows(g, c)' PROVE Knows(g, c)
  BY <1>1, <1>4, <1>5 DEF Knows, workVars, XeClient
<1>6. OneStream' BY <1>1, <1>5 DEF OneStream, workVars
<1> QED BY <1>1, <1>2, <1>3, <1>6, DescriptorsInv DEF workVars

LEMMA CycleInv ==
  ASSUME XeInv, NEW d \in 0 .. MaxClients, Cycle(d)
  PROVE  XeInv'
<1> USE DEF XeInv
<1>1. /\ total_cycles < MaxCycles /\ total_cycles' = total_cycles + 1
      /\ cycles' = [c \in XeClient |-> IF c = d THEN cycles[c] + 1 ELSE cycles[c]]
      /\ UNCHANGED <<drmVars, workVars>>
  BY DEF Cycle
<1>2. \A c \in XeClient : cycles'[c] \in {cycles[c], cycles[c] + 1} /\ cycles[c] \in 0 .. MaxCycles
                          /\ total_cycles \in 0 .. MaxCycles
  BY <1>1 DEF XeTypeOK
<1>3. \A c \in XeClient : cycles'[c] <= total_cycles' /\ cycles'[c] \in 0 .. MaxCycles
  BY <1>1, <1>2, XeAssumption
<1>4. total_cycles' \in 0 .. MaxCycles BY <1>1, XeAssumption DEF XeTypeOK
<1>5. cycles' \in [XeClient -> 0 .. MaxCycles] BY <1>1, <1>3
<1>6. XeTypeOK' BY <1>1, <1>4, <1>5 DEF XeTypeOK, drmVars, workVars
<1>7. OneStream' BY <1>1 DEF OneStream, Knows, drmVars, workVars
<1>8. \A c \in XeClient : Precedes(Now(c), Now(c)') /\ Now(c) \in Reading /\ Now(c)' \in Reading
  BY <1>1, <1>2, <1>3, <1>4 DEF Precedes, Now, Reading
<1>9. InOrder'
  <2>1. ASSUME NEW c \in XeClient, NEW a \in Reading, Precedes(a, Now(c))
        PROVE  Precedes(a, Now(c)')
    BY <1>8, <2>1, PrecedesIsOrder
  <2>2. \A c \in DOMAIN previous_cycles : previous_cycles[c] \in Reading
    BY DEF XeTypeOK
  <2> QED BY <1>1, <2>1, <2>2, ContentsOf DEF InOrder, drmVars, workVars
<1>10. Accounted' BY <1>1 DEF Accounted, drmVars, workVars
<1> QED BY <1>1, <1>3, <1>6, <1>7, <1>9, <1>10 DEF drmVars, workVars

-----------------------------------------------------------------------------
(* The worker.                                                             *)

LEMMA ScanShows ==
  ASSUME XeInv, NEW p \in XePid
  PROVE  /\ DOMAIN Scan(p) \subseteq XeFd
         /\ \A f \in DOMAIN Scan(p) :
              \/ Scan(p)[f] = Unread /\ f[1] = p /\ client[f] # 0
                 /\ \A g \in FdsOf(p) : client[g] = client[f] => f[2] <= g[2]
              \/ Scan(p)[f] = fds_data[f] /\ f \in DOMAIN fds_data /\ f[1] # p
  BY DEF Scan, FdsOf, XeInv, XeTypeOK

LEMMA PollProcessInv ==
  ASSUME XeInv, NEW p \in XePid, PollProcess(p)
  PROVE  XeInv'
<1> USE DEF XeInv
<1>1. /\ fds_data' \in {fds_data, Scan(p)} /\ unread' = DOMAIN fds_data' \cap FdsOf(p)
      /\ unpolled' = unpolled \ {p}
      /\ UNCHANGED <<client, last_id, doubled, cycles, total_cycles, previous_cycles, xpc,
                     accounted>>
  BY DEF PollProcess, drmVars
<1>2. /\ DOMAIN fds_data' \subseteq XeFd
      /\ \A f \in DOMAIN fds_data' :
              \/ fds_data'[f] = Unread /\ f[1] = p /\ client[f] # 0
                 /\ \A g \in FdsOf(p) : client[g] = client[f] => f[2] <= g[2]
              \/ fds_data'[f] = fds_data[f] /\ f \in DOMAIN fds_data
                 /\ (f[1] # p \/ fds_data' = fds_data)
  <2>1. CASE fds_data' = fds_data BY <2>1 DEF XeTypeOK
  <2>2. CASE fds_data' = Scan(p)
    <3> HIDE DEF XeInv
    <3> QED BY <2>2, ScanShows
  <2> QED BY <1>1, <2>1, <2>2
<1>3. Unread.id = 0 /\ Unread \in Contents
  BY XeAssumption DEF Unread, Contents, Reading
<1>4. \A f \in DOMAIN fds_data' : fds_data'[f] \in Contents BY <1>2, <1>3 DEF XeTypeOK
<1>5. XeTypeOK' BY <1>1, <1>2, <1>4 DEF XeTypeOK
<1>6. last_id \in Nat BY XeAssumption DEF XeTypeOK
<1>7. \A f \in DOMAIN fds_data' : fds_data'[f].id <= last_id BY <1>2, <1>3, <1>6
<1>8. ASSUME NEW c \in XeClient, NEW f \in XeFd, Knows(f, c)' PROVE Knows(f, c)
  BY <1>1, <1>2, <1>3, <1>8 DEF Knows, XeClient
<1>9. OneStream'
  <2> SUFFICES ASSUME NEW c \in XeClient, c \notin doubled, NEW f \in XeFd, NEW g \in XeFd,
                      Knows(f, c)', Knows(g, c)'
               PROVE  f[1] = g[1] /\ (f \in DOMAIN fds_data' /\ g \in DOMAIN fds_data' => f = g)
    BY <1>1 DEF OneStream
  <2>1. f[1] = g[1] BY <1>8 DEF OneStream
  <2>2. f \in DOMAIN fds_data /\ g \in DOMAIN fds_data => f = g BY <1>8 DEF OneStream
  <2>3. ASSUME f \in DOMAIN fds_data', g \in DOMAIN fds_data', fds_data'[f] = Unread, f[1] = p,
               fds_data' # fds_data
        PROVE  f = g
    <3>1. fds_data'[g] = Unread /\ g[1] = p BY <1>2, <2>1, <2>3
    <3>2. client[f] = c /\ client[g] = c BY <1>1, <1>3, <2>3, <3>1 DEF Knows, XeClient
    <3>3. f \in FdsOf(p) /\ g \in FdsOf(p) BY <2>3, <3>1 DEF FdsOf
    <3>4. CASE f \in DOMAIN fds_data /\ g \in DOMAIN fds_data BY <2>2, <3>4
    <3>5. CASE (\A h \in FdsOf(p) : client[h] = client[f] => f[2] <= h[2])
               /\ (\A h \in FdsOf(p) : client[h] = client[g] => g[2] <= h[2])
      <4>1. f[2] <= g[2] /\ g[2] <= f[2] BY <3>2, <3>3, <3>5
      <4> QED BY <2>1, <4>1, FdsArePairs
    <3> QED BY <1>2, <2>3, <3>1, <3>4, <3>5
  <2> QED BY <1>2, <2>1, <2>2, <2>3
<1>10. InOrder'
  <2>1. \A c \in XeClient : \A f \in DOMAIN fds_data' :
          fds_data'[f].id = c => f \in DOMAIN fds_data /\ fds_data'[f] = fds_data[f]
    BY <1>2, <1>3 DEF XeClient
  <2> QED BY <1>1, <2>1 DEF InOrder, Now
<1>11. Accounted' BY <1>1 DEF Accounted
<1> QED BY <1>1, <1>5, <1>7, <1>9, <1>10, <1>11

LEMMA ReadStreamInv ==
  ASSUME XeInv, NEW f \in XeFd, ReadStream(f)
  PROVE  XeInv'
<1> USE DEF XeInv
<1> DEFINE c == client[f]
<1>1. /\ f \in DOMAIN fds_data /\ unread' = unread \ {f}
      /\ UNCHANGED <<client, last_id, doubled, cycles, total_cycles, previous_cycles, xpc,
                     unpolled, accounted>>
  BY DEF ReadStream, FirstOf, drmVars, XeTypeOK
<1>2. CASE fds_data' = fds_data
  <2>1. XeTypeOK' BY <1>1, <1>2 DEF XeTypeOK
  <2>2. OneStream' /\ InOrder' /\ Accounted'
    BY <1>1, <1>2 DEF OneStream, InOrder, Accounted, Knows, Now
  <2> QED BY <1>1, <1>2, <2>1, <2>2
<1>3. CASE c # 0 /\ fds_data' = [fds_data EXCEPT ![f] = [id |-> c, read |-> Now(c)]]
  <2>1. c \in XeClient /\ c <= last_id BY <1>3, XeAssumption DEF XeTypeOK, XeClient
  <2>2. Now(c) \in Reading BY <2>1 DEF Now, Reading, XeTypeOK
  <2>3. /\ DOMAIN fds_data' = DOMAIN fds_data
        /\ fds_data'[f].id = c /\ fds_data'[f].read = Now(c)
        /\ fds_data'[f] \in Contents
        /\ \A g \in DOMAIN fds_data \ {f} : fds_data'[g] = fds_data[g]
    BY <1>1, <1>3, <2>1, <2>2 DEF Contents, XeClient
  <2>4. \A g \in DOMAIN fds_data' : fds_data'[g] \in Contents BY <2>3 DEF XeTypeOK
  <2>5. XeTypeOK'
    <3>1. unread' \subseteq DOMAIN fds_data' BY <1>1, <2>3 DEF XeTypeOK
    <3>2. DOMAIN fds_data' \subseteq XeFd BY <2>3 DEF XeTypeOK
    <3> QED BY <1>1, <2>4, <3>1, <3>2 DEF XeTypeOK
  <2>6. \A g \in DOMAIN fds_data' : fds_data'[g].id <= last_id BY <2>1, <2>3
  <2>7. ASSUME NEW d \in XeClient, NEW g \in XeFd, Knows(g, d)' PROVE Knows(g, d)
    BY <1>1, <2>3, <2>7 DEF Knows
  <2>8. OneStream' BY <1>1, <2>3, <2>7 DEF OneStream
  <2>9. Precedes(Now(c), Now(c)) BY <2>2, PrecedesIsOrder
  <2>10. InOrder'
    <3> SUFFICES ASSUME NEW d \in XeClient \ doubled
                 PROVE  /\ d \in DOMAIN previous_cycles => Precedes(previous_cycles[d], Now(d))
                        /\ \A g \in DOMAIN fds_data : fds_data'[g].id = d =>
                             /\ Precedes(fds_data'[g].read, Now(d))
                             /\ d \in DOMAIN previous_cycles =>
                                  Precedes(previous_cycles[d], fds_data'[g].read)
      BY <1>1, <2>3 DEF InOrder, Now
    <3>1. d \in DOMAIN previous_cycles => Precedes(previous_cycles[d], Now(d)) BY DEF InOrder
    <3>2. ASSUME NEW g \in DOMAIN fds_data, fds_data'[g].id = d
          PROVE  /\ Precedes(fds_data'[g].read, Now(d))
                 /\ d \in DOMAIN previous_cycles => Precedes(previous_cycles[d], fds_data'[g].read)
      <4>1. CASE g = f BY <2>3, <2>9, <3>1, <3>2, <4>1
      <4>2. CASE g # f BY <2>3, <3>2, <4>2 DEF InOrder
      <4> QED BY <4>1, <4>2
    <3> QED BY <3>1, <3>2
  <2>11. Accounted' BY <1>1 DEF Accounted
  <2> QED BY <1>1, <2>5, <2>6, <2>8, <2>10, <2>11
<1> QED BY <1>2, <1>3 DEF ReadStream, Now

LEMMA StartLoadsInv == XeInv /\ StartLoads => XeInv'
<1> SUFFICES ASSUME XeInv, StartLoads PROVE XeInv' OBVIOUS
<1>1. /\ xpc' \in {"poll", "loads"} /\ unread' = DOMAIN fds_data /\ unpolled' = XePid
      /\ UNCHANGED <<client, last_id, doubled, cycles, total_cycles, fds_data, previous_cycles,
                     accounted>>
  BY DEF StartLoads, drmVars
<1>2. XeTypeOK' BY <1>1 DEF XeTypeOK, XeInv
<1>3. OneStream' /\ InOrder' /\ Accounted'
  BY <1>1 DEF XeInv, OneStream, InOrder, Accounted, Knows, Now
<1> QED BY <1>1, <1>2, <1>3 DEF XeInv

LEMMA DeltaShows ==
  ASSUME XeInv, NEW f \in DOMAIN fds_data, fds_data[f].id # 0
  PROVE  /\ Delta(f)[1] \in Nat /\ Delta(f)[2] \in Nat
         /\ fds_data[f].id \notin doubled =>
              /\ Delta(f)[1] <= Delta(f)[2]
              /\ fds_data[f].id \in DOMAIN previous_cycles =>
                   Delta(f)[1] = fds_data[f].read[1] - previous_cycles[fds_data[f].id][1]
<1> DEFINE c == fds_data[f].id
           b == fds_data[f].read
<1> USE DEF XeInv
<1>1. c \in XeClient /\ b \in Reading BY ContentsOf, XeAssumption DEF XeClient
<1>2. CASE c \notin DOMAIN previous_cycles BY <1>2 DEF Delta
<1>3. CASE c \in DOMAIN previous_cycles
  <2> DEFINE a == previous_cycles[c]
             d == <<Less(b[1], a[1]), Less(b[2], a[2])>>
  <2>1. a \in Reading BY <1>3 DEF XeTypeOK
  <2>2. d[1] \in Nat /\ d[2] \in Nat
    BY <1>1, <2>1, LessType, XeAssumption, XeWordAssumption DEF Reading
  <2>3. Delta(f) = IF d[1] = 0 \/ d[2] = 0 THEN <<0, 0>> ELSE d
    BY <1>3 DEF Delta
  <2>4. ASSUME c \notin doubled
        PROVE  d[1] = b[1] - a[1] /\ d[2] = b[2] - a[2] /\ d[1] <= d[2]
    <3>1. Precedes(a, b) BY <1>1, <1>3, <2>4 DEF InOrder
    <3> QED BY <1>1, <2>1, <3>1 DEF Less, Precedes, Reading
  <2> HIDE DEF d
  <2> QED BY <1>1, <1>3, <2>1, <2>2, <2>3, <2>4
<1> QED BY <1>2, <1>3

LEMMA AddLoadInv ==
  ASSUME XeInv, NEW f \in XeFd, AddLoad(f)
  PROVE  XeInv'
<1> USE DEF XeInv
<1> DEFINE c == fds_data[f].id
           b == fds_data[f].read
<1>1. /\ f \in DOMAIN fds_data /\ unread' = unread \ {f} /\ xpc' \in {"poll", "loads"}
      /\ UNCHANGED <<client, last_id, doubled, cycles, total_cycles, fds_data, unpolled>>
  BY DEF AddLoad, FirstOf, drmVars, XeTypeOK
<1>2. OneStream' BY <1>1 DEF OneStream, Knows
<1>3. CASE c = 0
  <2>1. UNCHANGED <<previous_cycles, accounted>> BY <1>3 DEF AddLoad
  <2>2. XeTypeOK' BY <1>1, <2>1 DEF XeTypeOK
  <2>3. InOrder' /\ Accounted' BY <1>1, <2>1 DEF InOrder, Accounted, Now
  <2> QED BY <1>1, <1>2, <2>2, <2>3
<1>4. CASE c # 0
  <2>1. /\ previous_cycles' = [d \in DOMAIN previous_cycles \cup {c} |->
                                 IF d = c THEN b ELSE previous_cycles[d]]
        /\ accounted' = [accounted EXCEPT ![c] = Account(f)]
    BY <1>4 DEF AddLoad
  <2>2. c \in XeClient /\ b \in Reading BY <1>1, <1>4, ContentsOf, XeAssumption DEF XeClient
  <2>3. /\ Delta(f)[1] \in Nat
        /\ c \notin doubled /\ c \in DOMAIN previous_cycles =>
             Delta(f)[1] = b[1] - previous_cycles[c][1]
    BY <1>1, <1>4, DeltaShows
  <2>4. b[1] \in Nat /\ accounted[c] \in Nat /\ b[1] \in 0 .. MaxCycles
    BY <2>2, XeAssumption DEF Reading, XeTypeOK
  <2>5. Account(f) \in Nat BY <2>3, <2>4 DEF Account
  <2>6. c \notin doubled => Account(f) = b[1]
    <3>1. CASE c \notin DOMAIN previous_cycles BY <3>1 DEF Account
    <3>2. CASE c \in DOMAIN previous_cycles
      <4>1. previous_cycles[c][1] \in Nat BY <3>2, XeAssumption DEF XeTypeOK, Reading
      <4>2. c \notin doubled => accounted[c] = previous_cycles[c][1] BY <2>2, <3>2 DEF Accounted
      <4> QED BY <2>3, <2>4, <3>2, <4>1, <4>2 DEF Account
    <3> QED BY <3>1, <3>2
  <2>7. XeTypeOK'
    <3>1. DOMAIN previous_cycles' \subseteq XeClient BY <2>1, <2>2 DEF XeTypeOK
    <3>2. \A d \in DOMAIN previous_cycles' : previous_cycles'[d] \in Reading
      BY <2>1, <2>2 DEF XeTypeOK
    <3>3. accounted' \in [XeClient -> Nat] BY <2>1, <2>2, <2>5 DEF XeTypeOK
    <3> QED BY <1>1, <3>1, <3>2, <3>3 DEF XeTypeOK
  <2>8. InOrder'
    <3> SUFFICES ASSUME NEW d \in XeClient \ doubled
                 PROVE  /\ d \in DOMAIN previous_cycles' => Precedes(previous_cycles'[d], Now(d))
                        /\ \A g \in DOMAIN fds_data : fds_data[g].id = d =>
                             /\ Precedes(fds_data[g].read, Now(d))
                             /\ d \in DOMAIN previous_cycles' =>
                                  Precedes(previous_cycles'[d], fds_data[g].read)
      BY <1>1 DEF InOrder, Now
    <3>1. CASE d = c
      <4>1. previous_cycles'[d] = b BY <2>1, <3>1
      <4>2. \A g \in DOMAIN fds_data : fds_data[g].id = d => g = f
        BY <1>1, <2>2, <3>1, ContentsOf DEF OneStream, Knows
      <4>3. Precedes(b, b) BY <2>2, PrecedesIsOrder
      <4> QED BY <1>1, <3>1, <4>1, <4>2, <4>3 DEF InOrder
    <3>2. CASE d # c
      <4>1. d \in DOMAIN previous_cycles' =>
              d \in DOMAIN previous_cycles /\ previous_cycles'[d] = previous_cycles[d]
        BY <2>1, <3>2
      <4> QED BY <4>1 DEF InOrder
    <3> QED BY <3>1, <3>2
  <2>9. Accounted'
    <3> SUFFICES ASSUME NEW d \in XeClient \ doubled
                 PROVE  accounted'[d] = IF d \in DOMAIN previous_cycles'
                                        THEN previous_cycles'[d][1] ELSE 0
      BY <1>1 DEF Accounted
    <3>1. CASE d = c
      BY <2>1, <2>2, <2>6, <3>1 DEF XeTypeOK
    <3>2. CASE d # c
      BY <2>1, <2>2, <3>2 DEF Accounted, XeTypeOK
    <3> QED BY <3>1, <3>2
  <2> QED BY <1>1, <1>2, <2>7, <2>8, <2>9
<1> QED BY <1>3, <1>4

LEMMA XeNextInv == XeInv /\ [XeNext]_xeVars => XeInv'
<1> SUFFICES ASSUME XeInv, [XeNext]_xeVars PROVE XeInv' OBVIOUS
<1>1. ASSUME NEW f \in XeFd,
             \/ Open(f) \/ CloseFile(f) \/ \E g \in XeFd : Duplicate(f, g)
             \/ ReadStream(f) \/ AddLoad(f)
      PROVE  XeInv'
  BY <1>1, OpenInv, CloseFileInv, DuplicateInv, ReadStreamInv, AddLoadInv
<1>2. ASSUME NEW c \in 0 .. MaxClients, Cycle(c) PROVE XeInv' BY <1>2, CycleInv
<1>3. CASE StartLoads \/ \E p \in XePid : PollProcess(p)
  BY <1>3, StartLoadsInv, PollProcessInv
<1>4. CASE UNCHANGED xeVars
  BY <1>4 DEF xeVars, XeInv, XeTypeOK, OneStream, InOrder, Accounted, Knows, Now
<1> QED BY <1>1, <1>2, <1>3, <1>4 DEF XeNext

LEMMA XeInvShows == XeInv => CyclesAddUp
<1> SUFFICES ASSUME XeInv, NEW c \in XeClient \ doubled
             PROVE  /\ c \in DOMAIN previous_cycles =>
                         previous_cycles[c][1] = accounted[c] /\ accounted[c] <= cycles[c]
                    /\ \A f \in unread : fds_data[f].id = c => Delta(f)[1] <= Delta(f)[2]
  BY DEF CyclesAddUp
<1>1. c \in DOMAIN previous_cycles =>
        previous_cycles[c][1] = accounted[c] /\ accounted[c] <= cycles[c]
  BY DEF XeInv, InOrder, Accounted, Precedes, Now
<1>2. \A f \in unread : fds_data[f].id = c => Delta(f)[1] <= Delta(f)[2]
  BY DeltaShows DEF XeInv, XeTypeOK, XeClient
<1> QED BY <1>1, <1>2

LEMMA XeSpecInv == XeSpec => []XeInv
  BY XeInitInv, XeNextInv, PTL DEF XeSpec

-----------------------------------------------------------------------------
(* Every variable of XeCycles has its type, whatever the processes do with *)
(* their descriptors under the scans and the reads.                        *)
THEOREM XeTypeCorrect == XeSpec => []XeTypeOK
  BY XeSpecInv, PTL DEF XeInv

(* Xe::get_process_load() shows each cycle of a client once, and no load   *)
(* above 100%, through duplicated, closed and reused descriptors, until a  *)
(* second process or a second stream comes to show the client.             *)
THEOREM CyclesShownOnce == XeSpec => []CyclesAddUp
  BY XeInvShows, XeSpecInv, PTL

-----------------------------------------------------------------------------
(* AMDGPUMetrics.                                                          *)

(* A worker is in poll(). *)
Busy == {"header", "v1", "v2", "throttle_v1", "throttle_v2", "neither"}

(* The figure s is of a table of d no newer than the n-th. *)
Of(s, d, n) == s = Nothing \/ (s[1] = d /\ s[2] <= n)

(* Between two polls: nothing is newer than the load. *)
SettledFigures(d) ==
  LET f == metrics[d] IN
  /\ \A s \in {f.load, f.temp, f.cpu_power} : Of(s, d, f.load[2])
  /\ f.load[2] <= table[d].n
  /\ version[d] \notin NoThrottleStatus => f.throttle \in {Nothing, f.load}

(* In a poll of d that none has overlapped: the parts of the buffer that   *)
(* d's layout has are one table of d, the figures are no newer, and the    *)
(* parser that runs is that of d's version.                                *)
OwnBuffer(d) ==
  LET f == metrics[d] IN
  \E t \in Table :
    /\ t.dev = d /\ t.version = version[d] /\ t.n <= table[d].n
    /\ \A p \in Extent(version[d]) : buf[p] = t
    /\ \A s \in {f.load, f.temp, f.cpu_power} : Of(s, d, t.n)
    /\ apc[d] \in {"throttle_v1", "throttle_v2"} => f.load = From(t)
    /\ apc[d] \in {"v1", "throttle_v1"} => version[d][1] = 1
    /\ apc[d] \in {"v2", "throttle_v2"} => version[d][1] = 2
    /\ apc[d] # "neither"

OwnParts(d) ==
  /\ apc[d] \in Busy \cup {"idle"} => Supported(version[d])
  /\ table[d].dev = d /\ table[d].version = version[d]
  /\ own[d] =>
       /\ apc[d] \notin Busy => SettledFigures(d)
       /\ apc[d] \in Busy => OwnBuffer(d)

AMDInv == AMDTypeOK /\ \A d \in Dev : OwnParts(d)

-----------------------------------------------------------------------------
LEMMA FromType == \A t \in Table : From(t) \in Source
  BY DEF Table, From, Source

LEMMA NothingType == Nothing = <<0, 0>> /\ Nothing \in Source /\ Zeros \in Table
  BY DEF Nothing, From, Zeros, Source, Table

LEMMA ExtentParts ==
  ASSUME NEW v \in Nat \X Nat
  PROVE  /\ 1 \in Extent(v) /\ Extent(v) \subseteq Part
         /\ v[1] = 1 /\ v[2] = 3 => 2 \in Extent(v)
         /\ v[1] = 2 /\ v[2] >= 2 => 3 \in Extent(v)
         /\ v[1] = 2 /\ v[2] >= 3 => 4 \in Extent(v)
  BY DEF Extent, Part

LEMMA OfLater ==
  ASSUME NEW s \in Source, NEW d, NEW a \in Nat, NEW b \in Nat, Of(s, d, a), a <= b
  PROVE  Of(s, d, b)
  BY DEF Of, Source

LEMMA AMDInitInv == AMDInit => AMDInv
<1> SUFFICES ASSUME AMDInit PROVE AMDInv OBVIOUS
<1> USE DEF AMDInit
<1>1. version \in [Dev -> Nat \X Nat] BY VersionsAssumption
<1>2. table \in [Dev -> Table] BY <1>1, DevAssumption DEF Table
<1>3. AMDTypeOK BY <1>1, <1>2, NothingType DEF AMDTypeOK
<1>4. ASSUME NEW d \in Dev PROVE OwnParts(d)
  BY NothingType DEF OwnParts, Busy, SettledFigures, Of
<1> QED BY <1>3, <1>4 DEF AMDInv

(* What a step of d must leave of another GPU, e. *)
LEMMA OthersStay ==
  ASSUME NEW e \in Dev, OwnParts(e), UNCHANGED <<version, table[e], apc[e], metrics[e]>>,
         own'[e] => own[e] /\ (apc[e] \in Busy => UNCHANGED buf)
  PROVE  OwnParts(e)'
<1>1. SettledFigures(e)' = SettledFigures(e) BY DEF SettledFigures
<1>2. UNCHANGED buf => OwnBuffer(e)' = OwnBuffer(e) BY DEF OwnBuffer
<1> QED BY <1>1, <1>2 DEF OwnParts

LEMMA AMDSetupInv ==
  ASSUME AMDInv, NEW d \in Dev, AMDSetup(d)
  PROVE  AMDInv'
<1> USE DEF AMDInv
<1>1. /\ apc[d] = "setup"
      /\ apc' = [apc EXCEPT ![d] = IF available'[d] THEN "idle" ELSE "off"]
      /\ UNCHANGED <<version, table, failed, buf, metrics, summed, own>>
  BY DEF AMDSetup
<1>2. available' \in [Dev -> BOOLEAN] /\ (available'[d] => Supported(version[d]))
  <2>1. PICK opens \in BOOLEAN :
          available' = [available EXCEPT ![d] = opens /\ Supported(version[d])]
    BY DEF AMDSetup
  <2>2. available'[d] = (opens /\ Supported(version[d])) BY <2>1 DEF AMDTypeOK
  <2> QED BY <2>1, <2>2 DEF AMDTypeOK
<1>3. AMDTypeOK' BY <1>1, <1>2 DEF AMDTypeOK
<1>4. OwnParts(d)'
  <2>1. apc'[d] \in {"idle", "off"} /\ (apc'[d] = "idle" => Supported(version[d]))
    BY <1>1, <1>2 DEF AMDTypeOK
  <2>2. SettledFigures(d)' = SettledFigures(d) BY <1>1 DEF SettledFigures
  <2> QED BY <1>1, <2>1, <2>2 DEF OwnParts, Busy
<1>5. ASSUME NEW e \in Dev \ {d} PROVE OwnParts(e)'
  BY <1>1, OthersStay DEF AMDTypeOK
<1> QED BY <1>3, <1>4, <1>5

LEMMA NewTableInv ==
  ASSUME AMDInv, NEW d \in Dev, NewTable(d)
  PROVE  AMDInv'
<1> USE DEF AMDInv
<1>1. PICK valid \in Valids : table' = [table EXCEPT ![d].n = @ + 1, ![d].valid = valid]
  BY DEF NewTable
<1>2. UNCHANGED <<version, apc, available, failed, buf, metrics, summed, own>>
  BY DEF NewTable
<1>3. /\ table'[d] = [table[d] EXCEPT !.n = @ + 1, !.valid = valid] /\ table[d] \in Table
      /\ \A e \in Dev \ {d} : table'[e] = table[e]
  BY <1>1 DEF AMDTypeOK
<1>4. /\ table'[d] \in Table /\ table'[d].n = table[d].n + 1 /\ table[d].n \in Nat
      /\ table'[d].dev = table[d].dev /\ table'[d].version = table[d].version
  <2>1. valid \in SUBSET {"temp", "avg_temp", "cpu", "core"} BY ValidsAssumption
  <2>2. table[d] \in [dev : Nat, version : Nat \X Nat, n : Nat,
                      valid : SUBSET {"temp", "avg_temp", "cpu", "core"}]
    BY <1>3 DEF Table
  <2>3. /\ table'[d].n = table[d].n + 1 /\ table[d].n \in Nat
        /\ table'[d].dev = table[d].dev /\ table'[d].version = table[d].version
        /\ table'[d].valid = valid
    BY <1>3, <2>2
  <2>4. table'[d] = [dev |-> table[d].dev, version |-> table[d].version,
                     n |-> table[d].n + 1, valid |-> valid]
    BY <1>3, <2>2
  <2> QED BY <2>1, <2>2, <2>3, <2>4 DEF Table
<1>5. table' \in [Dev -> Table] BY <1>1, <1>4 DEF AMDTypeOK
<1>6. AMDTypeOK' BY <1>2, <1>5 DEF AMDTypeOK
<1>7. OwnParts(d)'
  <2>1. SettledFigures(d) => SettledFigures(d)'
    <3>1. metrics[d].load[2] \in Nat BY DEF AMDTypeOK, Source
    <3> QED BY <1>2, <1>4, <3>1 DEF SettledFigures
  <2>2. OwnBuffer(d) => OwnBuffer(d)'
    <3> SUFFICES ASSUME OwnBuffer(d) PROVE OwnBuffer(d)' OBVIOUS
    <3>1. \A t \in Table : t.n <= table[d].n => t.n <= table'[d].n BY <1>4 DEF Table
    <3> QED BY <1>2, <3>1 DEF OwnBuffer
  <2> QED BY <1>2, <1>4, <2>1, <2>2 DEF OwnParts
<1>8. ASSUME NEW e \in Dev \ {d} PROVE OwnParts(e)'
  BY <1>2, <1>3, OthersStay
<1> QED BY <1>6, <1>7, <1>8

LEMMA ReadTableInv ==
  ASSUME AMDInv, NEW d \in Dev, ReadTable(d)
  PROVE  AMDInv'
<1> USE DEF AMDInv
<1> DEFINE D == {e \in Dev \ {d} : apc[e] \notin {"setup", "idle", "off"}}
<1>1. /\ apc[d] = "idle"
      /\ buf' = [p \in Part |-> IF p \in Extent(version[d]) THEN table[d] ELSE buf[p]]
      /\ failed' = [failed EXCEPT ![d] = version[d] # <<2, 4>>]
      /\ apc' = [apc EXCEPT ![d] = "header"]
      /\ own' = [e \in Dev |-> own[e] /\ e \notin D /\ (e = d => D = {})]
      /\ UNCHANGED <<version, table, available, metrics, summed>>
  BY DEF ReadTable, Overlap
<1>2. table[d] \in Table /\ version[d] \in Nat \X Nat /\ apc'[d] = "header"
  BY <1>1 DEF AMDTypeOK
<1>3. AMDTypeOK'
  <2>1. buf' \in [Part -> Table] BY <1>1, <1>2 DEF AMDTypeOK
  <2>2. failed' \in [Dev -> BOOLEAN] BY <1>1 DEF AMDTypeOK
  <2>3. own' \in [Dev -> BOOLEAN] BY <1>1
  <2> QED BY <1>1, <2>1, <2>2, <2>3 DEF AMDTypeOK
<1>4. OwnParts(d)'
  <2>1. own'[d] => own[d] BY <1>1
  <2>2. ASSUME own[d] PROVE OwnBuffer(d)'
    <3>1. SettledFigures(d) BY <1>1, <2>2 DEF OwnParts, Busy
    <3>2. \A p \in Extent(version[d]) : buf'[p] = table[d]
      BY <1>1, <1>2, ExtentParts
    <3>3. /\ metrics[d].load \in Source /\ metrics[d].temp \in Source
          /\ metrics[d].cpu_power \in Source /\ metrics[d].load[2] \in Nat /\ table[d].n \in Nat
      BY <1>2 DEF AMDTypeOK, Table, Source
    <3>4. \A s \in {metrics[d].load, metrics[d].temp, metrics[d].cpu_power} :
            Of(s, d, table[d].n)
      BY <3>1, <3>3, OfLater DEF SettledFigures
    <3>5. table[d].dev = d /\ table[d].version = version[d] BY DEF OwnParts
    <3> QED BY <1>1, <1>2, <3>2, <3>3, <3>4, <3>5 DEF OwnBuffer
  <2> QED BY <1>1, <1>2, <2>1, <2>2 DEF OwnParts, Busy
<1>5. ASSUME NEW e \in Dev \ {d} PROVE OwnParts(e)'
  <2>1. own'[e] => own[e] /\ apc[e] \notin Busy BY <1>1 DEF Busy
  <2> QED BY <1>1, <2>1, OthersStay DEF AMDTypeOK
<1> QED BY <1>3, <1>4, <1>5

LEMMA ReadNothingInv ==
  ASSUME AMDInv, NEW d \in Dev, ReadNothing(d)
  PROVE  AMDInv'
<1>1. failed' \in [Dev -> BOOLEAN] BY DEF ReadNothing, AMDInv, AMDTypeOK
<1>2. UNCHANGED <<version, table, apc, available, buf, metrics, summed, own>>
  BY DEF ReadNothing
<1>3. ASSUME NEW e \in Dev PROVE OwnParts(e)' BY <1>2, OthersStay DEF AMDInv
<1> QED BY <1>1, <1>2, <1>3 DEF AMDInv, AMDTypeOK

-----------------------------------------------------------------------------
(* The parsers read the buffer and change the figures of d.                *)

LEMMA HeaderInv ==
  ASSUME AMDInv, NEW d \in Dev, Header(d)
  PROVE  AMDInv'
<1> USE DEF AMDInv
<1> DEFINE to == CASE buf[1].version[1] = 1 -> "v1"
                   [] buf[1].version[1] = 2 -> "v2"
                   [] OTHER -> "neither"
<1>1. /\ apc[d] = "header" /\ apc' = [apc EXCEPT ![d] = to]
      /\ UNCHANGED <<version, table, available, failed, buf, metrics, summed, own>>
  BY DEF Header
<1>2. to \in {"v1", "v2", "neither"} OBVIOUS
<1>3. AMDTypeOK' /\ apc'[d] = to BY <1>1, <1>2 DEF AMDTypeOK
<1>4. OwnParts(d)'
  <2>1. Supported(version[d]) /\ version[d] \in Nat \X Nat BY <1>1 DEF OwnParts, Busy, AMDTypeOK
  <2>2. ASSUME own[d] PROVE OwnBuffer(d)'
    <3>1. PICK t \in Table :
            /\ t.dev = d /\ t.version = version[d] /\ t.n <= table[d].n
            /\ \A p \in Extent(version[d]) : buf[p] = t
            /\ \A s \in {metrics[d].load, metrics[d].temp, metrics[d].cpu_power} : Of(s, d, t.n)
      BY <1>1, <2>2 DEF OwnParts, OwnBuffer, Busy
    <3>2. buf[1].version = version[d] BY <2>1, <3>1, ExtentParts
    <3>3. \/ to = "v1" /\ version[d][1] = 1
          \/ to = "v2" /\ version[d][1] = 2
      BY <2>1, <3>2 DEF Supported
    <3> HIDE DEF to
    <3> QED BY <1>1, <1>3, <3>1, <3>3 DEF OwnBuffer
  <2> QED BY <1>1, <1>2, <1>3, <2>1, <2>2 DEF OwnParts, Busy
<1>5. ASSUME NEW e \in Dev \ {d} PROVE OwnParts(e)'
  BY <1>1, OthersStay DEF AMDTypeOK
<1> QED BY <1>3, <1>4, <1>5

LEMMA ParseV1Inv ==
  ASSUME AMDInv, NEW d \in Dev, ParseV1(d)
  PROVE  AMDInv'
<1> USE DEF AMDInv
<1>1. /\ apc[d] = "v1" /\ apc' = [apc EXCEPT ![d] = "throttle_v1"]
      /\ metrics' = [metrics EXCEPT ![d].load = From(buf[1]), ![d].temp = From(buf[1])]
      /\ UNCHANGED <<version, table, available, failed, buf, summed, own>>
  BY DEF ParseV1
<1>2. From(buf[1]) \in Source BY FromType DEF AMDTypeOK, Part
<1>3. AMDTypeOK' /\ apc'[d] = "throttle_v1" BY <1>1, <1>2 DEF AMDTypeOK
<1>4. /\ metrics'[d].load = From(buf[1]) /\ metrics'[d].temp = From(buf[1])
      /\ metrics'[d].cpu_power = metrics[d].cpu_power
  BY <1>1 DEF AMDTypeOK
<1>5. OwnParts(d)'
  <2>1. version[d] \in Nat \X Nat BY DEF AMDTypeOK
  <2>2. ASSUME own[d] PROVE OwnBuffer(d)'
    <3>1. PICK t \in Table :
            /\ t.dev = d /\ t.version = version[d] /\ t.n <= table[d].n
            /\ \A p \in Extent(version[d]) : buf[p] = t
            /\ Of(metrics[d].cpu_power, d, t.n) /\ version[d][1] = 1
      BY <1>1, <2>2 DEF OwnParts, OwnBuffer, Busy
    <3>2. buf[1] = t BY <2>1, <3>1, ExtentParts
    <3>3. Of(From(t), d, t.n) BY <3>1 DEF Of, From, Table
    <3> QED BY <1>1, <1>3, <1>4, <3>1, <3>2, <3>3 DEF OwnBuffer
  <2> QED BY <1>1, <1>3, <2>2 DEF OwnParts, Busy
<1>6. ASSUME NEW e \in Dev \ {d} PROVE OwnParts(e)'
  BY <1>1, OthersStay DEF AMDTypeOK
<1> QED BY <1>3, <1>5, <1>6

LEMMA ParseV2Inv ==
  ASSUME AMDInv, NEW d \in Dev, ParseV2(d)
  PROVE  AMDInv'
<1> USE DEF AMDInv
<1> DEFINE t1 == buf[1]
           power == {"cpu", "core"} \cap t1.valid
           temp == TempOf(t1, buf[4], metrics[d].temp)
           cpu_power == IF power = {} THEN metrics[d].cpu_power ELSE From(t1)
           sum == IF "cpu" \in power THEN 1
                  ELSE IF power = {} THEN summed[d]
                  ELSE IF summed[d] = 0 THEN 1 ELSE 2
<1>1. /\ apc[d] = "v2" /\ apc' = [apc EXCEPT ![d] = "throttle_v2"]
      /\ metrics' = [metrics EXCEPT ![d].load = From(t1), ![d].temp = temp,
                                    ![d].cpu_power = cpu_power]
      /\ summed' = [summed EXCEPT ![d] = sum]
      /\ UNCHANGED <<version, table, available, failed, buf, own>>
  BY DEF ParseV2, AMDTypeOK
<1>2. /\ From(t1) \in Source /\ temp \in Source /\ cpu_power \in Source /\ sum \in 0 .. 2
  BY FromType DEF AMDTypeOK, Part, TempOf
<1>3. AMDTypeOK' /\ apc'[d] = "throttle_v2"
  <2> HIDE DEF t1, temp, cpu_power, sum
  <2>1. apc' \in [Dev -> Busy \cup {"setup", "off", "idle"}] /\ apc'[d] = "throttle_v2"
    BY <1>1 DEF AMDTypeOK, Busy
  <2>2. metrics' \in [Dev -> [load : Source, temp : Source, cpu_power : Source,
                              throttle : Source]]
    <3>1. metrics' = [metrics EXCEPT ![d] =
            [@ EXCEPT !.load = From(t1), !.temp = temp, !.cpu_power = cpu_power]]
      BY <1>1
    <3>2. metrics[d] \in [load : Source, temp : Source, cpu_power : Source, throttle : Source]
      BY DEF AMDTypeOK
    <3>3. [metrics[d] EXCEPT !.load = From(t1), !.temp = temp, !.cpu_power = cpu_power]
            \in [load : Source, temp : Source, cpu_power : Source, throttle : Source]
      BY <1>2, <3>2
    <3> QED BY <3>1, <3>3 DEF AMDTypeOK
  <2>3. summed' \in [Dev -> 0 .. 2] BY <1>1, <1>2 DEF AMDTypeOK
  <2> QED BY <1>1, <2>1, <2>2, <2>3 DEF AMDTypeOK, Busy
<1>4. metrics'[d].load = From(t1) /\ metrics'[d].temp = temp /\ metrics'[d].cpu_power = cpu_power
  BY <1>1 DEF AMDTypeOK
<1>5. OwnParts(d)'
  <2>1. version[d] \in Nat \X Nat BY DEF AMDTypeOK
  <2>2. ASSUME own[d] PROVE OwnBuffer(d)'
    <3>1. PICK t \in Table :
            /\ t.dev = d /\ t.version = version[d] /\ t.n <= table[d].n
            /\ \A p \in Extent(version[d]) : buf[p] = t
            /\ Of(metrics[d].temp, d, t.n) /\ Of(metrics[d].cpu_power, d, t.n)
            /\ version[d][1] = 2
      BY <1>1, <2>2 DEF OwnParts, OwnBuffer, Busy
    <3>2. t1 = t BY <2>1, <3>1, ExtentParts
    <3>3. Of(From(t), d, t.n) BY <3>1 DEF Of, From, Table
    <3>4. Of(temp, d, t.n)
      <4>1. t.version[2] >= 3 => buf[4] = t BY <2>1, <3>1, ExtentParts
      <4> QED BY <3>1, <3>2, <3>3, <4>1 DEF TempOf
    <3>5. Of(cpu_power, d, t.n) BY <3>1, <3>2, <3>3
    <3> HIDE DEF temp, cpu_power, sum
    <3> QED BY <1>1, <1>3, <1>4, <3>1, <3>2, <3>3, <3>4, <3>5 DEF OwnBuffer
  <2> QED BY <1>1, <1>3, <2>2 DEF OwnParts, Busy
<1>6. ASSUME NEW e \in Dev \ {d} PROVE OwnParts(e)'
  BY <1>1, OthersStay DEF AMDTypeOK
<1> QED BY <1>3, <1>5, <1>6

LEMMA AMDThrottleInv ==
  ASSUME AMDInv, NEW d \in Dev, Throttle(d)
  PROVE  AMDInv'
<1> USE DEF AMDInv
<1> DEFINE bits == CASE apc[d] = "throttle_v1" -> From(buf[2])
                     [] apc[d] = "throttle_v2" /\ buf[1].version[2] >= 2 -> From(buf[3])
                     [] OTHER -> Nothing
<1>1. /\ apc[d] \in {"throttle_v1", "throttle_v2", "neither"}
      /\ metrics' = [metrics EXCEPT ![d].throttle = bits]
      /\ apc' = [apc EXCEPT ![d] = "idle"]
      /\ UNCHANGED <<version, table, available, failed, buf, summed, own>>
  BY DEF Throttle
<1>2. From(buf[2]) \in Source /\ From(buf[3]) \in Source
  BY FromType DEF AMDTypeOK, Part
<1>3. bits \in Source BY <1>2, NothingType
<1> DEFINE Figures == [load : Source, temp : Source, cpu_power : Source, throttle : Source]
<1>4. AMDTypeOK' /\ apc'[d] = "idle"
  <2>1. metrics \in [Dev -> Figures] BY DEF AMDTypeOK
  <2>2. metrics' \in [Dev -> Figures]
    <3> HIDE DEF bits
    <3> QED BY <1>1, <1>3, <2>1
  <2>3. /\ apc' \in [Dev -> {"setup", "off", "idle", "header", "v1", "v2", "throttle_v1",
                             "throttle_v2", "neither"}]
        /\ apc'[d] = "idle"
    BY <1>1 DEF AMDTypeOK
  <2> QED BY <1>1, <2>2, <2>3 DEF AMDTypeOK
<1>5. /\ metrics'[d].load = metrics[d].load /\ metrics'[d].temp = metrics[d].temp
      /\ metrics'[d].cpu_power = metrics[d].cpu_power /\ metrics'[d].throttle = bits
  BY <1>1 DEF AMDTypeOK
<1>6. OwnParts(d)'
  <2>1. version[d] \in Nat \X Nat /\ Supported(version[d])
    BY <1>1 DEF AMDTypeOK, OwnParts, Busy
  <2>2. ASSUME own[d] PROVE SettledFigures(d)'
    <3>1. PICK t \in Table :
            /\ t.dev = d /\ t.version = version[d] /\ t.n <= table[d].n
            /\ \A p \in Extent(version[d]) : buf[p] = t
            /\ \A s \in {metrics[d].load, metrics[d].temp, metrics[d].cpu_power} : Of(s, d, t.n)
            /\ metrics[d].load = From(t)
            /\ apc[d] = "throttle_v1" => version[d][1] = 1
            /\ apc[d] = "throttle_v2" => version[d][1] = 2
            /\ apc[d] # "neither"
      BY <1>1, <2>2 DEF OwnParts, OwnBuffer, Busy
    <3>2. metrics[d].load[2] = t.n BY <3>1 DEF From
    <3>3. buf[1] = t BY <2>1, <3>1, ExtentParts
    <3>4. ASSUME version[d] \notin NoThrottleStatus PROVE bits \in {Nothing, From(t)}
      <4>1. CASE apc[d] = "throttle_v1"
        <5>1. version[d][1] = 1 /\ version[d][2] = 3
          BY <2>1, <3>1, <3>4, <4>1 DEF Supported, NoThrottleStatus
        <5> QED BY <2>1, <3>1, <4>1, <5>1, ExtentParts
      <4>2. CASE apc[d] = "throttle_v2"
        BY <2>1, <3>1, <3>3, <4>2, ExtentParts
      <4> QED BY <1>1, <3>1, <4>1, <4>2
    <3> HIDE DEF bits
    <3> QED BY <1>1, <1>5, <3>1, <3>2, <3>4 DEF SettledFigures
  <2> QED BY <1>1, <1>4, <2>1, <2>2 DEF OwnParts, Busy
<1>7. ASSUME NEW e \in Dev \ {d} PROVE OwnParts(e)'
  BY <1>1, OthersStay DEF AMDTypeOK
<1> QED BY <1>4, <1>6, <1>7

LEMMA AMDNextInv == AMDInv /\ [AMDNext]_amdVars => AMDInv'
<1> SUFFICES ASSUME AMDInv, [AMDNext]_amdVars PROVE AMDInv' OBVIOUS
<1>1. ASSUME NEW d \in Dev,
             AMDSetup(d) \/ NewTable(d) \/ ReadTable(d) \/ ReadNothing(d) \/ Parse(d)
      PROVE  AMDInv'
  BY <1>1, AMDSetupInv, NewTableInv, ReadTableInv, ReadNothingInv, HeaderInv, ParseV1Inv,
     ParseV2Inv, AMDThrottleInv DEF Parse
<1>2. CASE UNCHANGED amdVars
  <2>1. UNCHANGED <<version, table, apc, available, failed, buf, metrics, summed, own>>
    BY <1>2 DEF amdVars
  <2>2. ASSUME NEW e \in Dev PROVE OwnParts(e)' BY <2>1, OthersStay DEF AMDInv
  <2> QED BY <2>1, <2>2 DEF AMDInv, AMDTypeOK
<1> QED BY <1>1, <1>2 DEF AMDNext

LEMMA AMDInvShows == AMDInv => OwnFigures
  BY DEF AMDInv, OwnParts, SettledFigures, OwnFigures, Of, Busy

LEMMA AMDSpecInv == AMDSpec => []AMDInv
  BY AMDInitInv, AMDNextInv, PTL DEF AMDSpec

-----------------------------------------------------------------------------
(* Every variable of AMDGPUMetrics has its type. *)
THEOREM AMDTypeCorrect == AMDSpec => []AMDTypeOK
  BY AMDSpecInv, PTL DEF AMDInv

(* GPUMetrics::poll() shows a GPU only its own tables, the throttle bits   *)
(* of the table that the load is of, as long as its polls overlap no other *)
(* GPU's: the shared static buffer carries nothing over from one GPU to    *)
(* the next, of whatever versions they are.                                *)
THEOREM FiguresAreOwn == AMDSpec => []OwnFigures
  BY AMDInvShows, AMDSpecInv, PTL

===============================================================================
