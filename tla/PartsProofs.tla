------------------------------ MODULE PartsProofs ------------------------------
(***************************************************************************)
(* Theorems about the start of daemons, about process memory on an Nvidia  *)
(* GPU, and about the parts together: what is proved of each part holds of *)
(* all, interleaved, and what the runs check are behaviours of all.        *)
(***************************************************************************)
EXTENDS Parts, IOStatsProofs, CPUProofs, GPUProofs

-----------------------------------------------------------------------------
(* Startup.                                                                *)

Down == {"down", "failed"}

(* A daemon that was launched without company has had none since, and the  *)
(* path is as it left it.                                                  *)
LoneInv ==
  lone =>
    /\ \A d, e \in Daemon : d # e => spc[d] \in Down \/ spc[e] \in Down
    /\ \A d \in Daemon : /\ spc[d] = "remove" => file # Free
                         /\ spc[d] = "bind" => file = Free
                         /\ spc[d] \in {"listen", "chmod", "run"} => file = d

StartupInv == StartupTypeOK /\ LoneInv

LEMMA NamesOfNobody == "stale" \notin Daemon /\ "wait" \notin Daemon /\ Free \notin Daemon
  BY DaemonAssumption

LEMMA StartupInitInv == StartupInit => StartupInv
<1> SUFFICES ASSUME StartupInit PROVE StartupInv
  OBVIOUS
<1>1. StartupTypeOK
  BY NamesOfNobody DEF StartupInit, StartupTypeOK
<1> QED
  BY <1>1 DEF StartupInit, StartupInv, LoneInv

LEMMA LaunchInv ==
  ASSUME StartupInv, NEW d \in Daemon, Launch(d)
  PROVE  StartupInv'
<1>1. /\ spc[d] \in Down /\ UNCHANGED <<usable, root, file, port, api>>
      /\ \A e \in Daemon : spc'[e] = IF e = d THEN "look" ELSE spc[e]
      /\ lone' = \A e \in Daemon \ {d} : spc[e] \in Down
  BY DEF Launch, Down, StartupInv, StartupTypeOK
<1>2. StartupTypeOK'
  BY <1>1 DEF Launch, Down, StartupInv, StartupTypeOK
<1>3. LoneInv'
  BY <1>1 DEF LoneInv, Down
<1> QED
  BY <1>2, <1>3 DEF StartupInv

LEMMA SetUpInv ==
  ASSUME StartupInv, NEW d \in Daemon, SetUp(d)
  PROVE  StartupInv'
<1> USE NamesOfNobody DEF StartupInv
<1>1. CASE Look(d)
  <2>1. StartupTypeOK'
    BY <1>1 DEF Look, At, StartupTypeOK
  <2>2. LoneInv'
    BY <1>1 DEF Look, At, LoneInv, StartupTypeOK, Down
  <2> QED
    BY <2>1, <2>2
<1>2. CASE RemoveFile(d)
  <2>1. StartupTypeOK'
    BY <1>2 DEF RemoveFile, At, StartupTypeOK
  <2>2. LoneInv'
    BY <1>2 DEF RemoveFile, At, LoneInv, StartupTypeOK, Down
  <2> QED
    BY <2>1, <2>2
<1>3. CASE Bind(d)
  <2>1. StartupTypeOK'
    BY <1>3 DEF Bind, At, StartupTypeOK
  <2>2. LoneInv'
    BY <1>3 DEF Bind, At, LoneInv, StartupTypeOK, Down
  <2> QED
    BY <2>1, <2>2
<1>4. CASE Listen(d)
  <2>1. StartupTypeOK'
    BY <1>4 DEF Listen, At, StartupTypeOK
  <2>2. LoneInv'
    BY <1>4 DEF Listen, At, LoneInv, StartupTypeOK, Down
  <2> QED
    BY <2>1, <2>2
<1>5. CASE Chmod(d)
  <2>1. StartupTypeOK'
    BY <1>5 DEF Chmod, At, StartupTypeOK
  <2>2. LoneInv'
    BY <1>5 DEF Chmod, At, LoneInv, StartupTypeOK, Down
  <2> QED
    BY <2>1, <2>2
<1>6. CASE BindPort(d)
  <2>1. StartupTypeOK'
    BY <1>6 DEF BindPort, StartupTypeOK
  <2>2. LoneInv'
    BY <1>6 DEF BindPort, LoneInv
  <2> QED
    BY <2>1, <2>2
<1> QED
  BY <1>1, <1>2, <1>3, <1>4, <1>5, <1>6 DEF SetUp

LEMMA DieInv ==
  ASSUME StartupInv, NEW d \in Daemon, Die(d)
  PROVE  StartupInv'
<1> USE NamesOfNobody DEF StartupInv
<1>1. StartupTypeOK'
  BY DEF Die, StartupTypeOK
<1>2. LoneInv'
  BY DEF Die, LoneInv, StartupTypeOK, Down
<1> QED
  BY <1>1, <1>2

LEMMA StartupNextInv == StartupInv /\ [StartupNext]_startupVars => StartupInv'
<1> SUFFICES ASSUME StartupInv, [StartupNext]_startupVars PROVE StartupInv'
  OBVIOUS
<1>1. CASE Expire
  BY <1>1, NamesOfNobody DEF Expire, StartupInv, StartupTypeOK, LoneInv
<1>2. ASSUME NEW d \in Daemon, Launch(d) \/ SetUp(d) \/ Die(d)
      PROVE  StartupInv'
  BY <1>2, LaunchInv, SetUpInv, DieInv
<1>3. CASE UNCHANGED startupVars
  BY <1>3 DEF startupVars, StartupInv, StartupTypeOK, LoneInv
<1> QED
  BY <1>1, <1>2, <1>3 DEF StartupNext

(* No step of a lone daemon fails, and that into the loop has the path.    *)
LoneStep ==
  \A d \in Daemon :
    lone /\ usable /\ spc'[d] # spc[d] =>
      spc'[d] # "failed" /\ (spc'[d] = "run" => file' = d)

LEMMA StartupStep == StartupInv /\ [StartupNext]_startupVars => LoneStep \/ UNCHANGED startupVars
<1> SUFFICES ASSUME StartupInv, StartupNext, lone, usable,
                    NEW d \in Daemon, spc'[d] # spc[d]
             PROVE  spc'[d] # "failed" /\ (spc'[d] = "run" => file' = d)
  BY DEF LoneStep
<1>1. /\ spc[d] = "remove" => file # Free
      /\ spc[d] = "bind" => file = Free
      /\ spc[d] \in {"listen", "chmod", "run"} => file = d
  BY DEF StartupInv, LoneInv
<1>2. ASSUME NEW e \in Daemon, Launch(e) \/ SetUp(e) \/ Die(e), e # d
      PROVE  FALSE
  BY <1>2 DEF Launch, SetUp, Look, RemoveFile, Bind, Listen, Chmod, BindPort, Die, At,
              StartupInv, StartupTypeOK
<1>3. CASE Expire
  BY <1>3 DEF Expire
<1>4. CASE Launch(d) \/ Die(d)
  <2>1. spc'[d] = "look" \/ spc'[d] = "down"
    BY <1>4 DEF Launch, Die, StartupInv, StartupTypeOK
  <2> QED
    BY <2>1
<1>5. CASE SetUp(d)
  <2>1. spc \in [Daemon -> {"down", "look", "remove", "bind", "listen", "chmod", "run", "failed"}]
    BY DEF StartupInv, StartupTypeOK
  <2>2. CASE Look(d)
    BY <2>1, <2>2 DEF Look, At
  <2>3. CASE RemoveFile(d)
    BY <1>1, <2>1, <2>3 DEF RemoveFile, At
  <2>4. CASE Bind(d)
    BY <1>1, <2>1, <2>4 DEF Bind, At
  <2>5. CASE Listen(d)
    BY <1>1, <2>1, <2>5 DEF Listen, At
  <2>6. CASE Chmod(d)
    BY <1>1, <2>1, <2>6, NamesOfNobody DEF Chmod, At
  <2>7. CASE BindPort(d)
    BY <2>7 DEF BindPort
  <2> QED
    BY <1>5, <2>2, <2>3, <2>4, <2>5, <2>6, <2>7 DEF SetUp
<1> QED
  BY <1>2, <1>3, <1>4, <1>5 DEF StartupNext

(* setup_socket() and the api thread: any number of daemons, coming, going *)
(* and crashing at any point, leave the path to one that is past bind()    *)
(* and the port to an api thread that serves.                              *)
THEOREM StartupTypeCorrect == StartupSpec => []StartupTypeOK
<1>1. StartupInv => StartupTypeOK
  BY DEF StartupInv
<1> QED
  BY <1>1, StartupInitInv, StartupNextInv, PTL DEF StartupSpec

(* A daemon that starts without company starts, whatever a crash has left, *)
(* and has the path for itself.                                            *)
THEOREM LoneStart == StartupSpec => LoneStartSucceeds
<1>1. StartupInv /\ [StartupNext]_startupVars => [LoneStep]_startupVars
  BY StartupStep
<1>2. StartupSpec => [][LoneStep]_startupVars
  BY <1>1, StartupInitInv, StartupNextInv, PTL DEF StartupSpec
<1> QED
  BY <1>2 DEF LoneStep, LoneStartSucceeds

-----------------------------------------------------------------------------
(* Nvidia.                                                                 *)

LEMMA CountType == ASSUME NvidiaTypeOK PROVE Cardinality(DOMAIN used) \in 0 .. Cardinality(NvPid)
<1>1. IsFiniteSet(DOMAIN used) /\ Cardinality(DOMAIN used) <= Cardinality(NvPid)
  BY NvAssumption, FS_Subset DEF NvidiaTypeOK
<1> QED
  BY <1>1, NvAssumption, FS_CardinalityType

LEMMA ShowType ==
  ASSUME NvidiaTypeOK, asked # 0, NEW v \in NvMemory \cup {0}, Show(v), fails' \in 0 .. MaxFails
  PROVE  NvidiaTypeOK'
<1>1. Cardinality(NvPid) \in Nat
  BY NvAssumption, FS_CardinalityType
<1> QED
  BY <1>1 DEF NvidiaTypeOK, Show

LEMMA NvidiaInitInv == NvidiaInit => NvidiaTypeOK
<1>1. Cardinality(NvPid) \in Nat
  BY NvAssumption, FS_CardinalityType
<1> QED
  BY <1>1, NvAssumption DEF NvidiaInit, NvidiaTypeOK

LEMMA NvidiaNextInv == NvidiaTypeOK /\ [NvidiaNext]_nvidiaVars => NvidiaTypeOK'
<1> SUFFICES ASSUME NvidiaTypeOK, [NvidiaNext]_nvidiaVars PROVE NvidiaTypeOK'
  OBVIOUS
<1>1. CASE InitNVML
  BY <1>1 DEF InitNVML, LoadNVML, NvidiaTypeOK
<1>2. CASE ListProcesses
  <2>1. Using(asked) \in NvMemory \cup {0}
    BY DEF Using, NvidiaTypeOK
  <2> QED
    BY <1>2, <2>1, ShowType DEF ListProcesses, NvidiaTypeOK
<1>3. CASE CallFails
  <2>1. fails' \in 0 .. MaxFails
    BY <1>3, NvAssumption DEF CallFails, NvidiaTypeOK
  <2> QED
    BY <1>3, <2>1, ShowType DEF CallFails
<1>4. ASSUME NEW p \in NvPid, Use(p) PROVE NvidiaTypeOK'
  <2>1. DOMAIN used' \subseteq NvPid /\ \A q \in DOMAIN used' : used'[q] \in NvMemory
    <3>1. CASE \E m \in NvMemory :
                 used' = [q \in DOMAIN used \cup {p} |-> IF q = p THEN m ELSE used[q]]
      BY <3>1 DEF NvidiaTypeOK
    <3>2. CASE used' = [q \in DOMAIN used \ {p} |-> used[q]]
      BY <3>2 DEF NvidiaTypeOK
    <3> QED
      BY <1>4, <3>1, <3>2 DEF Use
  <2> QED
    BY <1>4, <2>1 DEF Use, NvidiaTypeOK
<1>5. ASSUME NEW p \in NvPid, CountProcesses(p) PROVE NvidiaTypeOK'
  BY <1>5, CountType DEF CountProcesses, NvidiaTypeOK
<1>6. CASE UNCHANGED nvidiaVars
  BY <1>6 DEF nvidiaVars, NvidiaTypeOK
<1> QED
  BY <1>1, <1>2, <1>3, <1>4, <1>5, <1>6 DEF NvidiaNext

-----------------------------------------------------------------------------
(* The parts together.                                                     *)

(* A step of the parts is a step, or none, of each. *)
LEMMA AllPartsStep ==
  [AllPartsNext]_allPartsVars =>
    /\ [IONext]_ioVars /\ [LoadNext]_loadVars /\ [CPUNext]_cpuVars
    /\ [EnergyNext]_energyVars /\ [HwmonNext]_hwmonVars /\ [AMDNext]_amdVars
    /\ [ThrottleNext]_throttleVars /\ [XeNext]_xeVars
    /\ [NvidiaNext]_nvidiaVars /\ [StartupNext]_startupVars
<1> SUFFICES ASSUME [AllPartsNext]_allPartsVars
             PROVE  /\ [IONext]_ioVars /\ [LoadNext]_loadVars /\ [CPUNext]_cpuVars
                    /\ [EnergyNext]_energyVars /\ [HwmonNext]_hwmonVars /\ [AMDNext]_amdVars
                    /\ [ThrottleNext]_throttleVars /\ [XeNext]_xeVars
                    /\ [NvidiaNext]_nvidiaVars /\ [StartupNext]_startupVars
  OBVIOUS
<1>1. CASE UNCHANGED allPartsVars
  BY <1>1 DEF allPartsVars
<1>2. CASE AllPartsNext
  BY <1>2 DEF AllPartsNext, IOOnly, LoadOnly, CPUOnly, EnergyOnly, HwmonOnly, AMDOnly,
              ThrottleOnly, XeOnly, NvidiaOnly, StartupOnly
<1> QED
  BY <1>1, <1>2

PartsInv ==
  /\ IOInv /\ LoadInv /\ CPUInv /\ EnergyInv /\ HwmonInv /\ AMDInv /\ ThrottleInv /\ XeInv
  /\ NvidiaTypeOK /\ StartupInv

LEMMA AllPartsSpecInv == AllPartsSpec => []PartsInv
<1>1. AllPartsInit => PartsInv
  BY IOInitInv, LoadInitInv, CPUInitInv, EnergyInitInv, HwmonInitInv, AMDInitInv,
     ThrottleInitInv, XeInitInv, NvidiaInitInv, StartupInitInv DEF AllPartsInit, PartsInv
<1>2. PartsInv /\ [AllPartsNext]_allPartsVars => PartsInv'
  BY AllPartsStep, IONextInv, LoadNextInv, CPUNextInv, EnergyNextInv, HwmonNextInv, AMDNextInv,
     ThrottleNextInv, XeNextInv, NvidiaNextInv, StartupNextInv DEF PartsInv
<1> QED
  BY <1>1, <1>2, PTL DEF AllPartsSpec

(* What the runs check, one part at a time, are behaviours of all parts.   *)
THEOREM PartsAreOfAll == PartsSpec => AllPartsSpec
<1>1. PartsInit => AllPartsInit
  BY DEF PartsInit
<1>2. [PartsNext]_partsVars => [AllPartsNext]_allPartsVars
  <2> SUFFICES ASSUME [PartsNext]_partsVars PROVE [AllPartsNext]_allPartsVars
    OBVIOUS
  <2>1. CASE UNCHANGED partsVars
    BY <2>1 DEF partsVars
  <2>2. CASE PartsNext
    BY <2>2 DEF PartsNext, Only, AllPartsNext
  <2> QED
    BY <2>1, <2>2
<1> QED
  BY <1>1, <1>2, PTL DEF PartsSpec, AllPartsSpec

(* However the steps of the parts interleave, each part shows what it      *)
(* shows by itself, and a daemon without company starts.                   *)
THEOREM PartsShowTheirOwn ==
  AllPartsSpec => /\ [](RatesAddUp /\ OneBadPoll /\ SideBySide /\ EnergyAddsUp /\ OwnFile)
                  /\ [](OwnFigures /\ ReportsWhatHeld /\ CyclesAddUp)
                  /\ LoneStartSucceeds
<1>1. PartsInv => RatesAddUp /\ OneBadPoll /\ SideBySide /\ EnergyAddsUp /\ OwnFile
  BY OneBadPollHolds DEF PartsInv, IOInv, CPUInv, EnergyInv, HwmonInv
<1>2. PartsInv => OwnFigures /\ ReportsWhatHeld /\ CyclesAddUp
  BY AMDInvShows, ThrottleInvShows, XeInvShows DEF PartsInv
<1>3. PartsInv /\ [AllPartsNext]_allPartsVars => [LoneStep]_startupVars
  BY AllPartsStep, StartupStep DEF PartsInv
<1>4. AllPartsSpec => [][LoneStep]_startupVars
  BY <1>3, AllPartsSpecInv, PTL DEF AllPartsSpec
<1>5. AllPartsSpec => LoneStartSucceeds
  BY <1>4 DEF LoneStep, LoneStartSucceeds
<1> QED
  BY <1>1, <1>2, <1>5, AllPartsSpecInv, PTL

(* Every variable of every part has its type, however the steps of the     *)
(* parts interleave, for all values of all their constants.                *)
THEOREM PartsTypeCorrect == AllPartsSpec => []PartsTypeOK
<1>1. PartsInv => PartsTypeOK
  BY DEF PartsInv, PartsTypeOK, IOInv, LoadInv, CPUInv, EnergyInv, HwmonInv, AMDInv,
         ThrottleInv, XeInv, StartupInv
<1> QED
  BY <1>1, AllPartsSpecInv, PTL

=============================================================================
