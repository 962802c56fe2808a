--------------------------------- MODULE Parts ---------------------------------
(***************************************************************************)
(* The parts of the daemon that share nothing with its other threads: the  *)
(* sources of its figures, each polled by one thread, and its start.       *)
(* AllPartsSpec interleaves their steps; it is what the theorems are       *)
(* about.  The parts share nothing with one another either, so the runs    *)
(* check PartsSpec, whose behaviours are those of AllPartsSpec in which    *)
(* one part, chosen at the start, takes all the steps.                     *)
(***************************************************************************)
EXTENDS IOStats, CPU, CPULoad, Energy, Hwmon, AMDGPUMetrics, IntelThrottle, XeCycles,
        Nvidia, Startup

VARIABLE part

allPartsVars == <<ioVars, loadVars, cpuVars, energyVars, hwmonVars,
                  amdVars, throttleVars, xeVars, nvidiaVars, startupVars>>
partsVars    == <<part, allPartsVars>>

IOOnly == <<loadVars, cpuVars, energyVars, hwmonVars, amdVars,
            throttleVars, xeVars, nvidiaVars, startupVars>>
LoadOnly == <<ioVars, cpuVars, energyVars, hwmonVars, amdVars,
              throttleVars, xeVars, nvidiaVars, startupVars>>
CPUOnly == <<ioVars, loadVars, energyVars, hwmonVars, amdVars,
             throttleVars, xeVars, nvidiaVars, startupVars>>
EnergyOnly == <<ioVars, loadVars, cpuVars, hwmonVars, amdVars,
                throttleVars, xeVars, nvidiaVars, startupVars>>
HwmonOnly == <<ioVars, loadVars, cpuVars, energyVars, amdVars,
               throttleVars, xeVars, nvidiaVars, startupVars>>
AMDOnly == <<ioVars, loadVars, cpuVars, energyVars, hwmonVars,
             throttleVars, xeVars, nvidiaVars, startupVars>>
ThrottleOnly == <<ioVars, loadVars, cpuVars, energyVars, hwmonVars,
                  amdVars, xeVars, nvidiaVars, startupVars>>
XeOnly == <<ioVars, loadVars, cpuVars, energyVars, hwmonVars, amdVars,
            throttleVars, nvidiaVars, startupVars>>
NvidiaOnly == <<ioVars, loadVars, cpuVars, energyVars, hwmonVars, amdVars,
                throttleVars, xeVars, startupVars>>
StartupOnly == <<ioVars, loadVars, cpuVars, energyVars, hwmonVars, amdVars,
                 throttleVars, xeVars, nvidiaVars>>

AllPartsInit ==
  /\ IOInit /\ LoadInit /\ CPUInit /\ EnergyInit /\ HwmonInit
  /\ AMDInit /\ ThrottleInit /\ XeInit /\ NvidiaInit /\ StartupInit

(* A step of one part; the others rest. *)
AllPartsNext ==
  \/ IONext       /\ UNCHANGED IOOnly
  \/ LoadNext     /\ UNCHANGED LoadOnly
  \/ CPUNext      /\ UNCHANGED CPUOnly
  \/ EnergyNext   /\ UNCHANGED EnergyOnly
  \/ HwmonNext    /\ UNCHANGED HwmonOnly
  \/ AMDNext      /\ UNCHANGED AMDOnly
  \/ ThrottleNext /\ UNCHANGED ThrottleOnly
  \/ XeNext       /\ UNCHANGED XeOnly
  \/ NvidiaNext   /\ UNCHANGED NvidiaOnly
  \/ StartupNext  /\ UNCHANGED StartupOnly

AllPartsSpec == AllPartsInit /\ [][AllPartsNext]_allPartsVars

-----------------------------------------------------------------------------
(* One part at a time; the others keep one state.                          *)

PartsInit ==
  /\ part \in {"client I/O", "CPU load", "CPU cores", "energy", "sensors",
              "amdgpu", "throttling", "xe", "nvidia", "startup"}
  /\ AllPartsInit
  /\ part = "CPU load"  \/ digits = 0
  /\ part = "CPU cores" \/ (online = {0} /\ \A c \in Core : clock[c] = Min(Frequency))
  /\ part = "amdgpu"    \/ version = CHOOSE v \in Versions : TRUE
  /\ part = "startup"   \/ (usable /\ root = {} /\ file = Free)

Only(p, A, others) == part = p /\ A /\ UNCHANGED <<part, others>>

PartsNext ==
  \/ Only("client I/O", IONext, IOOnly)
  \/ Only("CPU load", LoadNext, LoadOnly)
  \/ Only("CPU cores", CPUNext, CPUOnly)
  \/ Only("energy", EnergyNext, EnergyOnly)
  \/ Only("sensors", HwmonNext, HwmonOnly)
  \/ Only("amdgpu", AMDNext, AMDOnly)
  \/ Only("throttling", ThrottleNext, ThrottleOnly)
  \/ Only("xe", XeNext, XeOnly)
  \/ Only("nvidia", NvidiaNext, NvidiaOnly)
  \/ Only("startup", StartupNext, StartupOnly)

(* Main and the workers of the GPUs poll again and again; every poll looks *)
(* up each client on an Nvidia GPU; not every read of an amdgpu table      *)
(* fails.                                                                  *)
PartsFairness ==
  /\ WF_ioVars(Only("client I/O", Main, IOOnly))
  /\ WF_cpuVars(Only("CPU cores", CPUPoll, CPUOnly))
  /\ WF_energyVars(Only("energy", EnergyPoll, EnergyOnly))
  /\ WF_nvidiaVars(Only("nvidia", ListProcesses \/ CallFails, NvidiaOnly))
  /\ \A p \in NvPid : SF_nvidiaVars(Only("nvidia", CountProcesses(p), NvidiaOnly))
  /\ \A d \in Dev :
       /\ WF_amdVars(Only("amdgpu", AMDSetup(d) \/ Parse(d), AMDOnly))
       /\ SF_amdVars(Only("amdgpu", ReadTable(d), AMDOnly))

PartsSpec == PartsInit /\ [][PartsNext]_partsVars
FairPartsSpec == PartsSpec /\ PartsFairness

-----------------------------------------------------------------------------
(* Every variable of every part has its type.                              *)
PartsTypeOK ==
  /\ IOTypeOK /\ LoadTypeOK /\ CPUTypeOK /\ EnergyTypeOK /\ HwmonTypeOK
  /\ AMDTypeOK /\ ThrottleTypeOK /\ XeTypeOK /\ NvidiaTypeOK /\ StartupTypeOK

=============================================================================
