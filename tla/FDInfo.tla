-------------------------------- MODULE FDInfo --------------------------------
(***************************************************************************)
(* How much GPU time the daemon says a client process has used.            *)
(*                                                                         *)
(* The process opens DRM descriptors; several may belong to one DRM client *)
(* (dup, or a library that shares its device).  The kernel prints each     *)
(* client's id and engine time in /proc/<pid>/fdinfo/<fd>.  FDInfoBase     *)
(* keeps a stream and the last contents for each client it found; a worker *)
(* polls the streams and the GPU's driver class turns the sum of the times *)
(* into a load.  amdgpu, i915, panfrost and msm_dpu do this alike.         *)
(***************************************************************************)
EXTENDS Naturals, FiniteSets, Functions

CONSTANTS
  Fd,         \* descriptor numbers of the process
  Client,     \* DRM client ids; the kernel never reuses one
  None,       \* no client: a closed descriptor; no contents: a stream not read yet
  MaxTime,    \* bound: engine time of a client
  Rescan,     \* polls, one a second, from one scan to the next: 10
  Interval,   \* engine time that is a load of 100 over one poll
  Modulus     \* 2^64: the times are uint64_t

ASSUME NoneAssumption == None \notin Client \cup (Client \X Nat)
ASSUME NumberAssumption ==
  /\ IsFiniteSet(Fd)
  /\ MaxTime \in Nat /\ Rescan \in Nat \ {0} /\ Interval \in Nat \ {0}
  /\ Modulus \in Nat \ {0}

VARIABLES
  alive,      \* the process exists
  client,     \* the client of each descriptor
  gone,       \* clients whose last descriptor was closed
  time,       \* engine time of each client
  pc,         \* where the poll of this process is
  polling,    \* FALSE while the constructor scans
  age,        \* polls since last_init
  todo,       \* descriptors found but not opened, or streams not read, yet
  client_ids, \* ids seen by this scan
  data,       \* fds_data by descriptor: <<id, time>>
  streams,    \* descriptors that have a stream
  previous,   \* *previous_gpu_time
  load,       \* what get_process_load() returned last
  rescanned,  \* history: this poll, or the constructor before it, scans
  reused,     \* history: a number with a stream was reused since the scan
  ran         \* history: engine time used since the last poll began, and before

procVars == <<alive, client, gone, time>>
scanVars == <<polling, age, client_ids, streams, rescanned, reused>>
vars == <<alive, client, gone, time, pc, polling, age, todo, client_ids, data,
          streams, previous, load, rescanned, reused, ran>>

NoData == [f \in Fd |-> None]

-----------------------------------------------------------------------------
(* The process.                                                            *)

Open(f, c) ==
  /\ alive /\ client[f] = None /\ c \notin gone
  /\ client' = [client EXCEPT ![f] = c]
  /\ reused' = (reused \/ f \in streams)
  /\ UNCHANGED <<alive, gone, time, pc, polling, age, todo, client_ids, data, streams,
                 previous, load, rescanned, ran>>

Close(f) ==
  /\ client[f] # None
  /\ client' = [client EXCEPT ![f] = None]
  /\ gone' = IF \E g \in Fd : client'[g] = client[f] THEN gone ELSE gone \cup {client[f]}
  /\ UNCHANGED <<alive, time, pc, todo, data, previous, load, ran, scanVars>>

Run(c) ==
  /\ \E f \in Fd : client[f] = c
  /\ time[c] < MaxTime
  /\ time' = [time EXCEPT ![c] = @ + 1]
  /\ ran' = <<ran[1] + 1, ran[2]>>
  /\ UNCHANGED <<alive, client, gone, pc, todo, data, previous, load, scanVars>>

Exit ==
  /\ alive
  /\ alive' = FALSE
  /\ client' = [f \in Fd |-> None]
  /\ gone' = gone \cup {client[f] : f \in {g \in Fd : client[g] # None}}
  /\ UNCHANGED <<time, pc, todo, data, previous, load, ran, scanVars>>

-----------------------------------------------------------------------------
(* FDInfoWrapper::poll_all() and FDInfoBase::poll().                       *)

\* mutant: a process is scanned again only as long as nothing was found
PollAllOnce ==
  /\ pc = "asleep"
  /\ ran' = <<0, ran[1]>>
  /\ IF ~alive
     THEN pc' = "erased" /\ UNCHANGED <<age, todo, rescanned>>
     ELSE IF age + 1 >= Rescan /\ streams = {}
     THEN pc' = "exists" /\ rescanned' = TRUE /\ UNCHANGED <<age, todo>>
     ELSE /\ pc' = "read" /\ age' = IF age < Rescan THEN age + 1 ELSE age
          /\ todo' = streams /\ rescanned' = FALSE
  /\ UNCHANGED <<procVars, polling, client_ids, data, streams, previous, load, reused>>

(* The entry of a process that is gone is erased.  After 10 s, init().     *)
PollAll ==
  /\ pc = "asleep"
  /\ ran' = <<0, ran[1]>>
  /\ \/ /\ ~alive
        /\ pc' = "erased" /\ UNCHANGED <<age, todo, rescanned>>
     \/ /\ alive /\ age + 1 >= Rescan
        /\ pc' = "exists" /\ rescanned' = TRUE /\ UNCHANGED <<age, todo>>
     \/ /\ alive /\ age + 1 < Rescan
        /\ pc' = "read" /\ age' = age + 1 /\ todo' = streams /\ rescanned' = FALSE
  /\ UNCHANGED <<procVars, polling, client_ids, data, streams, previous, load, reused>>

(* find_fds(): the directory exists, or nothing is found ...               *)
FindDir ==
  /\ pc = "exists"
  /\ pc' = IF alive THEN "iterate" ELSE "clear"
  /\ todo' = {}
  /\ UNCHANGED <<procVars, data, previous, load, ran, scanVars>>

(* ... and is read; the iterator throws, and nothing catches, if the       *)
(* process has gone in between.                                            *)
FindFds ==
  /\ pc = "iterate"
  /\ pc' = IF alive THEN "clear" ELSE "terminated"
  /\ todo' = {f \in Fd : client[f] # None}
  /\ UNCHANGED <<procVars, data, previous, load, ran, scanVars>>

Clear ==
  /\ pc = "clear"
  /\ streams' = {} /\ data' = NoData /\ client_ids' = {} /\ reused' = FALSE
  /\ pc' = "open"
  /\ UNCHANGED <<procVars, polling, age, todo, previous, load, rescanned, ran>>

\* mutant: the ids that were found are not remembered
OpenEvery(f) ==
  /\ pc = "open" /\ f \in todo
  /\ todo' = todo \ {f}
  /\ streams' = IF client[f] = None THEN streams ELSE streams \cup {f}
  /\ UNCHANGED <<procVars, pc, polling, age, client_ids, data, previous, load, rescanned, reused, ran>>

(* open_fds(): a descriptor that has been closed since, or whose client    *)
(* has a stream already, is skipped.                                       *)
OpenFd(f) ==
  /\ pc = "open" /\ f \in todo
  /\ todo' = todo \ {f}
  /\ IF client[f] \in {None} \cup client_ids
     THEN UNCHANGED <<streams, client_ids>>
     ELSE streams' = streams \cup {f} /\ client_ids' = client_ids \cup {client[f]}
  /\ UNCHANGED <<procVars, pc, polling, age, data, previous, load, rescanned, reused, ran>>

(* last_init = now; init() was called by poll() or by the constructor.     *)
EndInit ==
  /\ pc = "open" /\ todo = {}
  /\ age' = 0
  /\ polling' = TRUE
  /\ IF polling THEN pc' = "read" /\ todo' = streams ELSE pc' = "asleep" /\ todo' = {}
  /\ UNCHANGED <<procVars, client_ids, data, streams, previous, load, rescanned, reused, ran>>

\* mutant: what was read last is dropped when nothing can be read
ReadOrDrop(f) ==
  /\ pc = "read" /\ f \in todo
  /\ todo' = todo \ {f}
  /\ data' = [data EXCEPT ![f] = IF client[f] = None THEN None ELSE <<client[f], time[client[f]]>>]
  /\ UNCHANGED <<procVars, pc, previous, load, ran, scanVars>>

(* The stream shows whatever is at that number now; of a closed one,       *)
(* getline() reads nothing and the old contents stay.                      *)
Read(f) ==
  /\ pc = "read" /\ f \in todo
  /\ todo' = todo \ {f}
  /\ data' = IF client[f] = None THEN data
             ELSE [data EXCEPT ![f] = <<client[f], time[client[f]]>>]
  /\ UNCHANGED <<procVars, pc, previous, load, ran, scanVars>>

(* get_gpu_time(). *)
Filled == {f \in streams : data[f] # None}
used == [f \in Fd |-> IF f \in Filled THEN data[f][2] ELSE 0]
gpu_time == SumFunction(used) % Modulus

\* mutant: an implausible difference is shown as 100 and not taken as the new base
SampleKeepBase ==
  /\ pc = "read" /\ todo = {}
  /\ LET delta == (Modulus + gpu_time - previous) % Modulus
     IN  IF previous = 0
         THEN load' = 0 /\ previous' = gpu_time
         ELSE IF delta > Interval
         THEN load' = Interval /\ UNCHANGED previous
         ELSE load' = delta /\ previous' = gpu_time
  /\ pc' = "asleep"
  /\ UNCHANGED <<procVars, todo, data, ran, scanVars>>

\* mutant: the difference is not capped
SampleUncapped ==
  /\ pc = "read" /\ todo = {}
  /\ load' = IF previous = 0 THEN 0 ELSE (Modulus + gpu_time - previous) % Modulus
  /\ previous' = gpu_time
  /\ pc' = "asleep"
  /\ UNCHANGED <<procVars, todo, data, ran, scanVars>>

(* get_process_load(): 0 means there is no base yet.  The difference is    *)
(* unsigned and wraps when a client has gone; then it is capped.           *)
Sample ==
  /\ pc = "read" /\ todo = {}
  /\ LET delta == (Modulus + gpu_time - previous) % Modulus
     IN  load' = IF previous = 0 THEN 0 ELSE IF delta > Interval THEN Interval ELSE delta
  /\ previous' = gpu_time
  /\ pc' = "asleep"
  /\ UNCHANGED <<procVars, todo, data, ran, scanVars>>

-----------------------------------------------------------------------------
Init ==
  /\ alive = TRUE /\ gone = {} /\ time = [c \in Client |-> 0]
  /\ client \in [Fd -> Client \cup {None}]
  /\ pc = "exists" /\ polling = FALSE /\ age = 0 /\ todo = {} /\ client_ids = {}
  /\ streams = {} /\ data = NoData
  /\ previous = 0 /\ load = 0
  /\ rescanned = TRUE /\ reused = FALSE /\ ran = <<0, 0>>

Down == pc \in {"erased", "terminated"}

Process == ~Down /\ (\/ Exit
                     \/ \E f \in Fd : Close(f) \/ \E c \in Client : Open(f, c)
                     \/ \E c \in Client : Run(c))

Poll ==
  \/ PollAll \/ FindDir \/ FindFds \/ Clear \/ EndInit \/ Sample
  \/ \E f \in Fd : OpenFd(f) \/ Read(f)

Next == Process \/ Poll

(* The worker's loop keeps running. *)
Spec == Init /\ [][Next]_vars /\ WF_vars(Poll)

-----------------------------------------------------------------------------
(* Properties.                                                             *)

(* Every variable has its type; in particular a load never exceeds 100.    *)
TypeOK ==
  /\ alive \in BOOLEAN /\ polling \in BOOLEAN /\ rescanned \in BOOLEAN
  /\ reused \in BOOLEAN
  /\ client \in [Fd -> Client \cup {None}] /\ gone \subseteq Client
  /\ time \in [Client -> Nat]
  /\ pc \in {"asleep", "exists", "iterate", "clear", "open", "read", "erased", "terminated"}
  /\ age \in 0 .. Rescan
  /\ todo \subseteq Fd /\ client_ids \subseteq Client /\ streams \subseteq Fd
  /\ data \in [Fd -> (Client \X Nat) \cup {None}]
  /\ previous \in 0 .. Modulus - 1 /\ load \in 0 .. Interval
  /\ ran \in Nat \X Nat

OneEach == \A f, g \in Filled : data[f][1] = data[g][1] => f = g

(* No client's time enters the sum twice, however its descriptors are      *)
(* duplicated and closed around a scan, until a number that has a stream   *)
(* is reused.                                                              *)
CountedOnce == ~reused => OneEach

(* Between two scans the load is GPU time that the process really used, in *)
(* this interval or the one before: closing descriptors shows as no load.  *)
(* Again, until a number that has a stream is reused.                      *)
HonestBetweenScans ==
  pc = "asleep" /\ ~rescanned /\ ~reused => load <= ran[1] + ran[2]

(* Once the process leaves its descriptors alone, the streams come to be   *)
(* exactly one per open client: late clients are found, closed ones        *)
(* dropped.                                                                *)
CatchesUp ==
  <>[][UNCHANGED client]_vars =>
    <>[](pc = "asleep" /\ alive =>
           /\ {data[f][1] : f \in Filled} = {client[f] : f \in Fd} \ {None}
           /\ OneEach)

(* A process that has stopped using the GPU comes to be shown a load of 0: *)
(* no wrapped or stale sample is repeated for ever.                        *)
IdleSettles ==
  <>[][UNCHANGED <<client, time>>]_vars => <>[](pc = "asleep" => load = 0)

=============================================================================
