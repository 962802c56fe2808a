--------------------------- MODULE SystemMetrics ----------------------------
(***************************************************************************)
(* The threads of the daemon, the mutexes they take, and the way of a      *)
(* GPU's figures from its worker to a response: discovery, poll_metrics(), *)
(* the registration of a client, the api thread's copy, and the shutdown.  *)
(*                                                                         *)
(* Which pids are in which table is MetricsServer; here a step is one      *)
(* critical section, or one access without a lock.  The figures of a GPU   *)
(* are one number, its reading: 0 for value-initialised metrics, otherwise *)
(* the state of the hardware when the worker sampled it.                   *)
(***************************************************************************)
EXTENDS Naturals, Sequences

CONSTANTS
  Nodes,       \* number of render nodes, in the order of std::set<string>
  Machines,    \* which drivers the nodes may have, and if port 45050 is free
  Slots,       \* the length of metrics::gpus
  FirstReading, MaxReading,  \* bounds: states of the hardware, by node and by driver
  Uninterrupted              \* bound: drivers of machines on which SIGINT never comes

(* "amdgpu" and "apu" derive from FDInfo, "nvidia" does not; "none" is an  *)
(* unsupported driver, or nvidia without NVML.                             *)
Driver == {"none", "nvidia", "amdgpu", "apu"}
Node   == 1 .. Nodes
Slot   == 1 .. Slots

ASSUME NodesAssumption == Nodes \in Nat
ASSUME MachinesAssumption ==
  Machines \subseteq [driver : [Node -> Driver], port_free : BOOLEAN]
ASSUME SlotsAssumption == Slots \in Nat \ {0}
ASSUME ReadingAssumption ==
  FirstReading \in [Node -> Nat] /\ MaxReading \in [Driver -> Nat]

Main      == <<"main", 0>>
Api       == <<"api", 0>>
Worker(g) == <<"worker", g>>
Nobody    == <<"nobody", 0>>
Thread    == {Main, Api} \cup {Worker(g) : g \in Node}

(* The mutexes: current_metrics_lock, and of each GPU system_metrics_mutex, *)
(* process_metrics_mutex and its FDInfoWrapper's pids_mutex.                *)
Current == <<"current", 0>>
Lock    == {Current} \cup ({"system", "process", "pids"} \X Node)

VARIABLES
  driver,          \* the driver of each node
  port_free,       \* the api thread can bind its port
  hardware,        \* what a GPU's sensors would show now
  should_exit,
  crashed,         \* undefined behaviour has ended the daemon
  pc, owner,       \* where each thread is, and who holds each mutex
  available_gpus, i, m, current_metrics,     \* the main thread
  reading, system_metrics,                   \* the workers
  derived,         \* the members of a GPU's derived class are alive
  stop_thread,
  snapshot         \* which poll the first part of the api thread's copy is of

envVars    == <<driver, port_free, hardware, should_exit, crashed>>
mainVars   == <<available_gpus, i, m, current_metrics>>
workerVars == <<reading, system_metrics>>
gpuVars    == <<derived, stop_thread>>
dataVars   == <<envVars, mainVars, workerVars, gpuVars, snapshot>>
vars       == <<driver, port_free, hardware, should_exit, crashed, pc, owner,
                available_gpus, i, m, current_metrics, reading, system_metrics, derived,
                stop_thread, snapshot>>

GPUs == Len(available_gpus)
Gpu  == available_gpus[i]              \* in the loops over available_gpus
IsFDInfo(g) == driver[g] \in {"amdgpu", "apu"}

(* metrics: what is filled from the CPU and what is filled from the GPUs.  *)
(* A poll stamps both alike.                                               *)
OwnPower  == <<0, 0>>                  \* m.cpu.power as the CPU gave it
NoMetrics == [cpu |-> [poll |-> 0, power |-> OwnPower],
              gpu |-> [poll |-> 0, of |-> [s \in Slot |-> 0]]]

-----------------------------------------------------------------------------
(* Threads and mutexes.                                                    *)

Step(t, from, to) == pc[t] = from /\ pc' = [pc EXCEPT ![t] = to]

(* A step that changes nothing but the thread's position. *)
Goto(t, from, to) == Step(t, from, to) /\ UNCHANGED <<owner, dataVars>>

Release(l) == owner' = [owner EXCEPT ![l] = Nobody]

(* Where a thread waits for a mutex: for which, and where it is then. *)
Wanted == [lock_copy    |-> "current", lock_publish |-> "current",
           lock_find    |-> "current", lock_message |-> "current",
           lock_json    |-> "current",
           lock_get     |-> "system",  lock_sys     |-> "system",
           lock_collect |-> "process", lock_add     |-> "process",
           lock_proc    |-> "process",
           lock_add_fd  |-> "pids",    lock_scan    |-> "pids"]
Entered == [lock_copy   |-> "copy",    lock_publish |-> "publish",
           lock_find    |-> "find",    lock_message |-> "message",
           lock_json    |-> "json",
           lock_get     |-> "get",     lock_sys     |-> "lock_proc",
           lock_collect |-> "collect", lock_add     |-> "add",
           lock_proc    |-> "update",
           lock_add_fd  |-> "add_fd",  lock_scan    |-> "scan"]

LockOf(t, kind) ==
  IF kind = "current" THEN Current
  ELSE <<kind, IF t = Main THEN Gpu ELSE t[2]>>

\* mutant: form_json_response() copies without the lock
AcquireNoJson(t) ==
  /\ pc[t] \in DOMAIN Wanted
  /\ LET l == LockOf(t, Wanted[pc[t]])
     IN  pc[t] # "lock_json" => owner[l] = Nobody /\ owner' = [owner EXCEPT ![l] = t]
  /\ pc[t] = "lock_json" => owner' = owner
  /\ pc' = [pc EXCEPT ![t] = Entered[pc[t]]]
  /\ UNCHANGED dataVars

(* The constructor of a std::unique_lock *)
Acquire(t) ==
  /\ pc[t] \in DOMAIN Wanted
  /\ LET l == LockOf(t, Wanted[pc[t]])
     IN  owner[l] = Nobody /\ owner' = [owner EXCEPT ![l] = t]
  /\ pc' = [pc EXCEPT ![t] = Entered[pc[t]]]
  /\ UNCHANGED dataVars

-----------------------------------------------------------------------------
(* The main thread: start, and poll_metrics().                             *)

(* GPUS(): the next node in order is skipped, or appended and its worker   *)
(* started.                                                                *)
Discover ==
  /\ pc[Main] = "discover" /\ i <= Nodes
  /\ i' = i + 1
  /\ IF driver[i] = "none" THEN UNCHANGED <<available_gpus, pc>>
     ELSE /\ available_gpus' = Append(available_gpus, i)
          /\ pc' = [pc EXCEPT ![Worker(i)] = "check"]
  /\ UNCHANGED <<envVars, owner, m, current_metrics, workerVars, gpuVars, snapshot>>

StartApi ==
  /\ pc[Main] = "discover" /\ i > Nodes
  /\ pc' = [pc EXCEPT ![Main] = "loop", ![Api] = "setup"]
  /\ i' = 1
  /\ UNCHANGED <<envVars, owner, available_gpus, m, current_metrics, workerVars,
                 gpuVars, snapshot>>

(* An iteration of main()'s loop; more than 500 ms have passed since       *)
(* last_stats_poll, or not.                                                *)
StartPoll == ~should_exit /\ Goto(Main, "loop", "lock_copy")
SkipPoll  == ~should_exit /\ Goto(Main, "loop", "serve")

(* m = current_metrics; then, without the lock, the CPU fills its part. *)
CopyCurrent ==
  /\ Step(Main, "copy", IF GPUs = 0 THEN "lock_publish" ELSE "lock_get")
  /\ Release(Current)
  /\ m' = [cpu |-> [poll |-> 1 - current_metrics.cpu.poll, power |-> OwnPower],
           gpu |-> [current_metrics.gpu EXCEPT !.poll = 1 - @]]
  /\ i' = 1
  /\ UNCHANGED <<envVars, available_gpus, current_metrics, workerVars, gpuVars, snapshot>>

(* is_apu in a slot of m: it is true of what an APU's worker has sampled. *)
IsApu(of, s) == s <= GPUs /\ of[s] > 0 /\ driver[available_gpus[s]] = "apu"

\* mutant: is_apu is looked up before the counter is incremented
MergedMixed(of, s, power) ==
  IF s < Slots /\ IsApu(of, s) THEN {power, <<s + 1, of[s + 1]>>} ELSE {power}

\* mutant: no check that the slot is one of the array's or is an APU's
MergedAnything(of, s, power) == {power, <<s + 2, 0>>}

(* What m.cpu.power may be once slot s is filled.  num_of_gpus has been    *)
(* incremented by then: it is the slot after s that is looked at, which    *)
(* holds what current_metrics held; past the array it is whatever is there.*)
Merged(of, s, power) ==
  IF s = Slots THEN {power, <<s + 1, 0>>}
  ELSE IF IsApu(of, s + 1) THEN {power, <<s + 1, of[s + 1]>>}
  ELSE {power}

(* The end of one pass of a loop over available_gpus *)
NextGPU(again, after) ==
  IF i < GPUs THEN i' = i + 1 /\ pc' = [pc EXCEPT ![Main] = again]
              ELSE i' = 1     /\ pc' = [pc EXCEPT ![Main] = after]

\* mutant: the counter is incremented first
PollGPUPreIncrement ==
  /\ pc[Main] = "get" /\ i <= Slots
  /\ Release(<<"system", Gpu>>)
  /\ m' = [m EXCEPT !.gpu.of =
              [s \in Slot |-> IF s = i + 1 THEN system_metrics[Gpu] ELSE @[s]]]
  /\ \E clients \in BOOLEAN :
       NextGPU("lock_get", IF clients THEN "lock_collect" ELSE "lock_publish")
  /\ UNCHANGED <<envVars, available_gpus, current_metrics, workerVars, gpuVars, snapshot>>

(* m.gpus[num_of_gpus] = gpu->get_system_metrics(), and the merge.  With   *)
(* more GPUs than slots the write destroys what follows the array, m.pids. *)
PollGPU ==
  /\ pc[Main] = "get" /\ i <= Slots
  /\ Release(<<"system", Gpu>>)
  /\ LET of == [m.gpu.of EXCEPT ![i] = system_metrics[Gpu]] IN
     \E power \in Merged(of, i, m.cpu.power) :
       m' = [m EXCEPT !.gpu.of = of, !.cpu.power = power]
  /\ \E clients \in BOOLEAN :
       NextGPU("lock_get", IF clients THEN "lock_collect" ELSE "lock_publish")
  /\ UNCHANGED <<envVars, available_gpus, current_metrics, workerVars, gpuVars, snapshot>>

PollGPUPastArray ==
  /\ pc[Main] = "get" /\ i > Slots
  /\ crashed' = TRUE
  /\ UNCHANGED <<driver, port_free, hardware, should_exit, pc, owner, mainVars, workerVars,
                 gpuVars, snapshot>>

(* gpu->get_process_metrics(pid) for the clients in m *)
Collect ==
  /\ pc[Main] = "collect"
  /\ Release(<<"process", Gpu>>)
  /\ NextGPU("lock_collect", "lock_publish")
  /\ UNCHANGED <<envVars, available_gpus, m, current_metrics, workerVars, gpuVars, snapshot>>

(* current_metrics = m, in two steps: a copy could be torn between them. *)
Publish ==
  /\ Step(Main, "publish", "publish_rest")
  /\ current_metrics' = [current_metrics EXCEPT !.cpu = m.cpu]
  /\ UNCHANGED <<envVars, owner, available_gpus, i, m, workerVars, gpuVars, snapshot>>

PublishRest ==
  /\ Step(Main, "publish_rest", "serve")
  /\ Release(Current)
  /\ current_metrics' = [current_metrics EXCEPT !.gpu = m.gpu]
  /\ m' = NoMetrics
  /\ UNCHANGED <<envVars, available_gpus, i, workerVars, gpuVars, snapshot>>

-----------------------------------------------------------------------------
(* The main thread: the clients' requests, which an iteration that has     *)
(* begun handles to the end whether SIGINT has come or not.                *)

(* A request has been received. *)
StartRegister == Goto(Main, "serve", "lock_find")

EndIteration == Goto(Main, "serve", "loop")

(* Its pid is looked up: it may be known or not. *)
Find ==
  /\ \E known \in BOOLEAN :
       Step(Main, "find", IF known THEN "lock_message"
                          ELSE IF GPUs = 0 THEN "emplace" ELSE "lock_add")
  /\ Release(Current)
  /\ i' = 1
  /\ UNCHANGED <<envVars, available_gpus, m, current_metrics, workerVars, gpuVars, snapshot>>

(* gpu->add_pid(pid), then the fdinfo's if the GPU has one *)
AddPid ==
  /\ pc[Main] = "add"
  /\ Release(<<"process", Gpu>>)
  /\ IF IsFDInfo(Gpu) THEN i' = i /\ pc' = [pc EXCEPT ![Main] = "lock_add_fd"]
     ELSE NextGPU("lock_add", "emplace")
  /\ UNCHANGED <<envVars, available_gpus, m, current_metrics, workerVars, gpuVars, snapshot>>

AddFDPid ==
  /\ pc[Main] = "add_fd"
  /\ Release(<<"pids", Gpu>>)
  /\ NextGPU("lock_add", "emplace")
  /\ UNCHANGED <<envVars, available_gpus, m, current_metrics, workerVars, gpuVars, snapshot>>

(* current_metrics.pids.try_emplace(), without the lock *)
Emplace == Goto(Main, "emplace", "lock_message")

(* form_mangohud_message() *)
Message ==
  /\ Step(Main, "message", "serve")
  /\ Release(Current)
  /\ UNCHANGED dataVars

-----------------------------------------------------------------------------
(* The main thread: the end of main(), and the destructors of its GPUs.    *)

Leave == should_exit /\ Goto(Main, "loop", "join")

JoinApi ==
  /\ pc[Api] = "ended"
  /\ Step(Main, "join", IF GPUs = 0 THEN "returned" ELSE "destroy")
  /\ i' = 1
  /\ UNCHANGED <<envVars, owner, available_gpus, m, current_metrics, workerVars,
                 gpuVars, snapshot>>

(* Where a worker is in, or about to return to, a derived class's member *)
InDerived == {"lock_scan", "scan", "sample", "loads"}

(* The derived class's destructor runs before ~GPU() stops the worker: if  *)
(* the worker is inside, or a cycle of it begins before ~GPU() (Check),    *)
(* anything may happen.                                                    *)
Destroy ==
  /\ Step(Main, "destroy", "stop")
  /\ derived' = [derived EXCEPT ![Gpu] = FALSE]
  /\ crashed' \in {FALSE, pc[Worker(Gpu)] \in InDerived}
  /\ UNCHANGED <<driver, port_free, hardware, should_exit, owner, mainVars, workerVars,
                 stop_thread, snapshot>>

\* mutant: the flag is not set
StopNot == Goto(Main, "stop", "join_worker")

StopWorker ==
  /\ Step(Main, "stop", "join_worker")
  /\ stop_thread' = [stop_thread EXCEPT ![Gpu] = TRUE]
  /\ UNCHANGED <<envVars, owner, mainVars, workerVars, derived, snapshot>>

JoinWorker ==
  /\ pc[Main] = "join_worker" /\ pc[Worker(Gpu)] = "done"
  /\ NextGPU("destroy", "returned")
  /\ UNCHANGED <<envVars, owner, available_gpus, m, current_metrics, workerVars,
                 gpuVars, snapshot>>

-----------------------------------------------------------------------------
(* The worker of GPU g: GPU::poll().  Its virtual calls reach the derived  *)
(* class until ~GPU() begins, and from then on the base class, which       *)
(* samples nothing.                                                        *)

Check(g) ==
  /\ Step(Worker(g), "check",
          IF stop_thread[g] THEN "done"
          ELSE IF derived[g] /\ IsFDInfo(g) THEN "lock_scan" ELSE "sample")
  /\ crashed' \in {FALSE, ~derived[g] /\ ~stop_thread[g]}
  /\ UNCHANGED <<driver, port_free, hardware, should_exit, owner, mainVars, workerVars,
                 gpuVars, snapshot>>

(* fdinfo.poll_all() in pre_poll_overrides() *)
PollAll(g) ==
  /\ Step(Worker(g), "scan", "sample")
  /\ Release(<<"pids", g>>)
  /\ UNCHANGED dataVars

Sample(g) ==
  /\ Step(Worker(g), "sample", "table")
  /\ reading' = [reading EXCEPT ![g] = IF derived[g] THEN hardware[g] ELSE 0]
  /\ UNCHANGED <<envVars, owner, mainVars, system_metrics, gpuVars, snapshot>>

(* check_pids_existence() and the copy of process_metrics, without the lock *)
Table(g) ==
  Goto(Worker(g), "table", IF derived[g] /\ IsFDInfo(g) THEN "loads" ELSE "lock_sys")

(* get_process_load() and its siblings read FDInfo's pids without the lock *)
Loads(g) == Goto(Worker(g), "loads", "lock_sys")

(* system_metrics and process_metrics are overwritten under both locks;    *)
(* then the worker sleeps.                                                 *)
Update(g) ==
  /\ Step(Worker(g), "update", "check")
  /\ owner' = [owner EXCEPT ![<<"system", g>>] = Nobody, ![<<"process", g>>] = Nobody]
  /\ system_metrics' = [system_metrics EXCEPT ![g] = reading[g]]
  /\ reading' = [reading EXCEPT ![g] = 0]
  /\ UNCHANGED <<envVars, mainVars, gpuVars, snapshot>>

-----------------------------------------------------------------------------
(* The api thread.                                                         *)

(* socket(), bind() and listen(): if one fails the thread returns, and the *)
(* daemon goes on without it.                                              *)
Setup ==
  \E bound \in {FALSE, port_free} : Goto(Api, "setup", IF bound THEN "poll" ELSE "ended")

(* A connection is to be answered. *)
Request == ~should_exit /\ Goto(Api, "poll", "lock_json")

(* m = current_metrics in form_json_response(), in two steps *)
Json ==
  /\ Step(Api, "json", "json_rest")
  /\ snapshot' = current_metrics.cpu.poll
  /\ UNCHANGED <<envVars, owner, mainVars, workerVars, gpuVars>>

JsonRest ==
  /\ Step(Api, "json_rest", "poll")
  /\ Release(Current)
  /\ snapshot' = 0
  /\ UNCHANGED <<envVars, mainVars, workerVars, gpuVars>>

LeaveApi == should_exit /\ Goto(Api, "poll", "ended")

-----------------------------------------------------------------------------
(* The surroundings: a GPU's sensors change; SIGINT arrives.               *)

Change(g) ==
  /\ hardware[g] < MaxReading[driver[g]]
  /\ hardware' = [hardware EXCEPT ![g] = @ + 1]
  /\ UNCHANGED <<driver, port_free, should_exit, crashed, pc, owner, mainVars, workerVars,
                 gpuVars, snapshot>>

Interrupt ==
  /\ ~should_exit /\ driver \notin Uninterrupted
  /\ should_exit' = TRUE
  /\ UNCHANGED <<driver, port_free, hardware, crashed, pc, owner, mainVars, workerVars,
                 gpuVars, snapshot>>

-----------------------------------------------------------------------------
Init ==
  /\ \E machine \in Machines :
       driver = machine.driver /\ port_free = machine.port_free
  /\ hardware = FirstReading
  /\ should_exit = FALSE /\ crashed = FALSE
  /\ pc = [t \in Thread |-> IF t = Main THEN "discover" ELSE "none"]
  /\ owner = [l \in Lock |-> Nobody]
  /\ available_gpus = <<>> /\ i = 1
  /\ m = NoMetrics /\ current_metrics = NoMetrics /\ snapshot = 0
  /\ reading = [g \in Node |-> 0]
  /\ system_metrics = [g \in Node |-> 0]
  /\ derived = [g \in Node |-> TRUE]
  /\ stop_thread = [g \in Node |-> FALSE]

MainStep ==
  \/ Discover \/ StartApi
  \/ StartPoll \/ SkipPoll \/ CopyCurrent \/ PollGPU \/ PollGPUPastArray \/ Collect
  \/ Publish \/ PublishRest
  \/ StartRegister \/ Find \/ AddPid \/ AddFDPid \/ Emplace \/ Message \/ EndIteration
  \/ Leave \/ JoinApi \/ Destroy \/ StopWorker \/ JoinWorker

WorkerStep(g) ==
  \/ Check(g) \/ PollAll(g) \/ Sample(g) \/ Table(g) \/ Loads(g)
  \/ Update(g)

ApiStep == Setup \/ Request \/ Json \/ JsonRest \/ LeaveApi

Running ==
  /\ ~crashed
  /\ \/ MainStep \/ ApiStep \/ Interrupt
     \/ \E t \in Thread : Acquire(t)
     \/ \E g \in Node : WorkerStep(g) \/ Change(g)

(* The daemon may stop, so that a deadlock is a stop before that. *)
Stopped == (crashed \/ pc[Main] = "returned") /\ UNCHANGED vars

Next == Running \/ Stopped

Spec == Init /\ [][Next]_vars

(* Every thread is scheduled, and gets a mutex that it waits for: they are *)
(* held for short sections only, and a worker sleeps for one second        *)
(* between its own.  An iteration of main's loop has only so many requests *)
(* to handle, and poll_metrics() is due every 500 ms.                      *)
Fairness ==
  /\ SF_vars(~crashed /\ (MainStep \/ Acquire(Main)))
  /\ SF_vars(~crashed /\ EndIteration) /\ SF_vars(~crashed /\ StartPoll)
  /\ SF_vars(~crashed /\ (Setup \/ Json \/ JsonRest \/ LeaveApi \/ Acquire(Api)))
  /\ \A g \in Node : SF_vars(~crashed /\ (WorkerStep(g) \/ Acquire(Worker(g))))

FairSpec == Spec /\ Fairness

-----------------------------------------------------------------------------
(* Properties.                                                             *)

MainPoints == {"discover", "loop", "serve", "lock_copy", "copy", "lock_get", "get",
  "lock_collect", "collect", "lock_publish", "publish", "publish_rest",
  "lock_find", "find", "lock_add", "add", "lock_add_fd", "add_fd", "emplace",
  "lock_message", "message", "join", "destroy", "stop", "join_worker", "returned"}
WorkerPoints == {"none", "check", "lock_scan", "scan", "sample", "table", "loads",
  "lock_sys", "lock_proc", "update", "done"}
ApiPoints == {"none", "setup", "poll", "lock_json", "json", "json_rest", "ended"}
Points == MainPoints \cup WorkerPoints \cup ApiPoints

Metrics ==
  [cpu : [poll : {0, 1}, power : (0 .. Slots + 1) \X Nat],
   gpu : [poll : {0, 1}, of : [Slot -> Nat]]]

(* Every variable has its type. *)
TypeOK ==
  /\ driver \in [Node -> Driver] /\ port_free \in BOOLEAN /\ hardware \in [Node -> Nat]
  /\ should_exit \in BOOLEAN /\ crashed \in BOOLEAN
  /\ pc \in [Thread -> Points]
  /\ pc[Main] \in MainPoints /\ pc[Api] \in ApiPoints
  /\ \A g \in Node : pc[Worker(g)] \in WorkerPoints
  /\ owner \in [Lock -> Thread \cup {Nobody}]
  /\ available_gpus \in Seq(Node) /\ i \in 1 .. Nodes + 1
  /\ m \in Metrics /\ current_metrics \in Metrics /\ snapshot \in {0, 1}
  /\ reading \in [Node -> Nat] /\ system_metrics \in [Node -> Nat]
  /\ derived \in [Node -> BOOLEAN] /\ stop_thread \in [Node -> BOOLEAN]

(* What a thread may be reading or writing where it is, and how. *)
Accesses(t) ==
  LET here == pc[t]
      own  == IF t = Main THEN IF i \in 1 .. GPUs THEN Gpu ELSE 0 ELSE t[2]
      At(points, kind, mode) ==
        IF here \in points
        THEN {<<kind, IF kind = "current" THEN 0 ELSE own, mode>>} ELSE {}
  IN  At({"publish", "publish_rest", "emplace"}, "current", "write")
      \cup At({"copy", "find", "message", "json", "json_rest"}, "current", "read")
      \cup At({"update"}, "system", "write") \cup At({"get"}, "system", "read")
      \cup At({"collect", "add", "table", "update"}, "process", "write")
      \cup At({"add_fd", "scan"}, "pids", "write") \cup At({"loads"}, "pids", "read")

Racing(t, u) ==
  \E a \in Accesses(t), b \in Accesses(u) :
    a[1] = b[1] /\ a[2] = b[2] /\ "write" \in {a[3], b[3]}

(* The pairs of accesses, main's first, that no mutex keeps apart. *)
KnownRaces ==
  ({"emplace"} \X {"json", "json_rest"})
  \cup ({"collect", "add"} \X {"table"}) \cup ({"add_fd"} \X {"loads"})

(* Two threads are never at conflicting accesses to a table, but for the   *)
(* accesses that the code makes without the table's mutex: the emplace     *)
(* against the api thread's copy, the worker's check and copy of           *)
(* process_metrics, and its walk over FDInfo's pids, against main's        *)
(* insertions.                                                             *)
OnlyKnownRaces ==
  \A t, u \in Thread :
    t # u /\ Racing(t, u) => <<pc[t], pc[u]>> \in KnownRaces \/ <<pc[u], pc[t]>> \in KnownRaces

(* What the api thread formats is one poll's work: the CPU's part and the  *)
(* GPUs' part of its copy are of the same poll_metrics().                  *)
SnapshotWhole == pc[Api] = "json_rest" => snapshot = current_metrics.gpu.poll

(* A power that is shown as the CPU's is the CPU's own or an APU's, and    *)
(* the APU's is never older than the figures published last.  It is that   *)
(* old, though, and an APU in the first slot is never asked: the slot that *)
(* is looked at is the one after the one just filled.  (With all slots in  *)
(* use the last GPU's neighbour is outside the array.)                     *)
PowerIsRecent ==
  pc[Main] \in {"lock_publish", "publish"} /\ m.cpu.power # OwnPower =>
    LET s == m.cpu.power[1] IN
    \/ s = Slots + 1 /\ GPUs = Slots
    \/ s \in 2 .. GPUs /\ driver[available_gpus[s]] = "apu"
       /\ m.cpu.power[2] = current_metrics.gpu.of[s]

(* Once the hardware rests, the figures in current_metrics come to be what *)
(* it shows, each GPU's in the slot of that GPU, unless the daemon stops.  *)
SettlesOnHardware ==
  <>[](\/ should_exit \/ crashed
       \/ pc[Main] # "discover" /\ \A j \in 1 .. GPUs : j \in Slot /\
            current_metrics.gpu.of[j] = hardware[available_gpus[j]])

(* After SIGINT main() returns, if it is not ended by what its destructors *)
(* take from under a worker.                                               *)
Terminates == should_exit ~> pc[Main] = "returned" \/ crashed

=============================================================================
