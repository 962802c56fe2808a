--------------------------- MODULE MetricsServer ----------------------------
(***************************************************************************)
(* Which processes the daemon knows about, in which table, while its main  *)
(* thread and one worker thread per GPU run side by side.                  *)
(*                                                                         *)
(*   cm     current_metrics.pids        written by main only               *)
(*   m      the local copy of it that poll_metrics() works on              *)
(*   io     IOStats::pids               main only                          *)
(*   gpm    GPU::process_metrics        main and the GPU's worker          *)
(*   fd     FDInfoWrapper::pids         main and the GPU's worker          *)
(*   cur    cur_proc_metrics, the worker's local copy of gpm               *)
(*                                                                         *)
(* The data in the tables is abstracted to WHOSE data it is: the           *)
(* incarnation of the process it was read from, 0 for default data.        *)
(***************************************************************************)
EXTENDS Naturals, FiniteSets

CONSTANTS
  Pid,          \* process ids that clients may have
  GPU,          \* gpus.available_gpus
  FDInfoGPU,    \* the GPUs whose driver class derives from FDInfo
  Absent,       \* "no entry with this key"
  MaxInc        \* bound: processes per pid

ASSUME FDInfoGPUAssumption == FDInfoGPU \subseteq GPU
ASSUME AbsentAssumption == Absent \notin Nat \cup Pid \cup [GPU -> Nat]
ASSUME MaxIncAssumption == MaxInc \in Nat

VARIABLES
  live, inc,    \* the processes: pids in /proc, incarnations used per pid
  queue,        \* requests <<pid, incarnation>> waiting in client sockets
  due,          \* more than 500 ms since last_stats_poll
  mpc,          \* where the main thread is
  cm, m, io,
  batch,        \* readable requests found by poll(), not handled yet
  req,          \* the request being handled
  todo,         \* iterations left of the main thread's current loop
  answered,     \* history: incarnations of each pid that were sent a message
  wpc,          \* where each worker is
  gpm, fd, cur

envVars    == <<live, inc, queue, due>>
mainVars   == <<mpc, cm, m, io, batch, req, todo, answered>>
workerVars == <<wpc, gpm, fd, cur>>
vars == <<live, inc, queue, due, mpc, cm, m, io, batch, req, todo, answered,
          wpc, gpm, fd, cur>>

Request == Pid \X Nat
NoRequest == <<Absent, 0>>

(* The keys of a std::map: every table is a function on Pid. *)
Keys(t) == {p \in Pid : t[p] # Absent}

(* The process whose data a read of /proc/<p> returns; 0 if there is none. *)
Inc(p) == IF p \in live THEN inc[p] ELSE 0

NoSample == [g \in GPU |-> 0]        \* process_metrics()
Empty    == [p \in Pid |-> Absent]

Sleeping == {"asleep", "asleep_polling", "rested"}

-----------------------------------------------------------------------------
(* The processes.                                                          *)

(* No table, and no request under way, mentions pid p. *)
Forgotten(p) ==
  /\ cm[p] = Absent /\ m[p] = Absent /\ io[p] = Absent
  /\ \A g \in GPU : gpm[g][p] = Absent /\ fd[g][p] = Absent /\ cur[g][p] = Absent
  /\ \A r \in queue \cup batch \cup {req} : r[1] # p

Spawn(p) ==
  /\ p \notin live
  /\ inc[p] < MaxInc
  /\ live' = live \cup {p}
  /\ inc' = [inc EXCEPT ![p] = @ + 1]
  /\ UNCHANGED <<queue, due, mainVars, workerVars>>

Exit(p) ==
  /\ p \in live
  /\ live' = live \ {p}
  /\ UNCHANGED <<inc, queue, due, mainVars, workerVars>>

(* A client writes a request; SO_PASSCRED stamps it with the sender's pid. *)
Send(p) ==
  /\ p \in live
  /\ <<p, inc[p]>> \notin queue
  /\ queue' = queue \cup {<<p, inc[p]>>}
  /\ UNCHANGED <<live, inc, due, mainVars, workerVars>>

Tick ==
  /\ ~due
  /\ due' = TRUE
  /\ UNCHANGED <<live, inc, queue, mainVars, workerVars>>

-----------------------------------------------------------------------------
(* The main thread: poll_metrics().                                        *)

\* mutant: the value-initialised copy is never filled
StartPollNoCopy ==
  /\ mpc = "loop" /\ due
  /\ due' = FALSE
  /\ mpc' = "prune"
  /\ wpc' = [g \in GPU |-> IF wpc[g] = "asleep" THEN "asleep_polling" ELSE wpc[g]]
  /\ UNCHANGED <<m, live, inc, queue, cm, io, batch, req, todo, answered, gpm, fd, cur>>

(* current_metrics is copied under its lock.  A worker that is asleep now  *)
(* sleeps through this poll.                                               *)
StartPoll ==
  /\ mpc = "loop" /\ due
  /\ due' = FALSE
  /\ m' = cm
  /\ mpc' = "prune"
  /\ wpc' = [g \in GPU |-> IF wpc[g] = "asleep" THEN "asleep_polling" ELSE wpc[g]]
  /\ UNCHANGED <<live, inc, queue, cm, io, batch, req, todo, answered, gpm, fd, cur>>

(* Pids without a /proc directory leave the copy. *)
Prune ==
  /\ mpc = "prune"
  /\ m' = [p \in Pid |-> IF p \in live THEN m[p] ELSE Absent]
  /\ todo' = Keys(m') \X GPU
  /\ mpc' = "collect"
  /\ UNCHANGED <<envVars, cm, io, batch, req, answered, workerVars>>

\* mutant: get_process_metrics() dereferences find(pid)
CollectFind(p, g) ==
  /\ mpc = "collect" /\ <<p, g>> \in todo
  /\ todo' = todo \ {<<p, g>>}
  /\ m' = [m EXCEPT ![p][g] = gpm[g][p]]
  /\ UNCHANGED <<gpm, envVars, mpc, cm, io, batch, req, answered, wpc, fd, cur>>

(* get_process_metrics(pid) reads process_metrics[pid] under the GPU's     *)
(* lock: operator[] inserts a default entry for an unknown pid.            *)
Collect(p, g) ==
  /\ mpc = "collect" /\ <<p, g>> \in todo
  /\ todo' = todo \ {<<p, g>>}
  /\ gpm' = [gpm EXCEPT ![g][p] = IF @ = Absent THEN 0 ELSE @]
  /\ m' = [m EXCEPT ![p][g] = gpm'[g][p]]
  /\ UNCHANGED <<envVars, mpc, cm, io, batch, req, answered, wpc, fd, cur>>

(* iostats.poll() erases dead pids; get_stats() re-creates an entry, with  *)
(* no stream, for every pid of the copy.                                   *)
PollIO ==
  /\ mpc = "collect" /\ todo = {}
  /\ LET kept == {p \in live : io[p] # Absent}
     IN  io' = [p \in Pid |-> IF p \in kept THEN io[p]
                             ELSE IF p \in Keys(m) THEN 0 ELSE Absent]
  /\ mpc' = "publish"
  /\ UNCHANGED <<envVars, cm, m, batch, req, todo, answered, workerVars>>

(* current_metrics is overwritten with the copy, under its lock. *)
Publish ==
  /\ mpc = "publish"
  /\ cm' = m
  /\ m' = Empty
  /\ mpc' = "poll"
  /\ wpc' = [g \in GPU |-> IF wpc[g] = "asleep_polling" THEN "rested" ELSE wpc[g]]
  /\ UNCHANGED <<envVars, io, batch, req, todo, answered, gpm, fd, cur>>

-----------------------------------------------------------------------------
(* The main thread: client requests.                                       *)

(* poll(): every client that is still there and has written is readable.   *)
(* One whose process is gone is hung up and closed unread, unless another  *)
(* process holds the connection open.                                      *)
PollSockets ==
  /\ mpc = "poll" \/ (mpc = "loop" /\ ~due)
  /\ \E held \in SUBSET {r \in queue : r[2] # Inc(r[1])} :
       batch' = {r \in queue : r[2] = Inc(r[1])} \cup held
  /\ queue' = {}
  /\ mpc' = "handle"
  /\ UNCHANGED <<live, inc, due, cm, m, io, req, todo, answered, workerVars>>

\* mutant: a client is answered only when it is registered
HandleNewOnly(r) ==
  /\ mpc = "handle" /\ r \in batch
  /\ batch' = batch \ {r}
  /\ req' = r
  /\ mpc' = IF cm[r[1]] # Absent THEN "handle" ELSE "add_io"
  /\ UNCHANGED <<envVars, cm, m, io, todo, answered, workerVars>>

(* The credentials are read and the pid is looked up in current_metrics.   *)
Handle(r) ==
  /\ mpc = "handle" /\ r \in batch
  /\ batch' = batch \ {r}
  /\ req' = r
  /\ mpc' = IF cm[r[1]] # Absent THEN "reply" ELSE "add_io"
  /\ UNCHANGED <<envVars, cm, m, io, todo, answered, workerVars>>

\* mutant: no GPU is found to be an FDInfo
AddIONoFDInfo ==
  /\ mpc = "add_io"
  /\ io' = [io EXCEPT ![req[1]] = IF @ = Absent THEN Inc(req[1]) ELSE @]
  /\ todo' = {"gpu"} \X GPU
  /\ mpc' = "add_gpu"
  /\ UNCHANGED <<envVars, cm, m, batch, req, answered, workerVars>>

(* IOStats::add_pid opens /proc/<pid>/io unless the pid is known. *)
AddIO ==
  /\ mpc = "add_io"
  /\ io' = [io EXCEPT ![req[1]] = IF @ = Absent THEN Inc(req[1]) ELSE @]
  /\ todo' = ({"gpu"} \X GPU) \cup ({"fd"} \X FDInfoGPU)
  /\ mpc' = "add_gpu"
  /\ UNCHANGED <<envVars, cm, m, batch, req, answered, workerVars>>

(* GPU::add_pid: try_emplace under the lock. *)
AddGPU(g) ==
  /\ mpc = "add_gpu" /\ <<"gpu", g>> \in todo
  /\ todo' = todo \ {<<"gpu", g>>}
  /\ gpm' = [gpm EXCEPT ![g][req[1]] = IF @ = Absent THEN 0 ELSE @]
  /\ UNCHANGED <<envVars, mpc, cm, m, io, batch, req, answered, wpc, fd, cur>>

(* FDInfoWrapper::add_pid: a new entry opens the fdinfo files it finds.    *)
AddFDInfo(g) ==
  /\ mpc = "add_gpu" /\ <<"fd", g>> \in todo /\ <<"gpu", g>> \notin todo
  /\ todo' = todo \ {<<"fd", g>>}
  /\ fd' = [fd EXCEPT ![g][req[1]] = IF @ = Absent THEN Inc(req[1]) ELSE @]
  /\ UNCHANGED <<envVars, mpc, cm, m, io, batch, req, answered, wpc, gpm, cur>>

(* current_metrics.pids.try_emplace(pid), without the lock. *)
Emplace ==
  /\ mpc = "add_gpu" /\ todo = {}
  /\ cm' = [cm EXCEPT ![req[1]] = IF @ = Absent THEN NoSample ELSE @]
  /\ mpc' = "reply"
  /\ UNCHANGED <<envVars, m, io, batch, req, todo, answered, workerVars>>

(* form_mangohud_message() and send_message(). *)
Reply ==
  /\ mpc = "reply"
  /\ answered' = [answered EXCEPT ![req[1]] = @ \cup {req[2]}]
  /\ req' = NoRequest
  /\ mpc' = "handle"
  /\ UNCHANGED <<envVars, cm, m, io, batch, todo, workerVars>>

EndIteration ==
  /\ mpc = "handle" /\ batch = {}
  /\ mpc' = "loop"
  /\ UNCHANGED <<envVars, cm, m, io, batch, req, todo, answered, workerVars>>

-----------------------------------------------------------------------------
(* The worker thread of GPU g: GPU::poll().                                *)

Goto(g, from, to) ==
  /\ wpc[g] = from
  /\ wpc' = [wpc EXCEPT ![g] = to]

(* The sleep is over. *)
Wake(g) ==
  /\ wpc[g] \in Sleeping
  /\ wpc' = [wpc EXCEPT ![g] = IF g \in FDInfoGPU THEN "fdinfo" ELSE "check"]
  /\ UNCHANGED <<envVars, mainVars, gpm, fd, cur>>

(* fdinfo.poll_all() from pre_poll_overrides(): dead pids are erased, and  *)
(* those in R, whose last scan is 10 s old, are scanned again.             *)
PollFDInfo(g, R) ==
  /\ Goto(g, "fdinfo", "check")
  /\ fd' = [fd EXCEPT ![g] =
              [p \in Pid |-> IF p \notin live \/ @[p] = Absent THEN Absent
                            ELSE IF p \in R THEN inc[p] ELSE @[p]]]
  /\ UNCHANGED <<envVars, mainVars, gpm, cur>>

\* mutant: dead pids are not looked for
CheckNone(g) ==
  /\ Goto(g, "check", "copy")
  /\ UNCHANGED <<envVars, mainVars, gpm, fd, cur>>

(* check_pids_existence(), without the lock. *)
CheckPids(g) ==
  /\ Goto(g, "check", "copy")
  /\ gpm' = [gpm EXCEPT ![g] = [p \in Pid |-> IF p \in live THEN @[p] ELSE Absent]]
  /\ UNCHANGED <<envVars, mainVars, fd, cur>>

(* cur_proc_metrics = process_metrics, without the lock. *)
Copy(g) ==
  /\ Goto(g, "copy", "compute")
  /\ cur' = [cur EXCEPT ![g] = gpm[g]]
  /\ UNCHANGED <<envVars, mainVars, gpm, fd>>

(* Whose data get_process_load() and its siblings find for pid p. *)
Sample(g, p) ==
  IF g \in FDInfoGPU
  THEN IF fd[g][p] = Absent THEN 0 ELSE fd[g][p]
  ELSE Inc(p)

Compute(g) ==
  /\ Goto(g, "compute", "publish")
  /\ cur' = [cur EXCEPT ![g] =
               [p \in Pid |-> IF @[p] = Absent THEN Absent ELSE Sample(g, p)]]
  /\ UNCHANGED <<envVars, mainVars, gpm, fd>>

(* process_metrics = cur_proc_metrics, under the lock: what main inserted  *)
(* since Copy is overwritten.                                              *)
PublishGPU(g) ==
  /\ Goto(g, "publish", "asleep")
  /\ gpm' = [gpm EXCEPT ![g] = cur[g]]
  /\ cur' = [cur EXCEPT ![g] = Empty]
  /\ UNCHANGED <<envVars, mainVars, fd>>

-----------------------------------------------------------------------------
Init ==
  /\ live = {} /\ inc = [p \in Pid |-> 0] /\ queue = {} /\ due = TRUE
  /\ mpc = "loop" /\ cm = Empty /\ m = Empty /\ io = Empty
  /\ batch = {} /\ req = NoRequest /\ todo = {}
  /\ answered = [p \in Pid |-> {}]
  /\ wpc = [g \in GPU |-> IF g \in FDInfoGPU THEN "fdinfo" ELSE "check"]
  /\ gpm = [g \in GPU |-> Empty]
  /\ fd = [g \in GPU |-> Empty]
  /\ cur = [g \in GPU |-> Empty]

Environment == Tick \/ \E p \in Pid : Spawn(p) \/ Exit(p) \/ Send(p)

Main ==
  \/ StartPoll \/ Prune \/ PollIO \/ Publish
  \/ \E p \in Pid, g \in GPU : Collect(p, g)
  \/ PollSockets \/ AddIO \/ Emplace \/ Reply \/ EndIteration
  \/ \E r \in batch : Handle(r)
  \/ \E g \in GPU : AddGPU(g) \/ AddFDInfo(g)

Worker(g) ==
  \/ Wake(g) \/ CheckPids(g) \/ Copy(g) \/ Compute(g) \/ PublishGPU(g)
  \/ \E R \in SUBSET Pid : PollFDInfo(g, R)

Next == Environment \/ Main \/ \E g \in GPU : Worker(g)

Spec == Init /\ [][Next]_vars

-----------------------------------------------------------------------------
(* Fairness.  Every thread keeps running; time passes; the fdinfo of a pid *)
(* is scanned again and again as its 10 s timer keeps expiring.            *)
Fairness ==
  /\ WF_vars(Main) /\ WF_vars(Tick)
  /\ \A g \in GPU : WF_vars(Worker(g))
  /\ \A g \in FDInfoGPU, p \in Pid :
       SF_vars(\E R \in SUBSET Pid : p \in R /\ PollFDInfo(g, R))

FairSpec == Spec /\ Fairness

-----------------------------------------------------------------------------
(* Properties.                                                             *)

Table(S) == [Pid -> S \cup {Absent}]

(* Every variable has its type. *)
TypeOK ==
  /\ live \subseteq Pid /\ inc \in [Pid -> Nat]
  /\ queue \subseteq Request /\ batch \subseteq Request
  /\ req \in Request \cup {NoRequest}
  /\ due \in BOOLEAN
  /\ mpc \in {"loop", "prune", "collect", "publish", "poll", "handle",
              "add_io", "add_gpu", "reply"}
  /\ cm \in Table([GPU -> Nat]) /\ m \in Table([GPU -> Nat])
  /\ io \in Table(Nat)
  /\ todo \subseteq (Pid \X GPU) \cup ({"gpu", "fd"} \X GPU)
  /\ answered \in [Pid -> SUBSET Nat]
  /\ wpc \in [GPU -> Sleeping \cup {"fdinfo", "check", "copy", "compute", "publish"}]
  /\ gpm \in [GPU -> Table(Nat)]
  /\ fd \in [GPU -> Table(Nat)]
  /\ cur \in [GPU -> Table(Nat)]

(* The running process of pid p has been sent its metrics. *)
Served(p) == p \in live /\ inc[p] \in answered[p]

(* A process that has been answered stays in current_metrics for as long   *)
(* as it lives: no write-back by poll_metrics() loses it, though it copies *)
(* the table, works on the copy, and overwrites the table with it.         *)
ServedStaysTracked == \A p \in Pid : Served(p) => cm[p] # Absent

(* What a worker's unlocked copy and late write-back lose from             *)
(* GPU::process_metrics, poll_metrics() has put back before the worker's   *)
(* next cycle: no tracked pid is missing for more than one cycle.          *)
LostUpdateHealed ==
  \A g \in GPU : wpc[g] = "rested" =>
     \A p \in Pid : cm[p] # Absent => gpm[g][p] # Absent

(* The tables keep the promise of ClientRegistry. *)
Registry == INSTANCE ClientRegistry WITH tracked <- Keys(cm)
KeepsPromise == Registry!Spec

(* Every request of a process that lives on comes to be answered, its      *)
(* first and each later one, and with an entry of its pid in               *)
(* current_metrics to answer it from.  (A request that waits while an      *)
(* earlier one is answered is still to be answered after that.)            *)
RequestAnswered ==
  \A p \in Pid : \A i \in 1 .. MaxInc :
    <<p, i>> \in queue ~>
      \/ mpc = "reply" /\ req = <<p, i>> /\ cm[p] # Absent
      \/ Inc(p) # i

(* A pid whose process is gone is erased from every table of every thread, *)
(* though main and the workers keep re-inserting it for each other.        *)
DeadForgotten == \A p \in Pid : p \notin live ~> p \in live \/ Forgotten(p)

(* A step that timing makes unlikely: a pid is reused before every table   *)
(* has dropped it; or a worker's sleep of one second passes without a      *)
(* whole poll_metrics(), which main runs every 500 ms if nothing holds it. *)
Untimely ==
  \/ \E p \in Pid : inc'[p] # inc[p] /\ ~Forgotten(p)
  \/ \E g \in GPU : wpc[g] \in Sleeping \ {"rested"} /\ wpc'[g] \notin Sleeping

=============================================================================
