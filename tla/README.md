# mangohud-server: TLA+ models and proofs

`mangohud-server` is a daemon that samples CPU, GPU, memory and I/O metrics and
hands them to client processes (the MangoHud overlays) over a unix socket, and as
JSON over a TCP socket on the loopback interface.  This directory holds TLA+
models of it, TLC configurations that check them on small instances, and proofs
that TLAPS checks for every value of the constants.

## 1. Inventory

### Threads and what they share

| thread | code | runs |
|---|---|---|
| main | `main.cpp` | every 500 ms `poll_metrics()`; otherwise `poll()` on the unix socket, accept, receive, register, reply |
| api | `api.cpp` | `poll()` on the TCP socket; one JSON response per connection |
| one worker per GPU | `gpu.cpp`, `GPU::poll` | samples its GPU and the clients' use of it, then sleeps for one second |

| state | owner and lock | written by | read by |
|---|---|---|---|
| `current_metrics` | `current_metrics_lock` | main: overwritten by `poll_metrics()` under the lock, `try_emplace` at registration *without* it | main and api, copied under the lock |
| `GPU::process_metrics` | `process_metrics_mutex` | main (`add_pid`, `get_process_metrics(pid)` inserts through `operator[]`) under the lock; worker erases *without* it, overwrites under it | worker copies *without* the lock |
| `GPU::system_metrics` | `system_metrics_mutex` | worker | main |
| `FDInfoWrapper::pids` | `pids_mutex` | main (`add_pid`), worker (`poll_all`) under the lock | worker (`get_gpu_time`, `get_memory_used`) *without* it |
| `buf` of `AMDGPUMetrics` | none, `static` | the workers of all AMD GPUs | the same |
| `IOStats::pids`, CPU, sensors of the CPU | main only | | |
| `should_exit` | atomic | SIGINT handler | main, api |
| `poll_fds` | one per loop | its thread | its thread |
| the socket's path, the api's port | the file system, the kernel | every daemon that starts or ends | clients |

### Components

| component | state | operations | what makes it correct |
|---|---|---|---|
| client registration, `main.cpp` | `current_metrics.pids` | register, answer, prune, write back | an answered process is tracked while it lives; requests are answered; dead pids are forgotten |
| GPU worker, `gpu.cpp` | `process_metrics`, its copy | check pids, copy, compute, publish, stop, join | what its write-back loses is restored; a client's figures are its own; the shutdown waits for it |
| metrics poll, `main.cpp` | the copy `m`, slots of GPUs | collect, merge an APU's power, publish | a copy is of one poll; a slot is one GPU's |
| discovery, `GPUS` | `available_gpus` | once at start | a GPU keeps its slot |
| `fdinfo.cpp` | streams and last contents per pid | add, poll, rescan every 10 s, sum times and memory | every DRM client of a process is counted, once; new ones are found |
| process load, GPU drivers | `previous_gpu_times`, `previous_cycles` | one sample per poll | a load is the client's share of the interval, 0 to 100 |
| `iostats.cpp` | previous totals, rates, stream | add, poll, get | rates times intervals add up to what the process did |
| poll loops, `main.cpp`, `api.cpp` | `poll_fds`, iterators to erase, descriptors to add | accept, serve, close | the vector names the open connections; the right one is closed; no client starves; SIGINT stops it |
| CPU, `cpu/*` | previous times, cores, info | poll load, frequency, power, temperature | a figure belongs to the core it is shown for, and is the interval's |
| energy counters, `rapl`, `zenergy`, `i915`, `xe` | last value, previous usage | poll the sensor, take the difference | the energies shown add up |
| `hwmon.cpp` | open sensor files, last values | find, open, poll | the file read is the one asked for |
| AMDGPU metrics, `amdgpu/*` | the shared buffer, parsed table | verify, poll, parse | figures of the GPU's own table, by the fields of its version, each poll anew |
| Intel throttling, `i915`, `xe` | streams of status and reasons | read one after another | what is reported held, and what lasts is reported |
| `nvidia/*` | NVML handle | load, ask for the number, ask for the list | a client is shown its own memory |
| socket setup, `main.cpp`, `api.cpp` | path, port | remove, bind, listen | a daemon that starts alone comes to be reached, whatever a crash left |
| Panfrost, MSM, `memory.cpp`, helpers, JSON formatting | none | single reads | |

`PROJECT.json` lists each with its status, and the places where each is hard to
test ("hazards").

### What is hard here

* **Copy, edit, write back.**  `poll_metrics()` and `GPU::poll()` both copy a
  table, work for a while, and overwrite the table with the result, while another
  operation inserts into it.
* **Tables that refill each other.**  A dead pid is erased by the worker, and
  re-inserted by main's `operator[]` as long as main tracks it, and the other way
  around.
* **Accesses without the mutex**, and threads joined by destructors.
* **Pid reuse.**  Streams are bound to a process, tables to a pid.
* **The vector that is changed after the walk over it**: iterators to erase,
  descriptors to append.
* **Blocking sends, hang-ups and resets** between `poll()` and the call it
  announced.
* **Counters** that start, wrap or go back, and baselines that are 0.
* **Reads that fail**: some keep the old value, some spoil the stream for ever.
* **What a crash leaves**: a socket file, a port in TIME_WAIT.

## 2. Plan

Done, in this order, the most important behaviour first:

| module | models | composes |
|---|---|---|
| `ClientRegistry` | the abstract promise: an answered process stays tracked while it lives | |
| `MetricsServer` | every table of pids, under main and the workers | implements `ClientRegistry` |
| `PollLoop` | the poll loops of main and api | |
| `SystemMetrics` | main, api and workers with their mutexes: discovery, the way of a GPU's figures to a response, the APU merge, shutdown | the three threads |
| `FDInfo` | descriptors, scans, streams, engine times, load of one process | details what `MetricsServer!Sample` abstracts to an incarnation |
| `XeCycles` | the same for `xe`: streams and cycles of the clients of several processes | |
| `IOStats` | entries, totals, rates of one pid | details what `MetricsServer!io` abstracts |
| `CPU`, `CPULoad` | slots of cores under hotplug; the arithmetic of a line's load | |
| `Energy`, `Hwmon` | power from energy counters; which file a sensor reads | |
| `AMDGPUMetrics`, `IntelThrottle`, `Nvidia` | what is particular to each driver | |
| `Startup` | daemons that start, crash and start again | |
| `Parts` | all of the above that share nothing with other threads | `IOStats`, `CPU`, `CPULoad`, `Energy`, `Hwmon`, `AMDGPUMetrics`, `IntelThrottle`, `XeCycles`, `Nvidia`, `Startup` |

`...Proofs` modules hold the theorems about the module they are named after:
`CPUProofs` those about `CPULoad`, `CPU`, `Hwmon` and `Energy`, `GPUProofs` those about
`IntelThrottle`, `XeCycles` and `AMDGPUMetrics`, `PartsProofs` those about `Startup`,
`Nvidia` and the composition of the parts.  `MC...` modules hold the values that the
configurations give to constants.

Left: *memory figures* of the drivers (`get_memory_used()`, the drm queries), which
travel with the incarnation they were read from.

## 3. How the modules correspond to the code

`PROJECT.json` ("map") gives the lines of every definition.

**MetricsServer.**  `mpc` and `todo` are the main thread's position,
`wpc[g]` a worker's.  A step is one access to a shared table: `StartPoll` copies
`current_metrics`, `Prune`, `Collect` (one `get_process_metrics(pid)`
each), `PollIO` and `Publish` are the rest of `poll_metrics()`; `PollSockets`,
`Handle`, `AddIO`, `AddGPU`, `AddFDInfo`, `Emplace`, `Reply` are the walk over the
readable clients.  A worker does `Wake`, `PollFDInfo`, `CheckPids`,
`Copy`, `Compute`, `PublishGPU`.  Figures are abstracted to the process they were
read from: an *incarnation* of the pid, 0 for default data.  Accesses that race
in the code are taken to be atomic here; `SystemMetrics` says which they are.

**SystemMetrics.**  `pc[t]` is a thread's position, `owner[l]` who has a mutex.
`"lock_x"` is the wait for the mutex of the critical section `x`; a step
does the section and releases.  A GPU's figures are one number, its
*reading*: the state of the hardware when the worker sampled it.  `m` is
`poll_metrics()`'s copy, and `Merged` what the APU merge does to it, the neighbouring
slot included.  `Racing` compares the accesses two threads are about to make.
An iteration of main's loop that polls nothing (`SkipPoll`) or has published goes on at
`"serve"`, where it handles any number of requests until `EndIteration`, SIGINT or not.
`crashed` stands for undefined behaviour: a GPU past the end of the array, a
worker inside a derived class whose destructor has run, or one that calls it
between that destructor and `~GPU()`.

**PollLoop.**  `poll_fds` is the vector by descriptor, `i` the walk,
`fds_to_close` the iterators (as indices) and `fds_to_add` the new descriptors.
`conn[f]` is the kernel's view: open, `"fin"` once the client sends no more (a TCP
client's `close()`, a unix client's `shutdown()`), `"hup"`, and `"pipe"` for a TCP client's
reset after a fin, which makes `send()` raise SIGPIPE.  `recvmsg()` fails when the client
has gone since `poll()`, and at the end of what a client sends, which comes without
credentials: such an entry is readable for ever, and every walk passes it by.  Any other
message has credentials, as accepted sockets inherit `SO_PASSCRED`.
`sendmsg()` of the main thread blocks when `SndBuf` replies are unread.  `thread`
says whose loop it is.

**FDInfo.**  `client[f]` is the DRM client of descriptor `f`.  A scan is the steps
`FindDir`, `FindFds`, `Clear`, one `OpenFd` per descriptor that was found, `EndInit`; a
poll is one `Read` per stream and `Sample`; between any two of them the process
may open, close, run or exit.  `data[f]` is what `fds_data` holds for a stream: a
client's id and time, kept when the descriptor has been closed.  The uncaught
exception of `directory_iterator` is the state `"terminated"`.  The contents of
a stream are read in one step, as the kernel prints them in one.

**XeCycles.**  `client[f]` is the DRM client of descriptor `f`, a process and a number.
`cycles[c]` and `total_cycles` are the kernel's two counters, `fds_data[f]` what was last
read through the stream on that number, of whatever client had it then, and
`previous_cycles` the table by client id that all processes share.  Streams are read one
after another (`ReadStream`), and later added up one after another (`AddLoad`);
between reads descriptors are opened, duplicated within a process or to another,
closed and reused.  A scan (`Scan`) is one step here.

**IOStats.**  `entry` is `pids[pid]`, `total` what the kernel counts.  `GetStats`
creates an entry without a stream, as `operator[]` does.  A process that comes to run a
program whose `io` may not be read is `denied`: the totals are then 0.  `base` and `shown` are
history: where counting began and the sum of the rates shown since.

**CPU and CPULoad.**  In `CPU` a slot says *whose* load and frequency it holds:
`of`, since whose times the load is measured, and `frequency_of`; cores may come
and go between the reads of the two files.  `CPULoad` is one line of `/proc/stat`: the
sum in an `int` (`IntRange`), the unsigned differences (`TimeRange`) and what `seekg(5)`
makes of the `digits` of a core's number: from the third on they are the first column
(`rest`), part of the sum, and the fourth, taken for the idle time, is the system time.

**Energy and Hwmon.**  `Energy` is a counter, a hwmon sensor that holds what was last
read of it, and the power taken from that as the energy of an interval, as RAPL,
zenergy or an Intel GPU does it.  `Hwmon` is the search: a directory is chosen and
listed in any order, a file may match several sensors and a sensor several files.

**AMDGPUMetrics.**  A table is the GPU and the number of its state; a poll is
`ReadTable` (or `ReadNothing`), `Header`, `ParseV1` or `ParseV2`, and `Throttle`, and the
workers of several GPUs interleave these on one `buf`, which is kept in *parts*: what
tables of both formats and lengths overwrite separately.

**IntelThrottle.**  `CheckStatus`, one `CheckReason` per file and `SumReasons` are
`get_throttling_status()`; reasons come and go in between.  `broken` are the
streams that have failed and are never cleared.

**Nvidia.**  `CountProcesses` and `ListProcesses` are the two calls of `get_processes()`,
`LoadNVML` and `InitNVML` what must succeed for the GPU to exist.

**Startup.**  `file` and `port` say whose the path and the port are.  `Die` takes a
daemon at any moment, and `"stale"` and `"wait"` are what it leaves.

**Parts.**  `AllPartsSpec` interleaves the steps of all these parts.  They share nothing,
so checking that would only multiply their states; the runs check `PartsSpec`, whose
behaviours are those of `AllPartsSpec` (theorem `PartsAreOfAll`) in which only one part
moves, chosen by `part` in the initial state.  A property of one part is therefore checked
over all of its own behaviours.  The theorems are about `AllPartsSpec`.

## 4. What is checked

| run | question | bounds |
|---|---|---|
| `tracking_clients` | do two clients and a worker lose each other's insertions? | 2 pids, 1 GPU, 1 process per pid |
| `tracking_reuse` | does `ClientRegistry` hold, is each request answered, the first and any later one, are dead pids forgotten and answered processes shown their own data when a pid is reused at any moment? | 1 pid, 2 processes, 1 GPU with fdinfo |
| `loop_main` | does the vector name the open connections, are only broken ones closed? | 3 descriptors, 1 request each, one client that may stop to send |
| `loops_live` | does every connection end that is done with, is nobody starved, does SIGINT stop the loop? | 2 descriptors, either loop |
| `loop_api_sigpipe` | *violated*: is every broken connection closed? | 2 descriptors |
| `system_metrics` | which accesses race, is a copy whole, what does the APU merge take? | 3 render nodes, 2 slots |
| `system_live` | do figures settle in the right slot, does SIGINT end every thread? | two GPUs, or one, behind a node without one; one GPU; none |
| `fdinfo` | is each DRM client counted once, are loads honest, do scans catch up? | 2 descriptors, 2 clients, time up to 2, scan every other poll |
| `parts` | the safety of each part | below |
| `parts_live` | what does each part come to show of a system that stays as it is? | smaller |
| `cpu_frequency` | *violated*: is the frequency the maximum of the cores? | 3 cores, 2 frequencies |
| `amd_core_power` | *violated*: is the fallback power the sum of the cores'? | as in `parts` |

The parts and their properties:

| part | properties | bounds in `parts` |
|---|---|---|
| client I/O | `RatesAddUp`; `IdleShowsZero` | 2 processes in turn, 3 bytes each way |
| CPU load | `OneBadPoll` | 6 jiffies, an int of 6, a 64-bit word of 24, third digits 0 and 2 |
| CPU cores | `SideBySide`; `Settles` | 3 cores, 2 frequencies |
| energy | `EnergyAddsUp`; `NoEnergyNoPower` | a counter that wraps at 4, a word of 8 |
| sensors | `OwnFile` | 2 chips, 2 sensors, 5 files, some of which match both or do not open |
| amdgpu | `OwnFigures`; `FollowsTable` | 2 GPUs, 2 tables each, versions (1.1, 2.3), (1.3, 2.2), (2.2, 2.4) |
| throttling | `ReportsWhatHeld` | 3 files, a reason without one, 2 failures |
| xe | `CyclesAddUp` | 3 descriptors of 2 processes, 2 clients, 2 cycles, none doubled |
| nvidia | ; `MemorySettles` | 2 processes, 2 failing calls |
| startup | `LoneStartSucceeds` | 3 daemons |

(After the semicolon: liveness, in `parts_live`.  `PartsTypeOK` is the type invariant of
all of them.)

Why the bounds are enough.  A lost update needs one pid, one worker, and a second
pid only to occupy main; workers share nothing with each other but the buffer of
`AMDGPUMetrics`.  Reuse needs two processes: a third meets no table that the second
did not leave.  A wrong `erase()` order needs three entries after the listener.  The
machines of `system_metrics` are an APU alone, an APU behind an unsupported node and
another GPU (so that its slot is the neighbour of another), and more GPUs than
slots.  Those of `system_live` have two GPUs whose slots are not their nodes, with
figures that differ, one GPU whose figures change, one with an api thread, and none; of the
two-GPU machine no SIGINT is looked at.  A DRM client counted twice needs two
descriptors; a sum that goes down needs two clients.  Rescans after ten polls or after two differ in how much happens in
between, and two already let any sequence of descriptor operations happen, since
polls do not bound it.  A base, a difference and a next difference need three
bytes; 0 and not 0 in each direction are both reached.  A slot shifts when the
middle one of three cores goes.  A sum of jiffies crosses both halves of an int of six.
Three descriptors of two processes let one process have two streams and duplicate, close
and reuse their numbers; nothing is said of a client once it is doubled, so `parts` has
none of them (`MaxDoubled`).
The pairs of AMD versions are those in which one table is longer than the
other, or of the other format, in the same buffer.  A second daemon takes the path, a third
finds what both left.

**Deadlock** is checked except in `PollLoop` (SIGINT and SIGPIPE end it),
`FDInfo` (the entry is erased, or the exception ends the daemon) and `Parts` (a part
comes to rest where its counters reach their bounds).

**Fairness.**  All modules assume of the code that threads keep running: their
loops sleep for a bounded time and take locks for bounded sections.
* `MetricsServer`: the 10 s timer gives strong fairness to scans of each pid: it
  expires again and again whatever the order of steps.
* `PollLoop`: clients that were sent a reply are assumed to read it; the main
  thread's blocking `sendmsg()` makes every liveness property depend on that.
* `SystemMetrics`: each mutex is free for most of a second, so a thread that waits for it
  gets it: strong fairness of each thread's steps, `Acquire` included.  An iteration of
  main's loop has only so many requests to handle, and `poll_metrics()` is due every
  500 ms whatever clients ask for: strong fairness of `EndIteration` and `StartPoll`.
* `Parts`: polls go on; each client is looked up again and again; not every read of an
  AMD GPU's table fails.

No process is ever assumed to exit, ask or connect, nor a daemon to crash.

**Properties worth a remark.**
* `LostUpdateHealed` is the weaker truth behind the unlocked copy in `GPU::poll`: the
  pid *is* lost, and `get_process_metrics()` of the next `poll_metrics()` puts it
  back.  It says so of workers into whose sleep a whole `poll_metrics()` fitted.
* `SampleArrives` is about behaviours in which no step was *untimely*: no pid was
  reused while a table still had it (pid allocation is cyclic), and no worker woke before
  a whole `poll_metrics()` had fitted into its sleep of one second.  Without the first
  a reused pid is taken for the old client, whose streams read nothing; without the
  second, each late write-back may drop the pid again.
* `OnlyKnownRaces` lists the pairs of accesses that no mutex keeps apart, and says that
  there is no other.  What a data race does is undefined and not modelled;
  the other properties take such accesses to be atomic.
* `PowerIsRecent` states what is left of the APU merge: `is_apu` is read from the slot
  after the GPU's own, so an APU in the first slot is never asked, and a later one is
  taken with its figures of the previous poll, never older.
* `CountedOnce` and `HonestBetweenScans` hold until a descriptor number that has a
  stream is reused; from then on the stream shows another client, and
  `CatchesUp` says that a later scan repairs it.  `HonestBetweenScans` allows the time of
  two intervals, as a stream may be read early in one poll and late in the next.
* `IdleShowsZero` leaves out a stream that belongs to an earlier process with the
  same pid: its counters read as 0, the difference wraps, and the baseline branch then
  keeps that rate for ever.
* `OneBadPoll`: the sum of jiffies is an `int`, so one poll in 2^32 jiffies has a wrong
  total; the property says which one, and that all others are right.
  It leaves out the idle time of cores from 100 on, whose columns shift; the digit that is
  in their sums counts as time in the first poll, and cancels out of every later one.
* `OwnFigures` is about polls that overlap no other GPU's; overlapping ones may mix
  tables in the static buffer.  It leaves out the throttle bits of versions 1.1 and
  1.2, which have none: what is shown is what a longer table left there.
* `CyclesAddUp` leaves out clients that two processes have held, and those that came to
  the number of a stream while another stream showed them: with streams 5 of client 1
  and 6 of client 2, `dup2(6, 5)` and `close(6)` leave stream 5 with client 2's newer and
  stream 6 with its older reading, and both differences wrap.
* `RatesAddUp` and `IdleShowsZero` leave out processes whose `io` has become unreadable:
  the totals of 0 wrap once, and the rate then stays.
* `GPU`'s members are destroyed before the worker is joined.  No property promises the
  worker its derived class; `Terminates` says that the shutdown ends all the same, or
  `crashed`.
* `LoneStartSucceeds` is about a daemon without company.  Nothing in the code keeps a second
  daemon from taking the path of a running one, and no property says so.
* `ReportsWhatHeld` is exact as long as no stream has failed: the status stream is
  never cleared, and after one failed read says for ever that nothing throttles.
* `ConnectionEnds` says of the main thread that broken connections are closed, and of the
  api thread that all are, unless SIGPIPE ends it (the first finding).

**Findings.**
* `loop_api_sigpipe`: `send()` in `api.cpp` without `MSG_NOSIGNAL`.
* `cpu_frequency`: `info.frequency` includes the last frequency of cores that
  have gone offline.
* `amd_core_power`: the sum of core powers is added to the previous poll's.

## 5. What is proved

TLAPS checks these for every value of the constants, from the assumptions the
modules name (`AbsentAssumption`, `NoneAssumption`, ...: a placeholder is not a
value; bounds are naturals; `MaxBytes < Modulus`, no process moves 2^64 bytes;
`MaxTime < TimeRange`, no core counts 2^64 jiffies; `CounterRange <= Word`, a counter
fits into 64 bits; descriptors, cores and pids are finitely many; 0 is no pid).

| module | theorem | states |
|---|---|---|
| `MetricsServerProofs` | `TypeCorrect` | `[]TypeOK` |
| | `ServedIsTracked` | `[]ServedStaysTracked` |
| | `LostUpdatesHeal` | `[]LostUpdateHealed` |
| | `ImplementsRegistry` | `KeepsPromise`, the refinement of `ClientRegistry` |
| `SystemMetricsProofs` | `SystemTypeCorrect` | `[]TypeOK` |
| | `MutexesKeepApart` | `[]OnlyKnownRaces` |
| | `SnapshotIsWhole` | `[]SnapshotWhole` |
| | `MergedPowerIsRecent` | `[]PowerIsRecent` |
| `PollLoopProofs` | `TypeCorrect` | `[]TypeOK` |
| | `EveryConnectionPolled` | `[]PollsOpenConnections` |
| | `NoneClosedByMistake` | `ClosedForCause`, an action property |
| `FDInfoProofs` | `FDInfoTypeCorrect` | `[]TypeOK` |
| | `NoClientTwice` | `[]CountedOnce` |
| | `LoadIsHonest` | `[]HonestBetweenScans` |
| `IOStatsProofs` | `IOTypeCorrect` | `[]IOTypeOK` |
| | `EveryByteShownOnce` | `[]RatesAddUp` |
| `CPUProofs` | `LoadIsOneBadPollOff` | `[]OneBadPoll`, with `LoadTypeOK` |
| | `CoresSideBySide` | `[]SideBySide`, with `CPUTypeOK` |
| | `SensorsReadOwnFiles` | `[]OwnFile`, with `HwmonTypeOK` |
| | `EnergyTypeCorrect` | `[]EnergyTypeOK` |
| | `EnergyShownOnce` | `[]EnergyAddsUp` |
| `GPUProofs` | `AMDTypeCorrect` | `[]AMDTypeOK` |
| | `FiguresAreOwn` | `[]OwnFigures` |
| | `ThrottleTypeCorrect` | `[]ThrottleTypeOK` |
| | `ThrottlingIsSound` | `[]ReportsWhatHeld` |
| | `XeTypeCorrect` | `[]XeTypeOK` |
| | `CyclesShownOnce` | `[]CyclesAddUp` |
| `PartsProofs` | `StartupTypeCorrect` | `[]StartupTypeOK` |
| | `LoneStart` | `LoneStartSucceeds`, an action property |
| | `PartsTypeCorrect` | `[]PartsTypeOK`, of `AllPartsSpec` |
| | `PartsShowTheirOwn` | every safety property of the parts, of `AllPartsSpec` |
| | `PartsAreOfAll` | `PartsSpec` implements `AllPartsSpec` |

*MetricsServer.*  That a served process is tracked is not inductive: `Publish`
overwrites `current_metrics` with the copy `m`.  `CopyOK` says that the copy
contains every served process whenever it may still be written back: nothing is
registered or answered between `StartPoll` and `Publish`, since one thread does both.
That in turn needs `IncsOK` (an answer names an incarnation that existed, so a
fresh process is not served).  `SleepOK` follows main through its loops while a
worker sleeps: a tracked pid is still to do, or is in the worker's table.

*SystemMetrics.*  Two threads in conflicting critical sections would both own the
mutex, so `LockInv` says who owns what where: `MainOwns`, `ApiOwns`, `WorkerOwns`.  `LoopOK`
is needed for main, whose mutex is that of the GPU its loop has come to.  `OnePoll` says
that the two halves of `current_metrics` differ only while main is between them, which
is under the lock.  `PowerInv` adds for the APU merge that a slot main has not come to
still holds in its copy what was published last: that is all the slot after the one just
filled can give.

*PollLoop.*  The vector and `fds_to_add` name the open connections (`Named`), each once
(`Distinct`); that alone is not inductive, because the walk closes by index.  `Marked`
says that every index to erase is of a connection that may be closed, `Ahead` that
what `poll()` reported of the entries still ahead is still so when the walk comes to
them, and that nothing is left to erase or add between walks.  The erasing
loop takes the greatest index first; that the smaller ones then keep their meaning is
`RemoveAtEntries`.

*IOStats.*  `RatesAddUp` needs that the code's test for a base (both previous totals
are 0) and the history's (`base`) agree: `NothingBeforeBase`, `NoBaseWithoutEntry`; and
that a new process finds no stream bound to it, `NoStreamAhead`.  *Energy* is the same
with one counter: `NoPowerBeforeBase`.

*FDInfo.*  A stream stands for one client, the one at its descriptor and the one it
read last being the same (`SameClient`), and not another stream's (`Distinct`).
`Opening` says why `open_fds()` keeps that: `client_ids` has the client of every
stream it opened, and there are no contents from before the scan.

What that buys is `HonestBetweenScans`.  `lag[f]` is the time a stream's client has used
since the stream was read last.  When the worker sleeps, the base is the sum of what was
read, and the lags together are time used since this poll began (`Asleep`); a poll
that begins makes that the interval before.  During a poll what has been added to the sum
since the base, with the lags of the streams still to read, is time of the two
intervals (`Reading`); reading a stream moves its lag into the sum.  At most one stream
is of the client that runs (`Distinct` again), so a step of the client adds one to the
lags and one to the history.  The difference modulo 2^64 is then no more than the
difference (`Difference`).  Sums over streams are the recursion of the `Functions`
module; that it has a solution, and what the sum does when one entry changes, is proved by
induction on the number of descriptors, as a least counterexample, since
the library's induction takes an operator.

*AMDGPUMetrics.*  Between polls a GPU's figures are of its own tables, none newer than the
load (`SettledFigures`).  During a poll that no other overlaps, the parts of the buffer
that a table of this version reaches are all of one table, its own (`OwnBuffer`), and
the figures already parsed are of that one.

*IntelThrottle.*  During a call the classes found had a reason (`FoundIsSo`), and what was
passed without a finding had none, if nothing changed and no file failed (`PassedIsNot`).

*XeCycles.*  A client that is not doubled is shown by one stream of one process at most, and
no other stream has contents of it (`OneStream`): a scan takes one descriptor of each
client, and a number that is reused keeps its own stream.  So what was read of it
last is no older than the reading on file, and its counter rises no more than the GPU's
between them (`InOrder`); what the loads have shown is the reading on file (`Accounted`).

*CPULoad.*  `LoadInv` says that the bases and the two differences are functions of the
columns at the last two polls, and that of the columns only the idle time has ever
fallen.  `OneBadPoll` is then arithmetic with divisors that are not numbers: two sums
less than a divisor apart have remainders as far apart, or that less the
divisor (`ModStep`).

*CPU.*  From the load of a poll to its frequencies the slots are the lines, as long as no
core comes or goes (`CPUInv`).  A line's place is the number of online cores before its
core, so there is a line for each place: the least core after the one before
(`Before`, `Least`).

*Hwmon.*  The files still to come have been given to no sensor.

*Startup.*  A daemon that was launched without company has had none since, and the path
is as its last step left it (`LoneInv`).

*Parts.*  A step of the interleaving is a step, or none, of each part (`AllPartsStep`), so
the parts' invariants together are one of it, `PartsInv`.

Every safety property that a run checks is stated by one of these theorems.  Only
model-checked is liveness, which needs fairness and `ENABLED`.

## 6. What is not modelled

The formatting of messages and JSON, single sensor reads (Panfrost, MSM DPU, KGSL, and
the one-file getters of the other drivers), zenpower's formula, memory parsing
(`memory.cpp`), the log level and logging hold no state that steps compete for.
Memory figures travel with the incarnation they were read from.  The vendored headers
`nvml.h` (13195 lines) and `xe_drm.h` (1333) are three quarters of the repository's
lines and declare what others implement; of the daemon's own 5000 lines the
models cover somewhat less than half, and most of the rest are includes, logging, class
declarations and single reads.

Undefined behaviour is modelled as the end of the daemon where it is reached by one thread
(a ninth GPU, a destroyed derived class), and only named where it is a data race.
Exceptions from vanished `/proc` entries are in `FDInfo` only.  The hazards
without a property in `PROJECT.json` say why they have none.  Neither are these
modelled, as nothing in the repository says what should happen: an hwmon directory without
entries, a negative temperature, an interval without a jiffy (its load is NaN), Nvidia's
"value not available", the memory regions that `xe_drm.cpp` queries and never frees.
A `close()` fails only of a descriptor that is not open.  The driver fills `gpu_metrics` in
one piece: a read that ends between the table's header and its end does not occur in
`AMDGPUMetrics`.
