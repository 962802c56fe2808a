--------------------------- MODULE SystemMetricsProofs ---------------------------
(***************************************************************************)
(* The mutexes of SystemMetrics: who is where has locked what the code     *)
(* locks, so that only the known races remain; the api thread's copy is of *)
(* one poll; and which APU's power can be shown as the CPU's.  For any     *)
(* number of nodes, of slots and of clients.                               *)
(***************************************************************************)
EXTENDS SystemMetrics, TLAPS

-----------------------------------------------------------------------------
(* The inductive invariant.                                                *)

(* Where main is in a loop over available_gpus, Gpu is one of them. *)
InLoop == {"lock_get", "get", "lock_collect", "collect", "lock_add", "add",
           "lock_add_fd", "add_fd", "destroy", "stop", "join_worker"}

ControlOK ==
  /\ pc \in [Thread -> Points]
  /\ pc[Main] \in MainPoints /\ pc[Api] \in ApiPoints
  /\ \A g \in Node : pc[Worker(g)] \in WorkerPoints
  /\ owner \in [Lock -> Thread \cup {Nobody}]
  /\ available_gpus \in Seq(Node) /\ i \in 1 .. Nodes + 1

LoopOK ==
  /\ pc[Main] \in InLoop => i \in 1 .. GPUs
  /\ GPUs <= Nodes
  /\ pc[Main] = "discover" => GPUs < i

(* Who is inside a critical section owns its mutex. *)
MainOwns ==
  /\ pc[Main] \in {"copy", "find", "message", "publish", "publish_rest"} => owner[Current] = Main
  /\ pc[Main] = "get" => owner[<<"system", Gpu>>] = Main
  /\ pc[Main] \in {"collect", "add"} => owner[<<"process", Gpu>>] = Main
  /\ pc[Main] = "add_fd" => owner[<<"pids", Gpu>>] = Main
ApiOwns == pc[Api] \in {"json", "json_rest"} => owner[Current] = Api
WorkerOwns(g) ==
  /\ pc[Worker(g)] = "scan" => owner[<<"pids", g>>] = Worker(g)
  /\ pc[Worker(g)] \in {"lock_proc", "update"} => owner[<<"system", g>>] = Worker(g)
  /\ pc[Worker(g)] = "update" => owner[<<"process", g>>] = Worker(g)

LockInv ==
  /\ ControlOK /\ LoopOK
  /\ MainOwns /\ ApiOwns /\ \A g \in Node : WorkerOwns(g)

-----------------------------------------------------------------------------
(* Threads and mutexes are told apart.                                     *)

LEMMA Threads ==
  /\ Main \in Thread /\ Api \in Thread /\ Main # Api
  /\ Nobody \notin Thread
  /\ \A g \in Node : Worker(g) \in Thread /\ Worker(g) # Main /\ Worker(g) # Api
                     /\ Worker(g)[2] = g
  /\ \A g, h \in Node : Worker(g) = Worker(h) => g = h
  /\ \A t \in Thread : t = Main \/ t = Api \/ \E g \in Node : t = Worker(g)
  BY DEF Main, Api, Worker, Nobody, Thread

LEMMA Locks ==
  /\ Current \in Lock
  /\ \A g \in Node : \A kind \in {"system", "process", "pids"} :
       <<kind, g>> \in Lock /\ <<kind, g>> # Current
  BY DEF Current, Lock

LEMMA GpuIsNode ==
  ASSUME ControlOK, i \in 1 .. GPUs
  PROVE  Gpu \in Node
  BY DEF ControlOK, GPUs, Gpu

-----------------------------------------------------------------------------
(* What a step of one thread leaves to the others.                         *)

(* Step t frees or takes mutexes only of its own or that are free. *)
Keeps(t) ==
  /\ owner' \in [Lock -> Thread \cup {Nobody}]
  /\ \A l \in Lock : owner[l] \in Thread \ {t} => owner'[l] = owner[l]

LEMMA KeepsFrame ==
  ASSUME NEW t \in Thread, ControlOK, UNCHANGED owner
  PROVE  Keeps(t)
  BY DEF Keeps, ControlOK

LEMMA KeepsRelease ==
  ASSUME NEW t \in Thread, NEW l \in Lock, ControlOK, owner[l] = t, Release(l)
  PROVE  Keeps(t)
  BY DEF Keeps, ControlOK, Release

(* A step of main that leaves available_gpus alone. *)
LEMMA MainMoves ==
  ASSUME LockInv, NEW to \in MainPoints, pc' = [pc EXCEPT ![Main] = to],
         UNCHANGED available_gpus, i' \in 1 .. Nodes + 1, Keeps(Main),
         to \in InLoop => i' \in 1 .. GPUs, to # "discover", MainOwns'
  PROVE  LockInv'
<1> USE DEF LockInv
<1>1. /\ pc' \in [Thread -> Points] /\ pc'[Main] = to
      /\ \A t \in Thread \ {Main} : pc'[t] = pc[t]
  BY Threads DEF ControlOK, Points
<1>2. \A g \in Node : pc'[Worker(g)] = pc[Worker(g)] BY <1>1, Threads
<1>3. pc'[Api] = pc[Api] BY <1>1, Threads
<1>4. GPUs' = GPUs BY DEF GPUs
<1>5. ControlOK' BY <1>1, <1>2, <1>3 DEF ControlOK, Keeps
<1>6. LoopOK' BY <1>1, <1>4 DEF LoopOK
<1>7. ApiOwns' BY <1>3, Threads, Locks DEF ApiOwns, Keeps
<1>8. ASSUME NEW g \in Node PROVE WorkerOwns(g)'
  BY <1>2, Threads, Locks DEF WorkerOwns, Keeps
<1> QED BY <1>5, <1>6, <1>7, <1>8

(* A step of the api thread. *)
LEMMA ApiMoves ==
  ASSUME LockInv, NEW to \in ApiPoints, pc' = [pc EXCEPT ![Api] = to],
         UNCHANGED <<available_gpus, i>>, Keeps(Api), ApiOwns'
  PROVE  LockInv'
<1> USE DEF LockInv
<1>1. /\ pc' \in [Thread -> Points] /\ pc'[Api] = to
      /\ \A t \in Thread \ {Api} : pc'[t] = pc[t]
  BY Threads DEF ControlOK, Points
<1>2. \A g \in Node : pc'[Worker(g)] = pc[Worker(g)] BY <1>1, Threads
<1>3. pc'[Main] = pc[Main] BY <1>1, Threads
<1>4. GPUs' = GPUs /\ Gpu' = Gpu BY DEF GPUs, Gpu
<1>5. ControlOK' BY <1>1, <1>2, <1>3 DEF ControlOK, Keeps
<1>6. LoopOK' BY <1>3, <1>4 DEF LoopOK
<1>7. MainOwns'
  <2>1. pc[Main] \in InLoop => Gpu \in Node BY GpuIsNode DEF LoopOK
  <2> QED BY <1>3, <1>4, <2>1, Threads, Locks DEF MainOwns, Keeps, InLoop
<1>8. ASSUME NEW g \in Node PROVE WorkerOwns(g)'
  BY <1>2, Threads, Locks DEF WorkerOwns, Keeps
<1> QED BY <1>5, <1>6, <1>7, <1>8

(* A step of the worker of g that is not done and does not start. *)
LEMMA WorkerMoves ==
  ASSUME LockInv, NEW g \in Node, NEW to \in WorkerPoints,
         pc[Worker(g)] \notin {"none", "done"}, pc' = [pc EXCEPT ![Worker(g)] = to],
         UNCHANGED <<available_gpus, i>>, Keeps(Worker(g)), WorkerOwns(g)'
  PROVE  LockInv'
<1> USE DEF LockInv
<1>1. /\ pc' \in [Thread -> Points] /\ pc'[Worker(g)] = to
      /\ \A t \in Thread \ {Worker(g)} : pc'[t] = pc[t]
  BY Threads DEF ControlOK, Points
<1>2. \A h \in Node \ {g} : pc'[Worker(h)] = pc[Worker(h)] BY <1>1, Threads
<1>3. pc'[Main] = pc[Main] /\ pc'[Api] = pc[Api] BY <1>1, Threads
<1>4. GPUs' = GPUs /\ Gpu' = Gpu BY DEF GPUs, Gpu
<1>5. ControlOK' BY <1>1, <1>2, <1>3 DEF ControlOK, Keeps
<1>6. LoopOK' BY <1>3, <1>4 DEF LoopOK
<1>7. MainOwns'
  <2>1. pc[Main] \in InLoop => Gpu \in Node BY GpuIsNode DEF LoopOK
  <2> QED BY <1>3, <1>4, <2>1, Threads, Locks DEF MainOwns, Keeps, InLoop
<1>8. ASSUME NEW h \in Node, h # g PROVE WorkerOwns(h)'
  <2>1. Worker(h) # Worker(g) /\ Worker(h) \in Thread BY <1>8, Threads
  <2> QED BY <1>2, <1>8, <2>1, Locks DEF WorkerOwns, Keeps
<1>9. ApiOwns' BY <1>3, Threads, Locks DEF ApiOwns, Keeps
<1> QED BY <1>5, <1>6, <1>7, <1>8, <1>9

(* A step that moves no thread. *)
LEMMA NobodyMoves == LockInv /\ UNCHANGED <<pc, owner, available_gpus, i>> => LockInv'
  BY DEF LockInv, ControlOK, LoopOK, MainOwns, ApiOwns, WorkerOwns, GPUs, Gpu

-----------------------------------------------------------------------------
(* The steps of main.                                                      *)

LEMMA InitLock == Init => LockInv
<1> SUFFICES ASSUME Init PROVE LockInv OBVIOUS
<1>1. /\ pc[Main] = "discover" /\ pc[Api] = "none"
      /\ \A g \in Node : pc[Worker(g)] = "none"
  BY Threads DEF Init
<1>2. ControlOK
  BY <1>1, Threads, NodesAssumption
  DEF Init, ControlOK, Points, MainPoints, ApiPoints, WorkerPoints
<1>3. GPUs = 0 BY DEF Init, GPUs
<1> QED BY <1>1, <1>2, <1>3, NodesAssumption
        DEF LockInv, LoopOK, InLoop, MainOwns, ApiOwns, WorkerOwns, Init

LEMMA DiscoverLock == LockInv /\ Discover => LockInv'
<1> SUFFICES ASSUME LockInv, Discover PROVE LockInv' OBVIOUS
<1> USE DEF LockInv
<1>1. i \in Node /\ i' = i + 1 /\ i' \in 1 .. Nodes + 1 /\ pc[Main] = "discover"
  BY NodesAssumption DEF Discover, ControlOK, Node
<1>2. CASE driver[i] = "none"
  <2>1. UNCHANGED <<available_gpus, pc, owner>> BY <1>2 DEF Discover
  <2>2. GPUs' = GPUs BY <2>1 DEF GPUs
  <2>3. ControlOK' BY <1>1, <2>1 DEF ControlOK
  <2>4. LoopOK' BY <1>1, <2>1, <2>2 DEF LoopOK, InLoop, GPUs, ControlOK
  <2> QED BY <1>1, <2>1, <2>2, <2>3, <2>4
          DEF MainOwns, ApiOwns, WorkerOwns
<1>3. CASE driver[i] # "none"
  <2>1. /\ available_gpus' = Append(available_gpus, i) /\ UNCHANGED owner
        /\ pc' = [pc EXCEPT ![Worker(i)] = "check"]
    BY <1>3 DEF Discover
  <2>2. /\ available_gpus' \in Seq(Node) /\ GPUs' = GPUs + 1 /\ GPUs \in Nat
        /\ available_gpus'[GPUs'] = i
        /\ \A j \in 1 .. GPUs : available_gpus'[j] = available_gpus[j]
    BY <1>1, <2>1 DEF ControlOK, GPUs
  <2>3. /\ pc' \in [Thread -> Points] /\ pc'[Main] = "discover" /\ pc'[Api] = pc[Api]
        /\ pc'[Worker(i)] = "check"
        /\ \A g \in Node \ {i} : pc'[Worker(g)] = pc[Worker(g)]
    BY <1>1, <2>1, Threads DEF ControlOK, Points, WorkerPoints
  <2>4. ControlOK' BY <1>1, <2>1, <2>2, <2>3 DEF ControlOK, WorkerPoints
  <2>5. LoopOK'
    <3>1. GPUs < i BY <1>1 DEF LoopOK
    <3>2. GPUs' < i' /\ GPUs' <= Nodes
      BY <1>1, <2>2, <3>1, NodesAssumption DEF Node
    <3> QED BY <2>3, <3>2 DEF LoopOK, InLoop
  <2>6. \A g \in Node : WorkerOwns(g)' BY <1>1, <2>1, <2>3 DEF WorkerOwns
  <2> QED BY <2>1, <2>3, <2>4, <2>5, <2>6 DEF MainOwns, ApiOwns
<1> QED BY <1>2, <1>3

LEMMA StartApiLock == LockInv /\ StartApi => LockInv'
<1> SUFFICES ASSUME LockInv, StartApi PROVE LockInv' OBVIOUS
<1> USE DEF LockInv
<1>1. /\ pc' = [pc EXCEPT ![Main] = "loop", ![Api] = "setup"] /\ i' = 1
      /\ UNCHANGED <<owner, available_gpus>>
  BY DEF StartApi
<1>2. /\ pc' \in [Thread -> Points] /\ pc'[Main] = "loop" /\ pc'[Api] = "setup"
      /\ \A g \in Node : pc'[Worker(g)] = pc[Worker(g)]
  BY <1>1, Threads DEF ControlOK, Points, MainPoints, ApiPoints
<1>3. GPUs' = GPUs BY <1>1 DEF GPUs
<1>4. ControlOK'
  <2>1. "loop" \in MainPoints /\ "setup" \in ApiPoints BY DEF MainPoints, ApiPoints
  <2>2. 1 \in 1 .. Nodes + 1 BY NodesAssumption
  <2> QED BY <1>1, <1>2, <2>1, <2>2 DEF ControlOK
<1>5. LoopOK' /\ MainOwns' /\ ApiOwns'
  BY <1>2, <1>3 DEF LoopOK, InLoop, MainOwns, ApiOwns
<1> QED BY <1>1, <1>2, <1>3, <1>4, <1>5 DEF WorkerOwns

(* The steps from one place to another that take or free no mutex, into a  *)
(* place that needs none.                                                  *)
LEMMA MainGoes ==
  ASSUME LockInv, pc[Main] # "discover", NEW to, UNCHANGED <<owner, available_gpus, i>>,
         pc' = [pc EXCEPT ![Main] = to],
         to \in {"lock_copy", "lock_find", "lock_message", "join", "loop", "serve"}
  PROVE  LockInv'
<1>1. ControlOK BY DEF LockInv
<1>2. pc'[Main] = to /\ to \in MainPoints
  BY <1>1, Threads DEF ControlOK, MainPoints
<1>3. Keeps(Main) BY <1>1, Threads, KeepsFrame
<1>4. MainOwns' BY <1>2 DEF MainOwns
<1> QED BY <1>1, <1>2, <1>3, <1>4, MainMoves DEF ControlOK, InLoop

(* The steps that leave a critical section, for a place that needs no      *)
(* mutex.                                                                  *)
LEMMA MainLeaves ==
  ASSUME LockInv, NEW l \in Lock, owner[l] = Main, Release(l), UNCHANGED available_gpus,
         NEW to, pc' = [pc EXCEPT ![Main] = to],
         to \in {"serve", "lock_publish", "lock_message", "emplace"}
           \/ (to \in {"lock_get", "lock_collect", "lock_add", "lock_add_fd"} /\ i' \in 1 .. GPUs),
         i' \in 1 .. Nodes + 1
  PROVE  LockInv'
<1>1. ControlOK BY DEF LockInv
<1>2. pc'[Main] = to /\ to \in MainPoints /\ to # "discover"
  BY <1>1, Threads DEF ControlOK, MainPoints
<1>3. Keeps(Main) BY <1>1, Threads, KeepsRelease
<1>4. MainOwns' BY <1>2 DEF MainOwns
<1> QED BY <1>1, <1>2, <1>3, <1>4, MainMoves DEF InLoop

LEMMA MainLeavesCurrent ==
  ASSUME LockInv, owner[Current] = Main, Release(Current), UNCHANGED available_gpus,
         NEW to \in {"serve", "lock_publish", "lock_message", "emplace"},
         pc' = [pc EXCEPT ![Main] = to], i' \in 1 .. Nodes + 1
  PROVE  LockInv'
<1>1. ControlOK BY DEF LockInv
<1>2. pc'[Main] = to /\ to \in MainPoints /\ to # "discover" /\ to \notin InLoop
  BY <1>1, Threads DEF ControlOK, MainPoints, InLoop
<1>3. Keeps(Main) BY <1>1, Threads, Locks, KeepsRelease
<1>4. MainOwns' BY <1>2 DEF MainOwns
<1> QED BY <1>1, <1>2, <1>3, <1>4, MainMoves

LEMMA NextGPUMoves ==
  ASSUME LockInv, i \in 1 .. GPUs, NEW again, NEW after, NextGPU(again, after)
  PROVE  \/ i' = i + 1 /\ i' \in 1 .. GPUs /\ pc' = [pc EXCEPT ![Main] = again]
         \/ i' = 1 /\ i = GPUs /\ pc' = [pc EXCEPT ![Main] = after]
  BY NodesAssumption DEF NextGPU, LockInv, LoopOK, ControlOK, GPUs

LEMMA OneIsAnIndex == 1 \in 1 .. Nodes + 1 /\ (LockInv => \A j \in 1 .. GPUs : j \in 1 .. Nodes + 1)
  BY NodesAssumption DEF LockInv, LoopOK, ControlOK, GPUs

(* The loop over the GPUs goes on, or ends, at a place that needs no mutex. *)
LEMMA MainLoops ==
  ASSUME LockInv, i \in 1 .. GPUs, NEW l \in Lock, owner[l] = Main, Release(l),
         UNCHANGED available_gpus, NEW again, NEW after, NextGPU(again, after),
         again \in {"lock_get", "lock_collect", "lock_add"},
         after \in {"lock_publish", "emplace"}
           \/ (after = "lock_collect" /\ GPUs # 0)
  PROVE  LockInv'
<1>1. CASE i' = i + 1 /\ i' \in 1 .. GPUs /\ pc' = [pc EXCEPT ![Main] = again]
  BY <1>1, OneIsAnIndex, MainLeaves
<1>2. CASE i' = 1 /\ pc' = [pc EXCEPT ![Main] = after]
  <2>1. 1 \in 1 .. GPUs BY DEF LockInv, LoopOK, ControlOK, GPUs
  <2> QED BY <1>2, <2>1, OneIsAnIndex, MainLeaves
<1> QED BY <1>1, <1>2, NextGPUMoves

LEMMA MainStepLock == LockInv /\ MainStep => LockInv'
<1> SUFFICES ASSUME LockInv, MainStep PROVE LockInv' OBVIOUS
<1> USE DEF LockInv
<1>1. ASSUME pc[Main] \in InLoop PROVE i \in 1 .. GPUs /\ Gpu \in Node
  BY <1>1, GpuIsNode DEF LoopOK
<1>2. ASSUME pc[Main] \in InLoop, NEW kind \in {"system", "process", "pids"}
      PROVE  <<kind, Gpu>> \in Lock
  BY <1>1, <1>2, Locks
<1>3. CASE Discover BY <1>3, DiscoverLock
<1>4. CASE StartApi BY <1>4, StartApiLock
<1>5. CASE StartPoll BY <1>5, MainGoes DEF StartPoll, Goto, Step, dataVars, mainVars
<1>6. CASE CopyCurrent
  <2>1. GPUs # 0 => 1 \in 1 .. GPUs BY DEF ControlOK, GPUs
  <2>2. /\ owner[Current] = Main /\ Release(Current) /\ UNCHANGED available_gpus /\ i' = 1
        /\ pc' = [pc EXCEPT ![Main] = IF GPUs = 0 THEN "lock_publish" ELSE "lock_get"]
    BY <1>6 DEF CopyCurrent, Step, MainOwns
  <2>3. Current \in Lock /\ i' \in 1 .. Nodes + 1 BY <2>2, Locks, OneIsAnIndex
  <2>4. CASE GPUs = 0 BY <2>2, <2>3, <2>4, MainLeavesCurrent
  <2>5. CASE GPUs # 0 BY <2>1, <2>2, <2>3, <2>5, MainLeaves
  <2> QED BY <2>4, <2>5
<1>7. CASE PollGPU
  <2>1. pc[Main] \in InLoop BY <1>7 DEF PollGPU, InLoop
  <2>2. GPUs # 0 BY <1>1, <2>1 DEF ControlOK, GPUs
  <2>3. PICK after \in {"lock_collect", "lock_publish"} : NextGPU("lock_get", after)
    BY <1>7 DEF PollGPU
  <2> QED BY <1>1, <1>2, <1>7, <2>1, <2>2, <2>3, MainLoops DEF PollGPU, MainOwns
<1>8. CASE PollGPUPastArray
  BY <1>8, NobodyMoves DEF PollGPUPastArray, mainVars
<1>9. CASE Collect
  <2>1. pc[Main] \in InLoop BY <1>9 DEF Collect, InLoop
  <2> QED BY <1>1, <1>2, <1>9, <2>1, MainLoops DEF Collect, MainOwns
<1>10. CASE Publish
  <2>1. /\ pc[Main] = "publish" /\ pc' = [pc EXCEPT ![Main] = "publish_rest"]
        /\ UNCHANGED <<owner, available_gpus, i>>
    BY <1>10 DEF Publish, Step
  <2>2. pc'[Main] = "publish_rest" BY <2>1, Threads DEF ControlOK
  <2>3. MainOwns' BY <2>1, <2>2 DEF MainOwns
  <2>4. "publish_rest" \in MainPoints /\ "publish_rest" \notin InLoop
    BY DEF MainPoints, InLoop
  <2> QED BY <2>1, <2>3, <2>4, Threads, KeepsFrame, MainMoves DEF ControlOK
<1>11. CASE PublishRest
  <2>1. /\ owner[Current] = Main /\ Release(Current) /\ UNCHANGED <<available_gpus, i>>
        /\ pc' = [pc EXCEPT ![Main] = "serve"]
    BY <1>11 DEF PublishRest, Step, MainOwns
  <2>2. Current \in Lock /\ i' \in 1 .. Nodes + 1 BY <2>1, Locks DEF ControlOK
  <2> QED BY <2>1, <2>2, MainLeavesCurrent
<1>12. CASE StartRegister
  BY <1>12, MainGoes DEF StartRegister, Goto, Step, dataVars, mainVars
<1>13. CASE Find
  <2>1. GPUs # 0 => 1 \in 1 .. GPUs BY DEF ControlOK, GPUs
  <2>2. /\ owner[Current] = Main /\ Release(Current) /\ UNCHANGED available_gpus /\ i' = 1
        /\ \/ pc' = [pc EXCEPT ![Main] = "lock_message"]
           \/ pc' = [pc EXCEPT ![Main] = "emplace"]
           \/ GPUs # 0 /\ pc' = [pc EXCEPT ![Main] = "lock_add"]
    BY <1>13 DEF Find, Step, MainOwns
  <2>3. Current \in Lock /\ i' \in 1 .. Nodes + 1 BY <2>2, Locks, OneIsAnIndex
  <2>4. CASE pc' = [pc EXCEPT ![Main] = "lock_message"]
    BY <2>2, <2>3, <2>4, MainLeavesCurrent
  <2>5. CASE pc' = [pc EXCEPT ![Main] = "emplace"]
    BY <2>2, <2>3, <2>5, MainLeavesCurrent
  <2>6. CASE GPUs # 0 /\ pc' = [pc EXCEPT ![Main] = "lock_add"]
    BY <2>1, <2>2, <2>3, <2>6, MainLeaves
  <2> QED BY <2>2, <2>4, <2>5, <2>6
<1>14. CASE AddPid
  <2>1. pc[Main] \in InLoop BY <1>14 DEF AddPid, InLoop
  <2>2. owner[<<"process", Gpu>>] = Main /\ Release(<<"process", Gpu>>)
        /\ UNCHANGED available_gpus
    BY <1>14 DEF AddPid, MainOwns
  <2>3. CASE IsFDInfo(Gpu)
    BY <1>1, <1>2, <1>14, <2>1, <2>2, <2>3, OneIsAnIndex, MainLeaves DEF AddPid
  <2>4. CASE ~IsFDInfo(Gpu)
    BY <1>1, <1>2, <1>14, <2>1, <2>2, <2>4, MainLoops DEF AddPid
  <2> QED BY <2>3, <2>4
<1>15. CASE AddFDPid
  <2>1. pc[Main] \in InLoop BY <1>15 DEF AddFDPid, InLoop
  <2> QED BY <1>1, <1>2, <1>15, <2>1, MainLoops DEF AddFDPid, MainOwns
<1>16. CASE Emplace
  BY <1>16, MainGoes DEF Emplace, Goto, Step, dataVars, mainVars
<1>17. CASE Message
  <2>1. /\ owner[Current] = Main /\ Release(Current) /\ UNCHANGED <<available_gpus, i>>
        /\ pc' = [pc EXCEPT ![Main] = "serve"]
    BY <1>17 DEF Message, Step, MainOwns, dataVars, mainVars
  <2>2. Current \in Lock /\ i' \in 1 .. Nodes + 1 BY <2>1, Locks DEF ControlOK
  <2> QED BY <2>1, <2>2, MainLeavesCurrent
<1>18. CASE Leave BY <1>18, MainGoes DEF Leave, Goto, Step, dataVars, mainVars
<1>19. CASE JoinApi
  <2> DEFINE to == IF GPUs = 0 THEN "returned" ELSE "destroy"
  <2>1. /\ pc' = [pc EXCEPT ![Main] = to] /\ UNCHANGED <<owner, available_gpus>> /\ i' = 1
    BY <1>19 DEF JoinApi, Step
  <2>2. pc'[Main] = to /\ to \in MainPoints /\ to # "discover" BY <2>1, Threads DEF ControlOK, MainPoints
  <2>3. to \in InLoop => i' \in 1 .. GPUs BY <2>1 DEF InLoop, ControlOK, GPUs
  <2>4. GPUs' = GPUs BY <2>1 DEF GPUs
  <2>5. MainOwns' BY <2>1, <2>2, <2>4 DEF MainOwns
  <2> HIDE DEF to
  <2> QED BY <2>1, <2>2, <2>3, <2>5, Threads, KeepsFrame, OneIsAnIndex, MainMoves
<1>20. ASSUME NEW from \in {"destroy", "stop"}, NEW to \in {"stop", "join_worker"},
              Step(Main, from, to), UNCHANGED <<owner, available_gpus, i>>
       PROVE  LockInv'
  <2>1. pc[Main] = from /\ pc' = [pc EXCEPT ![Main] = to] BY <1>20 DEF Step
  <2>2. pc'[Main] = to /\ to \in MainPoints /\ to # "discover"
    BY <2>1, Threads DEF ControlOK, MainPoints
  <2>3. i \in 1 .. GPUs /\ i \in 1 .. Nodes + 1
    BY <1>1, <1>20, <2>1 DEF InLoop, ControlOK
  <2>4. MainOwns' BY <1>20, <2>2 DEF MainOwns
  <2> QED BY <1>20, <2>1, <2>2, <2>3, <2>4, Threads, KeepsFrame, MainMoves
<1>21. CASE Destroy BY <1>20, <1>21 DEF Destroy, mainVars
<1>22. CASE StopWorker BY <1>20, <1>22 DEF StopWorker, mainVars
<1>23. CASE JoinWorker
  <2>1. /\ i \in 1 .. GPUs /\ NextGPU("destroy", "returned")
        /\ UNCHANGED <<owner, available_gpus>>
    BY <1>1, <1>23 DEF JoinWorker, InLoop
  <2>2. ASSUME NEW to \in {"destroy", "returned"}, pc' = [pc EXCEPT ![Main] = to]
        PROVE  to \in MainPoints /\ to # "discover" /\ MainOwns'
    <3>1. pc'[Main] = to BY <2>2, Threads DEF ControlOK
    <3> QED BY <2>2, <3>1 DEF MainPoints, MainOwns
  <2>3. CASE i' = i + 1 /\ i' \in 1 .. GPUs /\ pc' = [pc EXCEPT ![Main] = "destroy"]
    BY <2>1, <2>2, <2>3, Threads, KeepsFrame, OneIsAnIndex, MainMoves
  <2>4. CASE i' = 1 /\ i = GPUs /\ pc' = [pc EXCEPT ![Main] = "returned"]
    <3>1. "returned" \notin InLoop BY DEF InLoop
    <3> QED BY <2>1, <2>2, <2>4, <3>1, Threads, KeepsFrame, OneIsAnIndex, MainMoves
  <2> QED BY <2>1, <2>3, <2>4, NextGPUMoves
<1>24. CASE SkipPoll BY <1>24, MainGoes DEF SkipPoll, Goto, Step, dataVars, mainVars
<1>25. CASE EndIteration BY <1>25, MainGoes DEF EndIteration, Goto, Step, dataVars, mainVars
<1> QED BY <1>3, <1>4, <1>5, <1>6, <1>7, <1>8, <1>9, <1>10, <1>11, <1>12, <1>13, <1>14,
           <1>15, <1>16, <1>17, <1>18, <1>19, <1>21, <1>22, <1>23, <1>24, <1>25 DEF MainStep

-----------------------------------------------------------------------------
(* The steps of the workers and of the api thread, and the mutexes taken.  *)

LEMMA WorkerStepLock ==
  ASSUME LockInv, NEW g \in Node, WorkerStep(g)
  PROVE  LockInv'
<1> USE DEF LockInv
<1>1. ASSUME NEW from \in WorkerPoints \ {"none", "done"}, NEW to \in WorkerPoints,
             to \notin {"scan", "lock_proc", "update"},
             Step(Worker(g), from, to), UNCHANGED <<available_gpus, i>>, Keeps(Worker(g))
      PROVE  LockInv'
  <2>1. pc[Worker(g)] = from /\ pc' = [pc EXCEPT ![Worker(g)] = to] BY <1>1 DEF Step
  <2>2. pc'[Worker(g)] = to BY <2>1, Threads DEF ControlOK
  <2>3. WorkerOwns(g)' BY <1>1, <2>2 DEF WorkerOwns
  <2> QED BY <1>1, <2>1, <2>3, WorkerMoves
<1>2. ASSUME NEW from \in WorkerPoints \ {"none", "done"}, NEW to \in WorkerPoints,
             to \notin {"scan", "lock_proc", "update"},
             Step(Worker(g), from, to), UNCHANGED <<available_gpus, i, owner>>
      PROVE  LockInv'
  BY <1>1, <1>2, Threads, KeepsFrame
<1>3. CASE Check(g)
  BY <1>2, <1>3 DEF Check, mainVars, WorkerPoints
<1>4. CASE PollAll(g)
  <2>1. /\ Step(Worker(g), "scan", "sample") /\ Release(<<"pids", g>>)
        /\ UNCHANGED <<available_gpus, i>> /\ owner[<<"pids", g>>] = Worker(g)
    BY <1>4 DEF PollAll, Step, WorkerOwns, dataVars, mainVars
  <2>2. Keeps(Worker(g)) BY <2>1, Threads, Locks, KeepsRelease
  <2> QED BY <1>1, <2>1, <2>2 DEF WorkerPoints
<1>5. CASE Sample(g) BY <1>2, <1>5 DEF Sample, mainVars, WorkerPoints
<1>6. CASE Table(g) BY <1>2, <1>6 DEF Table, Goto, dataVars, mainVars, WorkerPoints
<1>7. CASE Loads(g) BY <1>2, <1>7 DEF Loads, Goto, dataVars, mainVars, WorkerPoints
<1>8. CASE Update(g)
  <2>1. /\ Step(Worker(g), "update", "check") /\ UNCHANGED <<available_gpus, i>>
        /\ owner' = [owner EXCEPT ![<<"system", g>>] = Nobody, ![<<"process", g>>] = Nobody]
        /\ owner[<<"system", g>>] = Worker(g) /\ owner[<<"process", g>>] = Worker(g)
    BY <1>8 DEF Update, Step, WorkerOwns, mainVars
  <2>2. Keeps(Worker(g)) BY <2>1, Threads, Locks DEF Keeps, ControlOK
  <2> QED BY <1>1, <2>1, <2>2 DEF WorkerPoints
<1> QED BY <1>3, <1>4, <1>5, <1>6, <1>7, <1>8 DEF WorkerStep

LEMMA ApiStepLock == LockInv /\ ApiStep => LockInv'
<1> SUFFICES ASSUME LockInv, ApiStep PROVE LockInv' OBVIOUS
<1> USE DEF LockInv
<1>1. ASSUME NEW to \in ApiPoints, to \notin {"json", "json_rest"}, NEW from,
             Step(Api, from, to), UNCHANGED <<available_gpus, i>>, Keeps(Api)
      PROVE  LockInv'
  <2>1. pc' = [pc EXCEPT ![Api] = to] /\ pc'[Api] = to BY <1>1, Threads DEF Step, ControlOK
  <2>2. ApiOwns' BY <1>1, <2>1 DEF ApiOwns
  <2> QED BY <1>1, <2>1, <2>2, ApiMoves
<1>2. ASSUME NEW to \in ApiPoints, to \notin {"json", "json_rest"}, NEW from,
             Step(Api, from, to), UNCHANGED <<available_gpus, i, owner>>
      PROVE  LockInv'
  BY <1>1, <1>2, Threads, KeepsFrame
<1>3. CASE Setup BY <1>2, <1>3 DEF Setup, Goto, dataVars, mainVars, ApiPoints
<1>4. CASE Request BY <1>2, <1>4 DEF Request, Goto, dataVars, mainVars, ApiPoints
<1>5. CASE Json
  <2>1. /\ pc[Api] = "json" /\ pc' = [pc EXCEPT ![Api] = "json_rest"]
        /\ UNCHANGED <<available_gpus, i, owner>>
    BY <1>5 DEF Json, Step, mainVars
  <2>2. ApiOwns' BY <2>1 DEF ApiOwns
  <2> QED BY <2>1, <2>2, Threads, KeepsFrame, ApiMoves DEF ApiPoints
<1>6. CASE JsonRest
  <2>1. /\ Step(Api, "json_rest", "poll") /\ Release(Current) /\ owner[Current] = Api
        /\ UNCHANGED <<available_gpus, i>>
    BY <1>6 DEF JsonRest, Step, ApiOwns, mainVars
  <2>2. Keeps(Api) BY <2>1, Threads, Locks, KeepsRelease
  <2> QED BY <1>1, <2>1, <2>2 DEF ApiPoints
<1>7. CASE LeaveApi BY <1>2, <1>7 DEF LeaveApi, Goto, dataVars, mainVars, ApiPoints
<1> QED BY <1>3, <1>4, <1>5, <1>6, <1>7 DEF ApiStep

LEMMA AcquireLock ==
  ASSUME LockInv, NEW t \in Thread, Acquire(t)
  PROVE  LockInv'
<1> USE DEF LockInv
<1> DEFINE l  == LockOf(t, Wanted[pc[t]])
           to == Entered[pc[t]]
<1>1. /\ pc[t] \in DOMAIN Wanted /\ owner[l] = Nobody /\ owner' = [owner EXCEPT ![l] = t]
      /\ pc' = [pc EXCEPT ![t] = to] /\ UNCHANGED <<available_gpus, i>>
  BY DEF Acquire, dataVars, mainVars
<1>2. Keeps(t)
  BY <1>1, Threads DEF Keeps, ControlOK
<1>3. CASE t = Main
  <2>1. pc[Main] \in InLoop => i \in 1 .. GPUs /\ Gpu \in Node BY GpuIsNode DEF LoopOK
  <2>2. GPUs' = GPUs /\ Gpu' = Gpu BY <1>1 DEF GPUs, Gpu
  <2>3. pc[Main] \in {"lock_copy", "lock_publish", "lock_find", "lock_message",
                       "lock_get", "lock_collect", "lock_add", "lock_add_fd"}
    BY <1>1, <1>3 DEF Wanted, ControlOK, MainPoints
  <2>4. CASE pc[Main] \in {"lock_copy", "lock_publish", "lock_find", "lock_message"}
    <3>1. l = Current /\ to \in {"copy", "publish", "find", "message"}
      BY <1>3, <2>4 DEF LockOf, Wanted, Entered
    <3>2. pc'[Main] = to /\ owner'[Current] = Main
      BY <1>1, <1>3, <3>1, Threads, Locks DEF ControlOK
    <3>3. MainOwns' BY <3>1, <3>2 DEF MainOwns
    <3>4. to \in MainPoints /\ to \notin InLoop BY <3>1 DEF MainPoints, InLoop
    <3> HIDE DEF l, to
    <3> QED BY <1>1, <1>2, <1>3, <3>1, <3>3, <3>4, MainMoves DEF ControlOK
  <2>5. CASE pc[Main] = "lock_get"
    <3>1. l = <<"system", Gpu>> /\ to = "get" /\ i \in 1 .. GPUs /\ Gpu \in Node
      BY <1>3, <2>1, <2>5, Threads DEF LockOf, Wanted, Entered, InLoop
    <3>2. pc'[Main] = to /\ owner'[l] = Main
      BY <1>1, <1>3, <3>1, Threads, Locks DEF ControlOK
    <3>3. MainOwns' BY <2>2, <3>1, <3>2 DEF MainOwns
    <3>4. to \in MainPoints BY <3>1 DEF MainPoints
    <3> HIDE DEF l, to
    <3> QED BY <1>1, <1>2, <1>3, <3>1, <3>3, <3>4, MainMoves DEF ControlOK
  <2>6. CASE pc[Main] \in {"lock_collect", "lock_add"}
    <3>1. l = <<"process", Gpu>> /\ to \in {"collect", "add"} /\ i \in 1 .. GPUs /\ Gpu \in Node
      BY <1>3, <2>1, <2>6, Threads DEF LockOf, Wanted, Entered, InLoop
    <3>2. pc'[Main] = to /\ owner'[l] = Main
      BY <1>1, <1>3, <3>1, Threads, Locks DEF ControlOK
    <3>3. MainOwns' BY <2>2, <3>1, <3>2 DEF MainOwns
    <3>4. to \in MainPoints BY <3>1 DEF MainPoints
    <3> HIDE DEF l, to
    <3> QED BY <1>1, <1>2, <1>3, <3>1, <3>3, <3>4, MainMoves DEF ControlOK
  <2>7. CASE pc[Main] = "lock_add_fd"
    <3>1. l = <<"pids", Gpu>> /\ to = "add_fd" /\ i \in 1 .. GPUs /\ Gpu \in Node
      BY <1>3, <2>1, <2>7, Threads DEF LockOf, Wanted, Entered, InLoop
    <3>2. pc'[Main] = to /\ owner'[l] = Main
      BY <1>1, <1>3, <3>1, Threads, Locks DEF ControlOK
    <3>3. MainOwns' BY <2>2, <3>1, <3>2 DEF MainOwns
    <3>4. to \in MainPoints BY <3>1 DEF MainPoints
    <3> HIDE DEF l, to
    <3> QED BY <1>1, <1>2, <1>3, <3>1, <3>3, <3>4, MainMoves DEF ControlOK
  <2> QED BY <2>3, <2>4, <2>5, <2>6, <2>7
<1>4. CASE t = Api
  <2>1. pc[Api] = "lock_json" BY <1>1, <1>4 DEF Wanted, ControlOK, ApiPoints
  <2>2. l = Current /\ to = "json" BY <1>4, <2>1 DEF LockOf, Wanted, Entered
  <2>3. pc'[Api] = "json" /\ owner'[Current] = Api
    BY <1>1, <1>4, <2>2, Threads, Locks DEF ControlOK
  <2>4. ApiOwns' BY <2>3 DEF ApiOwns
  <2> HIDE DEF l, to
  <2> QED BY <1>1, <1>2, <1>4, <2>2, <2>4, ApiMoves DEF ApiPoints
<1>5. ASSUME NEW g \in Node, t = Worker(g) PROVE LockInv'
  <2>1. pc[t] \in {"lock_scan", "lock_sys", "lock_proc"}
    BY <1>1, <1>5 DEF Wanted, ControlOK, WorkerPoints
  <2>2. t # Main /\ t[2] = g BY <1>5, Threads
  <2>3. /\ l = <<Wanted[pc[t]], g>> /\ l \in Lock
        /\ to = Entered[pc[t]] /\ to \in WorkerPoints
    <3>1. Wanted[pc[t]] \in {"system", "process", "pids"} BY <2>1 DEF Wanted
    <3>2. l = <<Wanted[pc[t]], g>> BY <2>2, <3>1 DEF LockOf
    <3>3. l \in Lock BY <3>1, <3>2, Locks
    <3>4. to \in WorkerPoints BY <2>1 DEF Entered, WorkerPoints
    <3> QED BY <3>2, <3>3, <3>4
  <2>4. pc'[t] = to /\ owner'[l] = t /\ \A k \in Lock \ {l} : owner'[k] = owner[k]
    BY <1>1, <2>3 DEF ControlOK
  <2>5. WorkerOwns(g)'
    <3>1. CASE pc[t] = "lock_scan"
      BY <1>5, <2>3, <2>4, <3>1 DEF Wanted, Entered, WorkerOwns
    <3>2. CASE pc[t] = "lock_sys"
      BY <1>5, <2>3, <2>4, <3>2 DEF Wanted, Entered, WorkerOwns
    <3>3. CASE pc[t] = "lock_proc"
      <4>1. owner[<<"system", g>>] = t /\ <<"system", g>> \in Lock
        BY <1>5, <3>3, Locks DEF WorkerOwns
      <4>2. l = <<"process", g>> /\ pc'[t] = "update" BY <2>3, <2>4, <3>3 DEF Wanted, Entered
      <4>3. owner'[<<"system", g>>] = t BY <2>4, <4>1, <4>2
      <4> QED BY <1>5, <2>4, <4>2, <4>3 DEF WorkerOwns
    <3> QED BY <2>1, <3>1, <3>2, <3>3
  <2>6. pc[Worker(g)] \notin {"none", "done"} BY <1>5, <2>1
  <2> HIDE DEF l, to
  <2> QED BY <1>1, <1>2, <1>5, <2>3, <2>5, <2>6, WorkerMoves
<1> QED BY <1>3, <1>4, <1>5, Threads

LEMMA NextLock == LockInv /\ [Next]_vars => LockInv'
<1> SUFFICES ASSUME LockInv, [Next]_vars PROVE LockInv' OBVIOUS
<1>1. CASE MainStep BY <1>1, MainStepLock
<1>2. CASE ApiStep BY <1>2, ApiStepLock
<1>3. CASE Interrupt BY <1>3, NobodyMoves DEF Interrupt, mainVars
<1>4. ASSUME NEW t \in Thread, Acquire(t) PROVE LockInv' BY <1>4, AcquireLock
<1>5. ASSUME NEW g \in Node, WorkerStep(g) PROVE LockInv' BY <1>5, WorkerStepLock
<1>6. ASSUME NEW g \in Node, Change(g) PROVE LockInv'
  BY <1>6, NobodyMoves DEF Change, mainVars
<1>7. CASE UNCHANGED vars BY <1>7, NobodyMoves DEF vars
<1> QED BY <1>1, <1>2, <1>3, <1>4, <1>5, <1>6, <1>7 DEF Next, Running, Stopped

LEMMA SpecLock == Spec => []LockInv
<1>1. Init => LockInv BY InitLock
<1>2. LockInv /\ [Next]_vars => LockInv' BY NextLock
<1> QED BY <1>1, <1>2, PTL DEF Spec

-----------------------------------------------------------------------------
(* What each thread accesses, and by which mutex.                          *)

LEMMA MainAccesses ==
  ASSUME LockInv, NEW a \in Accesses(Main)
  PROVE  \/ a[1] = "current" /\ (pc[Main] = "emplace" \/ owner[Current] = Main)
         \/ /\ a[1] \in {"system", "process", "pids"} /\ a[2] = Gpu /\ Gpu \in Node
            /\ owner[<<a[1], a[2]>>] = Main
            /\ a[1] = "process" => pc[Main] \in {"collect", "add"}
            /\ a[1] = "pids" => pc[Main] = "add_fd"
<1> USE DEF LockInv
<1>1. pc[Main] \in InLoop => i \in 1 .. GPUs /\ Gpu \in Node BY GpuIsNode DEF LoopOK
<1>2. pc[Main] \notin {"json", "json_rest", "update", "table", "scan", "loads"}
  BY DEF ControlOK, MainPoints
<1>3. CASE pc[Main] \in {"copy", "find", "message", "publish", "publish_rest", "emplace"}
  BY <1>3 DEF Accesses, MainOwns
<1>4. CASE pc[Main] = "get" BY <1>1, <1>4 DEF Accesses, MainOwns, InLoop
<1>5. CASE pc[Main] \in {"collect", "add"} BY <1>1, <1>5 DEF Accesses, MainOwns, InLoop
<1>6. CASE pc[Main] = "add_fd" BY <1>1, <1>6 DEF Accesses, MainOwns, InLoop
<1> QED BY <1>2, <1>3, <1>4, <1>5, <1>6 DEF Accesses

LEMMA ApiAccesses ==
  ASSUME LockInv, NEW a \in Accesses(Api)
  PROVE  a[1] = "current" /\ pc[Api] \in {"json", "json_rest"} /\ owner[Current] = Api
<1> USE DEF LockInv
<1>1. pc[Api] \in {"json", "json_rest"} /\ a[1] = "current"
  BY DEF ControlOK, ApiPoints, Accesses
<1> QED BY <1>1 DEF ApiOwns

LEMMA WorkerAccesses ==
  ASSUME LockInv, NEW g \in Node, NEW a \in Accesses(Worker(g))
  PROVE  /\ a[1] \in {"system", "process", "pids"} /\ a[2] = g
         /\ \/ owner[<<a[1], a[2]>>] = Worker(g)
            \/ a[1] = "process" /\ pc[Worker(g)] = "table"
            \/ a[1] = "pids" /\ pc[Worker(g)] = "loads"
<1> USE DEF LockInv
<1>1. Worker(g) # Main /\ Worker(g)[2] = g BY Threads
<1>2. pc[Worker(g)] \in WorkerPoints /\ WorkerOwns(g) BY DEF ControlOK
<1>3. CASE pc[Worker(g)] = "update" BY <1>1, <1>2, <1>3 DEF Accesses, WorkerOwns
<1>4. CASE pc[Worker(g)] = "scan" BY <1>1, <1>2, <1>4 DEF Accesses, WorkerOwns
<1>5. CASE pc[Worker(g)] \in {"table", "loads"} BY <1>1, <1>5 DEF Accesses
<1>6. CASE pc[Worker(g)] \in {"none", "check", "lock_scan", "sample", "lock_sys", "lock_proc", "done"}
  BY <1>6 DEF Accesses
<1> QED BY <1>2, <1>3, <1>4, <1>5, <1>6 DEF WorkerPoints

LEMMA RacingIsSymmetric == \A t, u : Racing(t, u) => Racing(u, t)
  BY DEF Racing

(* No two threads are at conflicting accesses to a table but where the     *)
(* code takes no mutex: the mutexes of main.cpp, gpu.cpp and fdinfo.cpp    *)
(* keep apart everything else, for any number of GPUs.                     *)
THEOREM MutexesKeepApart == Spec => []OnlyKnownRaces
<1>1. ASSUME LockInv PROVE OnlyKnownRaces
  <2> DEFINE Fine(t, u) == \/ <<pc[t], pc[u]>> \in KnownRaces
                           \/ <<pc[u], pc[t]>> \in KnownRaces
  <2>1. ASSUME Racing(Main, Api) PROVE Fine(Main, Api)
    <3>1. PICK a \in Accesses(Main), b \in Accesses(Api) : a[1] = b[1]
      BY <2>1 DEF Racing
    <3>2. pc[Main] = "emplace" /\ pc[Api] \in {"json", "json_rest"}
      BY <1>1, <3>1, Threads, MainAccesses, ApiAccesses
    <3> QED BY <3>2 DEF KnownRaces
  <2>2. ASSUME NEW g \in Node, Racing(Main, Worker(g)) PROVE Fine(Main, Worker(g))
    <3>1. PICK a \in Accesses(Main), b \in Accesses(Worker(g)) : a[1] = b[1] /\ a[2] = b[2]
      BY <2>2 DEF Racing
    <3>2. Worker(g) # Main BY Threads
    <3>3. /\ a[1] \in {"system", "process", "pids"}
          /\ \/ owner[<<a[1], a[2]>>] = Worker(g)
             \/ a[1] = "process" /\ pc[Worker(g)] = "table"
             \/ a[1] = "pids" /\ pc[Worker(g)] = "loads"
      BY <1>1, <3>1, WorkerAccesses
    <3>4. /\ owner[<<a[1], a[2]>>] = Main
          /\ a[1] = "process" => pc[Main] \in {"collect", "add"}
          /\ a[1] = "pids" => pc[Main] = "add_fd"
      BY <1>1, <3>3, MainAccesses
    <3>5. \/ pc[Main] \in {"collect", "add"} /\ pc[Worker(g)] = "table"
          \/ pc[Main] = "add_fd" /\ pc[Worker(g)] = "loads"
      BY <3>2, <3>3, <3>4
    <3> QED BY <3>5 DEF KnownRaces
  <2>3. ASSUME NEW g \in Node PROVE ~Racing(Api, Worker(g))
    BY <1>1, ApiAccesses, WorkerAccesses DEF Racing
  <2>4. ASSUME NEW g \in Node, NEW h \in Node, g # h PROVE ~Racing(Worker(g), Worker(h))
    <3> SUFFICES ASSUME NEW a \in Accesses(Worker(g)), NEW b \in Accesses(Worker(h))
                 PROVE  a[2] # b[2]
      BY DEF Racing
    <3>1. a[2] = g /\ b[2] = h BY <1>1, WorkerAccesses
    <3> QED BY <2>4, <3>1
  <2>5. ASSUME NEW t \in Thread, NEW u \in Thread, t # u, Racing(t, u) PROVE Fine(t, u)
    <3> HIDE DEF Fine
    <3> USE <2>5, RacingIsSymmetric
    <3>1. \A v, w : Fine(v, w) => Fine(w, v) BY DEF Fine
    <3>2. CASE t = Main /\ u = Api BY <2>1, <3>2
    <3>3. CASE t = Api /\ u = Main BY <2>1, <3>1, <3>3
    <3>4. ASSUME NEW g \in Node, u = Worker(g) PROVE Fine(t, u)
      <4>1. CASE t = Main BY <2>2, <3>4, <4>1
      <4>2. CASE t = Api BY <2>3, <3>4, <4>2
      <4>3. ASSUME NEW h \in Node, t = Worker(h) PROVE Fine(t, u) BY <2>4, <3>4, <4>3
      <4> QED BY <4>1, <4>2, <4>3, Threads
    <3>5. ASSUME NEW g \in Node, t = Worker(g) PROVE Fine(t, u)
      <4>1. CASE u = Main BY <2>2, <3>1, <3>5, <4>1
      <4>2. CASE u = Api BY <2>3, <3>5, <4>2
      <4> QED BY <3>4, <4>1, <4>2, Threads
    <3> QED BY <3>2, <3>3, <3>4, <3>5, Threads
  <2> QED BY <2>5 DEF OnlyKnownRaces
<1> QED BY <1>1, SpecLock, PTL

-----------------------------------------------------------------------------
(* The data: types, and which poll a part of the metrics is of.            *)

DataOK ==
  /\ driver \in [Node -> Driver] /\ port_free \in BOOLEAN /\ hardware \in [Node -> Nat]
  /\ should_exit \in BOOLEAN /\ crashed \in BOOLEAN
  /\ m \in Metrics /\ current_metrics \in Metrics /\ snapshot \in {0, 1}
  /\ reading \in [Node -> Nat] /\ system_metrics \in [Node -> Nat]
  /\ derived \in [Node -> BOOLEAN] /\ stop_thread \in [Node -> BOOLEAN]

(* Between its copy and its publication, main holds metrics of one poll;   *)
(* only in the midst of the publication current_metrics is of two.         *)
Polling == {"lock_get", "get", "lock_collect", "collect", "lock_publish", "publish"}
OnePoll ==
  /\ pc[Main] \in Polling => m.cpu.poll = m.gpu.poll
  /\ pc[Main] # "publish_rest" => current_metrics.cpu.poll = current_metrics.gpu.poll
  /\ pc[Main] = "publish_rest" => current_metrics.cpu.poll = m.gpu.poll
  /\ SnapshotWhole

DataInv == LockInv /\ DataOK /\ OnePoll

LEMMA NoMetricsType == NoMetrics \in Metrics /\ NoMetrics.cpu.poll = NoMetrics.gpu.poll
  BY SlotsAssumption DEF NoMetrics, OwnPower, Metrics, Slot

LEMMA InitData == Init => DataInv
<1> SUFFICES ASSUME Init PROVE DataInv OBVIOUS
<1>1. LockInv BY InitLock
<1>2. driver \in [Node -> Driver] /\ port_free \in BOOLEAN
  BY MachinesAssumption DEF Init
<1>3. hardware \in [Node -> Nat] BY ReadingAssumption DEF Init
<1>4. DataOK BY <1>2, <1>3, NoMetricsType DEF Init, DataOK
<1>5. pc[Main] = "discover" /\ pc[Api] = "none" BY Threads DEF Init
<1> QED BY <1>1, <1>4, <1>5, NoMetricsType DEF Init, DataInv, OnePoll, Polling, SnapshotWhole

(* A step that changes none of the metrics, and does not bring main or the *)
(* api thread to where OnePoll speaks of them.                             *)
LEMMA MetricsStay ==
  ASSUME DataInv, LockInv', UNCHANGED <<driver, port_free, m, current_metrics, snapshot>>,
         hardware' \in [Node -> Nat], should_exit' \in BOOLEAN, crashed' \in BOOLEAN,
         reading' \in [Node -> Nat], system_metrics' \in [Node -> Nat],
         derived' \in [Node -> BOOLEAN], stop_thread' \in [Node -> BOOLEAN],
         pc'[Main] \in Polling => pc[Main] \in Polling,
         (pc'[Main] = "publish_rest") <=> (pc[Main] = "publish_rest"),
         pc'[Api] = "json_rest" => pc[Api] = "json_rest"
  PROVE  DataInv'
  BY DEF DataInv, DataOK, OnePoll, SnapshotWhole

LEMMA AcquireData ==
  ASSUME DataInv, LockInv', NEW t \in Thread, Acquire(t)
  PROVE  DataInv'
<1> USE DEF DataInv, LockInv, ControlOK
<1>1. pc[t] \in DOMAIN Wanted /\ pc' = [pc EXCEPT ![t] = Entered[pc[t]]] /\ UNCHANGED dataVars
  BY DEF Acquire
<1>2. \A u \in Thread : u # t => pc'[u] = pc[u] BY <1>1
<1>3. pc'[t] = Entered[pc[t]] BY <1>1
<1>4. Entered[pc[t]] \notin {"publish_rest", "json_rest"} /\ pc[t] \notin {"publish_rest"}
  BY <1>1 DEF Entered, Wanted
<1>5. Entered[pc[t]] \in Polling => pc[t] \in Polling \cup {"lock_scan"}
  BY <1>1 DEF Entered, Wanted, Polling
<1>6. pc[Main] # "lock_scan" BY DEF MainPoints
<1>7. pc'[Main] \in Polling => pc[Main] \in Polling
  BY <1>2, <1>3, <1>5, <1>6, Threads
<1>8. (pc'[Main] = "publish_rest") <=> (pc[Main] = "publish_rest")
  BY <1>2, <1>3, <1>4, Threads
<1>9. pc'[Api] = "json_rest" => pc[Api] = "json_rest"
  BY <1>2, <1>3, <1>4, Threads
<1> QED BY <1>1, <1>7, <1>8, <1>9, MetricsStay
        DEF dataVars, envVars, mainVars, workerVars, gpuVars, DataOK

LEMMA MergedType ==
  ASSUME NEW of \in [Slot -> Nat], NEW s \in Slot, NEW own \in (0 .. Slots + 1) \X Nat,
         NEW power \in Merged(of, s, own)
  PROVE  power \in (0 .. Slots + 1) \X Nat
<1>1. CASE s = Slots BY <1>1, SlotsAssumption DEF Merged, Slot
<1>2. CASE s # Slots
  <2>1. s + 1 \in Slot /\ of[s + 1] \in Nat BY <1>2, SlotsAssumption DEF Slot
  <2> QED BY <1>2, <2>1, SlotsAssumption DEF Merged, Slot
<1> QED BY <1>1, <1>2

LEMMA MainStepData == DataInv /\ LockInv' /\ MainStep => DataInv'
<1> SUFFICES ASSUME DataInv, LockInv', MainStep PROVE DataInv' OBVIOUS
<1> USE DEF DataInv, LockInv, ControlOK
<1>1. ASSUME NEW from \in MainPoints, pc[Main] = from, NEW to \in MainPoints,
             pc' = [pc EXCEPT ![Main] = to],
             UNCHANGED <<driver, port_free, hardware, should_exit, m, current_metrics,
                         workerVars, snapshot>>,
             crashed' \in BOOLEAN, derived' \in [Node -> BOOLEAN],
             stop_thread' \in [Node -> BOOLEAN],
             to \in Polling => from \in Polling, to # "publish_rest", from # "publish_rest"
      PROVE  DataInv'
  <2>1. pc'[Main] = to /\ pc'[Api] = pc[Api] BY <1>1, Threads
  <2> QED BY <1>1, <2>1, MetricsStay DEF workerVars, DataOK
<1>2. ASSUME NEW from \in MainPoints, pc[Main] = from, NEW to \in MainPoints,
             pc' = [pc EXCEPT ![Main] = to],
             UNCHANGED <<envVars, m, current_metrics, workerVars, gpuVars, snapshot>>,
             to \in Polling => from \in Polling, to # "publish_rest", from # "publish_rest"
      PROVE  DataInv'
  BY <1>1, <1>2 DEF envVars, gpuVars, DataOK
<1>3. CASE Discover
  <2>1. pc[Main] = "discover" /\ i \in Node /\ pc'[Main] = pc[Main] /\ pc'[Api] = pc[Api]
    BY <1>3, Threads, NodesAssumption DEF Discover, Node
  <2> QED BY <1>3, <2>1, MetricsStay
          DEF Discover, envVars, workerVars, gpuVars, DataOK, Polling
<1>4. CASE StartApi
  <2>1. pc'[Main] = "loop" /\ pc'[Api] = "setup" /\ pc[Main] = "discover"
    BY <1>4, Threads DEF StartApi
  <2> QED BY <1>4, <2>1, MetricsStay
          DEF StartApi, envVars, workerVars, gpuVars, DataOK, Polling
<1>5. CASE StartPoll
  BY <1>2, <1>5 DEF StartPoll, Goto, Step, dataVars, mainVars, MainPoints, Polling
<1>6. CASE CopyCurrent
  <2>1. /\ pc[Main] = "copy" /\ pc'[Main] \in Polling /\ pc'[Main] # "publish_rest"
        /\ pc'[Api] = pc[Api]
    BY <1>6, Threads DEF CopyCurrent, Step, Polling
  <2>2. /\ m' \in Metrics /\ m'.cpu.poll = 1 - current_metrics.cpu.poll
        /\ m'.gpu.poll = 1 - current_metrics.gpu.poll
    <3>1. m' = [cpu |-> [poll |-> 1 - current_metrics.cpu.poll, power |-> OwnPower],
                gpu |-> [current_metrics.gpu EXCEPT !.poll = 1 - @]]
      BY <1>6 DEF CopyCurrent
    <3>2. OwnPower \in (0 .. Slots + 1) \X Nat BY SlotsAssumption DEF OwnPower
    <3>3. current_metrics \in Metrics BY DEF DataOK
    <3>4. \A p \in {0, 1} : 1 - p \in {0, 1} OBVIOUS
    <3> QED BY <3>1, <3>2, <3>3, <3>4 DEF Metrics
  <2>3. OnePoll' BY <1>6, <2>1, <2>2 DEF OnePoll, SnapshotWhole, CopyCurrent
  <2>4. DataOK' BY <1>6, <2>2 DEF CopyCurrent, DataOK, envVars, workerVars, gpuVars
  <2> QED BY <2>3, <2>4
<1>7. CASE PollGPU
  <2>1. i \in Slot /\ Gpu \in Node
    BY <1>7, GpuIsNode DEF PollGPU, LoopOK, InLoop, Slot, GPUs
  <2> DEFINE of == [m.gpu.of EXCEPT ![i] = system_metrics[Gpu]]
  <2>2. of \in [Slot -> Nat] BY <2>1 DEF DataOK, Metrics
  <2>3. PICK power \in Merged(of, i, m.cpu.power) :
          m' = [m EXCEPT !.gpu.of = of, !.cpu.power = power]
    BY <1>7 DEF PollGPU
  <2>4. power \in (0 .. Slots + 1) \X Nat BY <2>1, <2>2, <2>3, MergedType DEF DataOK, Metrics
  <2> HIDE DEF of
  <2>5. m' \in Metrics /\ m'.cpu.poll = m.cpu.poll /\ m'.gpu.poll = m.gpu.poll
    BY <2>2, <2>3, <2>4 DEF DataOK, Metrics
  <2>6. /\ pc[Main] = "get" /\ pc'[Main] \in Polling /\ pc'[Main] # "publish_rest"
        /\ pc'[Api] = pc[Api]
    BY <1>7, Threads DEF PollGPU, NextGPU, Polling
  <2>7. OnePoll' BY <1>7, <2>5, <2>6 DEF OnePoll, SnapshotWhole, PollGPU, Polling
  <2>8. DataOK' BY <1>7, <2>5 DEF PollGPU, DataOK, envVars, workerVars, gpuVars
  <2> QED BY <2>7, <2>8
<1>8. CASE PollGPUPastArray
  BY <1>8, MetricsStay DEF PollGPUPastArray, mainVars, workerVars, gpuVars, DataOK
<1>9. CASE Collect
  BY <1>2, <1>9 DEF Collect, NextGPU, MainPoints, Polling
<1>10. CASE Publish
  <2>1. /\ pc[Main] = "publish" /\ pc'[Main] = "publish_rest" /\ pc'[Api] = pc[Api]
        /\ current_metrics' = [current_metrics EXCEPT !.cpu = m.cpu]
        /\ UNCHANGED <<envVars, m, workerVars, gpuVars, snapshot>>
    BY <1>10, Threads DEF Publish, Step
  <2>2. pc[Api] # "json_rest" BY <2>1, Threads DEF MainOwns, ApiOwns
  <2>3. current_metrics' \in Metrics /\ current_metrics'.cpu.poll = m.gpu.poll
    BY <2>1 DEF DataOK, OnePoll, Metrics, Polling
  <2>4. OnePoll' BY <2>1, <2>2, <2>3 DEF OnePoll, SnapshotWhole, Polling
  <2>5. DataOK' BY <2>1, <2>3 DEF DataOK, envVars, workerVars, gpuVars
  <2> QED BY <2>4, <2>5
<1>11. CASE PublishRest
  <2>1. /\ pc[Main] = "publish_rest" /\ pc'[Main] = "serve" /\ pc'[Api] = pc[Api]
        /\ current_metrics' = [current_metrics EXCEPT !.gpu = m.gpu] /\ m' = NoMetrics
        /\ UNCHANGED <<envVars, workerVars, gpuVars, snapshot>>
    BY <1>11, Threads DEF PublishRest, Step
  <2>2. pc[Api] # "json_rest" BY <2>1, Threads DEF MainOwns, ApiOwns
  <2>3. current_metrics' \in Metrics /\ current_metrics'.cpu.poll = current_metrics'.gpu.poll
    BY <2>1 DEF DataOK, OnePoll, Metrics
  <2>4. OnePoll' BY <2>1, <2>2, <2>3 DEF OnePoll, SnapshotWhole, Polling
  <2>5. DataOK' BY <2>1, <2>3, NoMetricsType DEF DataOK, envVars, workerVars, gpuVars
  <2> QED BY <2>4, <2>5
<1>12. CASE StartRegister
  BY <1>2, <1>12 DEF StartRegister, Goto, Step, dataVars, mainVars, MainPoints, Polling
<1>13. CASE Find BY <1>2, <1>13 DEF Find, Step, MainPoints, Polling
<1>14. CASE AddPid BY <1>2, <1>14 DEF AddPid, NextGPU, MainPoints, Polling
<1>15. CASE AddFDPid BY <1>2, <1>15 DEF AddFDPid, NextGPU, MainPoints, Polling
<1>16. CASE Emplace
  BY <1>2, <1>16 DEF Emplace, Goto, Step, dataVars, mainVars, MainPoints, Polling
<1>17. CASE Message
  BY <1>2, <1>17 DEF Message, Step, dataVars, mainVars, MainPoints, Polling
<1>18. CASE Leave
  BY <1>2, <1>18 DEF Leave, Goto, Step, dataVars, mainVars, MainPoints, Polling
<1>19. CASE JoinApi BY <1>2, <1>19 DEF JoinApi, Step, MainPoints, Polling
<1>20. CASE Destroy
  <2>1. crashed' \in BOOLEAN
    <3> DEFINE inside == pc[Worker(Gpu)] \in InDerived
    <3>1. crashed' \in {FALSE, inside} BY <1>20 DEF Destroy
    <3>2. inside \in BOOLEAN OBVIOUS
    <3> HIDE DEF inside
    <3> QED BY <3>1, <3>2
  <2>2. derived' \in [Node -> BOOLEAN] BY <1>20 DEF Destroy, DataOK
  <2>3. /\ pc[Main] = "destroy" /\ pc' = [pc EXCEPT ![Main] = "stop"]
        /\ UNCHANGED <<driver, port_free, hardware, should_exit, m, current_metrics,
                       workerVars, snapshot, stop_thread>>
    BY <1>20 DEF Destroy, Step, mainVars
  <2>4. stop_thread' \in [Node -> BOOLEAN] BY <2>3 DEF DataOK
  <2> QED BY <1>1, <2>1, <2>2, <2>3, <2>4 DEF MainPoints, Polling
<1>21. CASE StopWorker
  BY <1>1, <1>21
  DEF StopWorker, Step, mainVars, envVars, workerVars, DataOK, MainPoints, Polling
<1>22. CASE JoinWorker BY <1>2, <1>22 DEF JoinWorker, NextGPU, MainPoints, Polling
<1>23. CASE SkipPoll
  BY <1>2, <1>23 DEF SkipPoll, Goto, Step, dataVars, mainVars, MainPoints, Polling
<1>24. CASE EndIteration
  BY <1>2, <1>24 DEF EndIteration, Goto, Step, dataVars, mainVars, MainPoints, Polling
<1> QED BY <1>3, <1>4, <1>5, <1>6, <1>7, <1>8, <1>9, <1>10, <1>11, <1>12, <1>13, <1>14,
           <1>15, <1>16, <1>17, <1>18, <1>19, <1>20, <1>21, <1>22, <1>23, <1>24 DEF MainStep

LEMMA WorkerStepData ==
  ASSUME DataInv, LockInv', NEW g \in Node, WorkerStep(g)
  PROVE  DataInv'
<1> USE DEF DataInv, LockInv, ControlOK
<1>1. pc'[Main] = pc[Main] /\ pc'[Api] = pc[Api]
  BY Threads DEF WorkerStep, Check, PollAll, Sample, Table, Loads, Update, Goto, Step
<1>2. UNCHANGED <<driver, port_free, hardware, should_exit, mainVars, gpuVars, snapshot>>
  BY DEF WorkerStep, Check, PollAll, Sample, Table, Loads, Update, Goto, dataVars, envVars
<1>4. crashed' \in BOOLEAN
  <2>1. CASE Check(g)
    <3> DEFINE late == ~derived[g] /\ ~stop_thread[g]
    <3>1. crashed' \in {FALSE, late} /\ late \in BOOLEAN BY <2>1 DEF Check
    <3> HIDE DEF late
    <3> QED BY <3>1
  <2>2. CASE ~Check(g)
    BY <2>2 DEF WorkerStep, PollAll, Sample, Table, Loads, Update, Goto, dataVars, envVars,
                DataOK
  <2> QED BY <2>1, <2>2
<1>3. reading' \in [Node -> Nat] /\ system_metrics' \in [Node -> Nat]
  <2>1. CASE Sample(g) BY <2>1 DEF Sample, DataOK
  <2>2. CASE Update(g) BY <2>2 DEF Update, DataOK
  <2>3. CASE Check(g) \/ PollAll(g) \/ Table(g) \/ Loads(g)
    BY <2>3 DEF Check, PollAll, Table, Loads, Goto, dataVars, workerVars, DataOK
  <2> QED BY <2>1, <2>2, <2>3 DEF WorkerStep
<1> QED BY <1>1, <1>2, <1>3, <1>4, MetricsStay DEF mainVars, gpuVars, DataOK

LEMMA ApiStepData == DataInv /\ LockInv' /\ ApiStep => DataInv'
<1> SUFFICES ASSUME DataInv, LockInv', ApiStep PROVE DataInv' OBVIOUS
<1> USE DEF DataInv, LockInv, ControlOK
<1>1. pc'[Main] = pc[Main]
  BY Threads DEF ApiStep, Setup, Request, Json, JsonRest, LeaveApi, Goto, Step
<1>2. UNCHANGED <<envVars, mainVars, workerVars, gpuVars>>
  BY DEF ApiStep, Setup, Request, Json, JsonRest, LeaveApi, Goto, dataVars
<1>3. CASE Json
  <2>1. /\ pc[Api] = "json" /\ pc'[Api] = "json_rest" /\ snapshot' = current_metrics.cpu.poll
    BY <1>3, Threads DEF Json, Step
  <2>2. pc[Main] # "publish_rest" BY <2>1, Threads DEF MainOwns, ApiOwns
  <2>3. snapshot' \in {0, 1} /\ snapshot' = current_metrics.gpu.poll
    BY <2>1, <2>2 DEF DataOK, Metrics, OnePoll
  <2>4. OnePoll' BY <1>1, <1>2, <2>3 DEF OnePoll, SnapshotWhole, mainVars
  <2>5. DataOK' BY <1>2, <2>3 DEF DataOK, envVars, mainVars, workerVars, gpuVars
  <2> QED BY <2>4, <2>5
<1>4. CASE ~Json
  <2>1. pc'[Api] # "json_rest" /\ snapshot' \in {0, 1}
    BY <1>4, Threads
    DEF ApiStep, Setup, Request, JsonRest, LeaveApi, Goto, Step, dataVars, DataOK
  <2>2. OnePoll' BY <1>1, <1>2, <2>1 DEF OnePoll, SnapshotWhole, mainVars
  <2>3. DataOK' BY <1>2, <2>1 DEF DataOK, envVars, mainVars, workerVars, gpuVars
  <2> QED BY <2>2, <2>3
<1> QED BY <1>3, <1>4

LEMMA NextData == DataInv /\ [Next]_vars => DataInv'
<1> SUFFICES ASSUME DataInv, [Next]_vars PROVE DataInv' OBVIOUS
<1>1. LockInv' BY NextLock DEF DataInv
<1>2. CASE MainStep BY <1>1, <1>2, MainStepData
<1>3. CASE ApiStep BY <1>1, <1>3, ApiStepData
<1>4. CASE Interrupt
  BY <1>1, <1>4, MetricsStay DEF Interrupt, DataInv, DataOK, mainVars, workerVars, gpuVars
<1>5. ASSUME NEW t \in Thread, Acquire(t) PROVE DataInv' BY <1>1, <1>5, AcquireData
<1>6. ASSUME NEW g \in Node, WorkerStep(g) PROVE DataInv' BY <1>1, <1>6, WorkerStepData
<1>7. ASSUME NEW g \in Node, Change(g) PROVE DataInv'
  <2>1. hardware' \in [Node -> Nat] BY <1>7 DEF Change, DataInv, DataOK
  <2> QED BY <1>1, <1>7, <2>1, MetricsStay
          DEF Change, DataInv, DataOK, mainVars, workerVars, gpuVars
<1>8. CASE UNCHANGED vars BY <1>1, <1>8, MetricsStay DEF vars, DataInv, DataOK
<1> QED BY <1>2, <1>3, <1>4, <1>5, <1>6, <1>7, <1>8 DEF Next, Running, Stopped

LEMMA SpecData == Spec => []DataInv
<1>1. Init => DataInv BY InitData
<1>2. DataInv /\ [Next]_vars => DataInv' BY NextData
<1> QED BY <1>1, <1>2, PTL DEF Spec

(* Every variable of SystemMetrics has its type, on any machine. *)
THEOREM SystemTypeCorrect == Spec => []TypeOK
<1>1. DataInv => TypeOK BY DEF DataInv, LockInv, ControlOK, DataOK, TypeOK
<1> QED BY <1>1, SpecData, PTL

(* The api thread's copy of current_metrics is of one poll: poll_metrics() *)
(* publishes, and form_json_response() copies, under current_metrics_lock. *)
THEOREM SnapshotIsWhole == Spec => []SnapshotWhole
<1>1. DataInv => SnapshotWhole BY DEF DataInv, OnePoll
<1> QED BY <1>1, SpecData, PTL

-----------------------------------------------------------------------------
(* The power that is shown as the CPU's.                                   *)

(* A power merged into the CPU's, in slot s of the array or past it. *)
FromAPU(power) ==
  \/ power = OwnPower
  \/ power[1] = Slots + 1 /\ GPUs >= Slots
  \/ /\ power[1] \in 2 .. GPUs /\ driver[available_gpus[power[1]]] = "apu"
     /\ power[2] = current_metrics.gpu.of[power[1]]

(* Main's copy holds what is published in the slots it has not come to,    *)
(* and has come to all of them only if the array is long enough.           *)
PowerInv ==
  /\ pc[Main] \in Polling => FromAPU(m.cpu.power)
  /\ pc[Main] \in {"lock_get", "get"} =>
       \A s \in Slot : s >= i => m.gpu.of[s] = current_metrics.gpu.of[s]
  /\ pc[Main] \in {"lock_collect", "collect", "lock_publish", "publish"} => GPUs <= Slots

LEMMA InitPower == Init => PowerInv
  BY Threads DEF Init, PowerInv, Polling

(* A step after which main is not polling. *)
LEMMA NotPolling ==
  ASSUME pc'[Main] \notin Polling
  PROVE  PowerInv'
  BY DEF PowerInv, Polling

(* A step that leaves main and its data where they are. *)
LEMMA PowerStays ==
  ASSUME PowerInv, pc'[Main] = pc[Main],
         UNCHANGED <<driver, available_gpus, i, m, current_metrics>>
  PROVE  PowerInv'
  BY DEF PowerInv, FromAPU, GPUs

(* A slot is merged into the CPU's power with what was published last: the *)
(* slot after the one just filled still holds that.                        *)
LEMMA MergedFromAPU ==
  ASSUME DataInv, PowerInv, pc[Main] = "get", i <= Slots,
         NEW power \in Merged([m.gpu.of EXCEPT ![i] = system_metrics[Gpu]], i, m.cpu.power)
  PROVE  FromAPU(power)
<1> DEFINE of == [m.gpu.of EXCEPT ![i] = system_metrics[Gpu]]
<1>1. /\ i \in Nat /\ i >= 1 /\ i \in 1 .. GPUs /\ GPUs \in Nat /\ Slots \in Nat
      /\ m.gpu.of \in [Slot -> Nat]
  BY SlotsAssumption DEF DataInv, LockInv, LoopOK, ControlOK, InLoop, GPUs, DataOK, Metrics
<1>2. FromAPU(m.cpu.power)
  BY DEF PowerInv, Polling
<1>3. CASE i = Slots
  <2>1. power = m.cpu.power \/ power = <<Slots + 1, 0>>
    BY <1>3 DEF Merged
  <2>2. GPUs >= Slots
    BY <1>1, <1>3
  <2> QED
    BY <2>1, <2>2, <1>2 DEF FromAPU
<1>4. CASE i # Slots /\ IsApu(of, i + 1)
  <2>1. power = m.cpu.power \/ power = <<i + 1, of[i + 1]>>
    BY <1>4 DEF Merged
  <2>2. i + 1 \in Slot /\ i + 1 >= i /\ i + 1 # i
    BY <1>1, <1>4 DEF Slot
  <2>3. of[i + 1] = current_metrics.gpu.of[i + 1]
    BY <2>2, <1>1 DEF PowerInv
  <2>4. i + 1 \in 2 .. GPUs /\ driver[available_gpus[i + 1]] = "apu"
    BY <1>1, <1>4 DEF IsApu
  <2>5. power = <<i + 1, of[i + 1]>> => power[1] = i + 1 /\ power[2] = of[i + 1]
    OBVIOUS
  <2> HIDE DEF of
  <2> QED
    BY <2>1, <2>3, <2>4, <2>5, <1>2 DEF FromAPU
<1>5. CASE i # Slots /\ ~ IsApu(of, i + 1)
  BY <1>2, <1>5 DEF Merged
<1> QED
  BY <1>3, <1>4, <1>5

LEMMA PollGPUPower ==
  ASSUME DataInv, PowerInv, PollGPU
  PROVE  PowerInv'
<1> DEFINE of == [m.gpu.of EXCEPT ![i] = system_metrics[Gpu]]
<1>1. /\ pc[Main] = "get" /\ i <= Slots /\ i \in 1 .. GPUs /\ GPUs \in Nat
      /\ UNCHANGED <<driver, available_gpus, current_metrics>> /\ GPUs' = GPUs
  BY DEF PollGPU, envVars, DataInv, LockInv, LoopOK, ControlOK, InLoop, GPUs
<1>2. PICK power \in Merged(of, i, m.cpu.power) :
        m' = [m EXCEPT !.gpu.of = of, !.cpu.power = power]
  BY DEF PollGPU
<1>3. m \in Metrics
  BY DEF DataInv, DataOK
<1>4. m'.cpu.power = power /\ m'.gpu.of = of
  BY <1>2, <1>3 DEF Metrics
<1>5. FromAPU(power)
  BY <1>1, <1>2, MergedFromAPU
<1>6. FromAPU(m.cpu.power)'
  BY <1>1, <1>4, <1>5 DEF FromAPU
<1>7. \E after \in {"lock_collect", "lock_publish"} : NextGPU("lock_get", after)
  BY DEF PollGPU
<1>8. CASE i' = i + 1 /\ pc'[Main] = "lock_get"
  <2>1. \A s \in Slot : s >= i' => s # i /\ s >= i
    BY <1>1, <1>8, SlotsAssumption DEF Slot
  <2>2. \A s \in Slot : s >= i' => m'.gpu.of[s] = current_metrics.gpu.of[s]
    BY <1>1, <1>3, <1>4, <2>1 DEF PowerInv, Metrics
  <2> QED
    BY <1>1, <1>6, <1>8, <2>2 DEF PowerInv
<1>9. CASE i = GPUs /\ pc'[Main] \in {"lock_collect", "lock_publish"}
  BY <1>1, <1>6, <1>9 DEF PowerInv
<1>10. Main \in DOMAIN pc
  BY Threads DEF DataInv, LockInv, ControlOK
<1> QED
  BY <1>1, <1>7, <1>8, <1>9, <1>10 DEF NextGPU

LEMMA MainStepPower ==
  ASSUME DataInv, PowerInv, MainStep
  PROVE  PowerInv'
<1>1. Main \in DOMAIN pc /\ pc \in [Thread -> Points] /\ GPUs \in Nat
  BY Threads DEF DataInv, LockInv, ControlOK, GPUs
<1>2. CASE CopyCurrent
  <2>1. /\ pc'[Main] = IF GPUs = 0 THEN "lock_publish" ELSE "lock_get"
        /\ i' = 1 /\ GPUs' = GPUs /\ UNCHANGED current_metrics
    BY <1>1, <1>2 DEF CopyCurrent, Step, GPUs
  <2>2. m'.cpu.power = OwnPower /\ m'.gpu.of = current_metrics.gpu.of
    BY <1>2 DEF CopyCurrent, DataInv, DataOK, Metrics
  <2> QED
    BY <2>1, <2>2, <1>1, SlotsAssumption DEF PowerInv, FromAPU
<1>3. CASE PollGPU
  BY <1>3, PollGPUPower
<1>4. CASE PollGPUPastArray
  BY <1>4, PowerStays DEF PollGPUPastArray, mainVars
<1>5. CASE Collect
  <2>1. /\ pc[Main] = "collect" /\ pc'[Main] \in {"lock_collect", "lock_publish"}
        /\ UNCHANGED <<driver, available_gpus, m, current_metrics>>
    BY <1>1, <1>5 DEF Collect, NextGPU, envVars
  <2> QED
    BY <2>1 DEF PowerInv, Polling, FromAPU, GPUs
<1>6. CASE Discover
  <2>1. Worker(i) \in Thread \/ pc' = pc
    BY <1>6, Threads, NodesAssumption DEF Discover, DataInv, LockInv, ControlOK, Node
  <2>2. pc'[Main] = "discover"
    BY <1>1, <1>6, <2>1, Threads, NodesAssumption
       DEF Discover, DataInv, LockInv, ControlOK, Node
  <2> QED
    BY <2>2, NotPolling DEF Polling
<1>7. CASE StartPoll
  <2>1. pc'[Main] = "lock_copy"
    BY <1>1, <1>7 DEF StartPoll, Goto, Step
  <2> QED
    BY <2>1, NotPolling DEF Polling
<1>8. CASE \/ StartApi \/ Publish \/ PublishRest \/ Message \/ Leave \/ Emplace
         \/ SkipPoll \/ EndIteration
  <2>1. pc'[Main] \in {"loop", "serve", "publish_rest", "join", "lock_message"}
    BY <1>1, <1>8, Threads
       DEF StartApi, Publish, PublishRest, Message, Leave, Emplace, SkipPoll, EndIteration,
           Goto, Step
  <2> QED
    BY <2>1, NotPolling DEF Polling
<1>9. CASE StartRegister \/ Find \/ AddPid \/ AddFDPid
  <2>1. pc'[Main] \in {"lock_find", "lock_message", "emplace", "lock_add", "lock_add_fd"}
    BY <1>1, <1>9 DEF StartRegister, Find, AddPid, AddFDPid, NextGPU, Goto, Step
  <2> QED
    BY <2>1, NotPolling DEF Polling
<1>10. CASE JoinApi \/ Destroy \/ StopWorker \/ JoinWorker
  <2>1. pc'[Main] \in {"returned", "destroy", "stop", "join_worker"}
    BY <1>1, <1>10 DEF JoinApi, Destroy, StopWorker, JoinWorker, NextGPU, Step
  <2> QED
    BY <2>1, NotPolling DEF Polling
<1> QED
  BY <1>2, <1>3, <1>4, <1>5, <1>6, <1>7, <1>8, <1>9, <1>10 DEF MainStep

LEMMA NextPower == DataInv /\ PowerInv /\ [Next]_vars => PowerInv'
<1> SUFFICES ASSUME DataInv, PowerInv, [Next]_vars PROVE PowerInv' OBVIOUS
<1>1. Main \in DOMAIN pc /\ pc \in [Thread -> Points]
  BY Threads DEF DataInv, LockInv, ControlOK
<1>2. CASE MainStep
  BY <1>2, MainStepPower
<1>3. CASE ApiStep
  <2>1. pc'[Main] = pc[Main]
    BY <1>1, <1>3, Threads DEF ApiStep, Setup, Request, Json, JsonRest, LeaveApi, Goto, Step
  <2>2. UNCHANGED <<envVars, mainVars>>
    BY <1>3 DEF ApiStep, Setup, Request, Json, JsonRest, LeaveApi, Goto, dataVars
  <2> QED
    BY <2>1, <2>2, PowerStays DEF envVars, mainVars
<1>4. ASSUME NEW g \in Node, WorkerStep(g)
      PROVE  PowerInv'
  <2>1. pc'[Main] = pc[Main]
    BY <1>1, <1>4, Threads
       DEF WorkerStep, Check, PollAll, Sample, Table, Loads, Update, Goto, Step
  <2>2. UNCHANGED <<driver, mainVars>>
    BY <1>4 DEF WorkerStep, Check, PollAll, Sample, Table, Loads, Update, Goto, dataVars, envVars
  <2> QED
    BY <2>1, <2>2, PowerStays DEF mainVars
<1>5. ASSUME NEW t \in Thread, Acquire(t)
      PROVE  PowerInv'
  <2>1. /\ pc[t] \in DOMAIN Wanted /\ pc' = [pc EXCEPT ![t] = Entered[pc[t]]]
        /\ UNCHANGED <<envVars, mainVars>>
    BY <1>5 DEF Acquire, dataVars
  <2>2. CASE t # Main
    BY <1>1, <2>1, <2>2, PowerStays DEF envVars, mainVars
  <2>3. CASE t = Main
    <3>1. \/ pc[Main] = "lock_get" /\ pc'[Main] = "get"
          \/ pc[Main] = "lock_collect" /\ pc'[Main] = "collect"
          \/ pc[Main] = "lock_publish" /\ pc'[Main] = "publish"
          \/ pc'[Main] \notin Polling
      BY <1>1, <2>1, <2>3 DEF Wanted, Entered, Polling
    <3> QED
      BY <3>1, <2>1, NotPolling DEF PowerInv, FromAPU, GPUs, Polling, envVars, mainVars
  <2> QED
    BY <2>2, <2>3
<1>6. CASE Interrupt \/ \E g \in Node : Change(g)
  BY <1>6, PowerStays DEF Interrupt, Change, mainVars
<1>7. CASE UNCHANGED vars
  BY <1>7, PowerStays DEF vars
<1> QED
  BY <1>2, <1>3, <1>4, <1>5, <1>6, <1>7 DEF Next, Running, Stopped

(* The power that poll_metrics() publishes as the CPU's is the CPU's own,  *)
(* or that of an APU as published last, or lies past metrics::gpus, and    *)
(* that only with every slot in use: for any number of nodes and slots.    *)
THEOREM MergedPowerIsRecent == Spec => []PowerIsRecent
<1>1. PowerInv /\ DataInv => PowerIsRecent
  <2> SUFFICES ASSUME PowerInv, DataInv, pc[Main] \in {"lock_publish", "publish"},
                      m.cpu.power # OwnPower
               PROVE  \/ m.cpu.power[1] = Slots + 1 /\ GPUs = Slots
                      \/ m.cpu.power[1] \in 2 .. GPUs
                         /\ driver[available_gpus[m.cpu.power[1]]] = "apu"
                         /\ m.cpu.power[2] = current_metrics.gpu.of[m.cpu.power[1]]
    BY DEF PowerIsRecent
  <2>1. GPUs \in Nat /\ Slots \in Nat
    BY SlotsAssumption DEF DataInv, LockInv, ControlOK, GPUs
  <2> QED
    BY <2>1 DEF PowerInv, FromAPU, Polling
<1>2. Spec => []PowerInv
  BY InitPower, NextPower, SpecData, PTL DEF Spec
<1> QED
  BY <1>1, <1>2, SpecData, PTL

=============================================================================
