------------------------ MODULE MetricsServerProofs ------------------------
(* Proofs about MetricsServer, for any number of pids and GPUs. *)
EXTENDS MetricsServer, TLAPS

Polling == {"prune", "collect", "publish"}
Adding  == {"add_io", "add_gpu", "reply"}

(* Every incarnation mentioned anywhere has existed. *)
IncsOK ==
  /\ \A p \in Pid : answered[p] \subseteq 1 .. inc[p]
  /\ \A r \in queue \cup batch : r[2] \in 1 .. inc[r[1]]
  /\ \A p \in live : inc[p] >= 1
  /\ mpc \in Adding => req \in Request /\ req[2] \in 1 .. inc[req[1]]
  /\ mpc = "reply" => cm[req[1]] # Absent

(* The copy that poll_metrics() works on keeps every served process.       *)
CopyOK ==
  /\ mpc = "collect" => todo \subseteq Keys(m) \X GPU
  /\ mpc \in Polling => \A p \in Pid :
       /\ m[p] # Absent => cm[p] # Absent
       /\ Served(p) => m[p] # Absent

(* What main has inserted into GPU::process_metrics while g's worker slept. *)
SleepOK ==
  \A g \in GPU :
    /\ wpc[g] = "asleep_polling" => mpc \in Polling
    /\ wpc[g] = "asleep_polling" /\ mpc = "collect" =>
         \A p \in Pid : m[p] # Absent => <<p, g>> \in todo \/ gpm[g][p] # Absent
    /\ wpc[g] = "asleep_polling" /\ mpc = "publish" =>
         \A p \in Pid : m[p] # Absent => gpm[g][p] # Absent
    /\ wpc[g] = "rested" /\ mpc = "add_gpu" /\ <<"gpu", g>> \notin todo =>
         gpm[g][req[1]] # Absent

(* TypeOK is inductive only with what the loop variables range over.       *)
TypeInv ==
  /\ TypeOK
  /\ mpc = "collect" => todo \subseteq Keys(m) \X GPU
  /\ mpc \in Adding => req \in Request

IInv == TypeInv /\ IncsOK /\ CopyOK /\ SleepOK /\ ServedStaysTracked /\ LostUpdateHealed
-----------------------------------------------------------------------------
(* Type correctness.                                                       *)

USE DEF Request, NoRequest, Keys, NoSample, Empty, Sleeping, Table,
        envVars, mainVars, workerVars

LEMMA TypeInit == Init => TypeInv
BY DEF Init, TypeInv, TypeOK, Adding

LEMMA TypeEnvironment == TypeInv /\ Environment => TypeInv'
<1> SUFFICES ASSUME TypeInv, Environment PROVE TypeInv'
  OBVIOUS
<1> USE DEF TypeInv, TypeOK, Adding
<1>1. CASE Tick
  BY <1>1 DEF Tick
<1>2. ASSUME NEW p \in Pid, Spawn(p) PROVE TypeInv'
  BY <1>2 DEF Spawn
<1>3. ASSUME NEW p \in Pid, Exit(p) PROVE TypeInv'
  BY <1>3 DEF Exit
<1>4. ASSUME NEW p \in Pid, Send(p) PROVE TypeInv'
  BY <1>4 DEF Send
<1>5. QED
  BY <1>1, <1>2, <1>3, <1>4 DEF Environment

LEMMA TypeMain == TypeInv /\ Main => TypeInv'
<1> SUFFICES ASSUME TypeInv, Main PROVE TypeInv'
  OBVIOUS
<1> USE DEF TypeInv, TypeOK, Adding
<1>1. CASE StartPoll
  BY <1>1 DEF StartPoll
<1>2. CASE Prune
  BY <1>2 DEF Prune
<1>3. CASE PollIO
  BY <1>3 DEF PollIO
<1>4. CASE Publish
  BY <1>4 DEF Publish
<1>5. ASSUME NEW p \in Pid, NEW g \in GPU, Collect(p, g) PROVE TypeInv'
  BY <1>5, AbsentAssumption DEF Collect
<1>6. CASE PollSockets
  BY <1>6 DEF PollSockets
<1>7. CASE AddIO
  BY <1>7, FDInfoGPUAssumption DEF AddIO, Inc
<1>8. CASE Emplace
  BY <1>8 DEF Emplace
<1>9. CASE Reply
  <2>1. req[2] \in Nat
    OBVIOUS
  <2>2. answered' \in [Pid -> SUBSET Nat]
    BY <1>9, <2>1 DEF Reply
  <2>3. QED
    BY <1>9, <2>2 DEF Reply
<1>10. CASE EndIteration
  BY <1>10 DEF EndIteration
<1>11. ASSUME NEW r \in batch, Handle(r) PROVE TypeInv'
  BY <1>11 DEF Handle
<1>12. ASSUME NEW g \in GPU, AddGPU(g) PROVE TypeInv'
  <2>1. gpm'[g] \in Table(Nat)
    BY <1>12 DEF AddGPU
  <2>2. gpm' \in [GPU -> Table(Nat)]
    BY <1>12, <2>1 DEF AddGPU
  <2>3. QED
    BY <1>12, <2>2 DEF AddGPU
<1>13. ASSUME NEW g \in GPU, AddFDInfo(g) PROVE TypeInv'
  <2>1. fd'[g] \in Table(Nat)
    BY <1>13 DEF AddFDInfo, Inc
  <2>2. fd' \in [GPU -> Table(Nat)]
    BY <1>13, <2>1 DEF AddFDInfo
  <2>3. QED
    BY <1>13, <2>2 DEF AddFDInfo
<1>14. QED
  BY <1>1, <1>2, <1>3, <1>4, <1>5, <1>6, <1>7, <1>8, <1>9, <1>10, <1>11, <1>12, <1>13
  DEF Main

LEMMA TypeWorker == ASSUME NEW g \in GPU, TypeInv, Worker(g) PROVE TypeInv'
<1> USE DEF TypeInv, TypeOK, Adding, Goto
<1>1. CASE Wake(g)
  BY <1>1 DEF Wake
<1>2. CASE CheckPids(g)
  BY <1>2 DEF CheckPids
<1>3. CASE Copy(g)
  BY <1>3 DEF Copy
<1>4. CASE Compute(g)
  BY <1>4 DEF Compute, Sample, Inc
<1>5. CASE PublishGPU(g)
  BY <1>5 DEF PublishGPU
<1>6. ASSUME NEW R \in SUBSET Pid, PollFDInfo(g, R) PROVE TypeInv'
  BY <1>6 DEF PollFDInfo
<1>7. QED
  BY <1>1, <1>2, <1>3, <1>4, <1>5, <1>6 DEF Worker

LEMMA TypeNext == TypeInv /\ [Next]_vars => TypeInv'
<1> SUFFICES ASSUME TypeInv, [Next]_vars PROVE TypeInv'
  OBVIOUS
<1>1. CASE UNCHANGED vars
  BY <1>1 DEF vars, TypeInv, TypeOK, Adding
<1>2. QED
  BY <1>1, TypeEnvironment, TypeMain, TypeWorker DEF Next

(* Every variable keeps its type. *)
THEOREM TypeCorrect == Spec => []TypeOK
<1>1. TypeInv => TypeOK
  BY DEF TypeInv
<1>2. QED
  BY <1>1, TypeInit, TypeNext, PTL DEF Spec

-----------------------------------------------------------------------------
(* Incarnations.                                                           *)

LEMMA IncsInit == Init => IncsOK
BY DEF Init, IncsOK, Adding

LEMMA IncsMain == TypeInv /\ IncsOK /\ Main => IncsOK'
<1> SUFFICES ASSUME TypeInv, IncsOK, Main PROVE IncsOK'
  OBVIOUS
<1> USE DEF TypeInv, TypeOK, IncsOK, Adding
<1>1. CASE StartPoll
  BY <1>1 DEF StartPoll
<1>2. CASE Prune
  BY <1>2 DEF Prune
<1>3. CASE PollIO
  BY <1>3 DEF PollIO
<1>4. CASE Publish
  BY <1>4 DEF Publish
<1>5. ASSUME NEW p \in Pid, NEW g \in GPU, Collect(p, g) PROVE IncsOK'
  BY <1>5 DEF Collect
<1>6. CASE PollSockets
  BY <1>6 DEF PollSockets
<1>7. CASE AddIO
  BY <1>7 DEF AddIO
<1>8. CASE Emplace
  BY <1>8, AbsentAssumption DEF Emplace
<1>9. CASE Reply
  <2>1. \A p \in Pid : answered'[p] \subseteq 1 .. inc[p]
    BY <1>9 DEF Reply
  <2>2. QED
    BY <1>9, <2>1 DEF Reply
<1>10. CASE EndIteration
  BY <1>10 DEF EndIteration
<1>11. ASSUME NEW r \in batch, Handle(r) PROVE IncsOK'
  BY <1>11 DEF Handle
<1>12. ASSUME NEW g \in GPU, AddGPU(g) PROVE IncsOK'
  BY <1>12 DEF AddGPU
<1>13. ASSUME NEW g \in GPU, AddFDInfo(g) PROVE IncsOK'
  BY <1>13 DEF AddFDInfo
<1>14. QED
  BY <1>1, <1>2, <1>3, <1>4, <1>5, <1>6, <1>7, <1>8, <1>9, <1>10, <1>11, <1>12, <1>13
  DEF Main

LEMMA IncsNext == TypeInv /\ IncsOK /\ [Next]_vars => IncsOK'
<1> SUFFICES ASSUME TypeInv, IncsOK, [Next]_vars PROVE IncsOK'
  OBVIOUS
<1> USE DEF TypeInv, TypeOK, IncsOK, Adding
<1>1. CASE Tick
  BY <1>1 DEF Tick
<1>2. ASSUME NEW p \in Pid, Spawn(p) PROVE IncsOK'
  BY <1>2 DEF Spawn
<1>3. ASSUME NEW p \in Pid, Exit(p) PROVE IncsOK'
  BY <1>3 DEF Exit
<1>4. ASSUME NEW p \in Pid, Send(p) PROVE IncsOK'
  BY <1>4 DEF Send
<1>5. ASSUME NEW g \in GPU, Worker(g) PROVE IncsOK'
  BY <1>5 DEF Worker, Wake, CheckPids, Copy, Compute, PublishGPU, PollFDInfo
<1>6. CASE UNCHANGED vars
  BY <1>6 DEF vars
<1>7. QED
  BY <1>1, <1>2, <1>3, <1>4, <1>5, <1>6, IncsMain DEF Next, Environment

-----------------------------------------------------------------------------
(* No served process is lost.                                              *)

LEMMA TrackedInit == Init => CopyOK /\ ServedStaysTracked
BY DEF Init, CopyOK, ServedStaysTracked, Served, Polling

LEMMA TrackedMain ==
  ASSUME TypeInv, IncsOK, CopyOK, ServedStaysTracked, Main
  PROVE  CopyOK' /\ ServedStaysTracked'
<1> USE DEF TypeInv, TypeOK, IncsOK, CopyOK, ServedStaysTracked, Served, Polling, Adding
<1> DEFINE Goal == CopyOK' /\ ServedStaysTracked'
<1>1. CASE StartPoll
  BY <1>1 DEF StartPoll
<1>2. CASE Prune
  BY <1>2 DEF Prune
<1>3. CASE PollIO
  BY <1>3 DEF PollIO
<1>4. CASE Publish
  BY <1>4 DEF Publish
<1>5. ASSUME NEW p \in Pid, NEW g \in GPU, Collect(p, g) PROVE Goal
  <2>1. \A q \in Pid : m'[q] # Absent <=> m[q] # Absent
    <3>1. m[p] \in [GPU -> Nat]
      BY <1>5 DEF Collect
    <3>2. gpm'[g][p] \in Nat
      BY <1>5 DEF Collect
    <3>3. m'[p] \in [GPU -> Nat]
      BY <1>5, <3>1, <3>2 DEF Collect
    <3>4. QED
      BY <1>5, <3>1, <3>3, AbsentAssumption DEF Collect
  <2>2. Keys(m') = Keys(m)
    BY <2>1
  <2>3. QED
    BY <1>5, <2>1, <2>2 DEF Collect
<1>6. CASE PollSockets
  BY <1>6 DEF PollSockets
<1>7. CASE AddIO
  BY <1>7 DEF AddIO
<1>8. CASE Emplace
  BY <1>8, AbsentAssumption DEF Emplace
<1>9. CASE Reply
  BY <1>9 DEF Reply
<1>10. CASE EndIteration
  BY <1>10 DEF EndIteration
<1>11. ASSUME NEW r \in batch, Handle(r) PROVE Goal
  BY <1>11 DEF Handle
<1>12. ASSUME NEW g \in GPU, AddGPU(g) PROVE Goal
  BY <1>12 DEF AddGPU
<1>13. ASSUME NEW g \in GPU, AddFDInfo(g) PROVE Goal
  BY <1>13 DEF AddFDInfo
<1>14. QED
  BY <1>1, <1>2, <1>3, <1>4, <1>5, <1>6, <1>7, <1>8, <1>9, <1>10, <1>11, <1>12, <1>13
  DEF Main

LEMMA TrackedNext ==
  TypeInv /\ IncsOK /\ CopyOK /\ ServedStaysTracked /\ [Next]_vars
    => CopyOK' /\ ServedStaysTracked'
<1> SUFFICES ASSUME TypeInv, IncsOK, CopyOK, ServedStaysTracked, [Next]_vars
             PROVE  CopyOK' /\ ServedStaysTracked'
  OBVIOUS
<1> DEFINE Goal == CopyOK' /\ ServedStaysTracked'
<1> USE DEF TypeInv, TypeOK, CopyOK, ServedStaysTracked, Served, Polling
<1>1. CASE Tick
  BY <1>1 DEF Tick
<1>2. ASSUME NEW p \in Pid, Spawn(p) PROVE Goal
  <2>1. \A q \in Pid : Served(q)' => Served(q)
    BY <1>2 DEF Spawn, IncsOK
  <2>2. QED
    BY <1>2, <2>1 DEF Spawn
<1>3. ASSUME NEW p \in Pid, Exit(p) PROVE Goal
  BY <1>3 DEF Exit
<1>4. ASSUME NEW p \in Pid, Send(p) PROVE Goal
  BY <1>4 DEF Send
<1>5. ASSUME NEW g \in GPU, Worker(g) PROVE Goal
  BY <1>5 DEF Worker, Wake, CheckPids, Copy, Compute, PublishGPU, PollFDInfo
<1>6. CASE UNCHANGED vars
  BY <1>6 DEF vars
<1>7. QED
  BY <1>1, <1>2, <1>3, <1>4, <1>5, <1>6, TrackedMain DEF Next, Environment

(* A process that has been answered stays in current_metrics while it      *)
(* lives, whatever the workers and the other clients do meanwhile.         *)
THEOREM ServedIsTracked == Spec => []ServedStaysTracked
<1> DEFINE I == TypeInv /\ IncsOK /\ CopyOK /\ ServedStaysTracked
<1>1. Init => I
  BY TypeInit, IncsInit, TrackedInit
<1>2. I /\ [Next]_vars => I'
  BY TypeNext, IncsNext, TrackedNext
<1>3. I => ServedStaysTracked
  OBVIOUS
<1>4. QED
  BY <1>1, <1>2, <1>3, PTL DEF Spec

-----------------------------------------------------------------------------
(* Lost updates are healed.                                                *)

LEMMA HealInit == Init => SleepOK /\ LostUpdateHealed
BY DEF Init, SleepOK, LostUpdateHealed

LEMMA HealMain ==
  ASSUME TypeInv, CopyOK, SleepOK, LostUpdateHealed, Main
  PROVE  SleepOK' /\ LostUpdateHealed'
<1> USE DEF TypeInv, TypeOK, CopyOK, SleepOK, LostUpdateHealed, Polling, Adding
<1> DEFINE Goal == SleepOK' /\ LostUpdateHealed'
<1>1. CASE StartPoll
  BY <1>1 DEF StartPoll
<1>2. CASE Prune
  BY <1>2 DEF Prune
<1>3. CASE PollIO
  BY <1>3 DEF PollIO
<1>4. CASE Publish
  BY <1>4 DEF Publish
<1>5. ASSUME NEW p \in Pid, NEW h \in GPU, Collect(p, h) PROVE Goal
  <2>1. \A q \in Pid : m'[q] # Absent => m[q] # Absent
    BY <1>5 DEF Collect
  <2>2. \A g \in GPU : \A q \in Pid :
          /\ gpm[g][q] # Absent => gpm'[g][q] # Absent
          /\ g = h /\ q = p => gpm'[g][q] # Absent
    BY <1>5, AbsentAssumption DEF Collect
  <2>3. \A g \in GPU, q \in Pid : <<q, g>> \in todo => <<q, g>> \in todo' \/ (g = h /\ q = p)
    BY <1>5 DEF Collect
  <2>4. QED
    BY <1>5, <2>1, <2>2, <2>3 DEF Collect
<1>6. CASE PollSockets
  BY <1>6 DEF PollSockets
<1>7. CASE AddIO
  BY <1>7 DEF AddIO
<1>8. CASE Emplace
  BY <1>8 DEF Emplace
<1>9. CASE Reply
  BY <1>9 DEF Reply
<1>10. CASE EndIteration
  BY <1>10 DEF EndIteration
<1>11. ASSUME NEW r \in batch, Handle(r) PROVE Goal
  BY <1>11 DEF Handle
<1>12. ASSUME NEW h \in GPU, AddGPU(h) PROVE Goal
  <2>1. \A g \in GPU : \A q \in Pid :
          /\ gpm[g][q] # Absent => gpm'[g][q] # Absent
          /\ g = h /\ q = req[1] => gpm'[g][q] # Absent
    BY <1>12, AbsentAssumption DEF AddGPU
  <2>2. \A g \in GPU : <<"gpu", g>> \notin todo' => g = h \/ <<"gpu", g>> \notin todo
    BY <1>12 DEF AddGPU
  <2>3. QED
    BY <1>12, <2>1, <2>2 DEF AddGPU
<1>13. ASSUME NEW h \in GPU, AddFDInfo(h) PROVE Goal
  BY <1>13 DEF AddFDInfo
<1>14. QED
  BY <1>1, <1>2, <1>3, <1>4, <1>5, <1>6, <1>7, <1>8, <1>9, <1>10, <1>11, <1>12, <1>13
  DEF Main

LEMMA HealWorker ==
  ASSUME TypeInv, SleepOK, LostUpdateHealed, NEW h \in GPU, Worker(h)
  PROVE  SleepOK' /\ LostUpdateHealed'
<1> USE DEF TypeInv, TypeOK, SleepOK, LostUpdateHealed, Goto
<1> DEFINE Goal == SleepOK' /\ LostUpdateHealed'
<1>1. CASE Wake(h)
  BY <1>1 DEF Wake
<1>2. CASE CheckPids(h)
  BY <1>2 DEF CheckPids
<1>3. CASE Copy(h)
  BY <1>3 DEF Copy
<1>4. CASE Compute(h)
  BY <1>4 DEF Compute
<1>5. CASE PublishGPU(h)
  BY <1>5 DEF PublishGPU
<1>6. ASSUME NEW R \in SUBSET Pid, PollFDInfo(h, R) PROVE Goal
  BY <1>6 DEF PollFDInfo
<1>7. QED
  BY <1>1, <1>2, <1>3, <1>4, <1>5, <1>6 DEF Worker

LEMMA HealNext ==
  TypeInv /\ CopyOK /\ SleepOK /\ LostUpdateHealed /\ [Next]_vars
    => SleepOK' /\ LostUpdateHealed'
<1> SUFFICES ASSUME TypeInv, CopyOK, SleepOK, LostUpdateHealed, [Next]_vars
             PROVE  SleepOK' /\ LostUpdateHealed'
  OBVIOUS
<1>1. CASE Environment
  BY <1>1 DEF Environment, Tick, Spawn, Exit, Send, SleepOK, LostUpdateHealed, Polling
<1>2. CASE UNCHANGED vars
  BY <1>2 DEF vars, SleepOK, LostUpdateHealed, Polling
<1>3. QED
  BY <1>1, <1>2, HealMain, HealWorker DEF Next

(* A pid lost from GPU::process_metrics by a worker's late write-back is   *)
(* there again when the worker starts its next cycle.                      *)
THEOREM LostUpdatesHeal == Spec => []LostUpdateHealed
<1>1. Init => IInv
  BY TypeInit, IncsInit, TrackedInit, HealInit DEF IInv
<1>2. IInv /\ [Next]_vars => IInv'
  BY TypeNext, IncsNext, TrackedNext, HealNext DEF IInv
<1>3. IInv => LostUpdateHealed
  BY DEF IInv
<1>4. QED
  BY <1>1, <1>2, <1>3, PTL DEF Spec

-----------------------------------------------------------------------------
(* The tables implement ClientRegistry.                                    *)

LEMMA RegistryInit == Init => Registry!Init
BY DEF Init, Registry!Init

LEMMA RegistryMain ==
  ASSUME TypeInv, IncsOK, CopyOK, ServedStaysTracked, Main
  PROVE  Registry!Next \/ UNCHANGED Registry!vars
<1> USE DEF TypeInv, TypeOK, Adding, Registry!vars
<1>1. CASE StartPoll
  BY <1>1 DEF StartPoll
<1>2. CASE Prune
  BY <1>2 DEF Prune
<1>3. CASE PollIO
  BY <1>3 DEF PollIO
<1>4. CASE Publish
  <2>1. PICK P \in SUBSET Pid : P = Keys(cm) \ Keys(m)
    OBVIOUS
  <2>2. Keys(cm)' = Keys(cm) \ P
    BY <1>4, <2>1 DEF Publish, CopyOK, Polling
  <2>3. \A p \in P : ~Registry!Served(p)
    BY <1>4, <2>1 DEF Publish, CopyOK, Polling, Served, Registry!Served
  <2>4. Registry!Forget(P)
    BY <1>4, <2>2, <2>3 DEF Publish, Registry!Forget
  <2>5. QED
    BY <2>4 DEF Registry!Next
<1>5. ASSUME NEW p \in Pid, NEW g \in GPU, Collect(p, g) PROVE UNCHANGED Registry!vars
  BY <1>5 DEF Collect
<1>6. CASE PollSockets
  BY <1>6 DEF PollSockets
<1>7. CASE AddIO
  BY <1>7 DEF AddIO
<1>8. CASE Emplace
  <2>1. PICK p \in Pid : p = req[1]
    BY <1>8 DEF Emplace
  <2>2. Keys(cm)' = Keys(cm) \cup {p}
    BY <1>8, <2>1, AbsentAssumption DEF Emplace
  <2>3. Registry!Register(p)
    BY <1>8, <2>2 DEF Emplace, Registry!Register
  <2>4. QED
    BY <2>3 DEF Registry!Next
<1>9. CASE Reply
  <2>1. PICK p \in Pid, i \in Nat : p = req[1] /\ i = req[2] /\ i \in 1 .. inc[p]
    BY <1>9 DEF Reply, IncsOK
  <2>2. p \in Keys(cm)
    BY <1>9, <2>1 DEF Reply, IncsOK
  <2>3. Registry!Answer(p, i)
    BY <1>9, <2>1, <2>2 DEF Reply, Registry!Answer
  <2>4. QED
    BY <2>1, <2>3 DEF Registry!Next
<1>10. CASE EndIteration
  BY <1>10 DEF EndIteration
<1>11. ASSUME NEW r \in batch, Handle(r) PROVE UNCHANGED Registry!vars
  BY <1>11 DEF Handle
<1>12. ASSUME NEW g \in GPU, AddGPU(g) PROVE UNCHANGED Registry!vars
  BY <1>12 DEF AddGPU
<1>13. ASSUME NEW g \in GPU, AddFDInfo(g) PROVE UNCHANGED Registry!vars
  BY <1>13 DEF AddFDInfo
<1>14. QED
  BY <1>1, <1>2, <1>3, <1>4, <1>5, <1>6, <1>7, <1>8, <1>9, <1>10, <1>11, <1>12, <1>13
  DEF Main

LEMMA RegistryNext ==
  TypeInv /\ IncsOK /\ CopyOK /\ ServedStaysTracked /\ [Next]_vars
    => [Registry!Next]_(Registry!vars)
<1> SUFFICES ASSUME TypeInv, IncsOK, CopyOK, ServedStaysTracked, [Next]_vars
             PROVE  Registry!Next \/ UNCHANGED Registry!vars
  OBVIOUS
<1>1. CASE Tick
  BY <1>1 DEF Tick, Registry!vars
<1>2. ASSUME NEW p \in Pid, Spawn(p) PROVE Registry!Next
  BY <1>2 DEF Spawn, Registry!Next, Registry!Spawn
<1>3. ASSUME NEW p \in Pid, Exit(p) PROVE Registry!Next
  BY <1>3 DEF Exit, Registry!Next, Registry!Exit
<1>4. ASSUME NEW p \in Pid, Send(p) PROVE UNCHANGED Registry!vars
  BY <1>4 DEF Send, Registry!vars
<1>5. ASSUME NEW g \in GPU, Worker(g) PROVE UNCHANGED Registry!vars
  BY <1>5 DEF Worker, Wake, CheckPids, Copy, Compute, PublishGPU, PollFDInfo, Registry!vars
<1>6. CASE UNCHANGED vars
  BY <1>6 DEF vars, Registry!vars
<1>7. QED
  BY <1>1, <1>2, <1>3, <1>4, <1>5, <1>6, RegistryMain DEF Next, Environment

(* The daemon's tables implement the promise of ClientRegistry: a process  *)
(* is forgotten only if it is gone or was never answered.                  *)
THEOREM ImplementsRegistry == Spec => KeepsPromise
<1> DEFINE I == TypeInv /\ IncsOK /\ CopyOK /\ ServedStaysTracked
<1>1. Init => I /\ Registry!Init
  BY TypeInit, IncsInit, TrackedInit, RegistryInit
<1>2. I /\ [Next]_vars => I' /\ [Registry!Next]_(Registry!vars)
  BY TypeNext, IncsNext, TrackedNext, RegistryNext
<1>3. QED
  BY <1>1, <1>2, PTL DEF Spec, KeepsPromise, Registry!Spec

============================================================================
