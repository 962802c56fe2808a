------------------------------- MODULE XeCycles --------------------------------
(***************************************************************************)
(* Process load on xe: each DRM client counts the cycles it was run for,   *)
(* next to the cycles of the GPU.  fds_data keeps what was read last       *)
(* through each stream, and a stream shows the client that has its         *)
(* descriptor number now; previous_cycles keeps what get_process_load()    *)
(* saw last, by client and for all pids together.  (FDInfo has the steps   *)
(* of a scan; here there are several processes, and a scan is one step.)   *)
(***************************************************************************)
EXTENDS Naturals, FiniteSets

CONSTANTS
  XeFd,       \* the client processes' descriptors: <<pid, number>>
  MaxClients, \* bound: DRM clients there ever are; ids are given out once, in order
  XeWord,     \* 2^64
  MaxCycles,  \* bound: cycles of the GPU
  MaxDoubled  \* bound: clients that are doubled (see below); nothing is said of them

ASSUME XeAssumption ==
  /\ XeFd \subseteq Nat \X Nat
  /\ MaxClients \in Nat /\ MaxCycles \in Nat /\ XeWord \in Nat /\ MaxDoubled \in Nat
ASSUME XeWordAssumption == XeWord > MaxCycles

VARIABLES
  client,           \* the client of each descriptor, 0: closed
  last_id,          \* the clients that there are or have been are 1 .. last_id
  cycles,           \* drm-cycles of each client
  total_cycles,     \* drm-total-cycles, the same for all
  fds_data,         \* of the descriptors that have a stream
  previous_cycles,
  xpc,              \* "poll": at rest before the first pid, or in poll_all()
  unpolled,         \* the pids still to be polled
  unread,           \* the streams still to be read, or to be added up
  accounted,        \* history: the cycles a client was first seen with, and all
                    \* that the loads have shown of it since
  doubled           \* history: clients that two processes have held, or that came
                    \* to the number of a stream next to another stream's

drmVars  == <<client, last_id, doubled>>
workVars == <<fds_data, previous_cycles, xpc, unpolled, unread, accounted>>
xeVars   == <<client, last_id, cycles, total_cycles, fds_data, previous_cycles, xpc,
              unpolled, unread, accounted, doubled>>

XeClient == 1 .. MaxClients
XePid    == {f[1] : f \in XeFd}
FdsOf(p) == {f \in XeFd : f[1] = p}

-----------------------------------------------------------------------------
(* The processes and the GPU.  What they do while loads are computed can   *)
(* only be seen by the next poll, and is not told apart from doing it      *)
(* afterwards.                                                             *)

Open(f) ==
  /\ xpc = "poll" /\ client[f] = 0 /\ last_id < MaxClients
  /\ last_id' = last_id + 1
  /\ client' = [client EXCEPT ![f] = last_id']
  /\ UNCHANGED <<cycles, total_cycles, doubled, workVars>>

(* The stream of f shows the client c, or still has its contents. *)
Knows(f, c) == client[f] = c \/ (f \in DOMAIN fds_data /\ fds_data[f].id = c)

(* dup(), or a descriptor passed to another process *)
Duplicate(f, g) ==
  /\ xpc = "poll" /\ client[f] # 0 /\ client[g] = 0
  /\ client' = [client EXCEPT ![g] = client[f]]
  /\ doubled' = IF \/ f[1] # g[1]
                   \/ g \in DOMAIN fds_data
                      /\ \E h \in DOMAIN fds_data \ {g} : Knows(h, client[f])
                THEN doubled \cup {client[f]} ELSE doubled
  /\ Cardinality(doubled') <= MaxDoubled
  /\ UNCHANGED <<last_id, cycles, total_cycles, workVars>>

CloseFile(f) ==
  /\ xpc = "poll" /\ client[f] # 0
  /\ client' = [client EXCEPT ![f] = 0]
  /\ UNCHANGED <<last_id, cycles, total_cycles, doubled, workVars>>

(* A cycle of the GPU, for one of the clients or, c being 0, for none. *)
Cycle(c) ==
  /\ xpc = "poll" /\ total_cycles < MaxCycles
  /\ c = 0 \/ \E f \in XeFd : client[f] = c
  /\ total_cycles' = total_cycles + 1
  /\ cycles' = [d \in XeClient |-> IF d = c THEN cycles[d] + 1 ELSE cycles[d]]
  /\ UNCHANGED <<drmVars, workVars>>

-----------------------------------------------------------------------------
(* The worker of the GPU: fdinfo.poll_all().                               *)

Unread == [id |-> 0, read |-> <<0, 0>>]

\* mutant: a stream for each descriptor, whether or not another shows its client
ScanAll(p) ==
  LET found == {f \in FdsOf(p) : client[f] # 0}
  IN  [f \in (DOMAIN fds_data \ FdsOf(p)) \cup found |->
         IF f \in found THEN Unread ELSE fds_data[f]]

(* init(): the first descriptor of each client gets a stream. *)
Scan(p) ==
  LET found == {f \in FdsOf(p) :
                  /\ client[f] # 0
                  /\ \A g \in FdsOf(p) : client[g] = client[f] => f[2] <= g[2]}
  IN  [f \in (DOMAIN fds_data \ FdsOf(p)) \cup found |->
         IF f \in found THEN Unread ELSE fds_data[f]]

(* FDInfoBase::poll() of the next process, after ten seconds with init() *)
PollProcess(p) ==
  /\ xpc = "poll" /\ unread = {} /\ p \in unpolled /\ \A q \in unpolled : p <= q
  /\ unpolled' = unpolled \ {p}
  /\ fds_data' \in {fds_data, Scan(p)}
  /\ unread' = DOMAIN fds_data' \cap FdsOf(p)
  /\ UNCHANGED <<drmVars, cycles, total_cycles, previous_cycles, xpc, accounted>>

(* The pids in the order of the maps, and each one's streams as they were  *)
(* found.                                                                  *)
FirstOf(S, f) == f \in S /\ \A g \in S : f[1] < g[1] \/ (f[1] = g[1] /\ f[2] <= g[2])

(* The stream shows whatever has its number now; of a closed one, nothing  *)
(* is read and the old contents stay.                                      *)
ReadStream(f) ==
  /\ xpc = "poll" /\ FirstOf(unread, f)
  /\ fds_data' = IF client[f] = 0 THEN fds_data
                 ELSE [fds_data EXCEPT ![f] = [id |-> client[f],
                                               read |-> <<cycles[client[f]], total_cycles>>]]
  /\ unread' = unread \ {f}
  /\ UNCHANGED <<drmVars, cycles, total_cycles, previous_cycles, xpc, unpolled, accounted>>

(* get_process_load() of each process goes through its streams. *)
StartLoads ==
  /\ xpc = "poll" /\ unpolled = {} /\ unread = {}
  /\ xpc' = IF DOMAIN fds_data = {} THEN "poll" ELSE "loads"
  /\ unread' = DOMAIN fds_data /\ unpolled' = XePid
  /\ UNCHANGED <<drmVars, cycles, total_cycles, fds_data, previous_cycles, accounted>>

-----------------------------------------------------------------------------
(* The loop of get_process_load().                                         *)

(* The difference of two uint64_t. *)
Less(a, b) == IF b <= a THEN a - b ELSE XeWord + a - b

(* What the stream f adds to the load: nothing if its client is seen for   *)
(* the first time or either counter stands still.                          *)
Delta(f) ==
  LET c == fds_data[f].id
      d == <<Less(fds_data[f].read[1], previous_cycles[c][1]),
             Less(fds_data[f].read[2], previous_cycles[c][2])>>
  IN  IF c \notin DOMAIN previous_cycles THEN <<0, 0>>
      ELSE IF d[1] = 0 \/ d[2] = 0 THEN <<0, 0>> ELSE d

(* History; of no interest once a client is doubled. *)
Account(f) ==
  LET c == fds_data[f].id
  IN  IF c \in doubled THEN 0
      ELSE IF c \notin DOMAIN previous_cycles THEN fds_data[f].read[1]
      ELSE accounted[c] + Delta(f)[1]

AddLoad(f) ==
  /\ xpc = "loads" /\ FirstOf(unread, f)
  /\ LET c == fds_data[f].id IN
     IF c = 0 THEN UNCHANGED <<previous_cycles, accounted>>
     ELSE /\ previous_cycles' = [d \in DOMAIN previous_cycles \cup {c} |->
               IF d = c THEN fds_data[f].read ELSE previous_cycles[d]]
          /\ accounted' = [accounted EXCEPT ![c] = Account(f)]
  /\ unread' = unread \ {f}
  /\ xpc' = IF unread' = {} THEN "poll" ELSE "loads"
  /\ UNCHANGED <<drmVars, cycles, total_cycles, fds_data, unpolled>>

-----------------------------------------------------------------------------
XeInit ==
  /\ client = [f \in XeFd |-> 0] /\ last_id = 0 /\ doubled = {}
  /\ cycles = [c \in XeClient |-> 0] /\ total_cycles = 0
  /\ fds_data = [f \in {} |-> Unread] /\ previous_cycles = [c \in {} |-> <<0, 0>>]
  /\ xpc = "poll" /\ unpolled = XePid /\ unread = {}
  /\ accounted = [c \in XeClient |-> 0]

XeNext ==
  \/ \E f \in XeFd : Open(f) \/ CloseFile(f) \/ \E g \in XeFd : Duplicate(f, g)
  \/ \E c \in 0 .. MaxClients : Cycle(c)
  \/ StartLoads \/ \E p \in XePid : PollProcess(p)
  \/ \E f \in XeFd : ReadStream(f) \/ AddLoad(f)

XeSpec == XeInit /\ [][XeNext]_xeVars

-----------------------------------------------------------------------------
(* Properties.                                                             *)

Reading  == (0 .. MaxCycles) \X (0 .. MaxCycles)
Contents == [id : 0 .. MaxClients, read : Reading]

(* Every variable has its type. *)
XeTypeOK ==
  /\ client \in [XeFd -> 0 .. last_id] /\ last_id \in 0 .. MaxClients
  /\ cycles \in [XeClient -> 0 .. MaxCycles] /\ total_cycles \in 0 .. MaxCycles
  /\ DOMAIN fds_data \subseteq XeFd /\ \A f \in DOMAIN fds_data : fds_data[f] \in Contents
  /\ DOMAIN previous_cycles \subseteq XeClient
  /\ \A c \in DOMAIN previous_cycles : previous_cycles[c] \in Reading
  /\ xpc \in {"poll", "loads"} /\ unpolled \subseteq XePid
  /\ unread \subseteq DOMAIN fds_data
  /\ accounted \in [XeClient -> Nat] /\ doubled \subseteq XeClient

(* The cycles of a client are shown once: the loads add up to what it used *)
(* since it was first seen, through whichever stream and however its       *)
(* descriptors were duplicated, closed and reused around a scan or a read, *)
(* and no load that is about to be added is above 100%, as long as one     *)
(* process holds it and no second stream comes to show it.  (Of such a     *)
(* one, the contents of a closed descriptor's stream are older than the    *)
(* other's: both differences wrap.)                                        *)
CyclesAddUp ==
  \A c \in XeClient \ doubled :
    /\ c \in DOMAIN previous_cycles =>
         previous_cycles[c][1] = accounted[c] /\ accounted[c] <= cycles[c]
    /\ \A f \in unread : xpc = "loads" /\ FirstOf(unread, f) /\ fds_data[f].id = c =>
         Delta(f)[1] <= Delta(f)[2]

=============================================================================
