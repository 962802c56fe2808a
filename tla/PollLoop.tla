------------------------------ MODULE PollLoop ------------------------------
(***************************************************************************)
(* The poll() loop of a server thread: the main thread's over its unix     *)
(* socket, and the api thread's over its TCP socket, which answers each    *)
(* connection once and closes it.  Both walk a vector of pollfd, remember  *)
(* iterators to erase and descriptors to append, and change the vector     *)
(* only when the walk is over.  They share nothing but should_exit: a      *)
(* behaviour is of one of them.                                            *)
(***************************************************************************)
EXTENDS Naturals, Sequences, SequencesExt, FiniteSetsExt

CONSTANTS
  Fd,           \* descriptors accept() can return: the process's limit
  Listen,       \* the listening socket's descriptor
  Threads,      \* whose loop is looked at: "main", "api", or either
  SndBuf,       \* replies a client's socket holds before send blocks
  MaxRequests,  \* bound: requests a client has waiting
  MaxBacklog,   \* bound: connections waiting for accept()
  Halves        \* bound: descriptors whose clients may stop to send, but not to read

ASSUME FdAssumption == Fd \subseteq Nat /\ Listen \in Nat \ Fd
ASSUME BoundAssumption ==
  /\ SndBuf \in Nat \ {0} /\ MaxRequests \in Nat /\ MaxBacklog \in Nat /\ Halves \subseteq Fd
ASSUME ThreadsAssumption == Threads \subseteq {"main", "api"}

VARIABLES
  thread,       \* the thread of this behaviour
  conn,         \* conn[f]: "none", "open", "fin" once the client sends no more,
                \* "hup" once it is gone, "pipe" if a TCP client reset after "fin"
  inbox,        \* inbox[f]: requests of f not received yet
  outbox,       \* outbox[f]: replies the client has not read yet
  backlog,      \* connections waiting for accept()
  poll_fds,     \* the vector, by descriptor
  revents,      \* what poll() said of each entry
  i,            \* the entry the walk is at
  fds_to_close, \* entries (iterators) to erase
  fds_to_add,   \* accepted descriptors
  answered,     \* history: connections sent a response since accept()
  pc,
  should_exit

clientVars == <<conn, inbox, outbox, backlog>>
walkVars   == <<poll_fds, revents, i, fds_to_close, fds_to_add, answered>>
vars == <<thread, conn, inbox, outbox, backlog, poll_fds, revents, i,
          fds_to_close, fds_to_add, answered, pc, should_exit>>

OneShot == thread = "api"

-----------------------------------------------------------------------------
(* Clients, and the SIGINT handler.                                        *)

Connect ==
  /\ backlog < MaxBacklog
  /\ backlog' = backlog + 1
  /\ UNCHANGED <<conn, inbox, outbox, walkVars, pc, should_exit, thread>>

Ask(f) ==
  /\ conn[f] = "open" /\ inbox[f] < MaxRequests
  /\ inbox' = [inbox EXCEPT ![f] = @ + 1]
  /\ UNCHANGED <<conn, outbox, backlog, walkVars, pc, should_exit, thread>>

ReadReply(f) ==
  /\ conn[f] \in {"open", "fin"} /\ outbox[f] > 0
  /\ outbox' = [outbox EXCEPT ![f] = @ - 1]
  /\ UNCHANGED <<conn, inbox, backlog, walkVars, pc, should_exit, thread>>

(* A unix client closes, or a TCP client resets the connection. *)
HangUp(f) ==
  /\ conn[f] = "open" \/ conn[f] = "fin"
  /\ conn' = [conn EXCEPT ![f] = IF OneShot /\ @ = "fin" THEN "pipe" ELSE "hup"]
  /\ outbox' = [outbox EXCEPT ![f] = 0]
  /\ UNCHANGED <<inbox, backlog, walkVars, pc, should_exit, thread>>

(* A TCP client closes its end, or a unix client shuts its end down for    *)
(* sending: poll() does not call that a hang-up.                           *)
ShutDown(f) ==
  /\ f \in Halves /\ conn[f] = "open"
  /\ conn' = [conn EXCEPT ![f] = "fin"]
  /\ UNCHANGED <<inbox, outbox, backlog, walkVars, pc, should_exit, thread>>

sigint_handler ==
  /\ ~should_exit
  /\ should_exit' = TRUE
  /\ UNCHANGED <<clientVars, walkVars, pc, thread>>

-----------------------------------------------------------------------------
(* The loop.                                                               *)

Events(f) ==
  CASE f = Listen -> IF backlog > 0 THEN {"IN"} ELSE {}
    [] f # Listen /\ conn[f] = "none" -> {"NVAL"}
    [] OTHER -> (IF conn[f] \in {"hup", "pipe"} THEN {"HUP"} ELSE {})
                  \cup (IF OneShot THEN {"OUT"}
                        ELSE IF inbox[f] > 0 \/ conn[f] = "fin" THEN {"IN"} ELSE {})

(* poll() returns when some descriptor has an event; a timeout only goes   *)
(* round the loop.                                                         *)
Poll ==
  /\ pc = "poll" /\ ~should_exit
  /\ revents' = [k \in DOMAIN poll_fds |-> Events(poll_fds[k])]
  /\ \E k \in DOMAIN poll_fds : revents'[k] # {}
  /\ i' = 1 /\ fds_to_close' = {} /\ fds_to_add' = <<>>
  /\ pc' = "walk"
  /\ UNCHANGED <<clientVars, poll_fds, answered, should_exit, thread>>

\* mutant: the loop is left only once every client has gone
ExitWhenIdle ==
  /\ pc = "poll" /\ should_exit /\ Len(poll_fds) = 1
  /\ pc' = "exit"
  /\ UNCHANGED <<clientVars, walkVars, should_exit, thread>>

(* while (!should_exit) is false. *)
Exit ==
  /\ pc = "poll" /\ should_exit
  /\ pc' = "exit"
  /\ UNCHANGED <<clientVars, walkVars, should_exit, thread>>

Walking == pc = "walk" /\ i <= Len(poll_fds)
Event   == Walking /\ revents[i] # {}
Broken  == revents[i] \cap {"HUP", "NVAL"} # {}

NoEvent ==
  /\ Walking /\ revents[i] = {}
  /\ i' = i + 1
  /\ UNCHANGED <<clientVars, poll_fds, revents, fds_to_close, fds_to_add, answered,
                 pc, should_exit, thread>>

Free == {f \in Fd : conn[f] = "none"}

\* mutant: the new descriptor is appended to the vector at once, and again later
AcceptTwice ==
  /\ Event /\ poll_fds[i] = Listen
  /\ Free # {}
  /\ conn' = [conn EXCEPT ![Min(Free)] = "open"]
  /\ backlog' = backlog - 1
  /\ poll_fds' = Append(poll_fds, Min(Free))
  /\ revents' = Append(revents, {})
  /\ fds_to_add' = Append(fds_to_add, Min(Free))
  /\ i' = i + 1
  /\ UNCHANGED <<inbox, outbox, fds_to_close, answered, pc, should_exit, thread>>

Accept ==
  /\ Event /\ poll_fds[i] = Listen
  /\ Free # {}
  /\ conn' = [conn EXCEPT ![Min(Free)] = "open"]
  /\ backlog' = backlog - 1
  /\ fds_to_add' = Append(fds_to_add, Min(Free))
  /\ i' = i + 1
  /\ UNCHANGED <<inbox, outbox, poll_fds, revents, fds_to_close, answered,
                 pc, should_exit, thread>>

(* Out of descriptors: the connection stays in the backlog. *)
AcceptFails ==
  /\ Event /\ poll_fds[i] = Listen
  /\ Free = {}
  /\ i' = i + 1
  /\ UNCHANGED <<clientVars, poll_fds, revents, fds_to_close, fds_to_add, answered,
                 pc, should_exit, thread>>

\* mutant: a hung-up connection that is still readable is served first
MarkBrokenUnread ==
  /\ Event /\ poll_fds[i] # Listen /\ Broken
  /\ fds_to_close' = IF inbox[poll_fds[i]] > 0 THEN fds_to_close ELSE fds_to_close \cup {i}
  /\ i' = i + 1
  /\ UNCHANGED <<clientVars, poll_fds, revents, fds_to_add, answered, pc,
                 should_exit, thread>>

\* mutant: the iterator is stored after it has been advanced
MarkNext ==
  /\ Event /\ poll_fds[i] # Listen /\ Broken
  /\ fds_to_close' = fds_to_close \cup {i + 1}
  /\ i' = i + 1
  /\ UNCHANGED <<clientVars, poll_fds, revents, fds_to_add, answered, pc,
                 should_exit, thread>>

MarkBroken ==
  /\ Event /\ poll_fds[i] # Listen /\ Broken
  /\ fds_to_close' = fds_to_close \cup {i}
  /\ i' = i + 1
  /\ UNCHANGED <<clientVars, poll_fds, revents, fds_to_add, answered, pc,
                 should_exit, thread>>

(* The main thread receives one request ... *)
Receive ==
  /\ Event /\ poll_fds[i] # Listen /\ ~Broken /\ ~OneShot
  /\ inbox[poll_fds[i]] > 0
  /\ inbox' = [inbox EXCEPT ![poll_fds[i]] = @ - 1]
  /\ pc' = "send"
  /\ UNCHANGED <<conn, outbox, backlog, walkVars, should_exit, thread>>

(* ... or recvmsg() fails, the client being gone since poll(), or returns  *)
(* the end of what it sends, without credentials.                          *)
ReceiveFails ==
  /\ Event /\ poll_fds[i] # Listen /\ ~Broken /\ ~OneShot
  /\ \/ conn[poll_fds[i]] = "hup"
     \/ conn[poll_fds[i]] = "fin" /\ inbox[poll_fds[i]] = 0
  /\ i' = i + 1
  /\ UNCHANGED <<clientVars, poll_fds, revents, fds_to_close, fds_to_add, answered,
                 pc, should_exit, thread>>

\* mutant: the walk ends with the first request that is served
SendAndStop ==
  /\ pc = "send"
  /\ \/ /\ conn[poll_fds[i]] \in {"open", "fin"} /\ outbox[poll_fds[i]] < SndBuf
        /\ outbox' = [outbox EXCEPT ![poll_fds[i]] = @ + 1]
        /\ answered' = answered \cup {poll_fds[i]}
     \/ /\ conn[poll_fds[i]] = "hup"
        /\ UNCHANGED <<outbox, answered>>
  /\ i' = Len(poll_fds) + 1
  /\ pc' = "walk"
  /\ UNCHANGED <<conn, inbox, backlog, poll_fds, revents, fds_to_close, fds_to_add,
                 should_exit, thread>>

(* sendmsg() on a blocking socket waits for room; it fails with EPIPE,     *)
(* which a SOCK_SEQPACKET unix socket reports without a signal, once the   *)
(* client is gone.                                                         *)
Send ==
  /\ pc = "send"
  /\ \/ /\ conn[poll_fds[i]] \in {"open", "fin"} /\ outbox[poll_fds[i]] < SndBuf
        /\ outbox' = [outbox EXCEPT ![poll_fds[i]] = @ + 1]
        /\ answered' = answered \cup {poll_fds[i]}
     \/ /\ conn[poll_fds[i]] = "hup"
        /\ UNCHANGED <<outbox, answered>>
  /\ i' = i + 1
  /\ pc' = "walk"
  /\ UNCHANGED <<conn, inbox, backlog, poll_fds, revents, fds_to_close, fds_to_add,
                 should_exit, thread>>

Responding == Event /\ poll_fds[i] # Listen /\ ~Broken /\ OneShot

(* The api thread sends one response and marks the connection for closing; *)
(* send() fails, without consequence, if the client has reset it meanwhile.*)
Respond ==
  /\ Responding /\ conn[poll_fds[i]] # "pipe"
  /\ fds_to_close' = fds_to_close \cup {i}
  /\ answered' = answered \cup {poll_fds[i]}
  /\ outbox' = [outbox EXCEPT ![poll_fds[i]] = IF conn[poll_fds[i]] # "hup" THEN 1 ELSE 0]
  /\ i' = i + 1
  /\ UNCHANGED <<conn, inbox, backlog, poll_fds, revents, fds_to_add, pc,
                 should_exit, thread>>

(* send() when the client has closed its end and then reset the connection,*)
(* after poll() returned: the error is EPIPE, and with flags 0 and no      *)
(* handler SIGPIPE ends the process.                                       *)
Killed ==
  /\ Responding /\ conn[poll_fds[i]] = "pipe"
  /\ pc' = "killed"
  /\ UNCHANGED <<clientVars, walkVars, should_exit, thread>>

EndWalk ==
  /\ pc = "walk" /\ i > Len(poll_fds)
  /\ pc' = "close"
  /\ UNCHANGED <<clientVars, walkVars, should_exit, thread>>

(* close() fails of a descriptor that is not open; then the entry stays. *)
CloseEntry(k) ==
  LET f == poll_fds[k] IN
  /\ fds_to_close' = fds_to_close \ {k}
  /\ conn' = [conn EXCEPT ![f] = "none"]
  /\ inbox' = [inbox EXCEPT ![f] = 0]
  /\ outbox' = [outbox EXCEPT ![f] = 0]
  /\ answered' = answered \ {f}
  /\ poll_fds' = IF conn[f] = "none" THEN poll_fds ELSE RemoveAt(poll_fds, k)
  /\ UNCHANGED <<backlog, revents, i, fds_to_add, pc, should_exit, thread>>

\* mutant: the entries are erased first to last
CloseForward ==
  /\ pc = "close" /\ fds_to_close # {}
  /\ Min(fds_to_close) <= Len(poll_fds)
  /\ CloseEntry(Min(fds_to_close))

(* Entries are closed and erased last to first: erase() invalidates only   *)
(* the iterators at and after the erased one.                              *)
Close ==
  /\ pc = "close" /\ fds_to_close # {}
  /\ CloseEntry(Max(fds_to_close))

AddNew ==
  /\ pc = "close" /\ fds_to_close = {}
  /\ poll_fds' = poll_fds \o fds_to_add
  /\ fds_to_add' = <<>>
  /\ pc' = "poll"
  /\ UNCHANGED <<clientVars, revents, i, fds_to_close, answered, should_exit, thread>>

-----------------------------------------------------------------------------
Init ==
  /\ thread \in Threads
  /\ conn = [f \in Fd |-> "none"]
  /\ inbox = [f \in Fd |-> 0] /\ outbox = [f \in Fd |-> 0]
  /\ backlog = 0
  /\ poll_fds = <<Listen>> /\ revents = <<{}>> /\ i = 1
  /\ fds_to_close = {} /\ fds_to_add = <<>> /\ answered = {}
  /\ pc = "poll" /\ should_exit = FALSE

Clients == Connect \/ \E f \in Fd : Ask(f) \/ ReadReply(f) \/ HangUp(f) \/ ShutDown(f)

Loop ==
  \/ Poll \/ Exit \/ NoEvent \/ Accept \/ AcceptFails \/ MarkBroken
  \/ Receive \/ ReceiveFails \/ Send \/ Respond \/ Killed
  \/ EndWalk \/ Close \/ AddNew

Down == pc \in {"exit", "killed"}

Next == (~Down /\ (Clients \/ sigint_handler)) \/ Loop

(* The thread runs; clients that were sent a reply come to read it.        *)
Fairness == WF_vars(Loop) /\ \A f \in Fd : WF_vars(~Down /\ ReadReply(f))

Spec == Init /\ [][Next]_vars /\ Fairness

-----------------------------------------------------------------------------
(* Properties.                                                             *)

(* Every variable has its type. *)
TypeOK ==
  /\ thread \in {"main", "api"}
  /\ conn \in [Fd -> {"none", "open", "fin", "hup", "pipe"}]
  /\ inbox \in [Fd -> 0 .. MaxRequests] /\ outbox \in [Fd -> 0 .. SndBuf]
  /\ backlog \in 0 .. MaxBacklog
  /\ poll_fds \in Seq(Fd \cup {Listen}) /\ fds_to_add \in Seq(Fd)
  /\ revents \in Seq(SUBSET {"IN", "OUT", "HUP", "NVAL"})
  /\ i \in 1 .. Len(poll_fds) + Len(revents) + 1
  /\ fds_to_close \subseteq DOMAIN poll_fds
  /\ answered \subseteq Fd
  /\ pc \in {"poll", "walk", "send", "close", "exit", "killed"}
  /\ should_exit \in BOOLEAN

(* The vector and the descriptors about to join it name every open         *)
(* connection once and nothing else: none leaks, none is polled twice, and *)
(* no closed (and perhaps reused) descriptor lingers.                      *)
PollsOpenConnections ==
  LET all == poll_fds \o fds_to_add IN
  /\ ToSet(all) = {Listen} \cup {f \in Fd : conn[f] # "none"}
  /\ IsInjective(all)

(* The connection that is closed is one that hung up or, in the api        *)
(* thread, one that has had its response: never a neighbour in the vector. *)
ClosedForCause ==
  [][\A f \in Fd : conn[f] # "none" /\ conn'[f] = "none" =>
       conn[f] \in {"hup", "pipe"} \/ (OneShot /\ f \in answered)]_vars

(* A connection whose client is gone is eventually closed. *)
BrokenClosed == \A f \in Fd : conn[f] \in {"hup", "pipe"} ~> conn[f] = "none" \/ pc = "exit"

(* A connection that is done with is closed: in the main thread, which     *)
(* SIGPIPE does not reach, when its client is gone; in the api thread any  *)
(* that it accepts.                                                        *)
ConnectionEnds ==
  /\ thread = "main" => BrokenClosed
  /\ OneShot => \A f \in Fd : conn[f] = "open" ~> conn[f] = "none" \/ Down

(* No client with a waiting request is starved by the others. *)
TurnComes ==
  \A f \in Fd : inbox[f] > 0 ~>
    conn[f] # "open" \/ Down \/ (pc = "send" /\ poll_fds[i] = f)

(* After SIGINT the thread leaves its loop. *)
Stops == should_exit ~> Down

=============================================================================
