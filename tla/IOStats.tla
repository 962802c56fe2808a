------------------------------- MODULE IOStats --------------------------------
(***************************************************************************)
(* The I/O rates of one client process.  IOStats keeps a stream of         *)
(* /proc/<pid>/io and the totals it read last; every poll_metrics() reads  *)
(* the totals again and publishes the difference as a rate.  All of it     *)
(* runs in the main thread, while the process does I/O, exits, and its pid *)
(* goes to another.  A rate is modelled as the bytes of its interval.      *)
(***************************************************************************)
EXTENDS Naturals

CONSTANTS
  NoEntry,    \* the pid has no entry in IOStats::pids
  MaxInc,     \* bound: processes that get the pid
  MaxBytes,   \* bound: bytes a process reads, and writes
  Modulus     \* 2^64: the totals are uint64_t

Way == {"read", "write"}

ASSUME BoundAssumption == MaxInc \in Nat /\ MaxBytes \in Nat
ASSUME ModulusAssumption == Modulus \in Nat /\ Modulus > MaxBytes
ASSUME NoEntryAssumption ==
  NoEntry \notin [stream : Nat, previous : [Way -> Nat], rate : [Way -> Nat]]

VARIABLES
  alive, inc,   \* the process with this pid, and how many there have been
  denied,       \* it runs a program whose totals may not be read
  total,        \* bytes it has read and written
  tracked,      \* the pid is in current_metrics
  entry,        \* pids[pid]: the stream's process (0: none), totals, rates
  pc,           \* where the main thread is
  published,    \* io_stats of the pid in current_metrics
  base,         \* history: the first totals that were read and are not both 0
  shown         \* history: sum of the rates since then

procVars == <<alive, inc, denied, total>>
history  == <<base, shown>>
ioVars == <<alive, inc, denied, total, tracked, entry, pc, published, base, shown>>

Zero == [w \in Way |-> 0]
Plus(a, b) == [w \in Way |-> a[w] + b[w]]
(* The difference of two uint64_t. *)
Minus(a, b) == [w \in Way |-> IF b[w] <= a[w] THEN a[w] - b[w] ELSE Modulus + a[w] - b[w]]

-----------------------------------------------------------------------------
(* The processes.  The kernel may hand the pid out again at once.          *)

Spawn ==
  /\ ~alive /\ inc < MaxInc
  /\ alive' = TRUE /\ inc' = inc + 1 /\ denied' = FALSE /\ total' = Zero
  /\ base' = Zero /\ shown' = Zero
  /\ UNCHANGED <<tracked, entry, pc, published>>

Transfer(w) ==
  /\ alive /\ total[w] < MaxBytes
  /\ total' = [total EXCEPT ![w] = @ + 1]
  /\ UNCHANGED <<alive, inc, denied, tracked, entry, pc, published, history>>

(* exec() of such a program: reads of the stream fail from now on. *)
Deny ==
  /\ alive /\ ~denied
  /\ denied' = TRUE
  /\ UNCHANGED <<alive, inc, total, tracked, entry, pc, published, history>>

Exit ==
  /\ alive
  /\ alive' = FALSE
  /\ UNCHANGED <<inc, denied, total, tracked, entry, pc, published, history>>

-----------------------------------------------------------------------------
(* The main thread.                                                        *)

(* _io_stats() *)
NewEntry(s) == [stream |-> s, previous |-> Zero, rate |-> Zero]

(* A request is handled: add_pid() opens the stream if it can. *)
Register ==
  /\ pc = "idle" /\ inc > 0 /\ ~tracked
  /\ tracked' = TRUE /\ published' = Zero
  /\ entry' = IF entry # NoEntry THEN entry ELSE NewEntry(IF alive THEN inc ELSE 0)
  /\ UNCHANGED <<procVars, pc, history>>

(* poll_metrics() drops a pid that is gone ... *)
Prune ==
  /\ pc = "idle"
  /\ tracked' = (tracked /\ alive)
  /\ pc' = "exists"
  /\ UNCHANGED <<procVars, entry, published, history>>

(* ... and so does poll(), which looks again. *)
PollExists ==
  /\ pc = "exists"
  /\ \/ /\ entry # NoEntry /\ alive
        /\ pc' = "read" /\ UNCHANGED entry
     \/ /\ entry = NoEntry \/ ~alive
        /\ pc' = "stats" /\ entry' = NoEntry
  /\ UNCHANGED <<procVars, tracked, published, history>>

(* What getline() finds: nothing if the stream's process has gone, if the  *)
(* read fails, or if there is no stream.                                   *)
Totals == IF alive /\ ~denied /\ entry.stream = inc THEN total ELSE Zero

Remember(delta) ==
  /\ base' = IF base = Zero THEN Totals ELSE base
  /\ shown' = IF base = Zero THEN Zero ELSE Plus(shown, delta)

\* mutant: the differences are signed
PollPidSigned ==
  /\ pc = "read"
  /\ LET rate == IF entry.previous = Zero THEN entry.rate
                 ELSE [w \in Way |-> Totals[w] - entry.previous[w]]
     IN  entry' = [entry EXCEPT !.previous = Totals, !.rate = rate] /\ UNCHANGED history
  /\ pc' = "stats"
  /\ UNCHANGED <<procVars, tracked, published>>

\* mutant: either total being 0 is taken for "no base yet"
PollPidEither ==
  /\ pc = "read"
  /\ IF \E w \in Way : entry.previous[w] = 0
     THEN /\ entry' = [entry EXCEPT !.previous = Totals]
          /\ Remember(Zero)
     ELSE LET delta == Minus(Totals, entry.previous) IN
          /\ entry' = [entry EXCEPT !.previous = Totals, !.rate = delta]
          /\ Remember(delta)
  /\ pc' = "stats"
  /\ UNCHANGED <<procVars, tracked, published>>

\* mutant: rates are left alone when nothing was transferred
PollPidOnChange ==
  /\ pc = "read"
  /\ entry' = IF entry.previous = Zero \/ Totals = entry.previous
              THEN [entry EXCEPT !.previous = Totals]
              ELSE [entry EXCEPT !.previous = Totals, !.rate = Minus(Totals, entry.previous)]
  /\ Remember(Zero)
  /\ pc' = "stats"
  /\ UNCHANGED <<procVars, tracked, published>>

(* poll_pid(): totals of 0 mean there is no base yet, and the rates are    *)
(* left alone; the differences are unsigned.                               *)
PollPid ==
  /\ pc = "read"
  /\ IF entry.previous = Zero
     THEN /\ entry' = [entry EXCEPT !.previous = Totals]
          /\ Remember(Zero)
     ELSE LET delta == Minus(Totals, entry.previous) IN
          /\ entry' = [entry EXCEPT !.previous = Totals, !.rate = delta]
          /\ Remember(delta)
  /\ pc' = "stats"
  /\ UNCHANGED <<procVars, tracked, published>>

(* get_stats() is called for each pid of the table and creates the entry,  *)
(* without a stream, if poll() has just erased it.                         *)
GetStats ==
  /\ pc = "stats"
  /\ entry' = IF tracked /\ entry = NoEntry THEN NewEntry(0) ELSE entry
  /\ published' = IF tracked THEN entry'.rate ELSE Zero
  /\ pc' = "idle"
  /\ UNCHANGED <<procVars, tracked, history>>

-----------------------------------------------------------------------------
IOInit ==
  /\ alive = FALSE /\ inc = 0 /\ denied = FALSE /\ total = Zero
  /\ tracked = FALSE /\ entry = NoEntry /\ pc = "idle" /\ published = Zero
  /\ base = Zero /\ shown = Zero

Main == Prune \/ PollExists \/ PollPid \/ GetStats

IONext == Spawn \/ Deny \/ Exit \/ (\E w \in Way : Transfer(w)) \/ Register \/ Main

(* poll_metrics() runs again and again. *)
IOSpec == IOInit /\ [][IONext]_ioVars /\ WF_ioVars(Main)

-----------------------------------------------------------------------------
(* Properties.                                                             *)

(* Every variable has its type; in particular the unsigned differences.    *)
Bytes == [Way -> 0 .. Modulus - 1]
Entry == [stream : 0 .. MaxInc, previous : Bytes, rate : Bytes]
IOTypeOK ==
  /\ alive \in BOOLEAN /\ denied \in BOOLEAN /\ tracked \in BOOLEAN
  /\ inc \in 0 .. MaxInc /\ total \in [Way -> 0 .. MaxBytes]
  /\ entry \in Entry \cup {NoEntry}
  /\ pc \in {"idle", "exists", "read", "stats"}
  /\ published \in Bytes /\ base \in Bytes /\ shown \in [Way -> Nat]

(* While the process lives and the stream is its own and can be read, the  *)
(* rates add up: what it has transferred since the base is shown once, in  *)
(* some interval, and nothing else is.                                     *)
RatesAddUp ==
  alive /\ ~denied /\ entry # NoEntry /\ entry.stream = inc =>
    /\ entry.previous = Plus(base, shown)
    /\ \A w \in Way : entry.previous[w] <= total[w]

(* A process that has stopped transferring comes to be shown rates of 0,   *)
(* unless the stream is of an earlier process with its pid or can no more  *)
(* be read: the difference that wrapped then would be shown for ever.      *)
IdleShowsZero ==
  <>[][UNCHANGED <<alive, total>>]_ioVars =>
    <>[](alive /\ ~denied /\ tracked /\ pc = "idle" /\ entry.stream \in {0, inc} => published = Zero)

=============================================================================
