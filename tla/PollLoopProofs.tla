--------------------------- MODULE PollLoopProofs ---------------------------
(***************************************************************************)
(* Theorems about PollLoop: the types, that the vector names the open      *)
(* connections, and that a connection is closed for a cause of its own.    *)
(***************************************************************************)
EXTENDS PollLoop, SequenceTheorems, WellFoundedInduction, TLAPS

-----------------------------------------------------------------------------
(* Least and greatest elements, and erasing an entry of a sequence.        *)

(* A nonempty set of naturals has a least element, which is Min. *)
LEMMA MinInSet ==
  ASSUME NEW S \in SUBSET Nat, S # {}
  PROVE  Min(S) \in S /\ \A y \in S : Min(S) <= y
<1>1. PICK x \in S : \A y \in S : ~ (<<y, x>> \in OpToRel(<, Nat))
  BY NatLessThanWellFounded, WFMin, Zenon
<1>2. \A y \in S : x <= y
  <2> TAKE y \in S
  <2>1. ~ (y < x)
    BY <1>1 DEF OpToRel
  <2> QED
    BY <2>1
<1> QED
  BY <1>2 DEF Min

(* A nonempty set of naturals with an upper bound has a greatest element,  *)
(* which is Max: what is left to erase is found even though Max is a       *)
(* choice.                                                                 *)
LEMMA MaxInSet ==
  ASSUME NEW n \in Nat, NEW S \in SUBSET (1 .. n), S # {}
  PROVE  Max(S) \in S /\ \A y \in S : Max(S) >= y
<1> DEFINE T == {n - x : x \in S}
<1>0. \A x \in S : x \in Nat /\ x <= n /\ n - x \in Nat
  OBVIOUS
<1>1. T \in SUBSET Nat /\ T # {}
  BY <1>0
<1>2. Min(T) \in T /\ \A y \in T : Min(T) <= y
  BY <1>1, MinInSet
<1>3. PICK x \in S : Min(T) = n - x
  BY <1>2
<1>4. ASSUME NEW y \in S
      PROVE  x >= y
  <2>1. n - x <= n - y
    BY <1>2, <1>3
  <2> QED
    BY <2>1, <1>0
<1> QED
  BY <1>4 DEF Max

(* Erasing entry k keeps the entries before it and moves the others down.  *)
LEMMA RemoveAtEntries ==
  ASSUME NEW S, NEW s \in Seq(S), NEW k \in 1 .. Len(s)
  PROVE  /\ RemoveAt(s, k) \in Seq(S)
         /\ Len(RemoveAt(s, k)) = Len(s) - 1
         /\ \A j \in 1 .. Len(s) - 1 :
              RemoveAt(s, k)[j] = IF j < k THEN s[j] ELSE s[j + 1]
<1> DEFINE a == SubSeq(s, 1, k - 1)
           b == SubSeq(s, k + 1, Len(s))
<1>1. Len(s) \in Nat /\ \A j \in 1 .. Len(s) : s[j] \in S
  BY LenProperties, ElementOfSeq
<1>2. a \in Seq(S) /\ Len(a) = k - 1 /\ \A j \in 1 .. k - 1 : a[j] = s[j]
  BY <1>1, SubSeqProperties
<1>3. /\ b \in Seq(S) /\ Len(b) = Len(s) - k
      /\ \A j \in 1 .. Len(s) - k : b[j] = s[k + j]
  BY <1>1, SubSeqProperties
<1>4. /\ a \o b \in Seq(S) /\ Len(a \o b) = Len(a) + Len(b)
      /\ \A j \in 1 .. Len(a) + Len(b) :
           (a \o b)[j] = IF j <= Len(a) THEN a[j] ELSE b[j - Len(a)]
  BY <1>2, <1>3, ConcatProperties
<1>5. RemoveAt(s, k) = a \o b
  BY DEF RemoveAt
<1> HIDE DEF a, b
<1>6. Len(a \o b) = Len(s) - 1
  BY <1>1, <1>2, <1>3, <1>4
<1>7. ASSUME NEW j \in 1 .. Len(s) - 1
      PROVE  (a \o b)[j] = IF j < k THEN s[j] ELSE s[j + 1]
  <2>1. CASE j < k
    BY <2>1, <1>1, <1>2, <1>3, <1>4
  <2>2. CASE j >= k
    <3>1. j - (k - 1) \in 1 .. Len(s) - k
      BY <2>2, <1>1
    <3>2. (a \o b)[j] = b[j - (k - 1)]
      BY <2>2, <1>1, <1>2, <1>3, <1>4
    <3>3. b[j - (k - 1)] = s[k + (j - (k - 1))]
      BY <3>1, <1>3
    <3> QED
      BY <3>2, <3>3, <2>2, <1>1
  <2>3. j < k \/ j >= k
    BY <1>1
  <2> QED
    BY <2>1, <2>2, <2>3
<1> QED
  BY <1>4, <1>5, <1>6, <1>7

-----------------------------------------------------------------------------
(* The inductive invariant.                                                *)

(* The vector and the new descriptors name the open connections, by entry. *)
Named ==
  /\ \E k \in DOMAIN poll_fds : poll_fds[k] = Listen
  /\ \A k \in DOMAIN poll_fds : poll_fds[k] # Listen => conn[poll_fds[k]] # "none"
  /\ \A k \in DOMAIN fds_to_add : conn[fds_to_add[k]] # "none"
  /\ \A f \in Fd : conn[f] # "none" =>
       \/ \E k \in DOMAIN poll_fds : poll_fds[k] = f
       \/ \E k \in DOMAIN fds_to_add : fds_to_add[k] = f

(* No descriptor is named twice. *)
Distinct ==
  /\ \A j, k \in DOMAIN poll_fds : poll_fds[j] = poll_fds[k] => j = k
  /\ \A j, k \in DOMAIN fds_to_add : fds_to_add[j] = fds_to_add[k] => j = k
  /\ \A j \in DOMAIN poll_fds, k \in DOMAIN fds_to_add : poll_fds[j] # fds_to_add[k]

(* Connection f may be closed. *)
Done(f) == conn[f] \in {"hup", "pipe"} \/ (OneShot /\ f \in answered)

(* The entries to erase are connections that may be closed. *)
Marked == \A k \in fds_to_close : poll_fds[k] # Listen /\ Done(poll_fds[k])

(* What poll() said of entry k is still so when the walk comes to it: the  *)
(* walk alone takes connections from the backlog, and no hang-up is undone.*)
Due(k) ==
  /\ poll_fds[k] = Listen /\ revents[k] # {} => backlog > 0
  /\ poll_fds[k] # Listen =>
       /\ "NVAL" \notin revents[k]
       /\ "HUP" \in revents[k] => conn[poll_fds[k]] \in {"hup", "pipe"}
       /\ "OUT" \in revents[k] => OneShot

(* Between walks nothing is left to erase or to add; during one, revents   *)
(* fits the vector and the events of the entries ahead are due.            *)
Ahead ==
  /\ pc \in {"poll", "exit"} => fds_to_close = {} /\ fds_to_add = <<>>
  /\ i <= Len(revents) + 1
  /\ pc \in {"walk", "send"} =>
       /\ Len(revents) = Len(poll_fds)
       /\ \A k \in i .. Len(poll_fds) : Due(k) \/ (pc = "send" /\ k = i)
  /\ pc = "send" => i <= Len(poll_fds) /\ poll_fds[i] # Listen /\ ~OneShot

IInv == TypeOK /\ Named /\ Distinct /\ Marked /\ Ahead

(* What the sequences' types say of their entries. *)
LEMMA Entries ==
  ASSUME TypeOK
  PROVE  /\ Len(poll_fds) \in Nat /\ DOMAIN poll_fds = 1 .. Len(poll_fds)
         /\ Len(fds_to_add) \in Nat /\ DOMAIN fds_to_add = 1 .. Len(fds_to_add)
         /\ Len(revents) \in Nat /\ DOMAIN revents = 1 .. Len(revents)
         /\ \A k \in DOMAIN poll_fds : poll_fds[k] \in Fd \/ poll_fds[k] = Listen
         /\ \A k \in DOMAIN fds_to_add : fds_to_add[k] \in Fd
         /\ \A k \in DOMAIN revents : revents[k] \subseteq {"IN", "OUT", "HUP", "NVAL"}
         /\ i \in Nat /\ i >= 1
BY LenProperties, ElementOfSeq DEF TypeOK

(* The invariant holds initially. *)
LEMMA InitIInv == Init => IInv
<1> SUFFICES ASSUME Init PROVE IInv
  OBVIOUS
<1>1. /\ poll_fds = <<Listen>> /\ revents = <<{}>> /\ fds_to_add = <<>>
      /\ fds_to_close = {} /\ i = 1 /\ pc = "poll" /\ Listen \notin Fd
      /\ \A f \in Fd : conn[f] = "none"
  BY FdAssumption DEF Init
<1>2. /\ DOMAIN poll_fds = {1} /\ poll_fds[1] = Listen /\ DOMAIN fds_to_add = {}
      /\ Len(poll_fds) = 1 /\ Len(revents) = 1
  BY <1>1
<1>3. /\ poll_fds \in Seq(Fd \cup {Listen}) /\ fds_to_add \in Seq(Fd)
      /\ revents \in Seq(SUBSET {"IN", "OUT", "HUP", "NVAL"})
  BY <1>1
<1>4. /\ thread \in {"main", "api"} /\ backlog \in 0 .. MaxBacklog
      /\ conn \in [Fd -> {"none", "open", "fin", "hup", "pipe"}]
      /\ inbox \in [Fd -> 0 .. MaxRequests] /\ outbox \in [Fd -> 0 .. SndBuf]
  BY BoundAssumption, ThreadsAssumption DEF Init
<1>5. TypeOK
  <2>1. i \in 1 .. Len(poll_fds) + Len(revents) + 1 /\ answered = {}
        /\ should_exit = FALSE
    BY <1>1, <1>2 DEF Init
  <2> QED
    BY <1>1, <1>3, <1>4, <2>1 DEF TypeOK
<1>6. Named /\ Distinct /\ Marked
  BY <1>1, <1>2 DEF Named, Distinct, Marked
<1>7. Ahead
  BY <1>1, <1>2 DEF Ahead
<1> QED
  BY <1>5, <1>6, <1>7 DEF IInv

(* What leaves the walk alone keeps the invariant, if a connection that    *)
(* may be closed stays one and the backlog does not run empty.             *)
LEMMA OutsideInv ==
  ASSUME IInv, TypeOK', UNCHANGED <<walkVars, pc, thread>>,
         \A f \in Fd : conn[f] # "none" <=> conn'[f] # "none",
         \A f \in Fd : conn[f] \in {"hup", "pipe"} => conn'[f] \in {"hup", "pipe"},
         backlog > 0 => backlog' > 0
  PROVE  IInv'
<1>1. /\ poll_fds' = poll_fds /\ revents' = revents /\ i' = i /\ answered' = answered
      /\ fds_to_close' = fds_to_close /\ fds_to_add' = fds_to_add
      /\ pc' = pc /\ thread' = thread
  BY DEF walkVars
<1>2. /\ \A k \in DOMAIN poll_fds : poll_fds[k] \in Fd \/ poll_fds[k] = Listen
      /\ \A k \in DOMAIN fds_to_add : fds_to_add[k] \in Fd
      /\ DOMAIN poll_fds = 1 .. Len(poll_fds) /\ i \in Nat /\ i >= 1
      /\ fds_to_close \subseteq DOMAIN poll_fds
  BY Entries DEF IInv, TypeOK
<1>3. Named'
  BY <1>1, <1>2 DEF IInv, Named
<1>4. Distinct'
  BY <1>1 DEF IInv, Distinct
<1>5. Marked'
  BY <1>1, <1>2 DEF IInv, Marked, Done, OneShot
<1>6. ASSUME NEW k \in DOMAIN poll_fds, Due(k)
      PROVE  Due(k)'
  BY <1>1, <1>2, <1>6 DEF Due, OneShot
<1>7. Ahead'
  BY <1>1, <1>2, <1>6 DEF IInv, Ahead, OneShot
<1> QED
  BY <1>3, <1>4, <1>5, <1>7 DEF IInv

(* The clients and the signal disturb no entry. *)
LEMMA ClientsInv ==
  ASSUME IInv, Clients \/ sigint_handler
  PROVE  IInv'
<1>1. TypeOK
  BY DEF IInv
<1>2. CASE Connect
  <2>1. TypeOK'
    BY <1>1, <1>2, BoundAssumption DEF TypeOK, Connect, walkVars
  <2> QED
    BY <2>1, <1>1, <1>2, OutsideInv DEF TypeOK, Connect
<1>3. CASE sigint_handler
  <2>1. TypeOK'
    BY <1>1, <1>3 DEF TypeOK, sigint_handler, clientVars, walkVars
  <2> QED
    BY <2>1, <1>1, <1>3, OutsideInv DEF sigint_handler, clientVars
<1>4. ASSUME NEW f \in Fd, Ask(f)
      PROVE  IInv'
  <2>1. inbox[f] + 1 \in 0 .. MaxRequests
    BY <1>1, <1>4, BoundAssumption DEF TypeOK, Ask
  <2>2. TypeOK'
    BY <1>1, <1>4, <2>1 DEF TypeOK, Ask, walkVars
  <2> QED
    BY <2>2, <1>1, <1>4, OutsideInv DEF TypeOK, Ask
<1>5. ASSUME NEW f \in Fd, ReadReply(f)
      PROVE  IInv'
  <2>1. outbox[f] - 1 \in 0 .. SndBuf
    BY <1>1, <1>5, BoundAssumption DEF TypeOK, ReadReply
  <2>2. TypeOK'
    BY <1>1, <1>5, <2>1 DEF TypeOK, ReadReply, walkVars
  <2> QED
    BY <2>2, <1>1, <1>5, OutsideInv DEF TypeOK, ReadReply
<1>6. ASSUME NEW f \in Fd, HangUp(f)
      PROVE  IInv'
  <2>1. TypeOK'
    BY <1>1, <1>6, BoundAssumption DEF TypeOK, HangUp, walkVars
  <2> QED
    BY <2>1, <1>1, <1>6, OutsideInv DEF TypeOK, HangUp
<1>7. ASSUME NEW f \in Fd, ShutDown(f)
      PROVE  IInv'
  <2>1. TypeOK'
    BY <1>1, <1>7 DEF TypeOK, ShutDown, walkVars
  <2> QED
    BY <2>1, <1>1, <1>7, OutsideInv DEF TypeOK, ShutDown
<1> QED
  BY <1>2, <1>3, <1>4, <1>5, <1>6, <1>7 DEF Clients

(* A step of the walk that goes to the next entry and marks at most the    *)
(* one it leaves, which may be closed.                                     *)
LEMMA AdvanceInv ==
  ASSUME IInv, Walking, i' = i + 1, pc' = pc,
         UNCHANGED <<clientVars, poll_fds, revents, fds_to_add, answered, should_exit,
                     thread>>,
         \/ fds_to_close' = fds_to_close
         \/ fds_to_close' = fds_to_close \cup {i} /\ poll_fds[i] # Listen /\ Done(poll_fds[i])
  PROVE  IInv'
<1>1. /\ conn' = conn /\ inbox' = inbox /\ outbox' = outbox /\ backlog' = backlog
      /\ poll_fds' = poll_fds /\ revents' = revents /\ fds_to_add' = fds_to_add
      /\ answered' = answered /\ thread' = thread /\ should_exit' = should_exit
  BY DEF clientVars
<1>2. /\ pc = "walk" /\ i \in Nat /\ i >= 1 /\ i <= Len(poll_fds) /\ Len(poll_fds) \in Nat
      /\ DOMAIN poll_fds = 1 .. Len(poll_fds) /\ Len(revents) = Len(poll_fds)
  BY Entries DEF IInv, Walking, Ahead
<1>3. TypeOK'
  <2>1. fds_to_close' \subseteq DOMAIN poll_fds
    BY <1>2 DEF IInv, TypeOK
  <2>2. i' \in 1 .. Len(poll_fds) + Len(revents) + 1
    BY <1>2
  <2> QED
    BY <1>1, <2>1, <2>2 DEF IInv, TypeOK
<1>4. Named' /\ Distinct'
  BY <1>1 DEF IInv, Named, Distinct
<1>5. Marked'
  BY <1>1 DEF IInv, Marked, Done, OneShot
<1>6. \A k \in DOMAIN poll_fds : Due(k) => Due(k)'
  BY <1>1 DEF Due, OneShot
<1>7. Ahead'
  <2>1. \A k \in i + 1 .. Len(poll_fds) : Due(k)'
    BY <1>2, <1>6 DEF IInv, Ahead
  <2> QED
    BY <1>1, <1>2, <2>1 DEF Ahead
<1> QED
  BY <1>3, <1>4, <1>5, <1>7 DEF IInv

(* The events of an entry that is due. *)
LEMMA EventIsDue ==
  ASSUME IInv, Event
  PROVE  /\ pc = "walk" /\ i \in DOMAIN poll_fds /\ i \in DOMAIN revents /\ Due(i)
         /\ poll_fds[i] = Listen \/ poll_fds[i] \in Fd
         /\ poll_fds[i] # Listen /\ Broken => conn[poll_fds[i]] \in {"hup", "pipe"}
         /\ poll_fds[i] = Listen => backlog > 0
<1>1. /\ pc = "walk" /\ i \in Nat /\ i >= 1 /\ i <= Len(poll_fds) /\ Len(poll_fds) \in Nat
      /\ DOMAIN poll_fds = 1 .. Len(poll_fds) /\ Len(revents) = Len(poll_fds)
      /\ DOMAIN revents = 1 .. Len(revents)
  BY Entries DEF IInv, Event, Walking, Ahead
<1>2. i \in DOMAIN poll_fds /\ i \in DOMAIN revents
  BY <1>1
<1>3. Due(i)
  BY <1>1 DEF IInv, Ahead
<1>4. revents[i] # {} /\ revents[i] \subseteq {"IN", "OUT", "HUP", "NVAL"}
  BY <1>2, Entries DEF IInv, Event
<1>5. poll_fds[i] = Listen \/ poll_fds[i] \in Fd
  BY <1>2, Entries DEF IInv
<1> QED
  BY <1>1, <1>2, <1>3, <1>4, <1>5 DEF Due, Broken

(* The steps that pass an entry by, and those that mark it. *)
LEMMA PassInv ==
  ASSUME IInv, NoEvent \/ AcceptFails \/ ReceiveFails \/ MarkBroken
  PROVE  IInv'
<1>1. CASE NoEvent
  BY <1>1, AdvanceInv DEF NoEvent
<1>2. CASE AcceptFails
  BY <1>2, AdvanceInv DEF AcceptFails, Event, Walking
<1>3. CASE ReceiveFails
  BY <1>3, AdvanceInv DEF ReceiveFails, Event, Walking
<1>4. CASE MarkBroken
  <2>1. Done(poll_fds[i])
    BY <1>4, EventIsDue DEF MarkBroken, Done
  <2> QED
    BY <1>4, <2>1, AdvanceInv DEF MarkBroken, Event, Walking
<1> QED
  BY <1>1, <1>2, <1>3, <1>4

(* The steps that only leave the walk or the loop. *)
LEMMA LeaveInv ==
  ASSUME IInv, Exit \/ EndWalk \/ Killed
  PROVE  IInv'
<1>1. /\ UNCHANGED <<clientVars, walkVars, should_exit, thread>>
      /\ pc' \in {"exit", "close", "killed"} /\ (pc' = "exit" => pc = "poll")
  BY DEF Exit, EndWalk, Killed
<1>2. /\ conn' = conn /\ inbox' = inbox /\ outbox' = outbox /\ backlog' = backlog
      /\ poll_fds' = poll_fds /\ revents' = revents /\ fds_to_add' = fds_to_add
      /\ answered' = answered /\ thread' = thread /\ should_exit' = should_exit
      /\ i' = i /\ fds_to_close' = fds_to_close
  BY <1>1 DEF clientVars, walkVars
<1>3. TypeOK'
  BY <1>1, <1>2 DEF IInv, TypeOK
<1>4. Named' /\ Distinct' /\ Marked'
  BY <1>2 DEF IInv, Named, Distinct, Marked, Done, OneShot
<1>5. Ahead'
  BY <1>1, <1>2 DEF IInv, Ahead
<1> QED
  BY <1>3, <1>4, <1>5 DEF IInv

(* Receiving takes a request from the entry the walk is at, and from no    *)
(* entry ahead: those are of other connections.                            *)
LEMMA ReceiveInv ==
  ASSUME IInv, Receive
  PROVE  IInv'
<1> DEFINE f == poll_fds[i]
<1>1. /\ conn' = conn /\ outbox' = outbox /\ backlog' = backlog
      /\ poll_fds' = poll_fds /\ revents' = revents /\ fds_to_add' = fds_to_add
      /\ answered' = answered /\ thread' = thread /\ should_exit' = should_exit
      /\ i' = i /\ fds_to_close' = fds_to_close /\ pc' = "send"
      /\ inbox' = [inbox EXCEPT ![f] = @ - 1]
  BY DEF Receive, walkVars
<1>2. /\ pc = "walk" /\ i \in DOMAIN poll_fds /\ f \in Fd /\ f # Listen
      /\ inbox[f] > 0 /\ ~OneShot
  BY EventIsDue DEF Receive
<1>3. TypeOK'
  <2>1. inbox[f] - 1 \in 0 .. MaxRequests
    BY <1>2, BoundAssumption DEF IInv, TypeOK
  <2>2. inbox' \in [Fd -> 0 .. MaxRequests]
    BY <1>1, <1>2, <2>1 DEF IInv, TypeOK
  <2> QED
    BY <1>1, <2>2 DEF IInv, TypeOK
<1>4. Named' /\ Distinct' /\ Marked'
  BY <1>1 DEF IInv, Named, Distinct, Marked, Done, OneShot
<1>5. ASSUME NEW k \in DOMAIN poll_fds, k # i, Due(k)
      PROVE  Due(k)'
  <2>1. poll_fds[k] # f
    BY <1>2, <1>5 DEF IInv, Distinct
  <2>2. poll_fds[k] # Listen => inbox'[poll_fds[k]] = inbox[poll_fds[k]]
    BY <1>1, <2>1, Entries DEF IInv, TypeOK
  <2> QED
    BY <1>1, <1>5, <2>2 DEF Due, OneShot
<1>6. Ahead'
  BY <1>1, <1>2, <1>5, Entries DEF IInv, Ahead, OneShot
<1> QED
  BY <1>3, <1>4, <1>6 DEF IInv

(* Sending fills the connection's own buffer, or nothing. *)
LEMMA SendInv ==
  ASSUME IInv, Send
  PROVE  IInv'
<1> DEFINE f == poll_fds[i]
<1>1. /\ conn' = conn /\ inbox' = inbox /\ backlog' = backlog
      /\ poll_fds' = poll_fds /\ revents' = revents /\ fds_to_add' = fds_to_add
      /\ thread' = thread /\ should_exit' = should_exit
      /\ i' = i + 1 /\ fds_to_close' = fds_to_close /\ pc = "send" /\ pc' = "walk"
  BY DEF Send
<1>2. /\ i \in Nat /\ i >= 1 /\ i <= Len(poll_fds) /\ Len(poll_fds) \in Nat
      /\ DOMAIN poll_fds = 1 .. Len(poll_fds) /\ Len(revents) = Len(poll_fds)
      /\ f \in Fd
  BY <1>1, Entries DEF IInv, Ahead
<1>3. /\ outbox' \in [Fd -> 0 .. SndBuf]
      /\ answered \subseteq answered' /\ answered' \subseteq Fd
  <2>1. CASE outbox[f] < SndBuf /\ outbox' = [outbox EXCEPT ![f] = @ + 1]
             /\ answered' = answered \cup {f}
    <3>1. outbox[f] + 1 \in 0 .. SndBuf
      BY <1>2, <2>1, BoundAssumption DEF IInv, TypeOK
    <3> QED
      BY <1>2, <2>1, <3>1 DEF IInv, TypeOK
  <2>2. CASE outbox' = outbox /\ answered' = answered
    BY <2>2 DEF IInv, TypeOK
  <2> QED
    BY <2>1, <2>2 DEF Send
<1>4. TypeOK'
  <2>1. i' \in 1 .. Len(poll_fds) + Len(revents) + 1
    BY <1>1, <1>2
  <2> QED
    BY <1>1, <1>3, <2>1 DEF IInv, TypeOK
<1>5. Named' /\ Distinct'
  BY <1>1 DEF IInv, Named, Distinct
<1>6. Marked'
  BY <1>1, <1>3 DEF IInv, Marked, Done, OneShot
<1>7. \A k \in DOMAIN poll_fds : Due(k) => Due(k)'
  BY <1>1 DEF Due, OneShot
<1>8. Ahead'
  <2>1. \A k \in i + 1 .. Len(poll_fds) : Due(k)'
    BY <1>1, <1>2, <1>7 DEF IInv, Ahead
  <2> QED
    BY <1>1, <1>2, <2>1 DEF Ahead
<1> QED
  BY <1>4, <1>5, <1>6, <1>8 DEF IInv

(* The api thread's response marks its own entry, of a connection that is  *)
(* answered with this step.                                                *)
LEMMA RespondInv ==
  ASSUME IInv, Respond
  PROVE  IInv'
<1> DEFINE f == poll_fds[i]
<1>1. /\ conn' = conn /\ inbox' = inbox /\ backlog' = backlog
      /\ poll_fds' = poll_fds /\ revents' = revents /\ fds_to_add' = fds_to_add
      /\ thread' = thread /\ should_exit' = should_exit /\ pc' = pc
      /\ i' = i + 1 /\ fds_to_close' = fds_to_close \cup {i}
      /\ answered' = answered \cup {f} /\ OneShot
      /\ outbox' = [outbox EXCEPT ![f] = IF conn[f] # "hup" THEN 1 ELSE 0]
  BY DEF Respond, Responding
<1>2. /\ i \in DOMAIN poll_fds /\ f \in Fd /\ f # Listen /\ pc = "walk"
  BY EventIsDue DEF Respond, Responding
<1>3. /\ i \in Nat /\ i >= 1 /\ i <= Len(poll_fds) /\ Len(poll_fds) \in Nat
      /\ DOMAIN poll_fds = 1 .. Len(poll_fds) /\ Len(revents) = Len(poll_fds)
  BY <1>2, Entries DEF IInv, Ahead
<1>4. TypeOK'
  <2>1. outbox' \in [Fd -> 0 .. SndBuf]
    <3>1. 0 \in 0 .. SndBuf /\ 1 \in 0 .. SndBuf
      BY BoundAssumption
    <3> QED
      BY <1>1, <3>1 DEF IInv, TypeOK
  <2>2. i' \in 1 .. Len(poll_fds) + Len(revents) + 1
    BY <1>1, <1>3
  <2>3. fds_to_close' \subseteq DOMAIN poll_fds /\ answered' \subseteq Fd
    BY <1>1, <1>2 DEF IInv, TypeOK
  <2> QED
    BY <1>1, <2>1, <2>2, <2>3 DEF IInv, TypeOK
<1>5. Named' /\ Distinct'
  BY <1>1 DEF IInv, Named, Distinct
<1>6. Marked'
  BY <1>1, <1>2 DEF IInv, Marked, Done, OneShot
<1>7. \A k \in DOMAIN poll_fds : Due(k) => Due(k)'
  BY <1>1 DEF Due, OneShot
<1>8. Ahead'
  <2>1. \A k \in i + 1 .. Len(poll_fds) : Due(k)'
    BY <1>2, <1>3, <1>7 DEF IInv, Ahead
  <2> QED
    BY <1>1, <1>2, <1>3, <2>1 DEF Ahead
<1> QED
  BY <1>4, <1>5, <1>6, <1>8 DEF IInv

(* A new connection takes a descriptor no entry names. *)
LEMMA AcceptInv ==
  ASSUME IInv, Accept
  PROVE  IInv'
<1> DEFINE g == Min(Free)
<1>1. /\ inbox' = inbox /\ outbox' = outbox /\ answered' = answered
      /\ poll_fds' = poll_fds /\ revents' = revents /\ fds_to_close' = fds_to_close
      /\ thread' = thread /\ should_exit' = should_exit /\ pc' = pc
      /\ i' = i + 1 /\ fds_to_add' = Append(fds_to_add, g)
      /\ conn' = [conn EXCEPT ![g] = "open"] /\ backlog' = backlog - 1
  BY DEF Accept
<1>2. /\ i \in DOMAIN poll_fds /\ poll_fds[i] = Listen /\ pc = "walk" /\ backlog > 0
  BY EventIsDue DEF Accept
<1>3. /\ i \in Nat /\ i >= 1 /\ i <= Len(poll_fds) /\ Len(poll_fds) \in Nat
      /\ DOMAIN poll_fds = 1 .. Len(poll_fds) /\ Len(revents) = Len(poll_fds)
  BY <1>2, Entries DEF IInv, Ahead
<1>4. g \in Fd /\ conn[g] = "none" /\ g # Listen
  <2>1. g \in Free
    BY FdAssumption, MinInSet DEF Accept, Free
  <2> QED
    BY <2>1, FdAssumption DEF Free
<1>5. /\ fds_to_add' \in Seq(Fd)
      /\ DOMAIN fds_to_add' = DOMAIN fds_to_add \cup {Len(fds_to_add) + 1}
      /\ \A k \in DOMAIN fds_to_add : fds_to_add'[k] = fds_to_add[k]
      /\ fds_to_add'[Len(fds_to_add) + 1] = g
      /\ Len(fds_to_add) + 1 \notin DOMAIN fds_to_add
  <2>1. fds_to_add \in Seq(Fd) /\ Len(fds_to_add) \in Nat
        /\ DOMAIN fds_to_add = 1 .. Len(fds_to_add)
    BY Entries DEF IInv, TypeOK
  <2>2. /\ fds_to_add' \in Seq(Fd) /\ Len(fds_to_add') = Len(fds_to_add) + 1
        /\ \A k \in 1 .. Len(fds_to_add) : fds_to_add'[k] = fds_to_add[k]
        /\ fds_to_add'[Len(fds_to_add) + 1] = g
    BY <1>1, <1>4, <2>1, AppendProperties
  <2>3. DOMAIN fds_to_add' = 1 .. Len(fds_to_add')
    BY <2>2, LenProperties
  <2> QED
    BY <2>1, <2>2, <2>3
<1>6. /\ conn'[g] = "open" /\ \A f \in Fd : f # g => conn'[f] = conn[f]
      /\ conn' \in [Fd -> {"none", "open", "fin", "hup", "pipe"}]
  BY <1>1, <1>4 DEF IInv, TypeOK
<1> HIDE DEF g
<1>7. \A k \in DOMAIN poll_fds : poll_fds[k] # g
  BY <1>4 DEF IInv, Named
<1>8. \A k \in DOMAIN fds_to_add : fds_to_add[k] # g
  BY <1>4 DEF IInv, Named
<1>9. TypeOK'
  <2>1. backlog' \in 0 .. MaxBacklog
    BY <1>1, <1>2, BoundAssumption DEF IInv, TypeOK
  <2>2. i' \in 1 .. Len(poll_fds) + Len(revents) + 1
    BY <1>1, <1>3
  <2> QED
    BY <1>1, <1>5, <1>6, <2>1, <2>2 DEF IInv, TypeOK
<1>10. Named'
  <2>1. \E k \in DOMAIN poll_fds' : poll_fds'[k] = Listen
    BY <1>1 DEF IInv, Named
  <2>2. \A k \in DOMAIN poll_fds' : poll_fds'[k] # Listen => conn'[poll_fds'[k]] # "none"
    BY <1>1, <1>6, Entries DEF IInv, Named
  <2>3. \A k \in DOMAIN fds_to_add' : conn'[fds_to_add'[k]] # "none"
    BY <1>5, <1>6, Entries DEF IInv, Named
  <2>4. ASSUME NEW f \in Fd, conn'[f] # "none"
        PROVE  \/ \E k \in DOMAIN poll_fds' : poll_fds'[k] = f
               \/ \E k \in DOMAIN fds_to_add' : fds_to_add'[k] = f
    <3>1. CASE f = g
      BY <3>1, <1>5
    <3>2. CASE f # g
      BY <3>2, <2>4, <1>1, <1>5, <1>6 DEF IInv, Named
    <3> QED
      BY <3>1, <3>2
  <2> QED
    BY <2>1, <2>2, <2>3, <2>4 DEF Named
<1>11. Distinct'
  BY <1>1, <1>5, <1>7, <1>8 DEF IInv, Distinct
<1>12. Marked'
  BY <1>1, <1>4, <1>6, Entries DEF IInv, Marked, Done, OneShot, TypeOK
<1>13. ASSUME NEW k \in DOMAIN poll_fds, k # i, Due(k)
       PROVE  Due(k)'
  <2>1. poll_fds[k] # Listen /\ poll_fds[k] # g /\ poll_fds[k] \in Fd
    BY <1>2, <1>7, <1>13, Entries DEF IInv, Distinct
  <2> QED
    BY <1>1, <1>6, <1>13, <2>1 DEF Due, OneShot
<1>14. Ahead'
  <2>1. \A k \in i + 1 .. Len(poll_fds) : Due(k)'
    BY <1>2, <1>3, <1>13 DEF IInv, Ahead
  <2> QED
    BY <1>1, <1>2, <1>3, <2>1 DEF Ahead
<1> QED
  BY <1>9, <1>10, <1>11, <1>12, <1>14 DEF IInv

(* poll() reports what is the case, so every entry is due. *)
LEMMA PollInv ==
  ASSUME IInv, Poll
  PROVE  IInv'
<1>1. /\ conn' = conn /\ inbox' = inbox /\ outbox' = outbox /\ backlog' = backlog
      /\ poll_fds' = poll_fds /\ answered' = answered /\ thread' = thread
      /\ should_exit' = should_exit /\ i' = 1 /\ fds_to_close' = {}
      /\ fds_to_add = <<>> /\ fds_to_add' = <<>> /\ pc' = "walk"
  BY DEF Poll, clientVars, IInv, Ahead
<1>2. revents' = [k \in 1 .. Len(poll_fds) |-> Events(poll_fds[k])]
      /\ Len(poll_fds) \in Nat /\ DOMAIN poll_fds = 1 .. Len(poll_fds)
  BY Entries DEF Poll, IInv
<1>3. ASSUME NEW k \in 1 .. Len(poll_fds)
      PROVE  /\ Events(poll_fds[k]) \in SUBSET {"IN", "OUT", "HUP", "NVAL"}
             /\ revents'[k] = Events(poll_fds[k])
  BY <1>2, <1>3 DEF Events
<1>4. /\ revents' \in Seq(SUBSET {"IN", "OUT", "HUP", "NVAL"})
      /\ Len(revents') = Len(poll_fds)
  <2>1. revents' \in [1 .. Len(poll_fds) -> SUBSET {"IN", "OUT", "HUP", "NVAL"}]
    BY <1>2, <1>3
  <2>2. revents' \in Seq(SUBSET {"IN", "OUT", "HUP", "NVAL"})
    BY <1>2, <2>1, SeqDef
  <2> QED
    BY <1>2, <2>1, <2>2, LenProperties
<1>5. TypeOK'
  <2>1. i' \in 1 .. Len(poll_fds) + Len(revents') + 1
    BY <1>1, <1>2, <1>4
  <2> QED
    BY <1>1, <1>4, <2>1 DEF IInv, TypeOK
<1>6. Named' /\ Distinct' /\ Marked'
  BY <1>1 DEF IInv, Named, Distinct, Marked
<1>7. ASSUME NEW k \in 1 .. Len(poll_fds)
      PROVE  Due(k)'
  <2>1. CASE poll_fds[k] = Listen
    BY <1>1, <1>3, <2>1 DEF Due, Events
  <2>2. CASE poll_fds[k] # Listen
    <3>1. conn[poll_fds[k]] # "none" /\ poll_fds[k] \in Fd
      BY <1>2, <2>2, Entries DEF IInv, Named
    <3>2. revents'[k] = (IF conn[poll_fds[k]] \in {"hup", "pipe"} THEN {"HUP"} ELSE {})
                          \cup (IF OneShot THEN {"OUT"}
                                ELSE IF inbox[poll_fds[k]] > 0 \/ conn[poll_fds[k]] = "fin"
                                     THEN {"IN"} ELSE {})
      BY <1>3, <2>2, <3>1 DEF Events
    <3>3. /\ "NVAL" \notin revents'[k]
          /\ "HUP" \in revents'[k] => conn[poll_fds[k]] \in {"hup", "pipe"}
          /\ "OUT" \in revents'[k] => OneShot
      BY <3>2
    <3> QED
      BY <1>1, <2>2, <3>3 DEF Due, OneShot
  <2> QED
    BY <2>1, <2>2
<1>8. Ahead'
  BY <1>1, <1>2, <1>4, <1>7 DEF Ahead
<1> QED
  BY <1>5, <1>6, <1>8 DEF IInv

(* Erasing the last marked entry leaves the marked ones before it in place.*)
LEMMA CloseInv ==
  ASSUME IInv, Close
  PROVE  /\ IInv'
         /\ \E f \in Fd : Done(f) /\ conn' = [conn EXCEPT ![f] = "none"]
<1> DEFINE m == Max(fds_to_close)
           f == poll_fds[m]
           n == Len(poll_fds)
<1>1. /\ revents' = revents /\ i' = i /\ fds_to_add' = fds_to_add /\ pc = "close"
      /\ thread' = thread /\ should_exit' = should_exit /\ pc' = pc
      /\ backlog' = backlog /\ fds_to_close' = fds_to_close \ {m}
      /\ conn' = [conn EXCEPT ![f] = "none"] /\ inbox' = [inbox EXCEPT ![f] = 0]
      /\ outbox' = [outbox EXCEPT ![f] = 0] /\ answered' = answered \ {f}
      /\ poll_fds' = IF conn[f] = "none" THEN poll_fds ELSE RemoveAt(poll_fds, m)
  BY DEF Close, CloseEntry
<1>2. n \in Nat /\ DOMAIN poll_fds = 1 .. n /\ poll_fds \in Seq(Fd \cup {Listen})
      /\ fds_to_close \subseteq 1 .. n
  BY Entries DEF IInv, TypeOK
<1>3. m \in fds_to_close /\ \A k \in fds_to_close : m >= k
  BY <1>2, MaxInSet DEF Close
<1>4. m \in 1 .. n /\ f \in Fd /\ f # Listen /\ Done(f) /\ conn[f] # "none"
  BY <1>2, <1>3, Entries DEF IInv, Marked, Named
<1>5. /\ poll_fds' \in Seq(Fd \cup {Listen}) /\ Len(poll_fds') = n - 1
      /\ \A k \in 1 .. n - 1 :
           poll_fds'[k] = IF k < m THEN poll_fds[k] ELSE poll_fds[k + 1]
  BY <1>1, <1>2, <1>4, RemoveAtEntries
<1>6. DOMAIN poll_fds' = 1 .. n - 1
  BY <1>5, LenProperties
<1>7. conn' \in [Fd -> {"none", "open", "fin", "hup", "pipe"}]
      /\ conn'[f] = "none" /\ \A g \in Fd : g # f => conn'[g] = conn[g]
  BY <1>1, <1>4 DEF IInv, TypeOK
<1> HIDE DEF m, f, n
(* every entry that is left is an old one, at another place, and not f *)
<1>8. ASSUME NEW k \in 1 .. n - 1
      PROVE  \E j \in 1 .. n : /\ poll_fds'[k] = poll_fds[j] /\ j # m
                               /\ j = IF k < m THEN k ELSE k + 1
  <2>1. CASE k < m
    BY <2>1, <1>2, <1>4, <1>5
  <2>2. CASE k >= m
    <3>1. k + 1 \in 1 .. n /\ k + 1 # m /\ ~ (k < m)
      BY <2>2, <1>2, <1>4
    <3> QED
      BY <3>1, <1>5
  <2>3. k < m \/ k >= m
    BY <1>2, <1>4
  <2> QED
    BY <2>1, <2>2, <2>3
<1>9. ASSUME NEW j \in 1 .. n, j # m
      PROVE  \E k \in 1 .. n - 1 : poll_fds'[k] = poll_fds[j]
  <2>1. CASE j < m
    <3>1. j \in 1 .. n - 1
      BY <2>1, <1>2, <1>4
    <3> QED
      BY <2>1, <3>1, <1>5
  <2>2. CASE j > m
    <3>1. j - 1 \in 1 .. n - 1 /\ ~ (j - 1 < m) /\ (j - 1) + 1 = j
      BY <2>2, <1>2, <1>4
    <3> QED
      BY <3>1, <1>5
  <2>3. j < m \/ j > m
    BY <1>2, <1>4, <1>9
  <2> QED
    BY <2>1, <2>2, <2>3
<1>10. \A j \in 1 .. n : j # m => poll_fds[j] # f
  BY <1>2, <1>4 DEF IInv, Distinct, f
<1>11. \A k \in DOMAIN fds_to_add : fds_to_add[k] # f /\ fds_to_add[k] \in Fd
  BY <1>2, <1>4, Entries DEF IInv, Distinct, f
<1>12. \A k \in fds_to_close' : k \in 1 .. n - 1 /\ poll_fds'[k] = poll_fds[k] /\ k # m
                                /\ k \in 1 .. n
  <2> TAKE k \in fds_to_close'
  <2>1. k \in fds_to_close /\ k # m /\ k \in 1 .. n /\ m >= k
    BY <1>1, <1>2, <1>3
  <2>2. k < m /\ k \in 1 .. n - 1
    BY <2>1, <1>2, <1>4
  <2> QED
    BY <2>1, <2>2, <1>5
<1>13. TypeOK'
  <2>1. 0 \in 0 .. MaxRequests /\ 0 \in 0 .. SndBuf
    BY BoundAssumption
  <2>2. inbox' \in [Fd -> 0 .. MaxRequests] /\ outbox' \in [Fd -> 0 .. SndBuf]
    BY <1>1, <2>1 DEF IInv, TypeOK
  <2>3. fds_to_close' \subseteq DOMAIN poll_fds'
    BY <1>6, <1>12
  <2>4. i' \in 1 .. Len(poll_fds') + Len(revents') + 1
    <3>1. i \in Nat /\ i >= 1 /\ i <= Len(revents) + 1 /\ Len(revents) \in Nat
      BY Entries DEF IInv, Ahead
    <3> QED
      BY <3>1, <1>1, <1>2, <1>4, <1>5
  <2> QED
    BY <1>1, <1>5, <1>7, <2>2, <2>3, <2>4 DEF IInv, TypeOK
<1>14. Named'
  <2>1. \E k \in DOMAIN poll_fds' : poll_fds'[k] = Listen
    <3>1. PICK j \in 1 .. n : poll_fds[j] = Listen
      BY <1>2 DEF IInv, Named
    <3> QED
      BY <3>1, <1>4, <1>6, <1>9 DEF f
  <2>2. ASSUME NEW k \in DOMAIN poll_fds', poll_fds'[k] # Listen
        PROVE  conn'[poll_fds'[k]] # "none"
    <3>1. PICK j \in 1 .. n : poll_fds'[k] = poll_fds[j] /\ j # m
      BY <1>6, <1>8
    <3>2. poll_fds[j] \in Fd /\ poll_fds[j] # f /\ conn[poll_fds[j]] # "none"
      BY <2>2, <3>1, <1>2, <1>10, Entries DEF IInv, Named
    <3> QED
      BY <3>1, <3>2, <1>7
  <2>3. \A k \in DOMAIN fds_to_add' : conn'[fds_to_add'[k]] # "none"
    BY <1>1, <1>7, <1>11 DEF IInv, Named
  <2>4. ASSUME NEW g \in Fd, conn'[g] # "none"
        PROVE  \/ \E k \in DOMAIN poll_fds' : poll_fds'[k] = g
               \/ \E k \in DOMAIN fds_to_add' : fds_to_add'[k] = g
    <3>1. g # f /\ conn[g] # "none"
      BY <2>4, <1>7
    <3>2. CASE \E k \in DOMAIN fds_to_add : fds_to_add[k] = g
      BY <3>2, <1>1
    <3>3. CASE \E k \in DOMAIN poll_fds : poll_fds[k] = g
      <4>1. PICK j \in 1 .. n : poll_fds[j] = g
        BY <3>3, <1>2
      <4>2. j # m
        BY <4>1, <3>1 DEF f
      <4> QED
        BY <4>1, <4>2, <1>6, <1>9
    <3> QED
      BY <3>1, <3>2, <3>3 DEF IInv, Named
  <2> QED
    BY <2>1, <2>2, <2>3, <2>4 DEF Named
<1>15. Distinct'
  <2>1. ASSUME NEW j \in DOMAIN poll_fds', NEW k \in DOMAIN poll_fds',
               poll_fds'[j] = poll_fds'[k]
        PROVE  j = k
    <3>1. PICK a \in 1 .. n : /\ poll_fds'[j] = poll_fds[a]
                              /\ a = IF j < m THEN j ELSE j + 1
      BY <1>6, <1>8
    <3>2. PICK b \in 1 .. n : /\ poll_fds'[k] = poll_fds[b]
                              /\ b = IF k < m THEN k ELSE k + 1
      BY <1>6, <1>8
    <3>3. a = b
      BY <2>1, <3>1, <3>2, <1>2 DEF IInv, Distinct
    <3> QED
      BY <3>1, <3>2, <3>3, <1>4, <1>2, <1>6
  <2>2. ASSUME NEW j \in DOMAIN poll_fds', NEW k \in DOMAIN fds_to_add'
        PROVE  poll_fds'[j] # fds_to_add'[k]
    <3>1. PICK a \in 1 .. n : poll_fds'[j] = poll_fds[a]
      BY <1>6, <1>8
    <3> QED
      BY <3>1, <1>1, <1>2 DEF IInv, Distinct
  <2> QED
    BY <2>1, <2>2, <1>1 DEF IInv, Distinct
<1>16. Marked'
  <2> SUFFICES ASSUME NEW k \in fds_to_close'
               PROVE  (poll_fds[k] # Listen /\ Done(poll_fds[k]))'
    BY DEF Marked
  <2>1. /\ k \in fds_to_close /\ poll_fds'[k] = poll_fds[k]
        /\ poll_fds[k] # f /\ k \in 1 .. n
    BY <1>1, <1>10, <1>12
  <2>2. poll_fds[k] # Listen /\ Done(poll_fds[k]) /\ poll_fds[k] \in Fd
    BY <2>1, <1>2, Entries DEF IInv, Marked
  <2> QED
    BY <2>1, <2>2, <1>1, <1>7 DEF Done, OneShot
<1>17. Ahead'
  BY <1>1 DEF IInv, Ahead
<1>18. IInv'
  BY <1>13, <1>14, <1>15, <1>16, <1>17 DEF IInv
<1> QED
  BY <1>1, <1>4, <1>18

(* The vector and the new descriptors joined name the open connections, no *)
(* one twice.                                                              *)
LEMMA JoinedEntries ==
  ASSUME TypeOK, Named, Distinct, NEW all, all = poll_fds \o fds_to_add
  PROVE  /\ all \in Seq(Fd \cup {Listen}) /\ Len(all) = Len(poll_fds) + Len(fds_to_add)
         /\ \E k \in DOMAIN all : all[k] = Listen
         /\ \A k \in DOMAIN all : all[k] # Listen => all[k] \in Fd /\ conn[all[k]] # "none"
         /\ \A f \in Fd : conn[f] # "none" => \E k \in DOMAIN all : all[k] = f
         /\ \A j, k \in DOMAIN all : all[j] = all[k] => j = k
<1> DEFINE n == Len(poll_fds)
           a == Len(fds_to_add)
<1>1. /\ n \in Nat /\ DOMAIN poll_fds = 1 .. n /\ poll_fds \in Seq(Fd \cup {Listen})
      /\ a \in Nat /\ DOMAIN fds_to_add = 1 .. a /\ fds_to_add \in Seq(Fd \cup {Listen})
  BY Entries, SeqMonotonic DEF TypeOK
<1>2. /\ all \in Seq(Fd \cup {Listen}) /\ Len(all) = n + a
      /\ \A k \in 1 .. n + a : all[k] = IF k <= n THEN poll_fds[k] ELSE fds_to_add[k - n]
  BY <1>1, ConcatProperties
<1>3. DOMAIN all = 1 .. n + a
  BY <1>2, LenProperties
<1> HIDE DEF n, a
<1>4. \A k \in 1 .. n : k \in 1 .. n + a /\ all[k] = poll_fds[k]
  BY <1>1, <1>2
<1>5. \A k \in 1 .. a : k + n \in 1 .. n + a /\ all[k + n] = fds_to_add[k]
  BY <1>1, <1>2
<1>6. ASSUME NEW k \in 1 .. n + a
      PROVE  \/ k \in 1 .. n /\ all[k] = poll_fds[k]
             \/ k - n \in 1 .. a /\ ~ (k <= n) /\ all[k] = fds_to_add[k - n]
  BY <1>1, <1>2, <1>6
<1>7. \E k \in DOMAIN all : all[k] = Listen
  BY <1>1, <1>3, <1>4 DEF Named
<1>8. ASSUME NEW k \in DOMAIN all, all[k] # Listen
      PROVE  all[k] \in Fd /\ conn[all[k]] # "none"
  <2>1. CASE k \in 1 .. n /\ all[k] = poll_fds[k]
    BY <2>1, <1>8, <1>1, Entries DEF Named
  <2>2. CASE k - n \in 1 .. a /\ all[k] = fds_to_add[k - n]
    BY <2>2, <1>1, Entries DEF Named
  <2> QED
    BY <2>1, <2>2, <1>3, <1>6
<1>9. ASSUME NEW f \in Fd, conn[f] # "none"
      PROVE  \E k \in DOMAIN all : all[k] = f
  <2>1. CASE \E k \in 1 .. n : poll_fds[k] = f
    BY <2>1, <1>3, <1>4
  <2>2. CASE \E k \in 1 .. a : fds_to_add[k] = f
    BY <2>2, <1>3, <1>5
  <2> QED
    BY <2>1, <2>2, <1>1, <1>9 DEF Named
<1>10. ASSUME NEW j \in 1 .. n + a, NEW k \in 1 .. n + a, all[j] = all[k]
       PROVE  j = k
  <2>1. CASE j \in 1 .. n /\ k \in 1 .. n
    BY <2>1, <1>10, <1>1, <1>4 DEF Distinct
  <2>2. CASE ~ (j <= n) /\ ~ (k <= n)
    <3>1. j - n \in 1 .. a /\ k - n \in 1 .. a /\ fds_to_add[j - n] = fds_to_add[k - n]
      BY <2>2, <1>10, <1>1, <1>6
    <3>2. j - n = k - n
      BY <3>1, <1>1 DEF Distinct
    <3> QED
      BY <3>2, <1>1
  <2>3. CASE j \in 1 .. n /\ ~ (k <= n)
    <3>1. k - n \in 1 .. a /\ all[k] = fds_to_add[k - n] /\ all[j] = poll_fds[j]
      BY <2>3, <1>1, <1>4, <1>6
    <3> QED
      BY <3>1, <2>3, <1>10, <1>1 DEF Distinct
  <2>4. CASE ~ (j <= n) /\ k \in 1 .. n
    <3>1. j - n \in 1 .. a /\ all[j] = fds_to_add[j - n] /\ all[k] = poll_fds[k]
      BY <2>4, <1>1, <1>4, <1>6
    <3> QED
      BY <3>1, <2>4, <1>10, <1>1 DEF Distinct
  <2> QED
    BY <2>1, <2>2, <2>3, <2>4, <1>1
<1> QED
  BY <1>2, <1>3, <1>7, <1>8, <1>9, <1>10 DEF n, a

(* The new descriptors join the vector after the last one is erased. *)
LEMMA AddNewInv ==
  ASSUME IInv, AddNew
  PROVE  IInv'
<1>1. /\ conn' = conn /\ inbox' = inbox /\ outbox' = outbox /\ backlog' = backlog
      /\ revents' = revents /\ i' = i /\ fds_to_close = {} /\ fds_to_close' = {}
      /\ answered' = answered /\ should_exit' = should_exit /\ thread' = thread
      /\ poll_fds' = poll_fds \o fds_to_add /\ fds_to_add' = <<>> /\ pc' = "poll"
  BY DEF AddNew, clientVars
<1>2. /\ poll_fds' \in Seq(Fd \cup {Listen})
      /\ Len(poll_fds') = Len(poll_fds) + Len(fds_to_add)
      /\ \E k \in DOMAIN poll_fds' : poll_fds'[k] = Listen
      /\ \A k \in DOMAIN poll_fds' : poll_fds'[k] # Listen => conn[poll_fds'[k]] # "none"
      /\ \A f \in Fd : conn[f] # "none" => \E k \in DOMAIN poll_fds' : poll_fds'[k] = f
      /\ \A j, k \in DOMAIN poll_fds' : poll_fds'[j] = poll_fds'[k] => j = k
  BY <1>1, JoinedEntries DEF IInv
<1>3. fds_to_add' \in Seq(Fd) /\ DOMAIN fds_to_add' = {}
  BY <1>1
<1>4. TypeOK'
  <2>1. /\ i \in Nat /\ i >= 1 /\ i <= Len(revents) + 1 /\ Len(revents) \in Nat
        /\ Len(poll_fds) \in Nat /\ Len(fds_to_add) \in Nat
    BY Entries DEF IInv, Ahead
  <2>2. i' \in 1 .. Len(poll_fds') + Len(revents') + 1
    BY <2>1, <1>1, <1>2
  <2> QED
    BY <1>1, <1>2, <1>3, <2>2 DEF IInv, TypeOK
<1>5. Named'
  BY <1>1, <1>2, <1>3 DEF Named
<1>6. Distinct'
  BY <1>2, <1>3 DEF Distinct
<1>7. Marked'
  BY <1>1 DEF Marked
<1>8. Ahead'
  BY <1>1 DEF IInv, Ahead
<1> QED
  BY <1>4, <1>5, <1>6, <1>7, <1>8 DEF IInv

(* Every step preserves the invariant. *)
LEMMA NextIInv == IInv /\ [Next]_vars => IInv'
<1> SUFFICES ASSUME IInv, [Next]_vars PROVE IInv'
  OBVIOUS
<1>1. CASE UNCHANGED vars
  <2>1. /\ UNCHANGED <<walkVars, pc, thread>> /\ conn' = conn /\ inbox' = inbox
        /\ backlog' = backlog
    BY <1>1 DEF vars, walkVars
  <2>2. TypeOK'
    BY <1>1 DEF IInv, TypeOK, vars
  <2> QED
    BY <2>1, <2>2, OutsideInv
<1>2. CASE Clients \/ sigint_handler
  BY <1>2, ClientsInv
<1>3. CASE Poll
  BY <1>3, PollInv
<1>4. CASE Exit \/ EndWalk \/ Killed
  BY <1>4, LeaveInv
<1>5. CASE NoEvent \/ AcceptFails \/ ReceiveFails \/ MarkBroken
  BY <1>5, PassInv
<1>6. CASE Accept
  BY <1>6, AcceptInv
<1>7. CASE Receive
  BY <1>7, ReceiveInv
<1>8. CASE Send
  BY <1>8, SendInv
<1>9. CASE Respond
  BY <1>9, RespondInv
<1>10. CASE Close
  BY <1>10, CloseInv
<1>11. CASE AddNew
  BY <1>11, AddNewInv
<1> QED
  BY <1>1, <1>2, <1>3, <1>4, <1>5, <1>6, <1>7, <1>8, <1>9, <1>10, <1>11 DEF Next, Loop

-----------------------------------------------------------------------------
(* The theorems.                                                           *)

(* The invariant holds in every reachable state. *)
LEMMA SpecIInv == Spec => []IInv
BY InitIInv, NextIInv, PTL DEF Spec

(* Every variable has its type, for any descriptors, buffers and bounds:   *)
(* no counter of main.cpp's and metrics.cpp's loops goes below zero, and   *)
(* the walk stays inside the vector.                                       *)
THEOREM TypeCorrect == Spec => []TypeOK
<1>1. IInv => TypeOK
  BY DEF IInv
<1> QED
  BY <1>1, SpecIInv, PTL

(* Whatever connects, hangs up and is served, the vector and the           *)
(* descriptors about to join it name every open connection exactly once:   *)
(* erasing by remembered iterators never loses or doubles an entry.        *)
THEOREM EveryConnectionPolled == Spec => []PollsOpenConnections
<1>1. IInv => PollsOpenConnections
  <2> SUFFICES ASSUME IInv PROVE PollsOpenConnections
    OBVIOUS
  <2> DEFINE all == poll_fds \o fds_to_add
  <2>1. /\ \E k \in DOMAIN all : all[k] = Listen
        /\ \A k \in DOMAIN all : all[k] # Listen => all[k] \in Fd /\ conn[all[k]] # "none"
        /\ \A f \in Fd : conn[f] # "none" => \E k \in DOMAIN all : all[k] = f
        /\ \A j, k \in DOMAIN all : all[j] = all[k] => j = k
    BY JoinedEntries DEF IInv
  <2> HIDE DEF all
  <2>2. ToSet(all) = {Listen} \cup {f \in Fd : conn[f] # "none"}
    BY <2>1 DEF ToSet
  <2>3. IsInjective(all)
    BY <2>1 DEF IsInjective
  <2> QED
    BY <2>2, <2>3 DEF PollsOpenConnections, all
<1> QED
  BY <1>1, SpecIInv, PTL

(* Only an entry that hung up, or was answered by the api thread, loses    *)
(* its connection.                                                         *)
THEOREM NoneClosedByMistake == Spec => ClosedForCause
<1> DEFINE Cause == \A f \in Fd : conn[f] # "none" /\ conn'[f] = "none" =>
                      conn[f] \in {"hup", "pipe"} \/ (OneShot /\ f \in answered)
<1>1. IInv /\ [Next]_vars => [Cause]_vars
  <2> SUFFICES ASSUME IInv, Next PROVE Cause
    OBVIOUS
  <2>1. CASE Close
    <3>1. PICK g \in Fd : Done(g) /\ conn' = [conn EXCEPT ![g] = "none"]
      BY <2>1, CloseInv
    <3> QED
      BY <3>1 DEF IInv, TypeOK, Done
  <2>2. CASE Accept
    <3>1. conn' = [conn EXCEPT ![Min(Free)] = "open"]
      BY <2>2 DEF Accept
    <3> QED
      BY <3>1 DEF IInv, TypeOK
  <2>3. ASSUME NEW f \in Fd, HangUp(f) \/ ShutDown(f)
        PROVE  Cause
    BY <2>3 DEF HangUp, ShutDown, IInv, TypeOK
  <2>4. CASE conn' = conn
    BY <2>4
  <2>5. \/ Close \/ Accept \/ conn' = conn
        \/ \E f \in Fd : HangUp(f) \/ ShutDown(f)
    BY DEF Next, Loop, Clients, Connect, Ask, ReadReply, sigint_handler, Poll, Exit, NoEvent,
           AcceptFails, MarkBroken, Receive, ReceiveFails, Send, Respond, Killed, EndWalk,
           AddNew, clientVars
  <2> QED
    BY <2>1, <2>2, <2>3, <2>4, <2>5
<1> HIDE DEF Cause
<1>2. Spec => [][Cause]_vars
  BY <1>1, SpecIInv, PTL DEF Spec
<1> QED
  BY <1>2 DEF Cause, ClosedForCause

=============================================================================
