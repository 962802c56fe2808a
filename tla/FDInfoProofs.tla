----------------------------- MODULE FDInfoProofs ------------------------------
(***************************************************************************)
(* TypeOK, CountedOnce and HonestBetweenScans are invariants of FDInfo, in *)
(* three layers: which client a stream stands for, the types (the load is  *)
(* made from a sum over the streams, hence the lemmas about sums), and how *)
(* far what was read lags behind what the clients have used.               *)
(***************************************************************************)
EXTENDS Integers, FDInfo, FiniteSetTheorems, WellFoundedInduction, TLAPS

(* The part of TypeOK that CountedOnce needs.                              *)
Contents == (Client \X Nat) \cup {None}
Types ==
  /\ client \in [Fd -> Client \cup {None}] /\ time \in [Client -> Nat]
  /\ streams \subseteq Fd /\ client_ids \subseteq Client
  /\ data \in [Fd -> Contents] /\ reused \in BOOLEAN

(* As long as no number is reused, a stream stands for one client: the one *)
(* at its descriptor and the one last read from it are the same ...        *)
SameClient ==
  \A f \in streams : data[f] # None /\ client[f] # None => data[f][1] = client[f]

(* ... and it is not the client of another stream, be it open or closed.   *)
Distinct ==
  \A f, g \in streams : f # g =>
    /\ client[f] # None => client[f] # client[g]
    /\ data[f] # None /\ data[g] # None => data[f][1] # data[g][1]
    /\ data[f] # None => data[f][1] # client[g]

(* What keeps it so: open_fds() knows the client of every stream it has    *)
(* opened, and starts without any contents.                                *)
Opening ==
  pc = "open" =>
    /\ data = NoData
    /\ ~reused => \A f \in streams : client[f] \in client_ids \cup {None}

IInv == Types /\ (~reused => SameClient /\ Distinct) /\ Opening

-----------------------------------------------------------------------------
LEMMA NoneIsNoClient ==
  /\ None \notin Client
  /\ \A c \in Client, t \in Nat : <<c, t>> # None
  BY NoneAssumption

LEMMA InitInv == Init => IInv
<1> SUFFICES ASSUME Init PROVE IInv OBVIOUS
<1>1. time \in [Client -> Nat] /\ data \in [Fd -> Contents]
  BY DEF Init, NoData, Contents
<1>2. Types BY <1>1 DEF Init, Types
<1> QED BY <1>2 DEF Init, IInv, SameClient, Distinct, Opening

(* The process.                                                            *)
LEMMA OpenInv == ASSUME IInv, NEW f \in Fd, NEW c \in Client, Open(f, c) PROVE IInv'
<1>1. Types' BY DEF IInv, Types, Open
<1>2. ASSUME ~reused' PROVE ~reused /\ \A g \in streams : client'[g] = client[g]
  BY <1>2 DEF IInv, Types, Open
<1>3. streams' = streams /\ data' = data /\ client_ids' = client_ids /\ pc' = pc
  BY DEF Open
<1>4. ~reused' => SameClient' /\ Distinct'
  BY <1>2, <1>3 DEF IInv, SameClient, Distinct
<1>5. Opening' BY <1>2, <1>3 DEF IInv, Opening
<1> QED BY <1>1, <1>4, <1>5 DEF IInv

(* Close and Exit only take clients away.                                  *)
LEMMA ForgetInv ==
  ASSUME IInv, client' \in [Fd -> Client \cup {None}],
         \A f \in Fd : client'[f] \in {client[f], None},
         UNCHANGED <<time, pc, client_ids, data, streams, reused>>
  PROVE  IInv'
<1>1. Types' BY DEF IInv, Types
<1>2. ASSUME ~reused' PROVE SameClient'
  BY <1>2 DEF IInv, Types, SameClient
<1>3. ASSUME ~reused' PROVE Distinct'
  <2>1. \A f \in streams : f \in Fd /\ client'[f] \in {client[f], None}
    BY DEF IInv, Types
  <2>2. \A f \in streams : data[f] # None => data[f][1] # None
    BY NoneIsNoClient DEF IInv, Types, Contents
  <2> QED BY <1>2, <1>3, <2>1, <2>2 DEF IInv, Distinct
<1>4. Opening' BY DEF IInv, Types, Opening
<1> QED BY <1>1, <1>2, <1>3, <1>4 DEF IInv

(* The poll.                                                               *)
LEMMA OpenFdInv == ASSUME IInv, NEW f \in Fd, OpenFd(f) PROVE IInv'
<1>1. CASE client[f] \in {None} \cup client_ids
  BY <1>1 DEF OpenFd, procVars, IInv, Types, SameClient, Distinct, Opening
<1>2. CASE client[f] \notin {None} \cup client_ids
  <2>1. /\ streams' = streams \cup {f} /\ client_ids' = client_ids \cup {client[f]}
        /\ UNCHANGED <<client, time, pc, data, reused>> /\ pc = "open"
    BY <1>2 DEF OpenFd, procVars
  <2>2. Types' BY <1>2, <2>1 DEF IInv, Types
  <2>3. \A g \in Fd : data[g] = None BY <2>1 DEF IInv, Opening, NoData
  <2>4. Opening' BY <2>1 DEF IInv, Opening, NoData
  <2>5. ASSUME ~reused PROVE Distinct'
    <3>1. \A g \in streams : client[g] \in client_ids \cup {None}
      BY <2>1, <2>5 DEF IInv, Opening
    <3>2. \A g \in streams : client[f] # client[g] BY <1>2, <3>1
    <3>3. \A g, h \in streams : g # h /\ client[g] # None => client[g] # client[h]
      BY <2>5 DEF IInv, Distinct
    <3> QED BY <1>2, <2>1, <2>3, <3>2, <3>3 DEF IInv, Types, Distinct
  <2>6. SameClient' BY <2>1, <2>3 DEF IInv, Types, SameClient
  <2> QED BY <2>1, <2>2, <2>4, <2>5, <2>6 DEF IInv
<1> QED BY <1>1, <1>2

LEMMA ReadInv == ASSUME IInv, NEW f \in Fd, Read(f) PROVE IInv'
<1>1. UNCHANGED <<client, time, pc, client_ids, streams, reused>> /\ pc = "read"
  BY DEF Read, procVars, scanVars
<1>2. CASE client[f] = None
  BY <1>1, <1>2 DEF Read, IInv, Types, SameClient, Distinct, Opening
<1>3. CASE client[f] # None
  <2> DEFINE d == <<client[f], time[client[f]]>>
  <2>1. data' = [data EXCEPT ![f] = d] BY <1>3 DEF Read
  <2>2. client[f] \in Client /\ d \in Client \X Nat /\ d # None /\ d[1] = client[f]
    BY <1>3, NoneIsNoClient DEF IInv, Types
  <2> HIDE DEF d
  <2>3. \A g \in Fd : data'[g] = IF g = f THEN d ELSE data[g] BY <2>1 DEF IInv, Types
  <2>4. Types' BY <1>1, <2>1, <2>2 DEF IInv, Types, Contents
  <2>5. ASSUME ~reused PROVE SameClient'
    BY <1>1, <2>2, <2>3, <2>5 DEF IInv, Types, SameClient
  <2>6. ASSUME ~reused PROVE Distinct'
    BY <1>1, <1>3, <2>2, <2>3, <2>6 DEF IInv, Types, Distinct
  <2> QED BY <1>1, <2>4, <2>5, <2>6 DEF IInv, Opening
<1> QED BY <1>2, <1>3

LEMMA NextInv == IInv /\ [Next]_vars => IInv'
<1> SUFFICES ASSUME IInv, [Next]_vars PROVE IInv' OBVIOUS
<1> USE DEF IInv, procVars, scanVars
<1>1. ASSUME NEW f \in Fd, NEW c \in Client, Open(f, c) PROVE IInv'
  BY <1>1, OpenInv
<1>2. ASSUME NEW f \in Fd, Close(f) PROVE IInv'
  <2>1. \A g \in Fd : client'[g] \in {client[g], None} BY <1>2 DEF Close, Types
  <2>2. client' \in [Fd -> Client \cup {None}] BY <1>2 DEF Close, Types
  <2>3. UNCHANGED <<time, pc, client_ids, data, streams, reused>> BY <1>2 DEF Close
  <2> QED BY <2>1, <2>2, <2>3, ForgetInv
<1>3. ASSUME NEW c \in Client, Run(c) PROVE IInv'
  <2>1. time' \in [Client -> Nat] BY <1>3 DEF Run, Types
  <2> QED BY <1>3, <2>1 DEF Run, Types, SameClient, Distinct, Opening
<1>4. CASE Exit
  <2>1. \A g \in Fd : client'[g] \in {client[g], None} BY <1>4 DEF Exit
  <2>2. client' \in [Fd -> Client \cup {None}] BY <1>4 DEF Exit
  <2>3. UNCHANGED <<time, pc, client_ids, data, streams, reused>> BY <1>4 DEF Exit
  <2> QED BY <2>1, <2>2, <2>3, ForgetInv
<1>5. CASE PollAll
  BY <1>5 DEF PollAll, Types, SameClient, Distinct, Opening
<1>6. CASE FindDir
  BY <1>6 DEF FindDir, Types, SameClient, Distinct, Opening
<1>7. CASE FindFds
  BY <1>7 DEF FindFds, Types, SameClient, Distinct, Opening
<1>8. CASE Clear
  <2>1. NoData \in [Fd -> Contents] BY DEF NoData, Contents
  <2> QED BY <1>8, <2>1 DEF Clear, Types, SameClient, Distinct, Opening
<1>9. CASE EndInit
  BY <1>9 DEF EndInit, Types, SameClient, Distinct, Opening
<1>10. CASE Sample
  BY <1>10 DEF Sample, Types, SameClient, Distinct, Opening
<1>11. ASSUME NEW f \in Fd, OpenFd(f) PROVE IInv'
  BY <1>11, OpenFdInv
<1>12. ASSUME NEW f \in Fd, Read(f) PROVE IInv'
  BY <1>12, ReadInv
<1>13. CASE UNCHANGED vars
  BY <1>13 DEF vars, Types, SameClient, Distinct, Opening
<1> QED BY <1>1, <1>2, <1>3, <1>4, <1>5, <1>6, <1>7, <1>8, <1>9, <1>10, <1>11, <1>12, <1>13
        DEF Next, Process, Poll

-----------------------------------------------------------------------------
THEOREM IInvHolds == Spec => []IInv
<1> QED BY InitInv, NextInv, PTL DEF Spec

(* FDInfoBase: for any process, whatever descriptors it opens, duplicates  *)
(* and closes during and after a scan, no client's time is counted twice   *)
(* until a number that has a stream is reused.                             *)
THEOREM NoClientTwice == Spec => []CountedOnce
<1>1. IInv => CountedOnce
  BY DEF IInv, CountedOnce, OneEach, Filled, Distinct
<1> QED BY <1>1, IInvHolds, PTL

-----------------------------------------------------------------------------
(* Remainders by a divisor that is not a number. *)
LEMMA Unique ==
  ASSUME NEW n \in Int, n > 0, NEW q \in Int, NEW r \in Int, 0 <= r, r < n
  PROVE  (n * q + r) % n = r
  BY Z3

LEMMA Divided ==
  ASSUME NEW n \in Nat \ {0}, NEW x \in Nat
  PROVE  \E q \in Nat, r \in 0 .. n - 1 : x % n = r /\ x = n * q + r /\ r <= x
<1> DEFINE q == x \div n
           r == x % n
<1>1. q \in Int /\ r \in 0 .. n - 1 /\ x = n * q + r
  OBVIOUS
<1>2. q \in Nat
  OBVIOUS
<1> HIDE DEF q, r
<1>3. n * q \in Nat
  BY <1>2
<1>4. x % n = r
  BY DEF r
<1> QED
  BY <1>1, <1>2, <1>3, <1>4

LEMMA Difference ==
  ASSUME NEW n \in Nat \ {0}, NEW p \in Nat, NEW t \in Nat, p <= t
  PROVE  ((n + (t % n)) - (p % n)) % n \in 0 .. t - p
<1>1. PICK q \in Nat, a \in 0 .. n - 1 : t % n = a /\ t = n * q + a
  BY Divided
<1>2. PICK r \in Nat, b \in 0 .. n - 1 : p % n = b /\ p = n * r + b
  BY Divided
<1>3. PICK s \in Nat, d \in 0 .. n - 1 : (t - p) % n = d /\ t - p = n * s + d /\ d <= t - p
  <2> DEFINE x == t - p
  <2>1. x \in Nat
    OBVIOUS
  <2> HIDE DEF x
  <2>2. \E s \in Nat, d \in 0 .. n - 1 : x % n = d /\ x = n * s + d /\ d <= x
    BY <2>1, Divided
  <2> QED
    BY <2>2 DEF x
<1>4. n * (s + r + 1 - q) = n * s + n * r + n - n * q
  OBVIOUS
<1> DEFINE k == s + r + 1 - q
<1>5. k \in Int /\ n * k = n * s + n * r + n - n * q
  BY <1>4
<1> HIDE DEF k
<1>6. n * s \in Int /\ n * r \in Int /\ n * q \in Int /\ n * k \in Int
  BY <1>5
<1>7. n + a - b = n * k + d
  BY <1>1, <1>2, <1>3, <1>5, <1>6
<1>8. (n * k + d) % n = d
  BY <1>5, Unique
<1> QED
  BY <1>1, <1>2, <1>3, <1>7, <1>8

(* Sums over descriptors.  Induction on a set of numbers, then of sets.    *)
LEMMA NumberInduction ==
  ASSUME NEW Good, 0 \in Good, \A n \in Nat : n \in Good => n + 1 \in Good
  PROVE  \A n \in Nat : n \in Good
<1> DEFINE Bad == Nat \ Good
<1> SUFFICES ASSUME Bad # {} PROVE FALSE
  OBVIOUS
<1>1. PICK n \in Bad : \A m \in Bad : ~ (<<m, n>> \in OpToRel(<, Nat))
  <2>1. Bad \in SUBSET Nat
    OBVIOUS
  <2> HIDE DEF Bad
  <2> QED
    BY <2>1, NatLessThanWellFounded, WFMin, Zenon
<1>2. n \in Nat /\ n # 0
  OBVIOUS
<1>3. n - 1 \in Nat /\ n - 1 < n /\ (n - 1) + 1 = n
  BY <1>2
<1>4. n - 1 \in Bad
  BY <1>2, <1>3
<1> QED
  BY <1>1, <1>2, <1>3, <1>4 DEF OpToRel

LEMMA SetInduction ==
  ASSUME NEW Good,
         \A T \in SUBSET Fd : (\A x \in T : T \ {x} \in Good) => T \in Good
  PROVE  \A T \in SUBSET Fd : T \in Good
<1> DEFINE Sizes == {n \in Nat : \A T \in SUBSET Fd : Cardinality(T) = n => T \in Good}
<1>1. \A T \in SUBSET Fd : IsFiniteSet(T) /\ Cardinality(T) \in Nat
  BY NumberAssumption, FS_Subset, FS_CardinalityType
<1>2. 0 \in Sizes
  BY <1>1, FS_EmptySet
<1>3. ASSUME NEW n \in Nat, n \in Sizes PROVE n + 1 \in Sizes
  <2>1. ASSUME NEW T \in SUBSET Fd, Cardinality(T) = n + 1 PROVE T \in Good
    <3>1. ASSUME NEW x \in T PROVE T \ {x} \in Good
      <4>1. Cardinality(T \ {x}) = Cardinality(T) - 1
        BY <1>1, FS_RemoveElement
      <4>2. Cardinality(T \ {x}) = n /\ T \ {x} \in SUBSET Fd
        BY <2>1, <4>1
      <4> QED
        BY <1>3, <4>2
    <3> QED
      BY <3>1
  <2> QED
    BY <2>1
<1>4. \A n \in Nat : n \in Sizes
  <2> HIDE DEF Sizes
  <2> QED
    BY <1>2, <1>3, NumberInduction
<1> QED
  BY <1>1, <1>4

(* The recursion by which Functions!SumFunction is defined ...             *)
Any(T) == CHOOSE x \in T : TRUE
Sums(v, g, n) ==
  \A T \in SUBSET Fd : Cardinality(T) <= n =>
    g[T] = IF T = {} THEN 0 ELSE v[Any(T)] + g[T \ {Any(T)}]
SumOf(v) ==
  CHOOSE g : g = [T \in SUBSET Fd |-> IF T = {} THEN 0 ELSE v[Any(T)] + g[T \ {Any(T)}]]
Sum(v, T) == SumOf(v)[T]

LEMMA SumFunctionIsSum ==
  ASSUME NEW v, DOMAIN v = Fd
  PROVE  SumFunction(v) = Sum(v, Fd)
BY DEF SumFunction, SumFunctionOnSet, FoldFunctionOnSet, MapThenFoldSet, Sum, SumOf, Any

(* ... has a solution: ever larger sets have one.                          *)
LEMMA SumExists ==
  ASSUME NEW v
  PROVE  \E g : g = [T \in SUBSET Fd |-> IF T = {} THEN 0 ELSE v[Any(T)] + g[T \ {Any(T)}]]
<1> DEFINE Step(g) == [T \in SUBSET Fd |-> IF T = {} THEN 0 ELSE v[Any(T)] + g[T \ {Any(T)}]]
           Sizes == {n \in Nat : \E g : Sums(v, g, n)}
<1>1. \A T \in SUBSET Fd : IsFiniteSet(T) /\ Cardinality(T) \in Nat /\ (Cardinality(T) = 0 <=> T = {})
  BY NumberAssumption, FS_Subset, FS_CardinalityType, FS_EmptySet
<1>2. 0 \in Sizes
  <2>1. Sums(v, [T \in SUBSET Fd |-> 0], 0)
    BY <1>1 DEF Sums
  <2> QED
    BY <2>1
<1>3. ASSUME NEW n \in Nat, n \in Sizes PROVE n + 1 \in Sizes
  <2>1. PICK g : Sums(v, g, n)
    BY <1>3
  <2> DEFINE h == Step(g)
  <2>2. ASSUME NEW T \in SUBSET Fd, Cardinality(T) <= n PROVE h[T] = g[T]
    BY <2>1, <2>2 DEF Sums
  <2>3. ASSUME NEW T \in SUBSET Fd, T # {}
        PROVE  /\ T \ {Any(T)} \in SUBSET Fd
               /\ Cardinality(T \ {Any(T)}) = Cardinality(T) - 1
    <3>1. Any(T) \in T
      BY <2>3 DEF Any
    <3> QED
      BY <1>1, <3>1, FS_RemoveElement
  <2>4. Sums(v, h, n + 1)
    <3> SUFFICES ASSUME NEW T \in SUBSET Fd, Cardinality(T) <= n + 1
                 PROVE  h[T] = IF T = {} THEN 0 ELSE v[Any(T)] + h[T \ {Any(T)}]
      BY DEF Sums
    <3>1. CASE T = {}
      BY <3>1
    <3>2. CASE T # {}
      <4>1. h[T] = v[Any(T)] + g[T \ {Any(T)}]
        BY <3>2
      <4>2. Cardinality(T \ {Any(T)}) <= n
        BY <1>1, <2>3, <3>2
      <4>3. h[T \ {Any(T)}] = g[T \ {Any(T)}]
        BY <2>2, <2>3, <3>2, <4>2
      <4> HIDE DEF h
      <4> QED
        BY <3>2, <4>1, <4>3
    <3> QED
      BY <3>1, <3>2
  <2> QED
    BY <2>4
<1>4. \A n \in Nat : n \in Sizes
  <2> HIDE DEF Sizes
  <2> QED
    BY <1>2, <1>3, NumberInduction
<1>5. PICK g : Sums(v, g, Cardinality(Fd))
  BY <1>1, <1>4
<1>6. \A T \in SUBSET Fd : Cardinality(T) <= Cardinality(Fd)
  BY NumberAssumption, FS_Subset
<1>7. \A T \in SUBSET Fd : g[T] = Step(g)[T]
  BY <1>5, <1>6 DEF Sums
<1>8. Step(g) = Step(Step(g))
  <2>1. \A T \in SUBSET Fd : T \ {Any(T)} \in SUBSET Fd
    OBVIOUS
  <2>2. \A T \in SUBSET Fd : g[T \ {Any(T)}] = Step(g)[T \ {Any(T)}]
    BY <1>7, <2>1
  <2> DEFINE h == Step(g)
  <2>3. \A T \in SUBSET Fd : g[T \ {Any(T)}] = h[T \ {Any(T)}]
    BY <2>2
  <2> HIDE DEF h
  <2>4. Step(g) = Step(h)
    BY <2>3
  <2> QED
    BY <2>4 DEF h
<1> QED
  <2> DEFINE h == Step(g)
  <2>1. h = Step(h)
    BY <1>8
  <2> HIDE DEF h
  <2> QED
    BY <2>1

LEMMA SumStep ==
  ASSUME NEW v
  PROVE  /\ Sum(v, {}) = 0
         /\ \A T \in SUBSET Fd : T # {} =>
              \E x \in T : Sum(v, T) = v[x] + Sum(v, T \ {x})
<1> DEFINE g == SumOf(v)
<1>1. g = [T \in SUBSET Fd |-> IF T = {} THEN 0 ELSE v[Any(T)] + g[T \ {Any(T)}]]
  BY SumExists DEF SumOf
<1> HIDE DEF g
<1>2. g[{}] = 0
  BY <1>1
<1>3. ASSUME NEW T \in SUBSET Fd, T # {}
      PROVE  Any(T) \in T /\ g[T] = v[Any(T)] + g[T \ {Any(T)}]
  BY <1>1, <1>3 DEF Any
<1> QED
  BY <1>2, <1>3 DEF Sum, g

LEMMA SumType ==
  ASSUME NEW v \in [Fd -> Nat]
  PROVE  \A T \in SUBSET Fd : Sum(v, T) \in Nat
<1> DEFINE Good == {T \in SUBSET Fd : Sum(v, T) \in Nat}
<1>1. ASSUME NEW T \in SUBSET Fd, \A x \in T : T \ {x} \in Good PROVE T \in Good
  <2>1. CASE T = {}
    BY <2>1, SumStep
  <2>2. CASE T # {}
    <3>1. PICK x \in T : Sum(v, T) = v[x] + Sum(v, T \ {x})
      BY <2>2, SumStep
    <3> QED
      BY <1>1, <3>1
  <2> QED
    BY <2>1, <2>2
<1>2. \A T \in SUBSET Fd : T \in Good
  <2> HIDE DEF Good
  <2> QED
    BY <1>1, SetInduction
<1> QED
  BY <1>2

(* The order does not matter.                                              *)
LEMMA SumRemove ==
  ASSUME NEW v \in [Fd -> Nat]
  PROVE  \A T \in SUBSET Fd : \A x \in T : Sum(v, T) = v[x] + Sum(v, T \ {x})
<1> DEFINE Good == {T \in SUBSET Fd : \A x \in T : Sum(v, T) = v[x] + Sum(v, T \ {x})}
<1>1. ASSUME NEW T \in SUBSET Fd, \A x \in T : T \ {x} \in Good PROVE T \in Good
  <2> SUFFICES ASSUME NEW x \in T PROVE Sum(v, T) = v[x] + Sum(v, T \ {x})
    OBVIOUS
  <2>1. PICK y \in T : Sum(v, T) = v[y] + Sum(v, T \ {y})
    BY SumStep
  <2>2. CASE x = y
    BY <2>1, <2>2
  <2>3. CASE x # y
    <3>1. Sum(v, T \ {y}) = v[x] + Sum(v, (T \ {y}) \ {x})
      BY <1>1, <2>3
    <3>2. Sum(v, T \ {x}) = v[y] + Sum(v, (T \ {x}) \ {y})
      BY <1>1, <2>3
    <3>3. (T \ {y}) \ {x} = (T \ {x}) \ {y} /\ (T \ {y}) \ {x} \in SUBSET Fd
      OBVIOUS
    <3>4. Sum(v, (T \ {y}) \ {x}) \in Nat /\ v[x] \in Nat /\ v[y] \in Nat
      BY <3>3, SumType
    <3> QED
      BY <2>1, <3>1, <3>2, <3>3, <3>4
  <2> QED
    BY <2>2, <2>3
<1>2. \A T \in SUBSET Fd : T \in Good
  <2> HIDE DEF Good
  <2> QED
    BY <1>1, SetInduction
<1> QED
  BY <1>2

(* A sum over more, of no less, is no less.                                *)
LEMMA SumMonotone ==
  ASSUME NEW v \in [Fd -> Nat], NEW w \in [Fd -> Nat]
  PROVE  \A T \in SUBSET Fd : (\A x \in T : v[x] <= w[x]) => Sum(v, T) <= Sum(w, T)
<1> DEFINE Good == {T \in SUBSET Fd : (\A x \in T : v[x] <= w[x]) => Sum(v, T) <= Sum(w, T)}
<1>1. ASSUME NEW T \in SUBSET Fd, \A x \in T : T \ {x} \in Good PROVE T \in Good
  <2> SUFFICES ASSUME \A x \in T : v[x] <= w[x] PROVE Sum(v, T) <= Sum(w, T)
    OBVIOUS
  <2>1. CASE T = {}
    BY <2>1, SumStep
  <2>2. CASE T # {}
    <3>1. PICK x \in T : TRUE
      BY <2>2
    <3>2. Sum(v, T \ {x}) <= Sum(w, T \ {x})
      BY <1>1
    <3>3. /\ Sum(v, T) = v[x] + Sum(v, T \ {x}) /\ Sum(w, T) = w[x] + Sum(w, T \ {x})
          /\ v[x] \in Nat /\ w[x] \in Nat /\ v[x] <= w[x]
      BY SumRemove
    <3>4. Sum(v, T \ {x}) \in Nat /\ Sum(w, T \ {x}) \in Nat
      BY SumType
    <3> QED
      BY <3>2, <3>3, <3>4
  <2> QED
    BY <2>1, <2>2
<1>2. \A T \in SUBSET Fd : T \in Good
  <2> HIDE DEF Good
  <2> QED
    BY <1>1, SetInduction
<1> QED
  BY <1>2

LEMMA SumEqual ==
  ASSUME NEW v \in [Fd -> Nat], NEW w \in [Fd -> Nat], NEW T \in SUBSET Fd,
         \A x \in T : v[x] = w[x]
  PROVE  Sum(v, T) = Sum(w, T)
<1>1. Sum(v, T) <= Sum(w, T) /\ Sum(w, T) <= Sum(v, T)
  BY SumMonotone
<1> QED
  BY <1>1, SumType

LEMMA SumZero ==
  ASSUME NEW v \in [Fd -> Nat], NEW T \in SUBSET Fd, \A x \in T : v[x] = 0
  PROVE  Sum(v, T) = 0
<1> DEFINE Good == {U \in SUBSET Fd : (\A x \in U : v[x] = 0) => Sum(v, U) = 0}
<1>1. ASSUME NEW U \in SUBSET Fd, \A x \in U : U \ {x} \in Good PROVE U \in Good
  <2>1. CASE U = {}
    BY <2>1, SumStep
  <2>2. CASE U # {}
    <3>1. PICK x \in U : Sum(v, U) = v[x] + Sum(v, U \ {x})
      BY <2>2, SumStep
    <3> QED
      BY <1>1, <3>1
  <2> QED
    BY <2>1, <2>2
<1>2. \A U \in SUBSET Fd : U \in Good
  <2> HIDE DEF Good
  <2> QED
    BY <1>1, SetInduction
<1> QED
  BY <1>2

(* One entry changes.                                                      *)
LEMMA SumChange ==
  ASSUME NEW v \in [Fd -> Nat], NEW w \in [Fd -> Nat], NEW T \in SUBSET Fd, NEW f \in Fd,
         \A x \in T : x # f => v[x] = w[x]
  PROVE  /\ f \in T => Sum(w, T) + v[f] = Sum(v, T) + w[f]
         /\ f \notin T => Sum(w, T) = Sum(v, T)
<1>1. Sum(v, T \ {f}) = Sum(w, T \ {f})
  BY SumEqual
<1>2. Sum(v, T \ {f}) \in Nat /\ v[f] \in Nat /\ w[f] \in Nat
  BY SumType
<1>3. CASE f \in T
  BY <1>1, <1>2, <1>3, SumRemove
<1>4. CASE f \notin T
  BY <1>1, <1>4
<1> QED
  BY <1>3, <1>4

LEMMA SumPart ==
  ASSUME NEW v \in [Fd -> Nat], NEW S \in SUBSET Fd
  PROVE  Sum(v, S) <= Sum(v, Fd)
<1> DEFINE Good == {T \in SUBSET Fd : Sum(v, T \cap S) <= Sum(v, T)}
<1>1. ASSUME NEW T \in SUBSET Fd, \A x \in T : T \ {x} \in Good PROVE T \in Good
  <2>1. Sum(v, T) \in Nat /\ Sum(v, T \cap S) \in Nat
    BY SumType
  <2>2. CASE T \subseteq S
    <3>1. T \cap S = T
      BY <2>2
    <3> QED
      BY <2>1, <3>1
  <2>3. CASE ~ (T \subseteq S)
    <3>1. PICK x \in T : x \notin S
      BY <2>3
    <3>2. (T \ {x}) \cap S = T \cap S
      BY <3>1
    <3>3. Sum(v, T) = v[x] + Sum(v, T \ {x}) /\ v[x] \in Nat
      BY SumRemove
    <3>4. Sum(v, T \cap S) <= Sum(v, T \ {x}) /\ Sum(v, T \ {x}) \in Nat
      BY <1>1, <3>2, SumType
    <3> QED
      BY <2>1, <3>3, <3>4
  <2> QED
    BY <2>2, <2>3
<1>2. \A T \in SUBSET Fd : T \in Good
  <2> HIDE DEF Good
  <2> QED
    BY <1>1, SetInduction
<1>3. Fd \cap S = S
  OBVIOUS
<1> QED
  BY <1>2, <1>3

-----------------------------------------------------------------------------
(* The sum of the engine times, and with it the load, has its type.        *)
LEMMA UsedType ==
  ASSUME Types
  PROVE  /\ used \in [Fd -> Nat]
         /\ gpu_time = Sum(used, Fd) % Modulus
         /\ Sum(used, Fd) \in Nat /\ gpu_time \in 0 .. Modulus - 1
<1>1. \A f \in Filled : data[f][2] \in Nat
  BY DEF Types, Contents, Filled
<1>2. used \in [Fd -> Nat]
  BY <1>1 DEF used
<1>3. SumFunction(used) = Sum(used, Fd)
  BY SumFunctionIsSum DEF used
<1>4. Sum(used, Fd) \in Nat
  BY <1>2, SumType
<1> DEFINE t == Sum(used, Fd)
<1>5. gpu_time = t % Modulus
  BY <1>3 DEF gpu_time
<1>6. t \in Nat
  BY <1>4
<1> HIDE DEF t
<1>7. t % Modulus \in 0 .. Modulus - 1
  BY <1>6, NumberAssumption
<1> QED
  BY <1>2, <1>4, <1>5, <1>7 DEF t

LEMMA SampleType ==
  ASSUME TypeOK, Types, Sample
  PROVE  load' \in 0 .. Interval /\ previous' \in 0 .. Modulus - 1
<1> DEFINE t == Modulus + gpu_time - previous
           delta == t % Modulus
<1>1. gpu_time \in 0 .. Modulus - 1
  BY UsedType
<1>2. t \in Nat
  BY <1>1, NumberAssumption DEF TypeOK
<1>3. load' = IF previous = 0 THEN 0 ELSE IF delta > Interval THEN Interval ELSE delta
  BY DEF Sample
<1> HIDE DEF t
<1>4. delta \in Nat
  BY <1>2, NumberAssumption
<1> HIDE DEF delta
<1>5. load' \in 0 .. Interval
  BY <1>3, <1>4, NumberAssumption
<1> QED
  BY <1>1, <1>5 DEF Sample

LEMMA TypeInit == Init => TypeOK
<1> SUFFICES ASSUME Init PROVE TypeOK
  OBVIOUS
<1>1. data \in [Fd -> (Client \X Nat) \cup {None}] /\ time \in [Client -> Nat]
  BY DEF Init, NoData
<1>2. /\ age \in 0 .. Rescan /\ previous \in 0 .. Modulus - 1 /\ load \in 0 .. Interval
      /\ ran \in Nat \X Nat
  BY NumberAssumption DEF Init
<1> QED
  BY <1>1, <1>2 DEF Init, TypeOK

LEMMA TypeNext == TypeOK /\ Types /\ Types' /\ [Next]_vars => TypeOK'
<1> SUFFICES ASSUME TypeOK, Types, Types', [Next]_vars PROVE TypeOK'
  OBVIOUS
<1> USE DEF procVars, scanVars
<1>1. ASSUME NEW f \in Fd, NEW c \in Client, Open(f, c) PROVE TypeOK'
  BY <1>1 DEF TypeOK, Types, Contents, Open
<1>2. ASSUME NEW f \in Fd, Close(f) PROVE TypeOK'
  <2>1. gone' \subseteq Client
    BY <1>2 DEF TypeOK, Close
  <2> QED
    BY <1>2, <2>1 DEF TypeOK, Types, Contents, Close
<1>3. ASSUME NEW c \in Client, Run(c) PROVE TypeOK'
  <2>1. ran' \in Nat \X Nat
    BY <1>3 DEF TypeOK, Run
  <2> QED
    BY <1>3, <2>1 DEF TypeOK, Types, Contents, Run
<1>4. CASE Exit
  <2>1. gone' \subseteq Client
    BY <1>4 DEF TypeOK, Exit
  <2> QED
    BY <1>4, <2>1 DEF TypeOK, Types, Contents, Exit
<1>5. CASE PollAll
  <2>1. ran' \in Nat \X Nat
    BY <1>5 DEF TypeOK, PollAll
  <2>2. age' \in 0 .. Rescan
    <3>1. age' \in {age, age + 1} /\ (age' # age => age + 1 < Rescan)
      BY <1>5 DEF PollAll
    <3> QED
      BY <3>1, NumberAssumption DEF TypeOK
  <2>3. /\ pc' \in {"erased", "exists", "read"} /\ rescanned' \in {rescanned, TRUE, FALSE}
        /\ todo' \in {todo, streams}
    BY <1>5 DEF PollAll
  <2> QED
    BY <1>5, <2>1, <2>2, <2>3 DEF TypeOK, Types, Contents, PollAll
<1>6. CASE FindDir
  BY <1>6 DEF TypeOK, Types, Contents, FindDir
<1>7. CASE FindFds
  BY <1>7 DEF TypeOK, Types, Contents, FindFds
<1>8. CASE Clear
  BY <1>8 DEF TypeOK, Types, Contents, Clear
<1>9. CASE EndInit
  <2>1. age' \in 0 .. Rescan /\ todo' \subseteq Fd /\ pc' \in {"read", "asleep"}
    BY <1>9, NumberAssumption DEF TypeOK, EndInit
  <2> QED
    BY <1>9, <2>1 DEF TypeOK, Types, Contents, EndInit
<1>10. CASE Sample
  BY <1>10, SampleType DEF TypeOK, Types, Contents, Sample
<1>11. ASSUME NEW f \in Fd, OpenFd(f) PROVE TypeOK'
  BY <1>11 DEF TypeOK, Types, Contents, OpenFd
<1>12. ASSUME NEW f \in Fd, Read(f) PROVE TypeOK'
  BY <1>12 DEF TypeOK, Types, Contents, Read
<1>13. CASE UNCHANGED vars
  BY <1>13 DEF TypeOK, Types, Contents, vars
<1> QED
  BY <1>1, <1>2, <1>3, <1>4, <1>5, <1>6, <1>7, <1>8, <1>9, <1>10, <1>11, <1>12, <1>13
  DEF Next, Process, Poll

(* FDInfoBase: every variable keeps its type; the load that is shown never *)
(* exceeds 100, whatever the difference of the unsigned times.             *)
THEOREM FDInfoTypeCorrect == Spec => []TypeOK
<1>1. IInv => Types
  BY DEF IInv
<1> QED
  BY <1>1, TypeInit, TypeNext, IInvHolds, PTL DEF Spec

-----------------------------------------------------------------------------
(* HonestBetweenScans.  What was read of a client is not ahead of it ...   *)
NotAhead == \A f \in Fd : data[f] # None => data[f][2] <= time[data[f][1]]

(* ... the constructor takes no sample; a poll that scans is marked ...    *)
Scanning ==
  /\ pc \in {"exists", "iterate", "clear", "open"} => rescanned
  /\ pc \in {"asleep", "read"} => polling
  /\ ~polling => previous = 0

(* ... and the time that a client has used since it was read last, ...     *)
lag == [f \in Fd |-> IF f \in Filled /\ client[f] # None
                     THEN time[client[f]] - data[f][2] ELSE 0]

(* ... which will enter the sum when it is read again, has been used since *)
(* this poll or the one before began.                                      *)
AllFilled(S) == \A f \in S : client[f] # None => data[f] # None

Asleep ==
  pc = "asleep" =>
    /\ previous = Sum(used, Fd) % Modulus
    /\ Sum(lag, Fd) <= ran[1]
    /\ ~rescanned => load <= ran[1] + ran[2]
    /\ previous # 0 => AllFilled(streams)

(* During a poll, time of the streams that were read has been used since   *)
(* it began; what the others will add, with what was added already, in the *)
(* two intervals.                                                          *)
Base(p) ==
  /\ previous = p % Modulus
  /\ p <= Sum(used, Fd)
  /\ Sum(used, Fd) + Sum(lag, todo) <= p + ran[1] + ran[2]

Reading ==
  pc = "read" =>
    /\ AllFilled(streams \ todo)
    /\ Sum(lag, Fd \ todo) <= ran[1]
    /\ ~rescanned /\ previous # 0 => AllFilled(streams) /\ \E p \in Nat : Base(p)

Sound == TypeOK /\ IInv /\ NotAhead /\ Scanning
HonestInv == Sound /\ (~reused => Asleep /\ Reading)

LEMMA LagType == Sound /\ ~reused => lag \in [Fd -> Nat]
<1> SUFFICES ASSUME Sound, ~reused, NEW f \in Fd, f \in Filled, client[f] # None
             PROVE  time[client[f]] - data[f][2] \in Nat
  BY DEF lag
<1>1. client[f] = data[f][1] /\ client[f] \in Client
  BY DEF Sound, IInv, Types, SameClient, Filled
<1>2. data[f] \in Client \X Nat /\ time[client[f]] \in Nat
  BY <1>1 DEF Sound, IInv, Types, Contents, Filled
<1>3. data[f][2] <= time[client[f]]
  BY <1>1 DEF Sound, NotAhead, Filled
<1> QED
  BY <1>2, <1>3

LEMMA SoundInit == Init => Sound
<1> SUFFICES ASSUME Init PROVE Sound
  OBVIOUS
<1>1. NotAhead /\ Scanning
  BY DEF Init, NoData, NotAhead, Scanning
<1> QED
  BY <1>1, TypeInit, InitInv DEF Sound

LEMMA SoundNext == Sound /\ [Next]_vars => Sound'
<1> SUFFICES ASSUME Sound, [Next]_vars PROVE Sound'
  OBVIOUS
<1>a. IInv'
  BY NextInv DEF Sound
<1>b. TypeOK'
  <2>1. Types /\ Types'
    BY <1>a DEF Sound, IInv
  <2> QED
    BY <2>1, TypeNext DEF Sound
<1> SUFFICES NotAhead' /\ Scanning'
  BY <1>a, <1>b DEF Sound
<1> USE DEF procVars, scanVars
<1>1. ASSUME NEW f \in Fd, NEW c \in Client, Open(f, c) PROVE NotAhead' /\ Scanning'
  BY <1>1 DEF Sound, NotAhead, Scanning, Open
<1>2. ASSUME NEW f \in Fd, Close(f) PROVE NotAhead' /\ Scanning'
  BY <1>2 DEF Sound, NotAhead, Scanning, Close
<1>3. ASSUME NEW c \in Client, Run(c) PROVE NotAhead' /\ Scanning'
  <2>1. ASSUME NEW f \in Fd, data[f] # None PROVE data[f][2] <= time'[data[f][1]]
    <3>1. data[f] \in Client \X Nat
      BY <2>1 DEF Sound, IInv, Types, Contents
    <3>2. time[data[f][1]] \in Nat /\ time'[data[f][1]] \in {time[data[f][1]], time[data[f][1]] + 1}
      BY <1>3, <3>1 DEF Sound, IInv, Types, Run
    <3>3. data[f][2] <= time[data[f][1]]
      BY <2>1 DEF Sound, NotAhead
    <3> QED
      BY <3>1, <3>2, <3>3
  <2> QED
    BY <1>3, <2>1 DEF Sound, NotAhead, Scanning, Run
<1>4. CASE Exit
  BY <1>4 DEF Sound, NotAhead, Scanning, Exit
<1>5. CASE PollAll
  BY <1>5 DEF Sound, NotAhead, Scanning, PollAll
<1>6. CASE FindDir
  BY <1>6 DEF Sound, NotAhead, Scanning, FindDir
<1>7. CASE FindFds
  BY <1>7 DEF Sound, NotAhead, Scanning, FindFds
<1>8. CASE Clear
  BY <1>8 DEF Sound, NotAhead, Scanning, Clear, NoData
<1>9. CASE EndInit
  BY <1>9 DEF Sound, NotAhead, Scanning, EndInit
<1>10. CASE Sample
  <2>1. NotAhead'
    BY <1>10 DEF Sound, NotAhead, Sample
  <2> QED
    BY <1>10, <2>1 DEF Sound, Scanning, Sample
<1>11. ASSUME NEW f \in Fd, OpenFd(f) PROVE NotAhead' /\ Scanning'
  BY <1>11 DEF Sound, NotAhead, Scanning, OpenFd
<1>12. ASSUME NEW f \in Fd, Read(f) PROVE NotAhead' /\ Scanning'
  <2>1. \A g \in Fd : data'[g] = data[g] \/ (data'[g][1] = client[f] /\ data'[g][2] = time[client[f]])
    BY <1>12 DEF Sound, IInv, Types, Read
  <2>2. client[f] # None => time[client[f]] \in Nat
    BY DEF Sound, IInv, Types
  <2> QED
    BY <1>12, <2>1, <2>2 DEF Sound, NotAhead, Scanning, Read
<1>13. CASE UNCHANGED vars
  BY <1>13 DEF Sound, NotAhead, Scanning, vars
<1> QED
  BY <1>1, <1>2, <1>3, <1>4, <1>5, <1>6, <1>7, <1>8, <1>9, <1>10, <1>11, <1>12, <1>13
  DEF Next, Process, Poll

LEMMA LagTypeNext == (Sound /\ ~reused => lag \in [Fd -> Nat])'
BY LagType, PTL

LEMMA UsedTypeNow == Sound => used \in [Fd -> Nat] /\ Sum(used, Fd) \in Nat
BY UsedType DEF Sound, IInv

LEMMA UsedTypeNext == (Sound => used \in [Fd -> Nat] /\ Sum(used, Fd) \in Nat)'
BY UsedTypeNow, PTL

(* A step by which no lag grows: Open, Close, Exit and stuttering.         *)
LEMMA NoLagGrows ==
  ASSUME HonestInv, Sound', ~reused, ~reused', \A f \in Fd : lag'[f] <= lag[f],
         \A f \in streams : client'[f] # None => client[f] # None,
         UNCHANGED <<pc, todo, data, streams, previous, load, rescanned, ran>>
  PROVE  Asleep' /\ Reading'
<1>1. used' = used
  BY DEF used, Filled
<1>2. lag \in [Fd -> Nat] /\ lag' \in [Fd -> Nat]
  BY LagType, LagTypeNext DEF HonestInv
<1>3. \A T \in SUBSET Fd : Sum(lag', T) <= Sum(lag, T)
  BY <1>2, SumMonotone
<1>4. \A T \in SUBSET Fd : Sum(lag', T) \in Nat /\ Sum(lag, T) \in Nat
  BY <1>2, SumType
<1>5. \A S \in SUBSET streams : AllFilled(S) => AllFilled(S)'
  BY DEF AllFilled
<1>6. Sum(used, Fd) \in Nat /\ ran[1] \in Nat /\ ran[2] \in Nat /\ todo \in SUBSET Fd
  BY UsedTypeNow DEF HonestInv, Sound, TypeOK
<1>7. Asleep'
  <2> SUFFICES ASSUME pc = "asleep" PROVE Asleep'
    BY DEF Asleep
  <2>1. Asleep
    BY DEF HonestInv
  <2>2. Sum(lag', Fd) <= ran[1]
    <3>1. Sum(lag, Fd) <= ran[1]
      BY <2>1 DEF Asleep
    <3> QED
      BY <1>3, <1>4, <1>6, <3>1
  <2> QED
    BY <1>1, <1>5, <2>1, <2>2 DEF Asleep
<1>8. Reading'
  <2> SUFFICES ASSUME pc = "read" PROVE Reading'
    BY DEF Reading
  <2>1. Reading
    BY DEF HonestInv
  <2>2. AllFilled(streams \ todo)'
    BY <1>5, <2>1 DEF Reading
  <2>3. Sum(lag', Fd \ todo) <= ran[1]
    <3>1. Sum(lag, Fd \ todo) <= ran[1]
      BY <2>1 DEF Reading
    <3> QED
      BY <1>3, <1>4, <1>6, <3>1
  <2>4. ASSUME NEW p \in Nat, Base(p) PROVE Base(p)'
    <3>1. Sum(lag', todo) <= Sum(lag, todo) /\ Sum(lag, todo) \in Nat /\ Sum(lag', todo) \in Nat
      BY <1>3, <1>4, <1>6
    <3> QED
      BY <1>1, <1>6, <2>4, <3>1 DEF Base
  <2>5. ASSUME ~rescanned, previous # 0
        PROVE  AllFilled(streams)' /\ \E p \in Nat : Base(p)'
    BY <1>5, <2>1, <2>4, <2>5 DEF Reading
  <2> QED
    BY <2>2, <2>3, <2>5 DEF Reading
<1> QED
  BY <1>7, <1>8

LEMMA HonestOpen ==
  ASSUME HonestInv, Sound', ~reused', NEW f \in Fd, NEW c \in Client, Open(f, c)
  PROVE  Asleep' /\ Reading'
<1>1. ~reused /\ f \notin streams
  BY DEF HonestInv, Sound, TypeOK, Open
<1>2. \A g \in streams : client'[g] = client[g]
  BY <1>1 DEF HonestInv, Sound, TypeOK, Open
<1>3. lag' = lag
  BY <1>2 DEF lag, Filled, Open
<1>4. lag \in [Fd -> Nat]
  BY <1>1, LagType DEF HonestInv
<1>5. \A g \in Fd : lag'[g] <= lag[g]
  BY <1>3, <1>4
<1> QED
  BY <1>1, <1>2, <1>5, NoLagGrows DEF Open

LEMMA HonestForget ==
  ASSUME HonestInv, Sound', ~reused', \A f \in Fd : client'[f] \in {client[f], None},
         UNCHANGED <<time, pc, todo, data, streams, previous, load, rescanned, reused, ran>>
  PROVE  Asleep' /\ Reading'
<1>1. lag \in [Fd -> Nat]
  BY LagType DEF HonestInv
<1>2. ASSUME NEW f \in Fd PROVE lag'[f] = lag[f] \/ lag'[f] = 0
  BY <1>2 DEF lag, Filled
<1>3. \A f \in Fd : lag'[f] <= lag[f]
  BY <1>1, <1>2
<1>4. \A f \in streams : client'[f] # None => client[f] # None
  BY DEF HonestInv, Sound, TypeOK
<1> QED
  BY <1>3, <1>4, NoLagGrows

(* At most one stream is of the client that runs.                          *)
LEMMA RunLag ==
  ASSUME Sound, Sound', ~reused, ~reused', NEW c \in Client, Run(c)
  PROVE  \A T \in SUBSET Fd : /\ Sum(lag', T) \in Nat /\ Sum(lag, T) \in Nat
                              /\ Sum(lag', T) <= Sum(lag, T) + 1
<1>1. lag \in [Fd -> Nat] /\ lag' \in [Fd -> Nat]
  BY LagType, LagTypeNext
<1>2. \A T \in SUBSET Fd : Sum(lag', T) \in Nat /\ Sum(lag, T) \in Nat
  BY <1>1, SumType
<1>3. \A f \in Fd : client[f] # c => lag'[f] = lag[f]
  <2>1. \A d \in Client : d # c => time'[d] = time[d]
    BY DEF Run, Sound, TypeOK
  <2>2. \A f \in Fd : client[f] # None => client[f] \in Client
    BY DEF Sound, TypeOK
  <2> QED
    BY <2>1, <2>2 DEF lag, Filled, Run, scanVars
<1>4. \A f \in Fd : f \notin Filled => lag'[f] = lag[f]
  BY DEF lag, Filled, Run, scanVars
<1>5. CASE \E f \in Filled : client[f] = c
  <2>1. PICK f \in Filled : client[f] = c
    BY <1>5
  <2>2. f \in Fd
    BY DEF Sound, TypeOK, Filled
  <2>3. \A g \in Fd : g # f => lag'[g] = lag[g]
    <3>1. \A g \in Filled : g # f => client[g] # c
      BY <2>1, NoneIsNoClient DEF Sound, IInv, Distinct, Filled
    <3> QED
      BY <1>3, <1>4, <3>1
  <2>4. lag'[f] <= lag[f] + 1
    <3>1. time'[c] = time[c] + 1 /\ time[c] \in Nat
      BY DEF Run, Sound, TypeOK
    <3>2. data[f][2] \in Nat
      <4>1. data[f] \in Client \X Nat
        BY DEF Sound, TypeOK, Filled
      <4> QED
        BY <4>1
    <3>3. f \in Filled' /\ client'[f] = c /\ data' = data /\ c # None
      BY <2>1, NoneIsNoClient DEF Run, Filled, scanVars
    <3>4. lag[f] = time[c] - data[f][2] /\ lag'[f] = time'[c] - data[f][2]
      BY <2>1, <2>2, <3>3 DEF lag
    <3> QED
      BY <3>1, <3>2, <3>4
  <2>5. ASSUME NEW T \in SUBSET Fd PROVE Sum(lag', T) <= Sum(lag, T) + 1
    <3>1. /\ f \in T => Sum(lag', T) + lag[f] = Sum(lag, T) + lag'[f]
          /\ f \notin T => Sum(lag', T) = Sum(lag, T)
      BY <1>1, <2>2, <2>3, SumChange
    <3>2. lag[f] \in Nat /\ lag'[f] \in Nat
      BY <1>1, <2>2
    <3>3. Sum(lag', T) \in Nat /\ Sum(lag, T) \in Nat
      BY <1>2
    <3> QED
      BY <2>4, <3>1, <3>2, <3>3
  <2> QED
    BY <1>2, <2>5
<1>6. CASE \A f \in Filled : client[f] # c
  <2>1. \A f \in Fd : lag'[f] = lag[f]
    BY <1>3, <1>4, <1>6
  <2>2. \A T \in SUBSET Fd : Sum(lag', T) = Sum(lag, T)
    BY <1>1, <2>1, SumEqual
  <2> QED
    BY <1>2, <2>2
<1> QED
  BY <1>5, <1>6

LEMMA HonestRun ==
  ASSUME HonestInv, Sound', ~reused', NEW c \in Client, Run(c)
  PROVE  Asleep' /\ Reading'
<1>1. UNCHANGED <<pc, todo, data, streams, previous, load, rescanned, reused, client>>
  BY DEF Run, scanVars
<1>2. used' = used /\ \A S \in SUBSET streams : AllFilled(S) => AllFilled(S)'
  BY <1>1 DEF used, Filled, AllFilled
<1>3. \A T \in SUBSET Fd : /\ Sum(lag', T) \in Nat /\ Sum(lag, T) \in Nat
                           /\ Sum(lag', T) <= Sum(lag, T) + 1
  BY <1>1, RunLag DEF HonestInv
<1>4. Sum(used, Fd) \in Nat /\ ran[1] \in Nat /\ ran[2] \in Nat /\ todo \in SUBSET Fd
  BY UsedTypeNow DEF HonestInv, Sound, TypeOK
<1>5. ran'[1] = ran[1] + 1 /\ ran'[2] = ran[2]
  BY DEF Run
<1>6. Asleep'
  <2> SUFFICES ASSUME pc = "asleep" PROVE Asleep'
    BY <1>1 DEF Asleep
  <2>1. Asleep
    BY <1>1 DEF HonestInv
  <2>2. Sum(lag', Fd) <= ran'[1]
    <3>1. Sum(lag, Fd) <= ran[1]
      BY <2>1 DEF Asleep
    <3> QED
      BY <1>3, <1>4, <1>5, <3>1
  <2>3. ~rescanned => load' <= ran'[1] + ran'[2]
    <3>1. load \in Nat
      BY NumberAssumption DEF HonestInv, Sound, TypeOK
    <3> QED
      BY <1>1, <1>4, <1>5, <2>1, <3>1 DEF Asleep
  <2> QED
    BY <1>1, <1>2, <2>1, <2>2, <2>3 DEF Asleep
<1>7. Reading'
  <2> SUFFICES ASSUME pc = "read" PROVE Reading'
    BY <1>1 DEF Reading
  <2>1. Reading
    BY <1>1 DEF HonestInv
  <2>2. AllFilled(streams \ todo)'
    BY <1>1, <1>2, <2>1 DEF Reading
  <2>3. Sum(lag', Fd \ todo) <= ran'[1]
    <3>1. Sum(lag, Fd \ todo) <= ran[1]
      BY <2>1 DEF Reading
    <3> QED
      BY <1>3, <1>4, <1>5, <3>1
  <2>4. ASSUME NEW p \in Nat, Base(p) PROVE Base(p)'
    <3>1. Sum(lag', todo) <= Sum(lag, todo) + 1 /\ Sum(lag, todo) \in Nat /\ Sum(lag', todo) \in Nat
      BY <1>3, <1>4
    <3> QED
      BY <1>1, <1>2, <1>4, <1>5, <2>4, <3>1 DEF Base
  <2>5. ASSUME ~rescanned, previous # 0
        PROVE  AllFilled(streams)' /\ \E p \in Nat : Base(p)'
    BY <1>1, <1>2, <2>1, <2>4, <2>5 DEF Reading
  <2> QED
    BY <1>1, <2>2, <2>3, <2>5 DEF Reading
<1> QED
  BY <1>6, <1>7

(* A poll without a scan begins: the base is the sum as it is.             *)
LEMMA HonestPollAll ==
  ASSUME HonestInv, Sound', ~reused', PollAll
  PROVE  Asleep' /\ Reading'
<1>1. /\ UNCHANGED <<client, time, data, streams, previous, load, reused>>
      /\ pc = "asleep" /\ pc' # "asleep" /\ ran' = <<0, ran[1]>>
      /\ pc' = "read" => todo' = streams
  BY DEF PollAll, procVars
<1>2. used' = used /\ lag' = lag
  BY <1>1 DEF used, lag, Filled
<1>3. lag \in [Fd -> Nat] /\ Asleep
  BY <1>1, LagType DEF HonestInv
<1>4. ran[1] \in Nat /\ ran'[1] = 0 /\ ran'[2] = ran[1] /\ streams \in SUBSET Fd
  BY <1>1 DEF HonestInv, Sound, TypeOK
<1>5. ASSUME pc' = "read" PROVE Reading'
  <2>1. AllFilled(streams \ todo)'
    BY <1>1, <1>5 DEF AllFilled
  <2>2. Sum(lag, Fd \ streams) = 0
    <3>1. \A f \in Fd \ streams : lag[f] = 0
      BY DEF lag, Filled
    <3> QED
      BY <1>3, <3>1, SumZero
  <2>3. Sum(lag', Fd \ todo') <= ran'[1]
    BY <1>1, <1>2, <1>4, <1>5, <2>2
  <2>4. ASSUME previous # 0
        PROVE  AllFilled(streams)' /\ \E p \in Nat : Base(p)'
    <3>1. AllFilled(streams)'
      BY <1>1, <1>3, <2>4 DEF Asleep, AllFilled
    <3>2. PICK p \in Nat : p = Sum(used, Fd)
      BY UsedTypeNow DEF HonestInv
    <3>3. previous' = p % Modulus /\ p <= Sum(used', Fd)
      BY <1>1, <1>2, <1>3, <3>2 DEF Asleep
    <3>4. Sum(used', Fd) + Sum(lag', todo') <= p + ran'[1] + ran'[2]
      <4>1. Sum(lag, streams) <= Sum(lag, Fd) /\ Sum(lag, Fd) <= ran[1]
        BY <1>1, <1>3, <1>4, SumPart DEF Asleep
      <4>2. Sum(lag, streams) \in Nat /\ Sum(lag, Fd) \in Nat
        BY <1>3, <1>4, SumType
      <4>3. Sum(used', Fd) = p
        BY <1>2, <3>2
      <4> QED
        BY <1>1, <1>2, <1>4, <1>5, <3>2, <4>1, <4>2, <4>3
    <3>5. Base(p)'
      BY <3>3, <3>4 DEF Base
    <3> QED
      BY <3>1, <3>2, <3>5
  <2> QED
    BY <1>1, <2>1, <2>3, <2>4 DEF Reading
<1> QED
  BY <1>1, <1>5 DEF Asleep, Reading

(* A scan ends: nothing has been read yet.                                 *)
LEMMA HonestEndInit ==
  ASSUME HonestInv, Sound', ~reused', EndInit
  PROVE  Asleep' /\ Reading'
<1>1. /\ UNCHANGED <<client, time, data, streams, previous, load, rescanned, reused, ran>>
      /\ pc = "open" /\ rescanned /\ data = NoData
      /\ (pc' = "asleep" /\ previous = 0) \/ (pc' = "read" /\ todo' = streams)
  <2>1. pc = "open" /\ rescanned /\ data = NoData
    BY DEF EndInit, HonestInv, Sound, IInv, Opening, Scanning
  <2>2. (pc' = "asleep" /\ previous = 0) \/ (pc' = "read" /\ todo' = streams)
    BY DEF EndInit, HonestInv, Sound, Scanning
  <2> QED
    BY <2>1, <2>2 DEF EndInit, procVars
<1>2. used' = used /\ lag' = lag
  BY <1>1 DEF used, lag, Filled
<1>3. (\A f \in Fd : lag[f] = 0) /\ (\A f \in Fd : used[f] = 0)
  BY <1>1 DEF lag, used, Filled, NoData
<1>4. lag \in [Fd -> Nat] /\ used \in [Fd -> Nat]
  BY <1>1, LagType, UsedTypeNow DEF HonestInv
<1>5. Sum(used, Fd) = 0 /\ \A T \in SUBSET Fd : Sum(lag, T) = 0
  BY <1>3, <1>4, SumZero
<1>6. ran[1] \in Nat /\ Modulus \in Nat \ {0}
  BY NumberAssumption DEF HonestInv, Sound, TypeOK
<1>7. 0 % Modulus = 0
  BY <1>6
<1>8. CASE pc' = "asleep" /\ previous = 0
  BY <1>1, <1>2, <1>5, <1>6, <1>7, <1>8 DEF Asleep, Reading
<1>9. CASE pc' = "read" /\ todo' = streams
  BY <1>1, <1>2, <1>5, <1>6, <1>9 DEF Asleep, Reading, AllFilled
<1> QED
  BY <1>1, <1>8, <1>9

(* A stream is read: its lag goes into the sum.                            *)
LEMMA ReadLag ==
  ASSUME HonestInv, Sound', ~reused, NEW f \in Fd, Read(f)
  PROVE  /\ lag'[f] = 0 /\ \A g \in Fd : g # f => lag'[g] = lag[g]
         /\ \A g \in Fd : g # f => used'[g] = used[g]
         /\ (f \in streams /\ client[f] # None => data[f] # None) =>
              used'[f] = used[f] + lag[f]
<1>1. UNCHANGED <<client, time, streams>>
  BY DEF Read, procVars, scanVars
<1>2. \A g \in Fd : g # f => data'[g] = data[g]
  BY DEF Read, HonestInv, Sound, TypeOK
<1>3. \A g \in Fd : g # f => lag'[g] = lag[g] /\ used'[g] = used[g]
  BY <1>1, <1>2 DEF lag, used, Filled
<1>4. CASE f \notin streams
  BY <1>1, <1>3, <1>4 DEF lag, used, Filled
<1>5. CASE f \in streams /\ client[f] = None
  <2>1. data' = data
    BY <1>5 DEF Read
  <2>2. used[f] \in Nat
    BY UsedTypeNow DEF HonestInv
  <2>3. used' = used
    BY <1>1, <2>1 DEF used, Filled
  <2>4. lag[f] = 0 /\ lag'[f] = 0
    BY <1>1, <1>5 DEF lag
  <2> QED
    BY <1>3, <2>2, <2>3, <2>4
<1>6. CASE f \in streams /\ client[f] # None
  <2> DEFINE t == time[client[f]]
  <2>1. t \in Nat /\ <<client[f], t>> # None
    BY <1>6, NoneIsNoClient DEF HonestInv, Sound, TypeOK
  <2>2. data'[f] = <<client[f], t>>
    BY <1>6 DEF Read, HonestInv, Sound, TypeOK
  <2>3. used'[f] = t /\ lag'[f] = t - t
    <3>1. f \in Filled' /\ client'[f] # None /\ time'[client'[f]] = t /\ data'[f][2] = t
      BY <1>1, <1>6, <2>1, <2>2 DEF Filled
    <3> QED
      BY <3>1 DEF used, lag
  <2>4. ASSUME data[f] # None PROVE used[f] = data[f][2] /\ lag[f] = t - data[f][2]
    BY <1>6, <2>4 DEF used, lag, Filled
  <2>5. ASSUME data[f] # None PROVE data[f][2] \in Nat
    BY <2>5 DEF HonestInv, Sound, TypeOK
  <2> HIDE DEF t
  <2>6. data[f] # None => used'[f] = used[f] + lag[f]
    BY <2>1, <2>3, <2>4, <2>5
  <2>7. lag'[f] = 0
    BY <2>1, <2>3
  <2> QED
    BY <1>3, <1>6, <2>6, <2>7
<1> QED
  BY <1>4, <1>5, <1>6

LEMMA HonestRead ==
  ASSUME HonestInv, Sound', ~reused', NEW f \in Fd, Read(f)
  PROVE  Asleep' /\ Reading'
<1>1. /\ UNCHANGED <<pc, client, time, streams, previous, load, rescanned, reused, ran>>
      /\ pc = "read" /\ f \in todo /\ todo' = todo \ {f}
  BY DEF Read, procVars, scanVars
<1>2. lag \in [Fd -> Nat] /\ lag' \in [Fd -> Nat] /\ used \in [Fd -> Nat] /\ used' \in [Fd -> Nat]
  BY <1>1, LagType, LagTypeNext, UsedTypeNow, UsedTypeNext DEF HonestInv
<1>3. lag'[f] = 0 /\ \A g \in Fd : g # f => lag'[g] = lag[g]
  BY <1>1, ReadLag
<1>4. Reading /\ todo \in SUBSET Fd /\ ran[1] \in Nat /\ ran[2] \in Nat /\ streams \in SUBSET Fd
  BY <1>1 DEF HonestInv, Sound, TypeOK
<1>5. \A g \in Fd : data[g] # None => data'[g] # None
  BY NoneIsNoClient DEF HonestInv, Sound, TypeOK, Read
<1>6. client[f] # None => data'[f] # None
  <2> SUFFICES ASSUME client[f] # None PROVE data'[f] # None
    OBVIOUS
  <2>1. data'[f] = <<client[f], time[client[f]]>>
    BY DEF Read, HonestInv, Sound, TypeOK
  <2>2. client[f] \in Client /\ time[client[f]] \in Nat
    BY DEF HonestInv, Sound, TypeOK
  <2> QED
    BY <2>1, <2>2, NoneIsNoClient
<1>7. AllFilled(streams \ todo)'
  <2>1. \A g \in streams \ todo : client[g] # None => data[g] # None
    BY <1>1, <1>4 DEF Reading, AllFilled
  <2>2. \A g \in streams' \ todo' : g \in streams \ todo \/ g = f
    BY <1>1
  <2> QED
    BY <1>1, <1>4, <1>5, <1>6, <2>1, <2>2 DEF AllFilled
<1>8. Sum(lag', Fd \ todo') <= ran'[1]
  <2> DEFINE done == Fd \ todo
             done2 == Fd \ todo'
  <2>1. done2 \ {f} = done /\ f \in done2 /\ done \in SUBSET Fd /\ done2 \in SUBSET Fd
    BY <1>1
  <2>2. Sum(lag, done) <= ran[1]
    BY <1>1, <1>4 DEF Reading
  <2> HIDE DEF done, done2
  <2>3. Sum(lag', done2) = lag'[f] + Sum(lag', done)
    BY <1>2, <2>1, SumRemove
  <2>4. Sum(lag', done) = Sum(lag, done)
    <3>1. \A g \in done : lag'[g] = lag[g]
      BY <1>3, <2>1
    <3> QED
      BY <1>2, <2>1, <3>1, SumEqual
  <2>5. Sum(lag', done) \in Nat
    BY <1>2, <2>1, SumType
  <2> QED
    BY <1>1, <1>3, <2>2, <2>3, <2>4, <2>5 DEF done2
<1>9. ASSUME ~rescanned, previous # 0
      PROVE  AllFilled(streams)' /\ \E p \in Nat : Base(p)'
  <2>1. AllFilled(streams)
    BY <1>1, <1>4, <1>9 DEF Reading
  <2>2. PICK p \in Nat : Base(p)
    BY <1>1, <1>4, <1>9 DEF Reading
  <2>3. AllFilled(streams)'
    BY <1>1, <1>4, <1>5, <2>1 DEF AllFilled
  <2>4. used'[f] = used[f] + lag[f] /\ \A g \in Fd : g # f => used'[g] = used[g]
    BY <1>1, <2>1, ReadLag DEF AllFilled
  <2>5. Sum(used', Fd) + used[f] = Sum(used, Fd) + used'[f]
    BY <1>2, <2>4, SumChange
  <2>6. Sum(lag, todo) = lag[f] + Sum(lag, todo')
    BY <1>1, <1>2, <1>4, SumRemove
  <2>7. Sum(lag', todo') = Sum(lag, todo')
    <3>1. \A g \in todo' : lag'[g] = lag[g]
      BY <1>1, <1>3, <1>4
    <3>2. todo' \in SUBSET Fd
      BY <1>1, <1>4
    <3> QED
      BY <1>2, <3>1, <3>2, SumEqual
  <2>8. Sum(used, Fd) \in Nat /\ Sum(used', Fd) \in Nat /\ Sum(lag', todo') \in Nat
    <3>1. todo' \in SUBSET Fd
      BY <1>1, <1>4
    <3> QED
      BY <1>2, <3>1, SumType
  <2>9. used[f] \in Nat /\ lag[f] \in Nat
    BY <1>2
  <2>10. Sum(used', Fd) = Sum(used, Fd) + lag[f]
    BY <2>4, <2>5, <2>8, <2>9
  <2>11. Base(p)'
    <3>1. /\ previous = p % Modulus /\ p <= Sum(used, Fd)
          /\ Sum(used, Fd) + Sum(lag, todo) <= p + ran[1] + ran[2]
      BY <2>2 DEF Base
    <3>2. p <= Sum(used', Fd)
      BY <2>8, <2>9, <2>10, <3>1
    <3>3. Sum(used', Fd) + Sum(lag', todo') <= p + ran[1] + ran[2]
      BY <1>4, <2>6, <2>7, <2>8, <2>9, <2>10, <3>1
    <3> QED
      BY <1>1, <3>1, <3>2, <3>3 DEF Base
  <2> QED
    BY <2>3, <2>11
<1> QED
  BY <1>1, <1>7, <1>8, <1>9 DEF Asleep, Reading

(* The sample: the difference to the base is time of the two intervals.    *)
LEMMA HonestSample ==
  ASSUME HonestInv, Sound', ~reused', Sample
  PROVE  Asleep' /\ Reading'
<1>1. /\ UNCHANGED <<client, time, data, streams, rescanned, reused, ran>>
      /\ pc = "read" /\ pc' = "asleep" /\ todo = {} /\ previous' = gpu_time
  BY DEF Sample, procVars, scanVars
<1>2. used' = used /\ lag' = lag
  BY <1>1 DEF used, lag, Filled
<1>3. Reading /\ ran[1] \in Nat /\ ran[2] \in Nat /\ Modulus \in Nat \ {0}
  BY <1>1, NumberAssumption DEF HonestInv, Sound, TypeOK
<1>4. AllFilled(streams)'
  <2>1. AllFilled(streams \ todo) /\ streams \ todo = streams
    BY <1>1, <1>3 DEF Reading
  <2> QED
    BY <1>1, <2>1 DEF AllFilled
<1>5. Sum(lag, Fd) <= ran[1]
  <2>1. Fd \ todo = Fd
    BY <1>1
  <2> QED
    BY <1>1, <1>3, <2>1 DEF Reading
<1>6. gpu_time = Sum(used, Fd) % Modulus /\ Sum(used, Fd) \in Nat
  BY UsedType DEF HonestInv, Sound, IInv
<1>7. ASSUME ~rescanned PROVE load' <= ran[1] + ran[2]
  <2>1. CASE previous = 0
    BY <1>3, <2>1 DEF Sample
  <2>2. CASE previous # 0
    <3>1. PICK p \in Nat : Base(p)
      BY <1>1, <1>3, <1>7, <2>2 DEF Reading
    <3> DEFINE t == Sum(used, Fd)
               delta == (Modulus + gpu_time - previous) % Modulus
    <3>2. Sum(lag, todo) = 0
      BY <1>1, SumStep
    <3>3. t \in Nat /\ p <= t /\ t + Sum(lag, todo) <= p + ran[1] + ran[2] /\ previous = p % Modulus
      BY <1>6, <3>1 DEF Base
    <3>4. delta = ((Modulus + (t % Modulus)) - (p % Modulus)) % Modulus
      <4>1. Modulus + gpu_time - previous = (Modulus + (t % Modulus)) - (p % Modulus)
        BY <1>3, <1>6, <3>3
      <4> QED
        BY <4>1, Zenon
    <3> HIDE DEF t
    <3>5. delta \in 0 .. t - p
      BY <1>3, <3>3, <3>4, Difference
    <3>6. load' = IF delta > Interval THEN Interval ELSE delta
      BY <2>2 DEF Sample
    <3> HIDE DEF delta
    <3>7. load' <= delta
      BY <3>3, <3>5, <3>6, NumberAssumption
    <3> QED
      <4>1. load' \in Nat
        BY <3>3, <3>5, <3>6, NumberAssumption
      <4> QED
        BY <1>3, <3>2, <3>3, <3>5, <3>7, <4>1
  <2> QED
    BY <2>1, <2>2
<1>8. previous' = Sum(used', Fd) % Modulus /\ Sum(lag', Fd) <= ran'[1]
  BY <1>1, <1>2, <1>5, <1>6
<1> QED
  BY <1>1, <1>4, <1>7, <1>8 DEF Asleep, Reading

LEMMA HonestNext == HonestInv /\ [Next]_vars => HonestInv'
<1> SUFFICES ASSUME HonestInv, [Next]_vars PROVE HonestInv'
  OBVIOUS
<1>a. Sound'
  BY SoundNext DEF HonestInv
<1> SUFFICES ASSUME ~reused' PROVE Asleep' /\ Reading'
  BY <1>a DEF HonestInv
<1> USE DEF procVars, scanVars
<1>1. ASSUME NEW f \in Fd, NEW c \in Client, Open(f, c) PROVE Asleep' /\ Reading'
  BY <1>1, <1>a, HonestOpen
<1>2. ASSUME NEW f \in Fd, Close(f) PROVE Asleep' /\ Reading'
  <2>1. /\ \A g \in Fd : client'[g] \in {client[g], None}
        /\ UNCHANGED <<time, pc, todo, data, streams, previous, load, rescanned, reused, ran>>
    BY <1>2 DEF Close, HonestInv, Sound, TypeOK
  <2> QED
    BY <1>a, <2>1, HonestForget
<1>3. ASSUME NEW c \in Client, Run(c) PROVE Asleep' /\ Reading'
  BY <1>3, <1>a, HonestRun
<1>4. CASE Exit
  <2>1. /\ \A g \in Fd : client'[g] \in {client[g], None}
        /\ UNCHANGED <<time, pc, todo, data, streams, previous, load, rescanned, reused, ran>>
    BY <1>4 DEF Exit, HonestInv, Sound, TypeOK
  <2> QED
    BY <1>a, <2>1, HonestForget
<1>5. CASE PollAll
  BY <1>5, <1>a, HonestPollAll
<1>6. CASE FindDir
  BY <1>6 DEF FindDir, Asleep, Reading
<1>7. CASE FindFds
  BY <1>7 DEF FindFds, Asleep, Reading
<1>8. CASE Clear
  BY <1>8 DEF Clear, Asleep, Reading
<1>9. CASE EndInit
  BY <1>9, <1>a, HonestEndInit
<1>10. CASE Sample
  BY <1>10, <1>a, HonestSample
<1>11. ASSUME NEW f \in Fd, OpenFd(f) PROVE Asleep' /\ Reading'
  BY <1>11 DEF OpenFd, Asleep, Reading
<1>12. ASSUME NEW f \in Fd, Read(f) PROVE Asleep' /\ Reading'
  BY <1>12, <1>a, HonestRead
<1>13. CASE UNCHANGED vars
  <2>1. /\ \A g \in Fd : client'[g] \in {client[g], None}
        /\ UNCHANGED <<time, pc, todo, data, streams, previous, load, rescanned, reused, ran>>
    BY <1>13 DEF vars
  <2> QED
    BY <1>a, <2>1, HonestForget
<1> QED
  BY <1>1, <1>2, <1>3, <1>4, <1>5, <1>6, <1>7, <1>8, <1>9, <1>10, <1>11, <1>12, <1>13
  DEF Next, Process, Poll

(* FDInfo: between two scans the load of a process that has not reused a   *)
(* stream's number is GPU time that it used in this interval or the one    *)
(* before, however many descriptors and clients it has and closes, and     *)
(* wherever the unsigned sum wraps.                                        *)
THEOREM LoadIsHonest == Spec => []HonestBetweenScans
<1>1. Init => HonestInv
  BY SoundInit DEF HonestInv, Init, Asleep, Reading
<1>2. HonestInv => HonestBetweenScans
  BY DEF HonestInv, Asleep, HonestBetweenScans
<1> QED
  BY <1>1, <1>2, HonestNext, PTL DEF Spec

=============================================================================
