----------------------------- MODULE IOStatsProofs -----------------------------
(***************************************************************************)
(* IOTypeOK and RatesAddUp are invariants of IOStats.                      *)
(***************************************************************************)
EXTENDS IOStats, TLAPS

(* What RatesAddUp rests on.  PollPid tells by the totals whether there is *)
(* a base yet, the history by base: both must agree, so nothing is shown   *)
(* before there is a base, and a process without an entry has none.        *)
NothingBeforeBase == base = Zero => shown = Zero
NoBaseWithoutEntry == alive /\ entry = NoEntry => base = Zero
ReadsAnEntry == pc = "read" => entry # NoEntry
NoStreamAhead == entry # NoEntry => entry.stream <= inc

IOInv == /\ IOTypeOK /\ RatesAddUp
        /\ NothingBeforeBase /\ NoBaseWithoutEntry /\ ReadsAnEntry /\ NoStreamAhead

-----------------------------------------------------------------------------
LEMMA ZeroType == Zero \in Bytes /\ Zero \in [Way -> Nat] /\ Zero \in [Way -> 0 .. MaxBytes]
  BY BoundAssumption, ModulusAssumption DEF Zero, Bytes

LEMMA NewEntryType == \A s \in 0 .. MaxInc : NewEntry(s) \in Entry
  BY ZeroType DEF NewEntry, Entry

LEMMA ZeroPlusZero == Plus(Zero, Zero) = Zero
  BY DEF Plus, Zero

LEMMA NoEntryIsNone == NoEntry \notin Entry
<1>1. ASSUME NEW e \in Entry
      PROVE  e \in [stream : Nat, previous : [Way -> Nat], rate : [Way -> Nat]]
  <2>1. ASSUME NEW f \in Bytes PROVE f \in [Way -> Nat]
    BY ModulusAssumption DEF Bytes
  <2> QED BY <2>1, BoundAssumption DEF Entry
<1> QED BY <1>1, NoEntryAssumption

(* A process never reads or writes 2^64 bytes, so its totals fit.          *)
LEMMA TotalsType == IOTypeOK => Totals \in Bytes
  BY ZeroType, BoundAssumption, ModulusAssumption DEF IOTypeOK, Totals, Bytes

LEMMA MinusType == \A a, b \in Bytes : Minus(a, b) \in Bytes
  BY ModulusAssumption DEF Minus, Bytes

LEMMA PlusType == \A a \in [Way -> Nat], b \in Bytes : Plus(a, b) \in [Way -> Nat]
  BY ModulusAssumption DEF Plus, Bytes

(* Nothing wraps as long as the counters do not go back.                   *)
LEMMA AddingUp ==
  ASSUME NEW p \in Bytes, NEW t \in Bytes, NEW b \in Bytes, NEW s \in [Way -> Nat],
         p = Plus(b, s), \A w \in Way : p[w] <= t[w]
  PROVE  t = Plus(b, Plus(s, Minus(t, p)))
<1>1. ASSUME NEW w \in Way PROVE t[w] = b[w] + (s[w] + (t[w] - p[w]))
  BY ModulusAssumption DEF Plus, Bytes
<1> QED BY <1>1, ModulusAssumption DEF Plus, Minus, Bytes

LEMMA PlusIsZero ==
  ASSUME NEW b \in Bytes, NEW s \in [Way -> Nat], Plus(b, s) = Zero
  PROVE  b = Zero
<1>1. ASSUME NEW w \in Way PROVE b[w] = 0
  <2>1. b[w] + s[w] = 0 BY DEF Plus, Zero
  <2> QED BY <2>1, ModulusAssumption DEF Bytes
<1> QED BY <1>1 DEF Zero, Bytes

LEMMA PlusZero ==
  ASSUME NEW b \in Bytes PROVE Plus(b, Zero) = b
  BY ModulusAssumption DEF Plus, Zero, Bytes

-----------------------------------------------------------------------------
LEMMA IOInitInv == IOInit => IOInv
<1> SUFFICES ASSUME IOInit PROVE IOInv OBVIOUS
<1>1. inc \in 0 .. MaxInc BY BoundAssumption DEF IOInit
<1>2. IOTypeOK BY <1>1, ZeroType DEF IOInit, IOTypeOK
<1>3. RatesAddUp BY DEF IOInit, RatesAddUp
<1> QED BY <1>2, <1>3
        DEF IOInit, IOInv, NothingBeforeBase, NoBaseWithoutEntry, ReadsAnEntry, NoStreamAhead

LEMMA PollPidInv == IOInv /\ PollPid => IOInv'
<1> SUFFICES ASSUME IOInv, PollPid PROVE IOInv' OBVIOUS
<1> USE DEF IOInv
<1>1. entry \in Entry /\ entry # NoEntry
  BY DEF PollPid, ReadsAnEntry, IOTypeOK
<1>2. Totals \in Bytes /\ entry.previous \in Bytes /\ entry.rate \in Bytes
  BY <1>1, TotalsType DEF Entry
<1>3. CASE entry.previous = Zero
  <2>1. entry' = [entry EXCEPT !.previous = Totals] /\ Remember(Zero) BY <1>3 DEF PollPid
  <2>2. entry' \in Entry BY <1>1, <1>2, <2>1 DEF Entry
  <2>3. IOTypeOK'
    BY <1>2, <2>1, <2>2, ZeroType, PlusType DEF PollPid, Remember, IOTypeOK, procVars
  <2>4. NothingBeforeBase'
    <3>1. shown = Zero /\ base = Zero => shown' = Zero BY <2>1 DEF Remember
    <3>2. CASE base = Zero BY <3>1, <3>2, <2>1 DEF Remember, NothingBeforeBase
    <3>3. CASE base # Zero BY <3>3, <2>1 DEF Remember, NothingBeforeBase
    <3> QED BY <3>2, <3>3
  <2>5. NoBaseWithoutEntry' /\ ReadsAnEntry'
    BY <2>2, NoEntryIsNone DEF PollPid, NoBaseWithoutEntry, ReadsAnEntry
  <2>7. NoStreamAhead'
    BY <1>1, <2>1 DEF PollPid, procVars, NoStreamAhead, Entry
  <2>6. RatesAddUp'
    <3> SUFFICES ASSUME alive', ~denied', entry'.stream = inc' PROVE RatesAddUp'
      BY DEF RatesAddUp
    <3>1. alive /\ ~denied /\ entry.stream = inc BY <1>1, <2>1 DEF PollPid, procVars, Entry
    <3>2. base = Zero
      BY <1>1, <1>3, <3>1, PlusIsZero DEF RatesAddUp, IOTypeOK
    <3>3. base' = total /\ shown' = Zero /\ entry'.previous = total /\ total' = total
      BY <1>1, <2>1, <3>1, <3>2 DEF Remember, Totals, PollPid, procVars, Entry
    <3>4. Plus(total, Zero) = total
      BY <1>2, <3>1, PlusZero DEF Totals
    <3>5. \A w \in Way : total[w] <= total[w] BY BoundAssumption DEF IOTypeOK
    <3> QED BY <3>3, <3>4, <3>5 DEF RatesAddUp
  <2> QED BY <2>3, <2>4, <2>5, <2>6, <2>7
<1>4. CASE entry.previous # Zero
  <2> DEFINE delta == Minus(Totals, entry.previous)
  <2>1. entry' = [entry EXCEPT !.previous = Totals, !.rate = delta] /\ Remember(delta)
    BY <1>4 DEF PollPid
  <2>2. delta \in Bytes BY <1>2, MinusType
  <2> HIDE DEF delta
  <2>3. entry' \in Entry BY <1>1, <1>2, <2>1, <2>2 DEF Entry
  <2>4. IOTypeOK'
    BY <1>2, <2>1, <2>2, <2>3, ZeroType, PlusType DEF PollPid, Remember, IOTypeOK, procVars
  <2>5. NothingBeforeBase'
    BY <2>1 DEF Remember, NothingBeforeBase
  <2>6. NoBaseWithoutEntry' /\ ReadsAnEntry'
    BY <2>3, NoEntryIsNone DEF PollPid, NoBaseWithoutEntry, ReadsAnEntry
  <2>8. NoStreamAhead'
    BY <1>1, <2>1 DEF PollPid, procVars, NoStreamAhead, Entry
  <2>7. RatesAddUp'
    <3> SUFFICES ASSUME alive', ~denied', entry'.stream = inc' PROVE RatesAddUp'
      BY DEF RatesAddUp
    <3>1. alive /\ ~denied /\ entry.stream = inc BY <1>1, <2>1 DEF PollPid, procVars, Entry
    <3>2. entry.previous = Plus(base, shown) /\ \A w \in Way : entry.previous[w] <= total[w]
      BY <1>1, <3>1 DEF RatesAddUp
    <3>3. base # Zero
      <4>1. SUFFICES ASSUME base = Zero PROVE FALSE OBVIOUS
      <4>2. shown = Zero BY <4>1 DEF NothingBeforeBase
      <4> QED BY <1>4, <3>2, <4>1, <4>2, ZeroType, PlusZero
    <3>4. base' = base /\ shown' = Plus(shown, delta) /\ entry'.previous = total /\ total' = total
      BY <1>1, <2>1, <3>1, <3>3 DEF Remember, Totals, PollPid, procVars, Entry
    <3>5. Totals = total BY <3>1 DEF Totals
    <3>6. total = Plus(base, Plus(shown, delta))
      BY <1>2, <3>2, <3>5, AddingUp DEF delta, IOTypeOK
    <3>7. \A w \in Way : total[w] <= total[w] BY BoundAssumption DEF IOTypeOK
    <3> QED BY <3>4, <3>6, <3>7 DEF RatesAddUp
  <2> QED BY <2>4, <2>5, <2>6, <2>7, <2>8
<1> QED BY <1>3, <1>4

LEMMA IONextInv == IOInv /\ [IONext]_ioVars => IOInv'
<1> SUFFICES ASSUME IOInv, [IONext]_ioVars PROVE IOInv' OBVIOUS
<1> USE DEF IOInv, RatesAddUp, NothingBeforeBase, NoBaseWithoutEntry, ReadsAnEntry,
            NoStreamAhead
<1>1. CASE Spawn
  <2>4. inc' \in 0 .. MaxInc /\ total' \in [Way -> 0 .. MaxBytes] /\ base' \in Bytes
        /\ shown' \in [Way -> Nat]
    BY <1>1, ZeroType, BoundAssumption DEF Spawn, IOTypeOK
  <2>1. IOTypeOK' BY <1>1, <2>4 DEF Spawn, IOTypeOK
  <2>2. RatesAddUp'
    <3> SUFFICES ASSUME entry # NoEntry, entry.stream = inc + 1 PROVE FALSE
      BY <1>1 DEF Spawn
    <3> QED BY DEF IOTypeOK, Entry
  <2>3. NoStreamAhead' BY <1>1 DEF Spawn, IOTypeOK, Entry
  <2> QED BY <1>1, <2>1, <2>2, <2>3 DEF Spawn
<1>2. CASE Exit
  BY <1>2 DEF Exit, history, IOTypeOK
<1>10. CASE Deny
  BY <1>10 DEF Deny, history, IOTypeOK
<1>3. ASSUME NEW w \in Way, Transfer(w) PROVE IOInv'
  <2>1. IOTypeOK' BY <1>3, BoundAssumption DEF Transfer, history, IOTypeOK
  <2>2. \A v \in Way : total[v] <= total'[v] BY <1>3, BoundAssumption DEF Transfer, IOTypeOK
  <2>3. RatesAddUp'
    <3> SUFFICES ASSUME ~denied, entry # NoEntry, entry.stream = inc
                 PROVE \A v \in Way : entry.previous[v] <= total'[v]
      BY <1>3 DEF Transfer, history
    <3>1. entry.previous \in [Way -> Nat]
      BY ModulusAssumption DEF IOTypeOK, Entry, Bytes
    <3> QED BY <1>3, <2>1, <2>2, <3>1, BoundAssumption DEF Transfer, IOTypeOK
  <2> QED BY <1>3, <2>1, <2>3 DEF Transfer, history
<1>4. CASE Register
  <2>1. CASE entry # NoEntry
    BY <1>4, <2>1, ZeroType DEF Register, procVars, history, IOTypeOK
  <2>2. CASE entry = NoEntry
    <3>1. PICK s \in {0, inc} : entry' = NewEntry(s) BY <1>4, <2>2 DEF Register
    <3>2. entry' \in Entry /\ s <= inc /\ s \in 0 .. MaxInc
      BY <3>1, NewEntryType, BoundAssumption DEF IOTypeOK
    <3>3. IOTypeOK' BY <1>4, <3>2, ZeroType DEF Register, procVars, history, IOTypeOK
    <3>4. entry'.stream = s /\ entry'.previous = Zero BY <3>1 DEF NewEntry
    <3>5. RatesAddUp'
      <4> SUFFICES ASSUME alive' PROVE RatesAddUp' OBVIOUS
      <4>1. base' = Zero /\ shown' = Zero BY <1>4, <2>2 DEF Register, procVars, history
      <4>2. \A w \in Way : Zero[w] <= total[w] BY BoundAssumption DEF Zero, IOTypeOK
      <4> QED BY <1>4, <3>4, <4>1, <4>2, ZeroPlusZero DEF Register, procVars
    <3> QED BY <1>4, <3>2, <3>3, <3>4, <3>5, NoEntryIsNone DEF Register, procVars, history
  <2> QED BY <2>1, <2>2
<1>5. CASE Prune
  BY <1>5 DEF Prune, procVars, history, IOTypeOK
<1>6. CASE PollExists
  BY <1>6 DEF PollExists, procVars, history, IOTypeOK
<1>7. CASE PollPid
  BY <1>7, PollPidInv
<1>8. CASE GetStats
  <2>1. published' \in Bytes
    <3>1. tracked => entry' \in Entry
      BY <1>8, NewEntryType, BoundAssumption DEF GetStats, IOTypeOK
    <3> QED BY <1>8, <3>1, ZeroType DEF GetStats, Entry
  <2>2. CASE entry' = entry
    BY <1>8, <2>1, <2>2 DEF GetStats, procVars, history, IOTypeOK
  <2>3. CASE entry' # entry
    <3>1. entry = NoEntry /\ entry' = NewEntry(0) BY <1>8, <2>3 DEF GetStats
    <3>2. entry' \in Entry BY <3>1, NewEntryType, BoundAssumption
    <3>3. IOTypeOK' BY <1>8, <2>1, <3>2 DEF GetStats, procVars, history, IOTypeOK
    <3>4. entry'.stream = 0 /\ entry'.previous = Zero BY <3>1 DEF NewEntry
    <3>5. RatesAddUp'
      <4> SUFFICES ASSUME alive' PROVE RatesAddUp' OBVIOUS
      <4>1. base' = Zero /\ shown' = Zero BY <1>8, <3>1 DEF GetStats, procVars, history
      <4>2. \A w \in Way : Zero[w] <= total[w] BY BoundAssumption DEF Zero, IOTypeOK
      <4> QED BY <1>8, <3>4, <4>1, <4>2, ZeroPlusZero DEF GetStats, procVars
    <3>6. NoStreamAhead' BY <1>8, <3>4 DEF GetStats, procVars, IOTypeOK
    <3> QED BY <1>8, <3>2, <3>3, <3>5, <3>6, NoEntryIsNone DEF GetStats, procVars, history
  <2> QED BY <2>2, <2>3
<1>9. CASE UNCHANGED ioVars
  BY <1>9 DEF ioVars, IOTypeOK
<1> QED BY <1>1, <1>2, <1>3, <1>4, <1>5, <1>6, <1>7, <1>8, <1>9, <1>10 DEF IONext, Main

-----------------------------------------------------------------------------
LEMMA IOSpecInv == IOSpec => []IOInv
  BY IOInitInv, IONextInv, PTL DEF IOSpec

(* IOStats is well typed whatever the processes do: no total, difference   *)
(* or rate leaves the range of its type.                                   *)
THEOREM IOTypeCorrect == IOSpec => []IOTypeOK
<1>1. IOInv => IOTypeOK BY DEF IOInv
<1> QED BY <1>1, IOSpecInv, PTL

(* poll_pid(): the rates of a living process add up to what it has         *)
(* transferred since the base, for any counters and any number of reuses   *)
(* of its pid.                                                             *)
THEOREM EveryByteShownOnce == IOSpec => []RatesAddUp
<1>1. IOInv => RatesAddUp BY DEF IOInv
<1> QED BY <1>1, IOSpecInv, PTL

=============================================================================
