------------------------- MODULE TimerTable_proofs -------------------------
(***************************************************************************)
(* Proofs about the vector of the timer table, for every capacity, set of  *)
(* states and durations, and clock.                                        *)
(*                                                                         *)
(* TableInvariant: the vector holds the armed pairs, each once. Retain is  *)
(* a recursion over positions; RetainKeeps gives what it leaves, by        *)
(* induction on how far it got (Lists), and Rearranges is what retain and  *)
(* swap_remove have in common. From there, one lemma per operation for the *)
(* entries it leaves (RestartIs, PushNewIs, CancelStateIs, CancelOneIs,    *)
(* DecrementIs, PopIs), and one for each that what is armed follows. The   *)
(* refinement maps the vector to its set of entries; TimersRunOnTime needs *)
(* durations that fit the counter.                                         *)
(***************************************************************************)
EXTENDS TimerTable, SequenceTheorems, FiniteSetTheorems, Induction

-----------------------------------------------------------------------------
(* The operations of the vector. *)

(* r lists, in their order, the elements of seq at the positions of keep   *)
(* up to n; pos tells where each comes from.                               *)
Lists(pos, r, seq, keep, n) ==
  /\ Len(r) <= n
  /\ pos \in [1 .. Len(r) -> 1 .. n]
  /\ \A i \in 1 .. Len(r) : pos[i] \in keep /\ r[i] = seq[pos[i]]
  /\ \A i, j \in 1 .. Len(r) : i < j => pos[i] < pos[j]
  /\ \A k \in 1 .. n : k \in keep => \E i \in 1 .. Len(r) : pos[i] = k

LEMMA ListsMore ==
  ASSUME NEW S, NEW seq \in Seq(S), NEW keep, NEW n \in 1 .. Len(seq),
         NEW r \in Seq(S), NEW pos, Lists(pos, r, seq, keep, n - 1)
  PROVE  /\ n \in keep => \E p : Lists(p, Append(r, seq[n]), seq, keep, n)
         /\ n \notin keep => Lists(pos, r, seq, keep, n)
<1>1. CASE n \in keep
  <2> DEFINE L == Len(r)
             p == [i \in 1 .. L + 1 |-> IF i = L + 1 THEN n ELSE pos[i]]
             q == Append(r, seq[n])
  <2>1. L \in Nat /\ n \in Nat /\ seq[n] \in S /\ L <= n - 1
    BY DEF Lists
  <2>2. q \in Seq(S) /\ Len(q) = L + 1 /\ q[L + 1] = seq[n]
        /\ \A i \in 1 .. L : q[i] = r[i]
    BY <2>1, AppendProperties
  <2>3. \A i \in 1 .. L : pos[i] \in 1 .. n - 1 /\ p[i] = pos[i]
    BY <2>1 DEF Lists
  <2>4. p[L + 1] = n
    BY <2>1
  <2>5. p \in [1 .. L + 1 -> 1 .. n]
    <3>1. \A i \in 1 .. L + 1 : i # L + 1 => pos[i] \in 1 .. n
      <4>1. \A i \in 1 .. L + 1 : i # L + 1 => i \in 1 .. L
        BY <2>1
      <4>2. \A i \in 1 .. L : pos[i] \in 1 .. n
        <5> HIDE DEF L, p
        <5> QED BY <2>1, <2>3
      <4> QED BY <4>1, <4>2, Zenon
    <3>2. n \in 1 .. n
      BY <2>1
    <3> HIDE DEF L
    <3> QED BY <3>1, <3>2
  <2>6. \A i \in 1 .. L + 1 : i \in 1 .. L \/ i = L + 1
    BY <2>1
  <2> HIDE DEF p, q
  <2>7. \A i \in 1 .. L + 1 : p[i] \in keep /\ q[i] = seq[p[i]]
    BY <1>1, <2>2, <2>3, <2>4, <2>6 DEF Lists
  <2>8. ASSUME NEW i \in 1 .. L + 1, NEW j \in 1 .. L + 1, i < j
        PROVE  p[i] < p[j]
    <3>1. i \in 1 .. L
      BY <2>1, <2>8
    <3>2. CASE j \in 1 .. L
      BY <2>1, <2>3, <2>8, <3>1, <3>2 DEF Lists
    <3>3. CASE j = L + 1
      BY <2>1, <2>3, <2>4, <3>1, <3>3, SMTT(30)
    <3> QED BY <2>6, <3>2, <3>3
  <2>9. ASSUME NEW k \in 1 .. n, k \in keep
        PROVE  \E i \in 1 .. L + 1 : p[i] = k
    <3>1. CASE k = n
      BY <2>1, <2>4, <3>1
    <3>2. CASE k # n
      <4>1. k \in 1 .. n - 1
        BY <2>1, <3>2
      <4>2. PICK i \in 1 .. L : pos[i] = k
        BY <2>9, <4>1 DEF Lists
      <4> QED BY <2>1, <2>3, <4>2
    <3> QED BY <3>1, <3>2
  <2>10. L + 1 <= n
    BY <2>1
  <2>11. Lists(p, q, seq, keep, n)
    BY <2>2, <2>5, <2>7, <2>8, <2>9, <2>10 DEF Lists
  <2> QED BY <1>1, <2>11 DEF q
<1>2. CASE n \notin keep
  <2>1. Len(r) \in Nat /\ n \in Nat
    OBVIOUS
  <2>2. \A k \in 1 .. n : k \in keep => k \in 1 .. n - 1
    BY <1>2, <2>1
  <2>3. pos \in [1 .. Len(r) -> 1 .. n] /\ Len(r) <= n
    BY <2>1 DEF Lists
  <2> QED BY <1>2, <2>2, <2>3 DEF Lists
<1> QED BY <1>1, <1>2

(* Retain loses and duplicates nothing and keeps the order. *)
LEMMA RetainKeeps ==
  ASSUME NEW S, NEW seq \in Seq(S), NEW keep
  PROVE  /\ Retain(seq, keep) \in Seq(S)
         /\ \E pos : Lists(pos, Retain(seq, keep), seq, keep, Len(seq))
<1>1. PICK kept : RetainRuns(kept, S, seq, keep)
  BY RetainSteps
<1>2.   /\ kept \in [0 .. Len(seq) -> Seq(S)]
        /\ kept[0] = <<>> /\ Retain(seq, keep) = kept[Len(seq)]
        /\ \A n \in 1 .. Len(seq) :
             kept[n] = IF n \in keep THEN Append(kept[n - 1], seq[n]) ELSE kept[n - 1]
  BY <1>1 DEF RetainRuns
<1> DEFINE N == Len(seq)
           T == {n \in 0 .. N : \E pos : Lists(pos, kept[n], seq, keep, n)}
<1>3. N \in Nat
  OBVIOUS
<1>4. 0 \in T
  <2>1. Lists([i \in 1 .. 0 |-> 0], kept[0], seq, keep, 0)
    BY <1>2 DEF Lists
  <2> QED BY <2>1, <1>3
<1>5. ASSUME NEW n \in 0 .. N, n > 0, n - 1 \in T PROVE n \in T
  <2>1. n \in 1 .. N /\ n - 1 \in 0 .. N
    BY <1>3, <1>5
  <2>2. kept[n - 1] \in Seq(S)
    BY <1>2, <2>1
  <2>3. PICK pos : Lists(pos, kept[n - 1], seq, keep, n - 1)
    BY <1>5
  <2>4. \E p : Lists(p, kept[n], seq, keep, n)
    BY <1>2, <2>1, <2>2, <2>3, ListsMore
  <2> QED BY <2>4
<1>6. \A n \in 0 .. N : n \in T
  <2> HIDE DEF T, N
  <2> QED BY <1>3, <1>4, <1>5, UpTo
<1>7. N \in T /\ N \in 0 .. N
  BY <1>3, <1>6
<1> QED BY <1>2, <1>7

(* r holds the elements of seq at the positions of keep, each once, in     *)
(* whichever order.                                                        *)
Rearranges(pos, r, seq, keep) ==
  /\ Len(r) <= Len(seq)
  /\ \A i \in 1 .. Len(r) :
       pos[i] \in 1 .. Len(seq) /\ pos[i] \in keep /\ r[i] = seq[pos[i]]
  /\ \A i, j \in 1 .. Len(r) : pos[i] = pos[j] => i = j
  /\ \A k \in 1 .. Len(seq) : k \in keep => \E i \in 1 .. Len(r) : pos[i] = k

LEMMA RetainRearranges ==
  ASSUME NEW S, NEW seq \in Seq(S), NEW keep
  PROVE  /\ Retain(seq, keep) \in Seq(S)
         /\ \E pos : Rearranges(pos, Retain(seq, keep), seq, keep)
<1> DEFINE r == Retain(seq, keep)
<1>1. r \in Seq(S) /\ \E pos : Lists(pos, r, seq, keep, Len(seq))
  BY RetainKeeps
<1>2. PICK pos : Lists(pos, r, seq, keep, Len(seq))
  BY <1>1
<1> HIDE DEF r
<1>3. Len(r) \in Nat /\ Len(seq) \in Nat
  BY <1>1
<1>4. \A i \in 1 .. Len(r) : pos[i] \in 1 .. Len(seq)
  BY <1>2, <1>3 DEF Lists
<1>5. ASSUME NEW i \in 1 .. Len(r), NEW j \in 1 .. Len(r), pos[i] = pos[j]
      PROVE  i = j
  <2>1. ~(pos[i] < pos[j]) /\ ~(pos[j] < pos[i])
    BY <1>3, <1>4, <1>5
  <2>2. ~(i < j) /\ ~(j < i)
    BY <1>2, <2>1 DEF Lists
  <2> QED BY <1>3, <2>2
<1>6. Rearranges(pos, r, seq, keep)
  BY <1>2, <1>4, <1>5 DEF Lists, Rearranges
<1> QED BY <1>1, <1>6 DEF r

(* swap_remove takes one element out and moves the last into its place. *)
LEMMA SwapRemoveRearranges ==
  ASSUME NEW S, NEW seq \in Seq(S), NEW k \in 1 .. Len(seq)
  PROVE  /\ SwapRemove(seq, k) \in Seq(S)
         /\ \E pos : Rearranges(pos, SwapRemove(seq, k), seq, (1 .. Len(seq)) \ {k})
<1> DEFINE L == Len(seq)
           swapped == [seq EXCEPT ![k] = seq[L]]
           r == SubSeq(swapped, 1, L - 1)
           pos == [i \in 1 .. L - 1 |-> IF i = k THEN L ELSE i]
<1>1. L \in Nat /\ L > 0 /\ k \in Nat /\ seq[L] \in S
  OBVIOUS
<1>2. /\ swapped \in Seq(S) /\ Len(swapped) = L
      /\ \A j \in 1 .. L : swapped[j] = IF j = k THEN seq[L] ELSE seq[j]
  <2> HIDE DEF L
  <2>1. k \in 1 .. L /\ L = Len(seq)
    BY DEF L
  <2> QED BY <1>1, <2>1, ExceptSeq
<1>3. SwapRemove(seq, k) = r
  BY <1>2 DEF SwapRemove, Front, Last
<1> HIDE DEF swapped
<1>4. /\ r \in Seq(S) /\ Len(r) = L - 1
      /\ \A i \in 1 .. L - 1 : r[i] = swapped[i]
  BY <1>1, <1>2
<1>5. \A i \in 1 .. L - 1 : pos[i] \in 1 .. L /\ pos[i] # k /\ r[i] = seq[pos[i]]
  <2> TAKE i \in 1 .. L - 1
  <2>1. i \in 1 .. L /\ i # L
    BY <1>1
  <2> HIDE DEF L, r
  <2>2. r[i] = IF i = k THEN seq[L] ELSE seq[i]
    BY <1>2, <1>4, <2>1
  <2>3. L \in 1 .. L
    BY <1>1
  <2> QED BY <2>1, <2>2, <2>3
<1>6. \A i, j \in 1 .. L - 1 : pos[i] = pos[j] => i = j
  BY <1>1
<1>7. ASSUME NEW m \in 1 .. L, m # k PROVE \E i \in 1 .. L - 1 : pos[i] = m
  <2>1. CASE m = L
    <3>1. k \in 1 .. L - 1 /\ pos[k] = m
      BY <1>1, <1>7, <2>1
    <3> QED BY <3>1
  <2>2. CASE m # L
    <3>1. m \in 1 .. L - 1 /\ pos[m] = m
      BY <1>1, <1>7, <2>2
    <3> QED BY <3>1
  <2> QED BY <2>1, <2>2
<1>8. L - 1 <= L
  BY <1>1
<1>9. Rearranges(pos, r, seq, (1 .. L) \ {k})
  <2> HIDE DEF pos, r
  <2> QED BY <1>4, <1>5, <1>6, <1>7, <1>8 DEF Rearranges
<1> QED BY <1>3, <1>4, <1>9

(* What a rearranged vector holds. *)
LEMMA Survivors ==
  ASSUME NEW S, NEW seq \in Seq(S), NEW r \in Seq(S), NEW keep, NEW pos,
         Rearranges(pos, r, seq, keep)
  PROVE  Range(r) = {seq[k] : k \in keep \cap DOMAIN seq}
<1>1. DOMAIN r = 1 .. Len(r) /\ DOMAIN seq = 1 .. Len(seq)
  OBVIOUS
<1>2. ASSUME NEW i \in DOMAIN r
      PROVE  r[i] \in {seq[k] : k \in keep \cap DOMAIN seq}
  <2>1. pos[i] \in keep \cap DOMAIN seq /\ r[i] = seq[pos[i]]
    BY <1>1 DEF Rearranges
  <2> QED BY <2>1
<1>3. ASSUME NEW k \in keep \cap DOMAIN seq
      PROVE  \E i \in DOMAIN r : r[i] = seq[k]
  <2>1. k \in 1 .. Len(seq) /\ k \in keep
    BY <1>1
  <2>2. PICK i \in 1 .. Len(r) : pos[i] = k
    BY <2>1 DEF Rearranges
  <2> QED BY <1>1, <2>2 DEF Rearranges
<1> QED BY <1>2, <1>3 DEF Range

-----------------------------------------------------------------------------
(* The vector and the abstract table. *)

Pair(e) == <<e.state, e.trigger>>

(* No pair is in the vector twice. *)
Single(seq) == \A i, j \in DOMAIN seq : Pair(seq[i]) = Pair(seq[j]) => i = j

LEMMA OnePerPairIsSingle ==
  (OnePerPair <=> Single(entries)) /\ (OnePerPair' <=> Single(entries'))
BY DEF OnePerPair, Single, PairAt, Pair

LEMMA SingleSurvives ==
  ASSUME NEW S, NEW seq \in Seq(S), NEW r \in Seq(S), NEW keep, NEW pos,
         Rearranges(pos, r, seq, keep), Single(seq)
  PROVE  Single(r)
<1>1. DOMAIN r = 1 .. Len(r) /\ DOMAIN seq = 1 .. Len(seq)
  OBVIOUS
<1>2. ASSUME NEW i \in DOMAIN r, NEW j \in DOMAIN r, Pair(r[i]) = Pair(r[j])
      PROVE  i = j
  <2>1. /\ pos[i] \in DOMAIN seq /\ r[i] = seq[pos[i]]
        /\ pos[j] \in DOMAIN seq /\ r[j] = seq[pos[j]]
    BY <1>1 DEF Rearranges
  <2>2. pos[i] = pos[j]
    BY <1>2, <2>1 DEF Single
  <2> QED BY <1>1, <2>2 DEF Rearranges
<1> QED BY <1>2 DEF Single

(* The invariant, and what it says of the abstract table. *)
TableInvariant == TypeOK /\ OnePerPair /\ NothingLost

LEMMA NothingLostIs ==
  /\ NothingLost <=> {Pair(e) : e \in Range(entries)} = Range(armed)
  /\ NothingLost' <=> {Pair(e) : e \in Range(entries')} = Range(armed')
BY DEF NothingLost, PairAt, Pair, Range

Vector(seq) == seq \in Seq(Abstract!Timer) /\ Len(seq) <= Capacity /\ Single(seq)

LEMMA VectorHolds ==
  ASSUME TableInvariant
  PROVE  Vector(entries)
BY OnePerPairIsSingle DEF TableInvariant, TypeOK, Vector

(* The durations are kept in a counter of limited width. *)
LEMMA NanosType ==
  ASSUME NEW d \in Durations
  PROVE  Abstract!Nanos(d) \in 0 .. NsLimit - 1
BY TableAssumption DEF Abstract!Nanos

LEMMA EntryType ==
  ASSUME NEW p \in Owned, NEW d \in Durations
  PROVE  /\ p = <<p[1], p[2]>> /\ p[1] \in State /\ p[2] \in Trigger
         /\ Entry(p[1], p[2], d) \in Abstract!Timer
         /\ Pair(Entry(p[1], p[2], d)) = p
<1>1. p \in State \X Trigger
  BY TableAssumption
<1>2. p = <<p[1], p[2]>> /\ p[1] \in State /\ p[2] \in Trigger
  BY <1>1
<1> QED BY <1>2, NanosType DEF Entry, Abstract!Timer, Pair

(* The entries of one pair are its slot in the table. *)
LEMMA SlotIs ==
  ASSUME NEW s, NEW t, NEW i \in DOMAIN entries
  PROVE  i \in PositionsOf(s, t) <=> entries[i] \in Abstract!Slot(Range(entries), s, t)
BY DEF PositionsOf, Abstract!Slot, Range

LEMMA SlotEmpty ==
  ASSUME NEW s, NEW t
  PROVE  PositionsOf(s, t) = {} <=> Abstract!Slot(Range(entries), s, t) = {}
BY DEF PositionsOf, Abstract!Slot, Range

LEMMA RestartIs ==
  ASSUME TableInvariant, NEW p \in Owned, NEW d \in Durations, Restart(p[1], p[2], d)
  PROVE  /\ Vector(entries')
         /\ Range(entries') = Abstract!Start(Range(entries), p[1], p[2], d)
<1> DEFINE s == p[1]
           t == p[2]
           m == Min(PositionsOf(s, t))
           new == Entry(s, t, d)
<1>1. Vector(entries) /\ new \in Abstract!Timer /\ Pair(new) = p /\ p = <<s, t>>
  BY VectorHolds, EntryType
<1>2. entries \in Seq(Abstract!Timer) /\ DOMAIN entries = 1 .. Len(entries)
  BY <1>1 DEF Vector
<1>3. m \in PositionsOf(s, t)
  <2>1. PositionsOf(s, t) \in SUBSET Nat
    BY <1>2 DEF PositionsOf
  <2>2. PositionsOf(s, t) # {}
    BY DEF Restart
  <2> QED BY <2>1, <2>2, MinIsElement
<1>4. m \in DOMAIN entries /\ Pair(entries[m]) = p
  BY <1>1, <1>3 DEF PositionsOf, Pair
<1>5. entries' = [entries EXCEPT ![m] = new]
  BY DEF Restart
<1> HIDE DEF m, new, s, t
<1>6. /\ entries' \in Seq(Abstract!Timer) /\ Len(entries') = Len(entries)
      /\ DOMAIN entries' = DOMAIN entries
      /\ \A i \in DOMAIN entries : entries'[i] = IF i = m THEN new ELSE entries[i]
  BY <1>1, <1>2, <1>4, <1>5
<1>7. \A i \in DOMAIN entries : Pair(entries'[i]) = Pair(entries[i])
  BY <1>1, <1>4, <1>6
<1>8. Vector(entries')
  BY <1>1, <1>6, <1>7 DEF Vector, Single
<1>9. \A i \in DOMAIN entries : i = m <=> i \in PositionsOf(s, t)
  BY <1>1, <1>3, <1>4 DEF Vector, Single, PositionsOf, Pair
<1>10. Range(entries') = (Range(entries) \ Abstract!Slot(Range(entries), s, t)) \cup {new}
  <2>1. ASSUME NEW e \in Range(entries')
        PROVE  e \in (Range(entries) \ Abstract!Slot(Range(entries), s, t)) \cup {new}
    BY <1>6, <1>9, SlotIs DEF Range
  <2>2. ASSUME NEW e \in Range(entries), e \notin Abstract!Slot(Range(entries), s, t)
        PROVE  e \in Range(entries')
    <3>1. PICK i \in DOMAIN entries : e = entries[i]
      BY DEF Range
    <3>2. i # m
      BY <1>3, <2>2, <3>1, SlotIs
    <3> QED BY <1>6, <3>1, <3>2 DEF Range
  <2>3. new \in Range(entries')
    BY <1>4, <1>6 DEF Range
  <2> QED BY <2>1, <2>2, <2>3
<1>11. Abstract!Slot(Range(entries), s, t) # {}
  BY <1>3, SlotEmpty
<1> QED BY <1>8, <1>10, <1>11 DEF Abstract!Start, new, Entry, s, t

(* The table counts as the vector does. *)
LEMMA SameCount ==
  ASSUME NEW S
  PROVE  Abstract!Cardinality(S) = Cardinality(S)
BY DEF Abstract!Cardinality, Cardinality, Abstract!IsFiniteSet, IsFiniteSet

(* The table has as many timers as the vector has entries. *)
LEMMA VectorSize ==
  ASSUME NEW seq, Vector(seq)
  PROVE  Cardinality(Range(seq)) = Len(seq)
<1>1. seq \in Seq(Abstract!Timer) /\ Len(seq) \in Nat /\ DOMAIN seq = 1 .. Len(seq)
  BY DEF Vector
<1>2. seq \in Bijection(1 .. Len(seq), Range(seq))
  <2>1. seq \in [1 .. Len(seq) -> Range(seq)]
    BY <1>1 DEF Range
  <2>2. \A i, j \in 1 .. Len(seq) : seq[i] = seq[j] => i = j
    BY <1>1 DEF Vector, Single
  <2>3. \A e \in Range(seq) : \E i \in 1 .. Len(seq) : seq[i] = e
    BY <1>1 DEF Range
  <2> QED BY <2>1, <2>2, <2>3 DEF Bijection, Injection, Surjection, IsInjective
<1>3. ExistsBijection(1 .. Len(seq), Range(seq))
  BY <1>2 DEF ExistsBijection
<1> QED BY <1>1, <1>3, FS_CountingElements

LEMMA PushNewIs ==
  ASSUME TableInvariant, NEW p \in Owned, NEW d \in Durations, PushNew(p[1], p[2], d)
  PROVE  /\ Vector(entries')
         /\ Range(entries') = Abstract!Start(Range(entries), p[1], p[2], d)
<1> DEFINE s == p[1]
           t == p[2]
           new == Entry(s, t, d)
           L == Len(entries)
<1>1. Vector(entries) /\ new \in Abstract!Timer /\ Pair(new) = p /\ p = <<s, t>>
  BY VectorHolds, EntryType
<1>2. entries \in Seq(Abstract!Timer) /\ DOMAIN entries = 1 .. L /\ L \in Nat
  BY <1>1 DEF Vector
<1>3. entries' = Append(entries, new) /\ L < Capacity /\ PositionsOf(s, t) = {}
  BY DEF PushNew
<1> HIDE DEF new, s, t
<1>4. /\ entries' \in Seq(Abstract!Timer) /\ Len(entries') = L + 1
      /\ DOMAIN entries' = 1 .. L + 1
      /\ \A i \in 1 .. L : entries'[i] = entries[i]
      /\ entries'[L + 1] = new
  BY <1>1, <1>2, <1>3
<1>5. \A i \in 1 .. L : Pair(entries[i]) # p
  BY <1>1, <1>2, <1>3 DEF PositionsOf, Pair
<1> HIDE DEF L
<1>6. \A i \in 1 .. L + 1 : i \in 1 .. L \/ i = L + 1
  BY <1>2
<1>7. Single(entries')
  BY <1>1, <1>2, <1>4, <1>5, <1>6 DEF Vector, Single
<1>8. L + 1 <= Capacity
  BY <1>2, <1>3, TableAssumption
<1>9. Range(entries') = Range(entries) \cup {new}
  <2>1. L + 1 \in 1 .. L + 1 /\ \A i \in 1 .. L : i \in 1 .. L + 1
    BY <1>2
  <2> QED BY <1>2, <1>4, <1>6, <2>1 DEF Range
<1>10. Abstract!Slot(Range(entries), s, t) = {}
  BY <1>3, SlotEmpty
<1>11. Abstract!Cardinality(Range(entries)) < Capacity
  BY <1>1, <1>3, VectorSize, SameCount DEF L
<1>12. Abstract!Start(Range(entries), s, t, d)
         = (Range(entries) \ Abstract!Slot(Range(entries), s, t)) \cup {new}
  <2>1. new = [state |-> s, trigger |-> t, left |-> Abstract!Nanos(d)]
    BY DEF new, Entry
  <2> QED BY <1>11, <2>1, Zenon DEF Abstract!Start
<1> QED BY <1>4, <1>7, <1>8, <1>9, <1>10, <1>12 DEF Vector, s, t

LEMMA PushRefusedIs ==
  ASSUME TableInvariant, NEW p \in Owned, NEW d, PushRefused(p[1], p[2])
  PROVE  /\ Vector(entries')
         /\ Range(entries') = Abstract!Start(Range(entries), p[1], p[2], d)
<1>1. Vector(entries) /\ entries' = entries
  BY VectorHolds DEF PushRefused
<1>2. Len(entries) = Capacity /\ Abstract!Slot(Range(entries), p[1], p[2]) = {}
  BY SlotEmpty DEF PushRefused
<1>3. ~(Abstract!Cardinality(Range(entries)) < Capacity)
  BY <1>1, <1>2, VectorSize, SameCount, TableAssumption
<1> QED BY <1>1, <1>2, <1>3, Zenon DEF Abstract!Start

(* A vector from which something is taken away is one. *)
LEMMA VectorSurvives ==
  ASSUME NEW seq, Vector(seq), NEW keep, NEW pos, NEW r \in Seq(Abstract!Timer),
         Rearranges(pos, r, seq, keep)
  PROVE  Vector(r) /\ Range(r) = {seq[k] : k \in keep \cap DOMAIN seq}
<1>1. seq \in Seq(Abstract!Timer) /\ Len(seq) \in Nat /\ Len(seq) <= Capacity
  BY DEF Vector
<1>2. Single(r)
  BY <1>1, SingleSurvives DEF Vector
<1>3. Len(r) <= Capacity
  <2>1. Len(r) <= Len(seq) /\ Len(r) \in Nat
    BY DEF Rearranges
  <2> QED BY <1>1, <2>1, TableAssumption
<1> QED BY <1>1, <1>2, <1>3, Survivors DEF Vector

LEMMA CancelStateIs ==
  ASSUME TableInvariant, NEW s \in State, CancelState(s)
  PROVE  /\ Vector(entries')
         /\ Range(entries') = Abstract!CancelState(Range(entries), s)
<1> DEFINE keep == {i \in DOMAIN entries : entries[i].state # s}
<1>1. Vector(entries) /\ entries' = Retain(entries, keep)
  BY VectorHolds DEF CancelState
<1>2. entries' \in Seq(Abstract!Timer) /\ \E pos : Rearranges(pos, entries', entries, keep)
  BY <1>1, RetainRearranges DEF Vector
<1> HIDE DEF keep
<1>3. Vector(entries') /\ Range(entries') = {entries[k] : k \in keep \cap DOMAIN entries}
  BY <1>1, <1>2, VectorSurvives
<1> QED BY <1>3 DEF keep, Abstract!CancelState, Range

LEMMA CancelOneIs ==
  ASSUME TableInvariant, NEW s, NEW t, CancelOne(s, t)
  PROVE  /\ Vector(entries')
         /\ Range(entries') = Abstract!CancelOne(Range(entries), s, t)
<1> DEFINE keep == DOMAIN entries \ PositionsOf(s, t)
<1>1. Vector(entries) /\ entries' = Retain(entries, keep)
  BY VectorHolds DEF CancelOne
<1>2. entries' \in Seq(Abstract!Timer) /\ \E pos : Rearranges(pos, entries', entries, keep)
  BY <1>1, RetainRearranges DEF Vector
<1> HIDE DEF keep
<1>3. Vector(entries') /\ Range(entries') = {entries[k] : k \in keep \cap DOMAIN entries}
  BY <1>1, <1>2, VectorSurvives
<1> QED BY <1>3 DEF keep, Abstract!CancelOne, Abstract!Slot, PositionsOf, Range

LEMMA DecrementIs ==
  ASSUME TableInvariant, NEW d \in Durations, Decrement(d)
  PROVE  /\ Vector(entries')
         /\ Range(entries') = Abstract!Decrement(Range(entries), d)
         /\ \A e \in Range(entries') : \E f \in Range(entries) :
              Pair(e) = Pair(f)
         /\ \A f \in Range(entries) : \E e \in Range(entries') : Pair(e) = Pair(f)
<1> DEFINE ns == Abstract!Nanos(d)
           Down(e) == [e EXCEPT !.left = IF ns < @ THEN @ - ns ELSE 0]
<1>1. Vector(entries) /\ ns \in 0 .. NsLimit - 1
  BY VectorHolds, NanosType
<1>2. entries \in Seq(Abstract!Timer) /\ DOMAIN entries = 1 .. Len(entries)
  BY <1>1 DEF Vector
<1>3. entries' = [i \in DOMAIN entries |-> Down(entries[i])]
  BY DEF Decrement
<1>4. ASSUME NEW e \in Abstract!Timer
      PROVE  Down(e) \in Abstract!Timer /\ Pair(Down(e)) = Pair(e)
  <2>1. /\ e = [state |-> e.state, trigger |-> e.trigger, left |-> e.left]
        /\ e.state \in State /\ e.trigger \in Trigger /\ e.left \in 0 .. NsLimit - 1
    BY DEF Abstract!Timer
  <2>2. (IF ns < e.left THEN e.left - ns ELSE 0) \in 0 .. NsLimit - 1
    BY <1>1, <2>1, TableAssumption
  <2> HIDE DEF ns
  <2> QED BY <2>1, <2>2 DEF Abstract!Timer, Pair
<1> HIDE DEF Down
<1>5. /\ entries' \in Seq(Abstract!Timer) /\ Len(entries') = Len(entries)
      /\ DOMAIN entries' = DOMAIN entries
      /\ \A i \in DOMAIN entries : entries'[i] = Down(entries[i])
  <2>1. \A i \in DOMAIN entries : entries[i] \in Abstract!Timer
    BY <1>2
  <2> QED BY <1>2, <1>3, <1>4, <2>1
<1>6. \A i \in DOMAIN entries : Pair(entries'[i]) = Pair(entries[i])
  BY <1>2, <1>4, <1>5
<1>7. Vector(entries')
  BY <1>1, <1>5, <1>6 DEF Vector, Single
<1>8. Range(entries') = {Down(e) : e \in Range(entries)}
  BY <1>5 DEF Range
<1> QED BY <1>5, <1>6, <1>7, <1>8 DEF Abstract!Decrement, Down, Range

(* Of some positions one has the greatest depth. *)
LEMMA Deepest ==
  ASSUME NEW L \in Nat, NEW E \in SUBSET (1 .. L), E # {}, NEW depth \in [1 .. L -> Nat]
  PROVE  \E i \in E : \A j \in E : depth[j] <= depth[i]
<1> DEFINE Upto(n) == {j \in E : j <= n}
           T == {n \in 0 .. L : Upto(n) # {} =>
                   \E i \in Upto(n) : \A j \in Upto(n) : depth[j] <= depth[i]}
<1>0. \A j \in E : j \in 1 .. L /\ j \in Nat /\ depth[j] \in Nat
  OBVIOUS
<1>1. 0 \in T
  <2>1. \A j \in E : ~(j <= 0)
    BY <1>0
  <2>2. Upto(0) = {}
    BY <2>1
  <2>3. 0 \in 0 .. L
    OBVIOUS
  <2> HIDE DEF Upto
  <2> QED BY <2>2, <2>3
<1>2. ASSUME NEW n \in 0 .. L, n > 0, n - 1 \in T PROVE n \in T
  <2>1. n \in 1 .. L /\ depth[n] \in Nat
    BY <1>2
  <2>2. Upto(n) = Upto(n - 1) \cup ({n} \cap E)
    <3>1. \A j \in E : j <= n <=> j <= n - 1 \/ j = n
      BY <1>0, <2>1
    <3>2. n <= n
      BY <2>1
    <3> QED BY <3>1, <3>2
  <2>3. \A j \in E : j \in 1 .. L /\ depth[j] \in Nat
    BY <1>0
  <2>4. CASE n \notin E \/ Upto(n - 1) = {}
    <3>1. Upto(n) = Upto(n - 1) \/ Upto(n) = {n}
      BY <2>2, <2>4
    <3>2. CASE Upto(n) = Upto(n - 1)
      <4> HIDE DEF Upto
      <4> QED BY <1>2, <3>2
    <3>3. CASE Upto(n) = {n}
      <4> HIDE DEF Upto
      <4> QED BY <1>2, <2>1, <3>3
    <3> QED BY <3>1, <3>2, <3>3
  <2>5. CASE n \in E /\ Upto(n - 1) # {}
    <3>1. PICK i \in Upto(n - 1) : \A j \in Upto(n - 1) : depth[j] <= depth[i]
      <4> HIDE DEF Upto
      <4> QED BY <1>2, <2>5
    <3>2. Upto(n) = Upto(n - 1) \cup {n} /\ Upto(n - 1) \subseteq E
      BY <2>2, <2>5
    <3>3. i \in Upto(n) /\ n \in Upto(n) /\ depth[i] \in Nat
      BY <2>3, <3>2
    <3> HIDE DEF Upto
    <3>4. CASE depth[n] <= depth[i]
      BY <1>2, <3>1, <3>2, <3>3, <3>4
    <3>5. CASE ~(depth[n] <= depth[i])
      <4>1. \A j \in Upto(n - 1) : depth[j] \in Nat /\ depth[j] <= depth[n]
        <5> TAKE j \in Upto(n - 1)
        <5>1. depth[j] \in Nat /\ depth[j] <= depth[i]
          BY <2>3, <3>1, <3>2
        <5> QED BY <2>1, <3>3, <3>5, <5>1
      <4>2. \A j \in Upto(n) : depth[j] <= depth[n]
        BY <2>1, <3>2, <4>1
      <4> QED BY <1>2, <3>3, <4>2
    <3> QED BY <3>4, <3>5
  <2> QED BY <2>4, <2>5
<1>3. \A n \in 0 .. L : n \in T
  <2> HIDE DEF T
  <2> QED BY <1>1, <1>2, UpTo
<1>4. L \in T /\ Upto(L) = E
  <2>1. L \in 0 .. L /\ \A j \in E : j <= L
    BY <1>0
  <2>2. L \in T
    <3> HIDE DEF T
    <3> QED BY <1>3, <2>1
  <2> QED BY <2>1, <2>2
<1> QED BY <1>4

(* The scan finds an expired entry of the innermost state. *)
LEMMA BestIsPoppable ==
  ASSUME TableInvariant, ExpiredAt # {}
  PROVE  /\ BestExpired \in DOMAIN entries
         /\ entries[BestExpired] \in Abstract!Poppable(Range(entries))
<1> DEFINE depth == [i \in 1 .. Len(entries) |-> DepthAt(i)]
           best == {i \in ExpiredAt : \A j \in ExpiredAt : DepthAt(j) <= DepthAt(i)}
<1>1. /\ entries \in Seq(Abstract!Timer) /\ Len(entries) \in Nat
      /\ DOMAIN entries = 1 .. Len(entries)
  BY DEF TableInvariant, TypeOK
<1>2. depth \in [1 .. Len(entries) -> Nat]
  <2>1. \A i \in 1 .. Len(entries) : entries[i].state \in State
    <3>1. \A i \in 1 .. Len(entries) : entries[i] \in Abstract!Timer
      BY <1>1
    <3> QED BY <3>1 DEF Abstract!Timer
  <2> QED BY <2>1, TableAssumption DEF DepthAt
<1>3. ExpiredAt \in SUBSET (1 .. Len(entries))
  BY <1>1 DEF ExpiredAt
<1>4. best # {}
  <2>1. \E i \in ExpiredAt : \A j \in ExpiredAt : depth[j] <= depth[i]
    <3> HIDE DEF depth
    <3> QED BY <1>1, <1>2, <1>3, Deepest
  <2> QED BY <1>3, <2>1
<1>5. best \in SUBSET Nat
  <2>1. ExpiredAt \in SUBSET Nat
    BY <1>1, <1>3
  <2> QED BY <2>1
<1>6. BestExpired \in best
  <2>1. BestExpired = Min(best)
    BY DEF BestExpired
  <2> HIDE DEF best
  <2> QED BY <1>4, <1>5, <2>1, MinIsElement
<1>7. /\ BestExpired \in DOMAIN entries /\ entries[BestExpired].left = 0
      /\ \A j \in ExpiredAt : DepthAt(j) <= DepthAt(BestExpired)
  BY <1>6 DEF ExpiredAt
<1>8. ASSUME NEW f \in Range(entries), f.left = 0
      PROVE  Depth[f.state] <= Depth[entries[BestExpired].state]
  <2>1. PICK j \in DOMAIN entries : f = entries[j]
    BY DEF Range
  <2>2. j \in ExpiredAt
    BY <1>8, <2>1 DEF ExpiredAt
  <2> QED BY <1>7, <2>1, <2>2 DEF DepthAt
<1> QED BY <1>7, <1>8 DEF Abstract!Poppable, Abstract!Expired, Range

LEMMA PopIs ==
  ASSUME TableInvariant, PopExpired, ExpiredAt # {}
  PROVE  /\ Vector(entries')
         /\ popped' \in Abstract!Poppable(Range(entries))
         /\ Range(entries') = Range(entries) \ {popped'}
<1> DEFINE b == BestExpired
           keep == (1 .. Len(entries)) \ {b}
<1>1. Vector(entries) /\ entries' = SwapRemove(entries, b) /\ popped' = entries[b]
  BY VectorHolds DEF PopExpired
<1>2. b \in DOMAIN entries /\ popped' \in Abstract!Poppable(Range(entries))
  BY <1>1, BestIsPoppable
<1> HIDE DEF b
<1>3. entries \in Seq(Abstract!Timer) /\ DOMAIN entries = 1 .. Len(entries)
  BY <1>1 DEF Vector
<1>4. entries' \in Seq(Abstract!Timer) /\ \E pos : Rearranges(pos, entries', entries, keep)
  BY <1>1, <1>2, <1>3, SwapRemoveRearranges
<1> HIDE DEF keep
<1>5. Vector(entries') /\ Range(entries') = {entries[k] : k \in keep \cap DOMAIN entries}
  BY <1>1, <1>4, VectorSurvives
<1>6. keep \cap DOMAIN entries = DOMAIN entries \ {b}
  BY <1>3 DEF keep
<1>7. \A k \in DOMAIN entries : k # b => entries[k] # entries[b]
  BY <1>1, <1>2 DEF Vector, Single
<1>8. {entries[k] : k \in DOMAIN entries \ {b}} = Range(entries) \ {entries[b]}
  BY <1>2, <1>7 DEF Range
<1> QED BY <1>1, <1>2, <1>5, <1>6, <1>8

-----------------------------------------------------------------------------
(* The invariant is inductive. *)

(* What is left of the history when some pairs are taken out of it. *)
LEMMA ArmedAfter ==
  ASSUME TypeOK, NEW out, armed' = Retain(armed, {i \in DOMAIN armed : armed[i] \notin out})
  PROVE  armed' \in Seq(Owned) /\ Range(armed') = Range(armed) \ out
<1> DEFINE keep == {i \in DOMAIN armed : armed[i] \notin out}
<1>1. armed \in Seq(Owned) /\ armed' = Retain(armed, keep)
  BY DEF TypeOK
<1> HIDE DEF keep
<1>2. armed' \in Seq(Owned) /\ \E pos : Rearranges(pos, armed', armed, keep)
  BY <1>1, RetainRearranges
<1>3. PICK pos : Rearranges(pos, armed', armed, keep)
  BY <1>2
<1>4. Range(armed') = {armed[k] : k \in keep \cap DOMAIN armed}
  <2> DEFINE seq == armed
             r == armed'
             S == Owned
  <2>1. seq \in Seq(S) /\ r \in Seq(S) /\ Rearranges(pos, r, seq, keep)
    BY <1>1, <1>2, <1>3
  <2> HIDE DEF seq, r, S
  <2>2. Range(r) = {seq[k] : k \in keep \cap DOMAIN seq}
    BY <2>1, Survivors
  <2> QED BY <2>2 DEF seq, r
<1> QED BY <1>2, <1>4 DEF keep, Range

LEMMA InvariantAfter ==
  ASSUME Vector(entries'), {Pair(e) : e \in Range(entries')} = Range(armed'),
         armed' \in Seq(Owned), popped' \in Abstract!Timer \cup {None},
         due' \in [Owned -> Nat]
  PROVE  TableInvariant'
BY OnePerPairIsSingle, NothingLostIs DEF Vector, TableInvariant, TypeOK

LEMMA StartKeeps ==
  ASSUME TableInvariant, NEW p \in Owned, NEW d \in Durations, Start(p[1], p[2], d)
  PROVE  TableInvariant'
<1> DEFINE s == p[1]
           t == p[2]
           new == Entry(s, t, d)
           slot == Abstract!Slot(Range(entries), s, t)
<1>1. Pair(new) = p /\ p = <<s, t>> /\ d \in Nat
  BY EntryType, TableAssumption
<1>2. {Pair(e) : e \in Range(entries)} = Range(armed)
  BY NothingLostIs DEF TableInvariant
<1>3. armed \in Seq(Owned) /\ due \in [Owned -> Nat] /\ popped' = None
  BY DEF TableInvariant, TypeOK, Start, Restart, PushNew, PushRefused
<1>4. \A e \in slot : Pair(e) = p
  BY <1>1 DEF Abstract!Slot, Pair
<1>5. CASE Restart(s, t, d)
  <2>1. Vector(entries') /\ Range(entries') = Abstract!Start(Range(entries), s, t, d)
    BY <1>5, RestartIs
  <2>2. slot # {} /\ UNCHANGED armed /\ due' = [due EXCEPT ![p] = d]
    BY <1>1, <1>5, SlotEmpty DEF Restart
  <2>3. Range(entries') = (Range(entries) \ slot) \cup {new}
    BY <2>1, <2>2 DEF Abstract!Start, Entry
  <2>4. due' \in [Owned -> Nat]
    BY <1>1, <1>3, <2>2
  <2>5. slot \subseteq Range(entries)
    BY DEF Abstract!Slot
  <2> HIDE DEF new, slot, s, t
  <2>6. {Pair(e) : e \in Range(entries')} = Range(armed)
    BY <1>1, <1>2, <1>4, <2>2, <2>3, <2>5
  <2>7. Range(armed') = Range(armed)
    BY <2>2
  <2> QED BY <1>3, <2>1, <2>2, <2>4, <2>6, <2>7, InvariantAfter
<1>6. CASE PushNew(s, t, d)
  <2>1. Vector(entries') /\ Range(entries') = Abstract!Start(Range(entries), s, t, d)
    BY <1>6, PushNewIs
  <2>2. slot = {} /\ armed' = Append(armed, p) /\ due' = [due EXCEPT ![p] = d]
    BY <1>1, <1>6, SlotEmpty DEF PushNew
  <2>3. Range(entries') = Range(entries) \cup {new}
    <3>1. entries' = Append(entries, new) /\ entries \in Seq(Abstract!Timer)
      BY <1>6 DEF PushNew, TableInvariant, TypeOK
    <3>2. Len(entries) \in Nat /\ DOMAIN entries = 1 .. Len(entries)
      BY <3>1
    <3>3. new \in Abstract!Timer
      BY EntryType
    <3> HIDE DEF new
    <3> QED BY <3>1, <3>2, <3>3 DEF Range
  <2>4. due' \in [Owned -> Nat]
    BY <1>1, <1>3, <2>2
  <2>5. armed' \in Seq(Owned) /\ Range(armed') = Range(armed) \cup {p}
    <3> DEFINE L == Len(armed)
    <3>1. /\ armed' \in Seq(Owned) /\ Len(armed') = L + 1 /\ L \in Nat
          /\ \A i \in 1 .. L : armed'[i] = armed[i]
          /\ armed'[L + 1] = p
      BY <1>3, <2>2, AppendProperties
    <3>2. DOMAIN armed = 1 .. L /\ DOMAIN armed' = 1 .. L + 1
      BY <1>3, <3>1
    <3>3. \A i \in 1 .. L + 1 : i \in 1 .. L \/ i = L + 1
      BY <3>1
    <3>4. L + 1 \in 1 .. L + 1 /\ \A i \in 1 .. L : i \in 1 .. L + 1
      BY <3>1
    <3> HIDE DEF L
    <3> QED BY <3>1, <3>2, <3>3, <3>4 DEF Range
  <2> HIDE DEF new, slot, s, t
  <2>6. {Pair(e) : e \in Range(entries')} = Range(armed')
    BY <1>1, <1>2, <2>3, <2>5
  <2> QED BY <1>3, <2>1, <2>4, <2>5, <2>6, InvariantAfter
<1>7. CASE PushRefused(s, t)
  BY <1>2, <1>3, <1>7, PushRefusedIs, InvariantAfter DEF PushRefused
<1> QED BY <1>5, <1>6, <1>7 DEF Start

LEMMA CancelStateKeeps ==
  ASSUME TableInvariant, NEW s \in State, CancelState(s)
  PROVE  TableInvariant'
<1> DEFINE out == {p \in Owned : p[1] = s}
<1>1. /\ {Pair(e) : e \in Range(entries)} = Range(armed)
      /\ armed \in Seq(Owned) /\ due \in [Owned -> Nat] /\ TypeOK
  BY NothingLostIs DEF TableInvariant, TypeOK
<1>2. Vector(entries') /\ Range(entries') = {e \in Range(entries) : e.state # s}
  BY CancelStateIs DEF Abstract!CancelState
<1>3. armed' = Retain(armed, {i \in DOMAIN armed : armed[i] \notin out})
  <2>1. \A i \in DOMAIN armed : armed[i] \in Owned
    BY <1>1
  <2>2. {i \in DOMAIN armed : armed[i][1] # s} = {i \in DOMAIN armed : armed[i] \notin out}
    BY <2>1
  <2> HIDE DEF out
  <2> QED BY <2>2 DEF CancelState
<1>4. armed' \in Seq(Owned) /\ Range(armed') = Range(armed) \ out
  <2> HIDE DEF out
  <2> QED BY <1>1, <1>3, ArmedAfter
<1>5. due' \in [Owned -> Nat] /\ popped' = None
  BY <1>1 DEF CancelState
<1>6. {Pair(e) : e \in Range(entries')} = Range(armed')
  <2>1. \A e \in Range(entries) : Pair(e) \in Owned /\ (Pair(e) \in out <=> e.state = s)
    BY <1>1 DEF Pair, Range
  <2> HIDE DEF out
  <2> QED BY <1>1, <1>2, <1>4, <2>1
<1> QED BY <1>2, <1>4, <1>5, <1>6, InvariantAfter

LEMMA CancelOneKeeps ==
  ASSUME TableInvariant, NEW p \in Owned, CancelOne(p[1], p[2])
  PROVE  TableInvariant'
<1>1. /\ {Pair(e) : e \in Range(entries)} = Range(armed)
      /\ armed \in Seq(Owned) /\ due \in [Owned -> Nat] /\ TypeOK
  BY NothingLostIs DEF TableInvariant, TypeOK
<1>2. p = <<p[1], p[2]>>
  BY TableAssumption
<1>3. Vector(entries') /\ Range(entries') = {e \in Range(entries) : Pair(e) # p}
  BY <1>2, CancelOneIs DEF Abstract!CancelOne, Abstract!Slot, Pair
<1>4. armed' = Retain(armed, {i \in DOMAIN armed : armed[i] \notin {p}})
  BY <1>2 DEF CancelOne
<1>5. armed' \in Seq(Owned) /\ Range(armed') = Range(armed) \ {p}
  BY <1>1, <1>4, ArmedAfter
<1>6. due' \in [Owned -> Nat] /\ popped' = None
  BY <1>1, <1>2 DEF CancelOne
<1>7. {Pair(e) : e \in Range(entries')} = Range(armed')
  BY <1>1, <1>3, <1>5
<1> QED BY <1>3, <1>5, <1>6, <1>7, InvariantAfter

LEMMA DecrementKeeps ==
  ASSUME TableInvariant, NEW d \in Durations, Decrement(d)
  PROVE  TableInvariant'
<1>1. /\ {Pair(e) : e \in Range(entries)} = Range(armed)
      /\ armed \in Seq(Owned) /\ due \in [Owned -> Nat]
  BY NothingLostIs DEF TableInvariant, TypeOK
<1>2. /\ Vector(entries')
      /\ \A e \in Range(entries') : \E f \in Range(entries) : Pair(e) = Pair(f)
      /\ \A f \in Range(entries) : \E e \in Range(entries') : Pair(e) = Pair(f)
  BY DecrementIs
<1>3. UNCHANGED armed /\ popped' = None
  BY DEF Decrement
<1>4. due' \in [Owned -> Nat]
  BY <1>1, TableAssumption DEF Decrement
<1>5. {Pair(e) : e \in Range(entries')} = {Pair(e) : e \in Range(entries)}
  BY <1>2
<1> QED BY <1>1, <1>2, <1>3, <1>4, <1>5, InvariantAfter

LEMMA PopKeeps ==
  ASSUME TableInvariant, PopExpired
  PROVE  TableInvariant'
<1>1. /\ {Pair(e) : e \in Range(entries)} = Range(armed)
      /\ armed \in Seq(Owned) /\ due \in [Owned -> Nat] /\ TypeOK /\ Vector(entries)
  BY NothingLostIs, VectorHolds DEF TableInvariant, TypeOK
<1>2. CASE ExpiredAt = {}
  <2>1. UNCHANGED <<entries, armed, due>> /\ popped' = None
    BY <1>2 DEF PopExpired
  <2> QED BY <1>1, <2>1, InvariantAfter
<1>3. CASE ExpiredAt # {}
  <2>1. /\ Vector(entries') /\ Range(entries') = Range(entries) \ {popped'}
        /\ popped' \in Range(entries)
    BY <1>3, PopIs DEF Abstract!Poppable, Abstract!Expired
  <2>2. popped' \in Abstract!Timer
    BY <1>1, <2>1 DEF Vector, Range
  <2>3. \A e \in Range(entries) : e # popped' => Pair(e) # Pair(popped')
    BY <1>1, <2>1 DEF Vector, Single, Range
  <2>4. armed' = Retain(armed, {i \in DOMAIN armed : armed[i] \notin {Pair(popped')}})
        /\ UNCHANGED due
    BY <1>3 DEF PopExpired, Pair
  <2>5. armed' \in Seq(Owned) /\ Range(armed') = Range(armed) \ {Pair(popped')}
    BY <1>1, <2>4, ArmedAfter
  <2>6. {Pair(e) : e \in Range(entries')} = Range(armed')
    BY <1>1, <2>1, <2>3, <2>5
  <2> QED BY <1>1, <2>1, <2>2, <2>4, <2>5, <2>6, InvariantAfter
<1> QED BY <1>2, <1>3

LEMMA TableInvariantStep == TableInvariant /\ [Next]_vars => TableInvariant'
<1> SUFFICES ASSUME TableInvariant, [Next]_vars PROVE TableInvariant'
  OBVIOUS
<1>1. ASSUME NEW p \in Owned, NEW d \in Durations, Start(p[1], p[2], d)
      PROVE  TableInvariant'
  BY <1>1, StartKeeps
<1>2. ASSUME NEW s \in State, CancelState(s) PROVE TableInvariant'
  BY <1>2, CancelStateKeeps
<1>3. ASSUME NEW p \in Owned, CancelOne(p[1], p[2]) PROVE TableInvariant'
  BY <1>3, CancelOneKeeps
<1>4. ASSUME NEW d \in Durations, Decrement(d) PROVE TableInvariant'
  BY <1>4, DecrementKeeps
<1>5. CASE PopExpired
  BY <1>5, PopKeeps
<1>6. CASE UNCHANGED vars
  BY <1>6 DEF vars, TableInvariant, TypeOK, OnePerPair, NothingLost, PairAt
<1> QED BY <1>1, <1>2, <1>3, <1>4, <1>5, <1>6 DEF Next

LEMMA TableInvariantInit == Init => TableInvariant
<1> SUFFICES ASSUME Init PROVE TableInvariant
  OBVIOUS
<1>1. TypeOK
  BY TableAssumption DEF Init, TypeOK
<1> QED BY <1>1 DEF Init, TableInvariant, OnePerPair, NothingLost, PairAt, Range

(* However starts, cancels, decrements and pops interleave, the vector     *)
(* holds typed entries, never more than it has room for, and no pair       *)
(* twice; and what it holds is exactly what was armed and neither          *)
(* cancelled nor popped since: retain, swap_remove and the replacement in  *)
(* start lose no timer and leave none behind (__private::TimerTable).      *)
THEOREM TableInvariantHolds == Spec => []TableInvariant
BY TableInvariantInit, TableInvariantStep, PTL DEF Spec

(* In particular: the vector never outgrows its capacity, and a countdown  *)
(* never leaves the counter's range (start, decrement).                    *)
THEOREM TableTypeCorrect == Spec => []TypeOK
BY TableInvariantHolds, PTL DEF TableInvariant

(* No pair of state and trigger has two countdowns: start restarts the one *)
(* it finds, and neither retain nor swap_remove copies an entry.           *)
THEOREM OneCountdownPerPair == Spec => []OnePerPair
BY TableInvariantHolds, PTL DEF TableInvariant

(* The vector holds just the pairs that were started and since then        *)
(* neither cancelled nor popped (start, cancel_state, cancel_one,          *)
(* pop_expired).                                                           *)
THEOREM NoTimerLost == Spec => []NothingLost
BY TableInvariantHolds, PTL DEF TableInvariant

-----------------------------------------------------------------------------
(* No timer runs fast or slow. *)

(* Every duration the chart uses is within the counter's range. *)
DurationsFit == \A d \in Durations : d < NsLimit

LEMMA OnTimeIs ==
  /\ OnTime <=> \A e \in Range(entries) : e.left = due[Pair(e)]
  /\ OnTime' <=> \A e \in Range(entries') : e.left = due'[Pair(e)]
BY DEF OnTime, PairAt, Pair, Range

LEMMA NanosOfShort ==
  ASSUME DurationsFit, NEW d \in Durations
  PROVE  Abstract!Nanos(d) = d
BY TableAssumption DEF DurationsFit, Abstract!Nanos

LEMMA StartOnTime ==
  ASSUME DurationsFit, TableInvariant, OnTime,
         NEW p \in Owned, NEW d \in Durations, Start(p[1], p[2], d)
  PROVE  OnTime'
<1> DEFINE s == p[1]
           t == p[2]
           new == Entry(s, t, d)
           slot == Abstract!Slot(Range(entries), s, t)
<1>1. Pair(new) = p /\ p = <<s, t>> /\ new.left = d
  BY EntryType, NanosOfShort DEF Entry
<1>2. \A e \in Range(entries) : e.left = due[Pair(e)]
  BY OnTimeIs
<1>3. due \in [Owned -> Nat]
  BY DEF TableInvariant, TypeOK
<1>4. \A e \in Range(entries) : e \notin slot => Pair(e) # p
  BY <1>1 DEF Abstract!Slot, Pair
<1>5. CASE Restart(s, t, d) \/ PushNew(s, t, d)
  <2>1. Range(entries') = Abstract!Start(Range(entries), s, t, d)
    BY <1>5, RestartIs, PushNewIs
  <2>2. due' = [due EXCEPT ![p] = d]
    BY <1>1, <1>5 DEF Restart, PushNew
  <2>3. Range(entries') = (Range(entries) \ slot) \cup {new} \/ Range(entries') = Range(entries)
    BY <2>1 DEF Abstract!Start, Entry
  <2>4. CASE Range(entries') = (Range(entries) \ slot) \cup {new}
    <3>1. \A e \in Range(entries') : e.left = due'[Pair(e)]
      <4> HIDE DEF new, slot, s, t
      <4> QED BY <1>1, <1>2, <1>3, <1>4, <2>2, <2>4
    <3> QED BY <3>1, OnTimeIs
  <2>5. CASE slot = {} /\ PushNew(s, t, d)
    <3>1. \A e \in Range(entries') : e \in Range(entries) \/ e = new
      <4>1. entries' = Append(entries, new) /\ entries \in Seq(Abstract!Timer)
        BY <2>5 DEF PushNew, TableInvariant, TypeOK
      <4>2. new \in Abstract!Timer
        BY EntryType
      <4> HIDE DEF new
      <4> QED BY <4>1, <4>2 DEF Range
    <3>2. \A e \in Range(entries') : e.left = due'[Pair(e)]
      <4> HIDE DEF new, s, t
      <4> QED BY <1>1, <1>2, <1>3, <1>4, <2>2, <2>5, <3>1
    <3> QED BY <3>2, OnTimeIs
  <2>6. CASE slot # {}
    BY <2>1, <2>4, <2>6 DEF Abstract!Start, Entry
  <2>7. slot = {} => PushNew(s, t, d)
    BY <1>5, SlotEmpty DEF Restart
  <2> QED BY <2>5, <2>6, <2>7
<1>6. CASE PushRefused(s, t)
  BY <1>6 DEF PushRefused, OnTime, PairAt
<1> QED BY <1>5, <1>6 DEF Start

LEMMA CancelStateOnTime ==
  ASSUME TableInvariant, OnTime, NEW s \in State, CancelState(s)
  PROVE  OnTime'
<1>1. \A e \in Range(entries) : e.left = due[Pair(e)] /\ Pair(e) \in Owned
  <2>1. {Pair(e) : e \in Range(entries)} = Range(armed) /\ armed \in Seq(Owned)
    BY NothingLostIs DEF TableInvariant, TypeOK
  <2>2. Range(armed) \subseteq Owned
    BY <2>1 DEF Range
  <2> QED BY <2>1, <2>2, OnTimeIs
<1>2. \A e \in Range(entries') : e \in Range(entries) /\ e.state # s
  BY CancelStateIs DEF Abstract!CancelState
<1>3. \A e \in Range(entries') : due'[Pair(e)] = due[Pair(e)]
  BY <1>1, <1>2 DEF CancelState, Pair
<1> QED BY <1>1, <1>2, <1>3, OnTimeIs

LEMMA CancelOneOnTime ==
  ASSUME TableInvariant, OnTime, NEW p \in Owned, CancelOne(p[1], p[2])
  PROVE  OnTime'
<1>1. p = <<p[1], p[2]>> /\ due \in [Owned -> Nat]
  BY TableAssumption DEF TableInvariant, TypeOK
<1>2. \A e \in Range(entries') : e \in Range(entries) /\ Pair(e) # p
  BY <1>1, CancelOneIs DEF Abstract!CancelOne, Abstract!Slot, Pair
<1>3. \A q : q # p => due'[q] = due[q]
  BY <1>1 DEF CancelOne
<1> QED BY <1>2, <1>3, OnTimeIs

LEMMA DecrementOnTime ==
  ASSUME DurationsFit, TableInvariant, OnTime, NEW d \in Durations, Decrement(d)
  PROVE  OnTime'
<1>1. entries \in Seq(Abstract!Timer) /\ Abstract!Nanos(d) = d
  BY NanosOfShort DEF TableInvariant, TypeOK
<1>2. ASSUME NEW i \in DOMAIN entries
      PROVE  entries'[i].left = due'[PairAt(i)'] /\ i \in DOMAIN entries'
  <2>1. entries[i] \in Abstract!Timer /\ entries[i].left = due[PairAt(i)]
    BY <1>1 DEF OnTime
  <2>2. PairAt(i) \in Owned
    <3>1. {PairAt(k) : k \in DOMAIN entries} = Range(armed) /\ armed \in Seq(Owned)
      BY DEF TableInvariant, NothingLost, TypeOK
    <3>2. Range(armed) \subseteq Owned
      BY <3>1 DEF Range
    <3> QED BY <3>1, <3>2
  <2>3. /\ entries'[i] = [entries[i] EXCEPT !.left = IF d < @ THEN @ - d ELSE 0]
        /\ i \in DOMAIN entries'
    BY <1>1 DEF Decrement
  <2>4. /\ entries'[i].left = IF d < entries[i].left THEN entries[i].left - d ELSE 0
        /\ PairAt(i)' = PairAt(i)
    BY <2>1, <2>3 DEF Abstract!Timer, PairAt
  <2>5. due'[PairAt(i)] = IF d < due[PairAt(i)] THEN due[PairAt(i)] - d ELSE 0
    BY <2>2 DEF Decrement
  <2> QED BY <2>1, <2>3, <2>4, <2>5
<1>3. DOMAIN entries' = DOMAIN entries
  BY DEF Decrement
<1> QED BY <1>2, <1>3 DEF OnTime

LEMMA PopOnTime ==
  ASSUME TableInvariant, OnTime, PopExpired
  PROVE  OnTime'
<1>1. CASE ExpiredAt = {}
  BY <1>1 DEF PopExpired, OnTime, PairAt
<1>2. CASE ExpiredAt # {}
  <2>1. Range(entries') \subseteq Range(entries) /\ UNCHANGED due
    BY <1>2, PopIs DEF PopExpired
  <2> QED BY <2>1, OnTimeIs
<1> QED BY <1>1, <1>2

LEMMA OnTimeStep ==
  ASSUME DurationsFit
  PROVE  TableInvariant /\ OnTime /\ [Next]_vars => OnTime'
<1> SUFFICES ASSUME TableInvariant, OnTime, [Next]_vars PROVE OnTime'
  OBVIOUS
<1>1. CASE UNCHANGED vars
  BY <1>1 DEF vars, OnTime, PairAt
<1> QED
  BY <1>1, StartOnTime, CancelStateOnTime, CancelOneOnTime, DecrementOnTime, PopOnTime DEF Next

(* In every chart whose durations are within the range of the counter, a   *)
(* timer has exactly its own time left, wherever swap_remove and retain    *)
(* have moved it and however often it was restarted: it fires neither      *)
(* early nor late (start, decrement, pop_expired).                         *)
THEOREM TimersRunOnTime ==
  ASSUME DurationsFit
  PROVE  Spec => []OnTime
<1>1. Init => OnTime
  BY DEF Init, OnTime
<1>2. TableInvariant /\ OnTime /\ [Next]_vars => OnTime'
  BY OnTimeStep
<1> QED BY <1>1, <1>2, TableInvariantHolds, PTL DEF Spec

-----------------------------------------------------------------------------
(* The vector implements the abstract table. *)

LEMMA PromiseStep ==
  TableInvariant /\ [Next]_vars => [Abstract!Next]_(Abstract!vars)
<1> SUFFICES ASSUME TableInvariant, [Next]_vars
             PROVE  [Abstract!Next]_(Abstract!vars)
  OBVIOUS
<1>1. ASSUME NEW p \in Owned, NEW d \in Durations, Start(p[1], p[2], d)
      PROVE  Abstract!Next
  <2>1. Range(entries') = Abstract!Start(Range(entries), p[1], p[2], d)
    BY <1>1, RestartIs, PushNewIs, PushRefusedIs DEF Start
  <2>2. popped' = None
    BY <1>1 DEF Start, Restart, PushNew, PushRefused
  <2> QED BY <2>1, <2>2 DEF Abstract!Next, Abstract!StartTimer, Range
<1>2. ASSUME NEW s \in State, CancelState(s) PROVE Abstract!Next
  <2>1. Range(entries') = Abstract!CancelState(Range(entries), s) /\ popped' = None
    BY <1>2, CancelStateIs DEF CancelState
  <2> QED BY <2>1 DEF Abstract!Next, Abstract!CancelTimersOf, Range
<1>3. ASSUME NEW p \in Owned, CancelOne(p[1], p[2]) PROVE Abstract!Next
  <2>1. Range(entries') = Abstract!CancelOne(Range(entries), p[1], p[2]) /\ popped' = None
    BY <1>3, CancelOneIs DEF CancelOne
  <2> QED BY <2>1 DEF Abstract!Next, Abstract!CancelTimer, Range
<1>4. ASSUME NEW d \in Durations, Decrement(d) PROVE Abstract!Next
  <2>1. Range(entries') = Abstract!Decrement(Range(entries), d) /\ popped' = None
    BY <1>4, DecrementIs DEF Decrement
  <2> QED BY <2>1 DEF Abstract!Next, Abstract!Elapse, Range
<1>5. CASE PopExpired
  <2>1. CASE ExpiredAt # {}
    <3>1. /\ popped' \in Abstract!Poppable(Range(entries))
          /\ Range(entries') = Range(entries) \ {popped'}
      BY <1>5, <2>1, PopIs
    <3>2. Abstract!PopExpired
      BY <3>1 DEF Abstract!PopExpired, Range
    <3> QED BY <3>2 DEF Abstract!Next
  <2>2. CASE ExpiredAt = {}
    <3>1. UNCHANGED entries /\ popped' = None
      BY <1>5, <2>2 DEF PopExpired
    <3>2. Abstract!Expired(Range(entries)) = {}
      BY <2>2 DEF ExpiredAt, Abstract!Expired, Range
    <3>3. Abstract!PopExpired
      BY <3>1, <3>2 DEF Abstract!PopExpired, Range
    <3> QED BY <3>3 DEF Abstract!Next
  <2> QED BY <2>1, <2>2
<1>6. CASE UNCHANGED vars
  BY <1>6 DEF vars, Abstract!vars, Range
<1> QED BY <1>1, <1>2, <1>3, <1>4, <1>5, <1>6 DEF Next

(* Refinement: every operation of the vector, with its in-place restarts,  *)
(* refused pushes, retain and swap_remove, is the operation of the         *)
(* abstract table the machine relies on (start, cancel_all_for_state,      *)
(* cancel, decrement, pop_expired).                                        *)
THEOREM TableImplementsPromise == Spec => ImplementsPromise
<1>1. Init => Abstract!Init
  BY DEF Init, Abstract!Init, Range
<1> QED
  BY <1>1, PromiseStep, TableInvariantHolds, PTL DEF Spec, ImplementsPromise, Abstract!Spec
=============================================================================
