----------------------------- MODULE Induction -----------------------------
(***************************************************************************)
(* Induction for the functions the model defines by recursion over the     *)
(* positions of a sequence or over the states of a tree.  The predicate is *)
(* a set of numbers and the recursion step a function, so that a prover    *)
(* needs no operator parameter to use them.                                *)
(***************************************************************************)
EXTENDS Naturals, SequencesExt, Vectors, SequenceTheorems, WellFoundedInduction, TLAPS

(* A nonempty set of numbers has a least one: Min is an element. *)
LEMMA MinIsElement ==
  ASSUME NEW S \in SUBSET Nat, S # {}
  PROVE  Min(S) \in S /\ \A y \in S : Min(S) <= y
<1> DEFINE Less == {p \in Nat \X Nat : p[1] < p[2]}
<1>1. IsWellFoundedOn(Less, Nat)
  BY NatLessThanWellFounded, Zenon DEF OpToRel
<1>2. PICK x \in S : \A y \in S : ~ (<<y, x>> \in Less)
  <2> HIDE DEF Less
  <2> QED BY <1>1, WFMin
<1>3. ASSUME NEW y \in S PROVE x <= y
  <2>1. x \in Nat /\ y \in Nat
    OBVIOUS
  <2>2. y < x => <<y, x>> \in Less
    BY <2>1
  <2> HIDE DEF Less
  <2> QED BY <1>2, <2>1, <2>2
<1> QED BY <1>3 DEF Min

(* ... and a bounded one a greatest. *)
LEMMA GreatestExists ==
  ASSUME NEW N \in Nat, NEW S \in SUBSET (0 .. N), S # {}
  PROVE  \E m \in S : \A y \in S : y <= m
<1> DEFINE D == {N - x : x \in S}
<1>1. D \in SUBSET Nat /\ D # {}
  <2>1. \A x \in S : x \in 0 .. N
    OBVIOUS
  <2>2. \A x \in S : N - x \in Nat
    BY <2>1
  <2> QED BY <2>2
<1>2. Min(D) \in D /\ \A y \in D : Min(D) <= y
  <2> HIDE DEF D
  <2> QED BY <1>1, MinIsElement
<1>3. PICK m \in S : Min(D) = N - m
  BY <1>2
<1>4. ASSUME NEW y \in S PROVE y <= m
  <2>1. N - y \in D
    OBVIOUS
  <2>2. N - m <= N - y
    <3> HIDE DEF D
    <3> QED BY <1>2, <1>3, <2>1
  <2>3. m \in 0 .. N /\ y \in 0 .. N
    OBVIOUS
  <2> QED BY <2>2, <2>3
<1> QED BY <1>4

(* A set that holds 0 and is closed under the successor holds 0 .. N. *)
LEMMA UpTo ==
  ASSUME NEW N \in Nat, NEW T, 0 \in T,
         \A n \in 0 .. N : n > 0 /\ n - 1 \in T => n \in T
  PROVE  \A n \in 0 .. N : n \in T
<1> DEFINE Out == {n \in 0 .. N : n \notin T}
<1>1. SUFFICES ASSUME Out # {} PROVE FALSE
  OBVIOUS
<1>2. Out \in SUBSET Nat
  OBVIOUS
<1>3. Min(Out) \in Out /\ \A y \in Out : Min(Out) <= y
  <2> HIDE DEF Out
  <2> QED BY <1>1, <1>2, MinIsElement
<1>4. PICK m \in Out : \A y \in Out : m <= y
  BY <1>3
<1>5. m \in 0 .. N /\ m \notin T /\ m > 0
  OBVIOUS
<1>6. m - 1 \notin Out /\ m - 1 \in 0 .. N
  BY <1>4, <1>5
<1> QED BY <1>5, <1>6

Steps(N, S) == [1 .. N -> [S -> S]]

(* f[n] is base stepped n times. *)
Iterates(f, N, S, base, step) ==
  /\ f \in [0 .. N -> S] /\ f[0] = base
  /\ \A n \in 1 .. N : f[n] = step[n][f[n - 1]]

(* Whatever the steps, the iteration exists. *)
LEMMA Iteration ==
  ASSUME NEW N \in Nat, NEW S, NEW base \in S, NEW step \in Steps(N, S)
  PROVE  \E f : Iterates(f, N, S, base, step)
<1> step \in [1 .. N -> [S -> S]]
  BY DEF Steps
<1> DEFINE Runs(f, k) == /\ f \in [0 .. k -> S] /\ f[0] = base
                         /\ \A n \in 1 .. k : f[n] = step[n][f[n - 1]]
           T == {k \in 0 .. N : \E f : Runs(f, k)}
<1>1. 0 \in T
  <2>1. Runs([n \in 0 .. 0 |-> base], 0)
    OBVIOUS
  <2> HIDE DEF Runs
  <2> QED BY <2>1
<1>2. ASSUME NEW k \in 0 .. N, k > 0, k - 1 \in T PROVE k \in T
  <2>1. PICK f : Runs(f, k - 1)
    BY <1>2
  <2> DEFINE g == [n \in 0 .. k |-> IF n = k THEN step[k][f[k - 1]] ELSE f[n]]
  <2>2. k \in 1 .. N /\ k - 1 \in 0 .. k - 1 /\ f[k - 1] \in S /\ step[k] \in [S -> S]
    BY <1>2, <2>1
  <2>3. g \in [0 .. k -> S] /\ g[0] = base
    BY <1>2, <2>1, <2>2
  <2>4. ASSUME NEW n \in 1 .. k PROVE g[n] = step[n][g[n - 1]]
    <3>1. CASE n = k
      BY <3>1, <2>2
    <3>2. CASE n # k
      <4>1. n \in 1 .. k - 1 /\ n \in 0 .. k /\ n - 1 \in 0 .. k /\ n - 1 # k
        BY <3>2, <2>2
      <4>2. f[n] = step[n][f[n - 1]]
        BY <2>1, <4>1
      <4> QED BY <4>1, <4>2, <3>2
    <3> QED BY <3>1, <3>2
  <2>5. Runs(g, k)
    BY <2>3, <2>4
  <2> HIDE DEF g, Runs
  <2> QED BY <2>5
<1>3. N \in T
  <2>1. \A n \in 0 .. N : n > 0 /\ n - 1 \in T => n \in T
    BY <1>2
  <2>2. N \in 0 .. N
    OBVIOUS
  <2> HIDE DEF T
  <2>3. \A n \in 0 .. N : n \in T
    BY <1>1, <2>1, UpTo
  <2> QED BY <2>2, <2>3
<1> QED BY <1>3 DEF Iterates

-----------------------------------------------------------------------------
(* Recursion from a state to its parent, whose number is smaller. *)

ParentsBefore(P, N) == P \in [2 .. N -> 1 .. N] /\ \A n \in 2 .. N : P[n] < n

Descends(f, N, S, base, step, P) ==
  /\ f \in [1 .. N -> S] /\ f[1] = base
  /\ \A n \in 2 .. N : f[n] = step[n][f[P[n]]]

LEMMA TreeRecursion ==
  ASSUME NEW N \in Nat, N >= 1, NEW S, NEW base \in S, NEW step \in Steps(N, S),
         NEW P, ParentsBefore(P, N)
  PROVE  \E f : Descends(f, N, S, base, step, P)
<1> DEFINE W == [1 .. N -> S]
           start == [m \in 1 .. N |-> base]
           Entry(n, g) == IF n = 1 THEN base ELSE step[n][g[P[n]]]
           big == [n \in 1 .. N |-> [g \in W |-> [g EXCEPT ![n] = Entry(n, g)]]]
<1>0. /\ \A n \in 2 .. N : P[n] \in 1 .. N /\ P[n] < n /\ n \in 1 .. N
      /\ \A n \in 1 .. N : step[n] \in [S -> S]
      /\ \A n \in 1 .. N : n # 1 => n \in 2 .. N
  BY DEF ParentsBefore, Steps
<1>1. start \in W
  OBVIOUS
<1>2. big \in Steps(N, W)
  <2>1. ASSUME NEW n \in 1 .. N, NEW g \in W PROVE [g EXCEPT ![n] = Entry(n, g)] \in W
    <3>1. Entry(n, g) \in S
      BY <1>0
    <3> HIDE DEF Entry
    <3> QED BY <3>1
  <2> HIDE DEF Entry, W
  <2> QED BY <2>1 DEF Steps
<1>3. PICK g : Iterates(g, N, W, start, big)
  <2> HIDE DEF W, start, big
  <2> QED BY <1>1, <1>2, Iteration
<1>4. ASSUME NEW n \in 1 .. N
      PROVE  g[n - 1] \in W /\ g[n] = [g[n - 1] EXCEPT ![n] = Entry(n, g[n - 1])]
  <2>1. n - 1 \in 0 .. N
    OBVIOUS
  <2>2. g[n - 1] \in W /\ g[n] = big[n][g[n - 1]]
    <3> HIDE DEF W, start, big
    <3> QED BY <1>3, <2>1 DEF Iterates
  <2>3. big[n][g[n - 1]] = [g[n - 1] EXCEPT ![n] = Entry(n, g[n - 1])]
    <3> HIDE DEF Entry, W
    <3> QED BY <2>2
  <2> QED BY <2>2, <2>3
<1> DEFINE Good(n) == \A m \in 1 .. n : g[n][m] = Entry(m, g[n])
           T == {n \in 0 .. N : Good(n)}
<1>5. 0 \in T
  OBVIOUS
<1>6. ASSUME NEW n \in 0 .. N, n > 0, n - 1 \in T PROVE n \in T
  <2> DEFINE old == g[n - 1]
             new == g[n]
  <2>0. n \in 1 .. N
    BY <1>6
  <2>1. old \in W /\ new = [old EXCEPT ![n] = Entry(n, old)]
    BY <1>4, <2>0
  <2>2. \A m \in 1 .. n - 1 : old[m] = Entry(m, old)
    BY <1>6
  <2> HIDE DEF old, new, Entry
  <2>3. new[n] = Entry(n, old) /\ \A m \in 1 .. N : m # n => new[m] = old[m]
    BY <2>0, <2>1
  <2>4. ASSUME NEW m \in 1 .. n PROVE Entry(m, new) = Entry(m, old)
    <3>1. CASE m = 1
      BY <3>1 DEF Entry
    <3>2. CASE m # 1
      <4>1. P[m] \in 1 .. N /\ P[m] # n
        BY <1>0, <2>0, <3>2
      <4> QED BY <4>1, <2>3, <3>2 DEF Entry
    <3> QED BY <3>1, <3>2
  <2>5. ASSUME NEW m \in 1 .. n PROVE new[m] = Entry(m, new)
    <3>1. CASE m = n
      BY <3>1, <2>3, <2>4
    <3>2. CASE m # n
      <4>1. m \in 1 .. n - 1 /\ m \in 1 .. N
        BY <3>2, <2>0
      <4> QED BY <4>1, <3>2, <2>2, <2>3, <2>4
    <3> QED BY <3>1, <3>2
  <2>6. Good(n)
    BY <2>5 DEF new
  <2> QED BY <2>6
<1>7. N \in T
  <2> HIDE DEF T
  <2>1. \A n \in 0 .. N : n \in T
    BY <1>5, <1>6, UpTo
  <2> QED BY <2>1
<1>8. g[N] \in W
  <2> HIDE DEF W, start, big
  <2> QED BY <1>3 DEF Iterates
<1>9. Descends(g[N], N, S, base, step, P)
  <2> DEFINE f == g[N]
  <2>1. f \in W /\ \A m \in 1 .. N : f[m] = Entry(m, f)
    BY <1>7, <1>8
  <2> HIDE DEF f
  <2>2. f[1] = base /\ \A m \in 2 .. N : f[m] = step[m][f[P[m]]]
    BY <2>1, <1>0
  <2>3. Descends(f, N, S, base, step, P)
    BY <2>1, <2>2 DEF Descends
  <2> QED BY <2>3 DEF f
<1> QED BY <1>9

-----------------------------------------------------------------------------
(* FlattenSeq, in whose recursion every prefix of the sequences has its    *)
(* concatenation.                                                          *)
Flattens(flat, S, seqs) ==
  /\ flat \in [0 .. Len(seqs) -> Seq(S)]
  /\ flat[0] = <<>> /\ FlattenSeq(seqs) = flat[Len(seqs)]
  /\ \A n \in 1 .. Len(seqs) : flat[n] = flat[n - 1] \o seqs[n]

ListOfSeqs(seqs, S) == seqs \in Seq(Seq(S))

LEMMA FlattenSteps ==
  ASSUME NEW S, NEW seqs, ListOfSeqs(seqs, S)
  PROVE  \E flat : Flattens(flat, S, seqs)
<1> DEFINE N == Len(seqs)
           Q == Seq(S)
           nil == <<>>
           step == [n \in 1 .. N |-> [q \in Seq(S) |-> q \o seqs[n]]]
           Rec(k) == [n \in 1 .. N |-> IF n = 1 THEN seqs[n] ELSE k[n - 1] \o seqs[n]]
           kept == CHOOSE k : k = Rec(k)
<1>1. /\ N \in Nat /\ nil \in Q /\ step \in Steps(N, Q)
      /\ \A n \in 1 .. N : seqs[n] \in Seq(S)
  BY DEF Steps, ListOfSeqs
<1>2. PICK f : f \in [0 .. N -> Q] /\ f[0] = nil /\ \A n \in 1 .. N : f[n] = step[n][f[n - 1]]
  <2>1. \E f : Iterates(f, N, Q, nil, step)
    <3> HIDE DEF step, N, Q, nil
    <3> QED BY <1>1, Iteration
  <2> QED BY <2>1 DEF Iterates
<1>3. ASSUME NEW n \in 1 .. N
      PROVE  f[n] = f[n - 1] \o seqs[n] /\ f[n - 1] \in Q /\ f[n] \in Q
  <2>1. n - 1 \in 0 .. N /\ n \in 0 .. N
    <3> HIDE DEF N
    <3> QED BY <1>1
  <2>2. f[n] = step[n][f[n - 1]] /\ f[n - 1] \in Q /\ f[n] \in Q
    <3> HIDE DEF N, Q, step
    <3> QED BY <1>2, <2>1
  <2>3. step[n][f[n - 1]] = f[n - 1] \o seqs[n]
    <3> HIDE DEF N
    <3> QED BY <2>2
  <2> HIDE DEF N, Q, step
  <2> QED BY <2>2, <2>3
<1> DEFINE g == [n \in 1 .. N |-> f[n]]
<1>4. g = Rec(g)
  <2>2. ASSUME NEW n \in 1 .. N
        PROVE  f[n] = IF n = 1 THEN seqs[n] ELSE g[n - 1] \o seqs[n]
    <3>1. CASE n = 1
      <4>1. f[0] = <<>> /\ f[1] = f[0] \o seqs[1] /\ seqs[1] \in Seq(S)
        <5> HIDE DEF N, g
        <5>1. f[1] = f[1 - 1] \o seqs[1] /\ seqs[1] \in Seq(S)
          BY <1>3, <1>1, <3>1
        <5>2. f[0] = <<>> /\ 1 - 1 = 0
          BY <1>2
        <5> QED BY <5>1, <5>2, Zenon
      <4> HIDE DEF N
      <4> QED BY <4>1, <3>1, ConcatEmptySeq
    <3>2. CASE n # 1
      <4>1. n - 1 \in 1 .. N
        BY <1>1, <3>2
      <4>2. g[n - 1] = f[n - 1]
        BY <4>1
      <4> HIDE DEF N, g
      <4> QED BY <4>2, <1>3, <3>2
    <3> QED BY <3>1, <3>2
  <2> HIDE DEF N
  <2> QED BY <2>2, Zenon
<1>5. kept = Rec(kept)
  <2> HIDE DEF Rec, g
  <2> QED BY <1>4
<1>6. ASSUME NEW n \in 1 .. N
      PROVE  kept[n] = IF n = 1 THEN seqs[n] ELSE kept[n - 1] \o seqs[n]
  <2> HIDE DEF kept, N
  <2> QED BY <1>5
<1>7. \A n \in 0 .. N : n \in {m \in 0 .. N : m > 0 => kept[m] = f[m]}
  <2> DEFINE T == {m \in 0 .. N : m > 0 => kept[m] = f[m]}
  <2>1. 0 \in T
    BY <1>1
  <2>2. ASSUME NEW n \in 0 .. N, n > 0, n - 1 \in T PROVE n \in T
    <3>0. n \in 1 .. N
      BY <2>2, <1>1
    <3>1. CASE n = 1
      <4>1. f[0] = <<>> /\ f[1] = f[0] \o seqs[1] /\ seqs[1] \in Seq(S)
        <5> HIDE DEF N, kept
        <5>1. f[1] = f[1 - 1] \o seqs[1] /\ seqs[1] \in Seq(S)
          BY <1>3, <1>1, <3>1, <3>0
        <5>2. f[0] = <<>> /\ 1 - 1 = 0
          BY <1>2
        <5> QED BY <5>1, <5>2, Zenon
      <4>2. kept[1] = seqs[1]
        <5> HIDE DEF N, kept
        <5> QED BY <1>6, <3>0, <3>1
      <4> HIDE DEF N, kept
      <4> QED BY <4>1, <4>2, <3>1, ConcatEmptySeq
    <3>2. CASE n # 1
      <4>1. n - 1 > 0
        BY <3>0, <3>2, <1>1
      <4>2. kept[n - 1] = f[n - 1]
        BY <4>1, <2>2
      <4>3. kept[n] = kept[n - 1] \o seqs[n]
        BY <1>6, <3>0, <3>2
      <4>4. f[n] = f[n - 1] \o seqs[n]
        BY <1>3, <3>0
      <4> HIDE DEF N, kept
      <4> QED BY <4>2, <4>3, <4>4
    <3> QED BY <3>1, <3>2
  <2> HIDE DEF T
  <2>3. \A n \in 0 .. N : n \in T
    BY <1>1, <2>1, <2>2, UpTo
  <2> QED BY <2>3 DEF T
<1>8. FlattenSeq(seqs) = f[N]
  <2>1. CASE N = 0
    <3>1. seqs = <<>>
      BY <2>1, EmptySeq DEF ListOfSeqs
    <3> QED BY <3>1, <2>1, <1>2 DEF FlattenSeq
  <2>2. CASE N # 0
    <3>1. FlattenSeq(seqs) = kept[N]
      BY <2>2 DEF FlattenSeq
    <3>2. N \in 0 .. N /\ N > 0
      BY <1>1, <2>2
    <3> HIDE DEF N, kept
    <3> QED BY <3>1, <3>2, <1>7
  <2> QED BY <2>1, <2>2
<1>9. Flattens(f, S, seqs)
  BY <1>2, <1>3, <1>8 DEF Flattens
<1> QED BY <1>9

(* Whatever is in one of the sequences is in the flat one. *)
LEMMA FlattenContains ==
  ASSUME NEW S, NEW seqs, ListOfSeqs(seqs, S),
         NEW k \in 1 .. Len(seqs), NEW i \in 1 .. Len(seqs[k])
  PROVE  seqs[k][i] \in ToSet(FlattenSeq(seqs))
<1>1. PICK flat : Flattens(flat, S, seqs)
  BY FlattenSteps
<1> DEFINE N == Len(seqs)
           T == {n \in 0 .. N : n >= k => seqs[k][i] \in ToSet(flat[n])}
<1>2. /\ N \in Nat /\ flat \in [0 .. N -> Seq(S)] /\ FlattenSeq(seqs) = flat[N]
      /\ \A n \in 1 .. N : flat[n] = flat[n - 1] \o seqs[n] /\ seqs[n] \in Seq(S)
  <2>1. seqs \in Seq(Seq(S)) /\ N \in Nat
    BY DEF ListOfSeqs
  <2>2. \A n \in 1 .. N : seqs[n] \in Seq(S)
    BY <2>1
  <2> QED BY <1>1, <2>1, <2>2 DEF Flattens
<1>3. 0 \in T
  BY <1>2
<1>4. ASSUME NEW n \in 0 .. N, n > 0, n - 1 \in T PROVE n \in T
  <2>1. n \in 1 .. N /\ n - 1 \in 0 .. N
    BY <1>2, <1>4
  <2>2. flat[n - 1] \in Seq(S) /\ seqs[n] \in Seq(S) /\ flat[n] = flat[n - 1] \o seqs[n]
    BY <1>2, <2>1
  <2>3. CASE n = k
    <3> DEFINE p == flat[n - 1]
               q == seqs[n]
    <3>1. /\ p \in Seq(S) /\ q \in Seq(S) /\ flat[n] = p \o q /\ i \in 1 .. Len(q)
          /\ q[i] = seqs[k][i]
      BY <2>2, <2>3
    <3> HIDE DEF p, q
    <3>2. /\ p \o q \in Seq(S) /\ (p \o q)[Len(p) + i] = q[i]
          /\ Len(p) + i \in 1 .. Len(p \o q)
      BY <3>1
    <3>3. q[i] \in ToSet(p \o q)
      BY <3>2 DEF ToSet
    <3> QED BY <3>1, <3>3, <2>3
  <2>4. CASE n > k
    <3>1. seqs[k][i] \in ToSet(flat[n - 1])
      BY <1>4, <2>1, <2>4
    <3> DEFINE p == flat[n - 1]
               q == seqs[n]
    <3>2. p \in Seq(S) /\ q \in Seq(S) /\ flat[n] = p \o q /\ seqs[k][i] \in ToSet(p)
      BY <2>2, <3>1
    <3> HIDE DEF p, q
    <3>0. DOMAIN p = 1 .. Len(p)
      BY <3>2
    <3>3. PICK j \in 1 .. Len(p) : seqs[k][i] = p[j]
      BY <3>0, <3>2 DEF ToSet
    <3>4. p \o q \in Seq(S) /\ (p \o q)[j] = p[j] /\ j \in 1 .. Len(p \o q)
      BY <3>2
    <3>5. seqs[k][i] \in ToSet(flat[n])
      BY <3>2, <3>3, <3>4 DEF ToSet
    <3> QED BY <3>5
  <2> QED BY <2>1, <2>3, <2>4
<1>5. \A n \in 0 .. N : n \in T
  <2> HIDE DEF T, N
  <2> QED BY <1>2, <1>3, <1>4, UpTo
<1>6. N \in T /\ N >= k
  BY <1>5, <1>2
<1> QED BY <1>6, <1>2

(* ... and nothing else. *)
LEMMA FlattenHoldsOnly ==
  ASSUME NEW S, NEW seqs, ListOfSeqs(seqs, S)
  PROVE  FlattenSeq(seqs) \in Seq(S)
<1>1. PICK flat : Flattens(flat, S, seqs)
  BY FlattenSteps
<1>2. Len(seqs) \in 0 .. Len(seqs)
  BY DEF ListOfSeqs
<1> QED BY <1>1, <1>2 DEF Flattens

(* The elements of two sequences in a row. *)
LEMMA ToSetOfConcat ==
  ASSUME NEW S, NEW p \in Seq(S), NEW q \in Seq(S)
  PROVE  ToSet(p \o q) = ToSet(p) \cup ToSet(q)
<1>1. /\ p \o q \in Seq(S) /\ DOMAIN p = 1 .. Len(p) /\ DOMAIN q = 1 .. Len(q)
      /\ DOMAIN (p \o q) = 1 .. Len(p) + Len(q) /\ Len(p) \in Nat /\ Len(q) \in Nat
  OBVIOUS
<1>2. \A i \in 1 .. Len(p) : (p \o q)[i] = p[i] /\ i \in DOMAIN (p \o q)
  BY <1>1
<1>3. \A i \in 1 .. Len(q) : (p \o q)[Len(p) + i] = q[i] /\ Len(p) + i \in DOMAIN (p \o q)
  BY <1>1
<1>4. ASSUME NEW i \in DOMAIN (p \o q)
      PROVE  (p \o q)[i] \in ToSet(p) \cup ToSet(q)
  <2>1. CASE i \in 1 .. Len(p)
    BY <2>1, <1>1, <1>2 DEF ToSet
  <2>2. CASE i \notin 1 .. Len(p)
    <3>1. i - Len(p) \in 1 .. Len(q) /\ Len(p) + (i - Len(p)) = i
      BY <2>2, <1>1
    <3>2. (p \o q)[i] = q[i - Len(p)]
      BY <3>1, <1>3
    <3> QED BY <3>1, <3>2, <1>1 DEF ToSet
  <2> QED BY <2>1, <2>2
<1>5. \A x \in ToSet(p) : x \in ToSet(p \o q)
  BY <1>1, <1>2, Zenon DEF ToSet
<1>6. \A x \in ToSet(q) : x \in ToSet(p \o q)
  BY <1>1, <1>3, Zenon DEF ToSet
<1>7. \A x \in ToSet(p \o q) : x \in ToSet(p) \cup ToSet(q)
  BY <1>4, Zenon DEF ToSet
<1> QED BY <1>5, <1>6, <1>7

(* What is left of a sequence, and its head, are all of it. *)
LEMMA ToSetOfTail ==
  ASSUME NEW S, NEW q \in Seq(S), q # <<>>
  PROVE  /\ Tail(q) \in Seq(S) /\ Head(q) \in S
         /\ ToSet(q) = {Head(q)} \cup ToSet(Tail(q))
<1>1. /\ Tail(q) \in Seq(S) /\ Head(q) \in S /\ Head(q) = q[1] /\ Len(q) \in Nat /\ Len(q) > 0
      /\ DOMAIN q = 1 .. Len(q) /\ DOMAIN Tail(q) = 1 .. Len(q) - 1
      /\ \A i \in 1 .. Len(q) - 1 : Tail(q)[i] = q[i + 1]
  OBVIOUS
<1>2. ASSUME NEW i \in DOMAIN q PROVE q[i] \in {Head(q)} \cup ToSet(Tail(q))
  <2>1. CASE i = 1
    BY <2>1, <1>1
  <2>2. CASE i # 1
    <3>1. i - 1 \in DOMAIN Tail(q) /\ Tail(q)[i - 1] = q[i]
      <4>1. i - 1 \in 1 .. Len(q) - 1 /\ (i - 1) + 1 = i
        BY <2>2, <1>1
      <4> QED BY <4>1, <1>1
    <3> QED BY <3>1 DEF ToSet
  <2> QED BY <2>1, <2>2
<1>3. ASSUME NEW i \in DOMAIN Tail(q) PROVE Tail(q)[i] \in ToSet(q)
  <2>1. i + 1 \in DOMAIN q /\ Tail(q)[i] = q[i + 1]
    BY <1>1
  <2> QED BY <2>1 DEF ToSet
<1>4. Head(q) \in ToSet(q)
  <2>1. 1 \in DOMAIN q
    BY <1>1
  <2> QED BY <1>1, <2>1 DEF ToSet
<1>5. \A x \in ToSet(q) : x \in {Head(q)} \cup ToSet(Tail(q))
  BY <1>2, Zenon DEF ToSet
<1>6. \A x \in ToSet(Tail(q)) : x \in ToSet(q)
  BY <1>3, Zenon DEF ToSet
<1> QED BY <1>1, <1>4, <1>5, <1>6

-----------------------------------------------------------------------------
(* Where each sequence lies in the flat one: after what the sequences      *)
(* before it take, which a flattening of those alone has too.              *)

Laid(flat, S, seqs) ==
  /\ Len(seqs) \in Nat /\ flat[0] = <<>> /\ FlattenSeq(seqs) = flat[Len(seqs)]
  /\ \A n \in 0 .. Len(seqs) : flat[n] \in Seq(S)
  /\ \A n \in 1 .. Len(seqs) : seqs[n] \in Seq(S)
  /\ \A n \in 1 .. Len(seqs) : flat[n] = flat[n - 1] \o seqs[n]

LEMMA FlattenParts ==
  ASSUME NEW S, NEW seqs, ListOfSeqs(seqs, S), NEW flat, Flattens(flat, S, seqs)
  PROVE  Laid(flat, S, seqs)
<1>1. Len(seqs) \in Nat /\ \A n \in 1 .. Len(seqs) : seqs[n] \in Seq(S)
  BY DEF ListOfSeqs
<1>2. flat \in [0 .. Len(seqs) -> Seq(S)] /\ flat[0] = <<>>
      /\ FlattenSeq(seqs) = flat[Len(seqs)]
  BY DEF Flattens
<1>3. \A n \in 1 .. Len(seqs) : flat[n] = flat[n - 1] \o seqs[n]
  BY DEF Flattens
<1>4. \A n \in 0 .. Len(seqs) : flat[n] \in Seq(S)
  BY <1>2
<1> QED BY <1>1, <1>2, <1>3, <1>4 DEF Laid

Extends(q, p) == Len(p) <= Len(q) /\ \A i \in 1 .. Len(p) : q[i] = p[i]

LEMMA FlattenGrows ==
  ASSUME NEW S, NEW seqs, ListOfSeqs(seqs, S), NEW flat, Flattens(flat, S, seqs),
         NEW k \in 0 .. Len(seqs)
  PROVE  \A n \in k .. Len(seqs) : Extends(flat[n], flat[k])
<1> DEFINE N == Len(seqs)
           T == {n \in 0 .. N : n >= k => Extends(flat[n], flat[k])}
<1>0. Laid(flat, S, seqs)
  BY FlattenParts
<1>1. /\ N \in Nat /\ k \in 0 .. N /\ \A n \in 0 .. N : flat[n] \in Seq(S)
      /\ \A n \in 1 .. N : seqs[n] \in Seq(S)
      /\ \A n \in 1 .. N : flat[n] = flat[n - 1] \o seqs[n]
  BY <1>0 DEF Laid
<1>2. Extends(flat[k], flat[k])
  <2>1. flat[k] \in Seq(S)
    BY <1>1
  <2> QED BY <2>1 DEF Extends
<1>3. 0 \in T
  <2>1. 0 >= k => k = 0
    BY <1>1
  <2> QED BY <2>1, <1>1, <1>2
<1>4. ASSUME NEW n \in 0 .. N, n > 0, n - 1 \in T PROVE n \in T
  <2>1. CASE n <= k
    <3>1. n >= k => n = k
      BY <2>1, <1>1
    <3> QED BY <3>1, <1>2
  <2>2. CASE n > k
    <3>1. n - 1 >= k /\ n \in 1 .. N /\ n - 1 \in 0 .. N
      BY <2>2, <1>1
    <3>2. Extends(flat[n - 1], flat[k])
      BY <1>4, <3>1
    <3> DEFINE p == flat[n - 1]
               s == seqs[n]
               b == flat[k]
    <3>3. p \in Seq(S) /\ s \in Seq(S) /\ b \in Seq(S) /\ flat[n] = p \o s
      BY <1>1, <3>1
    <3>4. Len(b) <= Len(p) /\ \A i \in 1 .. Len(b) : p[i] = b[i]
      BY <3>2 DEF Extends
    <3> HIDE DEF p, s, b
    <3>5. /\ Len(p \o s) = Len(p) + Len(s) /\ Len(p) \in Nat /\ Len(s) \in Nat /\ Len(b) \in Nat
          /\ \A i \in 1 .. Len(p) : (p \o s)[i] = p[i]
      BY <3>3
    <3>6. Extends(p \o s, b)
      BY <3>4, <3>5 DEF Extends
    <3>7. Extends(flat[n], flat[k])
      BY <3>3, <3>6 DEF b
    <3> QED BY <3>7
  <2> QED BY <2>1, <2>2, <1>1
<1>5. \A n \in 0 .. N : n \in T
  <2> HIDE DEF T, N
  <2> QED BY <1>1, <1>3, <1>4, UpTo
<1>6. \A n \in k .. N : n \in 0 .. N /\ n >= k
  BY <1>1
<1> QED BY <1>5, <1>6

Lies(flat, seqs, k) ==
  /\ Len(flat[k - 1]) \in Nat /\ Len(flat[k]) \in Nat
  /\ Len(flat[k - 1]) <= Len(flat[k]) /\ Len(flat[k]) <= Len(FlattenSeq(seqs))
  /\ SubSeq(FlattenSeq(seqs), Len(flat[k - 1]) + 1, Len(flat[k])) = seqs[k]

LEMMA FlattenSlice ==
  ASSUME NEW S, NEW seqs, ListOfSeqs(seqs, S), NEW flat, Flattens(flat, S, seqs),
         NEW k \in 1 .. Len(seqs)
  PROVE  Lies(flat, seqs, k)
<1> DEFINE N == Len(seqs)
           all == FlattenSeq(seqs)
           p == flat[k - 1]
           s == seqs[k]
<1>0. Laid(flat, S, seqs)
  BY FlattenParts
<1>1. /\ N \in Nat /\ k \in 1 .. N /\ k \in 0 .. N /\ k - 1 \in 0 .. N /\ N \in k .. N
      /\ \A n \in 0 .. N : flat[n] \in Seq(S)
      /\ s \in Seq(S) /\ flat[k] = p \o s /\ all = flat[N]
  <2>1. N \in Nat
    BY <1>0 DEF Laid
  <2>2. k \in 1 .. N /\ k \in 0 .. N /\ k - 1 \in 0 .. N /\ N \in k .. N
    BY <2>1
  <2> QED BY <1>0, <2>1, <2>2 DEF Laid
<1>2. p \in Seq(S) /\ s \in Seq(S) /\ all \in Seq(S) /\ flat[k] = p \o s
  <2>1. N \in 0 .. N
    BY <1>1
  <2> QED BY <1>1, <2>1
<1>3. Extends(all, flat[k])
  <2>1. \A n \in k .. N : Extends(flat[n], flat[k])
    BY <1>1, FlattenGrows
  <2> QED BY <1>1, <2>1
<1> HIDE DEF all, p, s
<1>4. /\ Len(flat[k]) = Len(p) + Len(s) /\ Len(p) \in Nat /\ Len(s) \in Nat /\ Len(all) \in Nat
      /\ \A i \in 1 .. Len(s) : flat[k][Len(p) + i] = s[i]
  BY <1>2
<1>5. Len(flat[k]) <= Len(all) /\ \A i \in 1 .. Len(flat[k]) : all[i] = flat[k][i]
  BY <1>3 DEF Extends
<1>6. \A i \in 1 .. Len(s) : all[Len(p) + i] = s[i]
  <2>1. \A i \in 1 .. Len(s) : Len(p) + i \in 1 .. Len(flat[k])
    BY <1>4
  <2> QED BY <2>1, <1>4, <1>5
<1>7. SubSeq(all, Len(p) + 1, Len(flat[k])) = s
  <2> DEFINE a == Len(p) + 1
             b == Len(flat[k])
             u == SubSeq(all, a, b)
  <2>1. a \in Int /\ b \in Int /\ b - a + 1 = Len(s) /\ \A i \in a .. b : all[i] \in S
    <3>1. \A i \in a .. b : i \in 1 .. Len(all)
      BY <1>4, <1>5
    <3>2. a \in Int /\ b \in Int /\ b - a + 1 = Len(s)
      BY <1>4
    <3> HIDE DEF a, b
    <3> QED BY <3>1, <3>2, <1>2
  <2> HIDE DEF a, b
  <2>2. /\ u \in Seq(S) /\ Len(u) = (IF a <= b THEN b - a + 1 ELSE 0)
        /\ \A i \in 1 .. b - a + 1 : u[i] = all[a + i - 1]
    BY <2>1, SubSeqProperties
  <2>3. Len(u) = Len(s)
    BY <2>1, <2>2, <1>4
  <2>4. \A i \in 1 .. Len(s) : a + i - 1 = Len(p) + i
    BY <1>4 DEF a
  <2> HIDE DEF u
  <2>5. \A i \in 1 .. Len(u) : u[i] = s[i]
    BY <2>1, <2>2, <2>3, <2>4, <1>6
  <2>6. u = s
    BY <2>2, <2>3, <2>5, <1>2, SeqEqual
  <2> QED BY <2>6 DEF u, a, b
<1>8. /\ Len(p) \in Nat /\ Len(flat[k]) \in Nat /\ Len(p) <= Len(flat[k])
      /\ Len(flat[k]) <= Len(all)
  BY <1>4, <1>5
<1> QED BY <1>7, <1>8 DEF all, p, s, Lies

LEMMA FlattenPrefix ==
  ASSUME NEW S, NEW seqs, ListOfSeqs(seqs, S), NEW flat, Flattens(flat, S, seqs),
         NEW k \in 0 .. Len(seqs)
  PROVE  FlattenSeq(SubSeq(seqs, 1, k)) = flat[k]
<1> DEFINE N == Len(seqs)
           part == SubSeq(seqs, 1, k)
<1>0. Laid(flat, S, seqs) /\ seqs \in Seq(Seq(S))
  BY FlattenParts DEF ListOfSeqs
<1>1. /\ N \in Nat /\ seqs \in Seq(Seq(S)) /\ k \in 0 .. N
      /\ flat[0] = <<>> /\ \A n \in 1 .. N : flat[n] = flat[n - 1] \o seqs[n]
  BY <1>0 DEF Laid
<1>2. part \in Seq(Seq(S)) /\ Len(part) = k /\ \A i \in 1 .. k : part[i] = seqs[i]
  <2>1. 1 \in Int /\ k \in Int /\ \A i \in 1 .. k : seqs[i] \in Seq(S)
    BY <1>1
  <2>2. /\ part \in Seq(Seq(S)) /\ Len(part) = (IF 1 <= k THEN k - 1 + 1 ELSE 0)
        /\ \A i \in 1 .. k - 1 + 1 : part[i] = seqs[1 + i - 1]
    BY <2>1, SubSeqProperties
  <2>3. \A i \in 1 .. k : i \in 1 .. k - 1 + 1 /\ 1 + i - 1 = i
    BY <1>1
  <2> HIDE DEF part
  <2> QED BY <1>1, <2>2, <2>3
<1> HIDE DEF part
<1>3. PICK own : Flattens(own, S, part)
  <2>1. ListOfSeqs(part, S)
    BY <1>2 DEF ListOfSeqs
  <2> QED BY <2>1, FlattenSteps
<1>4. /\ own[0] = <<>> /\ FlattenSeq(part) = own[k]
      /\ \A n \in 1 .. k : own[n] = own[n - 1] \o part[n]
  BY <1>2, <1>3 DEF Flattens
<1> DEFINE T == {n \in 0 .. k : own[n] = flat[n]}
<1>5. 0 \in T
  BY <1>1, <1>4
<1>6. ASSUME NEW n \in 0 .. k, n > 0, n - 1 \in T PROVE n \in T
  <2>1. n \in 1 .. k /\ n \in 1 .. N /\ own[n - 1] = flat[n - 1]
    BY <1>1, <1>6
  <2>2. own[n] = flat[n]
    BY <2>1, <1>1, <1>2, <1>4
  <2> QED BY <2>2
<1>7. \A n \in 0 .. k : n \in T
  <2>1. k \in Nat
    BY <1>1
  <2> HIDE DEF T
  <2> QED BY <2>1, <1>5, <1>6, UpTo
<1>8. k \in T
  <2> HIDE DEF T
  <2> QED BY <1>1, <1>7
<1> QED BY <1>4, <1>8 DEF part

(* Of sequences of length two, each has two places. *)
LEMMA FlattenPairs ==
  ASSUME NEW S, NEW pairs, ListOfSeqs(pairs, S), \A k \in 1 .. Len(pairs) : Len(pairs[k]) = 2
  PROVE  /\ FlattenSeq(pairs) \in Seq(S) /\ Len(FlattenSeq(pairs)) = 2 * Len(pairs)
         /\ \A k \in 1 .. Len(pairs) : /\ FlattenSeq(pairs)[2 * k - 1] = pairs[k][1]
                                       /\ FlattenSeq(pairs)[2 * k] = pairs[k][2]
<1> DEFINE N == Len(pairs)
           all == FlattenSeq(pairs)
<1>1. PICK flat : Flattens(flat, S, pairs)
  BY FlattenSteps
<1>2. Laid(flat, S, pairs)
  BY <1>1, FlattenParts
<1>3. /\ N \in Nat /\ flat[0] = <<>> /\ all = flat[N] /\ \A n \in 0 .. N : flat[n] \in Seq(S)
      /\ \A n \in 1 .. N : pairs[n] \in Seq(S)
      /\ \A n \in 1 .. N : flat[n] = flat[n - 1] \o pairs[n]
  BY <1>2 DEF Laid
<1> DEFINE T == {n \in 0 .. N : Len(flat[n]) = 2 * n}
<1>4. 0 \in T
  BY <1>3
<1>5. ASSUME NEW n \in 0 .. N, n > 0, n - 1 \in T PROVE n \in T
  <2>1. n \in 1 .. N /\ n - 1 \in 0 .. N /\ Len(flat[n - 1]) = 2 * (n - 1)
    BY <1>3, <1>5
  <2>2. /\ flat[n - 1] \in Seq(S) /\ pairs[n] \in Seq(S) /\ Len(pairs[n]) = 2
        /\ flat[n] = flat[n - 1] \o pairs[n]
    BY <2>1, <1>3
  <2>3. Len(flat[n]) = Len(flat[n - 1]) + 2
    <3> DEFINE p == flat[n - 1]
               s == pairs[n]
    <3>1. p \in Seq(S) /\ s \in Seq(S) /\ Len(s) = 2 /\ flat[n] = p \o s
      BY <2>2
    <3> HIDE DEF p, s
    <3>2. Len(p \o s) = Len(p) + 2
      <4>1. Len(p \o s) = Len(p) + Len(s)
        BY <3>1, ConcatProperties
      <4> QED BY <4>1, <3>1
    <3> QED BY <3>1, <3>2 DEF p
  <2>4. Len(flat[n]) = 2 * n
    BY <2>1, <2>3
  <2> QED BY <2>4
<1>6. \A n \in 0 .. N : n \in T
  <2> HIDE DEF T, N
  <2> QED BY <1>3, <1>4, <1>5, UpTo
<1>7. \A n \in 0 .. N : Len(flat[n]) = 2 * n
  BY <1>6
<1>8. N \in 0 .. N
  BY <1>3
<1>9. all \in Seq(S) /\ Len(all) = 2 * N
  BY <1>3, <1>7, <1>8
<1>10. ASSUME NEW k \in 1 .. N
       PROVE  all[2 * k - 1] = pairs[k][1] /\ all[2 * k] = pairs[k][2]
  <2>1. SubSeq(all, Len(flat[k - 1]) + 1, Len(flat[k])) = pairs[k]
    <3>1. Lies(flat, pairs, k)
      BY <1>1, FlattenSlice
    <3> QED BY <3>1 DEF Lies
  <2>2. k - 1 \in 0 .. N /\ k \in 0 .. N
    BY <1>3
  <2>3. Len(flat[k - 1]) + 1 = 2 * k - 1 /\ Len(flat[k]) = 2 * k
    <3>1. Len(flat[k - 1]) = 2 * (k - 1) /\ Len(flat[k]) = 2 * k
      BY <2>2, <1>7
    <3> HIDE DEF N
    <3> QED BY <3>1
  <2>4. SubSeq(all, 2 * k - 1, 2 * k) = pairs[k]
    BY <2>1, <2>3
  <2> DEFINE a == 2 * k - 1
             b == 2 * k
             u == SubSeq(all, a, b)
  <2>5. a \in Int /\ b \in Int /\ b - a + 1 = 2 /\ \A i \in a .. b : all[i] \in S
    <3>1. \A i \in a .. b : i \in 1 .. Len(all)
      BY <1>3, <1>9
    <3>2. a \in Int /\ b \in Int /\ b - a + 1 = 2
      OBVIOUS
    <3> HIDE DEF a, b, all
    <3> QED BY <3>1, <3>2, <1>9
  <2>6. u[1] = all[a] /\ u[2] = all[b]
    <3> HIDE DEF a, b, all
    <3>1. \A i \in 1 .. b - a + 1 : SubSeq(all, a, b)[i] = all[a + i - 1]
      BY <2>5, SubSeqProperties
    <3>2. 1 \in 1 .. b - a + 1 /\ 2 \in 1 .. b - a + 1 /\ a + 1 - 1 = a /\ a + 2 - 1 = b
      BY <2>5
    <3> QED BY <3>1, <3>2
  <2> HIDE DEF all
  <2> QED BY <2>4, <2>6
<1> QED BY <1>9, <1>10

(* Row and column of a place in a square table. *)
LEMMA DivMod ==
  ASSUME NEW n \in Nat, n >= 1, NEW a \in 0 .. n - 1, NEW r \in 0 .. n - 1
  PROVE  /\ (a * n + r) \div n = a /\ (a * n + r) % n = r
         /\ a * n + r \in 0 .. n * n - 1
<1>1. a * n \in Nat /\ a * n + n <= n * n
  <2>1. (a + 1) * n <= n * n
    BY SMTT(20)
  <2>2. (a + 1) * n = a * n + n /\ a * n \in Nat
    BY SMTT(20)
  <2> QED BY <2>1, <2>2
<1>2. a * n + r \in 0 .. n * n - 1
  BY <1>1
<1> DEFINE x == a * n + r
           q == x \div n
           m == x % n
<1>3. q \in Int /\ m \in 0 .. n - 1 /\ x = n * q + m
  BY <1>2, SMTT(20)
<1>4. n * (q - a) = r - m
  BY <1>3, SMTT(20)
<1> HIDE DEF x, q, m
<1>5. q = a
  <2>1. CASE q - a >= 1
    <3>1. n * (q - a) >= n
      BY <2>1, <1>3, SMTT(20)
    <3> QED BY <3>1, <1>3, <1>4
  <2>2. CASE q - a <= 0 - 1
    <3>1. n * (q - a) <= 0 - n
      BY <2>2, <1>3, SMTT(20)
    <3> QED BY <3>1, <1>3, <1>4
  <2> QED BY <2>1, <2>2, <1>3
<1>6. m = r
  BY <1>3, <1>4, <1>5
<1> QED BY <1>2, <1>5, <1>6 DEF x, q, m

LEMMA DivRange ==
  ASSUME NEW n \in Nat, n >= 1, NEW x \in 0 .. n * n - 1
  PROVE  x \div n \in 0 .. n - 1 /\ x % n \in 0 .. n - 1
<1> DEFINE q == x \div n
           m == x % n
<1>0. n * n \in Nat /\ x \in Nat /\ x < n * n
  BY SMTT(20)
<1>1. q \in Int /\ m \in 0 .. n - 1 /\ x = n * q + m
  BY <1>0, SMTT(20)
<1> HIDE DEF q, m
<1>2. q <= n - 1
  <2>1. SUFFICES ASSUME q >= n PROVE FALSE
    BY <1>1
  <2>2. n * q >= n * n
    BY <2>1, <1>1, SMTT(20)
  <2>3. n * q \in Int
    BY <1>1
  <2> QED BY <2>2, <2>3, <1>0, <1>1
<1>3. q >= 0
  <2>1. SUFFICES ASSUME q <= 0 - 1 PROVE FALSE
    BY <1>1
  <2>2. n * q <= 0 - n
    BY <2>1, <1>1, SMTT(20)
  <2>3. n * q \in Int
    BY <1>1
  <2> QED BY <2>2, <2>3, <1>0, <1>1
<1> QED BY <1>1, <1>2, <1>3 DEF q, m

-----------------------------------------------------------------------------
(* The recursion of Retain: what each prefix of the vector leaves. *)
RetainRuns(kept, S, seq, keep) ==
  /\ kept \in [0 .. Len(seq) -> Seq(S)]
  /\ kept[0] = <<>> /\ Retain(seq, keep) = kept[Len(seq)]
  /\ \A n \in 1 .. Len(seq) :
       kept[n] = IF n \in keep THEN Append(kept[n - 1], seq[n]) ELSE kept[n - 1]

LEMMA RetainSteps ==
  ASSUME NEW S, NEW seq \in Seq(S), NEW keep
  PROVE  \E kept : RetainRuns(kept, S, seq, keep)
<1> DEFINE N == Len(seq)
           Q == Seq(S)
           nil == <<>>
           step == [n \in 1 .. N |-> [q \in Seq(S) |->
                     IF n \in keep THEN Append(q, seq[n]) ELSE q]]
           Rec(k) == [n \in 0 .. N |-> IF n = 0 THEN <<>>
                        ELSE IF n \in keep THEN Append(k[n - 1], seq[n]) ELSE k[n - 1]]
           kept == CHOOSE k : k = Rec(k)
<1>1. N \in Nat /\ nil \in Q /\ step \in Steps(N, Q)
  BY DEF Steps
<1>2. PICK f : f \in [0 .. N -> Q] /\ f[0] = nil /\ \A n \in 1 .. N : f[n] = step[n][f[n - 1]]
  <2>1. \E f : Iterates(f, N, Q, nil, step)
    <3> HIDE DEF step, N, Q, nil
    <3> QED BY <1>1, Iteration
  <2> QED BY <2>1 DEF Iterates
<1>3. ASSUME NEW n \in 1 .. N
      PROVE  f[n] = IF n \in keep THEN Append(f[n - 1], seq[n]) ELSE f[n - 1]
  <2>1. n - 1 \in 0 .. N /\ f[n - 1] \in Seq(S)
    BY <1>2
  <2>2. f[n] = step[n][f[n - 1]]
    BY <1>2
  <2> HIDE DEF N
  <2> QED BY <2>1, <2>2
<1>4. f = Rec(f)
  <2>1. f = [n \in 0 .. N |-> f[n]]
    <3> HIDE DEF N, Q
    <3> QED BY <1>2
  <2>2. ASSUME NEW n \in 0 .. N
        PROVE  f[n] = IF n = 0 THEN <<>>
                 ELSE IF n \in keep THEN Append(f[n - 1], seq[n]) ELSE f[n - 1]
    <3>1. n = 0 \/ n \in 1 .. N
      BY <1>1
    <3> HIDE DEF N
    <3> QED BY <1>2, <1>3, <3>1
  <2> HIDE DEF N
  <2> QED BY <2>1, <2>2, Zenon
<1>5. kept = Rec(kept)
  <2> HIDE DEF Rec
  <2> QED BY <1>4
<1>6. Retain(seq, keep) = kept[N]
  BY DEF Retain
<1>7. ASSUME NEW n \in 0 .. N
      PROVE  kept[n] = IF n = 0 THEN <<>>
               ELSE IF n \in keep THEN Append(kept[n - 1], seq[n]) ELSE kept[n - 1]
  <2> HIDE DEF kept, N
  <2> QED BY <1>5
<1>8. DOMAIN kept = 0 .. N
  <2> HIDE DEF kept, N
  <2> QED BY <1>5
<1>9. \A n \in 0 .. N : kept[n] \in Seq(S)
  <2> DEFINE T == {n \in 0 .. N : kept[n] \in Seq(S)}
  <2>1. 0 \in T
    <3>1. 0 \in 0 .. N
      BY <1>1
    <3> HIDE DEF kept, N
    <3>2. kept[0] = <<>>
      BY <1>7, <3>1
    <3>3. <<>> \in Seq(S)
      OBVIOUS
    <3> QED BY <3>1, <3>2, <3>3, Zenon
  <2>2. ASSUME NEW n \in 0 .. N, n > 0, n - 1 \in T
        PROVE  n \in T
    <3>1. seq[n] \in S
      BY <2>2
    <3>2. kept[n - 1] \in Seq(S)
      BY <2>2
    <3>3. Append(kept[n - 1], seq[n]) \in Seq(S)
      <4> HIDE DEF kept
      <4> QED BY <3>1, <3>2
    <3>4. n # 0
      BY <2>2
    <3> HIDE DEF kept, N
    <3> QED BY <1>7, <3>2, <3>3, <3>4, Zenon
  <2>3. \A n \in 0 .. N : n \in T
    <3> HIDE DEF T, N
    <3> QED BY <1>1, <2>1, <2>2, UpTo
  <2> QED BY <2>3
<1>10. kept[0] = <<>>
  <2> HIDE DEF kept
  <2> QED BY <1>7, <1>1
<1>11. \A n \in 1 .. N :
         kept[n] = IF n \in keep THEN Append(kept[n - 1], seq[n]) ELSE kept[n - 1]
  <2> HIDE DEF kept
  <2> QED BY <1>7, <1>1
<1>12. kept \in [0 .. N -> Seq(S)]
  <2> HIDE DEF kept, Rec
  <2>1. kept = [n \in 0 .. N |-> kept[n]]
    BY <1>5 DEF Rec
  <2> QED BY <2>1, <1>9
<1> HIDE DEF kept
<1> QED BY <1>6, <1>10, <1>11, <1>12 DEF RetainRuns

(* The last position kept adds the last entry.                             *)
LEMMA RetainLast ==
  ASSUME NEW S, NEW seq \in Seq(S), NEW keep, NEW m \in 1 .. Len(seq), m \in keep,
         \A k \in 1 .. Len(seq) : k \in keep => k <= m
  PROVE  /\ Retain(seq, keep \ {m}) \in Seq(S)
         /\ Retain(seq, keep) = Append(Retain(seq, keep \ {m}), seq[m])
<1> DEFINE N == Len(seq)
           less == keep \ {m}
<1>1. PICK a : RetainRuns(a, S, seq, keep)
  BY RetainSteps
<1>2. PICK b : RetainRuns(b, S, seq, less)
  BY RetainSteps
<1> DEFINE T == {n \in 0 .. N : IF n < m THEN a[n] = b[n] ELSE a[n] = Append(b[n], seq[m])}
<1>3. /\ N \in Nat /\ a \in [0 .. N -> Seq(S)] /\ b \in [0 .. N -> Seq(S)]
      /\ a[0] = <<>> /\ b[0] = <<>> /\ Retain(seq, keep) = a[N] /\ Retain(seq, less) = b[N]
  BY <1>1, <1>2 DEF RetainRuns
<1>4. \A n \in 1 .. N :
        /\ a[n] = IF n \in keep THEN Append(a[n - 1], seq[n]) ELSE a[n - 1]
        /\ b[n] = IF n \in less THEN Append(b[n - 1], seq[n]) ELSE b[n - 1]
  BY <1>1, <1>2 DEF RetainRuns
<1> HIDE DEF N
<1>5. m \in 1 .. N /\ \A k \in 1 .. N : k \in keep => k <= m
  BY DEF N
<1>6. 0 \in T
  BY <1>3, <1>5
<1>7. ASSUME NEW n \in 0 .. N, n > 0, n - 1 \in T PROVE n \in T
  <2>1. n \in 1 .. N /\ m \in Nat
    BY <1>3, <1>5, <1>7
  <2>2. CASE n < m
    <3>1. n \in keep <=> n \in less
      BY <2>1, <2>2
    <3>2. a[n - 1] = b[n - 1]
      BY <1>7, <2>1, <2>2
    <3> HIDE DEF less
    <3>3. a[n] = b[n]
      BY <1>4, <2>1, <3>1, <3>2
    <3> QED BY <2>2, <3>3
  <2>3. CASE n = m
    <3>1. n \in keep /\ n \notin less /\ a[n - 1] = b[n - 1]
      BY <1>7, <2>1, <2>3
    <3> HIDE DEF less
    <3>2. a[n] = Append(b[n], seq[m])
      BY <1>4, <2>1, <2>3, <3>1
    <3> QED BY <2>1, <2>3, <3>2
  <2>4. CASE n > m
    <3>1. n \notin keep /\ n \notin less /\ a[n - 1] = Append(b[n - 1], seq[m])
      BY <1>5, <1>7, <2>1, <2>4
    <3> HIDE DEF less
    <3>2. a[n] = Append(b[n], seq[m])
      BY <1>4, <2>1, <3>1
    <3> QED BY <2>1, <2>4, <3>2
  <2> QED BY <2>1, <2>2, <2>3, <2>4
<1>8. \A n \in 0 .. N : n \in T
  <2> HIDE DEF T
  <2> QED BY <1>3, <1>6, <1>7, UpTo
<1>9. N \in 0 .. N /\ ~(N < m) /\ b[N] \in Seq(S)
  BY <1>3, <1>5
<1> QED BY <1>3, <1>8, <1>9
=============================================================================
