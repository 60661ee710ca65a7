--------------------------- MODULE Tables_proofs ---------------------------
(***************************************************************************)
(* Proofs about the tables the macro emits, for a chart of any size.       *)
(*                                                                         *)
(* The chain of a state is a recursion over the tree, which TLAPS cannot   *)
(* induct on as it stands; TreeRecursion of Induction gives the function,  *)
(* UpTo equates it with the one CHOOSE takes.  From there: the ancestors   *)
(* of a state and the deepest that two of them share, which the climb of   *)
(* Lca finds (LcaIsDeepest); the two halves of a transition path around it *)
(* (PathsLead); and that a slice out of the flattened arrays, fetched with *)
(* the offsets emitted beside them, is the piece that was laid there       *)
(* (SlicesOfPairs, PathRanges).  The last part is about the clauses of one *)
(* state on one trigger, which are kept apart as actions and a target.     *)
(***************************************************************************)
EXTENDS Compiler_proofs

-----------------------------------------------------------------------------
(* The path of every state to the root. *)

Parent(s) == bodies[s].parent

LEMMA TreeOfSource ==
  ASSUME SourceOK
  PROVE  /\ States = 1 .. Len(bodies) /\ Len(bodies) \in Nat /\ Len(bodies) >= 1 /\ 1 \in States
         /\ \A s \in States : s # 1 => /\ s \in 2 .. Len(bodies) /\ Parent(s) \in States
                                      /\ Parent(s) < s
<1>1. States = 1 .. Len(bodies) /\ Len(bodies) \in Nat /\ Len(bodies) >= 1
  BY StatesAreNumbers DEF SourceOK
<1>2. ASSUME NEW s \in States, s # 1
      PROVE  s \in 2 .. Len(bodies) /\ Parent(s) \in States /\ Parent(s) < s
  <2>1. Parent(s) \in 1 .. s - 1
    BY <1>2 DEF SourceOK, Parent
  <2> QED BY <2>1, <1>1, <1>2
<1> QED BY <1>1, <1>2

LEMMA ChainRecursion ==
  ASSUME SourceOK
  PROVE  /\ Table!Chain \in [States -> Seq(States)] /\ Table!Chain[1] = <<1>>
         /\ \A s \in States : s # 1 => Table!Chain[s] = <<s>> \o Table!Chain[Parent(s)]
<1> DEFINE N == Len(bodies)
           Q == Seq(States)
           root == <<1>>
           P == [n \in 2 .. N |-> Parent(n)]
           step == [n \in 1 .. N |-> [q \in Q |-> <<n>> \o q]]
           Up == [s \in States \ {1} |-> bodies[s].parent]
           Rec(k) == [s \in States |-> IF s = 1 THEN <<s>> ELSE <<s>> \o k[Up[s]]]
           chosen == CHOOSE k : k = Rec(k)
<1>0. /\ States = 1 .. N /\ N \in Nat /\ N >= 1 /\ 1 \in States
      /\ \A s \in States : s # 1 => s \in 2 .. N /\ Parent(s) \in States /\ Parent(s) < s
  BY TreeOfSource
<1>1. ParentsBefore(P, N)
  <2>1. \A n \in 2 .. N : n \in States /\ n # 1
    BY <1>0
  <2> QED BY <1>0, <2>1 DEF ParentsBefore
<1>2. root \in Q /\ step \in Steps(N, Q)
  <2>1. \A n \in 1 .. N : <<n>> \in Q
    BY <1>0
  <2>2. \A n \in 1 .. N : \A q \in Q : <<n>> \o q \in Q
    BY <2>1
  <2>3. root \in Q
    BY <1>0
  <2> HIDE DEF Q, root
  <2> QED BY <2>2, <2>3 DEF Steps
<1>3. PICK f : Descends(f, N, Q, root, step, P)
  <2> HIDE DEF Q, root, step, P, N
  <2> QED BY <1>0, <1>1, <1>2, TreeRecursion
<1>4. f \in [States -> Q] /\ f[1] = <<1>>
  BY <1>3, <1>0 DEF Descends
<1>5. ASSUME NEW s \in States, s # 1
      PROVE  f[s] = <<s>> \o f[Parent(s)] /\ Up[s] = Parent(s)
  <2>1. s \in 2 .. N /\ s \in 1 .. N /\ Parent(s) \in States /\ P[s] = Parent(s)
    BY <1>0, <1>5
  <2>2. f[s] = step[s][f[Parent(s)]] /\ f[Parent(s)] \in Q
    <3> HIDE DEF Q, step, P, N
    <3> QED BY <1>3, <1>4, <2>1 DEF Descends
  <2>3. step[s][f[Parent(s)]] = <<s>> \o f[Parent(s)]
    <3> HIDE DEF Q, N
    <3> QED BY <2>1, <2>2
  <2>4. Up[s] = Parent(s)
    BY <1>5 DEF Parent
  <2> QED BY <2>2, <2>3, <2>4
<1>6. f = Rec(f)
  <2>1. f = [s \in States |-> f[s]]
    <3> HIDE DEF Q
    <3> QED BY <1>4
  <2>2. ASSUME NEW s \in States PROVE f[s] = IF s = 1 THEN <<s>> ELSE <<s>> \o f[Up[s]]
    <3> HIDE DEF Up, Q
    <3> QED BY <1>4, <1>5
  <2> HIDE DEF Up
  <2> QED BY <2>1, <2>2, Zenon
<1>7. chosen = Rec(chosen)
  <2> HIDE DEF Rec
  <2> QED BY <1>6
<1>8. Table!Chain = chosen
  BY DEF Table!Chain
<1>9. ASSUME NEW s \in States
      PROVE  chosen[s] = IF s = 1 THEN <<s>> ELSE <<s>> \o chosen[Up[s]]
  <2> HIDE DEF chosen, Up
  <2> QED BY <1>7
<1>10. chosen = [s \in States |-> chosen[s]]
  <2> HIDE DEF chosen, Up
  <2> QED BY <1>7
<1> HIDE DEF chosen, Up, Rec, Q
<1>11. \A s \in States : chosen[s] = f[s]
  <2> DEFINE T == {n \in 0 .. N : \A s \in 1 .. n : chosen[s] = f[s]}
  <2>1. 0 \in T
    BY <1>0
  <2>2. ASSUME NEW n \in 0 .. N, n > 0, n - 1 \in T PROVE n \in T
    <3>0. n \in States
      BY <1>0, <2>2
    <3>1. \A s \in 1 .. n - 1 : chosen[s] = f[s]
      BY <2>2
    <3>2. CASE n = 1
      <4>1. chosen[1] = <<1>>
        BY <1>9, <1>0
      <4>2. \A s \in 1 .. n : chosen[s] = f[s]
        BY <4>1, <1>4, <3>2
      <4> QED BY <4>2
    <3>3. CASE n # 1
      <4>1. Parent(n) \in 1 .. n - 1
        BY <1>0, <3>0, <3>3
      <4>2. chosen[n] = <<n>> \o chosen[Up[n]] /\ Up[n] = Parent(n)
        BY <1>5, <1>9, <3>0, <3>3
      <4>3. f[n] = <<n>> \o f[Parent(n)]
        BY <1>5, <3>0, <3>3
      <4>4. chosen[n] = f[n]
        BY <4>1, <4>2, <4>3, <3>1
      <4>5. \A s \in 1 .. n : s = n \/ s \in 1 .. n - 1
        BY <2>2
      <4>6. \A s \in 1 .. n : chosen[s] = f[s]
        BY <4>4, <4>5, <3>1
      <4> QED BY <4>6
    <3> QED BY <3>2, <3>3
  <2> HIDE DEF T
  <2>3. \A n \in 0 .. N : n \in T
    <3> HIDE DEF N
    <3> QED BY <1>0, <2>1, <2>2, UpTo
  <2>4. N \in 0 .. N
    BY <1>0
  <2> QED BY <2>3, <2>4, <1>0 DEF T
<1>12. chosen = f
  <2>1. f = [s \in States |-> f[s]]
    BY <1>4
  <2> QED BY <2>1, <1>10, <1>11
<1> QED BY <1>4, <1>5, <1>8, <1>12 DEF Q

(* Where the path of a state leads: downwards in the numbers to the root,  *)
(* and what is left of it at each state is that state's path.              *)
Lineage(q, s) ==
  /\ q \in Seq(States) /\ Len(q) >= 1 /\ q[1] = s /\ q[Len(q)] = 1
  /\ \A i \in 1 .. Len(q) : \A j \in 1 .. Len(q) : i < j => q[j] < q[i]
  /\ \A i \in 1 .. Len(q) : Table!Chain[q[i]] = SubSeq(q, i, Len(q))

Conses(q, x, p, S) ==
  /\ q \in Seq(S) /\ Len(q) = Len(p) + 1 /\ Len(p) \in Nat /\ q[1] = x
  /\ \A i \in 2 .. Len(p) + 1 : q[i] = p[i - 1]
  /\ \A i \in 2 .. Len(p) + 1 : SubSeq(q, i, Len(p) + 1) = SubSeq(p, i - 1, Len(p))
  /\ SubSeq(q, 1, Len(p) + 1) = q

LEMMA ConsFacts ==
  ASSUME NEW S, NEW x \in S, NEW p \in Seq(S)
  PROVE  Conses(<<x>> \o p, x, p, S)
<1> DEFINE q == <<x>> \o p
           n == Len(p)
<1>1. /\ q \in Seq(S) /\ Len(q) = n + 1 /\ n \in Nat /\ q[1] = x
      /\ \A i \in 2 .. n + 1 : q[i] = p[i - 1]
  OBVIOUS
<1> HIDE DEF q
<1>2. ASSUME NEW i \in 2 .. n + 1 PROVE SubSeq(q, i, n + 1) = SubSeq(p, i - 1, n)
  <2>1. SubSeq(q, i, n + 1) \in Seq(S) /\ SubSeq(p, i - 1, n) \in Seq(S)
    BY <1>1, SubSeqProperties
  <2>2. Len(SubSeq(q, i, n + 1)) = n + 2 - i /\ Len(SubSeq(p, i - 1, n)) = n + 2 - i
    BY <1>1
  <2>3. ASSUME NEW k \in 1 .. n + 2 - i PROVE SubSeq(q, i, n + 1)[k] = SubSeq(p, i - 1, n)[k]
    <3>1. SubSeq(q, i, n + 1)[k] = q[i + k - 1] /\ SubSeq(p, i - 1, n)[k] = p[i - 1 + k - 1]
      BY <1>1
    <3>2. i + k - 1 \in 2 .. n + 1 /\ (i + k - 1) - 1 = i - 1 + k - 1
      BY <1>1
    <3> QED BY <3>1, <3>2, <1>1
  <2> QED BY <2>1, <2>2, <2>3, SeqEqual
<1>3. SubSeq(q, 1, n + 1) = q
  BY <1>1, SubSeqFull
<1> QED BY <1>1, <1>2, <1>3 DEF q, Conses

LEMMA ChainLineage ==
  ASSUME SourceOK
  PROVE  \A s \in States : Lineage(Table!Chain[s], s)
<1> DEFINE N == Len(bodies)
           T == {n \in 0 .. N : \A s \in 1 .. n : Lineage(Table!Chain[s], s)}
<1>0. /\ States = 1 .. N /\ N \in Nat /\ N >= 1 /\ 1 \in States
      /\ \A s \in States : s # 1 => s \in 2 .. N /\ Parent(s) \in States /\ Parent(s) < s
  BY TreeOfSource
<1>1. /\ Table!Chain \in [States -> Seq(States)] /\ Table!Chain[1] = <<1>>
      /\ \A s \in States : s # 1 => Table!Chain[s] = <<s>> \o Table!Chain[Parent(s)]
  BY ChainRecursion
<1>2. 0 \in T
  BY <1>0
<1>3. Lineage(Table!Chain[1], 1)
  <2> DEFINE r == <<1>>
  <2>1. r \in Seq(States) /\ Len(r) = 1 /\ r[1] = 1
    BY <1>0
  <2>2. Table!Chain[1] = r
    BY <1>1
  <2> HIDE DEF r
  <2>3. SubSeq(r, 1, Len(r)) = r
    BY <2>1, SubSeqFull
  <2>4. \A i \in 1 .. Len(r) : i = 1
    BY <2>1
  <2>5. \A i \in 1 .. Len(r) : Table!Chain[r[i]] = SubSeq(r, i, Len(r))
    BY <2>1, <2>2, <2>3, <2>4
  <2>6. \A i \in 1 .. Len(r) : \A j \in 1 .. Len(r) : i < j => r[j] < r[i]
    BY <2>1, <2>4
  <2>7. Lineage(r, 1)
    BY <2>1, <2>5, <2>6 DEF Lineage
  <2> QED BY <2>2, <2>7
<1>4. ASSUME NEW n \in 0 .. N, n > 0, n - 1 \in T PROVE n \in T
  <2>0. n \in States /\ \A s \in 1 .. n - 1 : Lineage(Table!Chain[s], s)
    BY <1>0, <1>4
  <2>1. Lineage(Table!Chain[n], n)
    <3>1. CASE n = 1
      BY <3>1, <1>3
    <3>2. CASE n # 1
      <4> DEFINE p == Table!Chain[Parent(n)]
                 q == Table!Chain[n]
                 m == Len(p)
      <4>1. q = <<n>> \o p /\ Parent(n) \in 1 .. n - 1 /\ Parent(n) < n /\ Parent(n) \in Nat
        BY <1>0, <1>1, <2>0, <3>2
      <4>2. Lineage(p, Parent(n))
        BY <4>1, <2>0
      <4>3. p \in Seq(States) /\ n \in Nat
        BY <4>2, <1>0 DEF Lineage
      <4> HIDE DEF p
      <4>4. /\ q \in Seq(States) /\ Len(q) = m + 1 /\ m \in Nat /\ q[1] = n
            /\ \A i \in 2 .. m + 1 : q[i] = p[i - 1]
            /\ \A i \in 2 .. m + 1 : SubSeq(q, i, m + 1) = SubSeq(p, i - 1, m)
            /\ SubSeq(q, 1, m + 1) = q
        <5>1. Conses(q, n, p, States)
          BY <4>1, <4>3, <2>0, ConsFacts
        <5> HIDE DEF q
        <5> QED BY <5>1 DEF Conses
      <4>5. /\ m >= 1 /\ p[1] = Parent(n) /\ p[m] = 1
            /\ \A i \in 1 .. m : \A j \in 1 .. m : i < j => p[j] < p[i]
            /\ \A i \in 1 .. m : Table!Chain[p[i]] = SubSeq(p, i, m)
            /\ \A i \in 1 .. m : p[i] \in Nat
        <5>1. \A i \in 1 .. m : p[i] \in Nat
          BY <4>3, <1>0
        <5> QED BY <4>2, <5>1 DEF Lineage
      <4> HIDE DEF q, m
      <4>6. q[m + 1] = 1
        <5>1. q[m + 1] = p[(m + 1) - 1] /\ (m + 1) - 1 = m
          BY <4>4, <4>5
        <5> QED BY <5>1, <4>5
      <4>7. ASSUME NEW i \in 1 .. m + 1, NEW j \in 1 .. m + 1, i < j PROVE q[j] < q[i]
        <5>1. j \in 2 .. m + 1 /\ j - 1 \in 1 .. m /\ q[j] = p[j - 1]
          BY <4>4, <4>7
        <5>2. CASE i = 1
          <6>1. p[j - 1] <= p[1]
            <7>1. CASE j - 1 = 1
              BY <7>1, <4>5
            <7>2. CASE j - 1 # 1
              <8>1. 1 < j - 1 /\ 1 \in 1 .. m
                BY <5>1, <7>2, <4>4
              <8>2. p[j - 1] < p[1]
                BY <8>1, <5>1, <4>5
              <8> QED BY <8>2, <8>1, <5>1, <4>5
            <7> QED BY <7>1, <7>2
          <6> QED BY <6>1, <5>1, <5>2, <4>1, <4>3, <4>4, <4>5
        <5>3. CASE i # 1
          <6>1. i \in 2 .. m + 1 /\ i - 1 \in 1 .. m /\ i - 1 < j - 1
            BY <5>3, <4>4, <4>7
          <6>2. q[i] = p[i - 1] /\ p[j - 1] < p[i - 1]
            BY <6>1, <5>1, <4>4, <4>5
          <6> QED BY <6>2, <5>1
        <5> QED BY <5>2, <5>3
      <4>8. ASSUME NEW i \in 1 .. m + 1 PROVE Table!Chain[q[i]] = SubSeq(q, i, m + 1)
        <5>1. CASE i = 1
          BY <5>1, <4>4 DEF q
        <5>2. CASE i # 1
          <6>1. i \in 2 .. m + 1 /\ i - 1 \in 1 .. m
            BY <5>2, <4>4
          <6> QED BY <6>1, <4>4, <4>5
        <5> QED BY <5>1, <5>2
      <4>9. Lineage(q, n)
        BY <4>4, <4>6, <4>7, <4>8 DEF Lineage
      <4> QED BY <4>9 DEF q
    <3> QED BY <3>1, <3>2
  <2>2. \A s \in 1 .. n : s = n \/ s \in 1 .. n - 1
    BY <1>4
  <2> QED BY <2>0, <2>1, <2>2
<1>5. \A n \in 0 .. N : n \in T
  <2> HIDE DEF T, N
  <2> QED BY <1>0, <1>2, <1>4, UpTo
<1>6. N \in 0 .. N
  BY <1>0
<1> QED BY <1>0, <1>5, <1>6

-----------------------------------------------------------------------------
(* compute_transition_paths: the common ancestor of two states is the one  *)
(* of their common ancestors that was declared last.                       *)

Chain(s) == Table!Chain[s]

Ancestors(s) == ToSet(Chain(s))

Common(a, b) == Ancestors(a) \cap Ancestors(b)

Deepest(a, b, c) == c \in Common(a, b) /\ \A x \in Common(a, b) : x <= c

(* Where in the path of a state an ancestor stands: its own path is what   *)
(* follows.                                                                *)
LEMMA AncestorPlace ==
  ASSUME SourceOK, NEW s \in States, NEW a \in Ancestors(s)
  PROVE  /\ a \in States /\ Lineage(Chain(s), s) /\ Lineage(Chain(a), a)
         /\ \E i \in 1 .. Len(Chain(s)) :
              /\ Chain(s)[i] = a /\ Chain(a) = SubSeq(Chain(s), i, Len(Chain(s)))
              /\ Len(Chain(a)) = Len(Chain(s)) - i + 1
<1> DEFINE q == Chain(s)
<1>1. Lineage(q, s)
  BY ChainLineage DEF Chain
<1>2. q \in Seq(States) /\ DOMAIN q = 1 .. Len(q) /\ Len(q) \in Nat
  BY <1>1 DEF Lineage
<1> HIDE DEF q
<1>3. a \in ToSet(q)
  BY DEF q, Ancestors
<1>4. PICK i \in 1 .. Len(q) : a = q[i]
  BY <1>2, <1>3 DEF ToSet
<1>5. Chain(a) = SubSeq(q, i, Len(q)) /\ a \in States
  BY <1>1, <1>2, <1>4 DEF Lineage, Chain
<1>6. Len(SubSeq(q, i, Len(q))) = Len(q) - i + 1
  BY <1>2
<1>7. Lineage(Chain(a), a)
  BY <1>5, ChainLineage, Zenon DEF Chain
<1> QED BY <1>1, <1>4, <1>5, <1>6, <1>7 DEF q

(* ... it is as deep as the state only if it is the state, and otherwise   *)
(* an ancestor of the parent.                                              *)
Ancestry(s) ==
  /\ s \in Ancestors(s) /\ 1 \in Ancestors(s) /\ Ancestors(s) \subseteq States
  /\ \A a \in Ancestors(s) : a <= s /\ Len(Chain(a)) <= Len(Chain(s))
  /\ \A a \in Ancestors(s) : Len(Chain(a)) = Len(Chain(s)) => a = s
  /\ s # 1 => Ancestors(s) = {s} \cup Ancestors(Parent(s))
  /\ s # 1 => Len(Chain(s)) = Len(Chain(Parent(s))) + 1
  /\ Len(Chain(s)) \in Nat /\ Len(Chain(s)) >= 1 /\ Len(Chain(1)) = 1

LEMMA AncestorFacts ==
  ASSUME SourceOK, NEW s \in States
  PROVE  Ancestry(s)
<1> DEFINE q == Chain(s)
<1>0. /\ States = 1 .. Len(bodies) /\ Len(bodies) \in Nat /\ 1 \in States
      /\ \A n \in States : n # 1 => Parent(n) \in States
  BY TreeOfSource
<1>1. Lineage(q, s)
  BY ChainLineage DEF Chain
<1>2. /\ q \in Seq(States) /\ DOMAIN q = 1 .. Len(q) /\ Len(q) \in Nat /\ Len(q) >= 1
      /\ q[1] = s /\ q[Len(q)] = 1
      /\ \A i \in 1 .. Len(q) : \A j \in 1 .. Len(q) : i < j => q[j] < q[i]
  BY <1>1 DEF Lineage
<1>3. Chain(1) = <<1>>
  BY ChainRecursion DEF Chain
<1>4. Ancestors(s) = ToSet(q)
  BY DEF Ancestors
<1>5. s # 1 => /\ Ancestors(s) = {s} \cup Ancestors(Parent(s))
               /\ Len(q) = Len(Chain(Parent(s))) + 1
  <2> SUFFICES ASSUME s # 1
               PROVE  /\ Ancestors(s) = {s} \cup Ancestors(Parent(s))
                      /\ Len(q) = Len(Chain(Parent(s))) + 1
    OBVIOUS
  <2> DEFINE p == Chain(Parent(s))
             r == <<s>>
  <2>1. q = r \o p /\ p \in Seq(States) /\ r \in Seq(States)
    BY ChainRecursion, <1>0 DEF Chain
  <2>2. ToSet(r) = {s} /\ Len(r) = 1
    <3>1. DOMAIN r = {1} /\ r[1] = s
      OBVIOUS
    <3> HIDE DEF r
    <3>2. Len(r) = 1
      BY <3>1, <2>1
    <3> QED BY <3>1, <3>2 DEF ToSet
  <2> HIDE DEF p, q, r
  <2>3. ToSet(q) = ToSet(r) \cup ToSet(p) /\ Len(q) = Len(r) + Len(p)
    BY <2>1, ToSetOfConcat
  <2>4. Len(p) \in Nat
    BY <2>1
  <2> QED BY <2>2, <2>3, <2>4, <1>4 DEF p, Ancestors
<1> HIDE DEF q
<1>6. s \in ToSet(q) /\ 1 \in ToSet(q) /\ ToSet(q) \subseteq States
  <2>1. 1 \in DOMAIN q /\ Len(q) \in DOMAIN q /\ \A i \in DOMAIN q : q[i] \in States
    BY <1>2
  <2> QED BY <2>1, <1>2, Zenon DEF ToSet
<1>7. ASSUME NEW a \in Ancestors(s)
      PROVE  /\ a <= s /\ Len(Chain(a)) <= Len(q)
             /\ Len(Chain(a)) = Len(q) => a = s
  <2>1. PICK i \in 1 .. Len(q) : q[i] = a /\ Len(Chain(a)) = Len(q) - i + 1
    BY AncestorPlace DEF q
  <2>2. CASE i = 1
    BY <2>1, <2>2, <1>0, <1>2
  <2>3. CASE i # 1
    <3>1. 1 \in 1 .. Len(q) /\ 1 < i
      BY <1>2, <2>3
    <3>2. q[i] < q[1]
      BY <3>1, <1>2
    <3>3. a \in Nat /\ s \in Nat
      BY <1>0, <1>4, <1>6, <1>7
    <3> QED BY <3>1, <3>2, <3>3, <2>1, <1>2
  <2> QED BY <2>2, <2>3
<1>8. Len(Chain(1)) = 1
  BY <1>3
<1> QED BY <1>2, <1>4, <1>5, <1>6, <1>7, <1>8, Zenon DEF q, Ancestry

LEMMA DeepestExists ==
  ASSUME SourceOK, NEW a \in States, NEW b \in States
  PROVE  \E c \in States : Deepest(a, b, c)
<1> DEFINE S == Common(a, b)
<1>1. States = 1 .. Len(bodies) /\ Len(bodies) \in Nat
  BY TreeOfSource
<1>2. S \in SUBSET (0 .. Len(bodies)) /\ S # {} /\ S \subseteq States
  <2>1. Ancestors(a) \subseteq States /\ 1 \in Ancestors(a) /\ 1 \in Ancestors(b)
    BY AncestorFacts DEF Ancestry
  <2> QED BY <2>1, <1>1 DEF Common
<1>3. \E m \in S : \A y \in S : y <= m
  <2> HIDE DEF S
  <2> QED BY <1>1, <1>2, GreatestExists
<1> QED BY <1>2, <1>3 DEF Deepest

LEMMA DeepestIsOne ==
  ASSUME SourceOK, NEW a \in States, NEW b \in States, NEW c, NEW d,
         Deepest(a, b, c), Deepest(a, b, d)
  PROVE  c = d
<1>1. States = 1 .. Len(bodies) /\ Len(bodies) \in Nat /\ Ancestors(a) \subseteq States
  BY TreeOfSource, AncestorFacts DEF Ancestry
<1>2. c \in Nat /\ d \in Nat /\ c <= d /\ d <= c
  BY <1>1 DEF Deepest, Common
<1> QED BY <1>2

(* The recursion of Lca, on any function: what one step of the climb says. *)
Climbs(k, a, b) ==
  CASE a = b -> a
    [] a # b /\ Len(Chain(a)) > Len(Chain(b)) -> k[<<Parent(a), b>>]
    [] a # b /\ Len(Chain(a)) < Len(Chain(b)) -> k[<<a, Parent(b)>>]
    [] OTHER -> k[<<Parent(a), Parent(b)>>]

(* The climb reaches the deepest common ancestor, step by step. *)
LEMMA ClimbStep ==
  ASSUME SourceOK, NEW a \in States, NEW b \in States, NEW c, a # b
  PROVE  /\ Len(Chain(a)) > Len(Chain(b)) =>
              a # 1 /\ (Deepest(a, b, c) <=> Deepest(Parent(a), b, c))
         /\ Len(Chain(a)) < Len(Chain(b)) =>
              b # 1 /\ (Deepest(a, b, c) <=> Deepest(a, Parent(b), c))
         /\ Len(Chain(a)) = Len(Chain(b)) =>
              /\ a # 1 /\ b # 1
              /\ Deepest(a, b, c) <=> Deepest(Parent(a), Parent(b), c)
<1>0. Ancestry(a) /\ Ancestry(b)
  BY AncestorFacts
<1>1. /\ \A x \in Ancestors(a) : Len(Chain(x)) <= Len(Chain(a))
      /\ \A x \in Ancestors(b) : Len(Chain(x)) <= Len(Chain(b))
      /\ \A x \in Ancestors(a) : Len(Chain(x)) = Len(Chain(a)) => x = a
      /\ \A x \in Ancestors(b) : Len(Chain(x)) = Len(Chain(b)) => x = b
      /\ a # 1 => Ancestors(a) = {a} \cup Ancestors(Parent(a))
      /\ b # 1 => Ancestors(b) = {b} \cup Ancestors(Parent(b))
      /\ Len(Chain(a)) \in Nat /\ Len(Chain(b)) \in Nat
      /\ Len(Chain(a)) >= 1 /\ Len(Chain(b)) >= 1 /\ Len(Chain(1)) = 1
      /\ 1 \in Ancestors(a) /\ 1 \in Ancestors(b)
  BY <1>0 DEF Ancestry
<1>2. ASSUME Len(Chain(a)) > Len(Chain(b))
      PROVE  a # 1 /\ Common(a, b) = Common(Parent(a), b)
  <2>1. a # 1
    BY <1>1, <1>2
  <2>2. a \notin Ancestors(b)
    BY <1>1, <1>2
  <2> QED BY <2>1, <2>2, <1>1 DEF Common
<1>3. ASSUME Len(Chain(a)) < Len(Chain(b))
      PROVE  b # 1 /\ Common(a, b) = Common(a, Parent(b))
  <2>1. b # 1
    BY <1>1, <1>3
  <2>2. b \notin Ancestors(a)
    BY <1>1, <1>3
  <2> QED BY <2>1, <2>2, <1>1 DEF Common
<1>4. ASSUME Len(Chain(a)) = Len(Chain(b))
      PROVE  a # 1 /\ b # 1 /\ Common(a, b) = Common(Parent(a), Parent(b))
  <2>1. a # 1 /\ b # 1
    <3>1. a = 1 => 1 \in Ancestors(b) /\ Len(Chain(1)) = Len(Chain(b))
      BY <1>1, <1>4
    <3>2. b = 1 => 1 \in Ancestors(a) /\ Len(Chain(1)) = Len(Chain(a))
      BY <1>1, <1>4
    <3> QED BY <3>1, <3>2, <1>1
  <2>2. a \notin Ancestors(b) /\ b \notin Ancestors(a)
    BY <1>1, <1>4
  <2> QED BY <2>1, <2>2, <1>1 DEF Common
<1> QED BY <1>2, <1>3, <1>4 DEF Deepest

LEMMA DepthOfState ==
  ASSUME NEW s \in States
  PROVE  Table!DepthTable[s] = Len(Chain(s)) - 1
<1>1. Table!DepthTable = [r \in States |-> Len(Table!Chain[r]) - 1]
  BY DEF Table!DepthTable
<1> QED BY <1>1 DEF Chain

LEMMA LcaIsDeepest ==
  ASSUME SourceOK
  PROVE  \A a, b \in States : Deepest(a, b, Table!Lca[<<a, b>>])
<1> DEFINE Up == [s \in States \ {1} |-> bodies[s].parent]
           Depth == Table!DepthTable
           Step(k, a, b) == CASE a = b -> a
                          [] a # b /\ Depth[a] > Depth[b] -> k[<<Up[a], b>>]
                          [] a # b /\ Depth[a] < Depth[b] -> k[<<a, Up[b]>>]
                          [] OTHER -> k[<<Up[a], Up[b]>>]
           Rec(k) == [pair \in States \X States |-> Step(k, pair[1], pair[2])]
           G == [pair \in States \X States |-> CHOOSE c \in States : Deepest(pair[1], pair[2], c)]
           chosen == CHOOSE k : k = Rec(k)
<1>0. /\ States = 1 .. Len(bodies) /\ Len(bodies) \in Nat
      /\ \A s \in States : s # 1 => Parent(s) \in States /\ Parent(s) < s
  BY TreeOfSource
<1>1. Table!Lca = chosen
  BY DEF Table!Lca
<1>2. ASSUME NEW a \in States, NEW b \in States
      PROVE  G[<<a, b>>] \in States /\ Deepest(a, b, G[<<a, b>>])
  <2>1. \E c \in States : Deepest(a, b, c)
    BY DeepestExists
  <2>2. G[<<a, b>>] = CHOOSE c \in States : Deepest(a, b, c)
    OBVIOUS
  <2> HIDE DEF G
  <2> QED BY <2>1, <2>2
<1>3. ASSUME NEW a \in States, NEW b \in States, NEW c, Deepest(a, b, c)
      PROVE  G[<<a, b>>] = c
  <2>1. Deepest(a, b, G[<<a, b>>])
    BY <1>2
  <2> HIDE DEF G
  <2> QED BY <2>1, <1>3, DeepestIsOne
<1> HIDE DEF G
(* The step of the recursion, where it goes to, and what it keeps. *)
<1> DEFINE Goes(k, a, b, x, y) ==
             /\ x + y < a + b /\ Step(k, a, b) = k[<<x, y>>]
             /\ \A c : Deepest(x, y, c) => Deepest(a, b, c)
<1>4. ASSUME NEW a \in States, NEW b \in States, NEW k
      PROVE  \/ a = b /\ Step(k, a, b) = a
             \/ \E x, y \in States : Goes(k, a, b, x, y)
  <2>1. /\ Depth[a] = Len(Chain(a)) - 1 /\ Depth[b] = Len(Chain(b)) - 1
        /\ Len(Chain(a)) \in Nat /\ Len(Chain(b)) \in Nat
    BY DepthOfState, AncestorFacts DEF Ancestry
  <2>2. /\ a # 1 => Up[a] = Parent(a) /\ Parent(a) \in States /\ Parent(a) < a
        /\ b # 1 => Up[b] = Parent(b) /\ Parent(b) \in States /\ Parent(b) < b
        /\ a \in Nat /\ b \in Nat /\ \A s \in States : s \in Nat
    BY <1>0 DEF Parent
  <2> HIDE DEF Depth, Up
  <2>3. CASE a = b
    BY <2>3
  <2>4. CASE a # b /\ Len(Chain(a)) > Len(Chain(b))
    <3>1. a # 1 /\ \A c : Deepest(Parent(a), b, c) => Deepest(a, b, c)
      BY <2>4, ClimbStep
    <3>2. Step(k, a, b) = k[<<Parent(a), b>>]
      BY <2>1, <2>2, <2>4, <3>1
    <3>3. Parent(a) + b < a + b
      <4>1. /\ Parent(a) \in Nat /\ b \in Nat /\ a \in Nat /\ Parent(a) < a
        BY <2>2, <3>1
      <4> QED BY <4>1
    <3>4. Goes(k, a, b, Parent(a), b)
      <4> HIDE DEF Step
      <4> QED BY <3>1, <3>2, <3>3
    <3> HIDE DEF Goes
    <3> QED BY <3>1, <3>4, <2>2
  <2>5. CASE a # b /\ Len(Chain(a)) < Len(Chain(b))
    <3>1. b # 1 /\ \A c : Deepest(a, Parent(b), c) => Deepest(a, b, c)
      BY <2>5, ClimbStep
    <3>2. Step(k, a, b) = k[<<a, Parent(b)>>]
      BY <2>1, <2>2, <2>5, <3>1
    <3>3. a + Parent(b) < a + b
      <4>1. /\ Parent(b) \in Nat /\ b \in Nat /\ a \in Nat /\ Parent(b) < b
        BY <2>2, <3>1
      <4> QED BY <4>1
    <3>4. Goes(k, a, b, a, Parent(b))
      <4> HIDE DEF Step
      <4> QED BY <3>1, <3>2, <3>3
    <3> HIDE DEF Goes
    <3> QED BY <3>1, <3>4, <2>2
  <2>6. CASE a # b /\ Len(Chain(a)) = Len(Chain(b))
    <3>1. a # 1 /\ b # 1 /\ \A c : Deepest(Parent(a), Parent(b), c) => Deepest(a, b, c)
      BY <2>6, ClimbStep
    <3>2. Step(k, a, b) = k[<<Parent(a), Parent(b)>>]
      BY <2>1, <2>2, <2>6, <3>1
    <3>3. Parent(a) + Parent(b) < a + b
      <4>1. /\ Parent(a) \in Nat /\ Parent(b) \in Nat /\ b \in Nat /\ a \in Nat
            /\ Parent(a) < a /\ Parent(b) < b
        BY <2>2, <3>1
      <4> QED BY <4>1
    <3>4. Goes(k, a, b, Parent(a), Parent(b))
      <4> HIDE DEF Step
      <4> QED BY <3>1, <3>2, <3>3
    <3> HIDE DEF Goes
    <3> QED BY <3>1, <3>4, <2>2
  <2>7. \/ Len(Chain(a)) > Len(Chain(b)) \/ Len(Chain(a)) < Len(Chain(b))
        \/ Len(Chain(a)) = Len(Chain(b))
    BY <2>1
  <2> HIDE DEF Goes, Step
  <2> QED BY <2>3, <2>4, <2>5, <2>6, <2>7
<1>5. ASSUME NEW a \in States PROVE Deepest(a, a, a)
  BY AncestorFacts DEF Ancestry, Deepest, Common
<1> HIDE DEF Step
<1>6. ASSUME NEW a \in States, NEW b \in States PROVE G[<<a, b>>] = Step(G, a, b)
  <2>1. CASE a = b /\ Step(G, a, b) = a
    BY <2>1, <1>3, <1>5
  <2>2. CASE \E x, y \in States : Goes(G, a, b, x, y)
    <3>1. PICK x \in States, y \in States : Goes(G, a, b, x, y)
      BY <2>2
    <3>2. Deepest(a, b, G[<<x, y>>])
      BY <3>1, <1>2
    <3> QED BY <3>1, <3>2, <1>3
  <2> HIDE DEF Goes
  <2> QED BY <2>1, <2>2, <1>4
<1>7. G = Rec(G)
  <2>1. \A pair \in States \X States :
          pair = <<pair[1], pair[2]>> /\ pair[1] \in States /\ pair[2] \in States
    OBVIOUS
  <2>2. \A pair \in States \X States : G[pair] = Step(G, pair[1], pair[2])
    BY <1>6, <2>1
  <2>3. G = [pair \in States \X States |-> G[pair]]
    BY DEF G
  <2> QED BY <2>2, <2>3, Zenon DEF Rec
<1>8. chosen = Rec(chosen)
  <2> HIDE DEF Rec
  <2> QED BY <1>7
<1>9. ASSUME NEW a \in States, NEW b \in States
      PROVE  chosen[<<a, b>>] = Step(chosen, a, b)
  <2>1. chosen[<<a, b>>] =
          [pair \in States \X States |-> Step(chosen, pair[1], pair[2])][<<a, b>>]
    <3> HIDE DEF chosen
    <3> QED BY <1>8, Zenon
  <2> HIDE DEF chosen
  <2> QED BY <2>1
<1> HIDE DEF chosen
<1> DEFINE M == 2 * Len(bodies)
           T == {n \in 0 .. M : \A a, b \in States : a + b <= n => Deepest(a, b, chosen[<<a, b>>])}
<1>10. M \in Nat /\ \A a, b \in States : a + b \in Nat /\ a + b >= 1 /\ a + b <= M
  BY <1>0
<1>11. 0 \in T
  BY <1>10
<1>12. ASSUME NEW n \in 0 .. M, n > 0, n - 1 \in T PROVE n \in T
  <2>1. ASSUME NEW a \in States, NEW b \in States, a + b <= n
        PROVE  Deepest(a, b, chosen[<<a, b>>])
    <3>1. CASE a = b /\ Step(chosen, a, b) = a
      BY <3>1, <1>5, <1>9
    <3>2. CASE \E x, y \in States : Goes(chosen, a, b, x, y)
      <4>1. PICK x \in States, y \in States : Goes(chosen, a, b, x, y)
        BY <3>2
      <4>2. x + y <= n - 1
        <5>1. x + y \in Nat /\ a + b \in Nat /\ n \in Nat
          BY <1>10
        <5> HIDE DEF T, M
        <5> QED BY <4>1, <5>1, <2>1
      <4>3. Deepest(x, y, chosen[<<x, y>>])
        BY <4>2, <1>12
      <4> QED BY <4>1, <4>3, <1>9
    <3> HIDE DEF Goes
    <3> QED BY <3>1, <3>2, <1>4
  <2>2. \A a, b \in States : a + b <= n => Deepest(a, b, chosen[<<a, b>>])
    BY <2>1
  <2> HIDE DEF M
  <2> QED BY <2>2
<1>13. \A n \in 0 .. M : n \in T
  <2> HIDE DEF T, M
  <2> QED BY <1>10, <1>11, <1>12, UpTo
<1>14. M \in T
  <2> HIDE DEF T, M
  <2> QED BY <1>10, <1>13
<1>15. \A a, b \in States : a + b <= M => Deepest(a, b, chosen[<<a, b>>])
  BY <1>14
<1> QED BY <1>1, <1>10, <1>15, Zenon

-----------------------------------------------------------------------------
(* The paths of a pair: what is walked up to an ancestor, and what is left *)
(* of the path there.                                                      *)
Splits(s, a) ==
  /\ Table!WalkTo(s, a) \in Seq(States)
  /\ Chain(s) = Table!WalkTo(s, a) \o Chain(a)
  /\ \E n \in 1 .. Len(Chain(s)) : Chain(a) = SubSeq(Chain(s), n, Len(Chain(s)))
  /\ \A x \in ToSet(Table!WalkTo(s, a)) : x > a

LEMMA WalkSplits ==
  ASSUME SourceOK, NEW s \in States, NEW a \in Ancestors(s)
  PROVE  Splits(s, a)
<1> DEFINE q == Chain(s)
           m == Len(Chain(s))
           w == Table!WalkTo(s, a)
<1>1. PICK i \in 1 .. m : q[i] = a /\ Chain(a) = SubSeq(q, i, m) /\ Len(Chain(a)) = m - i + 1
  BY AncestorPlace
<1>2. a \in States /\ Lineage(q, s)
  BY AncestorPlace
<1>3. /\ q \in Seq(States) /\ m \in Nat /\ m >= 1 /\ m = Len(q)
      /\ \A j \in 1 .. m : \A k \in 1 .. m : j < k => q[k] < q[j]
  BY <1>2 DEF Lineage
<1>4. w = SubSeq(q, 1, i - 1)
  <2>1. w = SubSeq(q, 1, Table!DepthTable[s] - Table!DepthTable[a])
    BY DEF Table!WalkTo, Chain
  <2>2. Table!DepthTable[s] = m - 1 /\ Table!DepthTable[a] = m - i + 1 - 1
    BY DepthOfState, <1>1, <1>2
  <2>3. (m - 1) - (m - i + 1 - 1) = i - 1
    BY <1>1, <1>3
  <2> HIDE DEF q, m, w
  <2> QED BY <2>1, <2>2, <2>3
<1> HIDE DEF q, m, w
<1>5. w \in Seq(States) /\ Len(w) = i - 1 /\ \A j \in 1 .. i - 1 : w[j] = q[j]
  <2>1. \A j \in 1 .. i - 1 : q[j] \in States
    BY <1>1, <1>3
  <2>2. 1 \in Int /\ i - 1 \in Int
    BY <1>1
  <2>3. /\ SubSeq(q, 1, i - 1) \in Seq(States)
        /\ Len(SubSeq(q, 1, i - 1)) = IF 1 <= i - 1 THEN i - 1 - 1 + 1 ELSE 0
        /\ \A j \in 1 .. i - 1 - 1 + 1 : SubSeq(q, 1, i - 1)[j] = q[1 + j - 1]
    BY <2>1, <2>2, SubSeqProperties
  <2>4. \A j \in 1 .. i - 1 : j \in 1 .. i - 1 - 1 + 1 /\ 1 + j - 1 = j
    OBVIOUS
  <2> QED BY <1>1, <1>4, <2>3, <2>4
<1>6. q = w \o Chain(a)
  <2>1. 1 \in 1 .. Len(q) + 1 /\ i - 1 \in 1 - 1 .. Len(q) /\ Len(q) \in i - 1 .. Len(q)
    BY <1>1, <1>3
  <2>2. SubSeq(q, 1, i - 1) \o SubSeq(q, (i - 1) + 1, Len(q)) = SubSeq(q, 1, Len(q))
    BY <1>3, <2>1, ConcatAdjacentSubSeq
  <2>3. SubSeq(q, 1, Len(q)) = q /\ (i - 1) + 1 = i
    BY <1>1, <1>3, SubSeqFull
  <2> QED BY <2>2, <2>3, <1>1, <1>3, <1>4
<1>7. ASSUME NEW x \in ToSet(w) PROVE x > a
  <2>1. DOMAIN w = 1 .. i - 1
    BY <1>5, <1>1
  <2>2. PICK j \in 1 .. i - 1 : x = w[j]
    BY <2>1 DEF ToSet
  <2>3. j \in 1 .. m /\ j < i /\ x = q[j]
    BY <1>1, <1>3, <1>5, <2>2
  <2>4. q[i] < q[j]
    BY <1>1, <1>3, <2>3
  <2>5. x \in Nat /\ a \in Nat
    BY <1>1, <1>2, <1>3, <2>3, TreeOfSource
  <2> QED BY <1>1, <2>3, <2>4, <2>5
<1> QED BY <1>1, <1>3, <1>5, <1>6, <1>7 DEF Splits, q, m, w

LEMMA ReverseTwice ==
  ASSUME NEW S, NEW q \in Seq(S)
  PROVE  Reverse(q) \in Seq(S) /\ Reverse(Reverse(q)) = q
<1> DEFINE n == Len(q)
           r == [i \in 1 .. n |-> q[(n - i) + 1]]
<1>1. n \in Nat /\ q \in [1 .. n -> S] /\ \A i \in 1 .. n : (n - i) + 1 \in 1 .. n
  OBVIOUS
<1>2. r \in Seq(S) /\ Len(r) = n /\ Reverse(q) = r
  BY <1>1 DEF Reverse
<1>3. \A i \in 1 .. n : r[(n - i) + 1] = q[i]
  <2>1. \A i \in 1 .. n : (n - ((n - i) + 1)) + 1 = i
    BY <1>1
  <2> QED BY <1>1, <2>1
<1>4. Reverse(r) = [i \in 1 .. n |-> r[(n - i) + 1]]
  <2> HIDE DEF r, n
  <2> QED BY <1>2 DEF Reverse
<1>5. Reverse(r) = [i \in 1 .. n |-> q[i]]
  BY <1>3, <1>4, Zenon
<1> QED BY <1>1, <1>2, <1>5

LEMMA ReverseShort ==
  ASSUME NEW x
  PROVE  Reverse(<<x>>) = <<x>> /\ Reverse(<<>>) = <<>>
BY DEF Reverse

(* The instance has the community module's operators under its own name. *)
LEMMA SameOperators ==
  /\ \A s : Table!Reverse(s) = Reverse(s)
  /\ \A s, e : Table!Contains(s, e) <=> Contains(s, e)
  /\ \A s : Table!ToSet(s) = ToSet(s)
  /\ \A s : Table!FlattenSeq(s) = FlattenSeq(s)
  /\ \A s : Table!Cardinality(s) = Cardinality(s)
<1>1. \A s : Table!Reverse(s) = Reverse(s)
  BY DEF Table!Reverse, Reverse
<1>2. \A s, e : Table!Contains(s, e) <=> Contains(s, e)
  BY DEF Table!Contains, Contains
<1>3. \A s : Table!ToSet(s) = ToSet(s)
  BY DEF Table!ToSet, ToSet
<1>4. \A s : Table!FlattenSeq(s) = FlattenSeq(s)
  BY Zenon DEF Table!FlattenSeq, FlattenSeq
<1>5. \A s : Table!Cardinality(s) = Cardinality(s)
  BY DEF Table!Cardinality, Cardinality, Table!IsFiniteSet, IsFiniteSet
<1> QED BY <1>1, <1>2, <1>3, <1>4, <1>5

LEMMA StrictAncestor ==
  ASSUME SourceOK, NEW f \in States, NEW t \in States, Table!IsStrictAncestor(t, f)
  PROVE  t \in Ancestors(f) /\ t # f
<1> DEFINE q == Chain(f)
<1>1. Lineage(q, f)
  BY ChainLineage DEF Chain
<1>2. /\ q \in Seq(States) /\ Len(q) \in Nat /\ Len(q) >= 1 /\ q[1] = f /\ DOMAIN q = 1 .. Len(q)
      /\ \A i \in 1 .. Len(q) : \A j \in 1 .. Len(q) : i < j => q[j] < q[i]
  BY <1>1 DEF Lineage
<1>3. Contains(Tail(q), t)
  BY SameOperators DEF Table!IsStrictAncestor, Chain
<1> HIDE DEF q
<1>4. /\ Tail(q) \in Seq(States) /\ Len(Tail(q)) = Len(q) - 1
      /\ \A i \in 1 .. Len(q) - 1 : Tail(q)[i] = q[i + 1]
  <2>1. q # <<>>
    BY <1>2
  <2> QED BY <2>1, <1>2, HeadTailProperties
<1>5. PICK i \in 1 .. Len(Tail(q)) : Tail(q)[i] = t
  BY <1>3 DEF Contains
<1>6. q[i + 1] = t /\ i + 1 \in 1 .. Len(q) /\ 1 \in 1 .. Len(q) /\ 1 < i + 1
  BY <1>2, <1>4, <1>5
<1>7. t < f
  BY <1>2, <1>6
<1>8. t \in Ancestors(f)
  BY <1>2, <1>6 DEF Ancestors, ToSet, q
<1>9. f \in Nat
  BY TreeOfSource
<1> QED BY <1>7, <1>8, <1>9

(* What is left of the path where the pair's paths meet. *)
Meets(f, t, n) ==
  LET rest == SubSeq(Chain(f), n, Len(Chain(f)))
  IN  /\ Chain(f) = Table!ExitOf(f, t) \o rest
      /\ Chain(t) = Reverse(Table!EnterOf(f, t)) \o rest

Leads(f, t) ==
  /\ Table!ExitOf(f, t) \in Seq(States) /\ Table!EnterOf(f, t) \in Seq(States)
  /\ \E n \in 1 .. Len(Chain(f)) + 1 : Meets(f, t, n)
  /\ ToSet(Table!ExitOf(f, t)) \cap Ancestors(f) \cap Ancestors(t) \subseteq {f} \cap {t}

LEMMA PathsLead ==
  ASSUME SourceOK, NEW f \in States, NEW t \in States
  PROVE  Leads(f, t)
<1>1. Lineage(Chain(f), f) /\ Lineage(Chain(t), t)
  BY ChainLineage DEF Chain
<1>2. /\ Chain(f) \in Seq(States) /\ Len(Chain(f)) \in Nat /\ Len(Chain(f)) >= 1
      /\ Chain(f)[1] = f /\ Chain(t) \in Seq(States)
  BY <1>1 DEF Lineage
<1>3. CASE f = t
  <2> DEFINE q == Chain(f)
             one == <<t>>
  <2>1. Table!ExitOf(f, t) = one /\ Table!EnterOf(f, t) = one
    <3>1. ~ Table!IsStrictAncestor(t, f)
      BY <1>3, StrictAncestor
    <3> QED BY <3>1, <1>3 DEF Table!ExitOf, Table!EnterOf
  <2>2. one \in Seq(States) /\ ToSet(one) = {t} /\ Reverse(one) = one
    <3>1. DOMAIN one = {1} /\ one[1] = t
      OBVIOUS
    <3>2. Reverse(one) = one
      BY ReverseShort
    <3>3. one \in Seq(States)
      OBVIOUS
    <3> HIDE DEF one
    <3> QED BY <3>1, <3>2, <3>3 DEF ToSet
  <2>3. q = one \o SubSeq(q, 2, Len(q))
    <3>1. SubSeq(q, 1, Len(q)) = <<q[1]>> \o SubSeq(q, 1 + 1, Len(q))
      <4>1. 1 \in 1 .. Len(q) /\ Len(q) \in 1 .. Len(q)
        BY <1>2
      <4> HIDE DEF q
      <4> QED BY <4>1, <1>2, SubSeqRecursiveFirst DEF q
    <3>2. SubSeq(q, 1, Len(q)) = q
      BY <1>2, SubSeqFull
    <3> QED BY <3>1, <3>2, <1>2, <1>3
  <2> HIDE DEF one
  <2>4. Meets(f, t, 2)
    BY <2>1, <2>2, <2>3, <1>3 DEF Meets
  <2>5. 2 \in 1 .. Len(Chain(f)) + 1
    BY <1>2
  <2>6. \E n \in 1 .. Len(Chain(f)) + 1 : Meets(f, t, n)
    BY <2>4, <2>5
  <2> QED BY <2>1, <2>2, <2>6, <1>3 DEF Leads
<1>4. CASE f # t /\ Table!IsStrictAncestor(t, f)
  <2>1. t \in Ancestors(f)
    BY <1>4, StrictAncestor
  <2>2. Splits(f, t)
    BY <2>1, WalkSplits
  <2>3. Table!ExitOf(f, t) = Table!WalkTo(f, t) /\ Table!EnterOf(f, t) = <<>>
    BY <1>4 DEF Table!ExitOf, Table!EnterOf
  <2>4. PICK n \in 1 .. Len(Chain(f)) : Chain(t) = SubSeq(Chain(f), n, Len(Chain(f)))
    BY <2>2 DEF Splits
  <2>5. Chain(f) = Table!WalkTo(f, t) \o Chain(t) /\ Table!WalkTo(f, t) \in Seq(States)
    BY <2>2 DEF Splits
  <2>6. Chain(t) = Reverse(<<>>) \o Chain(t) /\ <<>> \in Seq(States)
    <3>1. Reverse(<<>>) = <<>>
      BY ReverseShort
    <3> QED BY <3>1, <1>2, ConcatEmptySeq
  <2>7. Meets(f, t, n)
    BY <2>3, <2>4, <2>5, <2>6 DEF Meets
  <2>8. n \in 1 .. Len(Chain(f)) + 1
    BY <2>4, <1>2
  <2>9. \E k \in 1 .. Len(Chain(f)) + 1 : Meets(f, t, k)
    BY <2>7, <2>8
  <2>10. ToSet(Table!WalkTo(f, t)) \cap Ancestors(t) = {}
    <3>1. \A x \in Ancestors(t) : x <= t /\ x \in States
      BY AncestorFacts DEF Ancestry
    <3>2. \A x \in ToSet(Table!WalkTo(f, t)) : x > t
      BY <2>2 DEF Splits
    <3>3. \A x \in States : x \in Nat
      BY TreeOfSource
    <3> QED BY <3>1, <3>2, <3>3
  <2> QED BY <2>3, <2>5, <2>6, <2>9, <2>10 DEF Leads
<1>5. CASE f # t /\ ~ Table!IsStrictAncestor(t, f)
  <2>1. PICK c : c = Table!Lca[<<f, t>>]
    OBVIOUS
  <2>2. Deepest(f, t, c)
    BY <2>1, LcaIsDeepest
  <2>3. Table!ExitOf(f, t) = Table!WalkTo(f, c) /\ Table!EnterOf(f, t) = Reverse(Table!WalkTo(t, c))
    BY <1>5, <2>1, SameOperators DEF Table!ExitOf, Table!EnterOf
  <2>4. Splits(f, c) /\ Splits(t, c)
    BY <2>2, WalkSplits DEF Deepest, Common
  <2>5. PICK n \in 1 .. Len(Chain(f)) : Chain(c) = SubSeq(Chain(f), n, Len(Chain(f)))
    BY <2>4 DEF Splits
  <2>6. /\ Chain(f) = Table!WalkTo(f, c) \o Chain(c) /\ Table!WalkTo(f, c) \in Seq(States)
        /\ Chain(t) = Table!WalkTo(t, c) \o Chain(c) /\ Table!WalkTo(t, c) \in Seq(States)
    BY <2>4 DEF Splits
  <2>7. /\ Reverse(Table!WalkTo(t, c)) \in Seq(States)
        /\ Reverse(Reverse(Table!WalkTo(t, c))) = Table!WalkTo(t, c)
    BY <2>6, ReverseTwice
  <2>8. Meets(f, t, n)
    BY <2>3, <2>5, <2>6, <2>7 DEF Meets
  <2>9. n \in 1 .. Len(Chain(f)) + 1
    BY <2>5, <1>2
  <2>10. \E k \in 1 .. Len(Chain(f)) + 1 : Meets(f, t, k)
    BY <2>8, <2>9
  <2>11. ToSet(Table!WalkTo(f, c)) \cap Ancestors(f) \cap Ancestors(t) = {}
    <3>1. \A x \in Ancestors(f) \cap Ancestors(t) : x <= c
      BY <2>2 DEF Deepest, Common
    <3>2. \A x \in ToSet(Table!WalkTo(f, c)) : x > c
      BY <2>4 DEF Splits
    <3>3. \A x \in Ancestors(f) : x \in Nat
      BY TreeOfSource, AncestorFacts DEF Ancestry
    <3>4. c \in Nat
      BY <2>2, <3>3 DEF Deepest, Common
    <3> QED BY <3>1, <3>2, <3>3, <3>4
  <2> QED BY <2>3, <2>6, <2>7, <2>10, <2>11 DEF Leads
<1> QED BY <1>3, <1>4, <1>5

-----------------------------------------------------------------------------
(* The arrays: a slice is stored where its offsets say, if they fit. *)

Fetches(slices, k) ==
  /\ Table!End(slices, k - 1) <= Table!End(slices, k)
  /\ Table!End(slices, k) <= Len(FlattenSeq(slices))
  /\ Table!Slice(FlattenSeq(slices), Table!End(slices, k - 1), Table!End(slices, k)) = slices[k]

LEMMA SliceFetched ==
  ASSUME NEW slices, ListOfSeqs(slices, States), Len(FlattenSeq(slices)) <= MaxOffset,
         NEW k \in 1 .. Len(slices)
  PROVE  Fetches(slices, k)
<1>1. PICK flat : Flattens(flat, States, slices)
  BY FlattenSteps
<1>2. Lies(flat, slices, k)
  BY <1>1, FlattenSlice
<1>3. Len(slices) \in Nat
  BY DEF ListOfSeqs
<1>4. ASSUME NEW n \in 0 .. Len(slices), Len(flat[n]) \in Nat, Len(flat[n]) <= MaxOffset
      PROVE  Table!End(slices, n) = Len(flat[n])
  <2>1. FlattenSeq(SubSeq(slices, 1, n)) = flat[n]
    BY <1>1, FlattenPrefix
  <2>2. Table!End(slices, n) = Len(flat[n]) % (MaxOffset + 1)
    BY <2>1, SameOperators DEF Table!End
  <2>3. \A x, m \in Nat : x <= m => x % (m + 1) = x
    OBVIOUS
  <2> QED BY <2>2, <2>3, <1>4, OffsetAssumption
<1>5. k - 1 \in 0 .. Len(slices) /\ k \in 0 .. Len(slices)
  BY <1>3
<1>6. /\ Len(flat[k - 1]) \in Nat /\ Len(flat[k]) \in Nat
      /\ Len(flat[k - 1]) <= MaxOffset /\ Len(flat[k]) <= MaxOffset
  <2>1. FlattenSeq(slices) \in Seq(States)
    BY FlattenHoldsOnly
  <2>2. Len(FlattenSeq(slices)) \in Nat
    BY <2>1
  <2> QED BY <2>2, <1>2, OffsetAssumption DEF Lies
<1>7. Table!End(slices, k - 1) = Len(flat[k - 1]) /\ Table!End(slices, k) = Len(flat[k])
  BY <1>4, <1>5, <1>6
<1> QED BY <1>2, <1>7 DEF Fetches, Lies, Table!Slice

LEMMA SizeOfTable ==
  ASSUME SourceOK
  PROVE  Table!Size = Len(bodies)
<1>1. States = 1 .. Len(bodies) /\ Len(bodies) \in Nat
  BY TreeOfSource
<1>2. Cardinality(1 .. Len(bodies)) = IF 1 > Len(bodies) THEN 0 ELSE Len(bodies) - 1 + 1
  BY <1>1, FS_Interval
<1>3. Table!Size = Cardinality(States)
  BY SameOperators DEF Table!Size
<1> QED BY <1>1, <1>2, <1>3

(* Every pair has its two places among the slices. *)
Placed(f, t) ==
  LET k == Table!PairIndex(f, t)
  IN  /\ k \in 1 .. Table!Size * Table!Size
      /\ 2 * k - 1 \in 1 .. Len(Table!PathSlices) /\ 2 * k \in 1 .. Len(Table!PathSlices)
      /\ Table!PathSlices[2 * k - 1] = Table!ExitOf(f, t)
      /\ Table!PathSlices[2 * k] = Table!EnterOf(f, t)

LEMMA SlicesOfPairs ==
  ASSUME SourceOK
  PROVE  /\ ListOfSeqs(Table!PathSlices, States)
         /\ Len(Table!PathSlices) = 2 * (Table!Size * Table!Size)
         /\ Table!Size * Table!Size \in Nat
         /\ \A f, t \in States : Placed(f, t)
<1> DEFINE N == Table!Size
           From(k) == ((k - 1) \div N) + 1
           To(k) == ((k - 1) % N) + 1
           pairs == [k \in 1 .. N * N |->
                      <<Table!ExitOf(From(k), To(k)), Table!EnterOf(From(k), To(k))>>]
<1>1. States = 1 .. N /\ N \in Nat /\ N >= 1
  BY TreeOfSource, SizeOfTable
<1>2. Table!PathSlices = FlattenSeq(pairs)
  BY SameOperators DEF Table!PathSlices
<1> HIDE DEF N
<1>3. N * N \in Nat
  BY <1>1
<1>4. ASSUME NEW k \in 1 .. N * N PROVE From(k) \in States /\ To(k) \in States
  <2>1. k - 1 \in 0 .. N * N - 1
    BY <1>3
  <2>2. (k - 1) \div N \in 0 .. N - 1 /\ (k - 1) % N \in 0 .. N - 1
    BY <2>1, <1>1, DivRange
  <2> QED BY <2>2, <1>1
<1> HIDE DEF From, To
<1>5. ASSUME NEW f \in States, NEW t \in States
      PROVE  /\ Table!ExitOf(f, t) \in Seq(States) /\ Table!EnterOf(f, t) \in Seq(States)
  BY PathsLead DEF Leads
<1>6. /\ Len(pairs) = N * N /\ ListOfSeqs(pairs, Seq(States))
      /\ \A k \in 1 .. Len(pairs) : Len(pairs[k]) = 2
  <2>1. ASSUME NEW k \in 1 .. N * N PROVE pairs[k] \in Seq(Seq(States)) /\ Len(pairs[k]) = 2
    <3>1. Table!ExitOf(From(k), To(k)) \in Seq(States) /\ Table!EnterOf(From(k), To(k)) \in Seq(States)
      BY <1>4, <1>5
    <3> QED BY <3>1
  <2>2. DOMAIN pairs = 1 .. N * N /\ pairs = [k \in 1 .. N * N |-> pairs[k]]
    OBVIOUS
  <2> HIDE DEF pairs
  <2>3. PICK n : n = N * N /\ n \in Nat
    BY <1>3
  <2>4. pairs \in Seq(Seq(Seq(States))) /\ Len(pairs) = n
    BY <2>1, <2>2, <2>3
  <2> QED BY <2>1, <2>3, <2>4 DEF ListOfSeqs
<1>7. /\ FlattenSeq(pairs) \in Seq(Seq(States)) /\ Len(FlattenSeq(pairs)) = 2 * Len(pairs)
      /\ \A k \in 1 .. Len(pairs) : /\ FlattenSeq(pairs)[2 * k - 1] = pairs[k][1]
                                    /\ FlattenSeq(pairs)[2 * k] = pairs[k][2]
  <2> HIDE DEF pairs
  <2> QED BY <1>6, FlattenPairs
<1>8. ASSUME NEW f \in States, NEW t \in States PROVE Placed(f, t)
  <2> DEFINE k == Table!PairIndex(f, t)
  <2>1. f - 1 \in 0 .. N - 1 /\ t - 1 \in 0 .. N - 1 /\ f \in Nat /\ t \in Nat
    BY <1>1
  <2>2. /\ ((f - 1) * N + (t - 1)) \div N = f - 1 /\ ((f - 1) * N + (t - 1)) % N = t - 1
        /\ (f - 1) * N + (t - 1) \in 0 .. N * N - 1
    BY <1>1, <2>1, DivMod
  <2>3. k = (f - 1) * N + t
    BY DEF Table!PairIndex, N
  <2>4. PICK row : row = (f - 1) * N /\ row \in Int
    BY <2>1, <1>1
  <2>5. k - 1 = (f - 1) * N + (t - 1) /\ k \in 1 .. N * N
    <3>1. k = row + t /\ row + (t - 1) \in 0 .. N * N - 1
      BY <2>2, <2>3, <2>4
    <3> HIDE DEF k
    <3> QED BY <3>1, <2>1, <2>4, <1>3
  <2> HIDE DEF k
  <2>6. From(k) = f /\ To(k) = t
    BY <2>1, <2>2, <2>5 DEF From, To
  <2>7. pairs[k] = <<Table!ExitOf(f, t), Table!EnterOf(f, t)>>
    BY <2>5, <2>6
  <2>8. 2 * k - 1 \in 1 .. 2 * (N * N) /\ 2 * k \in 1 .. 2 * (N * N)
    BY <2>5, <1>3
  <2> HIDE DEF pairs
  <2>9. /\ FlattenSeq(pairs)[2 * k - 1] = pairs[k][1]
        /\ FlattenSeq(pairs)[2 * k] = pairs[k][2]
    BY <2>5, <1>6, <1>7
  <2>10. /\ Table!PathSlices[2 * k - 1] = Table!ExitOf(f, t)
         /\ Table!PathSlices[2 * k] = Table!EnterOf(f, t)
    BY <2>7, <2>9, <1>2
  <2>11. Len(Table!PathSlices) = 2 * (N * N)
    BY <1>2, <1>6, <1>7
  <2> QED BY <2>5, <2>8, <2>10, <2>11 DEF Placed, k, N
<1> HIDE DEF pairs
<1> QED BY <1>2, <1>3, <1>6, <1>7, <1>8 DEF ListOfSeqs, N

(* The ranges of a pair, and what lies in them. *)
InRange(k) ==
  LET r == Table!PathRange(k)
  IN  /\ r[1] <= r[2] /\ r[2] <= r[3] /\ r[3] <= Len(Table!PathData)
      /\ Table!Slice(Table!PathData, r[1], r[2]) = Table!PathSlices[2 * k - 1]
      /\ Table!Slice(Table!PathData, r[2], r[3]) = Table!PathSlices[2 * k]

LEMMA PathRanges ==
  ASSUME SourceOK, Table!OffsetsFit
  PROVE  \A k \in 1 .. Table!Size * Table!Size : InRange(k)
<1> DEFINE slices == Table!PathSlices
           M == Table!Size * Table!Size
<1>1. ListOfSeqs(slices, States) /\ Len(slices) = 2 * M /\ M \in Nat
  BY SlicesOfPairs
<1>2. Table!PathData = FlattenSeq(slices) /\ Len(FlattenSeq(slices)) <= MaxOffset
  BY SameOperators DEF Table!PathData, Table!OffsetsFit
<1> SUFFICES ASSUME NEW k \in 1 .. M PROVE InRange(k)
  OBVIOUS
<1> HIDE DEF slices, M
<1>3. 2 * k - 1 \in 1 .. Len(slices) /\ 2 * k \in 1 .. Len(slices)
      /\ (2 * k - 1) - 1 = 2 * k - 2 /\ 2 * k - 1 = (2 * k) - 1
  BY <1>1
<1>4. Fetches(slices, 2 * k - 1) /\ Fetches(slices, 2 * k)
  BY <1>1, <1>2, <1>3, SliceFetched
<1> DEFINE a == Table!End(slices, 2 * k - 2)
           b == Table!End(slices, 2 * k - 1)
           c == Table!End(slices, 2 * k)
<1>5. /\ a <= b /\ b <= c /\ c <= Len(Table!PathData)
      /\ Table!Slice(Table!PathData, a, b) = slices[2 * k - 1]
      /\ Table!Slice(Table!PathData, b, c) = slices[2 * k]
  BY <1>2, <1>3, <1>4 DEF Fetches
<1>6. Table!PathRange(k) = <<a, b, c>>
  BY DEF Table!PathRange, slices
<1> HIDE DEF a, b, c
<1> QED BY <1>5, <1>6 DEF InRange, slices

InTerminateRange(s) ==
  LET r == Table!TerminateRange(s)
  IN  /\ r[1] <= r[2] /\ r[2] <= Len(Table!TerminateData)
      /\ Table!Slice(Table!TerminateData, r[1], r[2]) = Table!Chain[s]

LEMMA TerminateRanges ==
  ASSUME SourceOK, Table!OffsetsFit
  PROVE  /\ \A s \in 1 .. Table!Size : InTerminateRange(s)
         /\ ListOfSeqs(Table!TerminateSlices, States)
<1> DEFINE slices == Table!TerminateSlices
           N == Table!Size
<1>1. States = 1 .. N /\ N \in Nat
  BY TreeOfSource, SizeOfTable
<1>2. Table!Chain \in [States -> Seq(States)]
  BY ChainRecursion
<1>3. slices = [s \in 1 .. N |-> Table!Chain[s]]
  BY DEF Table!TerminateSlices
<1> HIDE DEF slices, N
<1>4. ListOfSeqs(slices, States) /\ Len(slices) = N /\ \A s \in 1 .. N : slices[s] = Table!Chain[s]
  BY <1>1, <1>2, <1>3 DEF ListOfSeqs
<1>5. Table!TerminateData = FlattenSeq(slices) /\ Len(FlattenSeq(slices)) <= MaxOffset
  BY SameOperators DEF Table!TerminateData, Table!OffsetsFit, slices
<1>6. ASSUME NEW s \in 1 .. N PROVE InTerminateRange(s)
  <2>1. Fetches(slices, s)
    BY <1>4, <1>5, SliceFetched
  <2> DEFINE a == Table!End(slices, s - 1)
             b == Table!End(slices, s)
  <2>2. /\ a <= b /\ b <= Len(Table!TerminateData)
        /\ Table!Slice(Table!TerminateData, a, b) = Table!Chain[s]
    BY <2>1, <1>4, <1>5 DEF Fetches
  <2>3. Table!TerminateRange(s) = <<a, b>>
    BY DEF Table!TerminateRange, slices
  <2> HIDE DEF a, b
  <2> QED BY <2>2, <2>3 DEF InTerminateRange
<1> QED BY <1>4, <1>6 DEF slices, N

(* What the machine takes out of the arrays is the path of its pair. *)
LEMMA SlicesAreThePaths ==
  ASSUME SourceOK, Table!OffsetsFit
  PROVE  /\ \A f, t \in States : /\ Table!ExitSlice(f, t) = Table!ExitOf(f, t)
                                 /\ Table!EnterSlice(f, t) = Table!EnterOf(f, t)
         /\ \A s \in States : Table!TerminateSlice(s) = Table!Chain[s]
<1>1. ASSUME NEW f \in States, NEW t \in States
      PROVE  /\ Table!ExitSlice(f, t) = Table!ExitOf(f, t)
             /\ Table!EnterSlice(f, t) = Table!EnterOf(f, t)
  <2>1. PICK k : k = Table!PairIndex(f, t)
    OBVIOUS
  <2>2. /\ k \in 1 .. Table!Size * Table!Size
        /\ Table!PathSlices[2 * k - 1] = Table!ExitOf(f, t)
        /\ Table!PathSlices[2 * k] = Table!EnterOf(f, t)
    <3>1. Placed(f, t)
      BY SlicesOfPairs
    <3> QED BY <2>1, <3>1 DEF Placed
  <2>3. InRange(k)
    BY <2>2, PathRanges
  <2> QED BY <2>1, <2>2, <2>3 DEF InRange, Table!ExitSlice, Table!EnterSlice
<1>2. ASSUME NEW s \in States PROVE Table!TerminateSlice(s) = Table!Chain[s]
  <2>1. s \in 1 .. Table!Size
    BY TreeOfSource, SizeOfTable
  <2>2. InTerminateRange(s)
    BY <2>1, TerminateRanges
  <2> QED BY <2>2 DEF InTerminateRange, Table!TerminateSlice
<1> QED BY <1>1, <1>2

LEMMA TablesAreSound ==
  ASSUME SourceOK, Table!OffsetsFit, defaults \in [States -> States \cup {None}]
  PROVE  Table!PathTablesSound
<1>1. Table!PathRangeInvariant
  <2>1. \A k \in 1 .. Table!Size * Table!Size : InRange(k)
    BY PathRanges
  <2> QED BY <2>1 DEF Table!PathRangeInvariant, InRange
<1>2. Table!TerminateRangeInvariant
  <2>1. \A s \in 1 .. Table!Size : InTerminateRange(s)
    BY TerminateRanges
  <2> QED BY <2>1 DEF Table!TerminateRangeInvariant, InTerminateRange
<1>3. ASSUME NEW data \in Seq(States) PROVE Table!StateIdsInBounds(data)
  <2>1. ToSet(data) \subseteq States
    BY DEF ToSet
  <2> QED BY <2>1, SameOperators DEF Table!StateIdsInBounds
<1>4. Table!PathData \in Seq(States)
  <2>1. FlattenSeq(Table!PathSlices) \in Seq(States)
    BY SlicesOfPairs, FlattenHoldsOnly
  <2> QED BY <2>1, SameOperators DEF Table!PathData
<1>5. Table!TerminateData \in Seq(States)
  <2>1. FlattenSeq(Table!TerminateSlices) \in Seq(States)
    BY TerminateRanges, FlattenHoldsOnly
  <2> QED BY <2>1, SameOperators DEF Table!TerminateData
<1>6. Table!DefaultChildInBounds
  BY DEF Table!DefaultChildInBounds
<1> QED BY <1>1, <1>2, <1>3, <1>4, <1>5, <1>6 DEF Table!PathTablesSound

-----------------------------------------------------------------------------
(* Tables are emitted only where the offsets fit. *)

Emitted == phase = "done" => Table!OffsetsFit

LEMMA SameTables ==
  ASSUME UNCHANGED bodies
  PROVE  Table!OffsetsFit' <=> Table!OffsetsFit
<1>1. Table!Chain' = Table!Chain
  BY DEF Table!Chain, States
<1>2. Table!DepthTable' = Table!DepthTable
  BY <1>1 DEF Table!DepthTable, States
<1>3. Table!Lca' = Table!Lca
  BY DEF Table!Chain, States, Table!Lca, Table!DepthTable
<1>4. Table!TerminateData' = Table!TerminateData
  BY <1>1 DEF Table!TerminateData, Table!TerminateSlices, Table!Size, States
<1>5. Table!PathSlices' = Table!PathSlices
  BY <1>1, <1>2, <1>3 DEF Table!PathSlices, Table!ExitOf, Table!EnterOf, Table!WalkTo,
     Table!IsStrictAncestor, Table!Size, States
<1>6. Table!PathData' = Table!PathData
  BY <1>5 DEF Table!PathData
<1> QED BY <1>4, <1>6 DEF Table!OffsetsFit

LEMMA EmittedKeeps == Emitted /\ [Next]_vars => Emitted'
<1> SUFFICES ASSUME Emitted, [Next]_vars, phase' = "done" PROVE Table!OffsetsFit'
  BY DEF Emitted
<1>1. CASE Generate
  <2>1. Table!OffsetsFit /\ UNCHANGED bodies
    BY <1>1 DEF Generate, source
  <2> QED BY <2>1, SameTables
<1>2. CASE UNCHANGED vars
  <2>1. phase = "done" /\ UNCHANGED bodies
    BY <1>2 DEF vars, source
  <2> QED BY <2>1, SameTables DEF Emitted
<1>3. CASE Parsing
  <2>1. phase = "parse" /\ phase' = phase
    BY <1>3, Zenon DEF Parsing, Parse, Entry, Exit, Handle, During, DefaultTo, TerminateOn, Declare,
       OpenState, CloseState
  <2> QED BY <2>1
<1>4. CASE Check
  <2>1. phase # "done" /\ (phase' = phase \/ phase' # "done")
    BY <1>4 DEF Check, EndOfInput, LowerAction, LowerHandler, LowerTerminate, Lowered, Resolve,
       StartWalk, Follow, EndWalk, FindCycle, DefaultsWalked, Validate, Reject
  <2> QED BY <2>1
<1> QED BY <1>1, <1>2, <1>3, <1>4 DEF Next

(* What is emitted passed the panics on offsets that do not fit a u16.     *)
THEOREM EmittedTablesFit == Spec => []Emitted
<1>1. Init => Emitted
  BY DEF Init, ParseInit, Emitted
<1> QED BY <1>1, EmittedKeeps, PTL DEF Spec

(* The tables a machine is emitted with decode to the paths of its chart,  *)
(* and pass the checks of the generated code: for any chart, and any bound *)
(* on the offsets (compute_*_paths, the const block, apply_path).          *)
THEOREM TablesAlwaysDecode == Spec => []TablesDecode
<1>1. CompilerInv /\ Emitted => TablesDecode
  <2> SUFFICES ASSUME CompilerInv, Emitted, phase = "done"
               PROVE  /\ Table!PathTablesSound
                      /\ \A f, t \in States :
                           /\ Table!ExitSlice(f, t) = Table!ExitOf(f, t)
                           /\ Table!EnterSlice(f, t) = Table!EnterOf(f, t)
                      /\ \A s \in States : Table!TerminateSlice(s) = Table!Chain[s]
    BY DEF TablesDecode
  <2>1. SourceOK /\ Table!OffsetsFit
    BY DEF CompilerInv, Emitted
  <2>2. defaults \in [States -> States \cup {None}]
    <3>1. defaults = DefaultsOf /\ DefaultsAreStates
      BY DEF CompilerInv, VerdictInv, ResolvedPhases, LoweredPhases
    <3> QED BY <3>1, <2>1, ResolvedTypes
  <2> QED BY <2>1, <2>2, TablesAreSound, SlicesAreThePaths
<1> QED BY <1>1, CompilerInvariant, EmittedTablesFit, PTL

(* ... and they are what the machine's transitions rely on: an exit path   *)
(* is a prefix of the path to the root, an enter path leads from the rest  *)
(* of it to the target, and nothing the two share is exited, so that the   *)
(* assumptions of Machine hold of every chart the macro accepts.           *)
THEOREM TablesAlwaysServe == Spec => []TablesServeTheMachine
<1>1. ASSUME SourceOK, Table!OffsetsFit, NEW f \in States, NEW t \in States
      PROVE  LET path == Table!TerminateSlice(f)
             IN  /\ Table!TerminateSlice(1) = <<1>> /\ Head(path) = f
                 /\ \A i \in DOMAIN path :
                      Table!TerminateSlice(path[i]) = SubSeq(path, i, Len(path))
                 /\ \E n \in 1 .. Len(path) + 1 :
                      LET rest == SubSeq(path, n, Len(path))
                      IN  /\ path = Table!ExitSlice(f, t) \o rest
                          /\ Table!TerminateSlice(t) = Reverse(Table!EnterSlice(f, t)) \o rest
                 /\ ToSet(Table!ExitSlice(f, t)) \cap ToSet(path)
                      \cap ToSet(Table!TerminateSlice(t)) \subseteq {f} \cap {t}
  <2> DEFINE path == Table!TerminateSlice(f)
  <2>1. /\ Table!ExitSlice(f, t) = Table!ExitOf(f, t) /\ Table!EnterSlice(f, t) = Table!EnterOf(f, t)
        /\ \A s \in States : Table!TerminateSlice(s) = Chain(s)
    BY <1>1, SlicesAreThePaths DEF Chain
  <2>2. path = Chain(f) /\ Table!TerminateSlice(t) = Chain(t)
    BY <2>1
  <2>3. Table!TerminateSlice(1) = <<1>>
    BY <1>1, <2>1, TreeOfSource, ChainRecursion DEF Chain
  <2>4. Lineage(Chain(f), f)
    BY <1>1, ChainLineage DEF Chain
  <2>5. /\ path \in Seq(States) /\ Len(path) >= 1 /\ Len(path) \in Nat /\ path[1] = f
        /\ \A i \in 1 .. Len(path) : Chain(path[i]) = SubSeq(path, i, Len(path))
    BY <2>2, <2>4 DEF Lineage, Chain
  <2>6. Leads(f, t)
    BY <1>1, PathsLead
  <2> HIDE DEF path
  <2>7. Head(path) = f
    BY <2>5
  <2>8. \A i \in DOMAIN path : Table!TerminateSlice(path[i]) = SubSeq(path, i, Len(path))
    <3>1. \A i \in DOMAIN path : i \in 1 .. Len(path) /\ path[i] \in States
      BY <2>5
    <3> QED BY <3>1, <2>1, <2>5
  <2>9. \E n \in 1 .. Len(path) + 1 :
          LET rest == SubSeq(path, n, Len(path))
          IN  /\ path = Table!ExitSlice(f, t) \o rest
              /\ Table!TerminateSlice(t) = Reverse(Table!EnterSlice(f, t)) \o rest
    <3>1. PICK n \in 1 .. Len(path) + 1 : Meets(f, t, n)
      BY <2>2, <2>6 DEF Leads
    <3>2. /\ path = Table!ExitSlice(f, t) \o SubSeq(path, n, Len(path))
          /\ Table!TerminateSlice(t) = Reverse(Table!EnterSlice(f, t)) \o SubSeq(path, n, Len(path))
      BY <2>1, <2>2, <3>1 DEF Meets
    <3> QED BY <3>2
  <2>10. ToSet(Table!ExitSlice(f, t)) \cap ToSet(path) \cap ToSet(Table!TerminateSlice(t))
           \subseteq {f} \cap {t}
    BY <2>1, <2>2, <2>6 DEF Leads, Ancestors
  <2> QED BY <2>3, <2>7, <2>8, <2>9, <2>10 DEF path
<1>2. CompilerInv /\ Emitted => TablesServeTheMachine
  BY <1>1 DEF CompilerInv, Emitted, TablesServeTheMachine
<1> QED BY <1>2, CompilerInvariant, EmittedTablesFit, PTL

-----------------------------------------------------------------------------
(* What a state does on a trigger. *)

(* Two vectors whose entries say the same at the positions that are kept   *)
(* keep the same to say.                                                   *)
SayTheSame(p, q, keep) ==
  Len(p) = Len(q) /\ \A n \in 1 .. Len(p) : n \in keep => p[n].do = q[n].do

Says(p) == [i \in DOMAIN p |-> p[i].do]

LEMMA RetainAligned ==
  ASSUME NEW S, NEW R, NEW p \in Seq(S), NEW q \in Seq(R), NEW keep, SayTheSame(p, q, keep)
  PROVE  /\ Retain(p, keep) \in Seq(S)
         /\ Says(Retain(p, keep)) = Says(Retain(q, keep))
<1>1. PICK a : RetainRuns(a, S, p, keep)
  BY RetainSteps
<1>2. PICK b : RetainRuns(b, R, q, keep)
  BY RetainSteps
<1> DEFINE N == Len(p)
           Same(x, y) == Len(x) = Len(y) /\ \A i \in 1 .. Len(x) : x[i].do = y[i].do
           T == {n \in 0 .. N : Same(a[n], b[n])}
<1>3. /\ N \in Nat /\ a \in [0 .. N -> Seq(S)] /\ b \in [0 .. N -> Seq(R)]
      /\ a[0] = <<>> /\ b[0] = <<>> /\ Retain(p, keep) = a[N] /\ Retain(q, keep) = b[N]
  BY <1>1, <1>2 DEF RetainRuns, SayTheSame
<1>4. \A n \in 1 .. N :
        /\ a[n] = IF n \in keep THEN Append(a[n - 1], p[n]) ELSE a[n - 1]
        /\ b[n] = IF n \in keep THEN Append(b[n - 1], q[n]) ELSE b[n - 1]
  BY <1>1, <1>2 DEF RetainRuns, SayTheSame
<1>5. \A n \in 1 .. N : p[n] \in S /\ q[n] \in R /\ (n \in keep => p[n].do = q[n].do)
  BY DEF SayTheSame
<1> HIDE DEF N
<1>6. 0 \in T
  BY <1>3
<1>7. ASSUME NEW n \in 0 .. N, n > 0, n - 1 \in T PROVE n \in T
  <2>1. /\ n \in 1 .. N /\ n - 1 \in 0 .. N /\ a[n - 1] \in Seq(S) /\ b[n - 1] \in Seq(R)
        /\ Same(a[n - 1], b[n - 1])
    BY <1>3, <1>7
  <2>2. CASE n \in keep
    <3>1. /\ a[n] = Append(a[n - 1], p[n]) /\ b[n] = Append(b[n - 1], q[n])
          /\ p[n] \in S /\ q[n] \in R /\ p[n].do = q[n].do
      BY <1>4, <1>5, <2>1, <2>2
    <3>2. ASSUME NEW x \in Seq(S), NEW y \in Seq(R), Same(x, y), NEW u \in S, NEW v \in R,
                 u.do = v.do
          PROVE  Same(Append(x, u), Append(y, v))
      <4>1. /\ Len(Append(x, u)) = Len(x) + 1 /\ Len(Append(y, v)) = Len(x) + 1
            /\ Len(x) \in Nat
        BY <3>2
      <4>2. ASSUME NEW i \in 1 .. Len(x) + 1 PROVE Append(x, u)[i].do = Append(y, v)[i].do
        <5>1. CASE i = Len(x) + 1
          BY <3>2, <5>1
        <5>2. CASE i # Len(x) + 1
          <6>1. i \in 1 .. Len(x)
            BY <4>1, <5>2
          <6>2. Append(x, u)[i] = x[i] /\ Append(y, v)[i] = y[i]
            BY <3>2, <6>1
          <6> QED BY <3>2, <6>1, <6>2
        <5> QED BY <5>1, <5>2
      <4> QED BY <4>1, <4>2
    <3> HIDE DEF Same
    <3> QED BY <2>1, <3>1, <3>2
  <2>3. CASE n \notin keep
    BY <1>4, <2>1, <2>3
  <2> QED BY <2>2, <2>3
<1>8. \A n \in 0 .. N : n \in T
  <2> HIDE DEF T
  <2> QED BY <1>3, <1>6, <1>7, UpTo
<1>9. N \in 0 .. N /\ Same(a[N], b[N]) /\ a[N] \in Seq(S) /\ b[N] \in Seq(R)
  BY <1>3, <1>8, SMTT(30)
<1>10. Says(a[N]) = Says(b[N])
  <2>1. /\ DOMAIN a[N] = 1 .. Len(a[N]) /\ DOMAIN b[N] = 1 .. Len(a[N])
        /\ \A i \in 1 .. Len(a[N]) : a[N][i].do = b[N][i].do
    BY <1>9
  <2>2. Says(a[N]) = [i \in 1 .. Len(a[N]) |-> a[N][i].do]
    BY <2>1 DEF Says
  <2>3. Says(b[N]) = [i \in 1 .. Len(a[N]) |-> b[N][i].do]
    BY <2>1 DEF Says
  <2> QED BY <2>1, <2>2, <2>3
<1> QED BY <1>3, <1>9, <1>10

RootNamed == Len(bodies) >= 1 /\ bodies[1].name = ChartName

LEMMA NameOfStateNamed ==
  ASSUME SourceOK, RootNamed, NEW n \in StateNames
  PROVE  StateNamed(n) \in States /\ bodies[StateNamed(n)].name = n
<1> DEFINE Same == {s \in States : bodies[s].name = n}
<1>1. States = 1 .. Len(bodies) /\ Len(bodies) \in Nat /\ 1 \in States
  BY StatesAreNumbers DEF SourceOK
<1>2. Same \in SUBSET (0 .. Len(bodies)) /\ Same # {}
  BY <1>1 DEF StateNames
<1>3. PICK m \in Same : \A y \in Same : y <= m
  <2>1. \E m \in Same : \A y \in Same : y <= m
    <3> HIDE DEF Same
    <3> QED BY <1>1, <1>2, GreatestExists
  <2> QED BY <2>1
<1>4. m \in States /\ bodies[m].name = n /\ \A r \in States : bodies[r].name = n => r <= m
  BY <1>3
<1> QED BY <1>1, <1>4 DEF StateNamed, RootNamed

(* The clauses of a state that answer a trigger, and those that leave.     *)
Answering(s, x) == {i \in DOMAIN bodies[s].handlers : Key(bodies[s].handlers[i].on) = x}

Leaving(s, x) == {i \in Answering(s, x) : bodies[s].handlers[i].do \in StateNames}

ClauseOf(s) ==
  [i \in DOMAIN bodies[s].handlers |->
     [on |-> Key(bodies[s].handlers[i].on),
      do |-> IF goals[s][i] = None THEN bodies[s].handlers[i].do ELSE goals[s][i]]]

LEMMA LeavesOnce ==
  ASSUME NothingAfterTransition, NEW s \in States, NEW x
  PROVE  \A m \in Leaving(s, x) : \A i \in Answering(s, x) : ~(m < i)
BY DEF NothingAfterTransition, Answering, Leaving

LEMMA HandlersOfState ==
  ASSUME SourceOK, NEW s \in States
  PROVE  /\ bodies[s].handlers \in Seq(Clauses)
         /\ \A i \in DOMAIN bodies[s].handlers : bodies[s].handlers[i].do \notin States
<1>1. bodies[s] \in Body
  BY DEF SourceOK, States
<1>2. bodies[s].handlers \in Seq(Clauses)
  BY <1>1, BodyFields
<1>3. \A h \in Handlers : \A name \in ToSet(h.do) : name \notin Nat
  BY SourceAssumption
<1>4. ASSUME NEW c \in Clauses PROVE c.do \notin Nat
  <2>1. c.do \in UNION {ToSet(h.do) : h \in Handlers}
    BY DEF Clauses
  <2> QED BY <2>1, <1>3
<1>5. \A i \in DOMAIN bodies[s].handlers : bodies[s].handlers[i] \in Clauses
  BY <1>2
<1>6. States \subseteq Nat
  BY StatesAreNumbers
<1> QED BY <1>2, <1>4, <1>5, <1>6

LEMMA ClauseTargets ==
  ASSUME SourceOK, DefaultsAreStates, goals = GoalsOf, NEW s \in States
  PROVE  /\ ClauseOf(s) \in Seq({ClauseOf(s)[i] : i \in DOMAIN ClauseOf(s)})
         /\ Len(ClauseOf(s)) = Len(bodies[s].handlers)
         /\ DOMAIN ClauseOf(s) = DOMAIN bodies[s].handlers
         /\ \A i \in DOMAIN bodies[s].handlers :
              /\ ClauseOf(s)[i].on = Key(bodies[s].handlers[i].on)
              /\ IF bodies[s].handlers[i].do \in StateNames
                   THEN /\ ClauseOf(s)[i].do = StateNamed(bodies[s].handlers[i].do)
                        /\ ClauseOf(s)[i].do \in States
                   ELSE /\ ClauseOf(s)[i].do = bodies[s].handlers[i].do
                        /\ ClauseOf(s)[i].do \notin States
<1>1. /\ bodies[s].handlers \in Seq(Clauses)
      /\ \A i \in DOMAIN bodies[s].handlers : bodies[s].handlers[i].do \notin States
  BY HandlersOfState
<1>2. \A i \in DOMAIN bodies[s].handlers :
        /\ goals[s][i] = None <=> bodies[s].handlers[i].do \notin StateNames
        /\ bodies[s].handlers[i].do \in StateNames =>
             goals[s][i] = StateNamed(bodies[s].handlers[i].do)
        /\ goals[s][i] \in States \cup {None}
  <2>1. \A i \in DOMAIN bodies[s].handlers :
          bodies[s].handlers[i].do \in StateNames =>
             goals[s][i] = StateNamed(bodies[s].handlers[i].do)
    BY DEF GoalsOf
  <2> QED BY <2>1, ResolvedTypes
<1>3. DOMAIN bodies[s].handlers = 1 .. Len(bodies[s].handlers) /\ Len(bodies[s].handlers) \in Nat
  BY <1>1
<1>4. ASSUME NEW i \in DOMAIN bodies[s].handlers
      PROVE  /\ ClauseOf(s)[i].on = Key(bodies[s].handlers[i].on)
             /\ ClauseOf(s)[i].do = IF goals[s][i] = None THEN bodies[s].handlers[i].do
                                                           ELSE goals[s][i]
  BY DEF ClauseOf
<1>5. DOMAIN ClauseOf(s) = DOMAIN bodies[s].handlers
  BY DEF ClauseOf
<1>6. /\ ClauseOf(s) \in Seq({ClauseOf(s)[i] : i \in DOMAIN ClauseOf(s)})
      /\ Len(ClauseOf(s)) = Len(bodies[s].handlers)
  <2> DEFINE n == Len(bodies[s].handlers)
             R == {ClauseOf(s)[i] : i \in DOMAIN ClauseOf(s)}
  <2>1. ClauseOf(s) \in [1 .. n -> R]
    <3>1. ClauseOf(s) = [i \in DOMAIN bodies[s].handlers |-> ClauseOf(s)[i]]
      BY DEF ClauseOf
    <3> QED BY <1>3, <1>5, <3>1
  <2> HIDE DEF R
  <2> QED BY <1>3, <2>1
<1> QED BY <1>1, <1>2, <1>4, <1>5, <1>6

LEMMA SameVectors ==
  /\ \A seq, keep : Table!Retain(seq, keep) = Retain(seq, keep)
  /\ \A S : Table!Max(S) = Max(S)
BY Zenon DEF Table!Retain, Retain, Table!Max, Max

LEMMA HandlerIs ==
  ASSUME SourceOK, DefaultsAreStates, goals = GoalsOf, NEW s \in States, NEW x
  PROVE  /\ Table!HandlerOf(s, x).actions
              = Says(Retain(ClauseOf(s), Answering(s, x) \ Leaving(s, x)))
         /\ Table!HandlerOf(s, x).target
              = IF Leaving(s, x) = {} THEN None ELSE ClauseOf(s)[Max(Leaving(s, x))].do
<1> DEFINE on == [r \in States |-> [i \in DOMAIN bodies[r].handlers |->
                    [on |-> Key(bodies[r].handlers[i].on),
                     do |-> IF goals[r][i] = None THEN bodies[r].handlers[i].do
                                                  ELSE goals[r][i]]]]
           clauses == {i \in DOMAIN on[s] : on[s][i].on = x}
           moves == {i \in clauses : on[s][i].do \in States}
           acts == Table!Retain(on[s], clauses \ moves)
<1>1. Table!HandlerOf(s, x)
        = [owner   |-> IF clauses = {} THEN None ELSE s,
           actions |-> [i \in DOMAIN acts |-> acts[i].do],
           target  |-> IF moves = {} THEN None ELSE on[s][Table!Max(moves)].do]
  BY Zenon DEF Table!HandlerOf
<1>2. on[s] = ClauseOf(s)
  BY DEF ClauseOf
<1> HIDE DEF on
<1>3. clauses = Answering(s, x)
  BY <1>2, ClauseTargets DEF Answering
<1>4. moves = Leaving(s, x)
  BY <1>2, <1>3, ClauseTargets DEF Answering, Leaving
<1> HIDE DEF clauses, moves
<1>5. acts = Retain(ClauseOf(s), Answering(s, x) \ Leaving(s, x))
  BY <1>2, <1>3, <1>4, SameVectors
<1>6. Table!Max(moves) = Max(Leaving(s, x))
  BY <1>4, SameVectors
<1> HIDE DEF acts
<1>7. /\ Table!HandlerOf(s, x).actions = [i \in DOMAIN acts |-> acts[i].do]
      /\ Table!HandlerOf(s, x).target = IF moves = {} THEN None ELSE on[s][Table!Max(moves)].do
  BY <1>1
<1> QED BY <1>2, <1>4, <1>5, <1>6, <1>7 DEF Says

(* One more entry says one more thing.                                     *)
LEMMA SaysOneMore ==
  ASSUME NEW S, NEW q \in Seq(S), NEW e \in S
  PROVE  Says(Append(q, e)) = Says(q) \o <<e.do>>
<1>1. Len(q) \in Nat /\ DOMAIN q = 1 .. Len(q) /\ DOMAIN Append(q, e) = 1 .. Len(q) + 1
  OBVIOUS
<1>2. Says(q) = [i \in 1 .. Len(q) |-> q[i].do]
  BY <1>1 DEF Says
<1> DEFINE R == {q[i].do : i \in 1 .. Len(q)} \cup {e.do}
<1>3. Says(q) \in Seq(R) /\ Len(Says(q)) = Len(q) /\ <<e.do>> \in Seq(R)
  BY <1>1, <1>2
<1>4. /\ Says(q) \o <<e.do>> \in Seq(R) /\ Len(Says(q) \o <<e.do>>) = Len(q) + 1
      /\ DOMAIN (Says(q) \o <<e.do>>) = 1 .. Len(q) + 1
      /\ \A i \in 1 .. Len(q) : (Says(q) \o <<e.do>>)[i] = Says(q)[i]
      /\ (Says(q) \o <<e.do>>)[Len(q) + 1] = e.do
  <2> HIDE DEF R
  <2> QED BY <1>1, <1>3
<1>5. ASSUME NEW i \in 1 .. Len(q) + 1 PROVE Append(q, e)[i].do = (Says(q) \o <<e.do>>)[i]
  <2>1. CASE i = Len(q) + 1
    BY <1>4, <2>1
  <2>2. CASE i # Len(q) + 1
    <3>1. i \in 1 .. Len(q)
      BY <1>1, <2>2
    <3>2. Append(q, e)[i] = q[i] /\ Says(q)[i] = q[i].do
      BY <1>2, <3>1
    <3> QED BY <1>4, <3>1, <3>2
  <2> QED BY <2>1, <2>2
<1>6. Says(Append(q, e)) = [i \in 1 .. Len(q) + 1 |-> Append(q, e)[i].do]
  BY <1>1 DEF Says
<1>7. Says(q) \o <<e.do>> = [i \in 1 .. Len(q) + 1 |-> (Says(q) \o <<e.do>>)[i]]
  BY <1>4
<1> QED BY <1>5, <1>6, <1>7

LEMMA StateReadsAsItRuns ==
  ASSUME SourceOK, RootNamed, DefaultsAreStates, goals = GoalsOf, NothingAfterTransition,
         NEW s \in States, NEW x
  PROVE  Says(Retain(bodies[s].handlers, Answering(s, x)))
           = Table!HandlerOf(s, x).actions
               \o IF Table!HandlerOf(s, x).target = None THEN <<>>
                  ELSE <<bodies[Table!HandlerOf(s, x).target].name>>
<1> DEFINE H == bodies[s].handlers
           G == ClauseOf(s)
           K == Answering(s, x)
           M == Leaving(s, x)
           U == {ClauseOf(s)[i] : i \in DOMAIN ClauseOf(s)}
<1>1. /\ H \in Seq(Clauses) /\ G \in Seq(U) /\ Len(G) = Len(H) /\ DOMAIN H = 1 .. Len(H)
      /\ Len(H) \in Nat
  BY HandlersOfState, ClauseTargets
<1>2. K \subseteq 1 .. Len(H) /\ M = {i \in K : H[i].do \in StateNames}
  BY <1>1 DEF Answering, Leaving
<1>3. \A i \in 1 .. Len(H) :
         IF H[i].do \in StateNames THEN G[i].do = StateNamed(H[i].do) /\ G[i].do \in States
         ELSE G[i].do = H[i].do /\ G[i].do \notin States
  BY <1>1, ClauseTargets
<1>4. SayTheSame(H, G, K \ M)
  BY <1>1, <1>2, <1>3 DEF SayTheSame
<1>5. Retain(H, K \ M) \in Seq(Clauses) /\ Says(Retain(H, K \ M)) = Says(Retain(G, K \ M))
  <2> HIDE DEF H, G, K, M, U
  <2> QED BY <1>1, <1>4, RetainAligned
<1>6. /\ Table!HandlerOf(s, x).actions = Says(Retain(G, K \ M))
      /\ Table!HandlerOf(s, x).target = IF M = {} THEN None ELSE G[Max(M)].do
  BY HandlerIs
<1>7. None \notin States
  BY StatesAreNumbers
<1>8. CASE M = {}
  <2>1. K \ M = K
    BY <1>8
  <2>2. Says(Retain(G, K \ M)) \o <<>> = Says(Retain(H, K))
    <3> DEFINE q == Retain(H, K)
    <3>1. q \in Seq(Clauses) /\ Says(Retain(G, K \ M)) = Says(q)
      BY <1>5, <2>1
    <3>2. Says(q) = [i \in 1 .. Len(q) |-> q[i].do] /\ Len(q) \in Nat
      BY <3>1 DEF Says
    <3>3. Says(q) \in Seq({q[i].do : i \in 1 .. Len(q)})
      <4> HIDE DEF q
      <4> QED BY <3>2
    <3> QED BY <3>1, <3>3
  <2> QED BY <1>6, <1>8, <2>2
<1>9. CASE M # {}
  <2>1. PICK m \in M : TRUE
    BY <1>9
  <2>2. m \in K /\ m \in 1 .. Len(H) /\ H[m].do \in StateNames
    BY <1>2, <2>1
  <2>3. \A i \in K : ~(m < i)
    BY <2>1, LeavesOnce
  <2>4. M = {m}
    <3>1. \A i \in M : ~(i < m)
      BY <2>2, LeavesOnce
    <3>2. \A i \in M : i \in Nat /\ i \in K
      BY <1>2
    <3>3. \A i \in M : i = m
      BY <2>2, <2>3, <3>1, <3>2
    <3> QED BY <2>1, <3>3
  <2>5. Max(M) = m
    <3>1. m \in Nat
      BY <2>2
    <3> HIDE DEF M
    <3> QED BY <2>4, <3>1 DEF Max
  <2>6. Retain(H, K) = Append(Retain(H, K \ {m}), H[m])
    <3>1. \A k \in 1 .. Len(H) : k \in K => k <= m
      BY <2>2, <2>3
    <3> HIDE DEF H, K
    <3> QED BY <1>1, <2>2, <3>1, RetainLast
  <2>7. H[m] \in Clauses
    BY <1>1, <2>2
  <2>8. Says(Retain(H, K)) = Says(Retain(H, K \ M)) \o <<H[m].do>>
    <3> HIDE DEF H, K, M
    <3> QED BY <1>5, <2>4, <2>6, <2>7, SaysOneMore
  <2>9. /\ Table!HandlerOf(s, x).target = StateNamed(H[m].do)
        /\ Table!HandlerOf(s, x).target # None
    BY <1>3, <1>6, <1>7, <1>9, <2>2, <2>5
  <2>10. bodies[StateNamed(H[m].do)].name = H[m].do
    BY <2>2, NameOfStateNamed
  <2> HIDE DEF H, G, K, M
  <2> QED BY <1>5, <1>6, <2>8, <2>9, <2>10 DEF K, H
<1> QED BY <1>8, <1>9

LEMMA RootNamedKeeps == RootNamed /\ SourceOK /\ [Next]_vars => RootNamed'
<1> SUFFICES ASSUME RootNamed, SourceOK, [Next]_vars, bodies' # bodies PROVE RootNamed'
  BY DEF RootNamed
<1>1. Parse
  BY DEF Next, Parsing, Check, Generate, EndOfInput, LowerAction, LowerHandler, LowerTerminate,
     Lowered, Resolve, StartWalk, Follow, EndWalk, FindCycle, DefaultsWalked, Validate, Reject,
     vars, source
<1>2. 1 \in DOMAIN bodies /\ Len(bodies) \in Nat /\ Here = bodies[Last(open)]
  BY DEF RootNamed, SourceOK, Here
<1>3. ASSUME NEW body, body.name = Here.name, Declare(body) PROVE RootNamed'
  <2>1. bodies' = [bodies EXCEPT ![Last(open)] = body]
    BY <1>3 DEF Declare
  <2>2. bodies'[1].name = bodies[1].name
    BY <1>2, <1>3, <2>1
  <2>3. Len(bodies') = Len(bodies)
    BY <2>1 DEF SourceOK
  <2> QED BY <2>2, <2>3 DEF RootNamed
<1>4. ASSUME NEW n, OpenState(n) PROVE RootNamed'
  <2>1. bodies' = Append(bodies, NewBody(n, Last(open)))
    BY <1>4 DEF OpenState
  <2>2. Len(bodies') = Len(bodies) + 1 /\ bodies'[1] = bodies[1]
    BY <1>2, <2>1 DEF RootNamed, SourceOK
  <2> QED BY <1>2, <2>2 DEF RootNamed
<1>5. Here \in Body
  <2>1. Last(open) \in 1 .. Len(bodies)
    BY LastOf DEF SourceOK
  <2> QED BY <2>1 DEF SourceOK, Here
<1> QED
  <2>1. ASSUME NEW a \in Actions, Entry(a) \/ Exit(a) PROVE RootNamed'
    BY <1>3, <1>5, <2>1 DEF Entry, Exit, Body
  <2>2. ASSUME NEW h \in Handlers, Handle(h) PROVE RootNamed'
    BY <1>3, <1>5, <2>2 DEF Handle, Body
  <2>3. ASSUME NEW d \in Durings, During(d) PROVE RootNamed'
    BY <1>3, <1>5, <2>3 DEF During, Body
  <2>4. ASSUME NEW t \in Targets, DefaultTo(t) PROVE RootNamed'
    BY <1>3, <1>5, <2>4 DEF DefaultTo, Body
  <2>5. ASSUME NEW e \in TerminateEvents, TerminateOn(e) PROVE RootNamed'
    BY <1>3, <1>5, <2>5 DEF TerminateOn, Body
  <2>6. CASE CloseState
    BY <2>6 DEF CloseState
  <2> QED BY <1>1, <1>4, <2>1, <2>2, <2>3, <2>4, <2>5, <2>6 DEF Parse

(* A chart that is emitted runs, state by state and trigger by trigger,    *)
(* what its clauses say from left to right, for charts of any size: what a *)
(* list after => leaves on is the last thing it does (validate's ordering  *)
(* rule, resolve_transitions, state_handler_arms).                         *)
THEOREM AlwaysReadsAsItRuns == Spec => []ReadsAsItRuns
<1>1. Init => RootNamed
  BY DEF Init, ParseInit, RootNamed, NewBody
<1>2. CompilerInv => SourceOK
  BY DEF CompilerInv
<1>3. Spec => []RootNamed
  BY <1>1, <1>2, RootNamedKeeps, CompilerInvariant, PTL DEF Spec
<1>4. ASSUME CompilerInv, RootNamed, phase = "done", NEW s \in States, NEW x
      PROVE  Says(Retain(bodies[s].handlers, Answering(s, x)))
               = Table!HandlerOf(s, x).actions
                   \o IF Table!HandlerOf(s, x).target = None THEN <<>>
                      ELSE <<bodies[Table!HandlerOf(s, x).target].name>>
  <2>1. DefaultsAreStates /\ goals = GoalsOf /\ NothingAfterTransition
    BY <1>4 DEF CompilerInv, VerdictInv, Legal, CheckedPhases, WalkedPhases, ResolvedPhases,
       LoweredPhases
  <2> QED BY <1>2, <1>4, <2>1, StateReadsAsItRuns
<1>5. CompilerInv /\ RootNamed => ReadsAsItRuns
  BY <1>4 DEF ReadsAsItRuns, Says, Answering
<1> QED BY <1>3, <1>5, CompilerInvariant, PTL
=============================================================================
