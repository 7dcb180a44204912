----------------------------- MODULE Recursion -----------------------------
(***************************************************************************)
(* Lemmas on induction and recursion for the proofs about the tree         *)
(* control.                                                                *)
(*                                                                         *)
(* A recursion is justified by a rank: the values at lower ranks determine *)
(* the value.  The lemmas take functions and sets where a theorem on       *)
(* induction takes operators, and name their hypotheses, so that the       *)
(* provers can use them.  What is said of an operator, op, is said of one  *)
(* operator after the other by instantiating the module.                   *)
(***************************************************************************)
EXTENDS Integers, Sequences, WellFoundedInduction, TLAPS

CONSTANT op(_, _, _)  \* a step: from a value and an element of a list to a value,
                      \* given what all steps are given

-----------------------------------------------------------------------------
(* Induction and recursion on a rank.                                      *)

\* Every inhabited set of numbers has a least one.
LEMMA LeastNumber ==
  ASSUME NEW S \in SUBSET Nat, S # {}
  PROVE  \E n \in S : \A m \in S : n <= m
<1>1. PICK n \in S : \A m \in S : ~(<<m, n>> \in OpToRel(<, Nat))
  BY NatLessThanWellFounded, WFMin, Zenon
<1>2. \A x, y \in Nat : x < y => <<x, y>> \in OpToRel(<, Nat)
  BY DEF OpToRel
<1>3. \A m \in S : ~(m < n)
  BY <1>1, <1>2, Zenon
<1>. QED  BY <1>3

\* What holds of x when it holds of all of a lower rank, holds of all.
Inherited(G, D, rank) ==
  /\ rank \in [D -> Nat]
  /\ \A x \in D : (\A y \in D : rank[y] < rank[x] => y \in G) => x \in G

LEMMA RankInduction ==
  ASSUME NEW D, NEW rank, NEW G, Inherited(G, D, rank)
  PROVE  D \subseteq G
<1>. USE DEF Inherited
<1>. SUFFICES ASSUME NEW z \in D \ G PROVE FALSE
  OBVIOUS
<1>. DEFINE S == {rank[x] : x \in D \ G}
<1>1. S \in SUBSET Nat /\ S # {}
  OBVIOUS
<1>2. PICK n \in S : \A m \in S : n <= m
  BY <1>1, LeastNumber
<1>3. PICK x \in D \ G : n = rank[x]
  OBVIOUS
<1>4. ASSUME NEW y \in D, rank[y] < rank[x] PROVE y \in G
  <2>1. y \notin G => rank[y] \in S
    OBVIOUS
  <2>2. rank[x] \in Nat /\ rank[y] \in Nat
    OBVIOUS
  <2>. HIDE DEF S
  <2>. QED  BY <1>2, <1>3, <1>4, <2>1, <2>2
<1>. QED  BY <1>3, <1>4

\* A function on D is defined by its value at each x in terms of its values at
\* lower ranks; F[x] maps a function to the value at x.
Determines(F, D, V, rank, N) ==
  /\ N \in Nat /\ rank \in [D -> 0 .. N] /\ V # {}
  /\ F \in [D -> [[D -> V] -> V]]
  /\ \A x \in D : \A g, h \in [D -> V] :
       (\A y \in D : rank[y] < rank[x] => g[y] = h[y]) => F[x][g] = F[x][h]

Fixpoint(f, F, D, V) == f \in [D -> V] /\ \A x \in D : f[x] = F[x][f]

LEMMA RankRecursion ==
  ASSUME NEW D, NEW V, NEW N, NEW rank, NEW F, Determines(F, D, V, rank, N)
  PROVE  \E f : Fixpoint(f, F, D, V)
<1>. USE DEF Determines
<1>. DEFINE Good(f, k) == \A x \in D : rank[x] < k => f[x] = F[x][f]
            G == {k \in Nat : \E f \in [D -> V] : Good(f, k)}
<1>1. \A k \in Nat : (\A j \in Nat : j < k => j \in G) => k \in G
  <2>. SUFFICES ASSUME NEW k \in Nat, \A j \in Nat : j < k => j \in G PROVE k \in G
    OBVIOUS
  <2>1. CASE k = 0
    <3>1. PICK v \in V : TRUE
      OBVIOUS
    <3>2. [x \in D |-> v] \in [D -> V] /\ Good([x \in D |-> v], k)
      BY <2>1
    <3>. QED  BY <3>2
  <2>2. CASE k # 0
    <3>1. k - 1 \in Nat /\ k - 1 < k
      BY <2>2
    <3>2. PICK f \in [D -> V] : Good(f, k - 1)
      <4>1. k - 1 \in G
        BY <3>1, Zenon
      <4>. QED  BY <4>1, Zenon
    <3>. DEFINE g == [x \in D |-> F[x][f]]
    <3>3. g \in [D -> V]
      OBVIOUS
    <3>4. ASSUME NEW x \in D, rank[x] < k PROVE g[x] = F[x][g]
      <4>1. \A y \in D : rank[y] < rank[x] => f[y] = g[y]
        BY <3>2, <3>4
      <4>2. F[x][f] = F[x][g]
        BY <4>1, <3>3
      <4>. QED  BY <4>2
    <3>5. Good(g, k)
      BY <3>4
    <3>. HIDE DEF g
    <3>. QED  BY <3>3, <3>5
  <2>. QED  BY <2>1, <2>2
<1>. HIDE DEF G
<1>2. Nat \subseteq G
  <2>. DEFINE r == [k \in Nat |-> k]
  <2>1. r \in [Nat -> Nat] /\ \A k \in Nat : r[k] = k
    OBVIOUS
  <2>2. \A k \in Nat : (\A j \in Nat : r[j] < r[k] => j \in G) => k \in G
    BY <1>1, <2>1
  <2>3. Inherited(G, Nat, r)
    BY <2>1, <2>2 DEF Inherited
  <2>. HIDE DEF r
  <2>. QED  BY <2>3, RankInduction
<1>3. N + 1 \in G
  BY <1>2
<1>4. PICK f \in [D -> V] : Good(f, N + 1)
  BY <1>3 DEF G
<1>5. \A x \in D : rank[x] < N + 1
  OBVIOUS
<1>. QED  BY <1>4, <1>5 DEF Fixpoint

\* Along a list of n: the value at 0, and each next one from the one before.
Chained(G, n) == n \in Nat /\ 0 \in G /\ \A i \in 1 .. n : i - 1 \in G => i \in G

LEMMA ListInduction ==
  ASSUME NEW n, NEW G, Chained(G, n)
  PROVE  0 .. n \subseteq G
<1>. USE DEF Chained
<1>. DEFINE rank == [i \in 0 .. n |-> i]
<1>1. rank \in [0 .. n -> Nat] /\ \A i \in 0 .. n : rank[i] = i
  OBVIOUS
<1>2. ASSUME NEW x \in 0 .. n, \A y \in 0 .. n : rank[y] < rank[x] => y \in G PROVE x \in G
  <2>1. CASE x = 0
    BY <2>1
  <2>2. CASE x # 0
    <3>1. x \in 1 .. n /\ x - 1 \in 0 .. n /\ rank[x - 1] < rank[x]
      BY <1>1, <2>2
    <3>. QED  BY <1>2, <3>1
  <2>. QED  BY <2>1, <2>2
<1>3. Inherited(G, 0 .. n, rank)
  BY <1>1, <1>2 DEF Inherited
<1>. HIDE DEF rank
<1>. QED  BY <1>3, RankInduction

Steps(F, V, n) == n \in Nat /\ F \in [1 .. n -> [V -> V]]

Run(r, F, V, v, n) == /\ r \in [0 .. n -> V] /\ r[0] = v
                      /\ \A i \in 1 .. n : r[i] = F[i][r[i - 1]]

LEMMA ListRecursion ==
  ASSUME NEW V, NEW n, NEW v \in V, NEW F, Steps(F, V, n)
  PROVE  \E r : Run(r, F, V, v, n)
<1>. USE DEF Steps
<1>. DEFINE D == 0 .. n
            rank == [i \in D |-> i]
            H == [i \in D |-> [g \in [D -> V] |-> IF i = 0 THEN v ELSE F[i][g[i - 1]]]]
<1>1. rank \in [D -> 0 .. n] /\ \A i \in D : rank[i] = i
  OBVIOUS
<1>2. H \in [D -> [[D -> V] -> V]]
  OBVIOUS
<1>3. ASSUME NEW x \in D, NEW g \in [D -> V], NEW h \in [D -> V],
             \A y \in D : rank[y] < rank[x] => g[y] = h[y]
      PROVE  H[x][g] = H[x][h]
  <2>1. CASE x = 0
    BY <2>1
  <2>2. CASE x # 0
    <3>1. x \in 1 .. n /\ x - 1 \in D /\ rank[x - 1] < rank[x]
      BY <1>1, <2>2
    <3>2. g[x - 1] = h[x - 1]
      BY <1>3, <3>1
    <3>. QED  BY <3>1, <3>2
  <2>. QED  BY <2>1, <2>2
<1>4. \A r \in [D -> V] : /\ H[0][r] = v
                          /\ \A i \in 1 .. n : H[i][r] = F[i][r[i - 1]]
  OBVIOUS
<1>5. 0 \in D /\ 1 .. n \subseteq D
  OBVIOUS
<1>. HIDE DEF rank, H
<1>6. PICK r : Fixpoint(r, H, D, V)
  <2>1. Determines(H, D, V, rank, n)
    BY <1>1, <1>2, <1>3 DEF Determines
  <2>. HIDE DEF D
  <2>. QED  BY <2>1, RankRecursion
<1>. QED  BY <1>4, <1>5, <1>6 DEF Fixpoint, Run

LEMMA RunSteps ==
  ASSUME NEW V, NEW n, NEW v, NEW F, NEW r, Steps(F, V, n), Run(r, F, V, v, n), NEW i \in 1 .. n
  PROVE  r[i - 1] \in V /\ r[i] \in V /\ r[i] = F[i][r[i - 1]]
<1>1. n \in Nat /\ r \in [0 .. n -> V]
  BY DEF Steps, Run
<1>2. i - 1 \in 0 .. n /\ i \in 0 .. n
  BY <1>1
<1>. QED  BY <1>1, <1>2 DEF Run

-----------------------------------------------------------------------------
(* Along a list: the steps, and the path of values they take.              *)

Along(t, s, x) ==
  LET r[i \in 0 .. Len(s)] == IF i = 0 THEN t ELSE op(r[i - 1], s[i], x) IN r[Len(s)]

Path(q, T, t, s, x) == /\ q \in [0 .. Len(s) -> T] /\ q[0] = t
                    /\ Len(s) \in Nat /\ \A i \in 1 .. Len(s) : q[i] = op(q[i - 1], s[i], x)

\* Each step with an element of S keeps the value in T.
Keeps(S, T, x) == \A u \in T : \A m \in S : op(u, m, x) \in T

\* A path in T ends in T.
LEMMA PathEnds ==
  ASSUME NEW q, NEW T, NEW t, NEW s, NEW x, Path(q, T, t, s, x)
  PROVE  q[Len(s)] \in T
<1>1. Len(s) \in Nat /\ q \in [0 .. Len(s) -> T]
  BY DEF Path
<1>. DEFINE n == Len(s)
<1>. HIDE DEF n
<1>2. n \in Nat /\ q \in [0 .. n -> T]
  BY <1>1 DEF n
<1>3. n \in 0 .. n
  BY <1>2
<1>4. q[n] \in T
  BY <1>2, <1>3
<1>. QED  BY <1>4 DEF n

\* If each step keeps the value in T, there is a path to the result.
LEMMA AlongPath ==
  ASSUME NEW S, NEW T, NEW x, NEW t, t \in T, NEW s, s \in Seq(S), Keeps(S, T, x)
  PROVE  \E q : Path(q, T, t, s, x) /\ Along(t, s, x) = q[Len(s)]
<1>. DEFINE n == Len(s)
            e(f) == [i \in 0 .. n |-> IF i = 0 THEN t ELSE op(f[i - 1], s[i], x)]
            F == [i \in 1 .. n |-> [u \in T |-> op(u, s[i], x)]]
            q == CHOOSE f : f = e(f)
<1>1. n \in Nat /\ \A i \in 1 .. n : s[i] \in S
  OBVIOUS
<1>2. Steps(F, T, n)
  BY <1>1 DEF Steps, Keeps
<1>3. \A i \in 1 .. n : \A u \in T : F[i][u] = op(u, s[i], x)
  OBVIOUS
<1>4. Along(t, s, x) = q[n]
  BY DEF Along
<1>. HIDE DEF F, n
<1>5. PICK r : Run(r, F, T, t, n)
  BY <1>2, ListRecursion
<1>6. r = e(r)
  <2>1. \A i \in 1 .. n : r[i] = op(r[i - 1], s[i], x)
    BY <1>2, <1>3, <1>5, RunSteps
  <2>2. r[0] = t /\ \A i \in 0 .. n : i = 0 \/ i \in 1 .. n
    BY <1>5 DEF Run
  <2>3. r = [i \in 0 .. n |-> r[i]]
    BY <1>5 DEF Run
  <2>. QED  BY <2>1, <2>2, <2>3
<1>7. q = e(q)
  <2>. HIDE DEF e
  <2>. QED  BY <1>6
<1>. HIDE DEF q
<1>8. /\ DOMAIN q = 0 .. n /\ q[0] = t
      /\ \A i \in 1 .. n : q[i] = op(q[i - 1], s[i], x)
  <2>1. 0 \in 0 .. n /\ \A i \in 1 .. n : i \in 0 .. n /\ i # 0
    BY <1>1
  <2>. QED  BY <1>7, <2>1
<1>9. \A i \in 0 .. n : q[i] \in T
  <2>. DEFINE G == {i \in 0 .. n : q[i] \in T}
  <2>1. Chained(G, n)
    <3>1. \A i \in 1 .. n : q[i - 1] \in T => q[i] \in T
      BY <1>1, <1>8 DEF Keeps
    <3>2. 0 \in 0 .. n /\ \A i \in 1 .. n : i \in 0 .. n
      BY <1>1
    <3>. QED  BY <1>1, <1>8, <3>1, <3>2 DEF Chained
  <2>. HIDE DEF G
  <2>2. 0 .. n \subseteq G
    BY <2>1, ListInduction
  <2>. QED  BY <2>2 DEF G
<1>10. q \in [0 .. n -> T]
  BY <1>7, <1>9
<1>. QED  BY <1>1, <1>4, <1>8, <1>10 DEF Path, n

LEMMA AlongStays ==
  ASSUME NEW S, NEW T, NEW x, NEW t, t \in T, NEW s, s \in Seq(S), Keeps(S, T, x)
  PROVE  Along(t, s, x) \in T
<1>1. PICK q : Path(q, T, t, s, x) /\ Along(t, s, x) = q[Len(s)]
  BY AlongPath
<1>. QED  BY <1>1, PathEnds
=============================================================================
