----------------------------- MODULE ZTreeProof -----------------------------
(***************************************************************************)
(* Lemmas about the tree control, for trees of any finite size: what its   *)
(* recursions over sequences, sons and parents compute, what its operators *)
(* leave alone, and when a box says what is below it.                      *)
(***************************************************************************)
EXTENDS ZTree, SequenceTheorems, FiniteSetTheorems, TLAPS

\* The lemmas on recursion, and those about the steps of Each.
RepairBox(t, n, x) == RepairChkClass(t, n)
Repairs == INSTANCE Recursion WITH op <- RepairBox

-----------------------------------------------------------------------------
(* Sequences.                                                              *)

LEMMA Joined ==
  ASSUME NEW S, NEW w \in Seq(S), NEW m \in S
  PROVE  /\ <<m>> \in Seq(S) /\ Range(<<m>>) = {m}
         /\ w \o <<m>> \in Seq(S) /\ Range(w \o <<m>>) = Range(w) \cup {m}
         /\ <<m>> \o w \in Seq(S) /\ Range(<<m>> \o w) = Range(w) \cup {m}
<1>. DEFINE x == <<m>>
<1>1. x \in Seq(S) /\ Range(x) = {m}
  BY DEF Range
<1>. HIDE DEF x
<1>2. /\ w \o x \in Seq(S) /\ Range(w \o x) = Range(w) \cup Range(x)
      /\ x \o w \in Seq(S) /\ Range(x \o w) = Range(x) \cup Range(w)
  BY <1>1, ConcatProperties, RangeConcatenation
<1>3. Range(w) \cup Range(x) = Range(w) \cup {m} /\ Range(x) \cup Range(w) = Range(w) \cup {m}
  BY <1>1
<1>4. x = <<m>>
  BY DEF x
<1>. QED  BY <1>1, <1>2, <1>3, <1>4

\* A sequence is flattened by joining its members, one after the other.
Joins(r, q, V) == /\ Len(q) \in Nat /\ r \in [0 .. Len(q) -> V] /\ r[0] = <<>>
                  /\ \A i \in 1 .. Len(q) : q[i] \in V /\ r[i - 1] \in V /\ r[i] = r[i - 1] \o q[i]

LEMMA FlattenJoins ==
  ASSUME NEW S, NEW q \in Seq(Seq(S))
  PROVE  \E r : Joins(r, q, Seq(S)) /\ FlattenSeq(q) = r[Len(q)]
<1>. DEFINE n == Len(q)
            V == Seq(S)
            F == [i \in 1 .. n |-> [w \in V |-> w \o q[i]]]
<1>1. n \in Nat /\ \A i \in 1 .. n : q[i] \in V
  OBVIOUS
<1>2. F \in [1 .. n -> [V -> V]]
  BY <1>1
<1>3. <<>> \in V
  OBVIOUS
<1>4. PICK r : Repairs!Run(r, F, V, <<>>, n)
  <2>1. Repairs!Steps(F, V, n)
    BY <1>1, <1>2 DEF Repairs!Steps
  <2>. HIDE DEF F, V, n
  <2>. QED  BY <1>3, <2>1, Repairs!ListRecursion
<1>5. \A i \in 1 .. n : r[i - 1] \in V /\ r[i] = r[i - 1] \o q[i]
  <2>. SUFFICES ASSUME NEW i \in 1 .. n PROVE r[i - 1] \in V /\ r[i] = r[i - 1] \o q[i]
    OBVIOUS
  <2>1. r[i - 1] \in V
    <3>1. i - 1 \in 0 .. n
      BY <1>1
    <3>. HIDE DEF n, V
    <3>. QED  BY <1>4, <3>1 DEF Repairs!Run
  <2>2. \A w \in V : F[i][w] = w \o q[i]
    OBVIOUS
  <2>. HIDE DEF F
  <2>. QED  BY <1>4, <2>1, <2>2 DEF Repairs!Run
<1>6. Joins(r, q, V)
  <2>. HIDE DEF F, V
  <2>. QED  BY <1>1, <1>4, <1>5 DEF Joins, Repairs!Run, n
<1>7. CASE n = 0
  <2>1. q = <<>> /\ FlattenSeq(q) = <<>>
    BY <1>7, EmptySeq DEF FlattenSeq
  <2>2. r[n] = <<>>
    BY <1>6, <1>7 DEF Joins
  <2>. QED  BY <1>6, <2>1, <2>2
<1>8. CASE n # 0
  <2>. DEFINE e(f) == [i \in 1 .. n |-> IF i = 1 THEN q[i] ELSE f[i - 1] \o q[i]]
              flatten == CHOOSE f : f = e(f)
              f == [i \in 1 .. n |-> r[i]]
  <2>1. n \in Nat /\ n >= 1
    BY <1>8
  <2>2. r[1] = q[1]
    <3>1. 1 \in 1 .. n /\ 1 - 1 = 0
      BY <2>1
    <3>2. r[1] = r[0] \o q[1] /\ q[1] \in V
      <4>. HIDE DEF n, V
      <4>. QED  BY <1>1, <1>5, <3>1
    <3>. QED  BY <1>4, <3>2, ConcatEmptySeq DEF Repairs!Run
  <2>3. f = e(f)
    <3>1. \A i \in 1 .. n : f[i] = IF i = 1 THEN q[i] ELSE f[i - 1] \o q[i]
      <4>. SUFFICES ASSUME NEW i \in 1 .. n PROVE f[i] = IF i = 1 THEN q[i] ELSE f[i - 1] \o q[i]
        OBVIOUS
      <4>1. CASE i = 1
        BY <2>2, <4>1
      <4>2. CASE i # 1
        <5>1. i - 1 \in 1 .. n
          BY <2>1, <4>2
        <5>2. f[i - 1] = r[i - 1] /\ f[i] = r[i]
          BY <5>1
        <5>. QED  BY <1>5, <4>2, <5>2
      <4>. QED  BY <4>1, <4>2
    <3>. QED  BY <3>1
  <2>4. flatten = e(flatten)
    <3>. HIDE DEF f, e
    <3>. QED  BY <2>3
  <2>5. FlattenSeq(q) = flatten[n]
    BY <1>8 DEF FlattenSeq
  <2>. HIDE DEF flatten
  <2>6. \A i \in 1 .. n : flatten[i] = IF i = 1 THEN q[i] ELSE flatten[i - 1] \o q[i]
    BY <2>4
  <2>. DEFINE G == {i \in 0 .. n : i = 0 \/ flatten[i] = r[i]}
  <2>7. ASSUME NEW i \in 1 .. n, i - 1 \in G PROVE i \in G
    <3>1. CASE i = 1
      BY <2>1, <2>2, <2>6, <3>1
    <3>2. CASE i # 1
      <4>1. flatten[i - 1] = r[i - 1] /\ i \in 0 .. n
        BY <2>7, <3>2
      <4>2. flatten[i] = flatten[i - 1] \o q[i] /\ r[i] = r[i - 1] \o q[i]
        BY <1>5, <2>6, <3>2
      <4>. QED  BY <4>1, <4>2
    <3>. QED  BY <3>1, <3>2
  <2>8. n \in G
    <3>1. 0 \in G
      BY <2>1
    <3>2. Repairs!Chained(G, n)
      BY <2>1, <2>7, <3>1 DEF Repairs!Chained
    <3>. HIDE DEF G
    <3>3. 0 .. n \subseteq G
      BY <3>2, Repairs!ListInduction
    <3>. HIDE DEF n
    <3>. QED  BY <2>1, <3>3
  <2>9. flatten[n] = r[n]
    BY <1>8, <2>8
  <2>. QED  BY <1>6, <2>5, <2>9
<1>. QED  BY <1>7, <1>8

\* The elements of a flattened sequence are those of its members, and are
\* listed once if they are so in them.
Apart(q) == /\ \A i \in 1 .. Len(q) : IsInjective(q[i])
            /\ \A i, j \in 1 .. Len(q) : i # j => Range(q[i]) \cap Range(q[j]) = {}

LEMMA InjectiveConcat ==
  ASSUME NEW S, NEW s \in Seq(S), NEW t \in Seq(S), IsInjective(s), IsInjective(t),
         Range(s) \cap Range(t) = {}
  PROVE  IsInjective(s \o t)
<1>. DEFINE r == s \o t
            n == Len(s)
            m == Len(t)
<1>1. /\ n \in Nat /\ m \in Nat /\ Len(r) = n + m
      /\ \A i \in 1 .. n + m : r[i] = IF i <= n THEN s[i] ELSE t[i - n]
  BY ConcatProperties
<1>2. /\ DOMAIN r = 1 .. n + m /\ DOMAIN s = 1 .. n /\ DOMAIN t = 1 .. m
  BY <1>1, ConcatProperties, LenProperties
<1>3. \A i \in 1 .. n, j \in 1 .. m : s[i] # t[j]
  BY <1>2 DEF Range
<1>4. \A i, j \in 1 .. n : s[i] = s[j] => i = j
  BY <1>2 DEF IsInjective
<1>5. \A i, j \in 1 .. m : t[i] = t[j] => i = j
  BY <1>2 DEF IsInjective
<1>. HIDE DEF r, n, m
<1>6. ASSUME NEW i \in 1 .. n + m, NEW j \in 1 .. n + m, r[i] = r[j] PROVE i = j
  <2>1. CASE i <= n /\ j <= n
    BY <1>1, <1>4, <1>6, <2>1
  <2>2. CASE i > n /\ j > n
    <3>1. i - n \in 1 .. m /\ j - n \in 1 .. m
      BY <1>1, <2>2
    <3>2. r[i] = t[i - n] /\ r[j] = t[j - n]
      BY <1>1, <2>2
    <3>3. i - n = j - n
      BY <1>5, <1>6, <3>1, <3>2
    <3>. QED  BY <1>1, <3>3
  <2>3. CASE i <= n /\ j > n
    BY <1>1, <1>3, <1>6, <2>3
  <2>4. CASE i > n /\ j <= n
    BY <1>1, <1>3, <1>6, <2>4
  <2>. QED  BY <1>1, <2>1, <2>2, <2>3, <2>4
<1>. QED  BY <1>2, <1>6 DEF IsInjective, r

LEMMA Flattened ==
  ASSUME NEW S, NEW q \in Seq(Seq(S))
  PROVE  /\ FlattenSeq(q) \in Seq(S)
         /\ Range(FlattenSeq(q)) = UNION {Range(q[i]) : i \in 1 .. Len(q)}
         /\ Apart(q) => IsInjective(FlattenSeq(q))
<1>. DEFINE V == Seq(S)
            n == Len(q)
            R(i) == UNION {Range(q[j]) : j \in 1 .. i}
<1>1. PICK r : Joins(r, q, V) /\ FlattenSeq(q) = r[n]
  BY FlattenJoins
<1>. DEFINE G == {i \in 0 .. n : /\ r[i] \in V /\ Range(r[i]) = R(i)
                                 /\ Apart(q) => IsInjective(r[i])}
<1>2. /\ n \in Nat /\ r[0] = <<>>
      /\ \A i \in 1 .. n : q[i] \in V /\ r[i - 1] \in V /\ r[i] = r[i - 1] \o q[i]
  BY <1>1 DEF Joins
<1>3. 0 \in G
  <2>1. <<>> \in V /\ Range(<<>>) = {} /\ IsInjective(<<>>)
    BY DEF Range, IsInjective
  <2>2. R(0) = {}
    OBVIOUS
  <2>3. 0 \in 0 .. n
    BY <1>2
  <2>. HIDE DEF R, V, n
  <2>. QED  BY <1>2, <2>1, <2>2, <2>3
<1>4. ASSUME NEW i \in 1 .. n, i - 1 \in G PROVE i \in G
  <2>1. /\ r[i - 1] \in V /\ Range(r[i - 1]) = R(i - 1) /\ r[i] = r[i - 1] \o q[i] /\ q[i] \in V
        /\ Apart(q) => IsInjective(r[i - 1])
    BY <1>2, <1>4
  <2>2. /\ r[i] \in V
        /\ Range(r[i]) = Range(r[i - 1]) \cup Range(q[i])
    BY <2>1, ConcatProperties, RangeConcatenation
  <2>3. 1 .. i = (1 .. (i - 1)) \cup {i}
    BY <1>2
  <2>4. R(i) = R(i - 1) \cup Range(q[i])
    BY <2>3
  <2>5. Apart(q) => IsInjective(r[i])
    <3>. SUFFICES ASSUME Apart(q) PROVE IsInjective(r[i])
      OBVIOUS
    <3>1. \A j \in 1 .. (i - 1) : Range(q[j]) \cap Range(q[i]) = {}
      <4>1. \A j \in 1 .. (i - 1) : j \in 1 .. n /\ i # j
        BY <1>2
      <4>. QED  BY <4>1 DEF Apart
    <3>2. R(i - 1) \cap Range(q[i]) = {}
      BY <3>1
    <3>3. IsInjective(q[i]) /\ IsInjective(r[i - 1])
      BY <2>1 DEF Apart
    <3>. HIDE DEF R
    <3>4. Range(r[i - 1]) \cap Range(q[i]) = {}
      BY <2>1, <3>2
    <3>5. IsInjective(r[i - 1] \o q[i])
      BY <2>1, <3>3, <3>4, InjectiveConcat
    <3>. QED  BY <2>1, <3>5
  <2>6. i \in 0 .. n
    BY <1>2
  <2>. HIDE DEF R, V
  <2>. QED  BY <2>1, <2>2, <2>4, <2>5, <2>6
<1>5. n \in G
  <2>1. Repairs!Chained(G, n)
    BY <1>2, <1>3, <1>4 DEF Repairs!Chained
  <2>. HIDE DEF G
  <2>2. 0 .. n \subseteq G
    BY <2>1, Repairs!ListInduction
  <2>. QED  BY <1>2, <2>2
<1>. QED  BY <1>1, <1>5

LEMMA OnlyIs ==
  ASSUME NEW N, NEW s \in Seq(N), NEW S
  PROVE  Only(s, S) \in Seq(N) /\ Range(Only(s, S)) = Range(s) \cap S
<1>. DEFINE n == Len(s)
            one(i) == IF s[i] \in S THEN <<s[i]>> ELSE <<>>
            q == [i \in DOMAIN s |-> one(i)]
<1>1. n \in Nat /\ DOMAIN s = 1 .. n /\ \A i \in 1 .. n : s[i] \in N
  OBVIOUS
<1>2. \A i \in 1 .. n : one(i) \in Seq(N) /\ Range(one(i)) = {s[i]} \cap S
  <2>. SUFFICES ASSUME NEW i \in 1 .. n PROVE one(i) \in Seq(N) /\ Range(one(i)) = {s[i]} \cap S
    OBVIOUS
  <2>. DEFINE x == s[i]
  <2>1. x \in N
    BY <1>1
  <2>. HIDE DEF x
  <2>2. <<x>> \in Seq(N) /\ <<>> \in Seq(N) /\ Range(<<x>>) = {x} /\ Range(<<>>) = {}
    BY <2>1 DEF Range
  <2>3. CASE x \in S
    BY <2>2, <2>3 DEF x
  <2>4. CASE x \notin S
    BY <2>2, <2>4 DEF x
  <2>. QED  BY <2>3, <2>4
<1>3. Range(s) = {s[i] : i \in 1 .. n}
  BY <1>1 DEF Range
<1>. HIDE DEF one, n
<1>4. q \in [1 .. n -> Seq(N)] /\ \A i \in 1 .. n : q[i] = one(i)
  BY <1>1, <1>2
<1>5. Only(s, S) = FlattenSeq(q)
  BY DEF Only, one
<1>. HIDE DEF q
<1>6. q \in Seq(Seq(N)) /\ Len(q) = n
  BY <1>1, <1>4
<1>7. /\ FlattenSeq(q) \in Seq(N)
      /\ Range(FlattenSeq(q)) = UNION {Range(q[i]) : i \in 1 .. Len(q)}
  BY <1>6, Flattened
<1>8. (UNION {Range(q[i]) : i \in 1 .. n}) = {s[i] : i \in 1 .. n} \cap S
  BY <1>2, <1>4
<1>. QED  BY <1>3, <1>5, <1>6, <1>7, <1>8

\* A list that lists its elements once is as long as there are elements.
LEMMA InjectiveLength ==
  ASSUME NEW S, NEW s \in Seq(S), IsInjective(s)
  PROVE  IsFiniteSet(Range(s)) /\ Cardinality(Range(s)) = Len(s)
<1>. DEFINE n == Len(s)
            D == 1 .. n
<1>1. n \in Nat /\ DOMAIN s = D /\ s \in [D -> S]
  OBVIOUS
<1>2. IsFiniteSet(D) /\ Cardinality(D) = n
  <2>1. 1 \in Int /\ n \in Int
    BY <1>1
  <2>2. /\ IsFiniteSet(1 .. n)
        /\ Cardinality(1 .. n) = IF 1 > n THEN 0 ELSE n - 1 + 1
    BY <2>1, FS_Interval
  <2>. QED  BY <1>1, <2>2
<1>. HIDE DEF n, D
<1>3. s \in Bijection(D, Range(s))
  BY <1>1 DEF Bijection, Injection, Surjection, IsInjective, Range
<1>4. ExistsBijection(D, Range(s))
  BY <1>3 DEF ExistsBijection
<1>. QED  BY <1>2, <1>4, FS_Bijection DEF n

\* An element is put into a list, in front of what is at a place, or at the end.
Put(s, at, x) == IF at < 0 THEN s \o <<x>>
                 ELSE SubSeq(s, 1, at) \o <<x>> \o SubSeq(s, at + 1, Len(s))

LEMMA PutIs ==
  ASSUME NEW N, NEW s \in Seq(N), NEW x \in N, NEW at \in Int, at < Len(s)
  PROVE  /\ Put(s, at, x) \in Seq(N) /\ Range(Put(s, at, x)) = Range(s) \cup {x}
         /\ Put(s, at, x) # <<>> /\ Len(Put(s, at, x)) = Len(s) + 1
         /\ IsInjective(s) /\ x \notin Range(s) => IsInjective(Put(s, at, x))
         /\ Put(s, at, x)[1] = IF s = <<>> \/ at = 0 THEN x ELSE s[1]
         /\ Last(Put(s, at, x)) = IF at < 0 THEN x ELSE Last(s)
<1>. DEFINE n == Len(s)
            k == IF at < 0 THEN n ELSE at
            p == Put(s, at, x)
            val(i) == IF i <= k THEN s[i] ELSE IF i = k + 1 THEN x ELSE s[i - 1]
<1>1. n \in Nat /\ DOMAIN s = 1 .. n /\ s \in [1 .. n -> N]
  OBVIOUS
<1>2. k \in 0 .. n
  BY <1>1
<1>3. p \in Seq(N) /\ Len(p) = n + 1 /\ \A i \in 1 .. n + 1 : p[i] = val(i)
  <2>. DEFINE x1 == <<x>>
  <2>1. x1 \in Seq(N) /\ Len(x1) = 1 /\ x1[1] = x
    OBVIOUS
  <2>. HIDE DEF x1
  <2>2. CASE at < 0
    <3>1. p = s \o x1
      BY <2>2 DEF Put, x1
    <3>2. /\ s \o x1 \in Seq(N) /\ Len(s \o x1) = Len(s) + Len(x1)
          /\ \A i \in 1 .. Len(s) + Len(x1) : (s \o x1)[i] = IF i <= Len(s) THEN s[i] ELSE x1[i - Len(s)]
      BY <2>1, ConcatProperties
    <3>. HIDE DEF p
    <3>3. \A i \in 1 .. n + 1 : i > n => i - n = 1
      BY <1>1
    <3>. QED  BY <1>1, <2>1, <2>2, <3>1, <3>2, <3>3
  <2>3. CASE at >= 0
    <3>. DEFINE a == SubSeq(s, 1, at)
                b == SubSeq(s, at + 1, n)
                c == a \o x1
    <3>1. at \in 0 .. n
      BY <1>1, <2>3
    <3>2. a \in Seq(N) /\ Len(a) = at /\ \A i \in 1 .. at : a[i] = s[i]
      <4>1. \A i \in 1 .. at : s[i] \in N
        BY <1>1, <3>1
      <4>. QED  BY <3>1, <4>1, SubSeqProperties
    <3>3. b \in Seq(N) /\ Len(b) = n - at /\ \A i \in 1 .. n - at : b[i] = s[at + i]
      <4>1. \A i \in at + 1 .. n : s[i] \in N
        BY <1>1, <3>1
      <4>2. at + 1 \in Int /\ n \in Int
        BY <1>1, <3>1
      <4>3. /\ b \in Seq(N)
            /\ Len(b) = IF at + 1 <= n THEN n - (at + 1) + 1 ELSE 0
            /\ \A i \in 1 .. n - (at + 1) + 1 : b[i] = s[(at + 1) + i - 1]
        BY <4>1, <4>2, SubSeqProperties
      <4>. HIDE DEF b, n
      <4>4. \A i \in 1 .. n - at : (at + 1) + i - 1 = at + i
        BY <1>1, <3>1
      <4>5. n - (at + 1) + 1 = n - at
        BY <1>1, <3>1
      <4>6. (IF at + 1 <= n THEN n - (at + 1) + 1 ELSE 0) = n - at
        BY <1>1, <3>1
      <4>. QED  BY <4>3, <4>4, <4>5, <4>6
    <3>. HIDE DEF a, b
    <3>4. c \in Seq(N) /\ Len(c) = at + 1 /\ \A i \in 1 .. at + 1 : c[i] = IF i <= at THEN s[i] ELSE x
      <4>1. /\ a \o x1 \in Seq(N) /\ Len(a \o x1) = Len(a) + Len(x1)
            /\ \A i \in 1 .. Len(a) + Len(x1) : (a \o x1)[i] = IF i <= Len(a) THEN a[i] ELSE x1[i - Len(a)]
        BY <2>1, <3>2, ConcatProperties
      <4>. HIDE DEF c
      <4>2. \A i \in 1 .. at + 1 : i > at => i - at = 1
        BY <3>1
      <4>. QED  BY <2>1, <3>1, <3>2, <4>1, <4>2 DEF c
    <3>. HIDE DEF c
    <3>5. p = c \o b
      <4>1. ~(at < 0)
        BY <2>3
      <4>2. p = SubSeq(s, 1, at) \o <<x>> \o SubSeq(s, at + 1, Len(s))
        BY ONLY <4>1 DEF p, Put
      <4>. QED  BY <4>2 DEF c, a, b, x1, n
    <3>6. /\ c \o b \in Seq(N) /\ Len(c \o b) = Len(c) + Len(b)
          /\ \A i \in 1 .. Len(c) + Len(b) : (c \o b)[i] = IF i <= Len(c) THEN c[i] ELSE b[i - Len(c)]
      BY <3>3, <3>4, ConcatProperties
    <3>. HIDE DEF p
    <3>7. Len(c) + Len(b) = n + 1
      BY <1>1, <3>1, <3>3, <3>4
    <3>8. ASSUME NEW i \in 1 .. n + 1 PROVE p[i] = val(i)
      <4>1. CASE i <= at + 1
        BY <1>1, <3>1, <3>4, <3>5, <3>6, <3>7, <4>1
      <4>2. CASE i > at + 1
        <5>1. i - (at + 1) \in 1 .. n - at /\ at + (i - (at + 1)) = i - 1
          BY <1>1, <3>1, <4>2
        <5>2. p[i] = b[i - (at + 1)]
          BY <1>1, <3>1, <3>4, <3>5, <3>6, <3>7, <4>2
        <5>. QED  BY <2>3, <3>1, <3>3, <4>2, <5>1, <5>2
      <4>. QED  BY <3>1, <4>1, <4>2
    <3>. QED  BY <3>5, <3>6, <3>7, <3>8
  <2>. QED  BY <2>2, <2>3
<1>. HIDE DEF p
<1>4. DOMAIN p = 1 .. n + 1
  BY <1>3
<1>5. Range(p) = Range(s) \cup {x}
  <2>1. Range(p) = {val(i) : i \in 1 .. n + 1} /\ Range(s) = {s[i] : i \in 1 .. n}
    BY <1>1, <1>3, <1>4 DEF Range
  <2>2. \A i \in 1 .. n + 1 : val(i) \in {s[j] : j \in 1 .. n} \cup {x}
    <3>. SUFFICES ASSUME NEW i \in 1 .. n + 1 PROVE val(i) \in {s[j] : j \in 1 .. n} \cup {x}
      OBVIOUS
    <3>. HIDE DEF k
    <3>1. i <= k => i \in 1 .. n
      BY <1>1, <1>2
    <3>2. i > k + 1 => i - 1 \in 1 .. n
      BY <1>1, <1>2
    <3>. QED  BY <1>2, <3>1, <3>2
  <2>3. ASSUME NEW j \in 1 .. n PROVE \E i \in 1 .. n + 1 : val(i) = s[j]
    <3>. HIDE DEF k
    <3>1. CASE j <= k
      <4>1. j \in 1 .. n + 1 /\ val(j) = s[j]
        BY <1>1, <1>2, <3>1
      <4>. QED  BY <4>1
    <3>2. CASE j > k
      <4>1. j + 1 \in 1 .. n + 1 /\ val(j + 1) = s[j]
        BY <1>1, <1>2, <3>2
      <4>. QED  BY <4>1
    <3>. QED  BY <1>1, <1>2, <3>1, <3>2
  <2>4. k + 1 \in 1 .. n + 1 /\ val(k + 1) = x
    <3>. HIDE DEF k
    <3>. QED  BY <1>1, <1>2
  <2>. HIDE DEF val
  <2>. QED  BY <2>1, <2>2, <2>3, <2>4
<1>6. ASSUME IsInjective(s), x \notin Range(s) PROVE IsInjective(p)
  <2>. HIDE DEF k
  <2>1. \A i, j \in 1 .. n : s[i] = s[j] => i = j
    BY <1>1, <1>6 DEF IsInjective
  <2>2. \A i \in 1 .. n : s[i] # x
    BY <1>1, <1>6 DEF Range
  <2>3. ASSUME NEW i \in 1 .. n + 1, NEW j \in 1 .. n + 1, val(i) = val(j) PROVE i = j
    <3>1. CASE i <= k /\ j <= k
      BY <1>1, <1>2, <2>1, <2>3, <3>1
    <3>2. CASE i = k + 1 /\ j # k + 1
      BY <1>1, <1>2, <2>2, <2>3, <3>2
    <3>3. CASE i # k + 1 /\ j = k + 1
      BY <1>1, <1>2, <2>2, <2>3, <3>3
    <3>4. CASE i <= k /\ j > k + 1
      BY <1>1, <1>2, <2>1, <2>3, <3>4
    <3>5. CASE i > k + 1 /\ j <= k
      BY <1>1, <1>2, <2>1, <2>3, <3>5
    <3>6. CASE i > k + 1 /\ j > k + 1
      BY <1>1, <1>2, <2>1, <2>3, <3>6
    <3>. QED  BY <1>1, <1>2, <3>1, <3>2, <3>3, <3>4, <3>5, <3>6
  <2>. QED  BY <1>3, <1>4, <2>3 DEF IsInjective
<1>7. p[1] = IF s = <<>> \/ at = 0 THEN x ELSE s[1]
  <2>1. s = <<>> <=> n = 0
    BY EmptySeq
  <2>2. p[1] = val(1)
    BY <1>1, <1>3
  <2>3. k >= 1 <=> ~(n = 0 \/ at = 0)
    BY <1>1
  <2>. HIDE DEF k
  <2>. QED  BY <1>2, <2>1, <2>2, <2>3
<1>8. Last(p) = IF at < 0 THEN x ELSE Last(s)
  <2>1. Last(p) = val(n + 1) /\ Last(s) = s[n]
    BY <1>1, <1>3 DEF Last
  <2>2. at < 0 => k = n
    OBVIOUS
  <2>3. at >= 0 => k < n
    BY <1>1
  <2>4. n + 1 - 1 = n
    BY <1>1
  <2>. HIDE DEF k, n
  <2>. QED  BY <1>1, <1>2, <2>1, <2>2, <2>3, <2>4
<1>9. p # <<>>
  BY <1>1, <1>3, EmptySeq
<1>. QED  BY <1>3, <1>5, <1>6, <1>7, <1>8, <1>9 DEF p

\* An element is taken out of a list.
LEMMA TakenOut ==
  ASSUME NEW N, NEW s \in Seq(N), NEW i \in 1 .. Len(s), IsInjective(s)
  PROVE  LET r == RemoveAt(s, i) IN
         /\ r \in Seq(N) /\ Range(r) = Range(s) \ {s[i]} /\ IsInjective(r)
         /\ Len(r) = Len(s) - 1
         /\ r # <<>> => /\ i # 1 => r[1] = s[1]
                        /\ i # Len(s) => Last(r) = Last(s)
<1>. DEFINE n == Len(s)
            r == RemoveAt(s, i)
            val(j) == IF j < i THEN s[j] ELSE s[j + 1]
            a == SubSeq(s, 1, i - 1)
            b == SubSeq(s, i + 1, n)
<1>1. n \in Nat /\ DOMAIN s = 1 .. n /\ s \in [1 .. n -> N]
  OBVIOUS
<1>2. a \in Seq(N) /\ Len(a) = i - 1 /\ \A j \in 1 .. i - 1 : a[j] = s[j]
  <2>1. \A j \in 1 .. i - 1 : s[j] \in N
    BY <1>1
  <2>2. i - 1 \in Int /\ 1 \in Int
    BY <1>1
  <2>3. /\ a \in Seq(N) /\ Len(a) = IF 1 <= i - 1 THEN (i - 1) - 1 + 1 ELSE 0
        /\ \A j \in 1 .. (i - 1) - 1 + 1 : a[j] = s[1 + j - 1]
    BY <2>1, <2>2, SubSeqProperties
  <2>. HIDE DEF a
  <2>. QED  BY <1>1, <2>3
<1>3. b \in Seq(N) /\ Len(b) = n - i /\ \A j \in 1 .. n - i : b[j] = s[i + j]
  <2>1. \A j \in i + 1 .. n : s[j] \in N
    BY <1>1
  <2>2. i + 1 \in Int /\ n \in Int
    BY <1>1
  <2>3. /\ b \in Seq(N) /\ Len(b) = IF i + 1 <= n THEN n - (i + 1) + 1 ELSE 0
        /\ \A j \in 1 .. n - (i + 1) + 1 : b[j] = s[(i + 1) + j - 1]
    BY <2>1, <2>2, SubSeqProperties
  <2>. HIDE DEF b, n
  <2>4. n - (i + 1) + 1 = n - i
    BY <1>1
  <2>5. (IF i + 1 <= n THEN n - (i + 1) + 1 ELSE 0) = n - i
    BY <1>1
  <2>6. \A j \in 1 .. n - i : (i + 1) + j - 1 = i + j
    BY <1>1
  <2>. QED  BY <2>3, <2>4, <2>5, <2>6
<1>4. r = a \o b
  BY DEF RemoveAt
<1>. HIDE DEF a, b, r
<1>5. r \in Seq(N) /\ Len(r) = n - 1 /\ \A j \in 1 .. n - 1 : r[j] = val(j)
  <2>1. /\ a \o b \in Seq(N) /\ Len(a \o b) = Len(a) + Len(b)
        /\ \A j \in 1 .. Len(a) + Len(b) : (a \o b)[j] = IF j <= Len(a) THEN a[j] ELSE b[j - Len(a)]
    BY <1>2, <1>3, ConcatProperties
  <2>2. Len(a) + Len(b) = n - 1
    BY <1>1, <1>2, <1>3
  <2>3. ASSUME NEW j \in 1 .. n - 1 PROVE r[j] = val(j)
    <3>1. CASE j < i
      BY <1>1, <1>2, <1>4, <2>1, <2>2, <3>1
    <3>2. CASE j >= i
      <4>1. j - (i - 1) \in 1 .. n - i /\ i + (j - (i - 1)) = j + 1
        BY <1>1, <3>2
      <4>2. r[j] = b[j - (i - 1)]
        BY <1>1, <1>2, <1>4, <2>1, <2>2, <3>2
      <4>. QED  BY <1>1, <1>3, <3>2, <4>1, <4>2
    <3>. QED  BY <1>1, <3>1, <3>2
  <2>. QED  BY <1>4, <2>1, <2>2, <2>3
<1>6. DOMAIN r = 1 .. n - 1
  BY <1>5
<1>7. \A j, k \in 1 .. n : s[j] = s[k] => j = k
  BY <1>1 DEF IsInjective
<1>8. Range(r) = Range(s) \ {s[i]}
  <2>1. Range(r) = {val(j) : j \in 1 .. n - 1} /\ Range(s) = {s[j] : j \in 1 .. n}
    BY <1>1, <1>5, <1>6 DEF Range
  <2>2. \A j \in 1 .. n - 1 : val(j) \in {s[k] : k \in 1 .. n} \ {s[i]}
    <3>. SUFFICES ASSUME NEW j \in 1 .. n - 1 PROVE val(j) \in {s[k] : k \in 1 .. n} \ {s[i]}
      OBVIOUS
    <3>1. j \in 1 .. n /\ j + 1 \in 1 .. n
      BY <1>1
    <3>. QED  BY <1>1, <1>7, <3>1
  <2>3. ASSUME NEW k \in 1 .. n, s[k] # s[i] PROVE \E j \in 1 .. n - 1 : val(j) = s[k]
    <3>1. CASE k < i
      <4>1. k \in 1 .. n - 1 /\ val(k) = s[k]
        BY <1>1, <3>1
      <4>. QED  BY <4>1
    <3>2. CASE k > i
      <4>1. k - 1 \in 1 .. n - 1 /\ val(k - 1) = s[k]
        BY <1>1, <3>2
      <4>. QED  BY <4>1
    <3>. QED  BY <1>1, <2>3, <3>1, <3>2
  <2>. HIDE DEF val
  <2>. QED  BY <2>1, <2>2, <2>3
<1>9. IsInjective(r)
  <2>1. ASSUME NEW j \in 1 .. n - 1, NEW k \in 1 .. n - 1, val(j) = val(k) PROVE j = k
    <3>1. j \in 1 .. n /\ j + 1 \in 1 .. n /\ k \in 1 .. n /\ k + 1 \in 1 .. n
      BY <1>1
    <3>. QED  BY <1>1, <1>7, <2>1, <3>1
  <2>. QED  BY <1>5, <1>6, <2>1 DEF IsInjective
<1>10. r # <<>> => /\ i # 1 => r[1] = s[1]
                   /\ i # n => Last(r) = Last(s)
  <2>. SUFFICES ASSUME r # <<>> PROVE /\ i # 1 => r[1] = s[1]
                                      /\ i # n => Last(r) = Last(s)
    OBVIOUS
  <2>1. n - 1 >= 1
    BY <1>1, <1>5, EmptySeq
  <2>2. Last(r) = val(n - 1) /\ Last(s) = s[n] /\ r[1] = val(1)
    <3>1. n - 1 \in 1 .. n - 1 /\ 1 \in 1 .. n - 1
      BY <1>1, <2>1
    <3>. HIDE DEF n, val
    <3>. QED  BY <1>5, <3>1 DEF Last, n
  <2>3. i # 1 => 1 < i
    BY <1>1
  <2>. HIDE DEF n
  <2>4. i # n => ~(n - 1 < i) /\ n - 1 + 1 = n
    BY <1>1
  <2>5. i # n => val(n - 1) = s[n]
    BY <2>4
  <2>6. i # 1 => val(1) = s[1]
    BY <2>3
  <2>. QED  BY <2>2, <2>5, <2>6 DEF n
<1>. QED  BY <1>5, <1>8, <1>9, <1>10 DEF r

\* The list of a set has its elements, once.
LEMMA Listed ==
  ASSUME NEW S \in SUBSET Node
  PROVE  SetToSeq(S) \in Seq(Node) /\ Range(SetToSeq(S)) = S /\ IsInjective(SetToSeq(S))
<1>1. IsFiniteSet(S)
  BY TreeAssumption, FS_Subset
<1>. DEFINE n == Cardinality(S)
            T == [1 .. n -> S]
            s == SetToSeq(S)
<1>2. n \in Nat /\ ExistsBijection(1 .. n, S)
  BY <1>1, FS_CardinalityType
<1>3. PICK b : b \in Bijection(1 .. n, S)
  BY <1>2 DEF ExistsBijection
<1>4. b \in T /\ IsInjective(b)
  BY <1>3 DEF Bijection, Injection
<1>5. s \in T /\ IsInjective(s)
  <2>1. s = CHOOSE f \in T : IsInjective(f)
    BY DEF SetToSeq
  <2>. HIDE DEF s, T, n
  <2>. QED  BY <1>4, <2>1
<1>. HIDE DEF s, n
<1>6. s \in Seq(Node)
  BY <1>2, <1>5
<1>7. Range(s) = S
  <2>1. s \in Injection(1 .. n, S)
    BY <1>5 DEF Injection
  <2>2. IsFiniteSet(1 .. n) /\ Cardinality(1 .. n) = n
    BY <1>2, FS_Interval
  <2>3. s \in Surjection(1 .. n, S)
    BY <1>1, <2>1, <2>2, FS_Injection DEF n
  <2>4. DOMAIN s = 1 .. n /\ \A x \in S : \E i \in 1 .. n : s[i] = x
    BY <2>3 DEF Surjection
  <2>. QED  BY <1>5, <2>4 DEF Range
<1>. QED  BY <1>5, <1>6, <1>7 DEF s

-----------------------------------------------------------------------------
(* Trees that differ in some fields only.                                  *)

Fields == {"setting", "kids", "parent", "cached", "isParent", "open", "first", "last", "selected",
           "li", "ul", "checked", "nocheck", "disabled", "half", "state", "box", "line", "lined",
           "radios"}

Differ(t, F) == {u \in Tree : \A f \in Fields \ F : u[f] = t[f]}

LEMMA DifferChain ==
  ASSUME NEW F, NEW t \in Tree, NEW u \in Differ(t, F), NEW w \in Differ(u, F)
  PROVE  w \in Differ(t, F)
BY DEF Differ

LEMMA DifferMore ==
  ASSUME NEW F, NEW G, F \subseteq G, NEW t \in Tree, NEW u \in Differ(t, F)
  PROVE  u \in Differ(t, G)
BY DEF Differ

LEMMA DifferNot ==
  ASSUME NEW F, NEW t \in Tree
  PROVE  t \in Differ(t, F)
BY DEF Differ

-----------------------------------------------------------------------------
(* The boxes.                                                              *)

LEMMA SonFlagType ==
  ASSUME NEW t \in Tree, NEW c \in Node
  PROVE  SonFlag(t, c) \in -1 .. 2
<1>1. t.state[c] \in -1 .. 2
  BY DEF Tree
<1>. DEFINE s == t.state[c]
<1>. HIDE DEF s
<1>2. s \in -1 .. 2
  BY <1>1 DEF s
<1>3. CASE c \in Fixed(t)
  BY <1>2, <1>3 DEF SonFlag, s
<1>4. CASE c \notin Fixed(t) /\ c \in t.half
  BY <1>4 DEF SonFlag
<1>5. CASE c \notin Fixed(t) \cup t.half /\ c \in t.checked
  BY <1>5 DEF SonFlag
<1>6. CASE c \notin Fixed(t) \cup t.half \cup t.checked
  BY <1>6 DEF SonFlag
<1>. QED  BY <1>3, <1>4, <1>5, <1>6

\* What a box says when its sons' boxes contribute the flags S.
Verdict(t, S) ==
  IF t.setting.style = "radio"
  THEN IF 2 \in S THEN 2 ELSE IF 0 \in S THEN 0 ELSE -1
  ELSE IF 1 \in S \/ {0, 2} \subseteq S THEN 1
       ELSE IF 0 \in S THEN 0 ELSE IF 2 \in S THEN 2 ELSE -1

LEMMA VerdictMerges ==
  ASSUME NEW t, NEW S \in SUBSET (-1 .. 2), NEW son \in -1 .. 2
  PROVE  Merged(t, Verdict(t, S), son) = Verdict(t, S \cup {son})
<1>1. CASE t.setting.style = "radio"
  BY <1>1 DEF Merged, Verdict
<1>2. CASE t.setting.style # "radio"
  BY <1>2 DEF Merged, Verdict
<1>. QED  BY <1>1, <1>2

\* The flag of a box is what its sons say together, in whatever order the loop
\* of makeChkFlag meets them, for any number of sons: the early decisions in it
\* decide nothing else than the whole loop would.
THEOREM FlagOfSons ==
  ASSUME NEW t \in Tree, NEW n \in Node \cup {Root}
  PROVE  /\ ChkFlag(t, n) \in -1 .. 2
         /\ ChkFlag(t, n) = Verdict(t, {SonFlag(t, c) : c \in Kids(t, n)})
<1>. DEFINE V == -1 .. 2
            k == t.kids[n]
            m == Len(k)
            e(f) == [i \in 0 .. m |-> IF i = 0 THEN -1 ELSE Merged(t, f[i - 1], SonFlag(t, k[i]))]
            flag == CHOOSE f : f = e(f)
            F == [i \in 1 .. m |-> [v \in V |-> Merged(t, v, SonFlag(t, k[i]))]]
<1>1. k \in Seq(Node) /\ m \in Nat /\ \A i \in 1 .. m : k[i] \in Node
  BY DEF Tree
<1>2. \A i \in 1 .. m : SonFlag(t, k[i]) \in V
  BY <1>1, SonFlagType
<1>3. \A v, w \in V : Merged(t, v, w) \in V
  BY DEF Merged
<1>4. PICK r : Repairs!Run(r, F, V, -1, m)
  <2>1. F \in [1 .. m -> [V -> V]] /\ -1 \in V
    BY <1>2, <1>3
  <2>2. Repairs!Steps(F, V, m)
    BY <1>1, <2>1 DEF Repairs!Steps
  <2>. HIDE DEF F, V, m
  <2>. QED  BY <2>1, <2>2, Repairs!ListRecursion
<1>. HIDE DEF k, m
<1>5. \A i \in 1 .. m : r[i] = Merged(t, r[i - 1], SonFlag(t, k[i]))
  <2>. SUFFICES ASSUME NEW i \in 1 .. m PROVE r[i] = Merged(t, r[i - 1], SonFlag(t, k[i]))
    OBVIOUS
  <2>1. r[i - 1] \in V
    BY <1>1, <1>4 DEF Repairs!Run
  <2>2. \A v \in V : F[i][v] = Merged(t, v, SonFlag(t, k[i]))
    OBVIOUS
  <2>. HIDE DEF F
  <2>. QED  BY <1>4, <2>1, <2>2 DEF Repairs!Run
<1>6. r = e(r)
  <2>. HIDE DEF V, F
  <2>1. \A i \in 0 .. m : r[i] = IF i = 0 THEN -1 ELSE Merged(t, r[i - 1], SonFlag(t, k[i]))
    BY <1>1, <1>4, <1>5 DEF Repairs!Run
  <2>2. r = [i \in 0 .. m |-> r[i]]
    BY <1>4 DEF Repairs!Run
  <2>. QED  BY <2>1, <2>2
<1>7. flag = e(flag)
  <2>. HIDE DEF e
  <2>. QED  BY <1>6
<1>8. /\ flag[0] = -1
      /\ \A i \in 1 .. m : flag[i] = Merged(t, flag[i - 1], SonFlag(t, k[i]))
  <2>. HIDE DEF flag
  <2>1. 0 \in 0 .. m /\ \A i \in 1 .. m : i \in 0 .. m /\ i # 0
    BY <1>1
  <2>. QED  BY <1>7, <2>1
<1>9. ChkFlag(t, n) = flag[m]
  BY DEF ChkFlag, m, k
<1>. DEFINE A(i) == {SonFlag(t, k[j]) : j \in 1 .. i}
            G == {i \in 0 .. m : flag[i] = Verdict(t, A(i))}
<1>. HIDE DEF flag, F, e
<1>10. 0 \in G
  <2>1. A(0) = {}
    OBVIOUS
  <2>2. Verdict(t, {}) = -1
    BY DEF Verdict
  <2>3. 0 \in 0 .. m
    BY <1>1
  <2>. HIDE DEF A
  <2>4. flag[0] = Verdict(t, A(0))
    BY <1>8, <2>1, <2>2
  <2>. QED  BY <2>3, <2>4
<1>11. ASSUME NEW i \in 1 .. m, i - 1 \in G PROVE i \in G
  <2>. DEFINE S == A(i - 1)
              son == SonFlag(t, k[i])
  <2>1. A(i) = S \cup {son}
    BY <1>1
  <2>2. S \in SUBSET (-1 .. 2) /\ son \in -1 .. 2
    BY <1>1, <1>2
  <2>3. flag[i - 1] = Verdict(t, S)
    BY <1>11
  <2>4. flag[i] = Merged(t, flag[i - 1], son)
    BY <1>8
  <2>. HIDE DEF S, son, A
  <2>5. Merged(t, Verdict(t, S), son) = Verdict(t, S \cup {son})
    BY <2>2, VerdictMerges
  <2>6. flag[i] = Verdict(t, A(i))
    BY <2>1, <2>3, <2>4, <2>5
  <2>. QED  BY <1>1, <2>6
<1>12. m \in G
  <2>1. Repairs!Chained(G, m)
    BY <1>1, <1>10, <1>11 DEF Repairs!Chained
  <2>. HIDE DEF G
  <2>2. 0 .. m \subseteq G
    BY <2>1, Repairs!ListInduction
  <2>. QED  BY <1>1, <2>2
<1>13. A(m) = {SonFlag(t, c) : c \in Kids(t, n)}
  <2>1. Kids(t, n) = {k[j] : j \in 1 .. m}
    BY <1>1 DEF Kids, Range, k, m
  <2>. QED  BY <2>1
<1>14. ChkFlag(t, n) = Verdict(t, A(m))
  BY <1>9, <1>12
<1>15. \A S \in SUBSET V : Verdict(t, S) \in V
  BY DEF Verdict
<1>16. A(m) \in SUBSET V
  BY <1>1, <1>2
<1>. HIDE DEF A
<1>. QED  BY <1>13, <1>14, <1>15, <1>16

LEMMA ChkImageType ==
  ASSUME NEW t \in Tree, NEW n \in Node
  PROVE  ChkImage(t, n) \in Image
<1>. DEFINE y == CASE n \in t.disabled -> "disable"
                   [] n \notin t.disabled /\ n \in t.half -> "part"
                   [] OTHER -> IF \/ t.state[n] < 1 /\ (t.setting.style = "radio" \/ n \notin t.checked)
                                  \/ /\ t.setting.style = "checkbox" /\ n \in t.checked
                                     /\ t.state[n] \in {-1, 2}
                               THEN "full" ELSE "part"
<1>1. y \in {"full", "part", "disable"} /\ (n \in t.checked) \in BOOLEAN
  OBVIOUS
<1>. HIDE DEF y
<1>2. <<n \in t.checked, y>> \in Image
  BY <1>1, Zenon DEF Image
<1>3. ChkImage(t, n) = <<n \in t.checked, y>>
  BY Zenon DEF ChkImage, y
<1>. QED  BY <1>2, <1>3

LEMMA SetChkClassDiffers ==
  ASSUME NEW t \in Tree, NEW n \in Node
  PROVE  SetChkClass(t, n) \in Differ(t, {"box"})
BY ChkImageType DEF Tree, SetChkClass, Differ, Fields

LEMMA MakeChkFlagDiffers ==
  ASSUME NEW t \in Tree, NEW n \in Node
  PROVE  MakeChkFlag(t, n) \in Differ(t, {"state"})
<1>1. ChkFlag(t, n) \in -1 .. 2
  BY FlagOfSons
<1>. QED  BY <1>1 DEF Tree, MakeChkFlag, Differ, Fields

Drawn == {"state", "box"}

LEMMA RepairDiffers ==
  ASSUME NEW t \in Tree, NEW n \in Node
  PROVE  RepairChkClass(t, n) \in Differ(t, Drawn)
<1>. DEFINE u == MakeChkFlag(t, n)
<1>1. u \in Differ(t, {"state"}) /\ u \in Tree
  BY MakeChkFlagDiffers DEF Differ
<1>2. u \in Differ(t, Drawn)
  BY <1>1 DEF Differ, Drawn
<1>. HIDE DEF u
<1>3. SetChkClass(u, n) \in Differ(u, {"box"})
  BY <1>1, SetChkClassDiffers
<1>4. SetChkClass(u, n) \in Differ(u, Drawn)
  BY <1>3 DEF Differ, Drawn
<1>5. SetChkClass(u, n) \in Differ(t, Drawn)
  BY <1>2, <1>4 DEF Differ
<1>. QED  BY <1>2, <1>5 DEF RepairChkClass, u

-----------------------------------------------------------------------------
(* What is above a node and what is below it.                              *)

\* There is no way up, or down, without an end.
ParentsEnd(t) ==
  \E N \in Nat : \E depth \in [Node -> 0 .. N] :
    \A n \in Node : t.parent[n] # Root => depth[t.parent[n]] < depth[n]

SonsEnd(t) ==
  \E N \in Nat : \E height \in [Node -> 0 .. N] :
    \A p \in Node : \A n \in Kids(t, p) : height[n] < height[p]

\* The list of the ancestors is the recursion that getParentNode is.
LEMMA AboveIs ==
  ASSUME NEW t \in Tree, ParentsEnd(t), NEW n \in Node
  PROVE  /\ Above(t, n) \in Seq(Node)
         /\ t.parent[n] = Root => Above(t, n) = <<>>
         /\ t.parent[n] # Root => /\ t.parent[n] \in Node
                                  /\ Above(t, n) = <<t.parent[n]>> \o Above(t, t.parent[n])
<1>1. PICK N \in Nat : \E depth \in [Node -> 0 .. N] :
        \A m \in Node : t.parent[m] # Root => depth[t.parent[m]] < depth[m]
  BY DEF ParentsEnd
<1>2. PICK depth \in [Node -> 0 .. N] :
        \A m \in Node : t.parent[m] # Root => depth[t.parent[m]] < depth[m]
  BY <1>1
<1>3. \A m \in Node : t.parent[m] # Root => t.parent[m] \in Node
  BY DEF Tree
<1>. DEFINE V == Seq(Node)
            e(f) == [m \in Node |-> IF t.parent[m] = Root THEN <<>>
                                    ELSE <<t.parent[m]>> \o f[t.parent[m]]]
            up == CHOOSE f : f = e(f)
            F == [m \in Node |-> [g \in [Node -> V] |->
                    IF t.parent[m] = Root THEN <<>> ELSE <<t.parent[m]>> \o g[t.parent[m]]]]
<1>4. <<>> \in V /\ \A p \in Node, w \in V : <<p>> \o w \in V
  OBVIOUS
<1>5. F \in [Node -> [[Node -> V] -> V]]
  <2>1. ASSUME NEW m \in Node, NEW g \in [Node -> V]
        PROVE  (IF t.parent[m] = Root THEN <<>> ELSE <<t.parent[m]>> \o g[t.parent[m]]) \in V
    <3>1. CASE t.parent[m] = Root
      BY <3>1
    <3>2. CASE t.parent[m] # Root
      <4>1. t.parent[m] \in Node /\ g[t.parent[m]] \in V
        BY <1>3, <3>2
      <4>. QED  BY <1>4, <3>2, <4>1
    <3>. QED  BY <3>1, <3>2
  <2>. QED  BY <2>1
<1>6. Repairs!Determines(F, Node, V, depth, N)
  <2>1. V # {}
    BY <1>4
  <2>2. ASSUME NEW m \in Node, NEW g \in [Node -> V], NEW h \in [Node -> V],
               \A y \in Node : depth[y] < depth[m] => g[y] = h[y]
        PROVE  F[m][g] = F[m][h]
    <3>1. t.parent[m] # Root => g[t.parent[m]] = h[t.parent[m]]
      BY <1>2, <1>3, <2>2
    <3>. QED  BY <3>1
  <2>. HIDE DEF V, F
  <2>. QED  BY <1>5, <2>1, <2>2 DEF Repairs!Determines
<1>7. PICK f : Repairs!Fixpoint(f, F, Node, V)
  <2>. HIDE DEF V, F
  <2>. QED  BY <1>6, Repairs!RankRecursion
<1>8. f = e(f)
  <2>1. f \in [Node -> V] /\ \A m \in Node : f[m] = F[m][f]
    BY <1>7 DEF Repairs!Fixpoint
  <2>2. \A m \in Node : F[m][f] = IF t.parent[m] = Root THEN <<>>
                                  ELSE <<t.parent[m]>> \o f[t.parent[m]]
    BY <2>1
  <2>. HIDE DEF F, V
  <2>. QED  BY <2>1, <2>2
<1>9. up = e(up)
  <2>. HIDE DEF e
  <2>. QED  BY <1>8
<1>10. \A m \in Node : Above(t, m) = up[m]
  BY DEF Above
<1>11. \A m \in Node : /\ t.parent[m] = Root => up[m] = <<>>
                       /\ t.parent[m] # Root => up[m] = <<t.parent[m]>> \o up[t.parent[m]]
  <2>. HIDE DEF up
  <2>. QED  BY <1>9
<1>12. \A m \in Node : up[m] \in V
  <2>. DEFINE G == {m \in Node : up[m] \in V}
  <2>. HIDE DEF up
  <2>1. ASSUME NEW m \in Node, \A y \in Node : depth[y] < depth[m] => y \in G PROVE m \in G
    <3>1. CASE t.parent[m] = Root
      BY <1>4, <1>11, <3>1
    <3>2. CASE t.parent[m] # Root
      <4>1. t.parent[m] \in Node /\ up[t.parent[m]] \in V
        BY <1>2, <1>3, <2>1, <3>2
      <4>. QED  BY <1>4, <1>11, <3>2, <4>1
    <3>. QED  BY <3>1, <3>2
  <2>2. Repairs!Inherited(G, Node, depth)
    BY <2>1 DEF Repairs!Inherited
  <2>. HIDE DEF G
  <2>3. Node \subseteq G
    BY <2>2, Repairs!RankInduction
  <2>. QED  BY <2>3 DEF G
<1>. HIDE DEF up
<1>. QED  BY <1>3, <1>10, <1>11, <1>12

\* The sons of a node, as the provers like them.
LEMMA KidsAre ==
  ASSUME NEW t \in Tree, NEW n \in Node \cup {Root}
  PROVE  /\ t.kids[n] \in Seq(Node) /\ Len(t.kids[n]) \in Nat
         /\ DOMAIN t.kids[n] = 1 .. Len(t.kids[n])
         /\ Kids(t, n) = {t.kids[n][i] : i \in 1 .. Len(t.kids[n])}
         /\ Kids(t, n) \subseteq Node
         /\ HasKids(t, n) <=> Kids(t, n) # {}
<1>1. t.kids[n] \in Seq(Node)
  BY DEF Tree
<1>. DEFINE s == t.kids[n]
<1>. HIDE DEF s
<1>2. s \in Seq(Node)
  BY <1>1 DEF s
<1>3. Len(s) \in Nat /\ DOMAIN s = 1 .. Len(s) /\ \A i \in 1 .. Len(s) : s[i] \in Node
  BY <1>2
<1>4. Range(s) = {s[i] : i \in 1 .. Len(s)}
  BY <1>3 DEF Range
<1>5. s # <<>> => Len(s) # 0
  BY <1>2, EmptySeq
<1>6. s # <<>> => 1 \in 1 .. Len(s)
  BY <1>3, <1>5
<1>7. s = <<>> => 1 .. Len(s) = {}
  BY EmptySeq
<1>8. Range(s) # {} <=> s # <<>>
  BY <1>4, <1>6, <1>7
<1>. QED  BY <1>2, <1>3, <1>4, <1>8 DEF s, Kids, HasKids

\* What is below a node are its sons and what is below them.
LEMMA BelowIs ==
  ASSUME NEW t \in Tree, SonsEnd(t), NEW n \in Node \cup {Root}
  PROVE  /\ Below(t, n) \in Seq(Node)
         /\ Below(t, n) = FlattenSeq([i \in DOMAIN t.kids[n] |->
                                          Below(t, t.kids[n][i]) \o <<t.kids[n][i]>>])
         /\ Under(t, n) = UNION {{k} \cup Under(t, k) : k \in Kids(t, n)}
<1>1. PICK N \in Nat : \E height \in [Node -> 0 .. N] :
        \A p \in Node : \A m \in Kids(t, p) : height[m] < height[p]
  BY DEF SonsEnd
<1>2. PICK height \in [Node -> 0 .. N] : \A p \in Node : \A m \in Kids(t, p) : height[m] < height[p]
  BY <1>1
<1>. DEFINE V == Seq(Node)
            sons(f, m) == [i \in DOMAIN t.kids[m] |-> f[t.kids[m][i]]]
            e(f) == [m \in Node |-> FlattenSeq(sons(f, m)) \o <<m>>]
            post == CHOOSE f : f = e(f)
            F == [m \in Node |-> [g \in [Node -> V] |-> FlattenSeq(sons(g, m)) \o <<m>>]]
<1>3. ASSUME NEW f, NEW m \in Node \cup {Root}, \A k \in Kids(t, m) : f[k] \in V
      PROVE  /\ FlattenSeq(sons(f, m)) \in V
             /\ Range(FlattenSeq(sons(f, m))) = UNION {Range(f[k]) : k \in Kids(t, m)}
  <2>. DEFINE s == t.kids[m]
              q == sons(f, m)
  <2>1. /\ DOMAIN s = 1 .. Len(s) /\ Len(s) \in Nat
        /\ Kids(t, m) = {s[i] : i \in 1 .. Len(s)}
    BY KidsAre
  <2>. HIDE DEF s
  <2>2. q = [i \in 1 .. Len(s) |-> f[s[i]]]
    BY <2>1 DEF s
  <2>. HIDE DEF q
  <2>3. q \in Seq(V) /\ Len(q) = Len(s) /\ \A i \in 1 .. Len(s) : q[i] = f[s[i]]
    <3>1. \A i \in 1 .. Len(s) : f[s[i]] \in V
      BY <1>3, <2>1
    <3>. HIDE DEF V
    <3>2. q \in [1 .. Len(s) -> V]
      BY <2>2, <3>1
    <3>3. q \in Seq(V) /\ Len(q) = Len(s)
      BY <2>1, <3>2
    <3>. QED  BY <2>2, <3>3
  <2>4. /\ FlattenSeq(q) \in V
        /\ Range(FlattenSeq(q)) = UNION {Range(q[i]) : i \in 1 .. Len(q)}
    BY <2>3, Flattened
  <2>5. {Range(q[i]) : i \in 1 .. Len(q)} = {Range(f[k]) : k \in Kids(t, m)}
    BY <2>1, <2>3
  <2>. QED  BY <2>4, <2>5 DEF q
<1>4. \A m \in Node, w \in V : w \o <<m>> \in V /\ Range(w \o <<m>>) = Range(w) \cup {m}
  <2>1. ASSUME NEW m \in Node, NEW w \in Seq(Node)
        PROVE  w \o <<m>> \in Seq(Node) /\ Range(w \o <<m>>) = Range(w) \cup {m}
    BY ONLY m \in Node, w \in Seq(Node), Joined
  <2>. QED  BY <2>1
<1>5. F \in [Node -> [[Node -> V] -> V]]
  <2>1. ASSUME NEW m \in Node, NEW g \in [Node -> V]
        PROVE  FlattenSeq(sons(g, m)) \o <<m>> \in V
    <3>1. \A k \in Kids(t, m) : g[k] \in V
      BY KidsAre
    <3>2. FlattenSeq(sons(g, m)) \in V
      BY <1>3, <3>1
    <3>. HIDE DEF V, sons
    <3>. QED  BY <1>4, <3>2
  <2>. QED  BY <2>1
<1>6. Repairs!Determines(F, Node, V, height, N)
  <2>1. <<>> \in V
    OBVIOUS
  <2>2. ASSUME NEW m \in Node, NEW g \in [Node -> V], NEW h \in [Node -> V],
               \A y \in Node : height[y] < height[m] => g[y] = h[y]
        PROVE  F[m][g] = F[m][h]
    <3>1. \A k \in Kids(t, m) : g[k] = h[k]
      BY <1>2, <2>2, KidsAre
    <3>2. \A i \in DOMAIN t.kids[m] : t.kids[m][i] \in Kids(t, m)
      BY KidsAre
    <3>3. sons(g, m) = sons(h, m)
      BY <3>1, <3>2
    <3>4. F[m][g] = FlattenSeq(sons(g, m)) \o <<m>> /\ F[m][h] = FlattenSeq(sons(h, m)) \o <<m>>
      <4>. HIDE DEF V, sons
      <4>. QED  BY DEF F
    <3>. HIDE DEF F, sons
    <3>. QED  BY <3>3, <3>4
  <2>. HIDE DEF V, F
  <2>. QED  BY <1>5, <2>1, <2>2 DEF Repairs!Determines
<1>7. PICK f : Repairs!Fixpoint(f, F, Node, V)
  <2>. HIDE DEF V, F
  <2>. QED  BY <1>6, Repairs!RankRecursion
<1>8. f = e(f)
  <2>1. f \in [Node -> V] /\ \A m \in Node : f[m] = F[m][f]
    BY <1>7 DEF Repairs!Fixpoint
  <2>2. \A m \in Node : F[m][f] = FlattenSeq(sons(f, m)) \o <<m>>
    <3>. HIDE DEF sons, V
    <3>. QED  BY <2>1 DEF F
  <2>. HIDE DEF F, V, sons
  <2>. QED  BY <2>1, <2>2
<1>9. post = e(post)
  <2>. HIDE DEF e
  <2>. QED  BY <1>8
<1>10. \A m \in Node \cup {Root} : Below(t, m) = FlattenSeq(sons(post, m))
  BY DEF Below
<1>. HIDE DEF post, F
<1>11. \A m \in Node : post[m] = FlattenSeq(sons(post, m)) \o <<m>>
  <2>. HIDE DEF sons
  <2>. QED  BY <1>9
<1>16. Below(t, n) = FlattenSeq([i \in DOMAIN t.kids[n] |->
                                  Below(t, t.kids[n][i]) \o <<t.kids[n][i]>>])
  <2>. DEFINE whole == [i \in DOMAIN t.kids[n] |-> Below(t, t.kids[n][i]) \o <<t.kids[n][i]>>]
  <2>1. \A i \in DOMAIN t.kids[n] :
          post[t.kids[n][i]] = Below(t, t.kids[n][i]) \o <<t.kids[n][i]>>
    <3>1. \A i \in DOMAIN t.kids[n] : t.kids[n][i] \in Node
      BY KidsAre
    <3>. HIDE DEF sons
    <3>. QED  BY <1>10, <1>11, <3>1
  <2>2. sons(post, n) = whole
    BY <2>1
  <2>. HIDE DEF sons, whole
  <2>3. Below(t, n) = FlattenSeq(whole)
    BY <1>10, <2>2
  <2>. QED  BY <2>3 DEF whole
<1>. HIDE DEF sons, e
<1>12. \A m \in Node : post[m] \in V
  <2>. DEFINE G == {m \in Node : post[m] \in V}
  <2>1. ASSUME NEW m \in Node, \A y \in Node : height[y] < height[m] => y \in G PROVE m \in G
    <3>1. \A k \in Kids(t, m) : post[k] \in V
      BY <1>2, <2>1, KidsAre
    <3>2. FlattenSeq(sons(post, m)) \in V
      BY <1>3, <3>1
    <3>. HIDE DEF V
    <3>. QED  BY <1>4, <1>11, <3>2
  <2>2. Repairs!Inherited(G, Node, height)
    BY <2>1 DEF Repairs!Inherited
  <2>. HIDE DEF G
  <2>3. Node \subseteq G
    BY <2>2, Repairs!RankInduction
  <2>. QED  BY <2>3 DEF G
<1>13. \A m \in Node \cup {Root} : /\ Below(t, m) \in V
                                   /\ Under(t, m) = UNION {Range(post[k]) : k \in Kids(t, m)}
  <2>. SUFFICES ASSUME NEW m \in Node \cup {Root}
                PROVE  /\ Below(t, m) \in V
                       /\ Under(t, m) = UNION {Range(post[k]) : k \in Kids(t, m)}
    OBVIOUS
  <2>1. \A k \in Kids(t, m) : post[k] \in V
    BY <1>12, KidsAre
  <2>. HIDE DEF V
  <2>. QED  BY <1>3, <1>10, <2>1 DEF Under
<1>14. \A k \in Node : Range(post[k]) = Under(t, k) \cup {k}
  <2>. HIDE DEF V
  <2>1. ASSUME NEW k \in Node PROVE Range(post[k]) = Under(t, k) \cup {k}
    <3>1. post[k] = Below(t, k) \o <<k>> /\ Below(t, k) \in V
      BY <1>10, <1>11, <1>13
    <3>. QED  BY <1>4, <3>1 DEF Under
  <2>. QED  BY <2>1
<1>15. {Range(post[k]) : k \in Kids(t, n)} = {{k} \cup Under(t, k) : k \in Kids(t, n)}
  <2>1. \A k \in Kids(t, n) : Range(post[k]) = {k} \cup Under(t, k)
    BY <1>14, KidsAre
  <2>. QED  BY <2>1
<1>17. Below(t, n) \in V /\ Under(t, n) = UNION {Range(post[k]) : k \in Kids(t, n)}
  <2>. HIDE DEF V
  <2>. QED  BY <1>13
<1>. QED  BY <1>15, <1>16, <1>17

-----------------------------------------------------------------------------
(* The parents agree with the children.                                    *)

\* A node and all above it; a node and all below it.
Upward(t, n) == {n} \cup Range(Above(t, n))
Downward(t, n) == {n} \cup Under(t, n)

\* The nodes of the tree are the ones in the cache, each has its parent among
\* them, or none, and is that parent's child, once.
Agree(t) == /\ t \in Tree
            /\ ParentsEnd(t)
            /\ \A p \in Node \cup {Root} : IsInjective(t.kids[p])
            /\ \A p \in Node \cup {Root} : Kids(t, p) = {q \in t.cached : t.parent[q] = p}
            /\ \A q \in t.cached : t.parent[q] \in t.cached \cup {Root}
            /\ \A q \in Node \ t.cached : t.parent[q] = Root

LEMMA AgreeEnds ==
  ASSUME NEW t, Agree(t)
  PROVE  SonsEnd(t)
<1>1. PICK N \in Nat : \E depth \in [Node -> 0 .. N] :
        \A m \in Node : t.parent[m] # Root => depth[t.parent[m]] < depth[m]
  BY DEF ParentsEnd, Agree
<1>2. PICK depth \in [Node -> 0 .. N] :
        \A m \in Node : t.parent[m] # Root => depth[t.parent[m]] < depth[m]
  BY <1>1
<1>. DEFINE height == [n \in Node |-> N - depth[n]]
<1>3. height \in [Node -> 0 .. N]
  OBVIOUS
<1>4. ASSUME NEW p \in Node, NEW m \in Kids(t, p) PROVE height[m] < height[p]
  <2>1. m \in Node /\ t.parent[m] = p /\ p # Root
    BY TreeAssumption DEF Agree, Tree
  <2>2. depth[p] < depth[m]
    BY <1>2, <2>1
  <2>. QED  BY <2>1, <2>2
<1>. HIDE DEF height
<1>. QED  BY <1>3, <1>4 DEF SonsEnd

LEMMA UpwardIs ==
  ASSUME NEW t \in Tree, ParentsEnd(t), NEW n \in Node
  PROVE  /\ Upward(t, n) \in SUBSET Node
         /\ t.parent[n] = Root => Upward(t, n) = {n}
         /\ t.parent[n] # Root => /\ t.parent[n] \in Node
                                  /\ Upward(t, n) = {n} \cup Upward(t, t.parent[n])
<1>1. Range(<<>>) = {}
  BY DEF Range
<1>2. \A s \in Seq(Node) : Range(s) \in SUBSET Node
  BY DEF Range
<1>3. /\ Above(t, n) \in Seq(Node)
      /\ t.parent[n] = Root => Above(t, n) = <<>>
      /\ t.parent[n] # Root => /\ t.parent[n] \in Node
                               /\ Above(t, n) = <<t.parent[n]>> \o Above(t, t.parent[n])
  BY AboveIs
<1>4. Upward(t, n) \in SUBSET Node /\ (t.parent[n] = Root => Upward(t, n) = {n})
  BY <1>1, <1>2, <1>3 DEF Upward
<1>5. ASSUME t.parent[n] # Root
      PROVE  t.parent[n] \in Node /\ Upward(t, n) = {n} \cup Upward(t, t.parent[n])
  <2>. DEFINE p == t.parent[n]
              w == Above(t, p)
  <2>1. p \in Node /\ Above(t, n) = <<p>> \o w
    BY <1>3, <1>5
  <2>2. w \in Seq(Node)
    BY <2>1, AboveIs
  <2>. HIDE DEF p, w
  <2>3. Range(<<p>> \o w) = Range(w) \cup {p}
    BY <2>1, <2>2, Joined
  <2>4. Upward(t, n) = {n} \cup ({p} \cup Range(w))
    BY <2>1, <2>3 DEF Upward
  <2>. QED  BY <2>1, <2>4 DEF Upward, p, w
<1>. QED  BY <1>4, <1>5

\* What is above what is above a node is above the node.
LEMMA UpwardCloses ==
  ASSUME NEW t \in Tree, ParentsEnd(t), NEW n \in Node, NEW q \in Upward(t, n), t.parent[q] # Root
  PROVE  t.parent[q] \in Upward(t, n)
<1>1. PICK N \in Nat : \E depth \in [Node -> 0 .. N] :
        \A m \in Node : t.parent[m] # Root => depth[t.parent[m]] < depth[m]
  BY DEF ParentsEnd
<1>2. PICK depth \in [Node -> 0 .. N] :
        \A m \in Node : t.parent[m] # Root => depth[t.parent[m]] < depth[m]
  BY <1>1
<1>. DEFINE G == {m \in Node : \A x \in Upward(t, m) : t.parent[x] # Root =>
                                 t.parent[x] \in Upward(t, m)}
<1>3. ASSUME NEW m \in Node, \A y \in Node : depth[y] < depth[m] => y \in G PROVE m \in G
  <2>1. CASE t.parent[m] = Root
    <3>1. Upward(t, m) = {m}
      BY <2>1, UpwardIs
    <3>. QED  BY <2>1, <3>1
  <2>2. CASE t.parent[m] # Root
    <3>1. t.parent[m] \in Node /\ Upward(t, m) = {m} \cup Upward(t, t.parent[m])
      BY <2>2, UpwardIs
    <3>2. t.parent[m] \in G
      BY <1>2, <1>3, <2>2, <3>1
    <3>3. t.parent[m] \in Upward(t, t.parent[m])
      BY DEF Upward
    <3>. QED  BY <3>1, <3>2, <3>3
  <2>. QED  BY <2>1, <2>2
<1>4. Repairs!Inherited(G, Node, depth)
  BY <1>3 DEF Repairs!Inherited
<1>. HIDE DEF G
<1>5. Node \subseteq G
  BY <1>4, Repairs!RankInduction
<1>. QED  BY <1>5 DEF G

\* Whatever holds a node and, with each node, its parent, holds all above it.
LEMMA UpwardLeast ==
  ASSUME NEW t \in Tree, ParentsEnd(t), NEW S, NEW n \in Node, n \in S,
         \A q \in S \cap Node : t.parent[q] # Root => t.parent[q] \in S
  PROVE  Upward(t, n) \subseteq S
<1>1. PICK N \in Nat : \E depth \in [Node -> 0 .. N] :
        \A m \in Node : t.parent[m] # Root => depth[t.parent[m]] < depth[m]
  BY DEF ParentsEnd
<1>2. PICK depth \in [Node -> 0 .. N] :
        \A m \in Node : t.parent[m] # Root => depth[t.parent[m]] < depth[m]
  BY <1>1
<1>. DEFINE G == {m \in Node : m \in S => Upward(t, m) \subseteq S}
<1>3. ASSUME NEW m \in Node, \A y \in Node : depth[y] < depth[m] => y \in G PROVE m \in G
  <2>. SUFFICES ASSUME m \in S PROVE Upward(t, m) \subseteq S
    OBVIOUS
  <2>1. CASE t.parent[m] = Root
    BY <2>1, UpwardIs
  <2>2. CASE t.parent[m] # Root
    <3>1. t.parent[m] \in Node /\ Upward(t, m) = {m} \cup Upward(t, t.parent[m])
      BY <2>2, UpwardIs
    <3>2. t.parent[m] \in G /\ t.parent[m] \in S
      BY <1>2, <1>3, <2>2, <3>1
    <3>. QED  BY <3>1, <3>2
  <2>. QED  BY <2>1, <2>2
<1>4. Repairs!Inherited(G, Node, depth)
  BY <1>3 DEF Repairs!Inherited
<1>. HIDE DEF G
<1>5. Node \subseteq G
  BY <1>4, Repairs!RankInduction
<1>. QED  BY <1>5 DEF G

LEMMA DownwardIs ==
  ASSUME NEW t, Agree(t), NEW n \in Node \cup {Root}
  PROVE  /\ Under(t, n) = UNION {Downward(t, k) : k \in Kids(t, n)}
         /\ Kids(t, n) \subseteq Node /\ Kids(t, n) \subseteq t.cached
         /\ t.cached \subseteq Node
<1>1. SonsEnd(t) /\ t \in Tree
  BY AgreeEnds DEF Agree
<1>2. Under(t, n) = UNION {{k} \cup Under(t, k) : k \in Kids(t, n)}
  BY <1>1, BelowIs
<1>3. {{k} \cup Under(t, k) : k \in Kids(t, n)} = {Downward(t, k) : k \in Kids(t, n)}
  BY DEF Downward
<1>4. Kids(t, n) = {q \in t.cached : t.parent[q] = n} /\ t.cached \subseteq Node
  BY DEF Agree, Tree
<1>. QED  BY <1>2, <1>3, <1>4

\* The sons of what is below a node are below it.
LEMMA DownwardCloses ==
  ASSUME NEW t, Agree(t), NEW n \in Node, NEW q \in Downward(t, n) \cap Node, NEW k \in Kids(t, q)
  PROVE  k \in Downward(t, n)
<1>1. SonsEnd(t) /\ t \in Tree
  BY AgreeEnds DEF Agree
<1>2. PICK N \in Nat : \E height \in [Node -> 0 .. N] :
        \A p \in Node : \A m \in Kids(t, p) : height[m] < height[p]
  BY <1>1 DEF SonsEnd
<1>3. PICK height \in [Node -> 0 .. N] : \A p \in Node : \A m \in Kids(t, p) : height[m] < height[p]
  BY <1>2
<1>. DEFINE G == {m \in Node : \A x \in Downward(t, m) \cap Node : Kids(t, x) \subseteq Downward(t, m)}
<1>4. ASSUME NEW m \in Node, \A y \in Node : height[y] < height[m] => y \in G PROVE m \in G
  <2>. SUFFICES ASSUME NEW x \in Downward(t, m) \cap Node PROVE Kids(t, x) \subseteq Downward(t, m)
    OBVIOUS
  <2>1. /\ Under(t, m) = UNION {Downward(t, j) : j \in Kids(t, m)}
        /\ Kids(t, m) \subseteq Node
    BY DownwardIs
  <2>2. CASE x = m
    <3>1. \A j \in Kids(t, m) : j \in Downward(t, j)
      BY DEF Downward
    <3>2. Kids(t, m) \subseteq Under(t, m)
      BY <2>1, <3>1
    <3>. QED  BY <2>2, <3>2 DEF Downward
  <2>3. CASE x # m
    <3>1. PICK j \in Kids(t, m) : x \in Downward(t, j)
      BY <2>1, <2>3 DEF Downward
    <3>2. j \in G
      BY <1>3, <1>4, <2>1
    <3>3. Kids(t, x) \subseteq Downward(t, j)
      BY <3>1, <3>2
    <3>4. Downward(t, j) \subseteq Under(t, m)
      BY <2>1
    <3>. QED  BY <3>3, <3>4 DEF Downward
  <2>. QED  BY <2>2, <2>3
<1>5. Repairs!Inherited(G, Node, height)
  BY <1>4 DEF Repairs!Inherited
<1>. HIDE DEF G
<1>6. Node \subseteq G
  BY <1>5, Repairs!RankInduction
<1>. QED  BY <1>6 DEF G

\* What is below a node is in the tree, and above it is the node.
LEMMA BelowHasAbove ==
  ASSUME NEW t, Agree(t), NEW n \in t.cached
  PROVE  Downward(t, n) \subseteq {q \in t.cached : n \in Upward(t, q)}
<1>1. SonsEnd(t) /\ t \in Tree /\ ParentsEnd(t)
  BY AgreeEnds DEF Agree
<1>2. PICK N \in Nat : \E height \in [Node -> 0 .. N] :
        \A p \in Node : \A m \in Kids(t, p) : height[m] < height[p]
  BY <1>1 DEF SonsEnd
<1>3. PICK height \in [Node -> 0 .. N] : \A p \in Node : \A m \in Kids(t, p) : height[m] < height[p]
  BY <1>2
<1>. DEFINE G == {m \in Node : m \in t.cached =>
                    \A q \in Downward(t, m) : q \in t.cached /\ m \in Upward(t, q)}
<1>4. ASSUME NEW m \in Node, \A y \in Node : height[y] < height[m] => y \in G PROVE m \in G
  <2>. SUFFICES ASSUME m \in t.cached, NEW q \in Downward(t, m)
                PROVE  q \in t.cached /\ m \in Upward(t, q)
    OBVIOUS
  <2>1. /\ Under(t, m) = UNION {Downward(t, j) : j \in Kids(t, m)}
        /\ Kids(t, m) \subseteq Node /\ Kids(t, m) \subseteq t.cached /\ t.cached \subseteq Node
    BY DownwardIs
  <2>2. CASE q = m
    BY <2>2 DEF Upward
  <2>3. CASE q # m
    <3>1. PICK j \in Kids(t, m) : q \in Downward(t, j)
      BY <2>1, <2>3 DEF Downward
    <3>2. j \in G /\ j \in t.cached
      BY <1>3, <1>4, <2>1
    <3>3. q \in t.cached /\ j \in Upward(t, q)
      BY <3>1, <3>2
    <3>4. t.parent[j] = m /\ m # Root
      BY TreeAssumption DEF Agree
    <3>5. m \in Upward(t, q)
      BY <1>1, <2>1, <3>3, <3>4, UpwardCloses
    <3>. QED  BY <3>3, <3>5
  <2>. QED  BY <2>2, <2>3
<1>5. Repairs!Inherited(G, Node, height)
  BY <1>4 DEF Repairs!Inherited
<1>. HIDE DEF G
<1>6. Node \subseteq G
  BY <1>5, Repairs!RankInduction
<1>7. n \in Node
  BY DownwardIs
<1>. QED  BY <1>6, <1>7 DEF G

\* A node is below what is above it.
LEMMA AboveHasBelow ==
  ASSUME NEW t, Agree(t), NEW q \in t.cached, NEW n \in Upward(t, q)
  PROVE  n \in t.cached /\ q \in Downward(t, n)
<1>1. t \in Tree /\ ParentsEnd(t) /\ t.cached \subseteq Node
  BY DEF Agree, Tree
<1>. DEFINE S == {x \in t.cached : q \in Downward(t, x)}
<1>2. q \in S
  BY DEF Downward
<1>3. ASSUME NEW x \in S \cap Node, t.parent[x] # Root PROVE t.parent[x] \in S
  <2>1. t.parent[x] \in t.cached /\ x \in Kids(t, t.parent[x])
    BY <1>3 DEF Agree, Tree
  <2>2. /\ Under(t, t.parent[x]) = UNION {Downward(t, j) : j \in Kids(t, t.parent[x])}
        /\ t.parent[x] \in Node
    BY <1>1, <2>1, DownwardIs
  <2>3. q \in Under(t, t.parent[x])
    BY <2>1, <2>2
  <2>. QED  BY <2>1, <2>3 DEF Downward
<1>. HIDE DEF S
<1>4. Upward(t, q) \subseteq S
  BY <1>1, <1>2, <1>3, UpwardLeast
<1>. QED  BY <1>4 DEF S

\* All nodes are below the root.
LEMMA AllUnderRoot ==
  ASSUME NEW t, Agree(t)
  PROVE  Under(t, Root) = t.cached
<1>1. t \in Tree /\ ParentsEnd(t) /\ t.cached \subseteq Node
  BY DEF Agree, Tree
<1>2. /\ Under(t, Root) = UNION {Downward(t, k) : k \in Kids(t, Root)}
      /\ Kids(t, Root) \subseteq t.cached
  BY DownwardIs
<1>3. Under(t, Root) \subseteq t.cached
  <2>1. \A k \in Kids(t, Root) : Downward(t, k) \subseteq t.cached
    BY <1>2, BelowHasAbove
  <2>. QED  BY <1>2, <2>1
<1>4. ASSUME NEW q \in t.cached PROVE q \in Under(t, Root)
  <2>1. PICK x \in Upward(t, q) : t.parent[x] = Root
    <3>1. SUFFICES ASSUME \A x \in Upward(t, q) : t.parent[x] # Root PROVE FALSE
      OBVIOUS
    <3>2. PICK N \in Nat : \E depth \in [Node -> 0 .. N] :
            \A m \in Node : t.parent[m] # Root => depth[t.parent[m]] < depth[m]
      BY <1>1 DEF ParentsEnd
    <3>3. PICK depth \in [Node -> 0 .. N] :
            \A m \in Node : t.parent[m] # Root => depth[t.parent[m]] < depth[m]
      BY <3>2
    <3>. DEFINE S == {depth[x] : x \in Upward(t, q)}
    <3>4. Upward(t, q) \subseteq Node /\ q \in Upward(t, q)
      BY <1>1, UpwardIs DEF Upward
    <3>5. S \in SUBSET Nat /\ S # {}
      BY <3>4
    <3>6. PICK d \in S : \A e \in S : d <= e
      BY <3>5, Repairs!LeastNumber
    <3>7. PICK x \in Upward(t, q) : d = depth[x]
      OBVIOUS
    <3>8. t.parent[x] \in Upward(t, q) /\ x \in Node /\ t.parent[x] \in Node
      BY <1>1, <3>1, <3>4, UpwardCloses, UpwardIs
    <3>9. depth[t.parent[x]] \in S /\ depth[t.parent[x]] < depth[x]
      BY <3>1, <3>3, <3>8
    <3>. HIDE DEF S
    <3>10. depth[x] \in Nat /\ depth[t.parent[x]] \in Nat
      BY <3>8
    <3>. QED  BY <3>6, <3>7, <3>9, <3>10
  <2>2. x \in t.cached /\ q \in Downward(t, x)
    BY AboveHasBelow
  <2>3. x \in Kids(t, Root)
    BY <2>1, <2>2 DEF Agree
  <2>. QED  BY <1>2, <2>2, <2>3
<1>. QED  BY <1>3, <1>4

\* What is below a node are the nodes whose parent is the node or below it.
LEMMA UnderIs ==
  ASSUME NEW t, Agree(t), NEW n \in Node \cup {Root}
  PROVE  /\ Under(t, n) = {k \in t.cached : t.parent[k] \in {n} \cup Under(t, n)}
         /\ n \notin Under(t, n)
<1>1. t \in Tree /\ t.cached \subseteq Node
  BY DEF Agree, Tree
<1>2. CASE n = Root
  <2>1. Under(t, Root) = t.cached
    BY AllUnderRoot
  <2>2. \A k \in t.cached : t.parent[k] \in {Root} \cup t.cached
    BY DEF Agree
  <2>. QED  BY <1>1, <1>2, <2>1, <2>2, TreeAssumption
<1>3. CASE n \in Node
  <2>1. PICK N \in Nat : \E depth \in [Node -> 0 .. N] :
          \A m \in Node : t.parent[m] # Root => depth[t.parent[m]] < depth[m]
    BY DEF ParentsEnd, Agree
  <2>2. PICK depth \in [Node -> 0 .. N] :
          \A m \in Node : t.parent[m] # Root => depth[t.parent[m]] < depth[m]
    BY <2>1
  <2>. DEFINE height == [m \in Node |-> N - depth[m]]
              Deep(m, x) == x \in t.cached /\ depth[m] < depth[x] /\ t.parent[x] \in Downward(t, m)
              G == {m \in Node : \A x \in Under(t, m) : Deep(m, x)}
  <2>3. ASSUME NEW m \in Node, \A y \in Node : height[y] < height[m] => y \in G PROVE m \in G
    <3>. SUFFICES ASSUME NEW x \in Under(t, m) PROVE Deep(m, x)
      OBVIOUS
    <3>1. /\ Under(t, m) = UNION {Downward(t, k) : k \in Kids(t, m)}
          /\ Kids(t, m) \subseteq Node
      BY DownwardIs
    <3>2. PICK k \in Kids(t, m) : x \in Downward(t, k)
      BY <3>1
    <3>3. k \in t.cached /\ t.parent[k] = m /\ k \in Node
      BY <3>1 DEF Agree
    <3>4. depth[m] < depth[k]
      BY <2>2, <3>3, TreeAssumption
    <3>5. Downward(t, k) \subseteq Downward(t, m)
      BY <3>1 DEF Downward
    <3>6. CASE x = k
      BY <3>3, <3>4, <3>6 DEF Downward
    <3>7. CASE x # k
      <4>1. height[k] < height[m]
        BY <3>3, <3>4
      <4>2. k \in G
        BY <2>3, <3>3, <4>1
      <4>3. Deep(k, x)
        BY <3>2, <3>7, <4>2 DEF Downward
      <4>4. depth[m] \in Nat /\ depth[k] \in Nat /\ depth[x] \in Nat
        BY <1>1, <3>3, <4>3
      <4>. QED  BY <3>4, <3>5, <4>3, <4>4
    <3>. QED  BY <3>6, <3>7
  <2>4. Repairs!Inherited(G, Node, height)
    <3>1. height \in [Node -> Nat]
      OBVIOUS
    <3>. HIDE DEF G, height
    <3>. QED  BY <2>3, <3>1 DEF Repairs!Inherited
  <2>. HIDE DEF G, height
  <2>5. Node \subseteq G
    BY <2>4, Repairs!RankInduction
  <2>6. \A x \in Under(t, n) : Deep(n, x)
    BY <1>3, <2>5 DEF G
  <2>7. n \notin Under(t, n)
    <3>1. depth[n] \in Nat
      BY <1>3
    <3>. QED  BY <2>6, <3>1
  <2>8. ASSUME NEW k \in t.cached, t.parent[k] \in {n} \cup Under(t, n)
        PROVE  k \in Under(t, n)
    <3>. DEFINE x == t.parent[k]
    <3>1. x \in Downward(t, n)
      BY <2>8 DEF Downward
    <3>2. x \in Node
      BY <1>1, <1>3, <2>6, <2>8
    <3>3. k \in Kids(t, x)
      BY <3>2 DEF Agree
    <3>. HIDE DEF x
    <3>4. k \in Downward(t, n)
      BY <1>3, <3>1, <3>2, <3>3, DownwardCloses
    <3>5. k # n
      <4>1. depth[n] < depth[k]
        <5>1. depth[x] < depth[k]
          BY <1>1, <2>2, <3>2, TreeAssumption DEF x
        <5>2. x = n \/ depth[n] < depth[x]
          BY <2>6, <3>1 DEF Downward
        <5>3. depth[n] \in Nat /\ depth[x] \in Nat /\ depth[k] \in Nat
          BY <1>1, <1>3, <3>2
        <5>. QED  BY <5>1, <5>2, <5>3
      <4>2. depth[n] \in Nat
        BY <1>3
      <4>. QED  BY <4>1, <4>2
    <3>. QED  BY <3>4, <3>5 DEF Downward
  <2>. HIDE DEF height
  <2>. QED  BY <2>6, <2>7, <2>8 DEF Downward
<1>. QED  BY <1>2, <1>3

\* The lists along which checking goes.
LEMMA Lists ==
  ASSUME NEW t, Agree(t), NEW n \in Node
  PROVE  /\ Below(t, n) \o <<n>> \in Seq(Node) /\ Range(Below(t, n) \o <<n>>) = Downward(t, n)
         /\ <<n>> \o Above(t, n) \in Seq(Node) /\ Range(<<n>> \o Above(t, n)) = Upward(t, n)
<1>1. Below(t, n) \in Seq(Node) /\ Above(t, n) \in Seq(Node)
  BY AgreeEnds, BelowIs, AboveIs DEF Agree
<1>. DEFINE b == Below(t, n)
            a == Above(t, n)
<1>2. Downward(t, n) = Range(b) \cup {n} /\ Upward(t, n) = Range(a) \cup {n}
  BY DEF Downward, Upward, Under
<1>. HIDE DEF a, b
<1>3. a \in Seq(Node) /\ b \in Seq(Node)
  BY <1>1 DEF a, b
<1>4. b \o <<n>> \in Seq(Node) /\ Range(b \o <<n>>) = Range(b) \cup {n}
  BY <1>3, Joined
<1>5. <<n>> \o a \in Seq(Node) /\ Range(<<n>> \o a) = Range(a) \cup {n}
  BY <1>3, Joined
<1>. QED  BY <1>2, <1>4, <1>5 DEF a, b

\* Nothing is below two brothers.
LEMMA SonsApart ==
  ASSUME NEW t, Agree(t), NEW p \in Node \cup {Root}, NEW k \in Kids(t, p), NEW j \in Kids(t, p),
         Downward(t, k) \cap Downward(t, j) # {}
  PROVE  k = j
<1>1. t \in Tree /\ ParentsEnd(t) /\ t.cached \subseteq Node
  BY DEF Agree, Tree
<1>2. PICK N \in Nat : \E depth \in [Node -> 0 .. N] :
        \A m \in Node : t.parent[m] # Root => depth[t.parent[m]] < depth[m]
  BY <1>1 DEF ParentsEnd
<1>3. PICK depth \in [Node -> 0 .. N] :
        \A m \in Node : t.parent[m] # Root => depth[t.parent[m]] < depth[m]
  BY <1>2
<1>4. \A c \in Kids(t, p) : c \in t.cached /\ t.parent[c] = p /\ c \in Node
  BY <1>1 DEF Agree
<1>5. \A c \in Kids(t, p) : p \notin Downward(t, c)
  <2>1. Under(t, p) = UNION {Downward(t, c) : c \in Kids(t, p)} /\ p \notin Under(t, p)
    BY DownwardIs, UnderIs
  <2>. QED  BY <2>1
<1>. DEFINE Both(x) == x \in Downward(t, k) /\ x \in Downward(t, j)
            G == {x \in Node : Both(x) => k = j}
<1>6. ASSUME NEW x \in Node, \A y \in Node : depth[y] < depth[x] => y \in G PROVE x \in G
  <2>. SUFFICES ASSUME Both(x), k # j PROVE FALSE
    OBVIOUS
  <2>1. \A c \in Kids(t, p) : x \in Downward(t, c) /\ x # c =>
                                x \in t.cached /\ t.parent[x] \in Downward(t, c)
    <3>. SUFFICES ASSUME NEW c \in Kids(t, p), x \in Downward(t, c), x # c
                  PROVE  x \in t.cached /\ t.parent[x] \in Downward(t, c)
      OBVIOUS
    <3>1. Under(t, c) = {q \in t.cached : t.parent[q] \in {c} \cup Under(t, c)}
      BY <1>4, UnderIs
    <3>. QED  BY <3>1 DEF Downward
  <2>2. CASE x = k
    <3>1. t.parent[x] = p /\ p \in Downward(t, j)
      BY <1>4, <2>1, <2>2
    <3>. QED  BY <1>5, <3>1
  <2>3. CASE x = j
    <3>1. t.parent[x] = p /\ p \in Downward(t, k)
      BY <1>4, <2>1, <2>3
    <3>. QED  BY <1>5, <3>1
  <2>4. CASE x # k /\ x # j
    <3>1. Both(t.parent[x])
      BY <2>1, <2>4
    <3>2. t.parent[x] \in Node
      <4>1. Downward(t, k) \subseteq Node
        BY <1>1, <1>4, BelowHasAbove
      <4>. QED  BY <3>1, <4>1
    <3>3. t.parent[x] \in G
      BY <1>3, <1>6, <3>2, TreeAssumption
    <3>. QED  BY <3>1, <3>3
  <2>. QED  BY <2>2, <2>3, <2>4
<1>7. Repairs!Inherited(G, Node, depth)
  BY <1>6 DEF Repairs!Inherited
<1>. HIDE DEF G
<1>8. Node \subseteq G
  BY <1>7, Repairs!RankInduction
<1>9. PICK x \in Downward(t, k) : x \in Downward(t, j)
  OBVIOUS
<1>10. x \in Node
  <2>1. Downward(t, k) \subseteq Node
    BY <1>1, <1>4, BelowHasAbove
  <2>. QED  BY <2>1
<1>. QED  BY <1>8, <1>9, <1>10 DEF G

\* The walk over the nodes below a node meets each of them once.
THEOREM BelowOnce ==
  ASSUME NEW t, Agree(t), NEW n \in Node \cup {Root}
  PROVE  IsInjective(Below(t, n))
<1>1. t \in Tree /\ SonsEnd(t) /\ t.cached \subseteq Node
  BY AgreeEnds DEF Agree, Tree
<1>2. PICK N \in Nat : \E height \in [Node -> 0 .. N] :
        \A p \in Node : \A m \in Kids(t, p) : height[m] < height[p]
  BY <1>1 DEF SonsEnd
<1>3. PICK height \in [Node -> 0 .. N] : \A p \in Node : \A m \in Kids(t, p) : height[m] < height[p]
  BY <1>2
<1>4. ASSUME NEW p \in Node \cup {Root}, \A k \in Kids(t, p) : IsInjective(Below(t, k))
      PROVE  IsInjective(Below(t, p))
  <2>. DEFINE s == t.kids[p]
              q == [i \in DOMAIN s |-> Below(t, s[i]) \o <<s[i]>>]
  <2>1. /\ Len(s) \in Nat /\ DOMAIN s = 1 .. Len(s)
        /\ \A i \in 1 .. Len(s) : s[i] \in Kids(t, p) /\ s[i] \in Node
    BY <1>1, KidsAre
  <2>2. \A i, j \in 1 .. Len(s) : s[i] = s[j] => i = j
    BY <2>1 DEF Agree, IsInjective
  <2>3. Below(t, p) = FlattenSeq(q)
    BY <1>1, BelowIs
  <2>. HIDE DEF s
  <2>4. ASSUME NEW k \in Kids(t, p), k \in Node
        PROVE  LET w == Below(t, k) \o <<k>> IN
               w \in Seq(Node) /\ Range(w) = Downward(t, k) /\ IsInjective(w)
    <3>. DEFINE b == Below(t, k)
    <3>1. b \in Seq(Node) /\ IsInjective(b) /\ k \notin Range(b)
      BY <1>1, <1>4, <2>4, BelowIs, UnderIs DEF Under
    <3>2. b \o <<k>> \in Seq(Node) /\ Range(b \o <<k>>) = Downward(t, k)
      BY <2>4, Lists
    <3>. HIDE DEF b
    <3>3. -1 \in Int /\ -1 < Len(b) /\ Put(b, -1, k) = b \o <<k>>
      BY <3>1 DEF Put
    <3>4. IsInjective(Put(b, -1, k))
      BY <2>4, <3>1, <3>3, PutIs
    <3>. QED  BY <3>2, <3>3, <3>4 DEF b
  <2>5. /\ q \in [1 .. Len(s) -> Seq(Node)]
        /\ \A i \in 1 .. Len(s) : Range(q[i]) = Downward(t, s[i]) /\ IsInjective(q[i])
    BY <2>1, <2>4
  <2>. HIDE DEF q
  <2>6. q \in Seq(Seq(Node)) /\ Len(q) = Len(s)
    BY <2>1, <2>5
  <2>7. Apart(q)
    <3>1. ASSUME NEW i \in 1 .. Len(s), NEW j \in 1 .. Len(s), i # j
          PROVE  Range(q[i]) \cap Range(q[j]) = {}
      <4>1. s[i] # s[j]
        BY <2>2, <3>1
      <4>2. s[i] \in Kids(t, p) /\ s[j] \in Kids(t, p)
        BY <2>1
      <4>3. Downward(t, s[i]) \cap Downward(t, s[j]) = {}
        BY <4>1, <4>2, SonsApart
      <4>. QED  BY <2>5, <4>3
    <3>. QED  BY <2>5, <2>6, <3>1 DEF Apart
  <2>. QED  BY <2>3, <2>6, <2>7, Flattened
<1>. DEFINE G == {m \in Node : IsInjective(Below(t, m))}
<1>5. ASSUME NEW m \in Node, \A y \in Node : height[y] < height[m] => y \in G PROVE m \in G
  <2>1. \A k \in Kids(t, m) : IsInjective(Below(t, k))
    BY <1>1, <1>3, <1>5, KidsAre
  <2>. QED  BY <1>4, <2>1
<1>6. Repairs!Inherited(G, Node, height)
  BY <1>5 DEF Repairs!Inherited
<1>. HIDE DEF G
<1>7. Node \subseteq G
  BY <1>6, Repairs!RankInduction
<1>8. \A k \in Kids(t, n) : IsInjective(Below(t, k))
  BY <1>1, <1>7, KidsAre DEF G
<1>. QED  BY <1>4, <1>8

\* A step that leaves the nodes, their sons and their parents alone.
Family3 == {"kids", "parent", "cached"}

LEMMA AgreeStays ==
  ASSUME NEW t, Agree(t), NEW F, F \cap Family3 = {}, NEW u \in Differ(t, F)
  PROVE  /\ Agree(u)
         /\ u.cached = t.cached /\ u.kids = t.kids /\ u.parent = t.parent
         /\ \A n \in Node : Above(u, n) = Above(t, n) /\ Upward(u, n) = Upward(t, n)
         /\ \A n \in Node \cup {Root} : Below(u, n) = Below(t, n)
         /\ \A n \in Node : Downward(u, n) = Downward(t, n)
<1>1. u.cached = t.cached /\ u.kids = t.kids /\ u.parent = t.parent /\ u \in Tree
  BY DEF Differ, Fields, Family3
<1>2. Agree(u)
  BY <1>1 DEF Agree, ParentsEnd, Kids
<1>. DEFINE Climb(parent, n) == LET up[m \in Node] == IF parent[m] = Root THEN <<>>
                                                      ELSE <<parent[m]>> \o up[parent[m]]
                                IN  up[n]
            Descend(kids, n) ==
              LET post[m \in Node] ==
                    FlattenSeq([i \in DOMAIN kids[m] |-> post[kids[m][i]]]) \o <<m>>
              IN  FlattenSeq([i \in DOMAIN kids[n] |-> post[kids[n][i]]])
<1>3. /\ \A n \in Node : Above(u, n) = Climb(u.parent, n) /\ Above(t, n) = Climb(t.parent, n)
      /\ \A n \in Node \cup {Root} : Below(u, n) = Descend(u.kids, n) /\ Below(t, n) = Descend(t.kids, n)
  BY DEF Above, Below
<1>. HIDE DEF Climb, Descend
<1>4. /\ \A n \in Node : Above(u, n) = Above(t, n)
      /\ \A n \in Node \cup {Root} : Below(u, n) = Below(t, n)
  BY <1>1, <1>3
<1>. QED  BY <1>1, <1>2, <1>4 DEF Upward, Downward, Under

-----------------------------------------------------------------------------
(* Checking.                                                               *)

LEMMA RepairParentDiffers ==
  ASSUME NEW t \in Tree, ParentsEnd(t), NEW n \in Node
  PROVE  /\ RepairParentChkClass(t, n) \in Differ(t, Drawn)
         /\ RepairParentChkClassWithSelf(t, n) \in Differ(t, Drawn)
<1>1. ASSUME NEW u \in Differ(t, Drawn)
      PROVE  RepairParentChkClass(u, n) \in Differ(t, Drawn)
  <2>. DEFINE T == Differ(t, Drawn)
              s == Above(u, n)
  <2>1. u \in Tree /\ ParentsEnd(u)
    BY DEF Differ, ParentsEnd, Fields, Drawn
  <2>2. s \in Seq(Node)
    BY <2>1, AboveIs
  <2>3. \A w \in T : \A m \in Node : RepairBox(w, m, 0) \in T
    <3>. SUFFICES ASSUME NEW w \in T, NEW m \in Node PROVE RepairChkClass(w, m) \in T
      BY DEF RepairBox
    <3>1. w \in Tree
      BY DEF Differ
    <3>2. RepairChkClass(w, m) \in Differ(w, Drawn)
      BY <3>1, RepairDiffers
    <3>. QED  BY <3>2, DifferChain
  <2>4. RepairParentChkClass(u, n) = Repairs!Along(u, s, 0)
    BY DEF RepairParentChkClass, Each, Repairs!Along, RepairBox
  <2>. HIDE DEF s, T
  <2>5. u \in T
    BY DEF T
  <2>6. Repairs!Keeps(Node, T, 0)
    BY <2>3 DEF Repairs!Keeps
  <2>. QED  BY <2>2, <2>4, <2>5, <2>6, Repairs!AlongStays DEF T
<1>2. t \in Differ(t, Drawn) /\ RepairChkClass(t, n) \in Differ(t, Drawn)
  BY RepairDiffers, DifferNot
<1>. QED  BY <1>1, <1>2 DEF RepairParentChkClassWithSelf

Checks == {"checked", "state", "box"}

\* S with the nodes of D, or without them.
Marked(S, D, v) == IF v THEN S \cup D ELSE S \ D

LEMMA SetSonBoxChecks ==
  ASSUME NEW t \in Tree, NEW n \in Node, NEW v \in BOOLEAN
  PROVE  /\ SetSonBox(t, n, v) \in Differ(t, Checks)
         /\ SetSonBox(t, n, v).checked = Marked(t.checked, {n} \ Fixed(t), v)
<1>. DEFINE hasDisable == Kids(t, n) \cap t.disabled # {}
            flagged == IF hasDisable /\ n \notin t.nocheck THEN MakeChkFlag(t, n) ELSE t
            s == CASE n \in t.nocheck -> -1
                   [] n \notin t.nocheck /\ hasDisable -> flagged.state[n]
                   [] OTHER -> IF ~HasKids(t, n) THEN -1 ELSE IF v THEN 2 ELSE 0
            c == IF n \in t.nocheck THEN flagged.checked ELSE Assign(flagged.checked, n, v)
            u == [flagged EXCEPT !.checked = c, !.state[n] = s]
<1>1. flagged \in Differ(t, {"state"})
  BY MakeChkFlagDiffers, DifferNot
<1>2. flagged \in Tree /\ flagged.checked = t.checked
  BY <1>1 DEF Differ, Fields
<1>. HIDE DEF flagged, hasDisable
<1>3. s \in -1 .. 2
  <2>1. flagged.state[n] \in -1 .. 2
    BY <1>2 DEF Tree
  <2>2. CASE n \in t.nocheck
    BY <2>2
  <2>3. CASE n \notin t.nocheck /\ hasDisable
    BY <2>1, <2>3
  <2>4. CASE n \notin t.nocheck /\ ~hasDisable
    BY <2>4
  <2>. QED  BY <2>2, <2>3, <2>4
<1>4. c \in SUBSET Node /\ (n \notin t.disabled => c = Marked(t.checked, {n} \ Fixed(t), v))
  <2>1. CASE n \in t.nocheck
    <3>1. {n} \ Fixed(t) = {} /\ c = t.checked
      BY <1>2, <2>1 DEF Fixed
    <3>. QED  BY <3>1 DEF Tree, Marked
  <2>2. CASE n \notin t.nocheck
    <3>1. c = Assign(t.checked, n, v) /\ c \in SUBSET Node
      BY <1>2, <2>2 DEF Assign, Tree
    <3>2. n \notin t.disabled => {n} \ Fixed(t) = {n}
      BY <2>2 DEF Fixed
    <3>. QED  BY <3>1, <3>2 DEF Assign, Marked
  <2>. QED  BY <2>1, <2>2
<1>. HIDE DEF s, c
<1>5. u \in Differ(flagged, {"checked", "state"}) /\ u.checked = c
  BY <1>2, <1>3, <1>4 DEF Tree, Differ, Fields
<1>6. u \in Tree /\ u \in Differ(t, {"checked", "state"})
  BY <1>1, <1>5 DEF Differ
<1>. HIDE DEF u
<1>7. SetChkClass(u, n) \in Differ(u, {"box"})
  BY <1>6, SetChkClassDiffers
<1>8. SetChkClass(u, n) \in Differ(t, Checks) /\ SetChkClass(u, n).checked = c
  BY <1>5, <1>6, <1>7 DEF Differ, Checks, Fields
<1>9. CASE n \in t.disabled
  <2>1. SetSonBox(t, n, v) = t
    BY <1>9 DEF SetSonBox
  <2>2. {n} \ Fixed(t) = {}
    BY <1>9 DEF Fixed
  <2>. QED  BY <2>1, <2>2, DifferNot DEF Marked
<1>10. CASE n \notin t.disabled
  <2>1. SetSonBox(t, n, v) = SetChkClass(u, n)
    BY <1>10 DEF SetSonBox, u, c, s, flagged, hasDisable
  <2>. QED  BY <1>4, <1>8, <1>10, <2>1
<1>. QED  BY <1>9, <1>10

\* A walk along a list of nodes that marks one after the other.
Marks(q, t, s, v) == /\ Len(s) \in Nat /\ q \in [0 .. Len(s) -> Differ(t, Checks)] /\ q[0] = t
                     /\ \A i \in 1 .. Len(s) :
                          q[i].checked = Marked(q[i - 1].checked, {s[i]} \ Fixed(t), v)

LEMMA MarksAll ==
  ASSUME NEW t \in Tree, NEW s \in Seq(Node), NEW v \in BOOLEAN, NEW q, Marks(q, t, s, v)
  PROVE  /\ q[Len(s)] \in Differ(t, Checks)
         /\ q[Len(s)].checked = Marked(t.checked, Range(s) \ Fixed(t), v)
<1>. DEFINE n == Len(s)
            R(i) == {s[j] : j \in 1 .. i}
            G == {i \in 0 .. n : q[i].checked = Marked(t.checked, R(i) \ Fixed(t), v)}
<1>1. n \in Nat /\ q \in [0 .. n -> Differ(t, Checks)] /\ q[0] = t
  BY DEF Marks
<1>2. 0 \in G
  <2>1. R(0) = {}
    OBVIOUS
  <2>. HIDE DEF R
  <2>2. Marked(t.checked, R(0) \ Fixed(t), v) = t.checked
    BY <2>1 DEF Marked
  <2>. QED  BY <1>1, <2>2
<1>3. ASSUME NEW i \in 1 .. n, i - 1 \in G PROVE i \in G
  <2>1. R(i) = R(i - 1) \cup {s[i]}
    BY <1>1
  <2>2. q[i].checked = Marked(q[i - 1].checked, {s[i]} \ Fixed(t), v)
    BY DEF Marks
  <2>3. q[i - 1].checked = Marked(t.checked, R(i - 1) \ Fixed(t), v)
    BY <1>3
  <2>. DEFINE A == R(i - 1)
              B == R(i)
              e == s[i]
  <2>. HIDE DEF R, e
  <2>4. q[i].checked = Marked(Marked(t.checked, A \ Fixed(t), v), {e} \ Fixed(t), v) /\ B = A \cup {e}
    BY <2>1, <2>2, <2>3 DEF e
  <2>. HIDE DEF A, B
  <2>5. q[i].checked = Marked(t.checked, B \ Fixed(t), v)
    BY <2>4 DEF Marked
  <2>. QED  BY <1>1, <2>5 DEF B
<1>4. n \in G
  <2>1. Repairs!Chained(G, n)
    BY <1>1, <1>2, <1>3 DEF Repairs!Chained
  <2>. HIDE DEF G
  <2>2. 0 .. n \subseteq G
    BY <2>1, Repairs!ListInduction
  <2>. QED  BY <1>1, <2>2
<1>5. R(n) = Range(s) /\ n \in 0 .. n
  BY <1>1 DEF Range
<1>. HIDE DEF R
<1>6. q[n].checked = Marked(t.checked, Range(s) \ Fixed(t), v)
  BY <1>4, <1>5
<1>. HIDE DEF n
<1>7. q[n] \in Differ(t, Checks)
  BY <1>1, <1>5
<1>. QED  BY <1>6, <1>7 DEF n

Checkings == INSTANCE Recursion WITH op <- SetSonBox

\* Checking or unchecking a node with its sons does so for all that is below
\* it, apart from the boxes that are hidden or disabled, and nothing else.
THEOREM SonsFollow ==
  ASSUME NEW t, Agree(t), NEW n \in Node, NEW v \in BOOLEAN
  PROVE  /\ SetSonNodeCheckBox(t, n, v) \in Differ(t, Checks)
         /\ SetSonNodeCheckBox(t, n, v).checked =
              Marked(t.checked, Downward(t, n) \ Fixed(t), v)
<1>. DEFINE T == Differ(t, Checks)
            s == Below(t, n) \o <<n>>
<1>1. s \in Seq(Node) /\ Range(s) = Downward(t, n) /\ t \in Tree
  BY Lists DEF Agree
<1>. HIDE DEF s
<1>2. ASSUME NEW u \in T, NEW m \in Node
      PROVE  /\ SetSonBox(u, m, v) \in T
             /\ SetSonBox(u, m, v).checked = Marked(u.checked, {m} \ Fixed(t), v)
  <2>1. u \in Tree /\ Fixed(u) = Fixed(t)
    BY DEF Differ, Fields, Checks, Fixed
  <2>2. /\ SetSonBox(u, m, v) \in Differ(u, Checks)
        /\ SetSonBox(u, m, v).checked = Marked(u.checked, {m} \ Fixed(u), v)
    BY <2>1, SetSonBoxChecks
  <2>. QED  BY <1>1, <2>1, <2>2, DifferChain
<1>3. t \in T
  BY <1>1, DifferNot
<1>. HIDE DEF T
<1>4. SetSonNodeCheckBox(t, n, v) = Checkings!Along(t, s, v)
  BY DEF SetSonNodeCheckBox, Each, Checkings!Along, s
<1>5. PICK q : Checkings!Path(q, T, t, s, v) /\ Checkings!Along(t, s, v) = q[Len(s)]
  <2>1. Checkings!Keeps(Node, T, v)
    BY <1>2 DEF Checkings!Keeps
  <2>. QED  BY <1>1, <1>3, <2>1, Checkings!AlongPath
<1>6. Marks(q, t, s, v)
  <2>1. /\ Len(s) \in Nat /\ q \in [0 .. Len(s) -> T] /\ q[0] = t
        /\ \A i \in 1 .. Len(s) : q[i] = SetSonBox(q[i - 1], s[i], v)
    BY <1>5 DEF Checkings!Path
  <2>2. ASSUME NEW i \in 1 .. Len(s)
        PROVE  q[i].checked = Marked(q[i - 1].checked, {s[i]} \ Fixed(t), v)
    <3>1. q[i - 1] \in T /\ s[i] \in Node
      BY <1>1, <2>1
    <3>. QED  BY <1>2, <2>1, <3>1
  <2>. QED  BY <2>1, <2>2 DEF Marks, T
<1>7. /\ q[Len(s)] \in Differ(t, Checks)
      /\ q[Len(s)].checked = Marked(t.checked, Range(s) \ Fixed(t), v)
  BY <1>1, <1>6, MarksAll
<1>. QED  BY <1>1, <1>4, <1>5, <1>7

\* One node of setParentNodeCheckBox.
MarkParent(t, n, v) ==
  IF n \in Fixed(t) THEN MakeChkFlag(t, n)
  ELSE SetChkClass([MakeChkFlag(t, n) EXCEPT !.checked = Assign(@, n, v)], n)

LEMMA MarkParentChecks ==
  ASSUME NEW t \in Tree, NEW n \in Node, NEW v \in BOOLEAN
  PROVE  /\ MarkParent(t, n, v) \in Differ(t, Checks)
         /\ MarkParent(t, n, v).checked = Marked(t.checked, {n} \ Fixed(t), v)
<1>. DEFINE w == MakeChkFlag(t, n)
            u == [w EXCEPT !.checked = Assign(@, n, v)]
<1>1. w \in Differ(t, {"state"}) /\ w \in Tree /\ w.checked = t.checked
  BY MakeChkFlagDiffers DEF Differ, Fields
<1>. HIDE DEF w
<1>2. u \in Differ(w, {"checked"}) /\ u \in Tree /\ u.checked = Assign(t.checked, n, v)
  BY <1>1 DEF Tree, Differ, Fields, Assign
<1>. HIDE DEF u
<1>3. SetChkClass(u, n) \in Differ(u, {"box"})
  BY <1>2, SetChkClassDiffers
<1>4. SetChkClass(u, n) \in Differ(t, Checks) /\ SetChkClass(u, n).checked = Assign(t.checked, n, v)
  BY <1>1, <1>2, <1>3 DEF Differ, Checks, Fields
<1>5. w \in Differ(t, Checks)
  BY <1>1 DEF Differ, Checks
<1>6. CASE n \in Fixed(t)
  <2>1. {n} \ Fixed(t) = {}
    BY <1>6
  <2>2. MarkParent(t, n, v) = w
    BY <1>6 DEF MarkParent, w
  <2>. QED  BY <1>1, <1>5, <2>1, <2>2 DEF Marked
<1>7. CASE n \notin Fixed(t)
  <2>1. {n} \ Fixed(t) = {n}
    BY <1>7
  <2>2. MarkParent(t, n, v) = SetChkClass(u, n)
    BY <1>7 DEF MarkParent, u, w
  <2>. QED  BY <1>4, <2>1, <2>2 DEF Marked, Assign
<1>. QED  BY <1>6, <1>7

\* s goes up from n to the first level, a parent after each node.
Ladder(t, n, s) ==
  /\ s \in Seq(Node) /\ Len(s) \in Nat \ {0} /\ s[1] = n
  /\ \A i \in 1 .. Len(s) : i # Len(s) => t.parent[s[i]] # Root /\ s[i + 1] = t.parent[s[i]]
  /\ t.parent[s[Len(s)]] = Root

LEMMA LadderGrows ==
  ASSUME NEW t, NEW n \in Node, t.parent[n] # Root, NEW s, Ladder(t, t.parent[n], s)
  PROVE  Ladder(t, n, <<n>> \o s)
<1>. DEFINE r == <<n>> \o s
            l == Len(s)
<1>1. /\ s \in Seq(Node) /\ l \in Nat \ {0} /\ s[1] = t.parent[n] /\ t.parent[s[l]] = Root
      /\ \A i \in 1 .. l : i # l => t.parent[s[i]] # Root /\ s[i + 1] = t.parent[s[i]]
  BY DEF Ladder
<1>2. /\ r \in Seq(Node) /\ Len(r) = l + 1 /\ r[1] = n
      /\ \A i \in 2 .. l + 1 : r[i] = s[i - 1]
  BY <1>1
<1>. HIDE DEF r, l
<1>3. ASSUME NEW i \in 1 .. l + 1, i # l + 1
      PROVE  t.parent[r[i]] # Root /\ r[i + 1] = t.parent[r[i]]
  <2>1. i + 1 \in 2 .. l + 1 /\ (i + 1) - 1 = i
    BY <1>1, <1>3
  <2>2. r[i + 1] = s[i]
    BY <1>2, <2>1
  <2>3. CASE i = 1
    BY <1>1, <1>2, <2>2, <2>3
  <2>4. CASE i # 1
    <3>1. i \in 2 .. l + 1 /\ i - 1 \in 1 .. l /\ i - 1 # l /\ (i - 1) + 1 = i
      BY <1>1, <1>3, <2>4
    <3>2. r[i] = s[i - 1]
      BY <1>2, <3>1
    <3>3. t.parent[s[i - 1]] # Root /\ s[(i - 1) + 1] = t.parent[s[i - 1]]
      BY <1>1, <3>1
    <3>. QED  BY <2>2, <3>1, <3>2, <3>3
  <2>. QED  BY <2>3, <2>4
<1>4. r[l + 1] = s[l] /\ l + 1 \in Nat \ {0}
  <2>1. l + 1 \in 2 .. l + 1 /\ (l + 1) - 1 = l
    BY <1>1
  <2>2. r[l + 1] = s[(l + 1) - 1]
    BY <1>2, <2>1
  <2>. QED  BY <1>1, <2>1, <2>2
<1>. QED  BY <1>1, <1>2, <1>3, <1>4 DEF Ladder, r

LEMMA PathUp ==
  ASSUME NEW t \in Tree, ParentsEnd(t), NEW n \in Node
  PROVE  Ladder(t, n, <<n>> \o Above(t, n))
<1>1. PICK N \in Nat : \E depth \in [Node -> 0 .. N] :
        \A m \in Node : t.parent[m] # Root => depth[t.parent[m]] < depth[m]
  BY DEF ParentsEnd
<1>2. PICK depth \in [Node -> 0 .. N] :
        \A m \in Node : t.parent[m] # Root => depth[t.parent[m]] < depth[m]
  BY <1>1
<1>. DEFINE G == {m \in Node : Ladder(t, m, <<m>> \o Above(t, m))}
<1>3. ASSUME NEW m \in Node, \A y \in Node : depth[y] < depth[m] => y \in G PROVE m \in G
  <2>1. CASE t.parent[m] = Root
    <3>1. Above(t, m) = <<>>
      BY <2>1, AboveIs
    <3>. DEFINE s == <<m>> \o Above(t, m)
    <3>2. s \in Seq(Node) /\ Len(s) = 1 /\ s[1] = m
      BY <3>1
    <3>. HIDE DEF s
    <3>3. Ladder(t, m, s)
      BY <2>1, <3>2 DEF Ladder
    <3>. QED  BY <3>3 DEF s
  <2>2. CASE t.parent[m] # Root
    <3>. DEFINE p == t.parent[m]
                w == Above(t, p)
    <3>1. p \in Node /\ Above(t, m) = <<p>> \o w
      BY <2>2, AboveIs
    <3>2. depth[p] < depth[m]
      BY <1>2, <2>2
    <3>3. Ladder(t, p, <<p>> \o w)
      BY <1>3, <3>1, <3>2
    <3>. DEFINE q == <<p>> \o w
    <3>. HIDE DEF q, w
    <3>4. Ladder(t, m, <<m>> \o q)
      BY <2>2, <3>3, LadderGrows DEF q
    <3>. QED  BY <3>1, <3>4 DEF q
  <2>. QED  BY <2>1, <2>2
<1>4. Repairs!Inherited(G, Node, depth)
  BY <1>3 DEF Repairs!Inherited
<1>. HIDE DEF G
<1>5. Node \subseteq G
  BY <1>4, Repairs!RankInduction
<1>. QED  BY <1>5 DEF G

\* It meets no node twice.
LEMMA LadderApart ==
  ASSUME NEW t \in Tree, ParentsEnd(t), NEW n, NEW s, Ladder(t, n, s),
         NEW i \in 1 .. Len(s), NEW j \in 1 .. i
  PROVE  s[j] # t.parent[s[i]]
<1>1. PICK N \in Nat : \E depth \in [Node -> 0 .. N] :
        \A m \in Node : t.parent[m] # Root => depth[t.parent[m]] < depth[m]
  BY DEF ParentsEnd
<1>2. PICK depth \in [Node -> 0 .. N] :
        \A m \in Node : t.parent[m] # Root => depth[t.parent[m]] < depth[m]
  BY <1>1
<1>. DEFINE l == Len(s)
            G == {k \in 0 .. l : k >= j => depth[s[k]] <= depth[s[j]]}
<1>3. /\ l \in Nat /\ \A k \in 1 .. l : s[k] \in Node
      /\ \A k \in 1 .. l : k # l => t.parent[s[k]] # Root /\ s[k + 1] = t.parent[s[k]]
  BY DEF Ladder
<1>. HIDE DEF l
<1>4. i \in 1 .. l /\ j \in 1 .. i /\ j \in 1 .. l
  BY <1>3 DEF l
<1>5. \A m \in Node : depth[m] \in Int
  OBVIOUS
<1>6. ASSUME NEW k \in 1 .. l, k - 1 \in G PROVE k \in G
  <2>. SUFFICES ASSUME k >= j PROVE depth[s[k]] <= depth[s[j]]
    BY <1>3
  <2>1. CASE k = j
    BY <1>3, <1>4, <1>5, <2>1
  <2>2. CASE k # j
    <3>1. k - 1 \in 1 .. l /\ k - 1 # l /\ (k - 1) + 1 = k /\ k - 1 >= j
      BY <1>3, <1>4, <2>2
    <3>2. t.parent[s[k - 1]] # Root /\ s[k] = t.parent[s[k - 1]] /\ s[k - 1] \in Node
      BY <1>3, <3>1
    <3>3. depth[s[k]] < depth[s[k - 1]]
      BY <1>2, <3>2
    <3>4. depth[s[k - 1]] <= depth[s[j]]
      BY <1>6, <3>1
    <3>5. depth[s[k]] \in Int /\ depth[s[k - 1]] \in Int /\ depth[s[j]] \in Int
      BY <1>3, <1>4, <1>5, <3>2
    <3>. QED  BY ONLY <3>3, <3>4, <3>5
  <2>. QED  BY <2>1, <2>2
<1>7. i \in G
  <2>1. 0 \in G
    BY <1>3, <1>4
  <2>2. Repairs!Chained(G, l)
    BY <1>3, <1>6, <2>1 DEF Repairs!Chained
  <2>. HIDE DEF G
  <2>3. 0 .. l \subseteq G
    BY <2>2, Repairs!ListInduction
  <2>. QED  BY <1>3, <1>4, <2>3
<1>8. depth[s[i]] <= depth[s[j]] /\ s[i] \in Node /\ s[j] \in Node
  BY <1>3, <1>4, <1>7
<1>9. t.parent[s[i]] # Root => depth[t.parent[s[i]]] < depth[s[i]]
  BY <1>2, <1>8
<1>10. s[j] # Root
  BY <1>8, TreeAssumption
<1>. QED  BY <1>5, <1>8, <1>9, <1>10


\* One step of setParentNodeCheckBox, which goes on if v or if no brother keeps
\* the parent checked.
Keeping(u, m) == \E b \in Kids(u, u.parent[m]) :
                   IF b \in Fixed(u) THEN u.state[b] > 0 ELSE b \in u.checked
WalkOn(u, m, v) ==
  IF ~u.go THEN u
  ELSE LET w == MarkParent(u.tree, m, v) IN [tree |-> w, go |-> v \/ ~Keeping(w, m)]

\* u is what it is at, after the first k of s.
Walked(t, s, v, u, k) ==
  /\ k \in 0 .. Len(s) /\ u.tree \in Differ(t, Checks)
  /\ u.tree.checked = Marked(t.checked, {s[j] : j \in 1 .. k} \ Fixed(t), v)
  /\ u.go \/ ~v
  /\ ~v => \A j \in 1 .. k : u.go \/ j # k =>
             Kids(t, t.parent[s[j]]) \cap u.tree.checked \subseteq Fixed(t)
  /\ ~u.go => /\ k # 0
              /\ Kids(t, t.parent[s[k]]) \cap (Fixed(t) \cup u.tree.checked) # {}

LEMMA WalkStep ==
  ASSUME NEW t \in Tree, NEW s \in Seq(Node), NEW v \in BOOLEAN, NEW u, NEW i \in 1 .. Len(s),
         Walked(t, s, v, u, i - 1), u.go
  PROVE  Walked(t, s, v, WalkOn(u, s[i], v), i)
<1>. DEFINE w == MarkParent(u.tree, s[i], v)
            m == s[i]
            k == Keeping(w, m)
            r == [tree |-> w, go |-> v \/ ~k]
            R(j) == {s[h] : h \in 1 .. j}
<1>1. i \in Nat /\ i - 1 \in Nat /\ i \in 0 .. Len(s) /\ m \in Node
  OBVIOUS
<1>2. WalkOn(u, s[i], v) = r
  BY DEF WalkOn
<1>3. u.tree \in Differ(t, Checks) /\ u.tree.checked = Marked(t.checked, R(i - 1) \ Fixed(t), v)
  BY DEF Walked
<1>4. u.tree \in Tree /\ Fixed(u.tree) = Fixed(t)
  BY <1>3 DEF Differ, Fields, Checks, Fixed
<1>5. w \in Differ(u.tree, Checks) /\ w.checked = Marked(u.tree.checked, {m} \ Fixed(t), v)
  BY <1>1, <1>4, MarkParentChecks
<1>. HIDE DEF w
<1>6. w \in Differ(t, Checks)
  BY <1>3, <1>5, DifferChain
<1>7. w \in Tree /\ Fixed(w) = Fixed(t) /\ w.kids = t.kids /\ w.parent = t.parent
  BY <1>6 DEF Differ, Fields, Checks, Fixed
<1>8. R(i) = R(i - 1) \cup {m}
  BY <1>1
<1>. DEFINE A == R(i - 1)
            B == R(i)
<1>9. w.checked = Marked(t.checked, B \ Fixed(t), v)
  <2>1. w.checked = Marked(Marked(t.checked, A \ Fixed(t), v), {m} \ Fixed(t), v) /\ B = A \cup {m}
    BY <1>3, <1>5, <1>8
  <2>. HIDE DEF A, B, m
  <2>. QED  BY <2>1 DEF Marked
<1>10. k <=> \E b \in Kids(t, t.parent[m]) : IF b \in Fixed(t) THEN w.state[b] > 0 ELSE b \in w.checked
  BY <1>7, Zenon DEF Keeping, Kids
<1>. HIDE DEF k
<1>11. r.tree = w /\ (r.go <=> v \/ ~k)
  OBVIOUS
<1>12. ~v => w.checked \subseteq u.tree.checked
  BY <1>5 DEF Marked
<1>13. ASSUME ~v, NEW j \in 1 .. i, r.go \/ j # i
       PROVE  Kids(t, t.parent[s[j]]) \cap w.checked \subseteq Fixed(t)
  <2>1. CASE j = i
    <3>1. ~k
      BY <1>11, <1>13, <2>1
    <3>. QED  BY <1>10, <2>1, <3>1
  <2>2. CASE j # i
    <3>1. j \in 1 .. i - 1
      BY <1>1, <2>2
    <3>2. Kids(t, t.parent[s[j]]) \cap u.tree.checked \subseteq Fixed(t)
      BY <1>13, <3>1 DEF Walked
    <3>. QED  BY <1>12, <1>13, <3>2
  <2>. QED  BY <2>1, <2>2
<1>14. ASSUME ~r.go PROVE Kids(t, t.parent[m]) \cap (Fixed(t) \cup w.checked) # {}
  <2>1. k
    BY <1>11, <1>14
  <2>2. PICK b \in Kids(t, t.parent[m]) : IF b \in Fixed(t) THEN w.state[b] > 0 ELSE b \in w.checked
    BY <1>10, <2>1
  <2>. QED  BY <2>2
<1>15. r.go \/ ~v
  BY <1>11
<1>16. i # 0
  BY <1>1
<1>. HIDE DEF r
<1>17. Walked(t, s, v, r, i)
  BY <1>1, <1>6, <1>9, <1>11, <1>13, <1>14, <1>15, <1>16 DEF Walked
<1>. QED  BY <1>2, <1>17

\* What setParentNodeCheckBox does: it marks the nodes of U, from n up, and if
\* it takes marks away, it goes on from sons that leave none, and stops below a
\* parent that another son keeps.
Climbed(t, n, v, U, w) ==
  /\ n \in U /\ U \subseteq Upward(t, n)
  /\ w \in Differ(t, Checks) /\ w.checked = Marked(t.checked, U \ Fixed(t), v)
  /\ v => U = Upward(t, n)
  /\ \A c \in U : c # n => \E b \in U : t.parent[b] = c
  /\ ~v => \A c \in U : t.parent[c] \in U =>
             Kids(t, t.parent[c]) \cap w.checked \subseteq Fixed(t)
  /\ ~v => \A c \in U : t.parent[c] \notin U \cup {Root} =>
             Kids(t, t.parent[c]) \cap (Fixed(t) \cup w.checked) # {}

LEMMA WalkEnds ==
  ASSUME NEW t \in Tree, ParentsEnd(t), NEW n \in Node, NEW s, Ladder(t, n, s), Range(s) = Upward(t, n),
         NEW v \in BOOLEAN, NEW u, NEW k, Walked(t, s, v, u, k), u.go => k = Len(s)
  PROVE  Climbed(t, n, v, {s[j] : j \in 1 .. k}, u.tree)
<1>. DEFINE U == {s[j] : j \in 1 .. k}
            l == Len(s)
<1>1. /\ l \in Nat \ {0} /\ s[1] = n /\ t.parent[s[l]] = Root
      /\ \A i \in 1 .. l : i # l => t.parent[s[i]] # Root /\ s[i + 1] = t.parent[s[i]]
      /\ DOMAIN s = 1 .. l
  BY DEF Ladder
<1>2. /\ k \in 0 .. l /\ u.tree \in Differ(t, Checks)
      /\ u.tree.checked = Marked(t.checked, U \ Fixed(t), v)
      /\ u.go \/ ~v
      /\ ~v => \A j \in 1 .. k : u.go \/ j # k =>
                 Kids(t, t.parent[s[j]]) \cap u.tree.checked \subseteq Fixed(t)
      /\ ~u.go => /\ k # 0
                  /\ Kids(t, t.parent[s[k]]) \cap (Fixed(t) \cup u.tree.checked) # {}
  BY DEF Walked
<1>3. \A i \in 1 .. l : \A j \in 1 .. i : s[j] # t.parent[s[i]]
  BY LadderApart
<1>. HIDE DEF l
<1>4. k \in 1 .. l /\ (u.go => k = l)
  <2>1. u.go => k = l
    BY DEF l
  <2>2. k # 0 /\ k \in 0 .. l
    BY <1>1, <1>2, <2>1
  <2>. QED  BY ONLY <1>1, <2>1, <2>2
<1>5. n \in U
  BY <1>1, <1>4
<1>6. U \subseteq Range(s) /\ (k = l => U = Range(s))
  <2>1. Range(s) = {s[i] : i \in 1 .. l}
    BY <1>1 DEF Range
  <2>2. 1 .. k \subseteq 1 .. l
    BY <1>1, <1>4
  <2>. QED  BY <2>1, <2>2
<1>7. ASSUME NEW c \in U, c # n PROVE \E b \in U : t.parent[b] = c
  <2>1. PICK j \in 1 .. k : c = s[j]
    OBVIOUS
  <2>2. j # 1
    BY <1>1, <1>7, <2>1
  <2>3. j - 1 \in 1 .. k /\ j - 1 \in 1 .. l /\ j - 1 # l /\ (j - 1) + 1 = j
    BY <1>1, <1>4, <2>2
  <2>4. s[j] = t.parent[s[j - 1]] /\ s[j - 1] \in U
    BY <1>1, <2>3
  <2>. QED  BY <2>1, <2>4
<1>8. ASSUME ~v, NEW c \in U, t.parent[c] \in U
      PROVE  Kids(t, t.parent[c]) \cap u.tree.checked \subseteq Fixed(t)
  <2>1. PICK j \in 1 .. k : c = s[j]
    OBVIOUS
  <2>2. PICK h \in 1 .. k : t.parent[c] = s[h]
    BY <1>8
  <2>3. j # k
    <3>1. SUFFICES ASSUME j = k PROVE FALSE
      OBVIOUS
    <3>2. h \in 1 .. j /\ j \in 1 .. l
      BY <1>4, <3>1
    <3>. QED  BY <1>3, <2>1, <2>2, <3>2
  <2>. QED  BY <1>2, <1>8, <2>1, <2>3
<1>9. ASSUME ~v, NEW c \in U, t.parent[c] \notin U \cup {Root}
      PROVE  Kids(t, t.parent[c]) \cap (Fixed(t) \cup u.tree.checked) # {}
  <2>1. PICK j \in 1 .. k : c = s[j]
    OBVIOUS
  <2>2. j = k
    <3>1. SUFFICES ASSUME j # k PROVE FALSE
      OBVIOUS
    <3>2. j + 1 \in 1 .. k /\ j \in 1 .. l /\ j # l
      BY <1>1, <1>4, <3>1
    <3>3. s[j + 1] = t.parent[s[j]] /\ s[j + 1] \in U
      BY <1>1, <3>2
    <3>. QED  BY <1>9, <2>1, <3>3
  <2>3. k # l
    BY <1>1, <1>9, <2>1, <2>2
  <2>. QED  BY <1>2, <1>4, <2>1, <2>2, <2>3
<1>10. v => U = Upward(t, n)
  BY <1>2, <1>4, <1>6
<1>. HIDE DEF U
<1>11. Climbed(t, n, v, U, u.tree)
  BY <1>2, <1>5, <1>6, <1>7, <1>8, <1>9, <1>10 DEF Climbed
<1>. QED  BY <1>11 DEF U


\* The walk up, step by step.
Climbs(up, t, n, s, v) ==
  /\ up[0] = [tree |-> t, go |-> TRUE]
  /\ \A i \in 1 .. Len(s) : up[i] = WalkOn(up[i - 1], s[i], v)
  /\ SetParentNodeCheckBox(t, n, v) = up[Len(s)].tree

LEMMA WalkIs ==
  ASSUME NEW t, Agree(t), NEW n \in Node, NEW v \in BOOLEAN
  PROVE  \E up : Climbs(up, t, n, <<n>> \o Above(t, n), v)
<1>. DEFINE T == [tree : Differ(t, Checks), go : BOOLEAN]
            s == <<n>> \o Above(t, n)
            l == Len(s)
            x == [tree |-> t, go |-> TRUE]
            mark(u, m) == IF m \in Fixed(u) THEN MakeChkFlag(u, m)
                          ELSE SetChkClass([MakeChkFlag(u, m) EXCEPT !.checked = Assign(@, m, v)], m)
            kept(u, m) == \E b \in Kids(u, u.parent[m]) :
                            IF b \in Fixed(u) THEN u.state[b] > 0 ELSE b \in u.checked
            next(u, i) == IF ~u.go THEN u
                          ELSE LET w == mark(u.tree, s[i])
                               IN  [tree |-> w, go |-> v \/ ~kept(w, s[i])]
            e(f) == [i \in 0 .. l |-> IF i = 0 THEN x ELSE next(f[i - 1], i)]
            up == CHOOSE f : f = e(f)
            F == [i \in 1 .. l |-> [u \in T |-> WalkOn(u, s[i], v)]]
<1>1. s \in Seq(Node) /\ t \in Tree
  BY Lists DEF Agree
<1>2. SetParentNodeCheckBox(t, n, v) = up[l].tree
  BY DEF SetParentNodeCheckBox
<1>3. ASSUME NEW u, NEW i PROVE next(u, i) = WalkOn(u, s[i], v)
  BY DEF WalkOn, MarkParent, Keeping
<1>. HIDE DEF s, next, mark, kept
<1>4. l \in Nat /\ \A i \in 1 .. l : s[i] \in Node
  BY <1>1
<1>5. t \in Differ(t, Checks)
  BY <1>1, DifferNot
<1>6. x \in T
  BY <1>5
<1>. HIDE DEF x
<1>7. ASSUME NEW u \in T, NEW m \in Node PROVE WalkOn(u, m, v) \in T
  <2>. DEFINE w == MarkParent(u.tree, m, v)
              g == v \/ ~Keeping(w, m)
  <2>1. u.tree \in Differ(t, Checks) /\ u.go \in BOOLEAN
    OBVIOUS
  <2>2. w \in Differ(u.tree, Checks)
    <3>1. u.tree \in Tree
      BY <2>1 DEF Differ
    <3>. QED  BY <3>1, MarkParentChecks
  <2>. HIDE DEF w
  <2>3. w \in Differ(t, Checks)
    BY <1>1, <2>1, <2>2, DifferChain
  <2>4. g \in BOOLEAN
    OBVIOUS
  <2>5. WalkOn(u, m, v) = IF ~u.go THEN u ELSE [tree |-> w, go |-> g]
    BY DEF WalkOn, w
  <2>. HIDE DEF g
  <2>. QED  BY <2>3, <2>4, <2>5
<1>. HIDE DEF T
<1>8. Repairs!Steps(F, T, l)
  BY <1>4, <1>7 DEF Repairs!Steps
<1>9. \A i \in 1 .. l : \A u \in T : F[i][u] = WalkOn(u, s[i], v)
  OBVIOUS
<1>. HIDE DEF F, l
<1>10. PICK r : Repairs!Run(r, F, T, x, l)
  BY <1>6, <1>8, Repairs!ListRecursion
<1>11. \A i \in 1 .. l : r[i - 1] \in T /\ r[i] = WalkOn(r[i - 1], s[i], v)
  <2>. SUFFICES ASSUME NEW i \in 1 .. l
                PROVE  r[i - 1] \in T /\ r[i] = WalkOn(r[i - 1], s[i], v)
    OBVIOUS
  <2>1. r[i - 1] \in T /\ r[i] = F[i][r[i - 1]]
    BY <1>8, <1>10, Repairs!RunSteps
  <2>. QED  BY <1>9, <2>1
<1>12. up = e(up)
  <2>1. r = e(r)
    <3>1. ASSUME NEW i \in 0 .. l
          PROVE  r[i] = IF i = 0 THEN x ELSE next(r[i - 1], i)
      <4>1. CASE i = 0
        BY <1>10, <4>1 DEF Repairs!Run
      <4>2. CASE i # 0
        <5>1. i \in 1 .. l
          BY <1>4, <4>2
        <5>. QED  BY <1>3, <1>11, <4>2, <5>1
      <4>. QED  BY <4>1, <4>2
    <3>2. r = [i \in 0 .. l |-> r[i]]
      BY <1>10 DEF Repairs!Run
    <3>. QED  BY <3>1, <3>2
  <2>. HIDE DEF e
  <2>. QED  BY <2>1
<1>. HIDE DEF up
<1>13. /\ up[0] = x
       /\ \A i \in 1 .. l : up[i] = WalkOn(up[i - 1], s[i], v)
  <2>1. 0 \in 0 .. l /\ \A i \in 1 .. l : i \in 0 .. l /\ i # 0
    BY <1>4
  <2>2. up[0] = x /\ \A i \in 1 .. l : up[i] = next(up[i - 1], i)
    BY <1>12, <2>1
  <2>. QED  BY <1>3, <2>2
<1>. QED  BY <1>2, <1>13 DEF Climbs, x, l, s

\* However far the walk up goes, it does just that.
THEOREM ParentWalk ==
  ASSUME NEW t, Agree(t), NEW n \in Node, NEW v \in BOOLEAN
  PROVE  \E U : Climbed(t, n, v, U, SetParentNodeCheckBox(t, n, v))
<1>. DEFINE s == <<n>> \o Above(t, n)
            l == Len(s)
            x == [tree |-> t, go |-> TRUE]
<1>1. s \in Seq(Node) /\ Range(s) = Upward(t, n) /\ t \in Tree /\ ParentsEnd(t) /\ Ladder(t, n, s)
  BY Lists, PathUp DEF Agree
<1>2. PICK up : Climbs(up, t, n, s, v)
  BY WalkIs
<1>. HIDE DEF s
<1>3. l \in Nat \ {0} /\ \A i \in 1 .. l : s[i] \in Node
  BY <1>1 DEF Ladder
<1>4. up[0] = x /\ \A i \in 1 .. l : up[i] = WalkOn(up[i - 1], s[i], v)
  BY <1>2 DEF Climbs
<1>5. Walked(t, s, v, x, 0)
  <2>1. x.tree = t /\ x.go = TRUE
    OBVIOUS
  <2>2. {s[j] : j \in 1 .. 0} = {}
    OBVIOUS
  <2>3. Marked(t.checked, {s[j] : j \in 1 .. 0} \ Fixed(t), v) = t.checked
    BY <2>2 DEF Marked
  <2>4. 0 \in 0 .. Len(s) /\ \A j \in 1 .. 0 : FALSE
    BY <1>3
  <2>5. t \in Differ(t, Checks)
    BY <1>1, DifferNot
  <2>. HIDE DEF x
  <2>. QED  BY <2>1, <2>3, <2>4, <2>5 DEF Walked
<1>. HIDE DEF x, l
<1>. DEFINE G == {i \in 0 .. l : \E k \in 0 .. i : Walked(t, s, v, up[i], k) /\ (up[i].go => k = i)}
<1>6. 0 \in G
  <2>1. 0 \in 0 .. l /\ 0 \in 0 .. 0
    BY <1>3
  <2>2. Walked(t, s, v, up[0], 0)
    BY <1>4, <1>5
  <2>. QED  BY <2>1, <2>2
<1>7. ASSUME NEW i \in 1 .. l, i - 1 \in G PROVE i \in G
  <2>1. PICK k \in 0 .. i - 1 : Walked(t, s, v, up[i - 1], k) /\ (up[i - 1].go => k = i - 1)
    BY <1>7
  <2>2. i \in 0 .. l /\ i \in 0 .. i /\ k \in 0 .. i /\ i \in 1 .. Len(s)
    BY <1>3 DEF l
  <2>3. up[i] = WalkOn(up[i - 1], s[i], v)
    BY <1>4
  <2>4. CASE up[i - 1].go
    <3>. DEFINE u == up[i - 1]
    <3>1. Walked(t, s, v, u, i - 1) /\ u.go
      BY <2>1, <2>4
    <3>. HIDE DEF u
    <3>2. Walked(t, s, v, WalkOn(u, s[i], v), i)
      BY <1>1, <2>2, <3>1, WalkStep
    <3>. QED  BY <2>2, <2>3, <3>2 DEF u
  <2>5. CASE ~up[i - 1].go
    <3>1. up[i] = up[i - 1]
      BY <2>3, <2>5 DEF WalkOn
    <3>. QED  BY <2>1, <2>2, <2>5, <3>1
  <2>. QED  BY <2>4, <2>5
<1>8. l \in G
  <2>1. Repairs!Chained(G, l)
    BY <1>3, <1>6, <1>7 DEF Repairs!Chained
  <2>. HIDE DEF G
  <2>2. 0 .. l \subseteq G
    BY <2>1, Repairs!ListInduction
  <2>. QED  BY <1>3, <2>2
<1>9. PICK k \in 0 .. l : Walked(t, s, v, up[l], k) /\ (up[l].go => k = l)
  BY <1>8
<1>. DEFINE u == up[l]
<1>. HIDE DEF u
<1>10. Walked(t, s, v, u, k) /\ (u.go => k = Len(s))
  BY <1>9 DEF u, l
<1>11. Climbed(t, n, v, {s[j] : j \in 1 .. k}, u.tree)
  BY <1>1, <1>10, WalkEnds
<1>. QED  BY <1>2, <1>11 DEF Climbs, u, l

\* Checking a node with its parents goes all the way up, apart from the boxes
\* that are hidden or disabled: nothing stops it, as unchecking is stopped.
THEOREM ParentsFollow ==
  ASSUME NEW t, Agree(t), NEW n \in Node
  PROVE  /\ SetParentNodeCheckBox(t, n, TRUE) \in Differ(t, Checks)
         /\ SetParentNodeCheckBox(t, n, TRUE).checked = t.checked \cup (Upward(t, n) \ Fixed(t))
<1>1. PICK U : Climbed(t, n, TRUE, U, SetParentNodeCheckBox(t, n, TRUE))
  BY ParentWalk
<1>. QED  BY <1>1 DEF Climbed, Marked

\* What checking n (v), or unchecking it, makes of t: D below and U above n
\* follow, as the setting has it.
Follows(t, v) == IF v THEN t.setting.Y ELSE t.setting.N
Spread(t, n, v, D, U, r) ==
  /\ D = IF "s" \in Follows(t, v) THEN Downward(t, n) ELSE {n}
  /\ n \in U /\ U \subseteq Upward(t, n)
  /\ r \in Differ(t, Checks) /\ r.checked = Marked(t.checked, (D \cup U) \ Fixed(t), v)
  /\ "p" \notin Follows(t, v) => U = {n}
  /\ "p" \in Follows(t, v) /\ v => U = Upward(t, n)
  /\ \A c \in U : c # n => \E b \in U : t.parent[b] = c
  /\ "p" \in Follows(t, v) /\ ~v =>
       \A c \in U : /\ t.parent[c] \in U => Kids(t, t.parent[c]) \cap r.checked \subseteq Fixed(t)
                    /\ t.parent[c] \notin U \cup {Root}
                         => Kids(t, t.parent[c]) \cap (Fixed(t) \cup r.checked) # {}

LEMMA SpreadStays ==
  ASSUME NEW t \in Tree, NEW n, NEW v, NEW D, NEW U, NEW r, Spread(t, n, v, D, U, r),
         NEW u \in Differ(r, Drawn)
  PROVE  Spread(t, n, v, D, U, u)
<1>1. r \in Differ(t, Checks)
  BY DEF Spread
<1>2. u \in Differ(t, Checks) /\ u.checked = r.checked
  BY <1>1 DEF Differ, Fields, Checks, Drawn
<1>. QED  BY <1>2 DEF Spread

\* A box is redrawn, with those of its ancestors.
LEMMA RedrawnBoxes ==
  ASSUME NEW t \in Tree, ParentsEnd(t), NEW n \in Node
  PROVE  RepairParentChkClassWithSelf(SetChkClass(t, n), n) \in Differ(t, Drawn)
<1>. DEFINE u == SetChkClass(t, n)
            r == RepairParentChkClassWithSelf(u, n)
<1>1. u \in Differ(t, {"box"})
  BY SetChkClassDiffers
<1>. HIDE DEF u
<1>2. u \in Tree /\ u \in Differ(t, Drawn) /\ u.parent = t.parent
  BY <1>1 DEF Differ, Drawn, Fields
<1>3. ParentsEnd(u)
  BY <1>2 DEF ParentsEnd
<1>4. r \in Differ(u, Drawn)
  BY <1>2, <1>3, RepairParentDiffers
<1>. HIDE DEF r
<1>5. r \in Differ(t, Drawn)
  BY <1>2, <1>4, DifferChain
<1>. QED  BY <1>5 DEF r, u

\* A node that has no sons is all there is below it.
LEMMA LeafDown ==
  ASSUME NEW t, Agree(t), NEW n \in Node, ~HasKids(t, n)
  PROVE  Downward(t, n) = {n}
<1>1. Kids(t, n) = {}
  BY KidsAre DEF Agree
<1>2. Under(t, n) = UNION {Downward(t, k) : k \in Kids(t, n)}
  BY DownwardIs
<1>. QED  BY <1>1, <1>2 DEF Downward

LEMMA RelationSpreads ==
  ASSUME NEW t, Agree(t), NEW n \in Node, n \notin Fixed(t), NEW v \in BOOLEAN,
         t.setting.style = "checkbox"
  PROVE  \E D, U : Spread(t, n, v, D, U,
                          CheckNodeRelation([t EXCEPT !.checked = Assign(@, n, v)], n))
<1>. DEFINE c == [t EXCEPT !.checked = Assign(@, n, v)]
            where == Follows(t, v)
            D == IF "s" \in where THEN Downward(t, n) ELSE {n}
            s == IF ~HasKids(c, n) \/ "s" \in where THEN SetSonNodeCheckBox(c, n, v) ELSE c
            r == CheckNodeRelation(c, n)
<1>1. t \in Tree
  BY DEF Agree
<1>2. /\ c \in Tree /\ c \in Differ(t, Checks) /\ c.checked = Marked(t.checked, {n} \ Fixed(t), v)
      /\ c.setting = t.setting /\ c.kids = t.kids /\ Fixed(c) = Fixed(t) /\ (n \in c.checked) = v
  <2>1. c \in Differ(t, {"checked"}) /\ c.checked = Assign(t.checked, n, v)
    BY <1>1 DEF Tree, Differ, Fields, Assign
  <2>. HIDE DEF c
  <2>2. c \in Tree /\ c \in Differ(t, Checks) /\ c.setting = t.setting /\ c.kids = t.kids
    BY <2>1 DEF Differ, Fields, Checks
  <2>3. Fixed(c) = Fixed(t)
    BY <2>1 DEF Differ, Fields, Fixed
  <2>4. (n \in c.checked) = v
    BY <2>1 DEF Assign
  <2>5. {n} \ Fixed(t) = {n}
    OBVIOUS
  <2>6. c.checked = Marked(t.checked, {n} \ Fixed(t), v)
    BY <2>1, <2>5 DEF Marked, Assign
  <2>. QED  BY <2>2, <2>3, <2>4, <2>6
<1>3. r = IF "p" \in where THEN SetParentNodeCheckBox(s, n, v) ELSE s
  BY <1>2 DEF CheckNodeRelation, Follows
<1>. HIDE DEF c, where
<1>4. Checks \cap Family3 = {}
  BY DEF Checks, Family3
<1>5. Agree(c) /\ Downward(c, n) = Downward(t, n)
  BY <1>2, <1>4, AgreeStays
<1>6. n \in Downward(t, n) /\ n \in Upward(t, n)
  BY DEF Downward, Upward
<1>7. s \in Differ(t, Checks) /\ s.checked = Marked(t.checked, D \ Fixed(t), v)
  <2>1. CASE HasKids(c, n) /\ "s" \notin where
    BY <1>2, <2>1
  <2>2. CASE ~HasKids(c, n) \/ "s" \in where
    <3>. DEFINE w == SetSonNodeCheckBox(c, n, v)
    <3>1. w \in Differ(c, Checks) /\ w.checked = Marked(c.checked, Downward(c, n) \ Fixed(c), v)
      BY <1>5, SonsFollow
    <3>. HIDE DEF w
    <3>2. D = Downward(t, n)
      BY <1>5, <2>2, LeafDown
    <3>. HIDE DEF D
    <3>3. w.checked = Marked(Marked(t.checked, {n} \ Fixed(t), v), D \ Fixed(t), v)
      BY <1>2, <1>5, <3>1, <3>2
    <3>4. w.checked = Marked(t.checked, D \ Fixed(t), v)
      BY <1>6, <3>2, <3>3 DEF Marked
    <3>5. w \in Differ(t, Checks)
      BY <1>1, <1>2, <3>1, DifferChain
    <3>6. s = w
      BY <2>2 DEF w
    <3>. HIDE DEF s
    <3>. QED  BY <3>4, <3>5, <3>6
  <2>. QED  BY <2>1, <2>2
<1>. HIDE DEF s, r
<1>8. CASE "p" \notin where
  <2>1. r = s /\ (D \cup {n}) = D
    BY <1>3, <1>6, <1>8
  <2>2. D = IF "s" \in where THEN Downward(t, n) ELSE {n}
    OBVIOUS
  <2>. HIDE DEF D
  <2>3. r.checked = Marked(t.checked, (D \cup {n}) \ Fixed(t), v)
    BY <1>7, <2>1
  <2>4. Spread(t, n, v, D, {n}, r)
    BY <1>6, <1>7, <1>8, <2>1, <2>2, <2>3 DEF Spread, where
  <2>. QED  BY <2>4 DEF r, c
<1>9. CASE "p" \in where
  <2>1. Agree(s) /\ Upward(s, n) = Upward(t, n) /\ s.parent = t.parent /\ s.kids = t.kids
    BY <1>4, <1>7, AgreeStays
  <2>2. Fixed(s) = Fixed(t)
    BY <1>7 DEF Differ, Fields, Checks, Fixed
  <2>3. PICK U : Climbed(s, n, v, U, SetParentNodeCheckBox(s, n, v))
    BY <2>1, ParentWalk
  <2>4. Climbed(s, n, v, U, r)
    BY <1>3, <1>9, <2>3
  <2>5. D = IF "s" \in where THEN Downward(t, n) ELSE {n}
    OBVIOUS
  <2>. HIDE DEF D
  <2>6. r.checked = Marked(Marked(t.checked, D \ Fixed(t), v), U \ Fixed(t), v)
    BY <1>7, <2>2, <2>4 DEF Climbed
  <2>7. r.checked = Marked(t.checked, (D \cup U) \ Fixed(t), v)
    BY <2>6 DEF Marked
  <2>8. r \in Differ(t, Checks)
    BY <1>1, <1>7, <2>4, DifferChain DEF Climbed
  <2>9. \A p : Kids(s, p) = Kids(t, p)
    BY <2>1 DEF Kids
  <2>10. Spread(t, n, v, D, U, r)
    BY <1>9, <2>1, <2>2, <2>4, <2>5, <2>7, <2>8, <2>9 DEF Spread, Climbed, where
  <2>. QED  BY <2>10 DEF r, c
<1>. QED  BY <1>8, <1>9

\* A click on a box.
THEOREM ClickSpreads ==
  ASSUME NEW t, Agree(t), NEW n \in Node, n \notin Fixed(t), t.setting.style = "checkbox"
  PROVE  \E D, U : Spread(t, n, n \notin t.checked, D, U, ToggleCheck(t, n))
<1>. DEFINE v == n \notin t.checked
            c == [t EXCEPT !.checked = Assign(@, n, v)]
            w == CheckNodeRelation(c, n)
            r == RepairParentChkClassWithSelf(SetChkClass(w, n), n)
<1>1. ToggleCheck(t, n) = r
  BY DEF ToggleCheck
<1>2. PICK D, U : Spread(t, n, v, D, U, w)
  <2>. HIDE DEF v
  <2>1. v \in BOOLEAN
    BY DEF v
  <2>. QED  BY <2>1, RelationSpreads
<1>. HIDE DEF w
<1>3. w \in Differ(t, Checks) /\ t \in Tree /\ Checks \cap Family3 = {}
  BY <1>2 DEF Spread, Agree, Checks, Family3
<1>4. Agree(w)
  BY <1>3, AgreeStays
<1>5. r \in Differ(w, Drawn)
  BY <1>4, RedrawnBoxes DEF Agree
<1>. HIDE DEF r, v
<1>6. Spread(t, n, v, D, U, r)
  BY <1>2, <1>3, <1>5, SpreadStays
<1>. QED  BY <1>1, <1>6 DEF v

\* Where checking goes up and unchecking goes down: whatever the boxes show and
\* in whatever order the lists and the flags are gone through, the node is
\* checked with all above it, or unchecked with all below.
THEOREM ClickChecks ==
  ASSUME NEW t, Agree(t), NEW n \in Node, n \notin Fixed(t),
         t.setting.style = "checkbox", t.setting.Y = {"p"}, t.setting.N = {"s"}
  PROVE  /\ ToggleCheck(t, n) \in Differ(t, Checks)
         /\ ToggleCheck(t, n).checked = IF n \in t.checked
                                        THEN t.checked \ (Downward(t, n) \ Fixed(t))
                                        ELSE t.checked \cup (Upward(t, n) \ Fixed(t))
<1>. DEFINE v == n \notin t.checked
            r == ToggleCheck(t, n)
<1>1. PICK D, U : Spread(t, n, v, D, U, r)
  BY ClickSpreads
<1>. HIDE DEF r
<1>2. n \in Downward(t, n) /\ n \in Upward(t, n)
  BY DEF Downward, Upward
<1>3. CASE n \in t.checked
  <2>1. v = FALSE /\ Follows(t, v) = {"s"}
    BY <1>3 DEF Follows
  <2>2. D = Downward(t, n) /\ U = {n} /\ r.checked = Marked(t.checked, (D \cup U) \ Fixed(t), FALSE)
    BY <1>1, <2>1 DEF Spread
  <2>3. D \cup U = Downward(t, n)
    BY <1>2, <2>2
  <2>. QED  BY <1>1, <1>3, <2>2, <2>3 DEF Spread, Marked, r
<1>4. CASE n \notin t.checked
  <2>1. v = TRUE /\ Follows(t, v) = {"p"}
    BY <1>4 DEF Follows
  <2>2. D = {n} /\ U = Upward(t, n) /\ r.checked = Marked(t.checked, (D \cup U) \ Fixed(t), TRUE)
    BY <1>1, <2>1 DEF Spread
  <2>3. D \cup U = Upward(t, n)
    BY <1>2, <2>2
  <2>. QED  BY <1>1, <1>4, <2>2, <2>3 DEF Spread, Marked, r
<1>. QED  BY <1>3, <1>4

\* The method checkNode: alone, or with the others.
THEOREM CheckNodeSpreads ==
  ASSUME NEW t, Agree(t), NEW n \in Node, NEW v \in BOOLEAN, NEW flag \in BOOLEAN,
         t.setting.style = "checkbox", CheckNode(t, n, v, flag) # t
  PROVE  /\ n \notin Fixed(t)
         /\ flag => \E D, U : Spread(t, n, v, D, U, CheckNode(t, n, v, flag))
         /\ ~flag => /\ CheckNode(t, n, v, flag) \in Differ(t, Checks)
                     /\ CheckNode(t, n, v, flag).checked = Marked(t.checked, {n}, v)
<1>. DEFINE c == [t EXCEPT !.checked = Assign(@, n, v)]
            w == IF flag THEN CheckNodeRelation(c, n) ELSE c
            r == RepairParentChkClassWithSelf(SetChkClass(w, n), n)
<1>1. n \notin Fixed(t) /\ CheckNode(t, n, v, flag) = r
  BY DEF CheckNode
<1>2. t \in Tree /\ Checks \cap Family3 = {}
  BY DEF Agree, Checks, Family3
<1>3. CASE flag
  <2>1. PICK D, U : Spread(t, n, v, D, U, w)
    BY <1>1, <1>3, RelationSpreads
  <2>. HIDE DEF w
  <2>2. w \in Differ(t, Checks)
    BY <2>1 DEF Spread
  <2>3. Agree(w)
    BY <1>2, <2>2, AgreeStays
  <2>4. r \in Differ(w, Drawn)
    BY <2>3, RedrawnBoxes DEF Agree
  <2>. HIDE DEF r
  <2>5. Spread(t, n, v, D, U, r)
    BY <1>2, <2>1, <2>4, SpreadStays
  <2>. QED  BY <1>1, <1>3, <2>5
<1>4. CASE ~flag
  <2>1. w \in Differ(t, {"checked"}) /\ w.checked = Marked(t.checked, {n}, v)
    BY <1>2, <1>4 DEF Tree, Differ, Fields, Assign, Marked
  <2>. HIDE DEF w
  <2>2. w \in Differ(t, Checks)
    BY <2>1 DEF Differ, Checks
  <2>3. Agree(w)
    BY <1>2, <2>2, AgreeStays
  <2>4. r \in Differ(w, Drawn)
    BY <2>3, RedrawnBoxes DEF Agree
  <2>. HIDE DEF r
  <2>5. r \in Differ(t, Checks) /\ r.checked = w.checked
    BY <2>2, <2>4 DEF Differ, Fields, Checks, Drawn
  <2>. QED  BY <1>1, <1>4, <2>1, <2>5
<1>. QED  BY <1>3, <1>4

\* checkAllNodes takes the trees of the first level one after the other.
CheckTree(t, n, v) ==
  SetSonNodeCheckBox(IF n \in Fixed(t) THEN t ELSE [t EXCEPT !.checked = Assign(@, n, v)], n, v)
AllChecks == INSTANCE Recursion WITH op <- CheckTree

LEMMA CheckTreeChecks ==
  ASSUME NEW t, Agree(t), NEW n \in Node, NEW v \in BOOLEAN
  PROVE  /\ CheckTree(t, n, v) \in Differ(t, Checks)
         /\ CheckTree(t, n, v).checked = Marked(t.checked, Downward(t, n) \ Fixed(t), v)
<1>. DEFINE c == IF n \in Fixed(t) THEN t ELSE [t EXCEPT !.checked = Assign(@, n, v)]
            r == SetSonNodeCheckBox(c, n, v)
<1>1. t \in Tree /\ Checks \cap Family3 = {} /\ n \in Downward(t, n)
  BY DEF Agree, Checks, Family3, Downward
<1>2. c \in Differ(t, {"checked"}) /\ c.checked = Marked(t.checked, {n} \ Fixed(t), v)
  <2>1. CASE n \in Fixed(t)
    <3>1. {n} \ Fixed(t) = {} /\ c = t
      BY <2>1
    <3>. HIDE DEF c
    <3>. QED  BY <1>1, <3>1, DifferNot DEF Marked
  <2>2. CASE n \notin Fixed(t)
    <3>1. {n} \ Fixed(t) = {n}
      BY <2>2
    <3>. QED  BY <1>1, <2>2, <3>1 DEF Tree, Differ, Fields, Assign, Marked
  <2>. QED  BY <2>1, <2>2
<1>3. CheckTree(t, n, v) = r
  BY DEF CheckTree
<1>. HIDE DEF c
<1>4. c \in Differ(t, Checks) /\ Fixed(c) = Fixed(t)
  BY <1>2 DEF Differ, Checks, Fields, Fixed
<1>5. Agree(c) /\ Downward(c, n) = Downward(t, n)
  BY <1>1, <1>4, AgreeStays
<1>6. r \in Differ(c, Checks) /\ r.checked = Marked(c.checked, Downward(c, n) \ Fixed(c), v)
  BY <1>5, SonsFollow
<1>. HIDE DEF r
<1>7. r \in Differ(t, Checks)
  BY <1>1, <1>4, <1>6, DifferChain
<1>. DEFINE D == Downward(t, n)
<1>. HIDE DEF D
<1>8. r.checked = Marked(Marked(t.checked, {n} \ Fixed(t), v), D \ Fixed(t), v) /\ n \in D
  BY <1>1, <1>2, <1>4, <1>5, <1>6 DEF D
<1>9. r.checked = Marked(t.checked, D \ Fixed(t), v)
  BY <1>8 DEF Marked
<1>. QED  BY <1>3, <1>7, <1>9 DEF D

\* checkAllNodes checks or unchecks all boxes that can change.
THEOREM AllFollow ==
  ASSUME NEW t, Agree(t), NEW v \in BOOLEAN, CheckAllNodes(t, v) # t
  PROVE  /\ t.setting.style = "checkbox"
         /\ CheckAllNodes(t, v) \in Differ(t, Checks)
         /\ CheckAllNodes(t, v).checked = Marked(t.checked, t.cached \ Fixed(t), v)
<1>. DEFINE T == Differ(t, Checks)
            s == t.kids[Root]
            l == Len(s)
            r == AllChecks!Along(t, s, v)
            R(i) == UNION {Downward(t, s[j]) : j \in 1 .. i}
<1>1. t \in Tree /\ Checks \cap Family3 = {}
  BY DEF Agree, Checks, Family3
<1>2. s \in Seq(Node) /\ l \in Nat /\ Kids(t, Root) = {s[i] : i \in 1 .. l}
  BY <1>1, KidsAre
<1>3. t.setting.style = "checkbox" /\ CheckAllNodes(t, v) = r
  BY DEF CheckAllNodes, Each, AllChecks!Along, CheckTree
<1>. HIDE DEF s
<1>4. ASSUME NEW u \in T, NEW m \in Node
      PROVE  /\ CheckTree(u, m, v) \in T
             /\ CheckTree(u, m, v).checked = Marked(u.checked, Downward(t, m) \ Fixed(t), v)
  <2>1. Agree(u) /\ Downward(u, m) = Downward(t, m) /\ Fixed(u) = Fixed(t)
    <3>1. Agree(u) /\ Downward(u, m) = Downward(t, m)
      BY <1>1, AgreeStays
    <3>. QED  BY <3>1 DEF Differ, Checks, Fields, Fixed
  <2>2. /\ CheckTree(u, m, v) \in Differ(u, Checks)
        /\ CheckTree(u, m, v).checked = Marked(u.checked, Downward(u, m) \ Fixed(u), v)
    BY <2>1, CheckTreeChecks
  <2>. QED  BY <1>1, <2>1, <2>2, DifferChain
<1>5. t \in T
  BY <1>1, DifferNot
<1>. HIDE DEF T
<1>6. PICK q : AllChecks!Path(q, T, t, s, v) /\ r = q[l]
  <2>1. AllChecks!Keeps(Node, T, v)
    BY <1>4 DEF AllChecks!Keeps
  <2>. QED  BY <1>2, <1>5, <2>1, AllChecks!AlongPath
<1>. HIDE DEF r
<1>7. /\ q \in [0 .. l -> T] /\ q[0] = t
      /\ \A i \in 1 .. l : q[i] = CheckTree(q[i - 1], s[i], v)
  BY <1>6 DEF AllChecks!Path
<1>. DEFINE G == {i \in 0 .. l : q[i].checked = Marked(t.checked, R(i) \ Fixed(t), v)}
<1>8. 0 \in G
  <2>1. R(0) = {}
    OBVIOUS
  <2>. HIDE DEF R
  <2>2. Marked(t.checked, R(0) \ Fixed(t), v) = t.checked
    BY <2>1 DEF Marked
  <2>. QED  BY <1>2, <1>7, <2>2
<1>9. ASSUME NEW i \in 1 .. l, i - 1 \in G PROVE i \in G
  <2>1. R(i) = R(i - 1) \cup Downward(t, s[i])
    BY <1>2
  <2>. DEFINE A == R(i - 1)
              B == R(i)
              E == Downward(t, s[i])
  <2>2. q[i - 1] \in T /\ s[i] \in Node /\ i \in 0 .. l
    BY <1>2, <1>7
  <2>3. q[i].checked = Marked(q[i - 1].checked, E \ Fixed(t), v)
    BY <1>4, <1>7, <2>2
  <2>4. q[i].checked = Marked(Marked(t.checked, A \ Fixed(t), v), E \ Fixed(t), v) /\ B = A \cup E
    BY <1>9, <2>1, <2>3
  <2>. HIDE DEF A, B, E
  <2>5. q[i].checked = Marked(t.checked, B \ Fixed(t), v)
    BY <2>4 DEF Marked
  <2>. QED  BY <2>2, <2>5 DEF B
<1>10. l \in G
  <2>1. AllChecks!Chained(G, l)
    BY <1>2, <1>8, <1>9 DEF AllChecks!Chained
  <2>. HIDE DEF G
  <2>2. 0 .. l \subseteq G
    BY <2>1, AllChecks!ListInduction
  <2>. QED  BY <1>2, <2>2
<1>11. R(l) = t.cached
  <2>1. R(l) = UNION {Downward(t, k) : k \in Kids(t, Root)}
    BY <1>2
  <2>2. Under(t, Root) = UNION {Downward(t, k) : k \in Kids(t, Root)}
    BY DownwardIs
  <2>. QED  BY <2>1, <2>2, AllUnderRoot
<1>12. r \in T
  BY <1>2, <1>6, <1>7
<1>. HIDE DEF R
<1>13. r.checked = Marked(t.checked, t.cached \ Fixed(t), v)
  BY <1>6, <1>10, <1>11
<1>. QED  BY <1>3, <1>12, <1>13 DEF T

\* Disabling or enabling boxes changes nothing else but what the boxes say.
Locks == {"disabled", "state", "box"}
SetDisabled(t, n, v) == RepairChkClass([t EXCEPT !.disabled = Assign(@, n, v)], n)
Disables == INSTANCE Recursion WITH op <- SetDisabled

LEMMA SetDisabledLocks ==
  ASSUME NEW t \in Tree, NEW n \in Node, NEW v \in BOOLEAN
  PROVE  SetDisabled(t, n, v) \in Differ(t, Locks) /\ RepairChkClass(t, n) \in Differ(t, Locks)
<1>. DEFINE u == [t EXCEPT !.disabled = Assign(@, n, v)]
            r == RepairChkClass(u, n)
<1>1. u \in Differ(t, {"disabled"})
  BY DEF Tree, Differ, Fields, Assign
<1>. HIDE DEF u
<1>2. u \in Tree /\ u \in Differ(t, Locks)
  BY <1>1 DEF Differ, Locks
<1>3. r \in Differ(u, Drawn) /\ RepairChkClass(t, n) \in Differ(t, Drawn)
  BY <1>2, RepairDiffers
<1>4. SetDisabled(t, n, v) = r
  BY DEF SetDisabled, u
<1>. HIDE DEF r
<1>5. Drawn \subseteq Locks
  BY DEF Drawn, Locks
<1>6. r \in Differ(u, Locks) /\ RepairChkClass(t, n) \in Differ(t, Locks)
  BY <1>2, <1>3, <1>5, DifferMore
<1>. QED  BY <1>2, <1>4, <1>6, DifferChain

LEMMA ReversedIs ==
  ASSUME NEW S, NEW s \in Seq(S)
  PROVE  Reverse(s) \in Seq(S)
<1>. DEFINE n == Len(s)
            r == [i \in 1 .. n |-> s[(n - i) + 1]]
<1>1. n \in Nat /\ \A i \in 1 .. n : s[i] \in S
  OBVIOUS
<1>. HIDE DEF n
<1>2. \A i \in 1 .. n : (n - i) + 1 \in 1 .. n
  BY <1>1
<1>3. r \in [1 .. n -> S]
  BY <1>1, <1>2
<1>4. Reverse(s) = r
  BY DEF Reverse, n
<1>. HIDE DEF r
<1>. QED  BY <1>1, <1>3, <1>4

LEMMA DisablingLocks ==
  ASSUME NEW t, Agree(t), NEW n \in Node, NEW v \in BOOLEAN, NEW up \in BOOLEAN, NEW down \in BOOLEAN
  PROVE  SetChkDisabled(t, n, v, up, down) \in Differ(t, Locks)
<1>. DEFINE T == Differ(t, Locks)
            s == <<n>> \o (IF down THEN Reverse(Below(t, n)) ELSE <<>>)
            w == Disables!Along(t, s, v)
            a == Above(t, n)
            r == IF up THEN Disables!Along(w, a, v) ELSE Repairs!Along(w, a, v)
<1>1. t \in Tree /\ t \in T
  BY DifferNot DEF Agree
<1>2. s \in Seq(Node) /\ a \in Seq(Node)
  <2>1. Below(t, n) \in Seq(Node) /\ a \in Seq(Node)
    BY AgreeEnds, BelowIs, AboveIs DEF Agree
  <2>2. Reverse(Below(t, n)) \in Seq(Node)
    BY <2>1, ReversedIs
  <2>. DEFINE b == Reverse(Below(t, n))
  <2>. HIDE DEF b
  <2>3. b \in Seq(Node) /\ <<n>> \in Seq(Node)
    BY <2>2 DEF b
  <2>4. s = <<n>> \o (IF down THEN b ELSE <<>>)
    BY DEF b
  <2>. HIDE DEF s
  <2>. QED  BY <2>1, <2>3, <2>4
<1>3. ASSUME up PROVE SetChkDisabled(t, n, v, up, down) = Disables!Along(w, a, v)
  BY <1>3 DEF SetChkDisabled, Each, Disables!Along, SetDisabled
<1>4. ASSUME ~up PROVE SetChkDisabled(t, n, v, up, down) = Repairs!Along(w, a, v)
  BY <1>4 DEF SetChkDisabled, Each, Disables!Along, SetDisabled, Repairs!Along, RepairBox
<1>5. ASSUME NEW u \in T, NEW m \in Node
      PROVE  SetDisabled(u, m, v) \in T /\ RepairBox(u, m, v) \in T
  <2>1. u \in Tree
    BY DEF Differ
  <2>2. SetDisabled(u, m, v) \in Differ(u, Locks) /\ RepairChkClass(u, m) \in Differ(u, Locks)
    BY <2>1, SetDisabledLocks
  <2>3. SetDisabled(u, m, v) \in T /\ RepairChkClass(u, m) \in T
    BY <1>1, <2>2, DifferChain
  <2>. QED  BY <2>3 DEF RepairBox
<1>. HIDE DEF T, s, a
<1>6. w \in T
  <2>1. Disables!Keeps(Node, T, v)
    BY <1>5 DEF Disables!Keeps
  <2>. QED  BY <1>1, <1>2, <2>1, Disables!AlongStays
<1>. HIDE DEF w
<1>7. r \in T
  <2>1. Disables!Keeps(Node, T, v) /\ Repairs!Keeps(Node, T, v)
    BY <1>5 DEF Disables!Keeps, Repairs!Keeps
  <2>. QED  BY <1>2, <1>6, <2>1, Disables!AlongStays, Repairs!AlongStays
<1>. QED  BY <1>3, <1>4, <1>7 DEF T

\* One of the radio buttons that go off: x is the tree and the button that is
\* clicked.
RadioOff(t, m, x) ==
  LET w == SetChkClass([t EXCEPT !.checked = @ \ {m}], m) IN
  IF x[1].setting.radioType = "all" /\ x[1].parent[m] # x[1].parent[x[2]]
  THEN RepairParentChkClassWithSelf(w, m) ELSE w
Radios == INSTANCE Recursion WITH op <- RadioOff

LEMMA RadioOffChecks ==
  ASSUME NEW t, Agree(t), NEW m \in Node, NEW x
  PROVE  RadioOff(t, m, x) \in Differ(t, Checks) /\ RadioOff(t, m, x).checked = t.checked \ {m}
<1>. DEFINE u == [t EXCEPT !.checked = @ \ {m}]
            w == SetChkClass(u, m)
            r == RepairParentChkClassWithSelf(w, m)
<1>1. t \in Tree /\ Checks \cap Family3 = {}
  BY DEF Agree, Checks, Family3
<1>2. u \in Differ(t, {"checked"}) /\ u.checked = t.checked \ {m}
  BY <1>1 DEF Tree, Differ, Fields
<1>3. RadioOff(t, m, x) \in {w, r}
  BY DEF RadioOff
<1>. HIDE DEF u
<1>4. w \in Differ(u, {"box"})
  BY <1>2, SetChkClassDiffers DEF Differ
<1>. HIDE DEF w
<1>5. w \in Differ(t, Checks) /\ w.checked = t.checked \ {m}
  BY <1>2, <1>4 DEF Differ, Fields, Checks
<1>6. Agree(w)
  BY <1>1, <1>5, AgreeStays
<1>7. r \in Differ(w, Drawn)
  BY <1>6, RepairParentDiffers DEF Agree
<1>. HIDE DEF r
<1>8. r \in Differ(t, Checks) /\ r.checked = w.checked
  BY <1>5, <1>7 DEF Differ, Fields, Checks, Drawn
<1>. QED  BY <1>3, <1>5, <1>8

Radioed == Checks \cup {"radios"}

\* What checking a radio button, or unchecking it, makes of the others, and of
\* the list of those that are checked.
Chosen(t, n, v, r) ==
  /\ r \in Differ(t, Radioed)
  /\ r.checked = IF v THEN (t.checked \cup {n}) \ Excluded(t, n) ELSE t.checked \ {n}
  /\ t.setting.radioType = "all"
       => r.radios = IF v THEN ((t.radios \cap t.cached) \ Excluded(t, n)) \cup {n}
                     ELSE (t.radios \cap t.cached) \ {n}

LEMMA RadioRelationIs ==
  ASSUME NEW t, Agree(t), NEW n \in Node
  PROVE  Chosen(t, n, n \in t.checked, RadioRelation(t, n))
<1>. DEFINE all == t.setting.radioType = "all"
            live == t.radios \cap t.cached
            X == Excluded(t, n)
            R == IF all THEN (live \ X) \cup {n} ELSE live
            Q == IF all THEN live \ {n} ELSE live
            c == [t EXCEPT !.radios = R]
            d == [t EXCEPT !.radios = Q]
            s == SetToSeq(X)
            r == Radios!Along(c, s, <<t, n>>)
            T == Differ(c, Checks)
<1>1. t \in Tree /\ X \in SUBSET Node /\ n \notin X /\ Checks \cap Family3 = {}
  <2>1. t \in Tree
    BY DEF Agree
  <2>2. t.checked \in SUBSET Node
    BY <2>1 DEF Tree
  <2>. QED  BY <2>1, <2>2 DEF Excluded, Checks, Family3
<1>2. CASE n \notin t.checked
  <2>1. RadioRelation(t, n) = d
    BY <1>2 DEF RadioRelation
  <2>2. Q \in SUBSET Node /\ (all => Q = live \ {n})
    BY <1>1 DEF Tree
  <2>. HIDE DEF Q
  <2>3. d \in Differ(t, Radioed) /\ d.checked = t.checked /\ d.radios = Q
    BY <1>1, <2>2 DEF Tree, Differ, Fields, Radioed
  <2>. HIDE DEF d
  <2>4. Chosen(t, n, FALSE, d)
    BY <1>2, <2>2, <2>3 DEF Chosen
  <2>5. (n \in t.checked) = FALSE
    BY <1>2
  <2>. QED  BY <2>1, <2>4, <2>5
<1>3. CASE n \in t.checked
  <2>1. RadioRelation(t, n) = r
    BY <1>3 DEF RadioRelation, Each, Radios!Along, RadioOff
  <2>2. R \in SUBSET Node /\ (all => R = (live \ X) \cup {n})
    BY <1>1 DEF Tree
  <2>. HIDE DEF R
  <2>3. c \in Differ(t, {"radios"}) /\ c.checked = t.checked /\ c.radios = R
    BY <1>1, <2>2 DEF Tree, Differ, Fields
  <2>. HIDE DEF c
  <2>4. s \in Seq(Node) /\ Range(s) = X
    BY <1>1, Listed
  <2>. DEFINE l == Len(s)
  <2>5. l \in Nat /\ Range(s) = {s[i] : i \in 1 .. l}
    BY <2>4 DEF Range
  <2>6. {"radios"} \cap Family3 = {}
    BY DEF Family3
  <2>7. Agree(c) /\ c \in Tree
    BY <2>3, <2>6, AgreeStays DEF Agree
  <2>. DEFINE x == <<t, n>>
  <2>. HIDE DEF s, X, x
  <2>8. ASSUME NEW u \in T, NEW m \in Node
        PROVE  RadioOff(u, m, x) \in T /\ RadioOff(u, m, x).checked = u.checked \ {m}
    <3>1. Agree(u)
      BY <1>1, <2>7, AgreeStays
    <3>2. RadioOff(u, m, x) \in Differ(u, Checks) /\ RadioOff(u, m, x).checked = u.checked \ {m}
      BY <3>1, RadioOffChecks
    <3>. QED  BY <2>7, <3>2, DifferChain
  <2>9. c \in T
    BY <2>7, DifferNot
  <2>. HIDE DEF T
  <2>10. PICK q : Radios!Path(q, T, c, s, x) /\ Radios!Along(c, s, x) = q[l]
    <3>1. Radios!Keeps(Node, T, x)
      BY <2>8 DEF Radios!Keeps
    <3>. QED  BY <2>4, <2>9, <3>1, Radios!AlongPath
  <2>11. r = q[l]
    BY <2>10 DEF x
  <2>. HIDE DEF r
  <2>12. /\ q \in [0 .. l -> T] /\ q[0] = c
         /\ \A i \in 1 .. l : q[i] = RadioOff(q[i - 1], s[i], x)
    BY <2>10 DEF Radios!Path
  <2>. DEFINE P(i) == {s[j] : j \in 1 .. i}
              G == {i \in 0 .. l : q[i].checked = t.checked \ P(i)}
  <2>13. 0 \in G
    <3>1. P(0) = {}
      OBVIOUS
    <3>. HIDE DEF P
    <3>. QED  BY <2>3, <2>5, <2>12, <3>1
  <2>14. ASSUME NEW i \in 1 .. l, i - 1 \in G PROVE i \in G
    <3>1. P(i) = P(i - 1) \cup {s[i]}
      BY <2>5
    <3>2. q[i - 1] \in T /\ s[i] \in Node /\ i \in 0 .. l
      BY <2>4, <2>5, <2>12
    <3>3. q[i].checked = q[i - 1].checked \ {s[i]}
      BY <2>8, <2>12, <3>2
    <3>. HIDE DEF P
    <3>. QED  BY <2>14, <3>1, <3>2, <3>3
  <2>15. l \in G
    <3>1. Radios!Chained(G, l)
      BY <2>5, <2>13, <2>14 DEF Radios!Chained
    <3>. HIDE DEF G
    <3>2. 0 .. l \subseteq G
      BY <3>1, Radios!ListInduction
    <3>. QED  BY <2>5, <3>2
  <2>16. r \in T /\ r.checked = t.checked \ X
    <3>1. P(l) = X
      BY <2>4, <2>5
    <3>. HIDE DEF P
    <3>. QED  BY <2>5, <2>11, <2>12, <2>15, <3>1
  <2>17. r \in Differ(t, Radioed) /\ r.radios = R
    BY <2>3, <2>16 DEF T, Differ, Fields, Checks, Radioed
  <2>18. (t.checked \cup {n}) \ X = t.checked \ X
    BY <1>3
  <2>19. Chosen(t, n, TRUE, r)
    BY <2>2, <2>16, <2>17, <2>18 DEF Chosen, X
  <2>20. (n \in t.checked) = TRUE
    BY <1>3
  <2>. QED  BY <2>1, <2>19, <2>20
<1>. QED  BY <1>2, <1>3

LEMMA RelationChooses ==
  ASSUME NEW t, Agree(t), NEW n \in Node, NEW v \in BOOLEAN, t.setting.style = "radio"
  PROVE  LET c == [t EXCEPT !.checked = Assign(@, n, v)]
             w == CheckNodeRelation(c, n)
         IN  Chosen(t, n, v, RepairParentChkClassWithSelf(SetChkClass(w, n), n))
<1>. DEFINE c == [t EXCEPT !.checked = Assign(@, n, v)]
            w == CheckNodeRelation(c, n)
            r == RepairParentChkClassWithSelf(SetChkClass(w, n), n)
<1>1. t \in Tree /\ {"checked"} \cap Family3 = {} /\ Radioed \cap Family3 = {}
  BY DEF Agree, Checks, Radioed, Family3
<1>2. c \in Differ(t, {"checked"}) /\ c.checked = Assign(t.checked, n, v)
  BY <1>1 DEF Tree, Differ, Fields, Assign
<1>. HIDE DEF c
<1>3. /\ Agree(c) /\ c.setting = t.setting /\ c.radios = t.radios /\ c.cached = t.cached
      /\ c.kids = t.kids /\ c.parent = t.parent
  <2>1. Agree(c)
    BY <1>1, <1>2, AgreeStays
  <2>. QED  BY <1>2, <2>1 DEF Differ, Fields
<1>4. (n \in c.checked) = v
  BY <1>2 DEF Assign
<1>5. Excluded(c, n) = Excluded(t, n)
  BY <1>2, <1>3 DEF Excluded, Kids, Assign
<1>6. w = RadioRelation(c, n)
  <2>1. c.setting.style = "radio"
    BY <1>3
  <2>. QED  BY <2>1 DEF CheckNodeRelation
<1>7. Chosen(c, n, v, w)
  <2>1. Chosen(c, n, n \in c.checked, RadioRelation(c, n))
    BY <1>3, RadioRelationIs
  <2>. QED  BY <1>4, <1>6, <2>1
<1>. HIDE DEF w
<1>8. /\ w \in Differ(t, Radioed)
      /\ w.checked = IF v THEN (t.checked \cup {n}) \ Excluded(t, n) ELSE t.checked \ {n}
  <2>1. w \in Differ(t, Radioed)
    BY <1>2, <1>7 DEF Chosen, Differ, Checks, Radioed
  <2>2. w.checked = IF v THEN (c.checked \cup {n}) \ Excluded(t, n) ELSE c.checked \ {n}
    BY <1>5, <1>7 DEF Chosen
  <2>. QED  BY <1>2, <2>1, <2>2 DEF Assign
<1>9. Agree(w)
  BY <1>1, <1>8, AgreeStays
<1>10. r \in Differ(w, Drawn)
  BY <1>9, RedrawnBoxes DEF Agree
<1>. HIDE DEF r
<1>11. r \in Differ(t, Radioed) /\ r.checked = w.checked /\ r.radios = w.radios
  BY <1>8, <1>10 DEF Differ, Fields, Checks, Radioed, Drawn
<1>12. Chosen(t, n, v, r)
  BY <1>3, <1>5, <1>7, <1>8, <1>11 DEF Chosen
<1>. QED  BY <1>12 DEF r, w, c

\* A radio button that is clicked, or set, excludes the others.
THEOREM RadioChooses ==
  ASSUME NEW t, Agree(t), NEW n \in Node, t.setting.style = "radio"
  PROVE  /\ Chosen(t, n, n \notin t.checked, ToggleCheck(t, n))
         /\ \A v, flag \in BOOLEAN : CheckNode(t, n, v, flag) # t
              => n \notin Fixed(t) /\ Chosen(t, n, v, CheckNode(t, n, v, flag))
<1>1. Chosen(t, n, n \notin t.checked, ToggleCheck(t, n))
  <2>. DEFINE v == n \notin t.checked
              r(x) == LET c == [t EXCEPT !.checked = Assign(@, n, x)]
                          w == CheckNodeRelation(c, n)
                      IN  RepairParentChkClassWithSelf(SetChkClass(w, n), n)
  <2>1. ToggleCheck(t, n) = r(v)
    BY DEF ToggleCheck
  <2>2. \A x \in BOOLEAN : Chosen(t, n, x, r(x))
    BY RelationChooses
  <2>. HIDE DEF v, r
  <2>3. v \in BOOLEAN
    BY DEF v
  <2>. QED  BY <2>1, <2>2, <2>3 DEF v
<1>2. ASSUME NEW v \in BOOLEAN, NEW flag \in BOOLEAN, CheckNode(t, n, v, flag) # t
      PROVE  n \notin Fixed(t) /\ Chosen(t, n, v, CheckNode(t, n, v, flag))
  <2>. DEFINE c == [t EXCEPT !.checked = Assign(@, n, v)]
              w == CheckNodeRelation(c, n)
              r == RepairParentChkClassWithSelf(SetChkClass(w, n), n)
  <2>1. n \notin Fixed(t) /\ CheckNode(t, n, v, flag) = r
    BY <1>2 DEF CheckNode
  <2>2. Chosen(t, n, v, r)
    BY RelationChooses
  <2>. QED  BY <2>1, <2>2
<1>. QED  BY <1>1, <1>2

-----------------------------------------------------------------------------
(* What the boxes say.                                                     *)

\* Nothing in S has a flaw: the data half check it, or it cannot change and has
\* sons.  A node is simple if nothing that is below it has one.
Flawless(t, S) ==
  \A q \in S : Kids(t, q) \subseteq S /\ q \notin t.half /\ (q \in Fixed(t) => ~HasKids(t, q))
Simple(t, n) == \E S \in SUBSET Node : n \in S /\ Flawless(t, S)

\* To set the state of n anew makes no difference: n says the same to its
\* parent, and looks the same, as it does in the document.
Says(t, n) ==
  /\ SonFlag(t, n) = SonFlag(MakeChkFlag(t, n), n)
  /\ ChkImage(t, n) = ChkImage(MakeChkFlag(t, n), n)
  /\ HasKids(t, n) \/ t.state[n] = -1
Right(t, n) == Says(t, n) /\ (n \in t.li \ t.nocheck => t.box[n] = ChkImage(t, n))

\* All simple nodes are right, but for those of X.
SettledBut(t, X) == t.setting.enable => \A n \in t.cached \ X : Simple(t, n) => Right(t, n)
Settled(t) == SettledBut(t, {})

\* t and u agree on what a box says by itself.
SameBox(t, u, n) ==
  /\ u.setting = t.setting /\ u.state[n] = t.state[n]
  /\ n \in u.checked <=> n \in t.checked
  /\ n \in u.nocheck <=> n \in t.nocheck
  /\ n \in u.disabled <=> n \in t.disabled
  /\ n \in u.half <=> n \in t.half

LEMMA AlikeSay ==
  ASSUME NEW t, NEW u, NEW n, SameBox(t, u, n)
  PROVE  SonFlag(t, n) = SonFlag(u, n) /\ ChkImage(t, n) = ChkImage(u, n)
<1>1. SonFlag(t, n) = SonFlag(u, n)
  BY DEF SameBox, SonFlag, Fixed
<1>2. ChkImage(t, n) = ChkImage(u, n)
  BY DEF SameBox, ChkImage
<1>. QED  BY <1>1, <1>2

\* The flag of a box depends on what its sons say.
LEMMA FlagSame ==
  ASSUME NEW t \in Tree, NEW u \in Tree, NEW n \in Node \cup {Root}, u.setting = t.setting,
         Kids(u, n) = Kids(t, n), \A c \in Kids(t, n) : SonFlag(u, c) = SonFlag(t, c)
  PROVE  ChkFlag(u, n) = ChkFlag(t, n)
<1>1. {SonFlag(u, c) : c \in Kids(u, n)} = {SonFlag(t, c) : c \in Kids(t, n)}
  OBVIOUS
<1>2. ChkFlag(t, n) = Verdict(t, {SonFlag(t, c) : c \in Kids(t, n)})
  BY FlagOfSons
<1>3. ChkFlag(u, n) = Verdict(u, {SonFlag(u, c) : c \in Kids(u, n)})
  BY FlagOfSons
<1>. QED  BY <1>1, <1>2, <1>3 DEF Verdict

LEMMA LeafFlag ==
  ASSUME NEW t \in Tree, NEW n \in Node, ~HasKids(t, n)
  PROVE  ChkFlag(t, n) = -1
<1>1. Kids(t, n) = {}
  BY KidsAre
<1>2. ChkFlag(t, n) = Verdict(t, {SonFlag(t, c) : c \in Kids(t, n)})
  BY FlagOfSons
<1>3. {SonFlag(t, c) : c \in Kids(t, n)} = {}
  BY <1>1
<1>. QED  BY <1>2, <1>3 DEF Verdict

LEMMA MadeFlag ==
  ASSUME NEW t \in Tree, NEW n \in Node
  PROVE  LET u == MakeChkFlag(t, n) IN
         /\ u \in Differ(t, {"state"}) /\ u.state[n] = ChkFlag(t, n)
         /\ \A m \in Node : m # n => u.state[m] = t.state[m]
<1>1. MakeChkFlag(t, n) \in Differ(t, {"state"})
  BY MakeChkFlagDiffers
<1>2. t.state \in [Node -> -1 .. 2]
  BY DEF Tree
<1>3. MakeChkFlag(t, n).state = [t.state EXCEPT ![n] = ChkFlag(t, n)]
  BY DEF MakeChkFlag, Tree
<1>. QED  BY <1>1, <1>2, <1>3

\* What is right in t is right in u, if the node and its sons say the same.
LEMMA SaysStays ==
  ASSUME NEW t \in Tree, NEW u \in Tree, NEW n \in Node, SameBox(t, u, n), Kids(u, n) = Kids(t, n),
         \A c \in Kids(t, n) : SonFlag(u, c) = SonFlag(t, c), Says(t, n)
  PROVE  Says(u, n)
<1>. DEFINE s == MakeChkFlag(t, n)
            v == MakeChkFlag(u, n)
<1>1. /\ s \in Differ(t, {"state"}) /\ s.state[n] = ChkFlag(t, n)
      /\ v \in Differ(u, {"state"}) /\ v.state[n] = ChkFlag(u, n)
  BY MadeFlag
<1>2. ChkFlag(u, n) = ChkFlag(t, n)
  BY FlagSame DEF SameBox
<1>. HIDE DEF s, v
<1>3. SameBox(s, v, n)
  BY <1>1, <1>2 DEF SameBox, Differ, Fields
<1>4. SonFlag(s, n) = SonFlag(v, n) /\ ChkImage(s, n) = ChkImage(v, n)
  BY <1>3, AlikeSay
<1>5. SonFlag(t, n) = SonFlag(u, n) /\ ChkImage(t, n) = ChkImage(u, n)
  BY AlikeSay
<1>6. HasKids(t, n) <=> HasKids(u, n)
  BY KidsAre
<1>7. u.state[n] = t.state[n]
  BY DEF SameBox
<1>. QED  BY <1>4, <1>5, <1>6, <1>7 DEF Says, s, v

LEMMA RightStays ==
  ASSUME NEW t \in Tree, NEW u \in Tree, NEW n \in Node, SameBox(t, u, n), Kids(u, n) = Kids(t, n),
         \A c \in Kids(t, n) : SonFlag(u, c) = SonFlag(t, c),
         u.box[n] = t.box[n], n \in u.li => n \in t.li, Right(t, n)
  PROVE  Right(u, n)
<1>1. ChkImage(u, n) = ChkImage(t, n) /\ (n \in u.nocheck <=> n \in t.nocheck)
  BY AlikeSay DEF SameBox
<1>2. Says(u, n)
  BY SaysStays DEF Right
<1>. QED  BY <1>1, <1>2 DEF Right

\* What is simple is so by its sons and by the flags that say who can change.
LEMMA SimpleStays ==
  ASSUME NEW t, NEW u, u.kids = t.kids, u.half = t.half, Fixed(u) = Fixed(t), NEW n, Simple(u, n)
  PROVE  Simple(t, n)
BY DEF Simple, Flawless, Kids, HasKids

LEMMA SimpleDown ==
  ASSUME NEW t, NEW n, Simple(t, n), NEW k \in Kids(t, n)
  PROVE  Simple(t, k)
BY DEF Simple, Flawless

LEMMA SimpleIs ==
  ASSUME NEW t, NEW n, Simple(t, n)
  PROVE  n \in Node /\ n \notin t.half /\ (n \in Fixed(t) => ~HasKids(t, n))
BY DEF Simple, Flawless

LEMMA SettledLess ==
  ASSUME NEW t, NEW X, NEW Z, X \cap t.cached \subseteq Z, SettledBut(t, X)
  PROVE  SettledBut(t, Z)
BY DEF SettledBut

\* Nobody is the own parent.
LEMMA NotOwnParent ==
  ASSUME NEW t, Agree(t), NEW n \in Node
  PROVE  /\ t.parent[n] # n
         /\ \A c \in Kids(t, n) : c \in Node /\ c # n /\ t.parent[c] = n /\ c \in t.cached
<1>1. PICK N \in Nat : \E depth \in [Node -> 0 .. N] :
               \A m \in Node : t.parent[m] # Root => depth[t.parent[m]] < depth[m]
  BY DEF Agree, ParentsEnd
<1>2. PICK depth \in [Node -> 0 .. N] :
               \A m \in Node : t.parent[m] # Root => depth[t.parent[m]] < depth[m]
  BY <1>1
<1>3. depth[n] \in 0 .. N /\ Root # n
  BY TreeAssumption
<1>4. t.parent[n] # n
  BY <1>2, <1>3
<1>5. \A c \in Kids(t, n) : c \in t.cached /\ t.parent[c] = n
  BY DEF Agree
<1>6. t.cached \subseteq Node
  BY DEF Agree, Tree
<1>. QED  BY <1>4, <1>5, <1>6

\* u is t, apart from the boxes of Y; the states of leaves stay what they are.
Touched(t, u, Y) ==
  /\ u \in Differ(t, Checks)
  /\ \A m \in Node \ Y : /\ u.state[m] = t.state[m] /\ u.box[m] = t.box[m]
                         /\ m \in u.checked <=> m \in t.checked
  /\ \A m \in Node : ~HasKids(t, m) /\ t.state[m] = -1 => u.state[m] = -1

ParentsOf(t, Y) == {t.parent[y] : y \in Y}

LEMMA TouchedFields ==
  ASSUME NEW t, Agree(t), NEW Y, NEW u, Touched(t, u, Y)
  PROVE  /\ Agree(u) /\ u \in Tree
         /\ u.cached = t.cached /\ u.kids = t.kids /\ u.parent = t.parent /\ u.setting = t.setting
         /\ u.half = t.half /\ u.nocheck = t.nocheck /\ u.disabled = t.disabled /\ u.li = t.li
         /\ Fixed(u) = Fixed(t)
         /\ \A n : HasKids(u, n) <=> HasKids(t, n)
         /\ \A n : Kids(u, n) = Kids(t, n)
         /\ \A n : Simple(u, n) <=> Simple(t, n)
         /\ \A m \in Node \ Y : SameBox(t, u, m)
<1>1. u \in Differ(t, Checks) /\ Checks \cap Family3 = {}
  BY DEF Touched, Checks, Family3
<1>2. Agree(u)
  BY <1>1, AgreeStays
<1>3. /\ u.cached = t.cached /\ u.kids = t.kids /\ u.parent = t.parent /\ u.setting = t.setting
      /\ u.half = t.half /\ u.nocheck = t.nocheck /\ u.disabled = t.disabled /\ u.li = t.li
  BY <1>1 DEF Differ, Fields, Checks
<1>4. Fixed(u) = Fixed(t) /\ (\A n : HasKids(u, n) <=> HasKids(t, n)) /\ (\A n : Kids(u, n) = Kids(t, n))
  BY <1>3 DEF Fixed, HasKids, Kids
<1>5. \A n : Simple(u, n) <=> Simple(t, n)
  BY <1>3, <1>4, SimpleStays
<1>6. \A m \in Node \ Y : SameBox(t, u, m)
  BY <1>3 DEF SameBox, Touched
<1>7. u \in Tree
  BY <1>1 DEF Differ
<1>. QED  BY <1>2, <1>3, <1>4, <1>5, <1>6, <1>7

LEMMA Disturbed ==
  ASSUME NEW t, Agree(t), NEW Y \in SUBSET Node, NEW u, Touched(t, u, Y), NEW X, SettledBut(t, X)
  PROVE  SettledBut(u, X \cup Y \cup ParentsOf(t, Y))
<1>1. /\ Agree(u) /\ u \in Tree
      /\ u.cached = t.cached /\ u.setting = t.setting /\ u.li = t.li
      /\ \A n : Kids(u, n) = Kids(t, n)
      /\ \A n : Simple(u, n) <=> Simple(t, n)
      /\ \A m \in Node \ Y : SameBox(t, u, m)
  BY TouchedFields
<1>2. t \in Tree /\ t.cached \subseteq Node
  BY DEF Agree, Tree
<1>. SUFFICES ASSUME t.setting.enable, NEW n \in t.cached \ (X \cup Y \cup ParentsOf(t, Y)), Simple(t, n)
              PROVE  Right(u, n)
  BY <1>1 DEF SettledBut
<1>3. Right(t, n) /\ n \in Node \ Y
  BY <1>2 DEF SettledBut
<1>4. ASSUME NEW c \in Kids(t, n) PROVE SonFlag(u, c) = SonFlag(t, c)
  <2>1. c \in Node /\ t.parent[c] = n
    BY <1>3, NotOwnParent
  <2>2. c \in Node \ Y
    BY <2>1 DEF ParentsOf
  <2>. QED  BY <1>1, <2>2, AlikeSay
<1>5. u.box[n] = t.box[n]
  BY <1>3 DEF Touched
<1>. QED  BY <1>1, <1>2, <1>3, <1>4, <1>5, RightStays

\* The state of n is set anew, and its box, if it has one: n is right, and its
\* parent may have to follow.
LEMMA MadeRight ==
  ASSUME NEW t, Agree(t), NEW n \in Node, NEW u, Touched(t, u, {n}), u.checked = t.checked,
         u.state[n] = ChkFlag(t, n), n \in u.li \ u.nocheck => u.box[n] = ChkImage(u, n)
  PROVE  Right(u, n)
<1>1. /\ Agree(u) /\ u \in Tree /\ t \in Tree /\ u.setting = t.setting
      /\ \A m : Kids(u, m) = Kids(t, m)
      /\ \A m : HasKids(u, m) <=> HasKids(t, m)
      /\ \A m \in Node \ {n} : SameBox(t, u, m)
  BY TouchedFields DEF Agree
<1>2. ASSUME NEW c \in Kids(t, n) PROVE SonFlag(u, c) = SonFlag(t, c)
  BY <1>1, NotOwnParent, AlikeSay
<1>3. ChkFlag(u, n) = ChkFlag(t, n)
  BY <1>1, <1>2, FlagSame
<1>. DEFINE v == MakeChkFlag(u, n)
<1>4. v \in Differ(u, {"state"}) /\ v.state[n] = ChkFlag(u, n)
  BY <1>1, MadeFlag
<1>. HIDE DEF v
<1>5. SameBox(u, v, n)
  BY <1>3, <1>4 DEF SameBox, Differ, Fields
<1>6. SonFlag(u, n) = SonFlag(v, n) /\ ChkImage(u, n) = ChkImage(v, n)
  BY <1>5, AlikeSay
<1>7. HasKids(u, n) \/ u.state[n] = -1
  BY <1>1, LeafFlag
<1>. QED  BY <1>6, <1>7 DEF Right, Says, v

LEMMA TouchedNot ==
  ASSUME NEW t \in Tree, NEW Y
  PROVE  Touched(t, t, Y)
BY DifferNot DEF Touched

LEMMA TouchedChain ==
  ASSUME NEW t \in Tree, NEW Y, NEW Z, NEW u, Touched(t, u, Y), NEW w, Touched(u, w, Z)
  PROVE  Touched(t, w, Y \cup Z)
<1>1. u \in Differ(t, Checks) /\ w \in Differ(u, Checks)
  BY DEF Touched
<1>2. w \in Differ(t, Checks)
  BY <1>1, DifferChain
<1>3. \A m : HasKids(u, m) <=> HasKids(t, m)
  BY <1>1 DEF Differ, Fields, Checks, HasKids
<1>4. ASSUME NEW m \in Node \ (Y \cup Z)
      PROVE  w.state[m] = t.state[m] /\ w.box[m] = t.box[m] /\ (m \in w.checked <=> m \in t.checked)
  BY DEF Touched
<1>5. ASSUME NEW m \in Node, ~HasKids(t, m), t.state[m] = -1
      PROVE  w.state[m] = -1
  BY <1>3, <1>5 DEF Touched
<1>. QED  BY <1>2, <1>4, <1>5 DEF Touched

LEMMA TouchedMore ==
  ASSUME NEW t, NEW Y, NEW Z, Y \subseteq Z, NEW u, Touched(t, u, Y)
  PROVE  Touched(t, u, Z)
BY DEF Touched

\* A box is drawn anew.
LEMMA ClassIs ==
  ASSUME NEW t \in Tree, NEW n \in Node
  PROVE  LET u == SetChkClass(t, n) IN
         /\ u \in Differ(t, {"box"}) /\ Touched(t, u, {n}) /\ SameBox(t, u, n)
         /\ u.checked = t.checked /\ u.state = t.state
         /\ t.setting.enable /\ n \in u.li => u.box[n] = ChkImage(u, n)
<1>. DEFINE u == SetChkClass(t, n)
<1>1. u \in Differ(t, {"box"})
  BY SetChkClassDiffers
<1>2. /\ u.checked = t.checked /\ u.state = t.state /\ u.li = t.li /\ u.setting = t.setting
      /\ u.nocheck = t.nocheck /\ u.disabled = t.disabled /\ u.half = t.half
  BY <1>1 DEF Differ, Fields
<1>3. t.box \in [Node -> Image \cup {Nothing}]
  BY DEF Tree
<1>4. u.box = IF HasBox(t, n) THEN [t.box EXCEPT ![n] = ChkImage(t, n)] ELSE t.box
  BY DEF SetChkClass, Tree
<1>. HIDE DEF u
<1>5. \A m \in Node \ {n} : u.box[m] = t.box[m]
  BY <1>3, <1>4
<1>6. HasBox(t, n) => u.box[n] = ChkImage(t, n)
  BY <1>3, <1>4
<1>7. SameBox(t, u, n)
  BY <1>2 DEF SameBox
<1>8. u \in Differ(t, Checks)
  BY <1>1 DEF Differ, Checks
<1>9. Touched(t, u, {n})
  BY <1>2, <1>5, <1>8 DEF Touched
<1>10. ChkImage(u, n) = ChkImage(t, n)
  BY <1>7, AlikeSay
<1>. QED  BY <1>1, <1>2, <1>6, <1>7, <1>9, <1>10 DEF u, HasBox

LEMMA FlagTouches ==
  ASSUME NEW t \in Tree, NEW n \in Node
  PROVE  LET u == MakeChkFlag(t, n) IN
         /\ Touched(t, u, {n}) /\ u.checked = t.checked /\ u.box = t.box
         /\ u.state[n] = ChkFlag(t, n)
<1>. DEFINE u == MakeChkFlag(t, n)
<1>1. /\ u \in Differ(t, {"state"}) /\ u.state[n] = ChkFlag(t, n)
      /\ \A m \in Node : m # n => u.state[m] = t.state[m]
  BY MadeFlag
<1>. HIDE DEF u
<1>2. u.checked = t.checked /\ u.box = t.box /\ u \in Differ(t, Checks)
  BY <1>1 DEF Differ, Fields, Checks
<1>3. ~HasKids(t, n) => u.state[n] = -1
  BY <1>1, LeafFlag
<1>4. Touched(t, u, {n})
  BY <1>1, <1>2, <1>3 DEF Touched
<1>. QED  BY <1>1, <1>2, <1>4 DEF u

LEMMA AssignTouches ==
  ASSUME NEW t \in Tree, NEW n \in Node, NEW v \in BOOLEAN
  PROVE  LET u == [t EXCEPT !.checked = Assign(@, n, v)] IN
         /\ u \in Differ(t, {"checked"}) /\ Touched(t, u, {n})
         /\ u.checked = Assign(t.checked, n, v)
<1>. DEFINE u == [t EXCEPT !.checked = Assign(@, n, v)]
<1>1. u \in Differ(t, {"checked"}) /\ u.checked = Assign(t.checked, n, v)
  BY DEF Tree, Differ, Fields, Assign
<1>. HIDE DEF u
<1>2. u \in Differ(t, Checks) /\ u.state = t.state /\ u.box = t.box
  BY <1>1 DEF Differ, Fields, Checks
<1>3. \A m \in Node \ {n} : m \in u.checked <=> m \in t.checked
  BY <1>1 DEF Assign
<1>4. Touched(t, u, {n})
  BY <1>2, <1>3 DEF Touched
<1>. QED  BY <1>1, <1>4 DEF u

LEMMA RepairTouches ==
  ASSUME NEW t \in Tree, NEW n \in Node
  PROVE  LET u == RepairChkClass(t, n) IN
         /\ Touched(t, u, {n}) /\ u.checked = t.checked /\ u.state[n] = ChkFlag(t, n)
         /\ t.setting.enable /\ n \in u.li \ u.nocheck => u.box[n] = ChkImage(u, n)
<1>. DEFINE w == MakeChkFlag(t, n)
            u == SetChkClass(w, n)
<1>1. /\ Touched(t, w, {n}) /\ w.checked = t.checked /\ w.box = t.box
      /\ w.state[n] = ChkFlag(t, n)
  BY FlagTouches
<1>. HIDE DEF w
<1>2. w \in Tree /\ w.setting = t.setting /\ w.nocheck = t.nocheck
  BY <1>1 DEF Touched, Differ, Fields, Checks
<1>3. /\ Touched(w, u, {n}) /\ u.checked = w.checked /\ u.state = w.state
      /\ w.setting.enable /\ n \in u.li => u.box[n] = ChkImage(u, n)
  BY <1>2, ClassIs
<1>. HIDE DEF u
<1>4. {n} \cup {n} = {n}
  OBVIOUS
<1>5. Touched(t, u, {n})
  BY <1>1, <1>3, <1>4, TouchedChain
<1>6. CASE n \in t.nocheck
  <2>1. RepairChkClass(t, n) = w
    BY <1>6 DEF RepairChkClass, w
  <2>. QED  BY <1>1, <1>2, <1>6, <2>1
<1>7. CASE n \notin t.nocheck
  <2>1. RepairChkClass(t, n) = u
    BY <1>7 DEF RepairChkClass, w, u
  <2>. QED  BY <1>1, <1>2, <1>3, <1>5, <2>1
<1>. QED  BY <1>6, <1>7

LEMMA MarkTouches ==
  ASSUME NEW t \in Tree, NEW n \in Node, NEW v \in BOOLEAN
  PROVE  Touched(t, MarkParent(t, n, v), {n})
<1>. DEFINE w == MakeChkFlag(t, n)
            c == [w EXCEPT !.checked = Assign(@, n, v)]
<1>1. Touched(t, w, {n}) /\ {n} \cup {n} = {n}
  BY FlagTouches
<1>. HIDE DEF w
<1>2. w \in Tree
  BY <1>1 DEF Touched, Differ
<1>3. Touched(w, c, {n})
  BY <1>2, AssignTouches
<1>. HIDE DEF c
<1>4. c \in Tree
  BY <1>3 DEF Touched, Differ
<1>5. Touched(c, SetChkClass(c, n), {n})
  BY <1>4, ClassIs
<1>6. Touched(t, c, {n})
  BY <1>1, <1>3, TouchedChain
<1>7. Touched(t, SetChkClass(c, n), {n})
  BY <1>1, <1>5, <1>6, TouchedChain
<1>. QED  BY <1>1, <1>7 DEF MarkParent, c, w

-----------------------------------------------------------------------------
(* What settles a tree.                                                    *)

LEMMA ClassSettles ==
  ASSUME NEW t, Agree(t), NEW n \in Node, NEW X, SettledBut(t, X)
  PROVE  SettledBut(SetChkClass(t, n), X)
<1>. DEFINE u == SetChkClass(t, n)
<1>1. /\ Touched(t, u, {n}) /\ SameBox(t, u, n)
      /\ t.setting.enable /\ n \in u.li => u.box[n] = ChkImage(u, n)
      /\ t \in Tree /\ t.cached \subseteq Node
  BY ClassIs DEF Agree, Tree
<1>. HIDE DEF u
<1>2. /\ Agree(u) /\ u \in Tree
      /\ u.cached = t.cached /\ u.setting = t.setting /\ u.li = t.li /\ u.nocheck = t.nocheck
      /\ \A m : Kids(u, m) = Kids(t, m)
      /\ \A m : Simple(u, m) <=> Simple(t, m)
      /\ \A m \in Node \ {n} : SameBox(t, u, m)
  BY <1>1, TouchedFields
<1>3. \A m \in Node : SameBox(t, u, m) /\ SonFlag(u, m) = SonFlag(t, m) /\ ChkImage(u, m) = ChkImage(t, m)
  BY <1>1, <1>2, AlikeSay
<1>. SUFFICES ASSUME t.setting.enable, NEW m \in t.cached \ X, Simple(t, m)
              PROVE  Right(u, m)
  BY <1>2 DEF SettledBut, u
<1>4. Right(t, m) /\ m \in Node
  BY <1>1 DEF SettledBut
<1>5. Says(u, m)
  BY <1>1, <1>2, <1>3, <1>4, NotOwnParent, SaysStays DEF Right
<1>6. m # n => u.box[m] = t.box[m]
  BY <1>1, <1>4 DEF Touched
<1>. QED  BY <1>1, <1>2, <1>3, <1>4, <1>5, <1>6 DEF Right

\* The state of a node that is right may be set anew.
LEMMA FlagSettles ==
  ASSUME NEW t, Agree(t), NEW n \in Node, NEW X, SettledBut(t, X), n \notin X \/ n \notin t.cached
  PROVE  SettledBut(MakeChkFlag(t, n), X)
<1>. DEFINE u == MakeChkFlag(t, n)
<1>1. /\ Touched(t, u, {n}) /\ u.checked = t.checked /\ u.box = t.box
      /\ u.state[n] = ChkFlag(t, n) /\ t \in Tree /\ t.cached \subseteq Node
  BY FlagTouches DEF Agree, Tree
<1>2. /\ Agree(u) /\ u \in Tree
      /\ u.cached = t.cached /\ u.setting = t.setting /\ u.li = t.li /\ u.nocheck = t.nocheck
      /\ \A m : Kids(u, m) = Kids(t, m)
      /\ \A m : Simple(u, m) <=> Simple(t, m)
      /\ \A m \in Node \ {n} : SameBox(t, u, m)
  BY <1>1, TouchedFields
<1>. SUFFICES ASSUME t.setting.enable, NEW m \in t.cached \ X, Simple(t, m)
              PROVE  Right(u, m)
  BY <1>2 DEF SettledBut
<1>3. Right(t, m) /\ m \in Node
  BY <1>1 DEF SettledBut
<1>4. CASE m = n
  <2>1. n \in u.li \ u.nocheck => u.box[n] = ChkImage(u, n)
    BY <1>1, <1>2, <1>3, <1>4 DEF Right, Says
  <2>. HIDE DEF u
  <2>. QED  BY <1>1, <1>4, <2>1, MadeRight
<1>5. CASE m # n
  <2>1. ASSUME NEW c \in Kids(t, m) PROVE SonFlag(u, c) = SonFlag(t, c)
    <3>1. c \in Node /\ c \in t.cached
      BY <1>3, NotOwnParent
    <3>2. CASE c = n
      <4>1. Simple(t, n) /\ n \in t.cached \ X
        BY <3>1, <3>2, SimpleDown
      <4>2. Right(t, n)
        BY <4>1 DEF SettledBut
      <4>. QED  BY <3>2, <4>2 DEF Right, Says
    <3>3. CASE c # n
      BY <1>2, <3>1, <3>3, AlikeSay
    <3>. QED  BY <3>2, <3>3
  <2>. HIDE DEF u
  <2>2. SameBox(t, u, m)
    BY <1>2, <1>3, <1>5
  <2>. QED  BY <1>1, <1>2, <1>3, <2>1, <2>2, RightStays
<1>. QED  BY <1>4, <1>5

\* A node whose state is set anew when its sons are right is right, if its box
\* is; what is above it may have to follow.
LEMMA MadeSettles ==
  ASSUME NEW t, Agree(t), NEW n \in Node, NEW u, Touched(t, u, {n}), u.checked = t.checked,
         u.state[n] = ChkFlag(t, n),
         t.setting.enable /\ n \in u.li \ u.nocheck => u.box[n] = ChkImage(u, n),
         NEW X, SettledBut(t, X)
  PROVE  SettledBut(u, (X \ {n}) \cup {t.parent[n]})
<1>1. SettledBut(u, X \cup {n} \cup ParentsOf(t, {n}))
  BY Disturbed
<1>2. ParentsOf(t, {n}) = {t.parent[n]}
  BY DEF ParentsOf
<1>3. u.setting = t.setting
  BY TouchedFields
<1>4. u.setting.enable => Right(u, n)
  BY <1>3, MadeRight
<1>. QED  BY <1>1, <1>2, <1>4 DEF SettledBut

LEMMA RepairSettles ==
  ASSUME NEW t, Agree(t), NEW n \in Node, NEW X, SettledBut(t, X)
  PROVE  SettledBut(RepairChkClass(t, n), (X \ {n}) \cup {t.parent[n]})
<1>1. LET u == RepairChkClass(t, n) IN
      /\ Touched(t, u, {n}) /\ u.checked = t.checked /\ u.state[n] = ChkFlag(t, n)
      /\ t.setting.enable /\ n \in u.li \ u.nocheck => u.box[n] = ChkImage(u, n)
  BY RepairTouches DEF Agree
<1>. QED  BY <1>1, MadeSettles

\* A leaf with the state of a leaf.
LEMMA LeafSays ==
  ASSUME NEW t \in Tree, NEW n \in Node, ~HasKids(t, n), t.state[n] = -1
  PROVE  Says(t, n)
<1>. DEFINE v == MakeChkFlag(t, n)
<1>1. v \in Differ(t, {"state"}) /\ v.state[n] = ChkFlag(t, n)
  BY MadeFlag
<1>. HIDE DEF v
<1>2. SameBox(t, v, n)
  BY <1>1, LeafFlag DEF SameBox, Differ, Fields
<1>3. SonFlag(t, n) = SonFlag(v, n) /\ ChkImage(t, n) = ChkImage(v, n)
  BY <1>2, AlikeSay
<1>. QED  BY <1>3 DEF Says, v

\* What is above n is repaired.
LEMMA PathSettles ==
  ASSUME NEW t, Agree(t), NEW n \in Node, NEW X, SettledBut(t, X \cup Range(Above(t, n)))
  PROVE  SettledBut(RepairParentChkClass(t, n), X)
<1>. DEFINE T == Differ(t, Drawn)
            s == Above(t, n)
            l == <<n>> \o s
            k == Len(s)
            rest(i) == {s[j] : j \in i + 1 .. k}
<1>1. t \in Tree /\ ParentsEnd(t) /\ t.cached \subseteq Node /\ Root \notin t.cached
  BY TreeAssumption DEF Agree, Tree
<1>2. s \in Seq(Node) /\ Ladder(t, n, l)
  BY <1>1, AboveIs, PathUp
<1>3. RepairParentChkClass(t, n) = Repairs!Along(t, s, 0)
  BY DEF RepairParentChkClass, Each, Repairs!Along, RepairBox
<1>. HIDE DEF s
<1>4. k \in Nat /\ Len(l) = k + 1 /\ \A i \in 1 .. k : s[i] \in Node /\ l[i + 1] = s[i]
  BY <1>2
<1>5. ASSUME NEW i \in 1 .. k
      PROVE  IF i = k THEN t.parent[s[i]] = Root ELSE t.parent[s[i]] = s[i + 1]
  <2>1. i + 1 \in 1 .. Len(l) /\ l[i + 1] = s[i] /\ Len(l) = k + 1
    BY <1>4
  <2>2. i # k => i + 1 \in 1 .. k /\ l[(i + 1) + 1] = s[i + 1]
    BY <1>4
  <2>. QED  BY <1>2, <2>1, <2>2 DEF Ladder
<1>. HIDE DEF l
<1>6. \A w \in T : \A m \in Node : RepairBox(w, m, 0) \in T
  <2>. SUFFICES ASSUME NEW w \in T, NEW m \in Node PROVE RepairChkClass(w, m) \in T
    BY DEF RepairBox
  <2>1. w \in Tree
    BY DEF Differ
  <2>2. RepairChkClass(w, m) \in Differ(w, Drawn)
    BY <2>1, RepairDiffers
  <2>. QED  BY <1>1, <2>2, DifferChain
<1>7. t \in T
  BY <1>1, DifferNot
<1>8. \A u \in T : Agree(u) /\ u.parent = t.parent /\ u.cached = t.cached
  <2>1. Drawn \cap Family3 = {}
    BY DEF Drawn, Family3
  <2>. QED  BY <2>1, AgreeStays
<1>. HIDE DEF T
<1>9. PICK q : Repairs!Path(q, T, t, s, 0) /\ Repairs!Along(t, s, 0) = q[k]
  <2>1. Repairs!Keeps(Node, T, 0)
    BY <1>6 DEF Repairs!Keeps
  <2>. QED  BY <1>2, <1>7, <2>1, Repairs!AlongPath
<1>10. /\ q \in [0 .. k -> T] /\ q[0] = t
       /\ \A i \in 1 .. k : q[i] = RepairChkClass(q[i - 1], s[i])
  BY <1>9 DEF Repairs!Path, RepairBox
<1>. DEFINE G == {i \in 0 .. k : SettledBut(q[i], X \cup rest(i))}
<1>11. 0 \in G
  <2>1. Range(s) = rest(0)
    BY <1>2 DEF Range
  <2>2. SettledBut(q[0], X \cup rest(0))
    BY <1>10, <2>1 DEF s
  <2>. QED  BY <1>4, <2>2
<1>12. ASSUME NEW i \in 1 .. k, i - 1 \in G PROVE i \in G
  <2>1. q[i - 1] \in T /\ q[i] = RepairChkClass(q[i - 1], s[i]) /\ q[i] \in T /\ s[i] \in Node
    BY <1>4, <1>10
  <2>2. SettledBut(q[i], ((X \cup rest(i - 1)) \ {s[i]}) \cup {t.parent[s[i]]})
    <3>1. Agree(q[i - 1]) /\ q[i - 1].parent = t.parent /\ SettledBut(q[i - 1], X \cup rest(i - 1))
      BY <1>8, <1>12, <2>1
    <3>. QED  BY <2>1, <3>1, RepairSettles
  <2>3. rest(i - 1) \subseteq rest(i) \cup {s[i]}
    <3>. SUFFICES ASSUME NEW j \in i - 1 + 1 .. k PROVE s[j] \in rest(i) \cup {s[i]}
      OBVIOUS
    <3>1. j = i \/ j \in i + 1 .. k
      BY <1>4
    <3>. QED  BY <3>1
  <2>4. t.parent[s[i]] \in rest(i) \cup {Root}
    <3>1. i # k => i + 1 \in i + 1 .. k
      BY <1>4
    <3>. QED  BY <1>5, <3>1
  <2>. HIDE DEF rest
  <2>5. (((X \cup rest(i - 1)) \ {s[i]}) \cup {t.parent[s[i]]}) \cap q[i].cached \subseteq X \cup rest(i)
    BY <1>1, <1>8, <2>1, <2>3, <2>4
  <2>. QED  BY <1>4, <2>2, <2>5, SettledLess
<1>13. Repairs!Chained(G, k)
  BY <1>4, <1>11, <1>12 DEF Repairs!Chained
<1>14. k \in 0 .. k /\ rest(k) = {}
  BY <1>4
<1>. HIDE DEF G
<1>15. k \in G
  BY <1>13, <1>14, Repairs!ListInduction
<1>16. SettledBut(q[k], X \cup rest(k))
  BY <1>15 DEF G
<1>17. X \cup rest(k) = X
  BY <1>14
<1>. QED  BY <1>3, <1>9, <1>16, <1>17

LEMMA UpwardSplits ==
  ASSUME NEW t, Agree(t), NEW n \in Node
  PROVE  /\ Upward(t, n) = {n} \cup Range(Above(t, n)) /\ Upward(t, n) \in SUBSET Node
         /\ ParentsOf(t, Upward(t, n)) \subseteq Range(Above(t, n)) \cup {Root}
<1>1. t \in Tree /\ ParentsEnd(t)
  BY DEF Agree
<1>2. Upward(t, n) = {n} \cup Range(Above(t, n)) /\ Upward(t, n) \in SUBSET Node
  BY <1>1, UpwardIs DEF Upward
<1>3. ASSUME NEW q \in Upward(t, n), t.parent[q] # Root PROVE t.parent[q] \in Range(Above(t, n))
  <2>1. CASE q = n
    <3>1. Above(t, n) = <<t.parent[n]>> \o Above(t, t.parent[n]) /\ t.parent[n] \in Node
      BY <1>1, <1>3, <2>1, AboveIs
    <3>2. Above(t, t.parent[n]) \in Seq(Node)
      BY <1>1, <3>1, AboveIs
    <3>. QED  BY <2>1, <3>1, <3>2, Joined
  <2>2. CASE q # n
    <3>0. q \in Range(Above(t, n)) /\ t.parent[n] # Root
      <4>1. q \in Range(Above(t, n))
        BY <1>2, <2>2
      <4>2. Range(<<>>) = {}
        BY DEF Range
      <4>. QED  BY <1>1, <4>1, <4>2, AboveIs
    <3>1. Above(t, n) = <<t.parent[n]>> \o Above(t, t.parent[n]) /\ t.parent[n] \in Node
      BY <1>1, <3>0, AboveIs
    <3>2. Above(t, t.parent[n]) \in Seq(Node)
      BY <1>1, <3>1, AboveIs
    <3>3. Range(Above(t, n)) = Upward(t, t.parent[n])
      BY <3>1, <3>2, Joined DEF Upward
    <3>. QED  BY <1>1, <1>3, <3>0, <3>1, <3>3, UpwardCloses
  <2>. QED  BY <2>1, <2>2
<1>. QED  BY <1>2, <1>3 DEF ParentsOf

\* A node and what is above it are repaired, if it is right without or has sons.
LEMMA SelfSettles ==
  ASSUME NEW t, Agree(t), NEW n \in Node, NEW X, SettledBut(t, X \cup Upward(t, n)),
         ~HasKids(t, n) => SettledBut(t, X \cup Range(Above(t, n)))
  PROVE  SettledBut(RepairParentChkClassWithSelf(t, n), X)
<1>1. CASE ~HasKids(t, n)
  BY <1>1, PathSettles DEF RepairParentChkClassWithSelf
<1>2. CASE HasKids(t, n)
  <2>. DEFINE u == RepairChkClass(t, n)
              A == Range(Above(t, n))
  <2>1. u \in Differ(t, Drawn) /\ Drawn \cap Family3 = {} /\ t \in Tree
    BY RepairDiffers DEF Agree, Drawn, Family3
  <2>2. SettledBut(u, ((X \cup Upward(t, n)) \ {n}) \cup {t.parent[n]})
    BY RepairSettles
  <2>. HIDE DEF u
  <2>3. Agree(u) /\ u.cached = t.cached /\ Above(u, n) = Above(t, n)
    BY <2>1, AgreeStays
  <2>4. Upward(t, n) = {n} \cup A /\ t.parent[n] \in A \cup {Root}
    BY UpwardSplits DEF ParentsOf
  <2>5. Root \notin u.cached
    BY <2>1, <2>3, TreeAssumption DEF Tree
  <2>. HIDE DEF A
  <2>6. SettledBut(u, X \cup A)
    BY <2>2, <2>4, <2>5, SettledLess
  <2>7. SettledBut(RepairParentChkClass(u, n), X)
    BY <2>3, <2>6, PathSettles DEF A
  <2>. QED  BY <1>2, <2>7 DEF RepairParentChkClassWithSelf, u
<1>. QED  BY <1>1, <1>2

\* The end of a click: the box is drawn, and repaired with those above it.
LEMMA ClickSettles ==
  ASSUME NEW t, Agree(t), NEW n \in Node, NEW X, SettledBut(t, X \cup Upward(t, n)),
         t.setting.enable /\ Simple(t, n) /\ ~HasKids(t, n) => t.state[n] = -1
  PROVE  SettledBut(RepairParentChkClassWithSelf(SetChkClass(t, n), n), X)
<1>. DEFINE u == SetChkClass(t, n)
            A == Range(Above(t, n))
<1>1. /\ Touched(t, u, {n}) /\ u.state = t.state
      /\ t.setting.enable /\ n \in u.li => u.box[n] = ChkImage(u, n)
  BY ClassIs DEF Agree
<1>2. SettledBut(u, X \cup Upward(t, n))
  BY ClassSettles
<1>. HIDE DEF u
<1>3. /\ Agree(u) /\ u \in Tree /\ u.setting = t.setting
      /\ \A m : HasKids(u, m) <=> HasKids(t, m)
      /\ \A m : Simple(u, m) <=> Simple(t, m)
  BY <1>1, TouchedFields
<1>4. Upward(u, n) = Upward(t, n) /\ Above(u, n) = Above(t, n)
  <2>1. u \in Differ(t, Checks) /\ Checks \cap Family3 = {}
    BY <1>1 DEF Touched, Checks, Family3
  <2>. QED  BY <2>1, AgreeStays
<1>5. ASSUME ~HasKids(u, n) PROVE SettledBut(u, X \cup A)
  <2>1. Upward(t, n) = {n} \cup A
    BY UpwardSplits
  <2>2. t.setting.enable /\ Simple(u, n) => Right(u, n)
    BY <1>1, <1>3, <1>5, LeafSays DEF Right
  <2>. HIDE DEF A
  <2>. QED  BY <1>2, <1>3, <2>1, <2>2 DEF SettledBut
<1>. QED  BY <1>2, <1>3, <1>4, <1>5, SelfSettles DEF u, A

-----------------------------------------------------------------------------
(* The order of a recursion over sons.                                     *)

\* In s, the sons of a node that are in W come before it.
Rising(t, s, W) ==
  \A i \in 1 .. Len(s) : \A k \in Kids(t, s[i]) \cap W : \E j \in 1 .. i - 1 : s[j] = k

LEMMA RisingJoined ==
  ASSUME NEW t, NEW W, NEW a \in Seq(Node), NEW b \in Seq(Node), Rising(t, a, W), Rising(t, b, W)
  PROVE  a \o b \in Seq(Node) /\ Rising(t, a \o b, W)
<1>1. a \o b \in Seq(Node) /\ Len(a \o b) = Len(a) + Len(b) /\ Len(a) \in Nat /\ Len(b) \in Nat
  OBVIOUS
<1>2. ASSUME NEW i \in 1 .. Len(a \o b), NEW k \in Kids(t, (a \o b)[i]) \cap W
      PROVE  \E j \in 1 .. i - 1 : (a \o b)[j] = k
  <2>1. CASE i <= Len(a)
    <3>1. (a \o b)[i] = a[i] /\ i \in 1 .. Len(a)
      BY <1>1, <2>1
    <3>2. PICK j \in 1 .. i - 1 : a[j] = k
      BY <1>2, <3>1 DEF Rising
    <3>3. (a \o b)[j] = a[j]
      BY <1>1, <3>1
    <3>. QED  BY <3>2, <3>3
  <2>2. CASE i > Len(a)
    <3>. DEFINE h == i - Len(a)
    <3>1. h \in 1 .. Len(b) /\ (a \o b)[i] = b[h]
      BY <1>1, <2>2
    <3>2. PICK j \in 1 .. h - 1 : b[j] = k
      BY <1>2, <3>1 DEF Rising
    <3>3. Len(a) + j \in 1 .. i - 1 /\ (a \o b)[Len(a) + j] = b[j]
      BY <1>1, <3>1
    <3>. QED  BY <3>2, <3>3
  <2>. QED  BY <1>1, <2>1, <2>2
<1>. QED  BY <1>1, <1>2 DEF Rising

LEMMA RisingOne ==
  ASSUME NEW t, NEW W, NEW a \in Seq(Node), NEW m \in Node, Rising(t, a, W),
         Kids(t, m) \cap W \subseteq Range(a)
  PROVE  a \o <<m>> \in Seq(Node) /\ Rising(t, a \o <<m>>, W)
<1>. DEFINE b == a \o <<m>>
<1>1. /\ b \in Seq(Node) /\ Len(b) = Len(a) + 1 /\ Len(a) \in Nat /\ b[Len(a) + 1] = m
      /\ \A i \in 1 .. Len(a) : b[i] = a[i]
  OBVIOUS
<1>. HIDE DEF b
<1>2. ASSUME NEW i \in 1 .. Len(b), NEW k \in Kids(t, b[i]) \cap W
      PROVE  \E j \in 1 .. i - 1 : b[j] = k
  <2>1. CASE i <= Len(a)
    <3>1. b[i] = a[i] /\ i \in 1 .. Len(a)
      BY <1>1, <2>1
    <3>2. PICK j \in 1 .. i - 1 : a[j] = k
      BY <1>2, <3>1 DEF Rising
    <3>3. j \in 1 .. Len(a)
      BY <1>1, <3>1
    <3>. QED  BY <1>1, <3>2, <3>3
  <2>2. CASE i > Len(a)
    <3>1. i = Len(a) + 1 /\ k \in Range(a)
      BY <1>1, <1>2, <2>2
    <3>2. PICK j \in 1 .. Len(a) : a[j] = k
      BY <3>1 DEF Range
    <3>. QED  BY <1>1, <3>1, <3>2
  <2>. QED  BY <1>1, <2>1, <2>2
<1>. QED  BY <1>1, <1>2 DEF Rising, b

LEMMA RisingFlat ==
  ASSUME NEW t, NEW W, NEW q \in Seq(Seq(Node)), \A i \in 1 .. Len(q) : Rising(t, q[i], W)
  PROVE  Rising(t, FlattenSeq(q), W)
<1>1. PICK r : Joins(r, q, Seq(Node)) /\ FlattenSeq(q) = r[Len(q)]
  BY FlattenJoins
<1>. DEFINE G == {i \in 0 .. Len(q) : Rising(t, r[i], W)}
<1>2. Len(q) \in Nat
  OBVIOUS
<1>3. 0 \in G
  <2>1. r[0] = <<>>
    BY <1>1 DEF Joins
  <2>. QED  BY <1>2, <2>1 DEF Rising
<1>4. ASSUME NEW i \in 1 .. Len(q), i - 1 \in G PROVE i \in G
  <2>1. r[i - 1] \in Seq(Node) /\ q[i] \in Seq(Node) /\ r[i] = r[i - 1] \o q[i]
    BY <1>1 DEF Joins
  <2>2. Rising(t, r[i - 1], W) /\ Rising(t, q[i], W)
    BY <1>4
  <2>3. Rising(t, r[i], W)
    BY <2>1, <2>2, RisingJoined
  <2>. QED  BY <1>2, <2>3
<1>5. Repairs!Chained(G, Len(q))
  BY <1>2, <1>3, <1>4 DEF Repairs!Chained
<1>. HIDE DEF G
<1>6. Len(q) \in G
  BY <1>2, <1>5, Repairs!ListInduction
<1>. QED  BY <1>1, <1>6 DEF G

\* The nodes below n are listed sons first.
LEMMA BelowRises ==
  ASSUME NEW t, Agree(t), NEW W
  PROVE  \A n \in Node \cup {Root} : Rising(t, Below(t, n), W)
<1>1. t \in Tree /\ SonsEnd(t)
  BY AgreeEnds DEF Agree
<1>2. ASSUME NEW n \in Node \cup {Root}, \A k \in Kids(t, n) : Rising(t, Below(t, k), W)
      PROVE  Rising(t, Below(t, n), W)
  <2>. DEFINE q == [i \in DOMAIN t.kids[n] |-> Below(t, t.kids[n][i]) \o <<t.kids[n][i]>>]
              l == Len(t.kids[n])
  <2>1. /\ t.kids[n] \in Seq(Node) /\ l \in Nat /\ DOMAIN t.kids[n] = 1 .. l
        /\ Kids(t, n) = {t.kids[n][i] : i \in 1 .. l} /\ Kids(t, n) \subseteq Node
    BY <1>1, KidsAre
  <2>2. Below(t, n) = FlattenSeq(q)
    BY <1>1, BelowIs
  <2>3. ASSUME NEW i \in 1 .. l PROVE q[i] \in Seq(Node) /\ Rising(t, q[i], W)
    <3>. DEFINE k == t.kids[n][i]
    <3>1. k \in Kids(t, n) /\ k \in Node
      BY <2>1
    <3>2. q[i] = Below(t, k) \o <<k>>
      BY <2>1
    <3>. HIDE DEF q, k
    <3>3. Below(t, k) \in Seq(Node) /\ Under(t, k) = UNION {{j} \cup Under(t, j) : j \in Kids(t, k)}
      BY <1>1, <3>1, BelowIs
    <3>4. Kids(t, k) \cap W \subseteq Range(Below(t, k))
      BY <3>3 DEF Under
    <3>5. Rising(t, Below(t, k), W)
      BY <1>2, <3>1
    <3>. QED  BY <3>1, <3>2, <3>3, <3>4, <3>5, RisingOne
  <2>4. q \in Seq(Seq(Node)) /\ Len(q) = l
    <3>1. q = [i \in 1 .. l |-> q[i]]
      BY <2>1
    <3>. HIDE DEF q
    <3>. QED  BY <2>1, <2>3, <3>1
  <2>. HIDE DEF q
  <2>. QED  BY <2>2, <2>3, <2>4, RisingFlat
<1>3. PICK N \in Nat : \E height \in [Node -> 0 .. N] :
        \A p \in Node : \A n \in Kids(t, p) : height[n] < height[p]
  BY <1>1 DEF SonsEnd
<1>4. PICK height \in [Node -> 0 .. N] :
        \A p \in Node : \A n \in Kids(t, p) : height[n] < height[p]
  BY <1>3
<1>. DEFINE G == {n \in Node : Rising(t, Below(t, n), W)}
<1>5. Repairs!Inherited(G, Node, height)
  <2>1. height \in [Node -> Nat]
    BY <1>3, <1>4
  <2>2. ASSUME NEW n \in Node, \A y \in Node : height[y] < height[n] => y \in G
        PROVE  n \in G
    <3>1. Kids(t, n) \subseteq Node
      BY <1>1, KidsAre
    <3>2. \A k \in Kids(t, n) : k \in G
      BY <1>4, <2>2, <3>1
    <3>. QED  BY <1>2, <3>2
  <2>. HIDE DEF G
  <2>. QED  BY <2>1, <2>2 DEF Repairs!Inherited
<1>. HIDE DEF G
<1>6. Node \subseteq G
  BY <1>5, Repairs!RankInduction
<1>7. \A n \in Node : Rising(t, Below(t, n), W)
  BY <1>6 DEF G
<1>8. Rising(t, Below(t, Root), W)
  <2>1. Kids(t, Root) \subseteq Node
    BY <1>1, KidsAre
  <2>. QED  BY <1>2, <1>7, <2>1
<1>. QED  BY <1>7, <1>8

\* What is left of such a list.
LEMMA OnlyRises ==
  ASSUME NEW t, NEW S, NEW s \in Seq(Node), Rising(t, s, S)
  PROVE  Rising(t, Only(s, S), S)
<1>. DEFINE q == [i \in DOMAIN s |-> IF s[i] \in S THEN <<s[i]>> ELSE <<>>]
            l == Len(s)
<1>1. q \in Seq(Seq(Node)) /\ Len(q) = l /\ l \in Nat
      /\ \A i \in 1 .. l : s[i] \in Node /\ q[i] = IF s[i] \in S THEN <<s[i]>> ELSE <<>>
  <2>1. l \in Nat /\ DOMAIN s = 1 .. l /\ \A i \in 1 .. l : s[i] \in Node
    OBVIOUS
  <2>2. \A i \in 1 .. l : q[i] = (IF s[i] \in S THEN <<s[i]>> ELSE <<>>) /\ q[i] \in Seq(Node)
    BY <2>1
  <2>3. q = [i \in 1 .. l |-> q[i]]
    BY <2>1
  <2>. HIDE DEF q
  <2>. QED  BY <2>1, <2>2, <2>3
<1>2. Only(s, S) = FlattenSeq(q)
  BY DEF Only
<1>. HIDE DEF q, l
<1>3. PICK r : Joins(r, q, Seq(Node)) /\ FlattenSeq(q) = r[Len(q)]
  BY <1>1, FlattenJoins
<1>. DEFINE G == {i \in 0 .. l : Rising(t, r[i], S) /\ Range(r[i]) = {s[j] : j \in 1 .. i} \cap S}
<1>4. 0 \in G
  <2>1. r[0] = <<>> /\ 0 \in 0 .. l
    BY <1>1, <1>3 DEF Joins
  <2>2. Rising(t, r[0], S)
    BY <2>1 DEF Rising
  <2>3. Range(r[0]) = {} /\ {s[j] : j \in 1 .. 0} \cap S = {}
    BY <2>1 DEF Range
  <2>. QED  BY <2>1, <2>2, <2>3
<1>5. ASSUME NEW i \in 1 .. l, i - 1 \in G PROVE i \in G
  <2>1. r[i - 1] \in Seq(Node) /\ r[i] = r[i - 1] \o q[i] /\ s[i] \in Node
    BY <1>1, <1>3 DEF Joins
  <2>2. Rising(t, r[i - 1], S) /\ Range(r[i - 1]) = {s[j] : j \in 1 .. i - 1} \cap S /\ i \in 0 .. l
    BY <1>1, <1>5
  <2>3. {s[j] : j \in 1 .. i} = {s[j] : j \in 1 .. i - 1} \cup {s[i]}
    <3>1. 1 .. i = (1 .. i - 1) \cup {i}
      BY <1>1
    <3>. QED  BY <3>1
  <2>4. CASE s[i] \notin S
    <3>1. r[i] = r[i - 1]
      BY <1>1, <2>1, <2>4
    <3>. QED  BY <2>2, <2>3, <2>4, <3>1
  <2>5. CASE s[i] \in S
    <3>1. r[i] = r[i - 1] \o <<s[i]>>
      BY <1>1, <2>1, <2>5
    <3>2. Kids(t, s[i]) \cap S \subseteq Range(r[i - 1])
      <4>1. i \in 1 .. Len(s)
        BY DEF l
      <4>2. \A k \in Kids(t, s[i]) \cap S : \E j \in 1 .. i - 1 : s[j] = k
        BY <4>1 DEF Rising
      <4>. QED  BY <2>2, <4>2
    <3>3. Rising(t, r[i], S)
      BY <2>1, <2>2, <3>1, <3>2, RisingOne
    <3>4. Range(r[i]) = Range(r[i - 1]) \cup {s[i]}
      BY <2>1, <3>1, Joined
    <3>. QED  BY <2>2, <2>3, <2>5, <3>3, <3>4
  <2>. QED  BY <2>4, <2>5
<1>6. Repairs!Chained(G, l)
  BY <1>1, <1>4, <1>5 DEF Repairs!Chained
<1>. HIDE DEF G
<1>7. l \in G
  BY <1>1, <1>6, Repairs!ListInduction
<1>. QED  BY <1>1, <1>2, <1>3, <1>7 DEF G

\* The state of a box with sons that was checked, or unchecked, with all below it.
Says2(v) == IF v THEN 2 ELSE 0

\* One node of setSonNodeCheckBox.
LEMMA SetSonBoxIs ==
  ASSUME NEW t \in Tree, NEW n \in Node, NEW v \in BOOLEAN
  PROVE  LET w == SetSonBox(t, n, v)
         IN  /\ Touched(t, w, {n})
             /\ n \in t.disabled => w = t
             /\ n \in t.nocheck \ t.disabled => w.checked = t.checked /\ w.state[n] = -1
             /\ n \notin Fixed(t) =>
                  /\ n \in w.checked <=> v
                  /\ \/ w.state[n] = ChkFlag(t, n)
                     \/ w.state[n] = IF ~HasKids(t, n) THEN -1 ELSE Says2(v)
                  /\ t.setting.enable /\ n \in w.li => w.box[n] = ChkImage(w, n)
<1>. DEFINE hasDisable == Kids(t, n) \cap t.disabled # {}
            f == IF hasDisable /\ n \notin t.nocheck THEN MakeChkFlag(t, n) ELSE t
            s == CASE n \in t.nocheck -> -1
                   [] n \notin t.nocheck /\ hasDisable -> f.state[n]
                   [] OTHER -> IF ~HasKids(t, n) THEN -1 ELSE IF v THEN 2 ELSE 0
            c == IF n \in t.nocheck THEN f.checked ELSE Assign(f.checked, n, v)
            u == [f EXCEPT !.checked = c, !.state[n] = s]
            w == SetChkClass(u, n)
<1>1. /\ Touched(t, f, {n}) /\ f.checked = t.checked /\ f.box = t.box
      /\ hasDisable /\ n \notin t.nocheck => f.state[n] = ChkFlag(t, n)
  <2>1. /\ Touched(t, MakeChkFlag(t, n), {n}) /\ MakeChkFlag(t, n).checked = t.checked
        /\ MakeChkFlag(t, n).box = t.box /\ MakeChkFlag(t, n).state[n] = ChkFlag(t, n)
    BY FlagTouches
  <2>. QED  BY <2>1, TouchedNot
<1>2. f \in Tree /\ f.setting = t.setting /\ f.li = t.li
  BY <1>1 DEF Touched, Differ, Fields, Checks
<1>3. hasDisable => HasKids(t, n)
  BY KidsAre
<1>. HIDE DEF f, hasDisable
<1>4. s \in -1 .. 2 /\ (~HasKids(t, n) => s = -1)
  <2>1. f.state[n] \in -1 .. 2
    BY <1>2 DEF Tree
  <2>2. CASE n \in t.nocheck
    BY <2>2
  <2>3. CASE n \notin t.nocheck /\ hasDisable
    BY <1>3, <2>1, <2>3
  <2>4. CASE n \notin t.nocheck /\ ~hasDisable
    BY <2>4
  <2>. QED  BY <2>2, <2>3, <2>4
<1>5. c \in SUBSET Node /\ \A m \in Node \ {n} : m \in c <=> m \in f.checked
  BY <1>2 DEF Assign, Tree
<1>6. /\ n \in t.nocheck => c = t.checked /\ s = -1
      /\ n \notin t.nocheck => n \in c <=> v
      /\ n \notin t.nocheck => s = IF hasDisable THEN ChkFlag(t, n)
                                   ELSE IF ~HasKids(t, n) THEN -1 ELSE IF v THEN 2 ELSE 0
  <2>1. CASE n \in t.nocheck
    BY <1>1, <2>1
  <2>2. CASE n \notin t.nocheck /\ hasDisable
    <3>1. c = Assign(f.checked, n, v) /\ s = f.state[n]
      BY <2>2
    <3>. HIDE DEF c, s
    <3>. QED  BY <1>1, <2>2, <3>1 DEF Assign
  <2>3. CASE n \notin t.nocheck /\ ~hasDisable
    <3>1. c = Assign(f.checked, n, v) /\ s = IF ~HasKids(t, n) THEN -1 ELSE IF v THEN 2 ELSE 0
      BY <2>3
    <3>. HIDE DEF c, s
    <3>. QED  BY <2>3, <3>1 DEF Assign
  <2>. QED  BY <2>1, <2>2, <2>3
<1>. HIDE DEF s, c
<1>7. /\ u \in Differ(f, {"checked", "state"}) /\ u.checked = c
      /\ u.state = [f.state EXCEPT ![n] = s]
  BY <1>2, <1>4, <1>5 DEF Tree, Differ, Fields
<1>. HIDE DEF u
<1>8. /\ u \in Tree /\ u \in Differ(f, Checks) /\ u.box = f.box /\ u.state[n] = s
      /\ \A m \in Node \ {n} : u.state[m] = f.state[m]
  BY <1>2, <1>7 DEF Differ, Checks, Fields, Tree
<1>9. Touched(f, u, {n})
  <2>1. HasKids(f, n) <=> HasKids(t, n)
    BY <1>1 DEF Touched, Differ, Fields, Checks, HasKids
  <2>. QED  BY <1>4, <1>5, <1>7, <1>8, <2>1 DEF Touched
<1>10. /\ Touched(u, w, {n}) /\ w.checked = u.checked /\ w.state = u.state
       /\ u.setting.enable /\ n \in w.li => w.box[n] = ChkImage(w, n)
  BY <1>8, ClassIs
<1>. HIDE DEF w
<1>11. Touched(t, w, {n})
  <2>1. Touched(t, u, {n} \cup {n})
    BY <1>1, <1>9, TouchedChain
  <2>2. Touched(t, w, {n} \cup {n} \cup {n})
    BY <1>10, <2>1, TouchedChain
  <2>3. {n} \cup {n} \cup {n} = {n}
    OBVIOUS
  <2>. QED  BY <2>2, <2>3
<1>12. u.setting = t.setting
  BY <1>2, <1>7 DEF Differ, Fields
<1>13. CASE n \in t.disabled
  <2>1. SetSonBox(t, n, v) = t
    BY <1>13 DEF SetSonBox
  <2>. QED  BY <1>13, <2>1, TouchedNot DEF Fixed
<1>14. CASE n \notin t.disabled
  <2>1. SetSonBox(t, n, v) = w
    BY <1>14 DEF SetSonBox, w, u, c, s, f, hasDisable
  <2>2. n \notin Fixed(t) <=> n \notin t.nocheck
    BY <1>14 DEF Fixed
  <2>3. n \notin t.nocheck => \/ w.state[n] = ChkFlag(t, n)
                             \/ w.state[n] = IF ~HasKids(t, n) THEN -1 ELSE Says2(v)
    BY <1>6, <1>8, <1>10 DEF Says2
  <2>. QED  BY <1>6, <1>7, <1>8, <1>10, <1>11, <1>12, <1>14, <2>1, <2>2, <2>3
<1>. QED  BY <1>13, <1>14

-----------------------------------------------------------------------------
(* Checking or unchecking a node with its sons settles what is below it.   *)

\* What a box is that was checked, or unchecked, with all below it.
Swept(u, c, v) ==
  IF c \in Fixed(u) THEN u.state[c] = -1
  ELSE c \notin u.half /\ (c \in u.checked <=> v) /\ u.state[c] \in {-1, Says2(v)}

LEMMA SweptSays ==
  ASSUME NEW u, u.setting.style = "checkbox", NEW c, NEW v \in BOOLEAN, Swept(u, c, v)
  PROVE  SonFlag(u, c) \in {-1, Says2(v)}
<1>1. CASE c \in Fixed(u)
  BY <1>1 DEF Swept, SonFlag
<1>2. CASE c \notin Fixed(u) /\ v
  BY <1>2 DEF Swept, SonFlag, Says2
<1>3. CASE c \notin Fixed(u) /\ ~v
  BY <1>3 DEF Swept, SonFlag, Says2
<1>. QED  BY <1>1, <1>2, <1>3

LEMMA SweptFlag ==
  ASSUME NEW u \in Tree, u.setting.style = "checkbox", NEW n \in Node, NEW v \in BOOLEAN,
         \A c \in Kids(u, n) : Swept(u, c, v)
  PROVE  ChkFlag(u, n) \in {-1, Says2(v)}
<1>. DEFINE S == {SonFlag(u, c) : c \in Kids(u, n)}
<1>1. S \subseteq {-1, Says2(v)}
  BY SweptSays
<1>2. ChkFlag(u, n) = Verdict(u, S)
  BY FlagOfSons
<1>. HIDE DEF S
<1>3. Says2(v) \in {0, 2}
  BY DEF Says2
<1>4. 1 \notin S /\ ~({0, 2} \subseteq S)
  BY <1>1, <1>3
<1>. QED  BY <1>1, <1>2, <1>3, <1>4 DEF Verdict

\* A node that was swept with its sons is right, whatever its state is.
LEMMA SweptRight ==
  ASSUME NEW u \in Tree, u.setting.style = "checkbox", NEW n \in Node, n \notin Fixed(u),
         NEW v \in BOOLEAN, Swept(u, n, v), \A c \in Kids(u, n) : Swept(u, c, v),
         HasKids(u, n) \/ u.state[n] = -1
  PROVE  Says(u, n)
<1>. DEFINE w == MakeChkFlag(u, n)
<1>1. w \in Differ(u, {"state"}) /\ w.state[n] = ChkFlag(u, n)
  BY MadeFlag
<1>2. w.state[n] \in {-1, Says2(v)}
  BY <1>1, SweptFlag
<1>. HIDE DEF w
<1>3. /\ w.setting = u.setting /\ w.checked = u.checked /\ w.half = u.half
      /\ w.nocheck = u.nocheck /\ w.disabled = u.disabled /\ Fixed(w) = Fixed(u)
  BY <1>1 DEF Differ, Fields, Fixed
<1>4. /\ n \notin w.half /\ n \notin u.half /\ n \notin Fixed(w)
      /\ n \notin w.disabled /\ n \notin u.disabled
      /\ (n \in u.checked <=> v) /\ (n \in w.checked <=> v)
      /\ u.state[n] \in {-1, Says2(v)} /\ w.setting.style = "checkbox"
  BY <1>3 DEF Swept, Fixed
<1>5. CASE v
  <2>1. SonFlag(u, n) = 2 /\ SonFlag(w, n) = 2
    BY <1>2, <1>4, <1>5 DEF SonFlag, Says2
  <2>2. ChkImage(u, n) = <<TRUE, "full">> /\ ChkImage(w, n) = <<TRUE, "full">>
    BY <1>2, <1>4, <1>5 DEF ChkImage, Says2
  <2>. QED  BY <2>1, <2>2 DEF Says, w
<1>6. CASE ~v
  <2>1. SonFlag(u, n) = 0 /\ SonFlag(w, n) = 0
    BY <1>2, <1>4, <1>6 DEF SonFlag, Says2
  <2>2. ChkImage(u, n) = <<FALSE, "full">> /\ ChkImage(w, n) = <<FALSE, "full">>
    <3>1. u.state[n] < 1 /\ w.state[n] < 1
      BY <1>2, <1>4, <1>6 DEF Says2
    <3>2. (n \in u.checked) = FALSE /\ (n \in w.checked) = FALSE
      BY <1>4, <1>6
    <3>. QED  BY <1>4, <3>1, <3>2 DEF ChkImage
  <2>. QED  BY <2>1, <2>2 DEF Says, w
<1>. QED  BY <1>5, <1>6

\* u is t after the nodes of D were swept.
SweptAll(t, u, D, v) ==
  /\ Touched(t, u, D)
  /\ \A m \in D : Simple(t, m) =>
       /\ Swept(u, m, v)
       /\ m \in Fixed(t) => /\ u.state[m] = t.state[m] /\ (m \in u.checked <=> m \in t.checked)
                            /\ m \notin t.nocheck => u.box[m] = t.box[m]
       /\ m \notin Fixed(t) => /\ ~HasKids(t, m) => u.state[m] = -1
                               /\ m \in u.li => u.box[m] = ChkImage(u, m)

LEMMA SweepStep ==
  ASSUME NEW t, Agree(t), t.setting.enable, t.setting.style = "checkbox", NEW v \in BOOLEAN,
         NEW D \in SUBSET Node, NEW u, SweptAll(t, u, D, v), NEW m \in Node,
         Kids(t, m) \subseteq D, Simple(t, m) /\ m \in Fixed(t) => t.state[m] = -1
  PROVE  SweptAll(t, SetSonBox(u, m, v), D \cup {m}, v)
<1>. DEFINE w == SetSonBox(u, m, v)
<1>1. /\ Agree(u) /\ u \in Tree /\ t \in Tree
      /\ u.cached = t.cached /\ u.kids = t.kids /\ u.parent = t.parent /\ u.setting = t.setting
      /\ u.half = t.half /\ u.nocheck = t.nocheck /\ u.disabled = t.disabled /\ u.li = t.li
      /\ Fixed(u) = Fixed(t)
      /\ \A n : HasKids(u, n) <=> HasKids(t, n)
      /\ \A n : Kids(u, n) = Kids(t, n)
      /\ \A n : Simple(u, n) <=> Simple(t, n)
      /\ \A n \in Node \ D : SameBox(t, u, n)
  BY TouchedFields DEF SweptAll, Agree
<1>2. /\ Touched(u, w, {m})
      /\ m \in u.disabled => w = u
      /\ m \in u.nocheck \ u.disabled => w.checked = u.checked /\ w.state[m] = -1
      /\ m \notin Fixed(u) =>
           /\ m \in w.checked <=> v
           /\ \/ w.state[m] = ChkFlag(u, m)
              \/ w.state[m] = IF ~HasKids(u, m) THEN -1 ELSE Says2(v)
           /\ u.setting.enable /\ m \in w.li => w.box[m] = ChkImage(w, m)
  BY <1>1, SetSonBoxIs
<1>. HIDE DEF w
<1>3. /\ w \in Tree /\ w.half = t.half /\ w.nocheck = t.nocheck /\ w.disabled = t.disabled /\ w.li = t.li
      /\ Fixed(w) = Fixed(t)
      /\ \A n \in Node \ {m} : SameBox(u, w, n)
  BY <1>1, <1>2, TouchedFields
<1>4. Touched(t, w, D \cup {m})
  BY <1>1, <1>2, TouchedChain DEF SweptAll
<1>5. ASSUME NEW n \in D, n # m, Simple(t, n)
      PROVE  /\ Swept(w, n, v)
             /\ n \in Fixed(t) => /\ w.state[n] = t.state[n] /\ (n \in w.checked <=> n \in t.checked)
                                  /\ n \notin t.nocheck => w.box[n] = t.box[n]
             /\ n \notin Fixed(t) => /\ ~HasKids(t, n) => w.state[n] = -1
                                     /\ n \in w.li => w.box[n] = ChkImage(w, n)
  <2>1. /\ SameBox(u, w, n) /\ w.box[n] = u.box[n] /\ w.state[n] = u.state[n]
        /\ (n \in w.checked <=> n \in u.checked)
    BY <1>2, <1>3, <1>5 DEF Touched
  <2>2. ChkImage(w, n) = ChkImage(u, n)
    BY <2>1, AlikeSay
  <2>3. Swept(w, n, v)
    BY <1>1, <1>3, <1>5, <2>1 DEF SweptAll, Swept
  <2>4. /\ n \in Fixed(t) => /\ u.state[n] = t.state[n] /\ (n \in u.checked <=> n \in t.checked)
                             /\ n \notin t.nocheck => u.box[n] = t.box[n]
        /\ n \notin Fixed(t) => /\ ~HasKids(t, n) => u.state[n] = -1
                                /\ n \in u.li => u.box[n] = ChkImage(u, n)
    BY <1>5 DEF SweptAll
  <2>. QED  BY <1>1, <1>3, <2>1, <2>2, <2>3, <2>4
<1>6. ASSUME Simple(t, m)
      PROVE  /\ Swept(w, m, v)
             /\ m \in Fixed(t) => /\ w.state[m] = t.state[m] /\ (m \in w.checked <=> m \in t.checked)
                                  /\ m \notin t.nocheck => w.box[m] = t.box[m]
             /\ m \notin Fixed(t) => /\ ~HasKids(t, m) => w.state[m] = -1
                                     /\ m \in w.li => w.box[m] = ChkImage(w, m)
  <2>1. CASE m \in Fixed(t)
    <3>1. t.state[m] = -1
      BY <1>6, <2>1
    <3>2. /\ u.state[m] = -1 /\ (m \in u.checked <=> m \in t.checked)
          /\ m \notin t.nocheck => u.box[m] = t.box[m]
      <4>1. CASE m \in D
        BY <1>6, <2>1, <3>1, <4>1 DEF SweptAll
      <4>2. CASE m \notin D
        BY <3>1, <4>2 DEF SweptAll, Touched
      <4>. QED  BY <4>1, <4>2
    <3>3. CASE m \in t.disabled
      BY <1>1, <1>2, <2>1, <3>1, <3>2, <3>3 DEF Swept
    <3>4. CASE m \notin t.disabled
      <4>1. m \in t.nocheck
        BY <2>1, <3>4 DEF Fixed
      <4>. QED  BY <1>1, <1>2, <1>3, <2>1, <3>1, <3>2, <3>4, <4>1 DEF Swept
    <3>. QED  BY <3>3, <3>4
  <2>2. CASE m \notin Fixed(t)
    <3>1. \A c \in Kids(u, m) : Swept(u, c, v)
      BY <1>1, <1>6, SimpleDown DEF SweptAll
    <3>2. ChkFlag(u, m) \in {-1, Says2(v)}
      BY <1>1, <3>1, SweptFlag
    <3>3. ~HasKids(u, m) => ChkFlag(u, m) = -1
      BY <1>1, LeafFlag
    <3>4. m \notin w.half
      BY <1>3, <1>6, SimpleIs
    <3>. QED  BY <1>1, <1>2, <1>3, <2>2, <3>2, <3>3, <3>4 DEF Swept
  <2>. QED  BY <2>1, <2>2
<1>. QED  BY <1>4, <1>5, <1>6 DEF SweptAll, w

\* The walk over what is below n, in the order of the code.
LEMMA SonsSweep ==
  ASSUME NEW t, Agree(t), t.setting.enable, t.setting.style = "checkbox", NEW n \in Node,
         NEW v \in BOOLEAN,
         \A m \in Downward(t, n) : Simple(t, m) /\ m \in Fixed(t) => t.state[m] = -1
  PROVE  SweptAll(t, SetSonNodeCheckBox(t, n, v), Downward(t, n), v)
<1>. DEFINE T == Differ(t, Checks)
            b == Below(t, n)
            s == b \o <<n>>
            k == Len(s)
            done(i) == {s[j] : j \in 1 .. i}
<1>1. s \in Seq(Node) /\ Range(s) = Downward(t, n) /\ t \in Tree /\ b \in Seq(Node)
  BY Lists, AgreeEnds, BelowIs DEF Agree
<1>2. Rising(t, s, Node)
  <2>1. Rising(t, b, Node)
    BY BelowRises
  <2>2. Under(t, n) = UNION {Downward(t, c) : c \in Kids(t, n)}
    BY DownwardIs
  <2>3. Kids(t, n) \cap Node \subseteq Range(b)
    BY <2>2 DEF Downward, Under
  <2>. HIDE DEF b
  <2>. QED  BY <1>1, <2>1, <2>3, RisingOne
<1>3. SetSonNodeCheckBox(t, n, v) = Checkings!Along(t, s, v)
  BY DEF SetSonNodeCheckBox, Each, Checkings!Along
<1>. HIDE DEF s
<1>4. k \in Nat /\ \A i \in 1 .. k : s[i] \in Node /\ s[i] \in Downward(t, n)
  BY <1>1 DEF Range
<1>5. PICK q : Checkings!Path(q, T, t, s, v) /\ Checkings!Along(t, s, v) = q[k]
  <2>1. \A u \in T : \A m \in Node : SetSonBox(u, m, v) \in T
    <3>. SUFFICES ASSUME NEW u \in T, NEW m \in Node PROVE SetSonBox(u, m, v) \in T
      OBVIOUS
    <3>1. u \in Tree
      BY DEF Differ
    <3>. QED  BY <1>1, <3>1, SetSonBoxChecks, DifferChain
  <2>2. t \in T
    BY <1>1, DifferNot
  <2>. HIDE DEF T
  <2>3. Checkings!Keeps(Node, T, v)
    BY <2>1 DEF Checkings!Keeps
  <2>. QED  BY <1>1, <2>2, <2>3, Checkings!AlongPath
<1>6. q[0] = t /\ \A i \in 1 .. k : q[i] = SetSonBox(q[i - 1], s[i], v)
  BY <1>5 DEF Checkings!Path
<1>. DEFINE G == {i \in 0 .. k : SweptAll(t, q[i], done(i), v)}
<1>7. 0 \in G
  <2>1. done(0) = {} /\ Touched(t, t, {})
    BY <1>1, TouchedNot
  <2>2. SweptAll(t, q[0], done(0), v)
    BY <1>6, <2>1 DEF SweptAll
  <2>. QED  BY <1>4, <2>2
<1>8. ASSUME NEW i \in 1 .. k, i - 1 \in G PROVE i \in G
  <2>1. SweptAll(t, q[i - 1], done(i - 1), v) /\ q[i] = SetSonBox(q[i - 1], s[i], v) /\ i \in 0 .. k
    BY <1>4, <1>6, <1>8
  <2>2. done(i) = done(i - 1) \cup {s[i]} /\ done(i - 1) \in SUBSET Node
    <3>1. 1 .. i = (1 .. i - 1) \cup {i}
      BY <1>4
    <3>. QED  BY <1>4, <3>1
  <2>3. Kids(t, s[i]) \subseteq done(i - 1)
    <3>1. Kids(t, s[i]) \subseteq Node
      BY <1>1, <1>4, KidsAre
    <3>2. \A c \in Kids(t, s[i]) \cap Node : \E j \in 1 .. i - 1 : s[j] = c
      BY <1>2 DEF Rising
    <3>. QED  BY <3>1, <3>2
  <2>. HIDE DEF done
  <2>4. SweptAll(t, q[i], done(i - 1) \cup {s[i]}, v)
    BY <1>4, <2>1, <2>2, <2>3, SweepStep
  <2>. QED  BY <2>1, <2>2, <2>4
<1>9. Repairs!Chained(G, k)
  BY <1>4, <1>7, <1>8 DEF Repairs!Chained
<1>10. done(k) = Downward(t, n) /\ k \in 0 .. k
  BY <1>1, <1>4 DEF Range
<1>. HIDE DEF G
<1>11. k \in G
  BY <1>9, <1>10, Repairs!ListInduction
<1>12. SweptAll(t, q[k], done(k), v)
  BY <1>11 DEF G
<1>. QED  BY <1>3, <1>5, <1>10, <1>12

\* Afterwards all below n is right, and n too; what is above n may have to follow.
LEMMA SonsSettle ==
  ASSUME NEW t, Agree(t), t.setting.enable, t.setting.style = "checkbox", NEW n \in t.cached,
         NEW v \in BOOLEAN, NEW X, SettledBut(t, X), X \cap Downward(t, n) \subseteq {n} \ Fixed(t)
  PROVE  LET u == SetSonNodeCheckBox(t, n, v) IN
         Touched(t, u, Downward(t, n)) /\ SettledBut(u, (X \ {n}) \cup {t.parent[n]})
<1>. DEFINE u == SetSonNodeCheckBox(t, n, v)
            D == Downward(t, n)
<1>1. t \in Tree /\ t.cached \in SUBSET Node /\ n \in Node
  BY DEF Agree, Tree
<1>2. /\ D \subseteq t.cached /\ D \in SUBSET Node /\ n \in D
      /\ \A m \in D : Kids(t, m) \subseteq D
      /\ ParentsOf(t, D) \subseteq D \cup {t.parent[n]}
  <2>1. D \subseteq t.cached /\ n \in D
    BY BelowHasAbove DEF Downward
  <2>2. \A m \in D : Kids(t, m) \subseteq D
    BY <1>1, <2>1, DownwardCloses
  <2>3. Under(t, n) = {k \in t.cached : t.parent[k] \in {n} \cup Under(t, n)}
    BY <1>1, UnderIs
  <2>4. ParentsOf(t, D) \subseteq D \cup {t.parent[n]}
    BY <2>3 DEF Downward, ParentsOf
  <2>. QED  BY <1>1, <2>1, <2>2, <2>4
<1>. HIDE DEF D
<1>3. \A m \in D : Simple(t, m) /\ m \in Fixed(t) => Right(t, m) /\ t.state[m] = -1
  <2>. SUFFICES ASSUME NEW m \in D, Simple(t, m), m \in Fixed(t)
                PROVE  Right(t, m) /\ t.state[m] = -1
    OBVIOUS
  <2>1. m \in t.cached \ X
    BY <1>2 DEF D
  <2>2. Right(t, m)
    BY <2>1 DEF SettledBut
  <2>. QED  BY <2>2, SimpleIs DEF Right, Says
<1>4. SweptAll(t, u, D, v)
  BY <1>1, <1>3, SonsSweep DEF D
<1>. HIDE DEF u
<1>5. Touched(t, u, D)
  BY <1>4 DEF SweptAll
<1>6. /\ u \in Tree /\ u.cached = t.cached /\ u.setting = t.setting /\ u.li = t.li
      /\ u.half = t.half /\ u.nocheck = t.nocheck /\ u.disabled = t.disabled
      /\ Fixed(u) = Fixed(t)
      /\ \A m : HasKids(u, m) <=> HasKids(t, m)
      /\ \A m : Kids(u, m) = Kids(t, m)
      /\ \A m : Simple(u, m) <=> Simple(t, m)
  BY <1>5, TouchedFields
<1>7. ASSUME NEW m \in D, Simple(t, m) PROVE Right(u, m)
  <2>1. CASE m \in Fixed(t)
    <3>1. /\ Right(t, m) /\ t.state[m] = -1 /\ u.state[m] = -1
          /\ m \in u.checked <=> m \in t.checked
          /\ m \notin t.nocheck => u.box[m] = t.box[m]
      BY <1>3, <1>4, <1>7, <2>1 DEF SweptAll
    <3>2. SameBox(t, u, m)
      BY <1>6, <3>1 DEF SameBox
    <3>3. ~HasKids(u, m) /\ m \in Node
      BY <1>6, <1>7, <2>1, SimpleIs
    <3>4. Says(u, m)
      BY <1>6, <3>1, <3>3, LeafSays
    <3>. QED  BY <1>6, <3>1, <3>2, <3>4, AlikeSay DEF Right
  <2>2. CASE m \notin Fixed(t)
    <3>1. /\ Swept(u, m, v) /\ (~HasKids(t, m) => u.state[m] = -1)
          /\ m \in u.li => u.box[m] = ChkImage(u, m)
      BY <1>4, <1>7, <2>2 DEF SweptAll
    <3>2. \A c \in Kids(u, m) : Swept(u, c, v)
      BY <1>2, <1>4, <1>6, <1>7, SimpleDown DEF SweptAll
    <3>3. Says(u, m)
      BY <1>2, <1>6, <2>2, <3>1, <3>2, SweptRight
    <3>. QED  BY <3>1, <3>3 DEF Right
  <2>. QED  BY <2>1, <2>2
<1>8. SettledBut(u, X \cup D \cup ParentsOf(t, D))
  BY <1>2, <1>5, Disturbed
<1>9. SettledBut(u, (X \ {n}) \cup {t.parent[n]})
  <2>. SUFFICES ASSUME u.setting.enable, NEW m \in u.cached \ ((X \ {n}) \cup {t.parent[n]}),
                       Simple(u, m)
                PROVE  Right(u, m)
    BY DEF SettledBut
  <2>1. CASE m \in D
    BY <1>6, <1>7, <2>1
  <2>2. CASE m \notin D
    <3>1. m \in u.cached \ (X \cup D \cup ParentsOf(t, D))
      BY <1>2, <2>2
    <3>. QED  BY <1>8, <3>1 DEF SettledBut
  <2>. QED  BY <2>1, <2>2
<1>. QED  BY <1>5, <1>9 DEF u, D

\* The walk up changes boxes above n.
LEMMA ParentsTouch ==
  ASSUME NEW t, Agree(t), NEW n \in Node, NEW v \in BOOLEAN
  PROVE  Touched(t, SetParentNodeCheckBox(t, n, v), Upward(t, n))
<1>. DEFINE s == <<n>> \o Above(t, n)
            l == Len(s)
            Y == Upward(t, n)
<1>1. s \in Seq(Node) /\ Range(s) = Y /\ t \in Tree
  BY Lists DEF Agree
<1>2. PICK up : Climbs(up, t, n, s, v)
  BY WalkIs
<1>. HIDE DEF s, Y
<1>3. l \in Nat /\ \A i \in 1 .. l : s[i] \in Node /\ s[i] \in Y
  BY <1>1 DEF Range
<1>4. /\ up[0] = [tree |-> t, go |-> TRUE]
      /\ \A i \in 1 .. l : up[i] = WalkOn(up[i - 1], s[i], v)
      /\ SetParentNodeCheckBox(t, n, v) = up[l].tree
  BY <1>2 DEF Climbs
<1>. DEFINE G == {i \in 0 .. l : Touched(t, up[i].tree, Y)}
<1>5. 0 \in G
  <2>1. up[0].tree = t /\ 0 \in 0 .. l
    BY <1>3, <1>4
  <2>. QED  BY <1>1, <2>1, TouchedNot
<1>6. ASSUME NEW i \in 1 .. l, i - 1 \in G PROVE i \in G
  <2>. DEFINE u == up[i - 1]
  <2>1. Touched(t, u.tree, Y) /\ up[i] = WalkOn(u, s[i], v) /\ i \in 0 .. l
    BY <1>3, <1>4, <1>6
  <2>. HIDE DEF u
  <2>2. u.tree \in Tree
    BY <2>1 DEF Touched, Differ
  <2>3. Touched(u.tree, MarkParent(u.tree, s[i], v), {s[i]})
    BY <1>3, <2>2, MarkTouches
  <2>4. Touched(t, MarkParent(u.tree, s[i], v), Y \cup {s[i]}) /\ Y \cup {s[i]} = Y
    BY <1>1, <1>3, <2>1, <2>3, TouchedChain
  <2>5. Touched(t, MarkParent(u.tree, s[i], v), Y)
    BY <2>4
  <2>6. CASE u.go
    <3>1. up[i].tree = MarkParent(u.tree, s[i], v)
      BY <2>1, <2>6 DEF WalkOn
    <3>. QED  BY <2>1, <2>5, <3>1
  <2>7. CASE ~u.go
    <3>1. up[i].tree = u.tree
      BY <2>1, <2>7 DEF WalkOn
    <3>. QED  BY <2>1, <3>1
  <2>. QED  BY <2>6, <2>7
<1>7. Repairs!Chained(G, l)
  BY <1>3, <1>5, <1>6 DEF Repairs!Chained
<1>8. l \in 0 .. l
  BY <1>3
<1>. HIDE DEF G
<1>9. l \in G
  BY <1>7, <1>8, Repairs!ListInduction
<1>. QED  BY <1>4, <1>9 DEF G, Y

\* What was touched of t keeps its lists.
LEMMA TouchedLists ==
  ASSUME NEW t, Agree(t), NEW Y, NEW u, Touched(t, u, Y), NEW n \in Node
  PROVE  Upward(u, n) = Upward(t, n) /\ Downward(u, n) = Downward(t, n)
<1>1. u \in Differ(t, Checks) /\ Checks \cap Family3 = {}
  BY DEF Touched, Checks, Family3
<1>. QED  BY <1>1, AgreeStays

LEMMA ParentNotBelow ==
  ASSUME NEW t, Agree(t), NEW n \in t.cached
  PROVE  /\ n \in Node /\ {n, t.parent[n]} \cap Downward(t, n) = {n}
         /\ {n, t.parent[n]} \cap t.cached \subseteq Upward(t, n)
<1>1. n \in Node /\ t \in Tree /\ ParentsEnd(t) /\ t.cached \subseteq Node
  BY DEF Agree, Tree
<1>2. Under(t, n) = {k \in t.cached : t.parent[k] \in {n} \cup Under(t, n)} /\ n \notin Under(t, n)
  BY <1>1, UnderIs
<1>3. t.parent[n] # Root => t.parent[n] \in Upward(t, n)
  <2>. SUFFICES ASSUME t.parent[n] # Root PROVE t.parent[n] \in Upward(t, n)
    OBVIOUS
  <2>1. n \in Upward(t, n)
    BY DEF Upward
  <2>. QED  BY <1>1, <2>1, UpwardCloses
<1>. QED  BY <1>1, <1>2, <1>3, TreeAssumption DEF Downward, Upward

\* The boxes that follow that of n, which is checked or unchecked.
LEMMA RelationSettles ==
  ASSUME NEW t, Agree(t), t.setting.enable, t.setting.style = "checkbox", NEW n \in t.cached,
         n \notin Fixed(t), SettledBut(t, {n, t.parent[n]})
  PROVE  LET w == CheckNodeRelation(t, n) IN
         /\ SettledBut(w, Upward(t, n))
         /\ \E Y \in SUBSET Node : Touched(t, w, Y)
<1>. DEFINE v == n \in t.checked
            where == IF v THEN t.setting.Y ELSE t.setting.N
            sons == IF ~HasKids(t, n) \/ "s" \in where THEN SetSonNodeCheckBox(t, n, v) ELSE t
            w == IF "p" \in where THEN SetParentNodeCheckBox(sons, n, v) ELSE sons
            D == Downward(t, n)
            U == Upward(t, n)
<1>1. CheckNodeRelation(t, n) = w
  BY DEF CheckNodeRelation
<1>. HIDE DEF where
<1>2. /\ n \in Node /\ t \in Tree /\ v \in BOOLEAN
      /\ {n, t.parent[n]} \cap D = {n} /\ {n, t.parent[n]} \cap t.cached \subseteq U
  BY ParentNotBelow DEF Agree
<1>3. D \in SUBSET Node /\ U \in SUBSET Node /\ ParentsOf(t, U) \subseteq U \cup {Root}
  <2>1. t.cached \subseteq Node /\ D \subseteq t.cached
    BY BelowHasAbove DEF Agree, Tree
  <2>. QED  BY <1>2, <2>1, UpwardSplits
<1>. HIDE DEF v
<1>4. Touched(t, sons, D) /\ SettledBut(sons, {n, t.parent[n]})
  <2>1. {n, t.parent[n]} \cap D \subseteq {n} \ Fixed(t)
    BY <1>2
  <2>2. /\ Touched(t, SetSonNodeCheckBox(t, n, v), D)
        /\ SettledBut(SetSonNodeCheckBox(t, n, v), ({n, t.parent[n]} \ {n}) \cup {t.parent[n]})
    BY <1>2, <2>1, SonsSettle
  <2>3. SettledBut(SetSonNodeCheckBox(t, n, v), {n, t.parent[n]})
    BY <2>2, SettledLess
  <2>4. Touched(t, t, D)
    BY <1>2, TouchedNot
  <2>. QED  BY <2>2, <2>3, <2>4
<1>. HIDE DEF sons
<1>5. Agree(sons) /\ sons.cached = t.cached /\ sons.parent = t.parent /\ Upward(sons, n) = U
  BY <1>2, <1>4, TouchedFields, TouchedLists
<1>6. SettledBut(sons, U)
  BY <1>2, <1>4, <1>5, SettledLess
<1>7. CASE "p" \in where
  <2>1. w = SetParentNodeCheckBox(sons, n, v)
    BY <1>7
  <2>. HIDE DEF w
  <2>2. Touched(sons, w, U)
    BY <1>2, <1>5, <2>1, ParentsTouch
  <2>3. SettledBut(w, U \cup U \cup ParentsOf(sons, U))
    BY <1>3, <1>5, <1>6, <2>2, Disturbed
  <2>4. (U \cup U \cup ParentsOf(sons, U)) \cap w.cached \subseteq U
    <3>1. w.cached = t.cached
      BY <1>5, <2>2, TouchedFields
    <3>2. Root \notin t.cached
      BY TreeAssumption DEF Agree, Tree
    <3>. HIDE DEF U
    <3>. QED  BY <1>3, <1>5, <3>1, <3>2 DEF ParentsOf
  <2>5. SettledBut(w, U)
    BY <2>3, <2>4, SettledLess
  <2>6. Touched(t, w, D \cup U)
    BY <1>2, <1>4, <2>2, TouchedChain
  <2>. QED  BY <1>1, <1>3, <2>5, <2>6
<1>8. CASE "p" \notin where
  <2>1. w = sons
    BY <1>8
  <2>. QED  BY <1>1, <1>3, <1>4, <1>6, <2>1
<1>. QED  BY <1>7, <1>8

\* A box is checked or unchecked with the others that follow, or alone, and
\* what is above it is repaired.
LEMMA ClickedSettles ==
  ASSUME NEW t, Agree(t), t.setting.enable, NEW n \in t.cached, Settled(t),
         NEW Y \in SUBSET Node, NEW w, Touched(t, w, Y), SettledBut(w, Upward(t, n))
  PROVE  Settled(RepairParentChkClassWithSelf(SetChkClass(w, n), n))
<1>1. n \in Node
  BY DEF Agree, Tree
<1>2. /\ Agree(w) /\ Upward(w, n) = Upward(t, n) /\ w.setting = t.setting
      /\ Simple(w, n) <=> Simple(t, n)
      /\ HasKids(w, n) <=> HasKids(t, n)
  BY <1>1, TouchedFields, TouchedLists
<1>3. ASSUME Simple(w, n), ~HasKids(w, n) PROVE w.state[n] = -1
  <2>1. Right(t, n)
    BY <1>2, <1>3 DEF Settled, SettledBut
  <2>2. t.state[n] = -1
    BY <1>2, <1>3, <2>1 DEF Right, Says
  <2>. QED  BY <1>1, <1>2, <1>3, <2>2 DEF Touched
<1>4. SettledBut(w, {} \cup Upward(w, n))
  BY <1>2
<1>. QED  BY <1>1, <1>2, <1>3, <1>4, ClickSettles DEF Settled

LEMMA AssignSettles ==
  ASSUME NEW t, Agree(t), NEW n \in t.cached, Settled(t), NEW v \in BOOLEAN
  PROVE  LET u == [t EXCEPT !.checked = Assign(@, n, v)] IN
         /\ Touched(t, u, {n}) /\ SettledBut(u, {n, t.parent[n]})
<1>. DEFINE u == [t EXCEPT !.checked = Assign(@, n, v)]
<1>1. n \in Node /\ t \in Tree
  BY DEF Agree, Tree
<1>2. Touched(t, u, {n})
  BY <1>1, AssignTouches
<1>. HIDE DEF u
<1>3. SettledBut(u, {} \cup {n} \cup ParentsOf(t, {n}))
  BY <1>1, <1>2, Disturbed DEF Settled
<1>4. {} \cup {n} \cup ParentsOf(t, {n}) = {n, t.parent[n]}
  BY DEF ParentsOf
<1>. QED  BY <1>2, <1>3, <1>4 DEF u

\* Repairing touches nothing but boxes.
LEMMA PathTouches ==
  ASSUME NEW t, Agree(t), NEW n \in Node
  PROVE  Touched(t, RepairParentChkClass(t, n), Node)
<1>. DEFINE s == Above(t, n)
            T == {u \in Tree : Touched(t, u, Node)}
<1>1. t \in Tree /\ s \in Seq(Node)
  BY AboveIs DEF Agree
<1>2. RepairParentChkClass(t, n) = Repairs!Along(t, s, 0)
  BY DEF RepairParentChkClass, Each, Repairs!Along, RepairBox
<1>. HIDE DEF s
<1>3. ASSUME NEW u \in T, NEW m \in Node PROVE RepairBox(u, m, 0) \in T
  <2>1. Touched(u, RepairChkClass(u, m), {m})
    BY RepairTouches
  <2>2. Touched(t, RepairChkClass(u, m), Node \cup {m}) /\ Node \cup {m} = Node
    BY <1>1, <2>1, TouchedChain
  <2>. QED  BY <2>2 DEF RepairBox, Touched, Differ
<1>4. t \in T
  BY <1>1, TouchedNot
<1>. HIDE DEF T
<1>5. Repairs!Keeps(Node, T, 0)
  BY <1>3 DEF Repairs!Keeps
<1>6. Repairs!Along(t, s, 0) \in T
  BY <1>1, <1>4, <1>5, Repairs!AlongStays
<1>. QED  BY <1>2, <1>6 DEF T

LEMMA ClickTouches ==
  ASSUME NEW t, Agree(t), NEW n \in Node
  PROVE  Touched(t, RepairParentChkClassWithSelf(SetChkClass(t, n), n), Node)
<1>. DEFINE u == SetChkClass(t, n)
            w == IF HasKids(u, n) THEN RepairChkClass(u, n) ELSE u
<1>1. Touched(t, u, {n}) /\ t \in Tree
  BY ClassIs DEF Agree
<1>. HIDE DEF u
<1>2. Agree(u) /\ u \in Tree
  BY <1>1, TouchedFields
<1>3. Touched(u, w, {n})
  BY <1>2, RepairTouches, TouchedNot
<1>. HIDE DEF w
<1>4. Agree(w)
  BY <1>2, <1>3, TouchedFields
<1>5. Touched(w, RepairParentChkClass(w, n), Node)
  BY <1>4, PathTouches
<1>6. Touched(t, w, {n} \cup {n})
  BY <1>1, <1>3, TouchedChain
<1>7. Touched(t, RepairParentChkClass(w, n), ({n} \cup {n}) \cup Node) /\ ({n} \cup {n}) \cup Node = Node
  BY <1>1, <1>5, <1>6, TouchedChain
<1>. QED  BY <1>7 DEF RepairParentChkClassWithSelf, w, u

\* A radio button says whether there is a checked one below it.
LEMMA RadioSays ==
  ASSUME NEW t \in Tree, t.setting.style = "radio", NEW n \in Node, n \notin Fixed(t) \cup t.half
  PROVE  Says(t, n) <=> /\ t.state[n] < 1 <=> ChkFlag(t, n) < 1
                        /\ HasKids(t, n) \/ t.state[n] = -1
<1>. DEFINE w == MakeChkFlag(t, n)
<1>1. w \in Differ(t, {"state"}) /\ w.state[n] = ChkFlag(t, n)
  BY MadeFlag
<1>2. t.state[n] \in -1 .. 2 /\ w.state[n] \in -1 .. 2
  BY <1>1 DEF Tree, Differ
<1>. HIDE DEF w
<1>3. /\ w.setting = t.setting /\ w.checked = t.checked /\ w.half = t.half
      /\ w.nocheck = t.nocheck /\ w.disabled = t.disabled /\ Fixed(w) = Fixed(t)
  BY <1>1 DEF Differ, Fields, Fixed
<1>4. /\ n \notin t.half /\ n \notin Fixed(t) /\ n \notin t.disabled
      /\ n \notin w.half /\ n \notin Fixed(w) /\ n \notin w.disabled
      /\ w.setting.style = "radio" /\ ((n \in w.checked) = (n \in t.checked))
  BY <1>3 DEF Fixed
<1>5. /\ ChkImage(t, n) = <<n \in t.checked, IF t.state[n] < 1 THEN "full" ELSE "part">>
      /\ ChkImage(w, n) = <<n \in t.checked, IF w.state[n] < 1 THEN "full" ELSE "part">>
  BY <1>4 DEF ChkImage
<1>6. /\ SonFlag(t, n) = IF n \in t.checked \/ t.state[n] > 0 THEN 2 ELSE 0
      /\ SonFlag(w, n) = IF n \in t.checked \/ w.state[n] > 0 THEN 2 ELSE 0
  BY <1>4 DEF SonFlag
<1>7. SonFlag(t, n) = SonFlag(w, n) /\ ChkImage(t, n) = ChkImage(w, n)
        <=> (t.state[n] < 1 <=> w.state[n] < 1)
  BY <1>2, <1>5, <1>6
<1>. QED  BY <1>1, <1>7 DEF Says, w

\* A radio button that is right stays right when it goes off and is drawn anew.
LEMMA RadioOffRight ==
  ASSUME NEW t, Agree(t), t.setting.enable, t.setting.style = "radio", NEW m \in Node,
         Simple(t, m), Right(t, m)
  PROVE  Right(SetChkClass([t EXCEPT !.checked = @ \ {m}], m), m)
<1>. DEFINE u == [t EXCEPT !.checked = @ \ {m}]
            w == SetChkClass(u, m)
<1>1. u = [t EXCEPT !.checked = Assign(@, m, FALSE)]
  BY DEF Assign
<1>2. Touched(t, u, {m}) /\ u \in Differ(t, {"checked"}) /\ t \in Tree
  BY <1>1, AssignTouches DEF Agree
<1>. HIDE DEF u
<1>3. u \in Tree /\ u.state = t.state /\ u.setting = t.setting
  BY <1>2 DEF Differ, Fields
<1>4. /\ Touched(u, w, {m}) /\ w.state = u.state
      /\ u.setting.enable /\ m \in w.li => w.box[m] = ChkImage(w, m)
  BY <1>3, ClassIs
<1>. HIDE DEF w
<1>5. Touched(t, w, {m} \cup {m}) /\ {m} \cup {m} = {m}
  BY <1>2, <1>4, TouchedChain
<1>6. Touched(t, w, {m})
  BY <1>5
<1>7. /\ Agree(w) /\ w \in Tree /\ w.setting = t.setting /\ w.half = t.half /\ Fixed(w) = Fixed(t)
      /\ \A n : HasKids(w, n) <=> HasKids(t, n)
      /\ \A n : Kids(w, n) = Kids(t, n)
      /\ \A n \in Node \ {m} : SameBox(t, w, n)
  BY <1>6, TouchedFields
<1>8. CASE m \in Fixed(t)
  <2>1. ~HasKids(w, m) /\ w.state[m] = -1
    BY <1>3, <1>4, <1>7, <1>8, SimpleIs DEF Right, Says
  <2>. QED  BY <1>3, <1>4, <1>7, <2>1, LeafSays DEF Right, u, w
<1>9. CASE m \notin Fixed(t)
  <2>1. m \notin Fixed(t) \cup t.half
    BY <1>9, SimpleIs
  <2>2. ChkFlag(w, m) = ChkFlag(t, m)
    <3>1. \A c \in Kids(t, m) : SonFlag(w, c) = SonFlag(t, c)
      BY <1>7, NotOwnParent, AlikeSay
    <3>. QED  BY <1>2, <1>7, <3>1, FlagSame
  <2>3. w.state[m] = t.state[m]
    BY <1>3, <1>4
  <2>4. Says(t, m)
    BY DEF Right
  <2>5. Says(w, m)
    BY <1>2, <1>7, <2>1, <2>2, <2>3, <2>4, RadioSays
  <2>. QED  BY <1>3, <1>4, <2>5 DEF Right, u, w
<1>. QED  BY <1>8, <1>9

\* One button goes off that n excludes.
LEMMA RadioOffSettles ==
  ASSUME NEW t, NEW u, Agree(u), u.setting = t.setting, u.parent = t.parent,
         u.setting.enable, u.setting.style = "radio", NEW n \in Node, NEW m \in u.cached,
         u.setting.radioType = "all" \/ u.parent[m] = u.parent[n],
         SettledBut(u, Upward(u, n)),
         Simple(u, m) /\ ~HasKids(u, m) => u.state[m] = -1
  PROVE  LET r == RadioOff(u, m, <<t, n>>) IN Touched(u, r, Node) /\ SettledBut(r, Upward(u, n))
<1>. DEFINE c == [u EXCEPT !.checked = @ \ {m}]
            w == SetChkClass(c, m)
            far == u.setting.radioType = "all" /\ u.parent[m] # u.parent[n]
            U == Upward(u, n)
<1>1. m \in Node /\ u \in Tree /\ ParentsEnd(u) /\ u.cached \subseteq Node
  BY DEF Agree, Tree
<1>2. c = [u EXCEPT !.checked = Assign(@, m, FALSE)]
  BY DEF Assign
<1>3. Touched(u, c, {m}) /\ c \in Differ(u, {"checked"})
  BY <1>1, <1>2, AssignTouches
<1>4. RadioOff(u, m, <<t, n>>) = IF far THEN RepairParentChkClassWithSelf(w, m) ELSE w
  BY DEF RadioOff
<1>5. SettledBut(c, U \cup {m} \cup ParentsOf(u, {m}))
  BY <1>1, <1>3, Disturbed
<1>6. /\ u.setting.enable /\ Simple(u, m) /\ Right(u, m) => Right(w, m)
  BY <1>1, RadioOffRight
<1>. HIDE DEF c
<1>7. /\ Agree(c) /\ c.setting = u.setting /\ c.cached = u.cached /\ c.state = u.state
      /\ Upward(c, m) = Upward(u, m) /\ Upward(c, n) = U
      /\ Simple(c, m) <=> Simple(u, m)
      /\ HasKids(c, m) <=> HasKids(u, m)
  <2>1. c.state = u.state
    BY <1>3 DEF Differ, Fields
  <2>. QED  BY <1>1, <1>3, <2>1, TouchedFields, TouchedLists
<1>8. CASE far
  <2>. DEFINE r == RepairParentChkClassWithSelf(w, m)
  <2>1. (U \cup {m} \cup ParentsOf(u, {m})) \cap c.cached \subseteq U \cup Upward(c, m)
    <3>1. {m, u.parent[m]} \cap u.cached \subseteq Upward(u, m)
      BY ParentNotBelow
    <3>. HIDE DEF U
    <3>. QED  BY <1>7, <3>1 DEF ParentsOf
  <2>2. SettledBut(c, U \cup Upward(c, m))
    BY <1>5, <2>1, SettledLess
  <2>3. SettledBut(r, U)
    BY <1>1, <1>7, <2>2, ClickSettles
  <2>4. Touched(c, r, Node)
    BY <1>1, <1>7, ClickTouches
  <2>5. Touched(u, r, {m} \cup Node) /\ {m} \cup Node = Node
    BY <1>1, <1>3, <2>4, TouchedChain
  <2>. QED  BY <1>4, <1>8, <2>3, <2>5
<1>9. CASE ~far
  <2>1. Touched(c, w, {m})
    BY <1>1, <1>7, ClassIs DEF Agree
  <2>2. Touched(u, w, {m} \cup {m})
    BY <1>1, <1>3, <2>1, TouchedChain
  <2>3. Touched(u, w, Node)
    BY <1>1, <2>2, TouchedMore
  <2>4. SettledBut(w, U \cup {m} \cup ParentsOf(u, {m}))
    BY <1>1, <1>5, <1>7, ClassSettles
  <2>5. u.parent[m] = u.parent[n] /\ {n, u.parent[n]} \cap u.cached \subseteq U
    <3>1. CASE n \in u.cached
      BY <1>9, <3>1, ParentNotBelow
    <3>2. CASE n \notin u.cached
      <4>1. u.parent[n] = Root /\ Root \notin u.cached
        BY <1>1, <3>2, TreeAssumption DEF Agree
      <4>. QED  BY <1>9, <3>2, <4>1
    <3>. QED  BY <3>1, <3>2
  <2>6. Simple(w, m) <=> Simple(u, m)
    BY <2>3, TouchedFields
  <2>7. w.cached = u.cached
    BY <2>3, TouchedFields
  <2>8. SettledBut(w, U)
    <3>. SUFFICES ASSUME NEW k \in u.cached \ U, Simple(w, k), w.setting.enable PROVE Right(w, k)
      BY <2>7 DEF SettledBut
    <3>1. CASE k = m
      <4>1. Right(u, m)
        BY <2>6, <3>1 DEF SettledBut
      <4>. QED  BY <1>6, <2>6, <3>1, <4>1
    <3>2. CASE k # m
      <4>1. k \in w.cached \ (U \cup {m} \cup ParentsOf(u, {m}))
        BY <2>5, <2>7, <3>2 DEF ParentsOf
      <4>. QED  BY <2>4, <4>1 DEF SettledBut
    <3>. QED  BY <3>1, <3>2
  <2>. QED  BY <1>4, <1>9, <2>3, <2>8
<1>. QED  BY <1>8, <1>9

\* What the boxes say depends on these fields.
Boxing == {"setting", "kids", "cached", "li", "checked", "nocheck", "disabled", "half", "state", "box"}

LEMMA SettledStays ==
  ASSUME NEW t, Agree(t), NEW F, F \cap Boxing = {}, NEW u \in Differ(t, F), NEW X, SettledBut(t, X)
  PROVE  SettledBut(u, X)
<1>1. /\ u.setting = t.setting /\ u.kids = t.kids /\ u.cached = t.cached /\ u.li = t.li
      /\ u.checked = t.checked /\ u.nocheck = t.nocheck /\ u.disabled = t.disabled
      /\ u.half = t.half /\ u.state = t.state /\ u.box = t.box
  BY DEF Differ, Fields, Boxing
<1>2. u \in Tree /\ t \in Tree /\ t.cached \subseteq Node
  BY DEF Differ, Agree, Tree
<1>3. /\ Fixed(u) = Fixed(t)
      /\ \A n : Kids(u, n) = Kids(t, n) /\ SameBox(t, u, n)
  BY <1>1 DEF Fixed, Kids, SameBox
<1>4. \A n : SonFlag(u, n) = SonFlag(t, n)
  BY <1>3, AlikeSay
<1>. SUFFICES ASSUME t.setting.enable, NEW n \in t.cached \ X, Simple(u, n) PROVE Right(u, n)
  BY <1>1 DEF SettledBut
<1>5. Right(t, n)
  BY <1>1, <1>3, SimpleStays DEF SettledBut
<1>. QED  BY <1>1, <1>2, <1>3, <1>4, <1>5, RightStays

\* A simple leaf has the state of a leaf.
LeavesRight(t) == \A m \in t.cached : Simple(t, m) /\ ~HasKids(t, m) => t.state[m] = -1

LEMMA SettledLeaves ==
  ASSUME NEW t, t.setting.enable, Settled(t)
  PROVE  LeavesRight(t)
BY DEF Settled, SettledBut, Right, Says, LeavesRight

LEMMA TouchedLeaves ==
  ASSUME NEW t, Agree(t), NEW Y, NEW u, Touched(t, u, Y), LeavesRight(t)
  PROVE  LeavesRight(u)
<1>1. /\ u.cached = t.cached /\ t.cached \subseteq Node
      /\ \A n : HasKids(u, n) <=> HasKids(t, n)
      /\ \A n : Simple(u, n) <=> Simple(t, n)
  BY TouchedFields DEF Agree, Tree
<1>. QED  BY <1>1 DEF LeavesRight, Touched

\* The radio buttons go off that n excludes.
LEMMA RadioSettles ==
  ASSUME NEW t, Agree(t), t.setting.enable, t.setting.style = "radio", NEW n \in t.cached,
         SettledBut(t, {n, t.parent[n]}), LeavesRight(t)
  PROVE  LET w == RadioRelation(t, n) IN
         SettledBut(w, Upward(t, n)) /\ \E c \in Differ(t, {"radios"}) : Touched(c, w, Node)
<1>. DEFINE all == t.setting.radioType = "all"
            live == t.radios \cap t.cached
            X == Excluded(t, n)
            U == Upward(t, n)
            R == IF all THEN (live \ X) \cup {n} ELSE live
            Q == IF all THEN live \ {n} ELSE live
            c == [t EXCEPT !.radios = R]
            d == [t EXCEPT !.radios = Q]
            s == SetToSeq(X)
            r == Radios!Along(c, s, <<t, n>>)
<1>1. /\ t \in Tree /\ n \in Node /\ SettledBut(t, U) /\ t.cached \subseteq Node
      /\ {"radios"} \cap Boxing = {} /\ {"radios"} \cap Family3 = {}
  <2>1. {n, t.parent[n]} \cap t.cached \subseteq U
    BY ParentNotBelow
  <2>. HIDE DEF U
  <2>. QED  BY <2>1, SettledLess DEF Agree, Tree, Boxing, Family3
<1>2. \A m \in X : m \in t.cached /\ (all \/ t.parent[m] = t.parent[n])
  <2>1. CASE all
    BY <2>1 DEF Excluded
  <2>2. CASE ~all
    <3>1. t.parent[n] \in Node \cup {Root}
      BY <1>1 DEF Tree
    <3>. QED  BY <2>2, <3>1 DEF Excluded, Agree
  <2>. QED  BY <2>1, <2>2
<1>3. CASE n \notin t.checked
  <2>1. RadioRelation(t, n) = d
    BY <1>3 DEF RadioRelation
  <2>2. d \in Differ(t, {"radios"})
    BY <1>1 DEF Tree, Differ, Fields
  <2>. HIDE DEF d
  <2>3. SettledBut(d, U)
    BY <1>1, <2>2, SettledStays
  <2>4. Touched(d, d, Node)
    BY <2>2, TouchedNot DEF Differ
  <2>. QED  BY <2>1, <2>2, <2>3, <2>4
<1>4. CASE n \in t.checked
  <2>1. RadioRelation(t, n) = r
    BY <1>4 DEF RadioRelation, Each, Radios!Along, RadioOff
  <2>2. c \in Differ(t, {"radios"})
    BY <1>1 DEF Tree, Differ, Fields
  <2>. HIDE DEF c
  <2>3. SettledBut(c, U)
    BY <1>1, <2>2, SettledStays
  <2>4. /\ Agree(c) /\ c \in Tree /\ c.setting = t.setting /\ c.parent = t.parent /\ c.cached = t.cached
        /\ Upward(c, n) = U /\ LeavesRight(c)
    <3>1. /\ c \in Tree /\ c.setting = t.setting /\ c.parent = t.parent /\ c.cached = t.cached
          /\ c.kids = t.kids /\ c.half = t.half /\ Fixed(c) = Fixed(t) /\ c.state = t.state
      BY <2>2 DEF Differ, Fields, Fixed
    <3>2. LeavesRight(c)
      BY <3>1, SimpleStays DEF LeavesRight, HasKids
    <3>. QED  BY <1>1, <2>2, <3>1, <3>2, AgreeStays
  <2>5. X \in SUBSET Node
    BY <1>1, <1>2
  <2>6. s \in Seq(X)
    <3>1. s \in Seq(Node) /\ Range(s) = X
      BY <2>5, Listed
    <3>. HIDE DEF s, X
    <3>. QED  BY <3>1 DEF Range
  <2>. DEFINE T == {u \in Tree : Touched(c, u, Node) /\ SettledBut(u, U)}
              x == <<t, n>>
  <2>7. c \in T
    BY <2>3, <2>4, TouchedNot
  <2>8. ASSUME NEW u \in T, NEW m \in X PROVE RadioOff(u, m, x) \in T
    <3>. HIDE DEF X, U
    <3>1. u \in Tree /\ Touched(c, u, Node) /\ SettledBut(u, U)
      OBVIOUS
    <3>2. /\ Agree(u) /\ u.setting = t.setting /\ u.parent = t.parent /\ u.cached = t.cached
          /\ Upward(u, n) = U /\ LeavesRight(u)
      BY <1>1, <2>4, <3>1, TouchedFields, TouchedLists, TouchedLeaves
    <3>3. m \in u.cached /\ (u.setting.radioType = "all" \/ u.parent[m] = u.parent[n])
      BY <1>2, <3>2
    <3>4. Simple(u, m) /\ ~HasKids(u, m) => u.state[m] = -1
      BY <3>2, <3>3 DEF LeavesRight
    <3>. DEFINE w == RadioOff(u, m, x)
    <3>5. Touched(u, w, Node) /\ SettledBut(w, U)
      BY <1>1, <3>1, <3>2, <3>3, <3>4, RadioOffSettles
    <3>. HIDE DEF w
    <3>6. Touched(c, w, Node \cup Node) /\ Node \cup Node = Node
      BY <2>4, <3>1, <3>5, TouchedChain
    <3>. QED  BY <3>5, <3>6 DEF Touched, Differ, w
  <2>. HIDE DEF T, s, X
  <2>9. Radios!Keeps(X, T, x)
    BY <2>8 DEF Radios!Keeps
  <2>. HIDE DEF x
  <2>10. Radios!Along(c, s, x) \in T
    BY <2>6, <2>7, <2>9, Radios!AlongStays
  <2>11. r = Radios!Along(c, s, x)
    BY DEF x
  <2>. QED  BY <2>1, <2>2, <2>10, <2>11 DEF T
<1>. QED  BY <1>3, <1>4

\* A box that can change is checked or unchecked by the control: n itself, the
\* others as the settings say, and what is drawn of all of them.
LEMMA CheckSettles ==
  ASSUME NEW t, Agree(t), t.setting.enable, NEW n \in t.cached, n \notin Fixed(t), Settled(t),
         NEW v \in BOOLEAN, NEW related \in BOOLEAN
  PROVE  LET set == [t EXCEPT !.checked = Assign(@, n, v)]
             w == IF related THEN CheckNodeRelation(set, n) ELSE set
         IN  Settled(RepairParentChkClassWithSelf(SetChkClass(w, n), n))
<1>. DEFINE set == [t EXCEPT !.checked = Assign(@, n, v)]
            w == IF related THEN CheckNodeRelation(set, n) ELSE set
            U == Upward(t, n)
<1>1. n \in Node /\ t \in Tree
  BY DEF Agree, Tree
<1>2. Touched(t, set, {n}) /\ SettledBut(set, {n, t.parent[n]})
  BY AssignSettles
<1>. HIDE DEF set
<1>3. /\ Agree(set) /\ set.setting = t.setting /\ set.cached = t.cached /\ set.parent = t.parent
      /\ Fixed(set) = Fixed(t) /\ Upward(set, n) = U
      /\ \A m : HasKids(set, m) <=> HasKids(t, m)
      /\ \A m : Simple(set, m) <=> Simple(t, m)
  BY <1>1, <1>2, TouchedFields, TouchedLists
<1>4. LeavesRight(set)
  BY <1>2, SettledLeaves, TouchedLeaves
<1>5. CASE ~related
  <2>1. SettledBut(set, U)
    <3>1. {n, t.parent[n]} \cap set.cached \subseteq U
      BY <1>3, ParentNotBelow
    <3>. QED  BY <1>2, <3>1, SettledLess
  <2>2. Settled(RepairParentChkClassWithSelf(SetChkClass(set, n), n))
    BY <1>1, <1>2, <2>1, ClickedSettles
  <2>3. w = set
    BY <1>5
  <2>. HIDE DEF w
  <2>. QED  BY <2>2, <2>3 DEF w, set
<1>6. CASE related /\ set.setting.style = "checkbox"
  <2>1. PICK Y \in SUBSET Node : SettledBut(w, U) /\ Touched(set, w, Y)
    BY <1>2, <1>3, <1>6, RelationSettles
  <2>. HIDE DEF w
  <2>2. Touched(t, w, {n} \cup Y) /\ {n} \cup Y \in SUBSET Node
    BY <1>1, <1>2, <2>1, TouchedChain
  <2>3. Settled(RepairParentChkClassWithSelf(SetChkClass(w, n), n))
    BY <1>1, <2>1, <2>2, ClickedSettles
  <2>. QED  BY <2>3 DEF w, set
<1>7. CASE related /\ set.setting.style = "radio"
  <2>1. w = RadioRelation(set, n)
    BY <1>7 DEF CheckNodeRelation
  <2>2. SettledBut(w, U) /\ \E c \in Differ(set, {"radios"}) : Touched(c, w, Node)
    BY <1>2, <1>3, <1>4, <1>7, <2>1, RadioSettles
  <2>. HIDE DEF w
  <2>3. PICK c \in Differ(set, {"radios"}) : Touched(c, w, Node)
    BY <2>2
  <2>4. {"radios"} \cap Family3 = {}
    BY DEF Family3
  <2>5. /\ Agree(c) /\ c.setting = set.setting /\ c.cached = set.cached /\ Upward(c, n) = U
        /\ LeavesRight(c)
    <3>1. /\ c.setting = set.setting /\ c.cached = set.cached /\ c.kids = set.kids
          /\ c.half = set.half /\ Fixed(c) = Fixed(set) /\ c.state = set.state
      BY <2>3 DEF Differ, Fields, Fixed
    <3>2. LeavesRight(c)
      BY <1>4, <3>1, SimpleStays DEF LeavesRight, HasKids
    <3>. QED  BY <1>1, <1>3, <2>3, <2>4, <3>1, <3>2, AgreeStays
  <2>6. Agree(w) /\ w.cached = c.cached /\ w.setting = c.setting /\ Upward(w, n) = U /\ LeavesRight(w)
    BY <1>1, <2>3, <2>5, TouchedFields, TouchedLists, TouchedLeaves
  <2>7. w.setting.enable /\ Simple(w, n) /\ ~HasKids(w, n) => w.state[n] = -1
    BY <1>3, <2>5, <2>6 DEF LeavesRight
  <2>8. SettledBut(w, {} \cup Upward(w, n))
    BY <2>2, <2>6
  <2>9. SettledBut(RepairParentChkClassWithSelf(SetChkClass(w, n), n), {})
    BY <1>1, <2>6, <2>7, <2>8, ClickSettles
  <2>. QED  BY <2>9 DEF w, set, Settled
<1>8. set.setting.style \in {"checkbox", "radio"}
  BY <1>1, <1>3 DEF Tree, Setting
<1>. QED  BY <1>5, <1>6, <1>7, <1>8 DEF set

\* A click on a box, and the method.
LEMMA ToggleSettles ==
  ASSUME NEW t, Agree(t), t.setting.enable, NEW n \in t.cached, n \notin Fixed(t), Settled(t)
  PROVE  Settled(ToggleCheck(t, n))
<1>. DEFINE v == n \notin t.checked
            set(x) == [t EXCEPT !.checked = Assign(@, n, x)]
            w(x, y) == IF y THEN CheckNodeRelation(set(x), n) ELSE set(x)
            r(x, y) == RepairParentChkClassWithSelf(SetChkClass(w(x, y), n), n)
<1>1. ToggleCheck(t, n) = r(v, TRUE)
  BY DEF ToggleCheck
<1>2. \A x, y \in BOOLEAN : Settled(r(x, y))
  BY CheckSettles
<1>. HIDE DEF r, v
<1>3. v \in BOOLEAN
  BY DEF v
<1>. QED  BY <1>1, <1>2, <1>3

LEMMA CheckNodeSettles ==
  ASSUME NEW t, Agree(t), NEW n \in t.cached, Settled(t), NEW v \in BOOLEAN, NEW flag \in BOOLEAN
  PROVE  Settled(CheckNode(t, n, v, flag))
<1>. DEFINE set == [t EXCEPT !.checked = Assign(@, n, v)]
            w(y) == IF y THEN CheckNodeRelation(set, n) ELSE set
            r(y) == RepairParentChkClassWithSelf(SetChkClass(w(y), n), n)
            y == flag \/ t.setting.style = "radio"
<1>1. \/ CheckNode(t, n, v, flag) = t
      \/ CheckNode(t, n, v, flag) = r(y) /\ n \notin Fixed(t) /\ t.setting.enable
  BY DEF CheckNode
<1>2. n \notin Fixed(t) /\ t.setting.enable => \A z \in BOOLEAN : Settled(r(z))
  BY CheckSettles
<1>. HIDE DEF r, y
<1>3. y \in BOOLEAN
  BY DEF y
<1>. QED  BY <1>1, <1>2, <1>3

\* checkAllNodes settles what is below each node of the first level.
LEMMA CheckTreeSettles ==
  ASSUME NEW t, Agree(t), t.setting.enable, t.setting.style = "checkbox", NEW n \in Kids(t, Root),
         NEW v \in BOOLEAN, Settled(t)
  PROVE  Touched(t, CheckTree(t, n, v), Node) /\ Settled(CheckTree(t, n, v))
<1>. DEFINE c == IF n \in Fixed(t) THEN t ELSE [t EXCEPT !.checked = Assign(@, n, v)]
            w == SetSonNodeCheckBox(c, n, v)
            X == IF n \in Fixed(t) THEN {} ELSE {n}
<1>1. /\ n \in t.cached /\ t.parent[n] = Root /\ n \in Node /\ t \in Tree
      /\ t.cached \subseteq Node /\ Root \notin t.cached
  <2>1. n \in t.cached /\ t.parent[n] = Root
    BY DEF Agree
  <2>. QED  BY <2>1, TreeAssumption DEF Agree, Tree
<1>2. Touched(t, c, {n}) /\ SettledBut(c, X)
  <2>1. CASE n \in Fixed(t)
    BY <1>1, <2>1, TouchedNot DEF Settled
  <2>2. CASE n \notin Fixed(t)
    <3>1. Touched(t, c, {n}) /\ SettledBut(c, {n, Root})
      BY <1>1, <2>2, AssignSettles
    <3>2. {n, Root} \cap c.cached \subseteq X
      <4>1. c.cached = t.cached
        BY <3>1, TouchedFields
      <4>. HIDE DEF c
      <4>. QED  BY <1>1, <2>2, <4>1
    <3>. HIDE DEF c, X
    <3>. QED  BY <3>1, <3>2, SettledLess
  <2>. QED  BY <2>1, <2>2
<1>3. CheckTree(t, n, v) = w
  BY DEF CheckTree
<1>. HIDE DEF c
<1>4. /\ Agree(c) /\ c.setting = t.setting /\ c.cached = t.cached /\ c.parent = t.parent
      /\ Fixed(c) = Fixed(t)
  BY <1>2, TouchedFields
<1>5. X \cap Downward(c, n) \subseteq {n} \ Fixed(c) /\ X \ {n} = {}
  BY <1>4
<1>. HIDE DEF X
<1>6. Touched(c, w, Downward(c, n)) /\ SettledBut(w, (X \ {n}) \cup {c.parent[n]})
  BY <1>1, <1>2, <1>4, <1>5, SonsSettle
<1>. HIDE DEF w
<1>7. SettledBut(w, {})
  <2>1. w.cached = t.cached
    BY <1>4, <1>6, TouchedFields
  <2>2. ((X \ {n}) \cup {c.parent[n]}) \cap w.cached \subseteq {}
    BY <1>1, <1>4, <1>5, <2>1
  <2>. QED  BY <1>6, <2>2, SettledLess
<1>8. Touched(t, w, Node)
  <2>1. Downward(c, n) \subseteq Node
    BY <1>1, <1>4, BelowHasAbove
  <2>2. Touched(t, w, {n} \cup Downward(c, n)) /\ {n} \cup Downward(c, n) \subseteq Node
    BY <1>1, <1>2, <1>6, <2>1, TouchedChain
  <2>. QED  BY <2>2, TouchedMore
<1>. QED  BY <1>3, <1>7, <1>8 DEF Settled

LEMMA AllSettle ==
  ASSUME NEW t, Agree(t), NEW v \in BOOLEAN, Settled(t)
  PROVE  Settled(CheckAllNodes(t, v))
<1>. DEFINE S == Kids(t, Root)
            T == {u \in Tree : Touched(t, u, Node) /\ Settled(u)}
            s == t.kids[Root]
            r == AllChecks!Along(t, s, v)
            on == t.setting.enable /\ t.setting.style = "checkbox"
<1>1. t \in Tree /\ s \in Seq(S) /\ t \in T
  <2>1. t \in Tree /\ s \in Seq(Node) /\ S = {s[i] : i \in 1 .. Len(s)}
    BY KidsAre DEF Agree
  <2>. HIDE DEF s, S
  <2>2. s \in Seq(S)
    BY <2>1
  <2>. QED  BY <2>1, <2>2, TouchedNot
<1>2. CheckAllNodes(t, v) = IF on THEN r ELSE t
  BY DEF CheckAllNodes, Each, AllChecks!Along, CheckTree
<1>3. CASE on
  <2>1. ASSUME NEW u \in T, NEW m \in S PROVE CheckTree(u, m, v) \in T
    <3>1. /\ Agree(u) /\ u \in Tree /\ u.setting = t.setting /\ Kids(u, Root) = S
          /\ Touched(t, u, Node) /\ Settled(u)
      BY TouchedFields
    <3>. DEFINE w == CheckTree(u, m, v)
    <3>2. Touched(u, w, Node) /\ Settled(w)
      BY <1>3, <3>1, CheckTreeSettles
    <3>. HIDE DEF w
    <3>3. Touched(t, w, Node \cup Node) /\ Node \cup Node = Node
      BY <1>1, <3>1, <3>2, TouchedChain
    <3>. QED  BY <3>2, <3>3 DEF Touched, Differ, w
  <2>. HIDE DEF S, T, s
  <2>2. AllChecks!Keeps(S, T, v)
    BY <2>1 DEF AllChecks!Keeps
  <2>3. r \in T
    BY <1>1, <2>2, AllChecks!AlongStays
  <2>. HIDE DEF r
  <2>. QED  BY <1>2, <1>3, <2>3 DEF T
<1>4. CASE ~on
  <2>. HIDE DEF on, r
  <2>. QED  BY <1>2, <1>4
<1>. QED  BY <1>3, <1>4

\* A leaf is disabled or enabled: it is repaired and what is above it.
LEMMA LeafSettles ==
  ASSUME NEW t, Agree(t), NEW n \in t.cached, ~HasKids(t, n), NEW v \in BOOLEAN, Settled(t)
  PROVE  Settled(RepairParentChkClass(SetDisabled(t, n, v), n))
<1>. DEFINE u == [t EXCEPT !.disabled = Assign(@, n, v)]
            w == RepairChkClass(u, n)
            A == Range(Above(t, n))
<1>1. /\ t \in Tree /\ n \in Node /\ t.cached \subseteq Node /\ Root \notin t.cached
      /\ {"disabled"} \cap Family3 = {}
  BY TreeAssumption DEF Agree, Tree, Family3
<1>2. u \in Differ(t, {"disabled"}) /\ u.disabled = Assign(t.disabled, n, v)
  BY <1>1 DEF Tree, Differ, Fields, Assign
<1>. HIDE DEF u
<1>3. /\ Agree(u) /\ u \in Tree
      /\ u.cached = t.cached /\ u.kids = t.kids /\ u.parent = t.parent /\ u.setting = t.setting
      /\ u.half = t.half /\ u.nocheck = t.nocheck /\ u.li = t.li /\ u.checked = t.checked
      /\ u.state = t.state /\ u.box = t.box
      /\ Above(u, n) = Above(t, n)
  <2>1. Agree(u) /\ Above(u, n) = Above(t, n)
    BY <1>1, <1>2, AgreeStays
  <2>. QED  BY <1>2, <2>1 DEF Differ, Fields
<1>4. \A m \in Node \ {n} : SameBox(t, u, m) /\ (m \in Fixed(u) <=> m \in Fixed(t))
  BY <1>2, <1>3 DEF SameBox, Assign, Fixed
<1>5. ASSUME NEW m, Simple(u, m) PROVE Simple(t, m)
  <2>1. PICK S \in SUBSET Node : m \in S /\ Flawless(u, S)
    BY <1>5 DEF Simple
  <2>2. ASSUME NEW q \in S
        PROVE  Kids(t, q) \subseteq S /\ q \notin t.half /\ (q \in Fixed(t) => ~HasKids(t, q))
    <3>1. Kids(u, q) \subseteq S /\ q \notin u.half /\ (q \in Fixed(u) => ~HasKids(u, q))
      BY <2>1 DEF Flawless
    <3>. QED  BY <1>3, <1>4, <3>1 DEF Kids, HasKids
  <2>. QED  BY <2>1, <2>2 DEF Simple, Flawless
<1>6. SettledBut(u, {n, t.parent[n]})
  <2>. SUFFICES ASSUME t.setting.enable, NEW m \in t.cached \ {n, t.parent[n]}, Simple(u, m)
                PROVE  Right(u, m)
    BY <1>3 DEF SettledBut
  <2>1. Right(t, m) /\ m \in Node
    BY <1>1, <1>5 DEF Settled, SettledBut
  <2>2. \A c \in Kids(t, m) : c \in Node \ {n}
    BY <2>1, NotOwnParent
  <2>3. \A c \in Kids(t, m) : SonFlag(u, c) = SonFlag(t, c)
    BY <1>4, <2>2, AlikeSay
  <2>4. Kids(u, m) = Kids(t, m) /\ SameBox(t, u, m)
    BY <1>3, <1>4, <2>1 DEF Kids
  <2>. QED  BY <1>1, <1>3, <2>1, <2>3, <2>4, RightStays
<1>7. SettledBut(w, ({n, t.parent[n]} \ {n}) \cup {u.parent[n]})
  BY <1>1, <1>3, <1>6, RepairSettles
<1>8. Touched(u, w, {n})
  BY <1>1, <1>3, RepairTouches
<1>. HIDE DEF w
<1>9. Agree(w) /\ w.cached = t.cached /\ Above(w, n) = Above(t, n)
  <2>1. w \in Differ(u, Checks) /\ Checks \cap Family3 = {}
    BY <1>8 DEF Touched, Checks, Family3
  <2>. QED  BY <1>1, <1>3, <2>1, AgreeStays
<1>10. t.parent[n] \in A \cup {Root}
  BY <1>1, UpwardSplits DEF ParentsOf, Upward
<1>. HIDE DEF A
<1>11. SettledBut(w, {} \cup A)
  <2>1. (({n, t.parent[n]} \ {n}) \cup {u.parent[n]}) \cap w.cached \subseteq {} \cup A
    BY <1>1, <1>3, <1>9, <1>10
  <2>. QED  BY <1>7, <2>1, SettledLess
<1>12. SettledBut(RepairParentChkClass(w, n), {})
  BY <1>1, <1>9, <1>11, PathSettles DEF A
<1>. QED  BY <1>12 DEF SetDisabled, Settled, w, u

LEMMA DisablingSettles ==
  ASSUME NEW t, Agree(t), NEW n \in t.cached, ~HasKids(t, n), NEW v \in BOOLEAN,
         NEW down \in BOOLEAN, Settled(t)
  PROVE  Settled(SetChkDisabled(t, n, v, FALSE, down))
<1>. DEFINE T == Differ(t, Locks)
            s == <<n>> \o (IF down THEN Reverse(Below(t, n)) ELSE <<>>)
            w == Disables!Along(t, s, v)
            a == Above(t, n)
<1>1. t \in Tree /\ t \in T /\ n \in Node
  BY DifferNot DEF Agree, Tree
<1>2. s = <<n>>
  <2>1. Below(t, n) \in Seq(Node) /\ Under(t, n) = UNION {{k} \cup Under(t, k) : k \in Kids(t, n)}
    BY <1>1, AgreeEnds, BelowIs
  <2>2. Kids(t, n) = {}
    BY <1>1, KidsAre
  <2>. DEFINE b == Below(t, n)
  <2>3. Range(b) = {}
    BY <2>1, <2>2 DEF Under
  <2>. HIDE DEF b
  <2>4. Len(b) = 0 /\ b \in Seq(Node)
    <3>1. b \in Seq(Node)
      BY <2>1 DEF b
    <3>2. 1 \in DOMAIN b => b[1] \in Range(b)
      BY DEF Range
    <3>. QED  BY <2>3, <3>1, <3>2
  <2>5. Reverse(b) = <<>>
    <3>1. Reverse(b) \in Seq(Node) /\ Len(Reverse(b)) = Len(b)
      <4>1. Reverse(b) \in Seq(Node)
        BY <2>4, ReversedIs
      <4>2. Reverse(b) = [i \in 1 .. Len(b) |-> b[(Len(b) - i) + 1]]
        BY DEF Reverse
      <4>. QED  BY <2>4, <4>1, <4>2
    <3>. QED  BY <2>4, <3>1
  <2>6. s = <<n>> \o (IF down THEN Reverse(b) ELSE <<>>)
    BY DEF b
  <2>. HIDE DEF s
  <2>. QED  BY <1>1, <2>5, <2>6
<1>3. SetChkDisabled(t, n, v, FALSE, down) = Repairs!Along(w, a, 0)
  BY DEF SetChkDisabled, Each, Disables!Along, SetDisabled, Repairs!Along, RepairBox
<1>4. ASSUME NEW u \in T, NEW m \in Node PROVE SetDisabled(u, m, v) \in T
  <2>1. u \in Tree
    BY DEF Differ
  <2>2. SetDisabled(u, m, v) \in Differ(u, Locks)
    BY <2>1, SetDisabledLocks
  <2>. QED  BY <1>1, <2>2, DifferChain
<1>. HIDE DEF T, s, a
<1>5. s \in Seq(Node) /\ Len(s) = 1 /\ s[1] = n
  BY <1>1, <1>2
<1>6. PICK q : Disables!Path(q, T, t, s, v) /\ w = q[Len(s)]
  <2>1. Disables!Keeps(Node, T, v)
    BY <1>4 DEF Disables!Keeps
  <2>2. s \in Seq(Node) /\ t \in T
    BY <1>1, <1>5
  <2>. QED  BY <2>1, <2>2, Disables!AlongPath
<1>. HIDE DEF w
<1>7. w = SetDisabled(t, n, v) /\ w \in T
  <2>1. q[0] = t /\ q[1] = SetDisabled(q[0], s[1], v)
    BY <1>5, <1>6 DEF Disables!Path
  <2>. QED  BY <1>1, <1>4, <1>5, <1>6, <2>1
<1>8. Above(w, n) = a
  <2>1. Locks \cap Family3 = {}
    BY DEF Locks, Family3
  <2>. QED  BY <1>1, <1>7, <2>1, AgreeStays DEF T, a
<1>9. Repairs!Along(w, a, 0) = RepairParentChkClass(w, n)
  BY <1>8 DEF RepairParentChkClass, Each, Repairs!Along, RepairBox
<1>. QED  BY <1>3, <1>7, <1>9, LeafSettles

-----------------------------------------------------------------------------
(* Drawing.                                                                *)

\* The marks of the first and the last son are on them.
Ended(t) == /\ t.first \subseteq t.cached /\ t.last \subseteq t.cached
            /\ \A q \in t.cached : /\ q \in t.first <=> q = t.kids[t.parent[q]][1]
                                   /\ q \in t.last <=> q = Last(t.kids[t.parent[q]])

\* Who has sons is a folder, and only folders are open.
Inner(t) == /\ t.isParent \subseteq t.cached /\ t.open \subseteq t.isParent
            /\ \A p \in Node : HasKids(t, p) => p \in t.isParent

\* Only nodes of the tree are in the document, all of the first level, others
\* in their parent's list; they have the lines and folders of the tree.
Pictured(t) ==
  /\ t.li \subseteq t.cached /\ t.ul \subseteq t.cached /\ t.lined = t.ul \ t.last
  /\ Kids(t, Root) \subseteq t.li
  /\ \A n \in t.li : t.parent[n] \in t.ul \cup {Root} /\ t.line[n] = LineClass(t, n)

\* What every function of the control keeps.
Sound(t) ==
  Agree(t) /\ Inner(t) /\ Ended(t) /\ Pictured(t) /\ Range(t.selected) \subseteq t.cached

\* Of the sons of a node, all or none are in the document, and all if it is
\* open: so it is for all but those of E.
Whole(t, E) ==
  \A p \in Node \ E :
    /\ Kids(t, p) \subseteq t.li \/ Kids(t, p) \cap t.li = {}
    /\ p \in (t.li \cup t.ul) \cap t.open => p \in t.ul /\ Kids(t, p) \subseteq t.li

\* What has nothing to do with the boxes.
BoxFields == {"checked", "nocheck", "disabled", "half", "state", "box", "radios"}

LEMMA BoxesApart ==
  ASSUME NEW t, Sound(t), NEW u \in Differ(t, BoxFields)
  PROVE  Sound(u) /\ \A E : Whole(t, E) => Whole(u, E)
<1>1. BoxFields \cap Family3 = {}
  BY DEF BoxFields, Family3
<1>2. Agree(u) /\ u.cached = t.cached /\ u.kids = t.kids /\ u.parent = t.parent
  BY <1>1, AgreeStays DEF Sound
<1>3. /\ u.isParent = t.isParent /\ u.open = t.open /\ u.first = t.first /\ u.last = t.last
      /\ u.selected = t.selected /\ u.li = t.li /\ u.ul = t.ul /\ u.line = t.line
      /\ u.lined = t.lined
  BY DEF Differ, Fields, BoxFields
<1>4. \A n : LineClass(u, n) = LineClass(t, n)
  BY <1>2, <1>3 DEF LineClass, Folder
<1>5. \A p : Kids(u, p) = Kids(t, p) /\ (HasKids(u, p) <=> HasKids(t, p))
  BY <1>2 DEF Kids, HasKids
<1>6. Inner(u) /\ Ended(u)
  BY <1>2, <1>3, <1>5 DEF Sound, Inner, Ended
<1>7. Pictured(u)
  BY <1>2, <1>3, <1>4, <1>5 DEF Sound, Pictured
<1>8. \A E : Whole(t, E) => Whole(u, E)
  BY <1>3, <1>5 DEF Whole
<1>. QED  BY <1>2, <1>3, <1>6, <1>7, <1>8 DEF Sound

View == {"open", "li", "ul", "lined", "box", "line", "state"}

\* The same tree, shown in another way.
Redrawn(t) == {u \in Differ(t, View) : /\ Sound(u) /\ (Settled(t) => Settled(u))
                                       /\ \A E : Whole(t, E) => Whole(u, E)}

LEMMA RedrawnChain ==
  ASSUME NEW t, Sound(t), NEW u \in Redrawn(t)
  PROVE  /\ Sound(u) /\ Agree(u) /\ u \in Tree
         /\ u.cached = t.cached /\ u.kids = t.kids /\ u.parent = t.parent
         /\ u.isParent = t.isParent /\ u.selected = t.selected
         /\ Redrawn(u) \subseteq Redrawn(t)
<1>1. u \in Differ(t, View) /\ Sound(u) /\ t \in Tree
  BY DEF Redrawn, Sound, Agree
<1>2. /\ u.cached = t.cached /\ u.kids = t.kids /\ u.parent = t.parent
      /\ u.isParent = t.isParent /\ u.selected = t.selected
  BY <1>1 DEF Differ, Fields, View
<1>3. \A w \in Redrawn(u) : w \in Differ(t, View)
  BY <1>1, DifferChain DEF Redrawn
<1>4. Redrawn(u) \subseteq Redrawn(t)
  BY <1>3 DEF Redrawn
<1>. QED  BY <1>1, <1>2, <1>4 DEF Sound, Agree

LEMMA RedrawnNot ==
  ASSUME NEW t, Sound(t)
  PROVE  t \in Redrawn(t)
BY DifferNot DEF Redrawn, Sound, Agree

LEMMA LineClassType ==
  ASSUME NEW t \in Tree, NEW n \in Node
  PROVE  /\ LineClass(t, n) \in Line /\ Folder(t, n) \in {"open", "close", "docu"}
         /\ LineClass(t, n) = <<LineClass(t, n)[1], Folder(t, n)>>
<1>. DEFINE top == t.parent[n] = Root /\ n \in t.first
            x == IF n \in t.last THEN IF top THEN "root" ELSE "bottom"
                                 ELSE IF top THEN "roots" ELSE "center"
            y == Folder(t, n)
<1>1. x \in {"root", "roots", "center", "bottom"}
  OBVIOUS
<1>2. y \in {"open", "close", "docu"}
  BY DEF Folder
<1>3. LineClass(t, n) = <<x, y>>
  BY DEF LineClass
<1>. HIDE DEF x, y
<1>4. <<x, y>> \in Line
  BY <1>1, <1>2 DEF Line
<1>. QED  BY <1>2, <1>3, <1>4 DEF y

\* What the elements of some nodes add to the document.
Pictures == {"li", "ul", "lined", "line", "box", "state"}

LEMMA DrawIs ==
  ASSUME NEW t \in Tree, NEW drawn \in SUBSET Node
  PROVE  LET u == Draw(t, drawn)
             uls == drawn \cap t.isParent \cap t.open
         IN  /\ u \in Differ(t, Pictures)
             /\ u.li = t.li \cup drawn /\ u.ul = t.ul \cup uls
             /\ u.lined = t.lined \cup (uls \ t.last)
             /\ \A n \in Node : u.line[n] = IF n \in drawn THEN LineClass(t, n) ELSE t.line[n]
             /\ u.state = t.state
             /\ \A n \in Node : u.box[n] = IF n \in drawn /\ t.setting.enable THEN ChkImage(t, n)
                                           ELSE t.box[n]
<1>. DEFINE uls == drawn \cap t.isParent \cap t.open
            line == [n \in Node |-> IF n \in drawn THEN LineClass(t, n) ELSE t.line[n]]
            box == [n \in Node |-> IF n \in drawn /\ t.setting.enable THEN ChkImage(t, n) ELSE t.box[n]]
            li == t.li \cup drawn
            ul == t.ul \cup uls
            lined == t.lined \cup (uls \ t.last)
            u == [t EXCEPT !.li = li, !.ul = ul, !.lined = lined, !.line = line, !.box = box]
<1>1. line \in [Node -> Line \cup {Nothing}]
  <2>1. \A n \in Node : t.line[n] \in Line \cup {Nothing}
    BY DEF Tree
  <2>. QED  BY <2>1, LineClassType
<1>2. box \in [Node -> Image \cup {Nothing}]
  <2>1. \A n \in Node : t.box[n] \in Image \cup {Nothing}
    BY DEF Tree
  <2>. QED  BY <2>1, ChkImageType
<1>3. li \in SUBSET Node /\ ul \in SUBSET Node /\ lined \in SUBSET Node
  BY DEF Tree
<1>4. \A n \in Node :
        /\ line[n] = IF n \in drawn THEN LineClass(t, n) ELSE t.line[n]
        /\ box[n] = IF n \in drawn /\ t.setting.enable THEN ChkImage(t, n) ELSE t.box[n]
  OBVIOUS
<1>5. Draw(t, drawn) = u
  BY DEF Draw
<1>. HIDE DEF line, box, li, ul, lined
<1>6. /\ u \in Differ(t, Pictures) /\ u.li = li /\ u.line = line /\ u.ul = ul /\ u.lined = lined
      /\ u.state = t.state /\ u.box = box
  BY <1>1, <1>2, <1>3 DEF Tree, Differ, Fields, Pictures
<1>. HIDE DEF u
<1>. QED  BY <1>4, <1>5, <1>6 DEF li, ul, lined

\* Elements come with boxes of the tree, or go.
LEMMA ShownSettles ==
  ASSUME NEW t, Agree(t), NEW u \in Differ(t, Pictures), u.state = t.state,
         t.setting.enable => \A n \in u.li : \/ u.box[n] = ChkImage(t, n)
                                             \/ n \in t.li /\ u.box[n] = t.box[n],
         NEW X, SettledBut(t, X)
  PROVE  SettledBut(u, X)
<1>1. /\ u.setting = t.setting /\ u.kids = t.kids /\ u.cached = t.cached
      /\ u.checked = t.checked /\ u.nocheck = t.nocheck /\ u.disabled = t.disabled
      /\ u.half = t.half
  BY DEF Differ, Fields, Pictures
<1>2. u \in Tree /\ t \in Tree /\ t.cached \subseteq Node
  BY DEF Differ, Agree, Tree
<1>3. /\ Fixed(u) = Fixed(t)
      /\ \A n : Kids(u, n) = Kids(t, n) /\ SameBox(t, u, n)
  BY <1>1 DEF Fixed, Kids, SameBox
<1>4. \A n : SonFlag(u, n) = SonFlag(t, n) /\ ChkImage(u, n) = ChkImage(t, n)
  BY <1>3, AlikeSay
<1>. SUFFICES ASSUME t.setting.enable, NEW n \in t.cached \ X, Simple(u, n) PROVE Right(u, n)
  BY <1>1 DEF SettledBut
<1>5. Right(t, n)
  BY <1>1, <1>3, SimpleStays DEF SettledBut
<1>6. Says(u, n)
  BY <1>2, <1>3, <1>4, <1>5, SaysStays DEF Right
<1>. QED  BY <1>1, <1>4, <1>5, <1>6 DEF Right

LEMMA DrawSettles ==
  ASSUME NEW t, Agree(t), NEW drawn \in SUBSET Node, NEW X, SettledBut(t, X)
  PROVE  SettledBut(Draw(t, drawn), X)
<1>. DEFINE u == Draw(t, drawn)
<1>1. /\ u \in Differ(t, Pictures) /\ u.li = t.li \cup drawn /\ u.state = t.state
      /\ \A n \in Node : u.box[n] = IF n \in drawn /\ t.setting.enable THEN ChkImage(t, n)
                                    ELSE t.box[n]
  BY DrawIs DEF Agree
<1>2. t.li \subseteq Node
  BY DEF Agree, Tree
<1>. HIDE DEF u
<1>3. SettledBut(u, X)
  BY <1>1, <1>2, ShownSettles
<1>. QED  BY <1>3 DEF u

\* What is shown of nodes: them, and the sons of what is shown open.
Showing(f, t) ==
  /\ f \in [Node -> SUBSET Node]
  /\ \A n \in Node : f[n] = {n} \cup IF n \in t.open THEN UNION {f[k] : k \in Kids(t, n)} ELSE {}

LEMMA ShownShowing ==
  ASSUME NEW t \in Tree, SonsEnd(t), NEW nodes \in Seq(Node)
  PROVE  \E f : Showing(f, t) /\ Shown(t, nodes) = UNION {f[n] : n \in Range(nodes)}
<1>2. PICK N \in Nat : \E height \in [Node -> 0 .. N] :
        \A p \in Node : \A m \in Kids(t, p) : height[m] < height[p]
  BY DEF SonsEnd
<1>3. PICK height \in [Node -> 0 .. N] : \A p \in Node : \A m \in Kids(t, p) : height[m] < height[p]
  BY <1>2
<1>4. \A p \in Node : Kids(t, p) \subseteq Node
  BY KidsAre
<1>. DEFINE V == SUBSET Node
            b(g, n) == {n} \cup IF n \in t.open THEN UNION {g[k] : k \in Kids(t, n)} ELSE {}
            e(f) == [n \in Node |-> b(f, n)]
            shown == CHOOSE f : f = e(f)
            F == [n \in Node |-> [g \in [Node -> V] |-> b(g, n)]]
<1>5. Shown(t, nodes) = UNION {shown[n] : n \in Range(nodes)}
  BY DEF Shown
<1>6. F \in [Node -> [[Node -> V] -> V]]
  <2>1. ASSUME NEW n \in Node, NEW g \in [Node -> V] PROVE b(g, n) \in V
    <3>1. \A k \in Kids(t, n) : g[k] \subseteq Node
      BY <1>4
    <3>2. (UNION {g[k] : k \in Kids(t, n)}) \subseteq Node
      BY <3>1
    <3>. QED  BY <3>2
  <2>. HIDE DEF V, b
  <2>. QED  BY <2>1
<1>7. Repairs!Determines(F, Node, V, height, N)
  <2>1. V # {}
    OBVIOUS
  <2>2. ASSUME NEW m \in Node, NEW g \in [Node -> V], NEW h \in [Node -> V],
               \A y \in Node : height[y] < height[m] => g[y] = h[y]
        PROVE  F[m][g] = F[m][h]
    <3>1. \A k \in Kids(t, m) : g[k] = h[k]
      BY <1>3, <1>4, <2>2
    <3>2. {g[k] : k \in Kids(t, m)} = {h[k] : k \in Kids(t, m)}
      BY <3>1
    <3>3. b(g, m) = b(h, m)
      BY <3>2
    <3>. HIDE DEF V, b
    <3>. QED  BY <3>3
  <2>. HIDE DEF V, F, b
  <2>. QED  BY <1>6, <2>1, <2>2 DEF Repairs!Determines
<1>8. PICK f : Repairs!Fixpoint(f, F, Node, V)
  <2>. HIDE DEF V, F, b
  <2>. QED  BY <1>7, Repairs!RankRecursion
<1>9. f \in [Node -> V] /\ f = e(f)
  <2>1. f \in [Node -> V] /\ \A m \in Node : f[m] = F[m][f]
    BY <1>8 DEF Repairs!Fixpoint
  <2>2. \A m \in Node : F[m][f] = b(f, m)
    <3>. HIDE DEF V, b
    <3>. QED  BY <2>1
  <2>3. f = e(f)
    <3>. HIDE DEF V, F, b
    <3>. QED  BY <2>1, <2>2
  <2>. QED  BY <2>1, <2>3
<1>10. shown = e(shown)
  <2>. HIDE DEF e
  <2>. QED  BY <1>9
<1>. HIDE DEF shown, F
<1>11. \A n \in Node : shown[n] = b(shown, n)
  <2>. HIDE DEF b
  <2>. QED  BY <1>10
<1>. DEFINE G == {n \in Node : shown[n] \in V}
<1>12. ASSUME NEW m \in Node, \A y \in Node : height[y] < height[m] => y \in G PROVE m \in G
  <2>1. \A k \in Kids(t, m) : shown[k] \in V
    BY <1>3, <1>4, <1>12
  <2>2. (UNION {shown[k] : k \in Kids(t, m)}) \in V
    BY <2>1
  <2>3. b(shown, m) \in V
    BY <2>2
  <2>. HIDE DEF b
  <2>. QED  BY <1>11, <2>3
<1>13. Repairs!Inherited(G, Node, height)
  <2>. HIDE DEF b
  <2>. QED  BY <1>3, <1>12 DEF Repairs!Inherited
<1>. HIDE DEF G
<1>14. Node \subseteq G
  BY <1>13, Repairs!RankInduction
<1>15. shown \in [Node -> V]
  <2>1. \A n \in Node : shown[n] \in V
    BY <1>14 DEF G
  <2>2. shown = [n \in Node |-> shown[n]]
    <3>. HIDE DEF b
    <3>1. DOMAIN e(shown) = Node
      OBVIOUS
    <3>2. e(shown) = [n \in Node |-> e(shown)[n]]
      OBVIOUS
    <3>. HIDE DEF e
    <3>. QED  BY <1>10, <3>2
  <2>. QED  BY <2>1, <2>2
<1>16. Showing(shown, t)
  <2>. HIDE DEF V
  <2>. QED  BY <1>11, <1>15 DEF Showing, V
<1>. QED  BY <1>5, <1>16

\* Every node that is shown is one of the nodes or a son of one shown open.
LEMMA ShownIs ==
  ASSUME NEW t \in Tree, SonsEnd(t), NEW nodes \in Seq(Node)
  PROVE  /\ Shown(t, nodes) \in SUBSET Node /\ Range(nodes) \subseteq Shown(t, nodes)
         /\ \A p \in Shown(t, nodes) \cap t.open : Kids(t, p) \subseteq Shown(t, nodes)
         /\ \A x \in Shown(t, nodes) :
              x \in Range(nodes) \/ \E p \in Shown(t, nodes) \cap t.open : x \in Kids(t, p)
<1>1. PICK f : Showing(f, t) /\ Shown(t, nodes) = UNION {f[n] : n \in Range(nodes)}
  BY ShownShowing
<1>2. PICK N \in Nat : \E height \in [Node -> 0 .. N] :
        \A p \in Node : \A m \in Kids(t, p) : height[m] < height[p]
  BY DEF SonsEnd
<1>3. PICK height \in [Node -> 0 .. N] : \A p \in Node : \A m \in Kids(t, p) : height[m] < height[p]
  BY <1>2
<1>4. \A p \in Node : Kids(t, p) \subseteq Node
  BY KidsAre
<1>5. f \in [Node -> SUBSET Node]
  BY <1>1 DEF Showing
<1>6. ASSUME NEW n \in Node
      PROVE  f[n] = {n} \cup IF n \in t.open THEN UNION {f[k] : k \in Kids(t, n)} ELSE {}
  BY <1>1 DEF Showing
<1>7. \A n \in Node : n \in f[n]
  BY <1>6
<1>. DEFINE Closed(m) == \A p \in f[m] \cap t.open : Kids(t, p) \subseteq f[m]
            Founded(m) == \A x \in f[m] : x = m \/ \E p \in f[m] \cap t.open : x \in Kids(t, p)
            G == {m \in Node : Closed(m) /\ Founded(m)}
<1>8. ASSUME NEW m \in Node, \A y \in Node : height[y] < height[m] => y \in G PROVE m \in G
  <2>1. CASE m \notin t.open
    <3>1. f[m] = {m}
      BY <1>6, <2>1
    <3>. QED  BY <2>1, <3>1
  <2>2. CASE m \in t.open
    <3>1. f[m] = {m} \cup UNION {f[k] : k \in Kids(t, m)}
      BY <1>6, <2>2
    <3>2. \A k \in Kids(t, m) : k \in G /\ k \in f[k] /\ f[k] \subseteq f[m]
      BY <1>3, <1>4, <1>7, <1>8, <3>1
    <3>3. ASSUME NEW p \in f[m] \cap t.open PROVE Kids(t, p) \subseteq f[m]
      <4>1. CASE p = m
        BY <3>2, <4>1
      <4>2. CASE p # m
        <5>1. PICK k \in Kids(t, m) : p \in f[k]
          BY <3>1, <4>2
        <5>. QED  BY <3>2, <5>1
      <4>. QED  BY <4>1, <4>2
    <3>4. ASSUME NEW x \in f[m], x # m PROVE \E p \in f[m] \cap t.open : x \in Kids(t, p)
      <4>1. PICK k \in Kids(t, m) : x \in f[k]
        BY <3>1, <3>4
      <4>2. CASE x = k
        BY <1>7, <2>2, <4>2
      <4>3. CASE x # k
        <5>1. \E p \in f[k] \cap t.open : x \in Kids(t, p)
          BY <3>2, <4>1, <4>3
        <5>. QED  BY <3>2, <5>1
      <4>. QED  BY <4>2, <4>3
    <3>. QED  BY <3>3, <3>4
  <2>. QED  BY <2>1, <2>2
<1>9. Repairs!Inherited(G, Node, height)
  <2>1. height \in [Node -> Nat]
    OBVIOUS
  <2>. HIDE DEF G
  <2>. QED  BY <1>8, <2>1 DEF Repairs!Inherited
<1>. HIDE DEF G
<1>10. Node \subseteq G
  BY <1>9, Repairs!RankInduction
<1>11. \A n \in Node : Closed(n) /\ Founded(n)
  BY <1>10 DEF G
<1>12. Range(nodes) \subseteq Node
  BY DEF Range
<1>. DEFINE R == Range(nodes)
            S == UNION {f[n] : n \in R}
<1>13. R \subseteq Node /\ Shown(t, nodes) = S
  BY <1>1, <1>12
<1>. HIDE DEF R
<1>14. S \in SUBSET Node /\ R \subseteq S
  BY <1>5, <1>7, <1>13
<1>15. \A p \in S \cap t.open : Kids(t, p) \subseteq S
  BY <1>11, <1>13
<1>16. \A x \in S : x \in R \/ \E p \in S \cap t.open : x \in Kids(t, p)
  BY <1>11, <1>13
<1>. HIDE DEF S
<1>. QED  BY <1>13, <1>14, <1>15, <1>16 DEF R

\* What is shown of nodes of a set that has the sons of its nodes is in it.
LEMMA ShownInTree ==
  ASSUME NEW t \in Tree, SonsEnd(t), NEW K \in SUBSET Node,
         \A p \in K : Kids(t, p) \subseteq K,
         NEW nodes \in Seq(Node), Range(nodes) \subseteq K
  PROVE  Shown(t, nodes) \subseteq K
<1>1. PICK f : Showing(f, t) /\ Shown(t, nodes) = UNION {f[n] : n \in Range(nodes)}
  BY ShownShowing
<1>2. PICK N \in Nat : \E height \in [Node -> 0 .. N] :
        \A p \in Node : \A m \in Kids(t, p) : height[m] < height[p]
  BY DEF SonsEnd
<1>3. PICK height \in [Node -> 0 .. N] : \A p \in Node : \A m \in Kids(t, p) : height[m] < height[p]
  BY <1>2
<1>4. ASSUME NEW n \in Node
      PROVE  f[n] = {n} \cup IF n \in t.open THEN UNION {f[k] : k \in Kids(t, n)} ELSE {}
  BY <1>1 DEF Showing
<1>. DEFINE G == {n \in Node : n \in K => f[n] \subseteq K}
<1>5. ASSUME NEW m \in Node, \A y \in Node : height[y] < height[m] => y \in G PROVE m \in G
  <2>. SUFFICES ASSUME m \in K PROVE f[m] \subseteq K
    OBVIOUS
  <2>1. \A k \in Kids(t, m) : f[k] \subseteq K
    BY <1>3, <1>5, KidsAre
  <2>2. (UNION {f[k] : k \in Kids(t, m)}) \subseteq K
    BY <2>1
  <2>. QED  BY <1>4, <2>2
<1>6. Repairs!Inherited(G, Node, height)
  BY <1>3, <1>5 DEF Repairs!Inherited
<1>. HIDE DEF G
<1>7. Node \subseteq G
  BY <1>6, Repairs!RankInduction
<1>8. \A n \in Range(nodes) : f[n] \subseteq K
  BY <1>7 DEF G
<1>. QED  BY <1>1, <1>8

MakeFlag(t, n, x) == MakeChkFlag(t, n)
Flags == INSTANCE Recursion WITH op <- MakeFlag

LEMMA FlagsDiffer ==
  ASSUME NEW t \in Tree, NEW s \in Seq(Node)
  PROVE  Each(MakeChkFlag, t, s) \in Differ(t, {"state"})
<1>. DEFINE T == Differ(t, {"state"})
<1>1. \A w \in T : \A m \in Node : MakeFlag(w, m, 0) \in T
  <2>. SUFFICES ASSUME NEW w \in T, NEW m \in Node PROVE MakeChkFlag(w, m) \in T
    BY DEF MakeFlag
  <2>1. w \in Tree
    BY DEF Differ
  <2>2. MakeChkFlag(w, m) \in Differ(w, {"state"})
    BY <2>1, MakeChkFlagDiffers
  <2>. QED  BY <2>2, DifferChain
<1>2. Each(MakeChkFlag, t, s) = Flags!Along(t, s, 0)
  BY DEF Each, Flags!Along, MakeFlag
<1>3. t \in T
  BY DifferNot
<1>. HIDE DEF T
<1>4. Flags!Keeps(Node, T, 0)
  BY <1>1 DEF Flags!Keeps
<1>. QED  BY <1>2, <1>3, <1>4, Flags!AlongStays DEF T

\* With a node, what is above it is in X.
Climbing(t, X) == \A x \in X \cap Node : t.parent[x] \in X \cup {Root}

\* States may be set anew of what is right, or above something that is not.
LEMMA FlagsSettle ==
  ASSUME NEW t, Agree(t), NEW s \in Seq(Node), NEW X, Climbing(t, X), SettledBut(t, X)
  PROVE  SettledBut(Each(MakeChkFlag, t, s), X)
<1>. DEFINE T == {w \in Differ(t, {"state"}) : SettledBut(w, X)}
<1>1. t \in Tree /\ {"state"} \cap Family3 = {}
  BY DEF Agree, Family3
<1>2. ASSUME NEW w \in T, NEW m \in Node PROVE MakeFlag(w, m, 0) \in T
  <2>. DEFINE u == MakeChkFlag(w, m)
  <2>1. Agree(w) /\ w \in Tree /\ w.parent = t.parent /\ w.cached \subseteq Node
    <3>1. w \in Differ(t, {"state"})
      OBVIOUS
    <3>2. Agree(w)
      BY <1>1, <3>1, AgreeStays
    <3>. QED  BY <3>1, <3>2 DEF Agree, Tree, Differ, Fields
  <2>2. u \in Differ(w, {"state"})
    BY <2>1, MakeChkFlagDiffers
  <2>3. u \in Differ(t, {"state"})
    BY <1>1, <2>2, DifferChain
  <2>4. SettledBut(u, X)
    <3>1. CASE m \notin X
      BY <2>1, <3>1, FlagSettles
    <3>2. CASE m \in X
      <4>1. Touched(w, u, {m}) /\ {m} \in SUBSET Node
        BY <2>1, FlagTouches
      <4>. HIDE DEF u
      <4>2. SettledBut(u, X \cup {m} \cup ParentsOf(w, {m})) /\ u.cached = w.cached
        BY <2>1, <2>2, <4>1, Disturbed DEF Differ, Fields
      <4>3. ParentsOf(w, {m}) = {t.parent[m]} /\ t.parent[m] \in X \cup {Root} /\ Root \notin u.cached
        BY <2>1, <3>2, <4>2, TreeAssumption DEF Climbing, ParentsOf
      <4>4. (X \cup {m} \cup ParentsOf(w, {m})) \cap u.cached \subseteq X
        BY <3>2, <4>3
      <4>. QED  BY <4>2, <4>4, SettledLess
    <3>. QED  BY <3>1, <3>2
  <2>. QED  BY <2>3, <2>4 DEF MakeFlag
<1>3. Each(MakeChkFlag, t, s) = Flags!Along(t, s, 0)
  BY DEF Each, Flags!Along, MakeFlag
<1>4. t \in T
  BY <1>1, DifferNot
<1>. HIDE DEF T
<1>5. Flags!Keeps(Node, T, 0)
  BY <1>2 DEF Flags!Keeps
<1>. QED  BY <1>3, <1>4, <1>5, Flags!AlongStays DEF T

LEMMA AppendFlags ==
  ASSUME NEW t \in Tree, SonsEnd(t), NEW p \in Node \cup {Root}, NEW nodes \in Seq(Node),
         NEW drawn
  PROVE  \E s \in Seq(Node) : AppendNodes(t, p, nodes, drawn) = Draw(Each(MakeChkFlag, t, s), drawn)
<1>. DEFINE b(i) == Below(t, nodes[i]) \o <<nodes[i]>>
            family == FlattenSeq([i \in DOMAIN nodes |-> b(i)])
            flags == Only(family, {n \in Node : HasKids(t, n)} \cup drawn)
            all == IF p = Root THEN flags ELSE Append(flags, p)
<1>1. AppendNodes(t, p, nodes, drawn) = Draw(Each(MakeChkFlag, t, all), drawn)
  BY DEF AppendNodes
<1>2. family \in Seq(Node)
  <2>1. \A i \in 1 .. Len(nodes) : b(i) \in Seq(Node)
    <3>. SUFFICES ASSUME NEW i \in 1 .. Len(nodes) PROVE b(i) \in Seq(Node)
      OBVIOUS
    <3>1. nodes[i] \in Node
      OBVIOUS
    <3>2. Below(t, nodes[i]) \in Seq(Node)
      BY <3>1, BelowIs
    <3>. QED  BY <3>1, <3>2, Joined
  <2>2. DOMAIN nodes = 1 .. Len(nodes) /\ Len(nodes) \in Nat
    OBVIOUS
  <2>. DEFINE bs == [i \in DOMAIN nodes |-> b(i)]
  <2>. HIDE DEF b
  <2>3. bs \in [1 .. Len(nodes) -> Seq(Node)]
    BY <2>1, <2>2
  <2>. HIDE DEF bs
  <2>4. bs \in Seq(Seq(Node))
    BY <2>2, <2>3
  <2>5. FlattenSeq(bs) \in Seq(Node)
    BY <2>4, Flattened
  <2>. QED  BY <2>5 DEF bs
<1>. HIDE DEF family
<1>3. flags \in Seq(Node)
  BY <1>2, OnlyIs
<1>. HIDE DEF flags
<1>4. all \in Seq(Node)
  BY <1>3
<1>. HIDE DEF all
<1>. QED  BY <1>1, <1>4

\* u is t with the elements of the nodes in drawn.
Appended(t, drawn, u) ==
  /\ u \in Differ(t, Pictures)
  /\ u.li = t.li \cup drawn /\ u.ul = t.ul \cup (drawn \cap t.isParent \cap t.open)
  /\ u.lined = t.lined \cup ((drawn \cap t.isParent \cap t.open) \ t.last)
  /\ \A n \in Node : u.line[n] = IF n \in drawn THEN LineClass(t, n) ELSE t.line[n]

LEMMA AppendIs ==
  ASSUME NEW t \in Tree, SonsEnd(t), NEW p \in Node \cup {Root}, NEW nodes \in Seq(Node),
         NEW drawn \in SUBSET Node
  PROVE  Appended(t, drawn, AppendNodes(t, p, nodes, drawn))
<1>1. PICK all \in Seq(Node) : AppendNodes(t, p, nodes, drawn) = Draw(Each(MakeChkFlag, t, all), drawn)
  BY AppendFlags
<1>. DEFINE w == Each(MakeChkFlag, t, all)
            uls == drawn \cap t.isParent \cap t.open
<1>5. w \in Differ(t, {"state"})
  BY FlagsDiffer
<1>. HIDE DEF w
<1>6. /\ w \in Tree /\ w.parent = t.parent /\ w.first = t.first /\ w.last = t.last
      /\ w.isParent = t.isParent /\ w.open = t.open /\ w.li = t.li /\ w.ul = t.ul
      /\ w.lined = t.lined /\ w.line = t.line
  BY <1>5 DEF Differ, Fields
<1>7. \A n : LineClass(w, n) = LineClass(t, n)
  BY <1>6 DEF LineClass, Folder
<1>. DEFINE u == Draw(w, drawn)
<1>8. /\ u \in Differ(w, Pictures)
      /\ u.li = w.li \cup drawn /\ u.ul = w.ul \cup (drawn \cap w.isParent \cap w.open)
      /\ u.lined = w.lined \cup ((drawn \cap w.isParent \cap w.open) \ w.last)
      /\ \A n \in Node : u.line[n] = IF n \in drawn THEN LineClass(w, n) ELSE w.line[n]
  BY <1>6, DrawIs
<1>. HIDE DEF u
<1>9. u \in Differ(t, Pictures)
  BY <1>5, <1>8 DEF Differ, Pictures
<1>10. AppendNodes(t, p, nodes, drawn) = u
  BY <1>1 DEF u, w
<1>. QED  BY <1>6, <1>7, <1>8, <1>9, <1>10 DEF Appended

LEMMA AppendSettles ==
  ASSUME NEW t, Agree(t), NEW p \in Node \cup {Root}, NEW nodes \in Seq(Node),
         NEW drawn \in SUBSET Node, NEW X, Climbing(t, X), SettledBut(t, X)
  PROVE  SettledBut(AppendNodes(t, p, nodes, drawn), X)
<1>1. t \in Tree /\ SonsEnd(t) /\ {"state"} \cap Family3 = {}
  BY AgreeEnds DEF Agree, Family3
<1>2. PICK s \in Seq(Node) : AppendNodes(t, p, nodes, drawn) = Draw(Each(MakeChkFlag, t, s), drawn)
  BY <1>1, AppendFlags
<1>. DEFINE w == Each(MakeChkFlag, t, s)
<1>3. Agree(w)
  <2>1. w \in Differ(t, {"state"})
    BY <1>1, FlagsDiffer
  <2>. HIDE DEF w
  <2>. QED  BY <1>1, <2>1, AgreeStays
<1>4. SettledBut(w, X)
  BY FlagsSettle
<1>. HIDE DEF w
<1>5. SettledBut(Draw(w, drawn), X)
  BY <1>3, <1>4, DrawSettles
<1>. QED  BY <1>2, <1>5 DEF w

\* The list of n is drawn anew: what was below n goes, what is shown below it
\* comes.
LEMMA DrawSonsIs ==
  ASSUME NEW t, Agree(t), NEW n \in Node
  PROVE  LET r == DrawSons(t, n)
             B == Under(t, n)
             S == Shown(t, t.kids[n])
             uls == S \cap t.isParent \cap t.open
         IN  /\ r \in Differ(t, Pictures)
             /\ r.li = (t.li \ B) \cup S
             /\ r.ul = (t.ul \ (B \cup {n})) \cup uls \cup {n}
             /\ r.lined = Assign((t.lined \ (B \cup {n})) \cup (uls \ t.last), n, n \notin t.last)
             /\ \A m \in Node : r.line[m] = IF m \in S THEN LineClass(t, m)
                                            ELSE IF m \in B THEN Nothing ELSE t.line[m]
             /\ Settled(t) => Settled(r)
<1>. DEFINE B == Under(t, n)
            S == Shown(t, t.kids[n])
            uls == S \cap t.isParent \cap t.open
            li == t.li \ B
            ul == t.ul \ (B \cup {n})
            lined == t.lined \ (B \cup {n})
            box == [m \in Node |-> IF m \in B THEN Nothing ELSE t.box[m]]
            line == [m \in Node |-> IF m \in B THEN Nothing ELSE t.line[m]]
            u == [t EXCEPT !.li = li, !.ul = ul, !.lined = lined, !.box = box, !.line = line]
            w == AppendNodes(u, n, t.kids[n], S)
            lined2 == Assign(w.lined, n, n \notin t.last)
            r == [w EXCEPT !.ul = w.ul \cup {n}, !.lined = lined2]
<1>1. t \in Tree /\ SonsEnd(t) /\ t.kids[n] \in Seq(Node)
  BY AgreeEnds, KidsAre DEF Agree
<1>2. DrawSons(t, n) = r
  BY DEF DrawSons
<1>3. li \subseteq Node /\ ul \subseteq Node /\ lined \subseteq Node
  BY <1>1 DEF Tree
<1>4. box \in [Node -> Image \cup {Nothing}] /\ line \in [Node -> Line \cup {Nothing}]
  BY <1>1 DEF Tree
<1>5. S \in SUBSET Node
  BY <1>1, ShownIs
<1>6. \A m \in Node : /\ line[m] = IF m \in B THEN Nothing ELSE t.line[m]
                      /\ m \in li => m \in t.li /\ box[m] = t.box[m]
  OBVIOUS
<1>. HIDE DEF B, S, li, ul, lined, box, line
<1>7. /\ u \in Differ(t, Pictures) /\ u.li = li /\ u.ul = ul /\ u.lined = lined /\ u.line = line
      /\ u.box = box /\ u.state = t.state
  BY <1>1, <1>3, <1>4 DEF Tree, Differ, Fields, Pictures
<1>. HIDE DEF u
<1>8. /\ u \in Tree /\ u.kids = t.kids /\ u.parent = t.parent /\ u.first = t.first
      /\ u.last = t.last /\ u.isParent = t.isParent /\ u.open = t.open
  BY <1>7 DEF Differ, Fields, Pictures
<1>9. \A m : LineClass(u, m) = LineClass(t, m)
  BY <1>8 DEF LineClass, Folder
<1>10. SonsEnd(u)
  BY <1>1, <1>8 DEF SonsEnd, Kids
<1>11. /\ w \in Differ(u, Pictures)
       /\ w.li = u.li \cup S /\ w.ul = u.ul \cup (S \cap u.isParent \cap u.open)
       /\ w.lined = u.lined \cup ((S \cap u.isParent \cap u.open) \ u.last)
       /\ \A m \in Node : w.line[m] = IF m \in S THEN LineClass(u, m) ELSE u.line[m]
  <2>1. Appended(u, S, w)
    BY <1>1, <1>5, <1>8, <1>10, AppendIs
  <2>. HIDE DEF w
  <2>. QED  BY <2>1 DEF Appended
<1>18. Settled(t) => Settled(w)
  <2>. SUFFICES ASSUME Settled(t) PROVE Settled(w)
    OBVIOUS
  <2>1. Pictures \cap Family3 = {} /\ Climbing(u, {})
    BY DEF Pictures, Family3, Climbing
  <2>2. Agree(u)
    BY <1>7, <2>1, AgreeStays
  <2>3. SettledBut(t, {})
    BY DEF Settled
  <2>4. SettledBut(u, {})
    BY <1>3, <1>6, <1>7, <2>3, ShownSettles
  <2>5. SettledBut(w, {})
    BY <1>1, <1>5, <2>1, <2>2, <2>4, AppendSettles
  <2>. QED  BY <2>5 DEF Settled
<1>. HIDE DEF w
<1>12. w \in Tree /\ w \in Differ(t, Pictures)
  BY <1>7, <1>11 DEF Differ, Pictures
<1>13. lined2 \in SUBSET Node /\ w.ul \cup {n} \in SUBSET Node
  BY <1>12 DEF Tree, Assign
<1>. HIDE DEF lined2
<1>14. /\ r \in Differ(t, Pictures) /\ r.li = w.li /\ r.ul = w.ul \cup {n} /\ r.lined = lined2
       /\ r.line = w.line /\ r \in Differ(w, {"ul", "lined"})
  BY <1>12, <1>13 DEF Tree, Differ, Fields, Pictures
<1>. HIDE DEF r
<1>15. r.li = (t.li \ B) \cup S /\ r.ul = (t.ul \ (B \cup {n})) \cup uls \cup {n}
  BY <1>7, <1>8, <1>11, <1>14 DEF li, ul
<1>16. r.lined = Assign((t.lined \ (B \cup {n})) \cup (uls \ t.last), n, n \notin t.last)
  BY <1>7, <1>8, <1>11, <1>14 DEF lined, lined2
<1>17. \A m \in Node : r.line[m] = IF m \in S THEN LineClass(t, m)
                                   ELSE IF m \in B THEN Nothing ELSE t.line[m]
  BY <1>6, <1>7, <1>9, <1>11, <1>14
<1>19. Settled(t) => Settled(r)
  <2>1. Pictures \cap Family3 = {} /\ {"ul", "lined"} \cap Boxing = {}
    BY DEF Pictures, Family3, Boxing
  <2>2. Agree(w)
    BY <1>12, <2>1, AgreeStays
  <2>. QED  BY <1>14, <1>18, <2>1, <2>2, SettledStays DEF Settled
<1>. QED  BY <1>2, <1>14, <1>15, <1>16, <1>17, <1>19 DEF B, S

LEMMA DrawSonsRedraws ==
  ASSUME NEW t, Sound(t), NEW n \in t.cached
  PROVE  LET r == DrawSons(t, n) IN
         /\ r \in Redrawn(t) /\ r.open = t.open
         /\ n \in r.ul /\ Kids(t, n) \subseteq r.li
         /\ \A E : Whole(t, E) => Whole(r, E \ {n})
<1>. DEFINE r == DrawSons(t, n)
            B == Under(t, n)
            S == Shown(t, t.kids[n])
            uls == S \cap t.isParent \cap t.open
<1>1. Agree(t) /\ t \in Tree /\ SonsEnd(t) /\ t.cached \subseteq Node /\ n \in Node
  BY AgreeEnds DEF Sound, Agree, Tree
<1>2. /\ r \in Differ(t, Pictures)
      /\ r.li = (t.li \ B) \cup S
      /\ r.ul = (t.ul \ (B \cup {n})) \cup uls \cup {n}
      /\ r.lined = Assign((t.lined \ (B \cup {n})) \cup (uls \ t.last), n, n \notin t.last)
      /\ \A m \in Node : r.line[m] = IF m \in S THEN LineClass(t, m)
                                     ELSE IF m \in B THEN Nothing ELSE t.line[m]
      /\ Settled(t) => Settled(r)
  BY <1>1, DrawSonsIs
<1>3. B = {k \in t.cached : t.parent[k] \in {n} \cup B} /\ n \notin B
  BY <1>1, UnderIs
<1>4. \A p \in Node \cup {Root} : Kids(t, p) = {q \in t.cached : t.parent[q] = p}
  BY <1>1 DEF Agree
<1>5. t.kids[n] \in Seq(Node) /\ Range(t.kids[n]) = Kids(t, n)
  BY <1>1, KidsAre DEF Kids
<1>6. S \subseteq B
  <2>1. \A p \in B : Kids(t, p) \subseteq B
    BY <1>1, <1>3, <1>4
  <2>2. Kids(t, n) \subseteq B /\ B \in SUBSET Node
    BY <1>1, <1>3, <1>4
  <2>. HIDE DEF B
  <2>. QED  BY <1>1, <1>5, <2>1, <2>2, ShownInTree
<1>7. /\ Kids(t, n) \subseteq S
      /\ \A p \in S \cap t.open : Kids(t, p) \subseteq S
      /\ \A x \in S : x \in Kids(t, n) \/ \E p \in S \cap t.open : x \in Kids(t, p)
  BY <1>1, <1>5, ShownIs
<1>8. t.open \subseteq t.isParent /\ t.lined = t.ul \ t.last /\ Root \notin Node
  BY TreeAssumption DEF Sound, Inner, Pictured
<1>. HIDE DEF r, B, S
<1>9. /\ r \in Differ(t, View) /\ r.kids = t.kids /\ r.cached = t.cached /\ r.parent = t.parent
      /\ r.isParent = t.isParent /\ r.open = t.open /\ r.first = t.first /\ r.last = t.last
      /\ r.selected = t.selected
  BY <1>2 DEF Differ, View, Pictures, Fields
<1>10. Agree(r)
  <2>1. View \cap Family3 = {}
    BY DEF View, Family3
  <2>. QED  BY <1>1, <1>9, <2>1, AgreeStays
<1>11. \A p : Kids(r, p) = Kids(t, p) /\ (HasKids(r, p) <=> HasKids(t, p))
  BY <1>9 DEF Kids, HasKids
<1>12. \A m : LineClass(r, m) = LineClass(t, m)
  BY <1>9 DEF LineClass, Folder
<1>13. Inner(r) /\ Ended(r) /\ Range(r.selected) \subseteq r.cached
  BY <1>9, <1>11 DEF Sound, Inner, Ended
<1>14. Pictured(r)
  <2>1. r.li \subseteq r.cached /\ r.ul \subseteq r.cached
    BY <1>2, <1>3, <1>6, <1>9 DEF Sound, Pictured
  <2>2. r.lined = r.ul \ r.last
    BY <1>2, <1>8, <1>9 DEF Assign
  <2>3. Kids(r, Root) \subseteq r.li
    <3>1. Kids(t, Root) \cap B = {}
      BY <1>1, <1>3, <1>4, <1>8
    <3>. QED  BY <1>2, <1>11, <3>1 DEF Sound, Pictured
  <2>4. ASSUME NEW m \in r.li PROVE r.parent[m] \in r.ul \cup {Root} /\ r.line[m] = LineClass(r, m)
    <3>1. CASE m \in S
      <4>1. m \in Node /\ m \in t.cached
        BY <1>1, <1>3, <1>6, <3>1
      <4>2. t.parent[m] \in {n} \cup (S \cap t.open)
        <5>1. CASE m \in Kids(t, n)
          BY <1>1, <1>4, <5>1
        <5>2. CASE \E p \in S \cap t.open : m \in Kids(t, p)
          BY <1>1, <1>3, <1>4, <1>6, <5>2
        <5>. QED  BY <1>7, <3>1, <5>1, <5>2
      <4>. QED  BY <1>2, <1>8, <1>9, <1>12, <3>1, <4>1, <4>2
    <3>2. CASE m \in t.li \ (B \cup S)
      <4>1. m \in t.cached /\ m \in Node /\ t.parent[m] \in t.ul \cup {Root}
            /\ t.line[m] = LineClass(t, m)
        BY <1>1, <3>2 DEF Sound, Pictured
      <4>2. t.parent[m] \notin B
        BY <1>3, <3>2, <4>1
      <4>. QED  BY <1>2, <1>9, <1>12, <3>2, <4>1, <4>2
    <3>. QED  BY <1>2, <1>6, <3>1, <3>2
  <2>. QED  BY <2>1, <2>2, <2>3, <2>4 DEF Pictured
<1>15. ASSUME NEW E, Whole(t, E) PROVE Whole(r, E \ {n})
  <2>. SUFFICES ASSUME NEW p \in Node \ (E \ {n})
                PROVE  /\ Kids(t, p) \subseteq r.li \/ Kids(t, p) \cap r.li = {}
                       /\ p \in (r.li \cup r.ul) \cap t.open => p \in r.ul /\ Kids(t, p) \subseteq r.li
    BY <1>9, <1>11 DEF Whole
  <2>1. CASE p = n
    BY <1>2, <1>7, <2>1
  <2>2. CASE p \in B /\ p # n
    <3>1. Kids(t, p) \subseteq B
      <4>1. Kids(t, p) = {q \in t.cached : t.parent[q] = p}
        BY <1>4
      <4>. QED  BY <1>3, <2>2, <4>1
    <3>2. CASE p \in S /\ p \in t.open
      BY <1>2, <1>7, <1>8, <3>2
    <3>3. CASE p \notin S \/ p \notin t.open
      <4>1. Kids(t, p) \cap S = {}
        <5>. SUFFICES ASSUME NEW x \in Kids(t, p) \cap S PROVE FALSE
          OBVIOUS
        <5>1. t.parent[x] = p
          BY <1>4
        <5>2. x \in Kids(t, n) => t.parent[x] = n
          BY <1>1, <1>4
        <5>3. \A y \in S \cap t.open : x \in Kids(t, y) => t.parent[x] = y
          BY <1>1, <1>3, <1>4, <1>6
        <5>. QED  BY <1>7, <2>2, <3>3, <5>1, <5>2, <5>3
      <4>2. p \notin (r.li \cup r.ul) \cap t.open
        BY <1>2, <2>2, <3>3
      <4>. QED  BY <1>2, <3>1, <4>1, <4>2
    <3>. QED  BY <3>2, <3>3
  <2>3. CASE p \notin B /\ p # n
    <3>1. Kids(t, p) \cap B = {} /\ p \notin S
      BY <1>3, <1>4, <1>6, <2>3
    <3>2. Kids(t, p) \cap r.li = Kids(t, p) \cap t.li /\ (p \in r.li <=> p \in t.li)
          /\ (p \in r.ul <=> p \in t.ul)
      BY <1>2, <1>6, <2>3, <3>1
    <3>3. /\ Kids(t, p) \subseteq t.li \/ Kids(t, p) \cap t.li = {}
          /\ p \in (t.li \cup t.ul) \cap t.open => p \in t.ul /\ Kids(t, p) \subseteq t.li
      BY <1>15, <2>3 DEF Whole
    <3>. QED  BY <3>2, <3>3
  <2>. QED  BY <2>1, <2>2, <2>3
<1>16. Sound(r)
  BY <1>10, <1>13, <1>14 DEF Sound
<1>17. \A E : Whole(t, E) => Whole(r, E)
  <2>. SUFFICES ASSUME NEW E, Whole(t, E) PROVE Whole(r, E)
    OBVIOUS
  <2>1. Whole(r, E \ {n})
    BY <1>15
  <2>. QED  BY <2>1 DEF Whole
<1>18. r \in Redrawn(t)
  BY <1>2, <1>9, <1>16, <1>17 DEF Redrawn
<1>. QED  BY <1>2, <1>7, <1>9, <1>15, <1>18 DEF r

\* r is t with the list of n in the document.
Listing(t, n, r) == /\ r \in Redrawn(t) /\ r.open = t.open
                    /\ n \in r.ul /\ Kids(t, n) \subseteq r.li
                    /\ \A E : Whole(t, E) => Whole(r, E \ {n})

\* However many ancestors have to be drawn before.
LEMMA AppendParentRedraws ==
  ASSUME NEW t, Sound(t), NEW n \in t.cached
  PROVE  Listing(t, n, AppendParentULDom(t, n))
<1>1. t \in Tree /\ Agree(t) /\ t.cached \subseteq Node /\ n \in Node
  BY DEF Sound, Agree, Tree
<1>2. PICK N \in Nat : \E depth \in [Node -> 0 .. N] :
        \A m \in Node : t.parent[m] # Root => depth[t.parent[m]] < depth[m]
  BY <1>1 DEF ParentsEnd, Agree
<1>3. PICK depth \in [Node -> 0 .. N] :
        \A m \in Node : t.parent[m] # Root => depth[t.parent[m]] < depth[m]
  BY <1>2
<1>4. \A m \in Node : t.parent[m] # Root => t.parent[m] \in Node
  BY <1>1 DEF Tree
<1>. DEFINE V == Differ(t, Pictures)
            from(f, m) == IF m \in t.li \/ t.parent[m] = Root THEN t ELSE f[t.parent[m]]
            e(f) == [m \in Node |-> DrawSons(from(f, m), m)]
            drawn == CHOOSE f : f = e(f)
            F == [m \in Node |-> [g \in [Node -> V] |-> DrawSons(from(g, m), m)]]
<1>5. AppendParentULDom(t, n) = drawn[n]
  BY DEF AppendParentULDom
<1>6. t \in V
  BY <1>1, DifferNot
<1>7. ASSUME NEW x \in V, NEW m \in Node PROVE DrawSons(x, m) \in V
  <2>1. Pictures \cap Family3 = {}
    BY DEF Pictures, Family3
  <2>2. Agree(x)
    BY <1>1, <2>1, AgreeStays
  <2>3. DrawSons(x, m) \in Differ(x, Pictures) /\ x \in Tree
    BY <2>2, DrawSonsIs DEF Agree
  <2>. QED  BY <1>1, <2>3, DifferChain
<1>8. F \in [Node -> [[Node -> V] -> V]]
  <2>1. ASSUME NEW m \in Node, NEW g \in [Node -> V] PROVE DrawSons(from(g, m), m) \in V
    <3>1. from(g, m) \in V
      BY <1>4, <1>6
    <3>. HIDE DEF V, from
    <3>. QED  BY <1>7, <3>1
  <2>. HIDE DEF V, from
  <2>. QED  BY <2>1
<1>9. Repairs!Determines(F, Node, V, depth, N)
  <2>1. V # {}
    BY <1>6
  <2>2. ASSUME NEW m \in Node, NEW g \in [Node -> V], NEW h \in [Node -> V],
               \A y \in Node : depth[y] < depth[m] => g[y] = h[y]
        PROVE  F[m][g] = F[m][h]
    <3>1. from(g, m) = from(h, m)
      BY <1>3, <1>4, <2>2
    <3>. HIDE DEF V, from
    <3>. QED  BY <3>1
  <2>. HIDE DEF V, F, from
  <2>. QED  BY <1>8, <2>1, <2>2 DEF Repairs!Determines
<1>10. PICK f : Repairs!Fixpoint(f, F, Node, V)
  <2>. HIDE DEF V, F
  <2>. QED  BY <1>9, Repairs!RankRecursion
<1>11. drawn = e(drawn)
  <2>1. f \in [Node -> V] /\ \A m \in Node : f[m] = F[m][f]
    BY <1>10 DEF Repairs!Fixpoint
  <2>2. \A m \in Node : F[m][f] = DrawSons(from(f, m), m)
    <3>. HIDE DEF V, from
    <3>. QED  BY <2>1
  <2>3. f = e(f)
    <3>. HIDE DEF V, F, from
    <3>. QED  BY <2>1, <2>2
  <2>. HIDE DEF e
  <2>. QED  BY <2>3
<1>. HIDE DEF drawn, F
<1>12. \A m \in Node : drawn[m] = DrawSons(from(drawn, m), m)
  <2>. HIDE DEF from
  <2>. QED  BY <1>11
<1>. HIDE DEF V, e
<1>. DEFINE G == {m \in Node : m \in t.cached => Listing(t, m, drawn[m])}
<1>13. ASSUME NEW m \in Node, \A y \in Node : depth[y] < depth[m] => y \in G PROVE m \in G
  <2>. SUFFICES ASSUME m \in t.cached PROVE Listing(t, m, drawn[m])
    OBVIOUS
  <2>. DEFINE x == from(drawn, m)
              r == DrawSons(x, m)
  <2>1. x \in Redrawn(t) /\ x.open = t.open
    <3>1. CASE m \in t.li \/ t.parent[m] = Root
      BY <3>1, RedrawnNot
    <3>2. CASE m \notin t.li /\ t.parent[m] # Root
      <4>1. t.parent[m] \in t.cached /\ t.parent[m] \in Node
        BY <1>1, <1>4, <3>2 DEF Agree
      <4>2. Listing(t, t.parent[m], drawn[t.parent[m]])
        BY <1>3, <1>13, <3>2, <4>1
      <4>. QED  BY <3>2, <4>2 DEF Listing
    <3>. QED  BY <3>1, <3>2
  <2>. HIDE DEF x
  <2>2. Sound(x) /\ x.cached = t.cached /\ x.kids = t.kids /\ Redrawn(x) \subseteq Redrawn(t)
    BY <2>1, RedrawnChain
  <2>3. /\ r \in Redrawn(x) /\ r.open = x.open /\ m \in r.ul /\ Kids(x, m) \subseteq r.li
        /\ \A E : Whole(x, E) => Whole(r, E \ {m})
    BY <2>2, DrawSonsRedraws
  <2>. HIDE DEF r
  <2>4. \A E : Whole(t, E) => Whole(x, E)
    BY <2>1 DEF Redrawn
  <2>5. Listing(t, m, r)
    BY <2>1, <2>2, <2>3, <2>4 DEF Listing, Kids
  <2>. QED  BY <1>12, <2>5 DEF r, x
<1>14. Repairs!Inherited(G, Node, depth)
  <2>1. depth \in [Node -> Nat]
    BY <1>2, <1>3
  <2>. HIDE DEF G
  <2>. QED  BY <1>13, <2>1 DEF Repairs!Inherited
<1>. HIDE DEF G
<1>15. Node \subseteq G
  BY <1>14, Repairs!RankInduction
<1>. QED  BY <1>1, <1>5, <1>15 DEF G

\* The folder of a node is drawn anew, or its line.
LEMMA FolderIs ==
  ASSUME NEW t \in Tree, NEW n \in Node, n \in t.li => t.line[n] \in Line
  PROVE  /\ ReplaceFolder(t, n) \in Differ(t, {"line"})
         /\ \A m \in Node : ReplaceFolder(t, n).line[m] =
              IF m = n /\ n \in t.li THEN <<t.line[n][1], Folder(t, n)>> ELSE t.line[m]
<1>. DEFINE l == IF n \in t.li THEN <<t.line[n][1], Folder(t, n)>> ELSE t.line[n]
            u == [t EXCEPT !.line[n] = l]
<1>1. ReplaceFolder(t, n) = u
  BY DEF ReplaceFolder
<1>2. n \in t.li => l \in Line
  <2>. SUFFICES ASSUME n \in t.li PROVE l \in Line
    OBVIOUS
  <2>1. t.line[n] \in Line /\ Folder(t, n) \in {"open", "close", "docu"}
    BY LineClassType
  <2>. DEFINE x == t.line[n]
  <2>2. x[1] \in {"root", "roots", "center", "bottom"}
    BY <2>1 DEF Line
  <2>3. l = <<x[1], Folder(t, n)>>
    OBVIOUS
  <2>. HIDE DEF x, l
  <2>. QED  BY <2>1, <2>2, <2>3 DEF Line
<1>3. l \in Line \cup {Nothing}
  <2>1. t.line[n] \in Line \cup {Nothing}
    BY DEF Tree
  <2>2. n \notin t.li => l = t.line[n]
    OBVIOUS
  <2>. HIDE DEF l
  <2>. QED  BY <1>2, <2>1, <2>2
<1>4. \A m \in Node : u.line[m] = IF m = n THEN l ELSE t.line[m]
  BY DEF Tree
<1>5. u \in Differ(t, {"line"})
  <2>. HIDE DEF l
  <2>. QED  BY <1>3 DEF Tree, Differ, Fields
<1>. HIDE DEF u
<1>. QED  BY <1>1, <1>4, <1>5

LEMMA ReplaceLineIs ==
  ASSUME NEW t \in Tree, NEW n \in Node, n \in t.li => t.line[n] \in Line,
         NEW l \in {"root", "roots", "center", "bottom"}
  PROVE  /\ ReplaceLine(t, n, l) \in Differ(t, {"line"})
         /\ \A m \in Node : ReplaceLine(t, n, l).line[m] =
              IF m = n /\ n \in t.li THEN <<l, t.line[n][2]>> ELSE t.line[m]
<1>. DEFINE k == IF n \in t.li THEN <<l, t.line[n][2]>> ELSE t.line[n]
            u == [t EXCEPT !.line[n] = k]
<1>1. ReplaceLine(t, n, l) = u
  BY DEF ReplaceLine
<1>2. n \in t.li => k \in Line
  <2>. SUFFICES ASSUME n \in t.li PROVE k \in Line
    OBVIOUS
  <2>. DEFINE x == t.line[n]
  <2>1. x \in Line
    OBVIOUS
  <2>2. x[2] \in {"open", "close", "docu"}
    BY <2>1 DEF Line
  <2>3. k = <<l, x[2]>>
    OBVIOUS
  <2>. HIDE DEF x, k
  <2>. QED  BY <2>2, <2>3 DEF Line
<1>3. k \in Line \cup {Nothing}
  <2>1. t.line[n] \in Line \cup {Nothing}
    BY DEF Tree
  <2>2. n \notin t.li => k = t.line[n]
    OBVIOUS
  <2>. HIDE DEF k
  <2>. QED  BY <1>2, <2>1, <2>2
<1>4. \A m \in Node : u.line[m] = IF m = n THEN k ELSE t.line[m]
  BY DEF Tree
<1>5. u \in Differ(t, {"line"})
  <2>. HIDE DEF k
  <2>. QED  BY <1>3 DEF Tree, Differ, Fields
<1>. HIDE DEF u
<1>. QED  BY <1>1, <1>4, <1>5

\* The folder of a node that is opened or closed.
LEMMA OpenIs ==
  ASSUME NEW t, Sound(t), NEW n \in t.isParent, NEW v \in BOOLEAN
  PROVE  LET r == ReplaceFolder([t EXCEPT !.open = Assign(@, n, v)], n) IN
         /\ r \in Differ(t, View) /\ Sound(r) /\ r.open = Assign(t.open, n, v)
         /\ r.li = t.li /\ r.ul = t.ul
         /\ Settled(t) => Settled(r)
<1>. DEFINE w == [t EXCEPT !.open = Assign(@, n, v)]
            r == ReplaceFolder(w, n)
<1>1. t \in Tree /\ Agree(t) /\ n \in Node /\ n \in t.cached /\ t.cached \subseteq Node
  BY DEF Sound, Agree, Tree, Inner
<1>2. w \in Differ(t, {"open"}) /\ w.open = Assign(t.open, n, v)
  BY <1>1 DEF Tree, Differ, Fields, Assign
<1>. HIDE DEF w
<1>3. /\ w \in Tree /\ w.li = t.li /\ w.line = t.line /\ w.parent = t.parent
      /\ w.isParent = t.isParent /\ w.first = t.first /\ w.last = t.last
  BY <1>2 DEF Differ, Fields
<1>4. \A m \in t.li : t.line[m] = LineClass(t, m) /\ m \in Node /\ t.line[m] \in Line
  BY <1>1, LineClassType DEF Sound, Pictured
<1>5. /\ r \in Differ(w, {"line"})
      /\ \A m \in Node : r.line[m] = IF m = n /\ n \in w.li THEN <<w.line[n][1], Folder(w, n)>>
                                     ELSE w.line[m]
  BY <1>1, <1>3, <1>4, FolderIs
<1>. HIDE DEF r
<1>6. r \in Differ(t, {"open", "line"}) /\ r.open = w.open
  BY <1>2, <1>5 DEF Differ, Fields
<1>7. /\ r.li = t.li /\ r.ul = t.ul /\ r.lined = t.lined /\ r.kids = t.kids /\ r.cached = t.cached
      /\ r.parent = t.parent /\ r.isParent = t.isParent /\ r.first = t.first /\ r.last = t.last
      /\ r.selected = t.selected /\ r \in Differ(t, View)
  BY <1>6 DEF Differ, Fields, View
<1>8. Agree(r)
  <2>1. View \cap Family3 = {}
    BY DEF View, Family3
  <2>. QED  BY <1>1, <1>7, <2>1, AgreeStays
<1>9. \A m \in Node : m # n => LineClass(r, m) = LineClass(t, m)
  BY <1>2, <1>6, <1>7 DEF LineClass, Folder, Assign
<1>10. LineClass(r, n) = <<LineClass(t, n)[1], Folder(w, n)>>
  BY <1>2, <1>3, <1>6, <1>7 DEF LineClass, Folder
<1>11. \A m \in r.li : r.line[m] = LineClass(r, m)
  BY <1>3, <1>4, <1>5, <1>7, <1>9, <1>10
<1>12. Pictured(r)
  BY <1>7, <1>11 DEF Sound, Pictured, Kids
<1>13. Inner(r) /\ Ended(r)
  BY <1>1, <1>2, <1>6, <1>7 DEF Sound, Inner, Ended, Assign, HasKids
<1>14. Settled(t) => Settled(r)
  <2>1. {"open", "line"} \cap Boxing = {}
    BY DEF Boxing
  <2>. QED  BY <1>1, <1>6, <2>1, SettledStays DEF Settled
<1>. QED  BY <1>2, <1>6, <1>7, <1>8, <1>12, <1>13, <1>14 DEF Sound, r, w

\* Opening or closing a node changes what is shown, and only that; a node that
\* was closed, its sons not drawn, is whole when it is open.
LEMMA ExpandRedraws ==
  ASSUME NEW t, Sound(t), NEW n \in Node, NEW v \in BOOLEAN
  PROVE  LET r == ExpandCollapseNode(t, n, v) IN
         /\ r \in Redrawn(t)
         /\ v /\ n \in t.isParent \ t.open /\ HasKids(t, n) /\ Head(t.kids[n]) \notin t.li
            => \A E : Whole(t, E) => Whole(r, E \ {n})
<1>. DEFINE undrawn == n \notin t.ul \/ (HasKids(t, n) /\ Head(t.kids[n]) \notin t.li)
            u == IF n \in t.isParent \ t.open /\ undrawn THEN AppendParentULDom(t, n) ELSE t
            r == ReplaceFolder([u EXCEPT !.open = Assign(@, n, v)], n)
<1>1. t \in Tree /\ Agree(t) /\ t.isParent \subseteq t.cached /\ t.open \subseteq t.isParent
  BY DEF Sound, Agree, Inner
<1>2. ExpandCollapseNode(t, n, v) = IF n \in t.isParent THEN r ELSE u
  BY DEF ExpandCollapseNode
<1>3. CASE n \notin t.isParent
  BY <1>2, <1>3, RedrawnNot
<1>4. CASE n \in t.isParent
  <2>1. n \in t.isParent \ t.open /\ undrawn => Listing(t, n, u)
    BY <1>1, AppendParentRedraws
  <2>2. ~(n \in t.isParent \ t.open /\ undrawn) => u = t
    OBVIOUS
  <2>3. u \in Redrawn(t) /\ u.open = t.open
    BY <2>1, <2>2, RedrawnNot DEF Listing
  <2>4. Head(t.kids[n]) \in Kids(t, n) \/ ~HasKids(t, n)
    <3>. DEFINE s == t.kids[n]
    <3>1. s \in Seq(Node)
      BY <1>1, KidsAre
    <3>. HIDE DEF s
    <3>2. s # <<>> => Head(s) \in Range(s)
      <4>. SUFFICES ASSUME s # <<>> PROVE Head(s) \in Range(s)
        OBVIOUS
      <4>1. 1 \in DOMAIN s /\ Head(s) = s[1]
        BY <3>1, EmptySeq
      <4>. QED  BY <4>1 DEF Range
    <3>. QED  BY <3>2 DEF s, Kids, HasKids
  <2>5. ~undrawn => n \in t.ul /\ (Kids(t, n) # {} => Kids(t, n) \cap t.li # {})
    BY <1>1, <2>4, KidsAre
  <2>. HIDE DEF u, undrawn
  <2>6. /\ Sound(u) /\ u.kids = t.kids /\ u.isParent = t.isParent
        /\ Redrawn(u) \subseteq Redrawn(t) /\ \A E : Whole(t, E) => Whole(u, E)
    BY <2>3, RedrawnChain DEF Redrawn
  <2>7. /\ r \in Differ(u, View) /\ Sound(r) /\ r.open = Assign(u.open, n, v)
        /\ r.li = u.li /\ r.ul = u.ul
        /\ Settled(u) => Settled(r)
    BY <1>4, <2>6, OpenIs
  <2>. HIDE DEF r
  <2>8. r.kids = t.kids /\ \A p : Kids(r, p) = Kids(t, p) /\ Kids(u, p) = Kids(t, p)
    BY <2>6, <2>7 DEF Differ, Fields, View, Kids
  <2>10. r \in Redrawn(u)
    <3>1. ASSUME NEW E, Whole(u, E) PROVE Whole(r, E)
      <4>. SUFFICES ASSUME NEW p \in Node \ E
                    PROVE  /\ Kids(t, p) \subseteq r.li \/ Kids(t, p) \cap r.li = {}
                           /\ p \in (r.li \cup r.ul) \cap r.open => p \in r.ul /\ Kids(t, p) \subseteq r.li
        BY <2>8 DEF Whole
      <4>1. /\ Kids(t, p) \subseteq u.li \/ Kids(t, p) \cap u.li = {}
            /\ p \in (u.li \cup u.ul) \cap u.open => p \in u.ul /\ Kids(t, p) \subseteq u.li
        BY <2>8, <3>1 DEF Whole
      <4>2. CASE p # n
        BY <2>7, <4>1, <4>2 DEF Assign
      <4>3. CASE p = n /\ n \in t.open
        BY <2>3, <2>7, <4>1, <4>3
      <4>4. CASE p = n /\ n \notin t.open /\ undrawn
        BY <1>4, <2>1, <2>7, <4>4 DEF Listing
      <4>5. CASE p = n /\ n \notin t.open /\ ~undrawn
        BY <2>2, <2>5, <2>7, <4>1, <4>5
      <4>. QED  BY <4>2, <4>3, <4>4, <4>5
    <3>. QED  BY <2>7, <3>1 DEF Redrawn
  <2>11. r \in Redrawn(t)
    BY <2>6, <2>10
  <2>12. ASSUME v, n \in t.isParent \ t.open, HasKids(t, n), Head(t.kids[n]) \notin t.li,
                NEW E, Whole(t, E)
         PROVE  Whole(r, E \ {n})
    <3>1. Listing(t, n, u)
      BY <2>1, <2>12 DEF undrawn
    <3>2. Whole(u, E \ {n}) /\ n \in u.ul /\ Kids(t, n) \subseteq u.li
      BY <2>12, <3>1 DEF Listing
    <3>. SUFFICES ASSUME NEW p \in Node \ (E \ {n})
                  PROVE  /\ Kids(t, p) \subseteq r.li \/ Kids(t, p) \cap r.li = {}
                         /\ p \in (r.li \cup r.ul) \cap r.open => p \in r.ul /\ Kids(t, p) \subseteq r.li
      BY <2>8 DEF Whole
    <3>3. /\ Kids(t, p) \subseteq u.li \/ Kids(t, p) \cap u.li = {}
          /\ p \in (u.li \cup u.ul) \cap u.open => p \in u.ul /\ Kids(t, p) \subseteq u.li
      BY <2>8, <3>2 DEF Whole
    <3>. QED  BY <2>7, <3>2, <3>3 DEF Assign
  <2>. QED  BY <1>2, <1>4, <2>11, <2>12
<1>. QED  BY <1>3, <1>4

Openings == INSTANCE Recursion WITH op <- ExpandCollapseNode

\* However many nodes are opened or closed, one after the other.
LEMMA ExpandAllRedraws ==
  ASSUME NEW t, Sound(t), NEW s \in Seq(Node), NEW v \in BOOLEAN
  PROVE  /\ ExpandCollapseAll(t, s, v) \in Redrawn(t)
         /\ s # <<>> => ExpandCollapseAll(t, s, v) \in Redrawn(ExpandCollapseNode(t, s[1], v))
<1>. DEFINE T == Redrawn(t)
            n == Len(s)
            r == ExpandCollapseAll(t, s, v)
<1>1. ASSUME NEW w \in T, NEW m \in Node
      PROVE  /\ ExpandCollapseNode(w, m, v) \in Redrawn(w)
             /\ ExpandCollapseNode(w, m, v) \in T
  <2>1. Sound(w) /\ Redrawn(w) \subseteq T
    BY RedrawnChain
  <2>2. ExpandCollapseNode(w, m, v) \in Redrawn(w)
    BY <2>1, ExpandRedraws
  <2>. QED  BY <2>1, <2>2
<1>2. r = Openings!Along(t, s, v)
  BY DEF ExpandCollapseAll, Each, Openings!Along
<1>3. t \in T
  BY RedrawnNot
<1>. HIDE DEF T, r
<1>4. Openings!Keeps(Node, T, v)
  BY <1>1 DEF Openings!Keeps
<1>5. PICK q : Openings!Path(q, T, t, s, v) /\ Openings!Along(t, s, v) = q[Len(s)]
  BY <1>3, <1>4, Openings!AlongPath
<1>6. q[Len(s)] \in T
  BY <1>5, Openings!PathEnds
<1>7. ASSUME s # <<>> PROVE r \in Redrawn(ExpandCollapseNode(t, s[1], v))
  <2>1. /\ n \in Nat /\ n # 0 /\ q \in [0 .. n -> T] /\ q[0] = t
        /\ \A i \in 1 .. n : q[i] = ExpandCollapseNode(q[i - 1], s[i], v)
    BY <1>5, <1>7, EmptySeq DEF Openings!Path
  <2>2. \A i \in 1 .. n : s[i] \in Node
    OBVIOUS
  <2>. HIDE DEF n
  <2>3. 1 \in 1 .. n /\ 1 - 1 = 0 /\ n \in 0 .. n /\ 0 \in 0 .. n
    BY <2>1
  <2>4. q[1] = ExpandCollapseNode(t, s[1], v) /\ q[1] \in T
    BY <2>1, <2>3
  <2>5. Sound(q[1])
    BY <2>4, RedrawnChain DEF T
  <2>. DEFINE G == {i \in 0 .. n : i = 0 \/ q[i] \in Redrawn(q[1])}
  <2>6. ASSUME NEW i \in 1 .. n, i - 1 \in G PROVE i \in G
    <3>1. i \in 0 .. n /\ i - 1 \in 0 .. n
      BY <2>1
    <3>2. CASE i = 1
      BY <2>5, <3>1, <3>2, RedrawnNot
    <3>3. CASE i # 1
      <4>1. i - 1 # 0
        BY <2>1, <3>3
      <4>2. q[i - 1] \in Redrawn(q[1])
        BY <2>6, <4>1
      <4>3. q[i] \in Redrawn(q[i - 1])
        BY <1>1, <2>1, <2>2, <3>1
      <4>4. Redrawn(q[i - 1]) \subseteq Redrawn(q[1])
        BY <2>5, <4>2, RedrawnChain
      <4>. QED  BY <3>1, <4>3, <4>4
    <3>. QED  BY <3>2, <3>3
  <2>7. Openings!Chained(G, n)
    BY <2>1, <2>3, <2>6 DEF Openings!Chained
  <2>. HIDE DEF G
  <2>8. 0 .. n \subseteq G
    BY <2>7, Openings!ListInduction
  <2>9. q[n] \in Redrawn(q[1])
    BY <2>1, <2>3, <2>8 DEF G
  <2>. QED  BY <1>2, <1>5, <2>4, <2>9 DEF n
<1>. QED  BY <1>2, <1>5, <1>6, <1>7 DEF T, r

LEMMA OpeningsRedraw ==
  ASSUME NEW t, Sound(t), NEW n \in Node, NEW v \in BOOLEAN
  PROVE  /\ ExpandCollapseParentNode(t, n, v) \in Redrawn(t)
         /\ ExpandCollapseParentNode(t, n, v) \in Redrawn(ExpandCollapseNode(t, n, v))
         /\ ExpandCollapseSonNode(t, n, v) \in Redrawn(t)
         /\ ExpandAll(t, v) \in Redrawn(t)
         /\ SwitchNode(t, n) \in Redrawn(t)
         /\ \A w \in BOOLEAN : ExpandNode(t, n, v, w) \in Redrawn(t)
<1>1. Agree(t) /\ t \in Tree
  BY DEF Sound, Agree
<1>2. \A u \in Redrawn(t) : Sound(u) /\ Agree(u) /\ Redrawn(u) \subseteq Redrawn(t)
  BY RedrawnChain
<1>3. ASSUME NEW u \in Redrawn(t), NEW m \in Node, NEW x \in BOOLEAN
      PROVE  /\ ExpandCollapseParentNode(u, m, x) \in Redrawn(t)
             /\ ExpandCollapseSonNode(u, m, x) \in Redrawn(t)
             /\ ExpandCollapseNode(u, m, x) \in Redrawn(t)
             /\ ExpandAll(u, x) \in Redrawn(t)
  <2>1. <<m>> \o Above(u, m) \in Seq(Node) /\ Below(u, m) \o <<m>> \in Seq(Node)
    BY <1>2, Lists
  <2>2. Below(u, Root) \in Seq(Node)
    BY <1>2, AgreeEnds, BelowIs DEF Agree
  <2>3. /\ ExpandCollapseAll(u, <<m>> \o Above(u, m), x) \in Redrawn(u)
        /\ ExpandCollapseAll(u, Below(u, m) \o <<m>>, x) \in Redrawn(u)
    BY <1>2, <2>1, ExpandAllRedraws
  <2>4. ExpandCollapseAll(u, Below(u, Root), x) \in Redrawn(u)
    BY <1>2, <2>2, ExpandAllRedraws
  <2>5. ExpandCollapseNode(u, m, x) \in Redrawn(u)
    BY <1>2, ExpandRedraws
  <2>. QED
    BY <1>2, <2>3, <2>4, <2>5 DEF ExpandCollapseParentNode, ExpandCollapseSonNode, ExpandAll
<1>4. t \in Redrawn(t)
  BY RedrawnNot
<1>5. ExpandCollapseParentNode(t, n, v) \in Redrawn(ExpandCollapseNode(t, n, v))
  <2>. DEFINE s == <<n>> \o Above(t, n)
  <2>1. s \in Seq(Node)
    BY <1>1, Lists
  <2>2. s # <<>> /\ s[1] = n
    <3>1. Above(t, n) \in Seq(Node)
      BY <1>1, AboveIs DEF Agree
    <3>. QED  BY <3>1
  <2>3. ExpandCollapseParentNode(t, n, v) = ExpandCollapseAll(t, s, v)
    BY DEF ExpandCollapseParentNode
  <2>. HIDE DEF s
  <2>. QED  BY <2>1, <2>2, <2>3, ExpandAllRedraws
<1>6. SwitchNode(t, n) \in Redrawn(t)
  <2>1. (n \notin t.open) \in BOOLEAN
    OBVIOUS
  <2>. QED  BY <2>1, ExpandRedraws DEF SwitchNode
<1>7. ASSUME NEW w \in BOOLEAN PROVE ExpandNode(t, n, v, w) \in Redrawn(t)
  <2>. DEFINE u == IF v /\ t.parent[n] # Root
                   THEN ExpandCollapseParentNode(t, t.parent[n], TRUE) ELSE t
  <2>1. u \in Redrawn(t)
    <3>1. t.parent[n] # Root => t.parent[n] \in Node
      BY <1>1 DEF Tree
    <3>. QED  BY <1>3, <1>4, <3>1
  <2>. HIDE DEF u
  <2>2. ExpandCollapseSonNode(u, n, v) \in Redrawn(t) /\ ExpandCollapseNode(u, n, v) \in Redrawn(t)
    BY <1>3, <2>1
  <2>3. ExpandNode(t, n, v, w) = IF w THEN ExpandCollapseSonNode(u, n, v)
                                 ELSE IF (n \in t.open) = v THEN u ELSE ExpandCollapseNode(u, n, v)
    BY DEF ExpandNode, u
  <2>. QED  BY <2>1, <2>2, <2>3
<1>. QED  BY <1>3, <1>4, <1>5, <1>6, <1>7

\* What is selected changes, and is in the tree.
LEMMA SelectionSound ==
  ASSUME NEW t, Sound(t), NEW s \in Seq(Node), Range(s) \subseteq t.cached
  PROVE  LET u == [t EXCEPT !.selected = s] IN
         /\ u \in Differ(t, {"selected"}) /\ Sound(u) /\ \A E : Whole(t, E) => Whole(u, E)
<1>. DEFINE u == [t EXCEPT !.selected = s]
<1>1. t \in Tree /\ Agree(t)
  BY DEF Sound, Agree
<1>2. u \in Differ(t, {"selected"}) /\ u.selected = s
  BY <1>1 DEF Tree, Differ, Fields
<1>. HIDE DEF u
<1>3. Agree(u)
  <2>1. {"selected"} \cap Family3 = {}
    BY DEF Family3
  <2>. QED  BY <1>1, <1>2, <2>1, AgreeStays
<1>4. /\ u.li = t.li /\ u.ul = t.ul /\ u.lined = t.lined /\ u.kids = t.kids /\ u.cached = t.cached
      /\ u.parent = t.parent /\ u.isParent = t.isParent /\ u.first = t.first /\ u.last = t.last
      /\ u.open = t.open /\ u.line = t.line
  BY <1>2 DEF Differ, Fields
<1>5. \A m : LineClass(u, m) = LineClass(t, m)
  BY <1>4 DEF LineClass, Folder
<1>6. Inner(u) /\ Ended(u) /\ Pictured(u)
  BY <1>4, <1>5 DEF Sound, Inner, Ended, Pictured, HasKids, Kids
<1>7. \A E : Whole(t, E) => Whole(u, E)
  BY <1>4 DEF Whole, Kids
<1>. QED  BY <1>2, <1>3, <1>4, <1>6, <1>7 DEF Sound, u

\* What selecting and releasing do to a tree.
LEMMA SelectSound ==
  ASSUME NEW t, Sound(t), NEW n \in t.cached, NEW flag \in BOOLEAN
  PROVE  \A u \in {CancelSelected(t, n), Select(t, n, flag), ClickNode(t, n, flag)} :
           u \in Differ(t, {"selected"}) /\ Sound(u) /\ \A E : Whole(t, E) => Whole(u, E)
<1>1. t.selected \in Seq(Node) /\ Range(t.selected) \subseteq t.cached /\ n \in Node
  BY DEF Sound, Agree, Tree
<1>. DEFINE Good(u) == u \in Differ(t, {"selected"}) /\ Sound(u) /\ \A E : Whole(t, E) => Whole(u, E)
<1>2. Good(CancelSelected(t, n))
  <2>. DEFINE s == Only(t.selected, Node \ {n})
  <2>1. s \in Seq(Node) /\ Range(s) \subseteq t.cached
    BY <1>1, OnlyIs
  <2>2. CancelSelected(t, n) = [t EXCEPT !.selected = s]
    BY DEF CancelSelected
  <2>. HIDE DEF s
  <2>. QED  BY <2>1, <2>2, SelectionSound
<1>3. ASSUME NEW w \in BOOLEAN PROVE Good(Select(t, n, w))
  <2>. DEFINE kept == IF w THEN t.selected ELSE Only(t.selected, {n})
              s == IF n \in Range(kept) THEN kept ELSE Append(kept, n)
  <2>1. kept \in Seq(Node) /\ Range(kept) \subseteq t.cached
    <3>1. Only(t.selected, {n}) \in Seq(Node) /\ Range(Only(t.selected, {n})) \subseteq t.cached
      BY <1>1, OnlyIs
    <3>. QED  BY <1>1, <3>1
  <2>. HIDE DEF kept
  <2>2. s \in Seq(Node) /\ Range(s) \subseteq t.cached
    <3>1. Append(kept, n) = kept \o <<n>>
      BY <1>1, <2>1, AppendIsConcat
    <3>2. kept \o <<n>> \in Seq(Node) /\ Range(kept \o <<n>>) = Range(kept) \cup {n}
      BY <1>1, <2>1, Joined
    <3>. QED  BY <2>1, <3>1, <3>2
  <2>3. Select(t, n, w) = [t EXCEPT !.selected = s]
    BY DEF Select, kept
  <2>. HIDE DEF s
  <2>. QED  BY <2>2, <2>3, SelectionSound
<1>4. ClickNode(t, n, flag) \in {CancelSelected(t, n), Select(t, n, flag)}
  BY DEF ClickNode
<1>. QED  BY <1>2, <1>3, <1>4

-----------------------------------------------------------------------------
(* A tree that is made anew.                                               *)

\* The nodes of K with the parents up, listed in kids, are a forest.
Forest(kids, K, up) ==
  /\ K \in SUBSET Node /\ kids \in [Node \cup {Root} -> Seq(Node)]
  /\ up \in [Node -> Node \cup {Root}]
  /\ \A p \in Node \cup {Root} : IsInjective(kids[p])
  /\ \A p \in Node \cup {Root} : Range(kids[p]) = {q \in K : up[q] = p}
  /\ \A q \in K : up[q] \in K \cup {Root}
  /\ \A q \in Node \ K : up[q] = Root
  /\ \E N \in Nat : \E depth \in [Node -> 0 .. N] :
       \A n \in Node : up[n] # Root => depth[up[n]] < depth[n]

\* What is below a node depends on the sons only.
LEMMA SameSons ==
  ASSUME NEW t, NEW u, t.kids = u.kids, NEW n \in Node \cup {Root}
  PROVE  Below(u, n) = Below(t, n) /\ Under(u, n) = Under(t, n)
<1>. DEFINE Descend(kids, m) ==
              LET post[k \in Node] ==
                    FlattenSeq([i \in DOMAIN kids[k] |-> post[kids[k][i]]]) \o <<k>>
              IN  FlattenSeq([i \in DOMAIN kids[m] |-> post[kids[m][i]]])
<1>1. Below(u, n) = Descend(u.kids, n) /\ Below(t, n) = Descend(t.kids, n)
  BY DEF Below
<1>. HIDE DEF Descend
<1>2. Below(u, n) = Below(t, n)
  BY <1>1
<1>. QED  BY <1>2 DEF Under

\* The nodes that createNodes gives a tree are the forest.
LEMMA NewFamily ==
  ASSUME NEW t \in Tree, NEW K, NEW up, Forest(t.kids, K, up)
  PROVE  /\ SonsEnd(t) /\ Family(t, t.kids[Root]) = K
         /\ Range(t.kids[Root]) = {} => K = {}
<1>1. t.kids \in [Node \cup {Root} -> Seq(Node)] /\ K \in SUBSET Node /\ up \in [Node -> Node \cup {Root}]
  BY DEF Forest
<1>. DEFINE u == [t EXCEPT !.cached = K, !.parent = up]
<1>2. u \in Tree /\ u.kids = t.kids /\ u.cached = K /\ u.parent = up
  BY <1>1 DEF Tree
<1>. HIDE DEF u
<1>3. Agree(u)
  BY <1>2 DEF Agree, ParentsEnd, Forest, Kids
<1>4. Under(u, Root) = K /\ SonsEnd(u)
  BY <1>2, <1>3, AllUnderRoot, AgreeEnds
<1>5. SonsEnd(t)
  BY <1>2, <1>4 DEF SonsEnd, Kids
<1>6. Under(t, Root) = K
  BY <1>2, <1>4, SameSons
<1>7. Under(t, Root) = UNION {{k} \cup Under(t, k) : k \in Kids(t, Root)}
  BY <1>5, BelowIs
<1>. DEFINE R == Range(t.kids[Root])
            U(k) == Under(t, k)
<1>8. Family(t, t.kids[Root]) = R \cup UNION {U(n) : n \in R}
  BY DEF Family
<1>9. K = UNION {{k} \cup U(k) : k \in R}
  BY <1>6, <1>7 DEF Kids
<1>. HIDE DEF R, U
<1>10. (UNION {{k} \cup U(k) : k \in R}) = R \cup UNION {U(n) : n \in R}
  OBVIOUS
<1>. QED  BY <1>5, <1>8, <1>9, <1>10 DEF R

\* The first and the last son of a node.
LEMMA EndsAre ==
  ASSUME NEW t \in Tree, NEW p \in Node \cup {Root}, HasKids(t, p)
  PROVE  /\ t.kids[p][1] \in Kids(t, p) /\ Last(t.kids[p]) \in Kids(t, p)
         /\ Head(t.kids[p]) = t.kids[p][1]
<1>. DEFINE s == t.kids[p]
<1>1. s \in Seq(Node) /\ s # <<>>
  BY KidsAre DEF HasKids
<1>. HIDE DEF s
<1>2. Len(s) \in Nat /\ Len(s) # 0 /\ DOMAIN s = 1 .. Len(s)
  BY <1>1, EmptySeq
<1>3. s[1] \in Range(s) /\ s[Len(s)] \in Range(s) /\ Head(s) = s[1]
  BY <1>1, <1>2 DEF Range
<1>. QED  BY <1>3 DEF s, Kids, Last

\* A tree whose nodes are not in it yet.
Fresh(t, K, up) ==
  /\ t \in Tree /\ Forest(t.kids, K, up)
  /\ t.cached = {} /\ t.li = {} /\ t.ul = {} /\ t.lined = {} /\ t.selected = <<>>
  /\ t.first \cup t.last \cup t.isParent \cup t.open \subseteq K
  /\ \A q \in Node \ K : t.parent[q] = Root

RadioAll(t) == t.setting.style = "radio" /\ t.setting.radioType = "all"

\* What is said of the boxes of a tree is said of those of another one.
Boxed(t, u) ==
  /\ u.setting = t.setting /\ u.checked = t.checked /\ u.nocheck = t.nocheck
  /\ u.disabled = t.disabled /\ u.half = t.half

LEMMA InitNodesIs ==
  ASSUME NEW t, NEW K, NEW up, Fresh(t, K, up), HasKids(t, Root)
  PROVE  LET u == InitNodes(t, Root, t.kids[Root], -1) IN
         /\ u \in Tree /\ Agree(u) /\ Inner(u) /\ Ended(u) /\ u.cached = K /\ u.parent = up
         /\ u.kids = t.kids /\ Boxed(t, u) /\ u.selected = t.selected
         /\ u.li = {} /\ u.ul = {} /\ u.lined = {} /\ \A m \in K : u.state[m] = -1
         /\ \A p \in t.open : HasKids(t, p) => p \in u.open
         /\ u.open \subseteq t.open
         /\ u.radios = t.radios \cup (IF RadioAll(t) THEN K \cap t.checked ELSE {})
<1>. DEFINE nodes == t.kids[Root]
            new == Family(t, nodes)
            inner == {n \in new : HasKids(t, n)}
            at == IF -1 >= Len(t.kids[Root]) - Len(nodes) THEN -1 ELSE -1
            alone == Len(t.kids[Root]) = Len(nodes)
            radioAll == t.setting.style = "radio" /\ t.setting.radioType = "all"
            parent == [n \in Node |-> IF n \in Range(nodes) THEN Root
                                      ELSE IF n \in new THEN CHOOSE q \in inner : n \in Kids(t, q)
                                      ELSE t.parent[n]]
            cached == t.cached \cup new
            isParent == t.isParent \cup inner
            open == t.open \ (new \ (inner \cup t.isParent))
            first == (t.first \ new) \cup {t.kids[n][1] : n \in inner}
                       \cup (IF at = 0 \/ alone THEN {nodes[1]} ELSE {})
            last == (t.last \ new) \cup {Last(t.kids[n]) : n \in inner}
                       \cup (IF at < 0 THEN {Last(nodes)} ELSE {})
            state == [n \in Node |-> IF n \in new THEN -1 ELSE t.state[n]]
            radios == IF radioAll THEN t.radios \cup (new \cap t.checked) ELSE t.radios
            u == [t EXCEPT !.parent = parent, !.cached = cached, !.isParent = isParent, !.open = open,
                           !.first = first, !.last = last, !.state = state, !.radios = radios]
<1>1. /\ t \in Tree /\ t.kids \in [Node \cup {Root} -> Seq(Node)] /\ K \in SUBSET Node
      /\ up \in [Node -> Node \cup {Root}]
  BY DEF Fresh, Forest
<1>2. new = K /\ t.cached = {} /\ Range(nodes) = Kids(t, Root)
  BY <1>1, NewFamily DEF Fresh, Kids
<1>3. \A p \in Node \cup {Root} : Kids(t, p) = {q \in K : up[q] = p}
  BY DEF Fresh, Forest, Kids
<1>4. InitNodes(t, Root, nodes, -1) = u
  BY DEF InitNodes
<1>5. at = -1 /\ alone
  OBVIOUS
<1>6. \A n \in inner \cup {Root} :
        /\ t.kids[n][1] \in Kids(t, n) /\ Last(t.kids[n]) \in Kids(t, n)
  BY <1>1, <1>2, EndsAre
<1>7. parent = up
  <2>1. ASSUME NEW n \in Node PROVE parent[n] = up[n]
    <3>1. CASE n \in Range(nodes)
      BY <1>2, <1>3, <3>1
    <3>2. CASE n \notin K
      <4>1. n \notin Range(nodes)
        BY <1>2, <1>3, <3>2
      <4>. QED  BY <1>2, <3>2, <4>1 DEF Fresh, Forest
    <3>3. CASE n \in K \ Range(nodes)
      <4>1. up[n] \in K /\ up[n] \in Node
        BY <1>1, <1>2, <1>3, <3>3 DEF Fresh, Forest
      <4>2. n \in Kids(t, up[n])
        BY <1>3, <3>3, <4>1
      <4>3. up[n] \in inner
        BY <1>1, <1>2, <4>1, <4>2, KidsAre
      <4>4. \A q \in inner : n \in Kids(t, q) => q = up[n]
        BY <1>1, <1>2, <1>3
      <4>5. (CHOOSE q \in inner : n \in Kids(t, q)) = up[n]
        <5>. HIDE DEF inner
        <5>. QED  BY <4>2, <4>3, <4>4
      <4>6. parent[n] = CHOOSE q \in inner : n \in Kids(t, q)
        <5>. HIDE DEF inner
        <5>. QED  BY <1>2, <3>3
      <4>. QED  BY <4>5, <4>6
    <3>. QED  BY <3>1, <3>2, <3>3
  <2>2. parent = [n \in Node |-> parent[n]]
    OBVIOUS
  <2>3. up = [n \in Node |-> up[n]]
    BY <1>1
  <2>. HIDE DEF parent
  <2>. QED  BY <2>1, <2>2, <2>3
<1>8. /\ first = {t.kids[n][1] : n \in inner \cup {Root}}
      /\ last = {Last(t.kids[n]) : n \in inner \cup {Root}}
  <2>1. t.first \ new = {} /\ t.last \ new = {}
    BY <1>2 DEF Fresh
  <2>. HIDE DEF new, inner
  <2>. QED  BY <1>5, <2>1
<1>9. inner = {p \in K : HasKids(t, p)} /\ Root \notin Node
  BY <1>2, TreeAssumption
<1>. HIDE DEF inner, new, parent
<1>10. /\ cached = K /\ isParent = t.isParent \cup inner
       /\ open = t.open \ (K \ (inner \cup t.isParent))
       /\ radios = t.radios \cup (IF RadioAll(t) THEN K \cap t.checked ELSE {})
  BY <1>2 DEF RadioAll
<1>11. /\ cached \in SUBSET Node /\ isParent \in SUBSET Node /\ open \in SUBSET Node
       /\ radios \in SUBSET Node
  BY <1>1, <1>9, <1>10 DEF Tree
<1>12. first \in SUBSET Node /\ last \in SUBSET Node
  <2>1. \A n \in inner \cup {Root} : Kids(t, n) \subseteq Node
    BY <1>1, <1>3, <1>9
  <2>. HIDE DEF first, last
  <2>. QED  BY <1>6, <1>8, <2>1
<1>13. state \in [Node -> -1 .. 2] /\ \A m \in K : state[m] = -1
  BY <1>1, <1>2 DEF Tree
<1>. HIDE DEF cached, isParent, open, first, last, state, radios
<1>14. /\ u \in Tree /\ u.cached = K /\ u.parent = up /\ u.kids = t.kids
       /\ u.selected = t.selected /\ u.li = t.li /\ u.ul = t.ul /\ u.lined = t.lined
       /\ u.isParent = isParent /\ u.open = open /\ u.first = first /\ u.last = last
       /\ u.radios = radios /\ u.state = state /\ Boxed(t, u)
  <2>1. parent \in [Node -> Node \cup {Root}]
    BY <1>1, <1>7
  <2>2. u \in Tree
    BY <1>1, <1>11, <1>12, <1>13, <2>1 DEF Tree
  <2>3. /\ u.cached = cached /\ u.parent = parent /\ u.kids = t.kids
        /\ u.selected = t.selected /\ u.li = t.li /\ u.ul = t.ul /\ u.lined = t.lined
        /\ u.isParent = isParent /\ u.open = open /\ u.first = first /\ u.last = last
        /\ u.radios = radios /\ u.state = state
    BY <1>1 DEF Tree
  <2>4. Boxed(t, u)
    BY <1>1 DEF Tree, Boxed
  <2>. HIDE DEF u
  <2>. QED  BY <1>7, <1>10, <2>2, <2>3, <2>4
<1>. HIDE DEF u
<1>15. \A p : Kids(u, p) = Kids(t, p) /\ (HasKids(u, p) <=> HasKids(t, p))
  BY <1>14 DEF Kids, HasKids
<1>16. Agree(u)
  BY <1>3, <1>14, <1>15 DEF Agree, ParentsEnd, Fresh, Forest
<1>17. \A p \in Node : HasKids(t, p) => p \in K
  <2>. SUFFICES ASSUME NEW p \in Node, HasKids(t, p) PROVE p \in K
    OBVIOUS
  <2>1. PICK q \in Kids(t, p) : TRUE
    BY <1>1, KidsAre
  <2>2. q \in K /\ up[q] = p /\ p # Root
    BY <1>3, <1>9, <2>1
  <2>. QED  BY <2>2 DEF Fresh, Forest
<1>18. Inner(u)
  BY <1>9, <1>10, <1>14, <1>15, <1>17 DEF Inner, Fresh
<1>19. Ended(u)
  <2>1. \A n \in inner \cup {Root} : n \in Node \cup {Root} /\ Kids(t, n) \subseteq K
    BY <1>1, <1>3, <1>9
  <2>2. u.first \subseteq K /\ u.last \subseteq K
    BY <1>6, <1>8, <1>14, <2>1
  <2>3. ASSUME NEW q \in K
        PROVE  q \in u.first <=> q = t.kids[up[q]][1]
    <3>1. up[q] \in inner \cup {Root}
      <4>1. up[q] \in K \cup {Root} /\ (up[q] \in K => q \in Kids(t, up[q]))
        BY <1>1, <1>3, <2>3 DEF Fresh, Forest
      <4>2. up[q] \in K => HasKids(t, up[q])
        BY <1>1, <4>1, KidsAre
      <4>. QED  BY <1>9, <4>1, <4>2
    <3>2. \A n \in inner \cup {Root} : q = t.kids[n][1] => up[q] = n
      BY <1>3, <1>6, <2>1
    <3>. QED  BY <1>8, <1>14, <3>1, <3>2
  <2>4. ASSUME NEW q \in K
        PROVE  q \in u.last <=> q = Last(t.kids[up[q]])
    <3>1. up[q] \in inner \cup {Root}
      <4>1. up[q] \in K \cup {Root} /\ (up[q] \in K => q \in Kids(t, up[q]))
        BY <1>1, <1>3, <2>4 DEF Fresh, Forest
      <4>2. up[q] \in K => HasKids(t, up[q])
        BY <1>1, <4>1, KidsAre
      <4>. QED  BY <1>9, <4>1, <4>2
    <3>2. \A n \in inner \cup {Root} : q = Last(t.kids[n]) => up[q] = n
      BY <1>3, <1>6, <2>1
    <3>. QED  BY <1>8, <1>14, <3>1, <3>2
  <2>. QED  BY <1>14, <2>2, <2>3, <2>4 DEF Ended
<1>20. \A p \in t.open : HasKids(t, p) => p \in u.open
  <2>1. t.open \subseteq K
    BY DEF Fresh
  <2>. QED  BY <1>9, <1>10, <1>14, <2>1
<1>21. u.li = {} /\ u.ul = {} /\ u.lined = {}
  BY <1>14 DEF Fresh
<1>. QED  BY <1>4, <1>10, <1>13, <1>14, <1>16, <1>18, <1>19, <1>20, <1>21

\* The states of a whole tree are set, those of the sons first, and it is drawn.
LEMMA FreshSettles ==
  ASSUME NEW u, Agree(u), u.li = {}, \A m \in u.cached : u.state[m] = -1, NEW drawn \in SUBSET Node
  PROVE  Settled(AppendNodes(u, Root, u.kids[Root], drawn))
<1>1. /\ u \in Tree /\ SonsEnd(u) /\ u.cached \subseteq Node /\ Root \notin Node
      /\ {"state"} \cap Family3 = {}
  BY AgreeEnds, TreeAssumption DEF Agree, Tree, Family3
<1>2. /\ Below(u, Root) \in Seq(Node) /\ Range(Below(u, Root)) = u.cached
      /\ Below(u, Root) = FlattenSeq([i \in DOMAIN u.kids[Root] |->
                                          Below(u, u.kids[Root][i]) \o <<u.kids[Root][i]>>])
  BY <1>1, BelowIs, AllUnderRoot DEF Under
<1>. DEFINE inner == {m \in Node : HasKids(u, m)}
            S == inner \cup drawn
            s == Only(Below(u, Root), S)
            T == Differ(u, {"state"})
            w == Each(MakeChkFlag, u, s)
            l == Len(s)
<1>3. AppendNodes(u, Root, u.kids[Root], drawn) = Draw(w, drawn)
  BY <1>2 DEF AppendNodes
<1>4. s \in Seq(Node) /\ Rising(u, s, S) /\ Range(s) = u.cached \cap S
  <2>1. Rising(u, Below(u, Root), S)
    BY BelowRises
  <2>. DEFINE b == Below(u, Root)
  <2>2. b \in Seq(Node) /\ Range(b) = u.cached
    BY <1>2
  <2>. HIDE DEF S, b
  <2>3. Only(b, S) \in Seq(Node) /\ Range(Only(b, S)) = Range(b) \cap S
    BY <2>2, OnlyIs
  <2>4. Rising(u, Only(b, S), S)
    BY <2>1, <2>2, OnlyRises DEF b
  <2>. QED  BY <2>2, <2>3, <2>4 DEF b
<1>5. \A x \in T : \A m \in Node : MakeFlag(x, m, 0) \in T
  <2>. SUFFICES ASSUME NEW x \in T, NEW m \in Node PROVE MakeChkFlag(x, m) \in T
    BY DEF MakeFlag
  <2>1. x \in Tree
    BY DEF Differ
  <2>2. MakeChkFlag(x, m) \in Differ(x, {"state"})
    BY <2>1, MakeChkFlagDiffers
  <2>3. x \in Differ(u, {"state"})
    OBVIOUS
  <2>4. MakeChkFlag(x, m) \in Differ(u, {"state"})
    BY <1>1, <2>2, <2>3, DifferChain
  <2>. QED  BY <2>4
<1>6. w = Flags!Along(u, s, 0)
  BY DEF Each, Flags!Along, MakeFlag
<1>7. u \in T
  BY <1>1, DifferNot
<1>8. ASSUME NEW x \in T
      PROVE  /\ Agree(x) /\ x \in Tree /\ x.li = {} /\ x.cached = u.cached /\ x.parent = u.parent
             /\ x.setting = u.setting
  <2>1. x \in Differ(u, {"state"})
    OBVIOUS
  <2>2. Agree(x)
    BY <1>1, <2>1, AgreeStays
  <2>. QED  BY <2>1, <2>2 DEF Differ, Fields
<1>. HIDE DEF T, s, w
<1>9. Flags!Keeps(Node, T, 0)
  BY <1>5 DEF Flags!Keeps
<1>10. PICK q : Flags!Path(q, T, u, s, 0) /\ Flags!Along(u, s, 0) = q[l]
  BY <1>4, <1>7, <1>9, Flags!AlongPath
<1>11. /\ l \in Nat /\ q \in [0 .. l -> T] /\ q[0] = u /\ \A i \in 1 .. l : s[i] \in Node
       /\ \A i \in 1 .. l : q[i] = MakeChkFlag(q[i - 1], s[i])
  BY <1>4, <1>10 DEF Flags!Path, MakeFlag
<1>. DEFINE done(i) == {s[j] : j \in 1 .. i}
            G == {i \in 0 .. l : SettledBut(q[i], inner \ done(i))}
<1>12. Range(s) = done(l)
  BY <1>4 DEF Range
<1>13. 0 \in G
  <2>1. done(0) = {}
    OBVIOUS
  <2>2. ASSUME NEW m \in u.cached \ inner PROVE Right(u, m)
    BY <1>1, <2>2, LeafSays DEF Right
  <2>3. SettledBut(u, inner \ done(0))
    BY <2>1, <2>2 DEF SettledBut
  <2>. QED  BY <1>11, <2>3
<1>14. ASSUME NEW i \in 1 .. l, i - 1 \in G PROVE i \in G
  <2>. DEFINE t == q[i - 1]
              m == s[i]
              X == inner \ done(i - 1)
  <2>1. i \in 0 .. l /\ i - 1 \in 0 .. l
    BY <1>11
  <2>2. t \in T /\ q[i] = MakeChkFlag(t, m) /\ m \in Node /\ SettledBut(t, X)
    BY <1>11, <1>14, <2>1
  <2>3. done(i) = done(i - 1) \cup {m}
    <3>1. 1 .. i = (1 .. i - 1) \cup {i}
      BY <1>11
    <3>. QED  BY <3>1
  <2>4. m \in u.cached \cap S
    <3>1. m \in Range(s)
      BY <1>4, <1>11, <1>12
    <3>. QED  BY <1>4, <3>1
  <2>5. /\ Agree(t) /\ t \in Tree /\ t.li = {} /\ t.cached = u.cached /\ t.parent = u.parent
        /\ t.setting = u.setting
    BY <1>8, <2>2
  <2>. DEFINE v == MakeChkFlag(t, m)
  <2>6. CASE m \notin X
    <3>1. X = inner \ done(i)
      BY <2>3, <2>6
    <3>. HIDE DEF X
    <3>2. SettledBut(v, X)
      BY <2>2, <2>5, <2>6, FlagSettles
    <3>. QED  BY <2>1, <2>2, <3>1, <3>2
  <2>7. CASE m \in X
    <3>1. Touched(t, v, {m}) /\ v.checked = t.checked /\ v.state[m] = ChkFlag(t, m)
      BY <2>2, <2>5, FlagTouches
    <3>2. v.li = {} /\ v.cached = u.cached
      BY <2>5, <3>1, TouchedFields
    <3>. HIDE DEF v, X, m
    <3>3. SettledBut(v, (X \ {m}) \cup {t.parent[m]})
      BY <2>2, <2>5, <3>1, <3>2, MadeSettles
    <3>4. u.parent[m] \in u.cached => u.parent[m] \in inner \ done(i)
      <4>. SUFFICES ASSUME u.parent[m] \in u.cached PROVE u.parent[m] \in inner \ done(i)
        OBVIOUS
      <4>. DEFINE p == u.parent[m]
      <4>1. p \in Node /\ m \in Kids(u, p)
        BY <1>1, <2>4 DEF Agree
      <4>2. p \in inner
        BY <1>1, <4>1, KidsAre
      <4>3. ASSUME NEW j \in 1 .. i, s[j] = p PROVE FALSE
        <5>1. j \in 1 .. l
          BY <1>11
        <5>2. \E h \in 1 .. j - 1 : s[h] = m
          BY <1>4, <2>4, <4>1, <4>3, <5>1 DEF Rising
        <5>3. m \in done(i - 1)
          BY <1>11, <5>1, <5>2
        <5>. QED  BY <2>7, <5>3 DEF X
      <4>. QED  BY <4>2, <4>3
    <3>5. ((X \ {m}) \cup {t.parent[m]}) \cap v.cached \subseteq inner \ done(i)
      BY <2>3, <2>5, <3>2, <3>4 DEF X
    <3>6. SettledBut(v, inner \ done(i))
      <4>. HIDE DEF done, inner
      <4>. QED  BY <3>3, <3>5, SettledLess
    <3>. QED  BY <2>1, <2>2, <3>6 DEF v, m
  <2>. QED  BY <2>6, <2>7
<1>15. Repairs!Chained(G, l)
  BY <1>11, <1>13, <1>14 DEF Repairs!Chained
<1>. HIDE DEF G
<1>16. l \in G
  BY <1>11, <1>15, Repairs!ListInduction
<1>17. w \in T /\ SettledBut(w, inner \ done(l))
  BY <1>6, <1>10, <1>11, <1>16 DEF G
<1>18. Agree(w) /\ w.cached = u.cached
  BY <1>8, <1>17
<1>19. (inner \ done(l)) \cap w.cached \subseteq {}
  BY <1>4, <1>12, <1>18
<1>20. SettledBut(w, {})
  <2>. HIDE DEF inner, done
  <2>. QED  BY <1>17, <1>19, SettledLess
<1>21. SettledBut(Draw(w, drawn), {})
  BY <1>18, <1>20, DrawSettles
<1>. QED  BY <1>3, <1>21 DEF Settled

\* createNodes of a whole tree: it is sound, and shows what is open.
LEMMA CreateIs ==
  ASSUME NEW t, NEW K, NEW up, Fresh(t, K, up)
  PROVE  LET r == CreateNodes(t, Root, t.kids[Root], -1) IN
         /\ Sound(r) /\ Whole(r, {}) /\ r.cached = K /\ r.parent = up /\ r.kids = t.kids
         /\ Boxed(t, r) /\ Settled(r)
         /\ r.radios = t.radios \cup (IF RadioAll(t) THEN K \cap t.checked ELSE {})
<1>. DEFINE nodes == t.kids[Root]
            r == CreateNodes(t, Root, nodes, -1)
<1>1. /\ t \in Tree /\ t.kids \in [Node \cup {Root} -> Seq(Node)] /\ K \in SUBSET Node
      /\ up \in [Node -> Node \cup {Root}] /\ nodes \in Seq(Node)
  BY DEF Fresh, Forest
<1>2. \A p \in Node \cup {Root} : Kids(t, p) = {q \in K : up[q] = p}
  BY DEF Fresh, Forest, Kids
<1>3. SonsEnd(t) /\ (Range(nodes) = {} => K = {})
  BY <1>1, NewFamily DEF Fresh
<1>4. CASE nodes = <<>>
  <2>1. r = t
    BY <1>4 DEF CreateNodes
  <2>2. K = {}
    BY <1>3, <1>4 DEF Range
  <2>3. up = t.parent
    <3>1. \A q \in Node : up[q] = Root /\ t.parent[q] = Root
      BY <2>2 DEF Fresh, Forest
    <3>2. t.parent \in [Node -> Node \cup {Root}]
      BY <1>1 DEF Tree
    <3>. QED  BY <1>1, <3>1, <3>2
  <2>4. Agree(t)
    BY <1>1, <1>2, <2>2, <2>3 DEF Agree, ParentsEnd, Fresh, Forest
  <2>5. \A p \in Node \cup {Root} : Kids(t, p) = {} /\ ~HasKids(t, p)
    BY <1>1, <1>2, <2>2, KidsAre
  <2>6. Range(t.selected) = {}
    BY DEF Fresh, Range
  <2>7. Sound(t) /\ Whole(t, {})
    BY <2>2, <2>4, <2>5, <2>6 DEF Fresh, Sound, Inner, Ended, Pictured, Whole
  <2>8. K \cap t.checked = {} /\ Boxed(t, t) /\ Settled(t)
    BY <2>2 DEF Boxed, Fresh, Settled, SettledBut
  <2>. QED  BY <2>1, <2>2, <2>3, <2>7, <2>8 DEF Fresh
<1>5. CASE nodes # <<>>
  <2>. DEFINE u == InitNodes(t, Root, nodes, -1)
              S == Shown(t, nodes)
              uls == S \cap u.isParent \cap u.open
  <2>1. HasKids(t, Root) /\ Range(nodes) = Kids(t, Root)
    BY <1>5 DEF HasKids, Kids
  <2>2. r = AppendNodes(u, Root, nodes, S)
    BY <1>5 DEF CreateNodes
  <2>3. /\ u \in Tree /\ Agree(u) /\ Inner(u) /\ Ended(u) /\ u.cached = K /\ u.parent = up
        /\ u.kids = t.kids /\ Boxed(t, u) /\ u.selected = t.selected
        /\ u.li = {} /\ u.ul = {} /\ u.lined = {} /\ \A m \in K : u.state[m] = -1
        /\ \A p \in t.open : HasKids(t, p) => p \in u.open
        /\ u.open \subseteq t.open
        /\ u.radios = t.radios \cup (IF RadioAll(t) THEN K \cap t.checked ELSE {})
    BY <2>1, InitNodesIs
  <2>. HIDE DEF u
  <2>4. S \subseteq K
    <3>1. Range(nodes) \subseteq K /\ \A p \in K : Kids(t, p) \subseteq K
      BY <1>1, <1>2, <2>1
    <3>. QED  BY <1>1, <1>3, <3>1, ShownInTree
  <2>5. /\ Kids(t, Root) \subseteq S
        /\ \A p \in S \cap t.open : Kids(t, p) \subseteq S
        /\ \A x \in S : x \in Kids(t, Root) \/ \E p \in S \cap t.open : x \in Kids(t, p)
    BY <1>1, <1>3, <2>1, ShownIs
  <2>. HIDE DEF S, r
  <2>6. /\ r \in Differ(u, Pictures)
        /\ r.li = u.li \cup S /\ r.ul = u.ul \cup uls
        /\ r.lined = u.lined \cup (uls \ u.last)
        /\ \A n \in Node : r.line[n] = IF n \in S THEN LineClass(u, n) ELSE u.line[n]
    <3>1. S \in SUBSET Node /\ SonsEnd(u) /\ Root \in Node \cup {Root}
      BY <1>1, <2>3, <2>4, AgreeEnds
    <3>2. Appended(u, S, AppendNodes(u, Root, nodes, S))
      BY <1>1, <2>3, <3>1, AppendIs
    <3>. HIDE DEF nodes
    <3>. QED  BY <2>2, <3>2 DEF Appended
  <2>7. r.li = S /\ r.ul = uls /\ r.lined = uls \ u.last
    BY <2>3, <2>6
  <2>8. /\ r.kids = t.kids /\ r.cached = K /\ r.parent = up /\ r.isParent = u.isParent
        /\ r.open = u.open /\ r.first = u.first /\ r.last = u.last
        /\ r.selected = u.selected /\ r.radios = u.radios /\ Boxed(u, r)
    BY <2>3, <2>6 DEF Differ, Fields, Pictures, Boxed
  <2>9. Boxed(t, r)
    BY <2>3, <2>8 DEF Boxed
  <2>10. Agree(r)
    <3>1. Pictures \cap Family3 = {}
      BY DEF Pictures, Family3
    <3>. QED  BY <2>3, <2>6, <3>1, AgreeStays
  <2>11. \A p : /\ Kids(r, p) = Kids(t, p) /\ (HasKids(r, p) <=> HasKids(t, p))
                /\ Kids(u, p) = Kids(t, p) /\ (HasKids(u, p) <=> HasKids(t, p))
    BY <2>3, <2>8 DEF Kids, HasKids
  <2>12. \A m : LineClass(r, m) = LineClass(u, m)
    BY <2>3, <2>8 DEF LineClass, Folder
  <2>13. Inner(r) /\ Ended(r) /\ Range(r.selected) \subseteq r.cached
    <3>1. r.selected = <<>> /\ Range(<<>>) = {}
      BY <2>3, <2>8 DEF Fresh, Range
    <3>. QED  BY <2>3, <2>8, <2>11, <3>1 DEF Inner, Ended
  <2>14. \A p \in Node : HasKids(t, p) <=> Kids(t, p) # {}
    BY <1>1, KidsAre
  <2>15. \A p \in S \cap t.open : Kids(t, p) # {} => p \in uls
    <3>. SUFFICES ASSUME NEW p \in S \cap t.open, Kids(t, p) # {} PROVE p \in uls
      OBVIOUS
    <3>1. HasKids(t, p) /\ p \in Node
      BY <1>1, <2>4, <2>14
    <3>2. p \in u.open /\ p \in u.isParent
      BY <2>3, <3>1 DEF Inner
    <3>. QED  BY <3>2
  <2>16. Pictured(r)
    <3>1. r.li \subseteq r.cached /\ r.ul \subseteq r.cached /\ r.lined = r.ul \ r.last
      BY <2>4, <2>7, <2>8
    <3>2. Kids(r, Root) \subseteq r.li
      BY <2>5, <2>7, <2>11
    <3>3. ASSUME NEW m \in r.li PROVE r.parent[m] \in r.ul \cup {Root} /\ r.line[m] = LineClass(r, m)
      <4>1. m \in S /\ m \in Node
        BY <1>1, <2>4, <2>7
      <4>2. CASE m \in Kids(t, Root)
        BY <1>2, <2>6, <2>8, <2>12, <4>1, <4>2
      <4>3. CASE \E p \in S \cap t.open : m \in Kids(t, p)
        <5>1. PICK p \in S \cap t.open : m \in Kids(t, p)
          BY <4>3
        <5>2. p \in uls /\ up[m] = p
          BY <1>1, <1>2, <2>4, <2>15, <5>1
        <5>. QED  BY <2>6, <2>7, <2>8, <2>12, <4>1, <5>2
      <4>. QED  BY <2>5, <4>1, <4>2, <4>3
    <3>. QED  BY <3>1, <3>2, <3>3 DEF Pictured
  <2>17. Whole(r, {})
    <3>. SUFFICES ASSUME NEW p \in Node
                  PROVE  /\ Kids(t, p) \subseteq S \/ Kids(t, p) \cap S = {}
                         /\ p \in (S \cup uls) \cap u.open => p \in uls /\ Kids(t, p) \subseteq S
      BY <2>7, <2>8, <2>11 DEF Whole
    <3>1. p \in (S \cup uls) \cap u.open => p \in uls /\ Kids(t, p) \subseteq S
      BY <2>3, <2>5 DEF Inner
    <3>2. CASE p \in S /\ p \in t.open
      BY <2>5, <3>1, <3>2
    <3>3. CASE p \notin S \/ p \notin t.open
      <4>1. Kids(t, p) \cap S = {}
        <5>. SUFFICES ASSUME NEW x \in Kids(t, p) \cap S PROVE FALSE
          OBVIOUS
        <5>1. up[x] = p /\ p # Root
          BY <1>2, TreeAssumption
        <5>2. x \in Kids(t, Root) => up[x] = Root
          BY <1>2
        <5>3. \A y \in S \cap t.open : x \in Kids(t, y) => up[x] = y
          BY <1>1, <1>2, <2>4
        <5>. QED  BY <2>5, <3>3, <5>1, <5>2, <5>3
      <4>. QED  BY <3>1, <4>1
    <3>. QED  BY <3>2, <3>3
  <2>18. Settled(r)
    <3>1. S \in SUBSET Node
      BY <1>1, <2>4
    <3>. QED  BY <2>2, <2>3, <3>1, FreshSettles
  <2>. QED  BY <2>3, <2>8, <2>9, <2>10, <2>13, <2>16, <2>17, <2>18 DEF Sound, r
<1>. QED  BY <1>4, <1>5

\* refresh makes the tree again: the same one, with nothing selected.
LEMMA RefreshIs ==
  ASSUME NEW t, Sound(t)
  PROVE  LET r == Refresh(t) IN
         /\ Sound(r) /\ Whole(r, {}) /\ r.cached = t.cached /\ r.parent = t.parent
         /\ r.kids = t.kids /\ Boxed(t, r) /\ Settled(r)
         /\ r.radios = IF RadioAll(t) THEN t.cached \cap t.checked ELSE {}
<1>. DEFINE box == [n \in Node |-> Nothing]
            u == [t EXCEPT !.cached = {}, !.selected = <<>>, !.radios = {}, !.li = {}, !.ul = {},
                           !.lined = {}, !.box = box, !.line = box]
<1>1. t \in Tree /\ Agree(t)
  BY DEF Sound, Agree
<1>2. /\ box \in [Node -> Image \cup {Nothing}] /\ box \in [Node -> Line \cup {Nothing}]
      /\ <<>> \in Seq(Node)
  OBVIOUS
<1>3. Refresh(t) = CreateNodes(u, Root, t.kids[Root], -1)
  BY DEF Refresh
<1>. HIDE DEF box
<1>4. /\ u \in Tree /\ u.cached = {} /\ u.selected = <<>> /\ u.radios = {} /\ u.li = {}
      /\ u.ul = {} /\ u.lined = {} /\ u.kids = t.kids /\ u.parent = t.parent /\ Boxed(t, u)
      /\ u.first = t.first /\ u.last = t.last /\ u.isParent = t.isParent /\ u.open = t.open
  BY <1>1, <1>2 DEF Tree, Boxed
<1>. HIDE DEF u
<1>5. Forest(t.kids, t.cached, t.parent)
  BY <1>1 DEF Agree, Forest, Tree, Kids, ParentsEnd
<1>6. Fresh(u, t.cached, t.parent)
  BY <1>1, <1>4, <1>5 DEF Fresh, Sound, Ended, Inner, Agree
<1>7. /\ Sound(CreateNodes(u, Root, u.kids[Root], -1))
      /\ Whole(CreateNodes(u, Root, u.kids[Root], -1), {})
      /\ CreateNodes(u, Root, u.kids[Root], -1).cached = t.cached
      /\ CreateNodes(u, Root, u.kids[Root], -1).parent = t.parent
      /\ CreateNodes(u, Root, u.kids[Root], -1).kids = u.kids
      /\ Boxed(u, CreateNodes(u, Root, u.kids[Root], -1))
      /\ Settled(CreateNodes(u, Root, u.kids[Root], -1))
      /\ CreateNodes(u, Root, u.kids[Root], -1).radios =
           u.radios \cup (IF RadioAll(u) THEN t.cached \cap u.checked ELSE {})
  BY <1>6, CreateIs
<1>8. RadioAll(u) <=> RadioAll(t)
  BY <1>4 DEF RadioAll, Boxed
<1>. QED  BY <1>3, <1>4, <1>7, <1>8 DEF Boxed

-----------------------------------------------------------------------------
(* The tree of a page's data.                                              *)

LEMMA EmptyIs ==
  ASSUME NEW setting \in Setting
  PROVE  LET r == EmptyTree(setting) IN
         /\ r = [f \in Fields |-> r[f]]
         /\ r.setting = setting /\ r.kids = [n \in Node \cup {Root} |-> <<>>]
         /\ r.parent = [n \in Node |-> Root] /\ r.selected = <<>>
         /\ r.state = [n \in Node |-> -1]
         /\ r.box = [n \in Node |-> Nothing] /\ r.line = [n \in Node |-> Nothing]
         /\ \A f \in NodeFlags : r[f] = {}
<1>. DEFINE c(f) == CASE f = "setting" -> setting
                      [] f = "kids" -> [n \in Node \cup {Root} |-> <<>>]
                      [] f = "parent" -> [n \in Node |-> Root]
                      [] f = "selected" -> <<>>
                      [] f = "state" -> [n \in Node |-> -1]
                      [] f \in {"box", "line"} -> [n \in Node |-> Nothing]
                      [] f \in NodeFlags -> {}
            r == EmptyTree(setting)
<1>1. r = [f \in Fields |-> c(f)]
  <2>1. Fields = {"setting", "kids", "parent", "selected", "state", "box", "line"} \cup NodeFlags
    BY DEF Fields, NodeFlags
  <2>. HIDE DEF c
  <2>. QED  BY <2>1 DEF EmptyTree, c
<1>2. /\ c("setting") = setting /\ c("parent") = [n \in Node |-> Root]
      /\ c("kids") = [n \in Node \cup {Root} |-> <<>>]
      /\ c("selected") = <<>> /\ c("state") = [n \in Node |-> -1]
      /\ c("box") = [n \in Node |-> Nothing] /\ c("line") = [n \in Node |-> Nothing]
  BY DEF NodeFlags
<1>3. \A f \in NodeFlags : c(f) = {}
  BY DEF NodeFlags
<1>. HIDE DEF c, r
<1>4. \A f \in Fields : r[f] = c(f)
  BY <1>1
<1>5. r = [f \in Fields |-> r[f]]
  BY <1>1
<1>6. /\ r.setting = setting /\ r.kids = [n \in Node \cup {Root} |-> <<>>]
      /\ r.parent = [n \in Node |-> Root] /\ r.selected = <<>>
      /\ r.state = [n \in Node |-> -1]
      /\ r.box = [n \in Node |-> Nothing] /\ r.line = [n \in Node |-> Nothing]
  BY <1>2, <1>4 DEF Fields
<1>7. \A f \in NodeFlags : r[f] = {}
  BY <1>3, <1>4 DEF Fields, NodeFlags
<1>. QED  BY <1>5, <1>6, <1>7 DEF r

\* The data of a page: a forest, and flags of its nodes.
DataFlags == {"isParent", "open", "checked", "nocheck", "disabled", "half"}
Data(data, K, up) ==
  /\ "kids" \in DOMAIN data /\ DOMAIN data \subseteq DataFlags \cup {"kids"}
  /\ \A f \in DOMAIN data \ {"kids"} : data[f] \subseteq K
  /\ Forest(data["kids"], K, up)

\* What the data say of a flag.
Said(data, f) == IF f \in DOMAIN data THEN data[f] ELSE {}

\* init makes a tree of the data, and nothing else.
LEMMA InitTreeIs ==
  ASSUME NEW setting \in Setting, NEW data, NEW K, NEW up, Data(data, K, up)
  PROVE  LET r == InitTree(setting, data) IN
         /\ Sound(r) /\ Whole(r, {}) /\ r.cached = K /\ r.parent = up /\ r.kids = data["kids"]
         /\ r.setting = setting /\ Settled(r)
         /\ r.checked = Said(data, "checked") /\ r.nocheck = Said(data, "nocheck")
         /\ r.disabled = Said(data, "disabled") /\ r.half = Said(data, "half")
         /\ r.radios = IF RadioAll(r) THEN r.checked ELSE {}
<1>. DEFINE r == EmptyTree(setting)
            t == [f \in DOMAIN r |-> IF f \in DOMAIN data THEN data[f] ELSE r[f]]
            box == [n \in Node |-> Nothing]
            u == [t EXCEPT !.cached = {}, !.selected = <<>>, !.radios = {}, !.li = {}, !.ul = {},
                           !.lined = {}, !.box = box, !.line = box]
<1>1. /\ r = [f \in Fields |-> r[f]]
      /\ r.setting = setting /\ r.kids = [n \in Node \cup {Root} |-> <<>>]
      /\ r.parent = [n \in Node |-> Root] /\ r.selected = <<>>
      /\ r.state = [n \in Node |-> -1]
      /\ r.box = [n \in Node |-> Nothing] /\ r.line = [n \in Node |-> Nothing]
      /\ \A f \in NodeFlags : r[f] = {}
  BY EmptyIs
<1>2. InitTree(setting, data) = CreateNodes(u, Root, t.kids[Root], -1)
  BY DEF InitTree, Refresh
<1>. HIDE DEF r
<1>3. DOMAIN r = Fields
  BY <1>1
<1>4. t = [f \in Fields |-> IF f \in DOMAIN data THEN data[f] ELSE r[f]]
  BY <1>3
<1>. HIDE DEF t
<1>5. \A f \in Fields : t[f] = IF f \in DOMAIN data THEN data[f] ELSE r[f]
  BY <1>4
<1>6. t = [f \in Fields |-> t[f]]
  BY <1>4
<1>7. K \in SUBSET Node /\ data["kids"] \in [Node \cup {Root} -> Seq(Node)]
  BY DEF Data, Forest
<1>8. \A f \in DataFlags : t[f] = Said(data, f) /\ t[f] \subseteq K
  <2>1. \A f \in DataFlags : f \in Fields /\ f \in NodeFlags /\ f # "kids"
    BY DEF DataFlags, Fields, NodeFlags
  <2>. QED  BY <1>1, <1>5, <2>1 DEF Said, Data
<1>9. t.kids = data["kids"]
  BY <1>5 DEF Data, Fields
<1>10. \A f \in Fields \ (DataFlags \cup {"kids"}) : t[f] = r[f]
  BY <1>5 DEF Data
<1>11. /\ t.setting = setting /\ t.parent = [n \in Node |-> Root] /\ t.selected = <<>>
       /\ t.state = [n \in Node |-> -1] /\ t.box = box /\ t.line = box
       /\ t.first = {} /\ t.last = {} /\ t.li = {} /\ t.ul = {} /\ t.lined = {}
       /\ t.cached = {} /\ t.radios = {}
  BY <1>1, <1>10 DEF Fields, DataFlags, NodeFlags
<1>12. u = t
  <2>1. /\ t.cached = {} /\ t.selected = <<>> /\ t.radios = {} /\ t.li = {} /\ t.ul = {}
        /\ t.lined = {} /\ t.box = box /\ t.line = box
    BY <1>11
  <2>. HIDE DEF box
  <2>. QED  BY <1>6, <2>1 DEF Fields
<1>13. t \in Tree
  <2>1. /\ t.box \in [Node -> Image \cup {Nothing}] /\ t.line \in [Node -> Line \cup {Nothing}]
        /\ t.selected \in Seq(Node) /\ t.parent \in [Node -> Node \cup {Root}]
        /\ t.state \in [Node -> -1 .. 2] /\ t.kids \in [Node \cup {Root} -> Seq(Node)]
        /\ t.setting \in Setting
    BY <1>7, <1>9, <1>11
  <2>2. /\ t.isParent \in SUBSET Node /\ t.open \in SUBSET Node /\ t.checked \in SUBSET Node
        /\ t.nocheck \in SUBSET Node /\ t.disabled \in SUBSET Node /\ t.half \in SUBSET Node
    BY <1>7, <1>8 DEF DataFlags
  <2>3. /\ t.cached \in SUBSET Node /\ t.first \in SUBSET Node /\ t.last \in SUBSET Node
        /\ t.li \in SUBSET Node /\ t.ul \in SUBSET Node /\ t.lined \in SUBSET Node
        /\ t.radios \in SUBSET Node
    BY <1>11
  <2>4. t = [setting |-> t.setting, kids |-> t.kids, parent |-> t.parent, cached |-> t.cached,
             isParent |-> t.isParent, open |-> t.open, first |-> t.first, last |-> t.last,
             selected |-> t.selected, li |-> t.li, ul |-> t.ul, checked |-> t.checked,
             nocheck |-> t.nocheck, disabled |-> t.disabled, half |-> t.half, state |-> t.state,
             box |-> t.box, line |-> t.line, lined |-> t.lined, radios |-> t.radios]
    BY <1>6 DEF Fields
  <2>. QED  BY ONLY <2>1, <2>2, <2>3, <2>4 DEF Tree
<1>14. Fresh(t, K, up)
  <2>1. t.isParent \subseteq K /\ t.open \subseteq K
    BY <1>8 DEF DataFlags
  <2>2. Forest(t.kids, K, up)
    BY <1>9 DEF Data
  <2>. QED  BY <1>11, <1>13, <2>1, <2>2 DEF Fresh
<1>. DEFINE w == CreateNodes(t, Root, t.kids[Root], -1)
<1>15. /\ Sound(w) /\ Whole(w, {}) /\ w.cached = K /\ w.parent = up /\ w.kids = t.kids
       /\ Boxed(t, w) /\ Settled(w)
       /\ w.radios = t.radios \cup (IF RadioAll(t) THEN K \cap t.checked ELSE {})
  BY <1>14, CreateIs
<1>16. InitTree(setting, data) = w
  BY <1>2, <1>12
<1>. HIDE DEF w, u
<1>17. t.checked = Said(data, "checked") /\ t.nocheck = Said(data, "nocheck")
       /\ t.disabled = Said(data, "disabled") /\ t.half = Said(data, "half")
       /\ t.checked \subseteq K
  BY <1>8 DEF DataFlags
<1>18. w.radios = IF RadioAll(w) THEN w.checked ELSE {}
  BY <1>11, <1>15, <1>17 DEF RadioAll, Boxed
<1>. QED  BY <1>9, <1>11, <1>15, <1>16, <1>17, <1>18 DEF Boxed

\* The method selectNode, which opens what is above the node.
LEMMA SelectNodeSound ==
  ASSUME NEW t, Sound(t), NEW n \in t.cached, NEW flag \in BOOLEAN
  PROVE  LET r == SelectNode(t, n, flag) IN
         /\ r \in Differ(t, View \cup {"selected"}) /\ Sound(r)
         /\ Settled(t) => Settled(r)
         /\ \A E : Whole(t, E) => Whole(r, E)
<1>. DEFINE u == IF t.parent[n] = Root THEN t ELSE ExpandCollapseParentNode(t, t.parent[n], TRUE)
            r == Select(u, n, flag)
<1>1. t \in Tree /\ n \in Node
  BY DEF Sound, Agree, Tree
<1>2. u \in Redrawn(t)
  <2>1. CASE t.parent[n] = Root
    BY <2>1, RedrawnNot
  <2>2. CASE t.parent[n] # Root
    <3>1. t.parent[n] \in Node
      BY <1>1, <2>2 DEF Tree
    <3>2. ExpandCollapseParentNode(t, t.parent[n], TRUE) \in Redrawn(t)
      BY <3>1, OpeningsRedraw
    <3>. QED  BY <2>2, <3>2
  <2>. QED  BY <2>1, <2>2
<1>3. SelectNode(t, n, flag) = r
  BY DEF SelectNode
<1>. HIDE DEF u
<1>4. Sound(u) /\ u.cached = t.cached
  BY <1>2, RedrawnChain
<1>5. r \in Differ(u, {"selected"}) /\ Sound(r) /\ \A E : Whole(u, E) => Whole(r, E)
  BY <1>4, SelectSound
<1>. HIDE DEF r
<1>6. u \in Differ(t, View) /\ (Settled(t) => Settled(u)) /\ \A E : Whole(t, E) => Whole(u, E)
  BY <1>2 DEF Redrawn
<1>7. r \in Differ(t, View \cup {"selected"})
  BY <1>5, <1>6 DEF Differ
<1>8. Settled(u) => Settled(r)
  <2>1. Agree(u) /\ {"selected"} \cap Boxing = {}
    BY <1>4 DEF Sound, Boxing
  <2>. QED  BY <1>5, <2>1, SettledStays DEF Settled
<1>. QED  BY <1>3, <1>5, <1>6, <1>7, <1>8

=============================================================================
