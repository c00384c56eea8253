------------------------------- MODULE Induction -------------------------------
(***************************************************************************)
(* Lemmas for recursive functions on the natural numbers and for sequences *)
(* that list a set, as the proofs about the modules of this project need   *)
(* them.  They quantify over sets and functions only.                      *)
(***************************************************************************)
EXTENDS SequencesExt, FiniteSetTheorems, SequenceTheorems, TLAPS

\* A set of numbers with zero and every successor holds all numbers.
LEMMA InductionOnSet ==
    ASSUME NEW S, 0 \in S, \A n \in Nat : n \in S => n + 1 \in S
    PROVE  Nat \subseteq S
<1> DEFINE T == Nat \ S
           R == OpToRel(<, Nat)
<1> SUFFICES ASSUME T # {} PROVE FALSE
    OBVIOUS
<1>1. PICK x \in T : \A y \in T : ~ (<<y, x>> \in R)
    <2>1. IsWellFoundedOn(R, Nat)
        BY NatLessThanWellFounded
    <2> QED
        BY <2>1, WFMin
<1>2. x \in Nat /\ x # 0
    OBVIOUS
<1>3. x - 1 \in Nat /\ (x - 1) + 1 = x /\ x - 1 < x
    BY <1>2
<1>4. <<x - 1, x>> \in R
    BY <1>2, <1>3 DEF OpToRel
<1>5. x - 1 \in S
    BY <1>1, <1>3, <1>4
<1> QED
    BY <1>2, <1>3, <1>5

\* A function can be applied again and again.
LEMMA Iteration ==
    ASSUME NEW V, NEW a \in V, NEW g \in [V -> V]
    PROVE  \E f \in [Nat -> V] : f[0] = a /\ \A n \in Nat : f[n + 1] = g[f[n]]
<1> DEFINE Until(k) == {h \in [0..k -> V] :
                           h[0] = a /\ \A i \in 0..k : i < k => h[i + 1] = g[h[i]]}
\* As often as one likes.
<1>1. \A k \in Nat : Until(k) # {}
    <2> DEFINE S == {k \in Nat : Until(k) # {}}
    <2>1. 0 \in S
        <3>1. [i \in 0..0 |-> a] \in Until(0)
            OBVIOUS
        <3> QED
            BY <3>1
    <2>2. ASSUME NEW k \in Nat, k \in S PROVE k + 1 \in S
        <3>1. PICK h : h \in Until(k)
            BY <2>2
        <3> DEFINE j == [i \in 0..(k + 1) |-> IF i = k + 1 THEN g[h[k]] ELSE h[i]]
        <3>2. j \in [0..(k + 1) -> V]
            BY <3>1
        <3>3. j[0] = a
            BY <3>1
        <3>4. ASSUME NEW i \in 0..(k + 1), i < k + 1 PROVE j[i + 1] = g[j[i]]
            <4>1. CASE i = k
                BY <3>1, <4>1
            <4>2. CASE i # k
                BY <3>1, <3>4, <4>2
            <4> QED
                BY <4>1, <4>2
        <3>5. j \in Until(k + 1)
            BY <3>2, <3>3, <3>4
        <3>6. k + 1 \in Nat
            OBVIOUS
        <3> HIDE DEF Until, j
        <3> QED
            BY <3>5, <3>6
    <2> HIDE DEF S
    <2>3. Nat \subseteq S
        BY <2>1, <2>2, InductionOnSet
    <2> QED
        BY <2>3 DEF S
\* And always with the same results.
<1>2. ASSUME NEW i \in Nat
      PROVE  \A k, l \in Nat : i <= k /\ i <= l =>
                \A h \in Until(k), j \in Until(l) : h[i] = j[i]
    <2> DEFINE S == {n \in Nat : \A k, l \in Nat : n <= k /\ n <= l =>
                                    \A h \in Until(k), j \in Until(l) : h[n] = j[n]}
    <2>1. 0 \in S
        OBVIOUS
    <2>2. ASSUME NEW n \in Nat, n \in S PROVE n + 1 \in S
        <3>1. ASSUME NEW k \in Nat, NEW l \in Nat, n + 1 <= k, n + 1 <= l,
                     NEW h \in Until(k), NEW j \in Until(l)
              PROVE  h[n + 1] = j[n + 1]
            <4>1. /\ n \in 0..k /\ n < k /\ n <= k
                  /\ n \in 0..l /\ n < l /\ n <= l
                BY <3>1
            <4>2. h[n + 1] = g[h[n]]
                BY <4>1
            <4>3. j[n + 1] = g[j[n]]
                BY <4>1
            <4> HIDE DEF Until
            <4>4. h[n] = j[n]
                BY <2>2, <4>1
            <4> QED
                BY <4>2, <4>3, <4>4
        <3>2. n + 1 \in Nat
            OBVIOUS
        <3> HIDE DEF Until
        <3> QED
            BY <3>1, <3>2
    <2> HIDE DEF S
    <2>3. Nat \subseteq S
        BY <2>1, <2>2, InductionOnSet
    <2> QED
        BY <2>3 DEF S
<1> DEFINE H(k) == CHOOSE h : h \in Until(k)
           f == [n \in Nat |-> H(n)[n]]
<1>3. \A k \in Nat : H(k) \in Until(k)
    BY <1>1
<1> HIDE DEF H
<1>4. f \in [Nat -> V] /\ f[0] = a
    BY <1>3
<1>5. ASSUME NEW n \in Nat PROVE f[n + 1] = g[f[n]]
    <2>1. H(n + 1)[n + 1] = g[H(n + 1)[n]]
        BY <1>3
    <2>2. H(n + 1)[n] = H(n)[n]
        <3>1. n <= n + 1 /\ n <= n /\ n + 1 \in Nat
            OBVIOUS
        <3>2. H(n) \in Until(n) /\ H(n + 1) \in Until(n + 1)
            BY <1>3
        <3> HIDE DEF Until
        <3> QED
            BY <1>2, <3>1, <3>2
    <2> QED
        BY <2>1, <2>2
<1> HIDE DEF f
<1> QED
    BY <1>4, <1>5

\* The sequence that lists a finite set.
LEMMA SetToSeqProperties ==
    ASSUME NEW S, IsFiniteSet(S)
    PROVE  /\ SetToSeq(S) \in Seq(S)
           /\ Len(SetToSeq(S)) = Cardinality(S)
           /\ \A i, j \in 1..Cardinality(S) : SetToSeq(S)[i] = SetToSeq(S)[j] => i = j
           /\ ToSet(SetToSeq(S)) = S
<1> DEFINE n == Cardinality(S)
           s == SetToSeq(S)
<1>1. n \in Nat /\ ExistsBijection(1..n, S)
    BY FS_CardinalityType
<1>2. \E f \in [1..n -> S] : IsInjective(f)
    BY <1>1 DEF ExistsBijection, Bijection, Injection
<1>3. s \in [1..n -> S] /\ IsInjective(s)
    BY <1>2 DEF SetToSeq
<1>4. s \in Injection(1..n, S)
    BY <1>3 DEF Injection
<1>5. IsFiniteSet(1..n) /\ Cardinality(1..n) = n
    BY <1>1, FS_Interval
<1>6. s \in Surjection(1..n, S)
    BY <1>4, <1>5, FS_Injection
<1> HIDE DEF s, n
<1>7. s \in Seq(S) /\ Len(s) = n
    BY <1>1, <1>3
<1>8. ToSet(s) = S
    BY <1>3, <1>6 DEF ToSet, Surjection
<1>9. \A i, j \in 1..n : s[i] = s[j] => i = j
    BY <1>3 DEF IsInjective
<1> QED
    BY <1>7, <1>8, <1>9 DEF s, n

\* A sequence without duplicates is as long as the set of its elements.
LEMMA LengthOfDistinct ==
    ASSUME NEW S, NEW s \in Seq(S), \A i, j \in 1..Len(s) : s[i] = s[j] => i = j
    PROVE  IsFiniteSet(ToSet(s)) /\ Cardinality(ToSet(s)) = Len(s)
<1>1. Len(s) \in Nat /\ DOMAIN s = 1..Len(s) /\ s \in [1..Len(s) -> S]
    BY LenProperties
<1>2. s \in Bijection(1..Len(s), ToSet(s))
    <2>1. s \in [1..Len(s) -> ToSet(s)]
        BY <1>1 DEF ToSet
    <2>2. \A t \in ToSet(s) : \E i \in 1..Len(s) : s[i] = t
        BY <1>1 DEF ToSet
    <2>3. IsInjective(s)
        BY <1>1 DEF IsInjective
    <2> QED
        BY <2>1, <2>2, <2>3 DEF Bijection, Injection, Surjection
<1>3. ExistsBijection(1..Len(s), ToSet(s))
    BY <1>2 DEF ExistsBijection
<1> QED
    BY <1>1, <1>3, FS_NatBijection, FS_CountingElements

\* The elements of a concatenation.
LEMMA ElementsOfConcat ==
    ASSUME NEW S, NEW s \in Seq(S), NEW t \in Seq(S)
    PROVE  s \o t \in Seq(S) /\ ToSet(s \o t) = ToSet(s) \cup ToSet(t)
<1>1. /\ s \o t \in Seq(S) /\ Len(s \o t) = Len(s) + Len(t)
      /\ \A i \in 1..(Len(s) + Len(t)) :
            (s \o t)[i] = IF i <= Len(s) THEN s[i] ELSE t[i - Len(s)]
    BY ConcatProperties
<1>2. /\ Len(s) \in Nat /\ Len(t) \in Nat /\ DOMAIN s = 1..Len(s) /\ DOMAIN t = 1..Len(t)
      /\ DOMAIN (s \o t) = 1..(Len(s) + Len(t))
    BY <1>1, LenProperties
<1>3. ToSet(s \o t) \subseteq ToSet(s) \cup ToSet(t)
    BY <1>1, <1>2 DEF ToSet
<1>4. ASSUME NEW i \in DOMAIN s PROVE s[i] \in ToSet(s \o t)
    BY <1>1, <1>2 DEF ToSet
<1>5. ASSUME NEW i \in DOMAIN t PROVE t[i] \in ToSet(s \o t)
    <2>1. /\ Len(s) + i \in 1..(Len(s) + Len(t)) /\ ~ (Len(s) + i <= Len(s))
          /\ (Len(s) + i) - Len(s) = i
        BY <1>2
    <2>2. (s \o t)[Len(s) + i] = t[i]
        BY <1>1, <2>1
    <2> QED
        BY <1>2, <2>1, <2>2 DEF ToSet
<1>6. ToSet(s) \cup ToSet(t) \subseteq ToSet(s \o t)
    BY <1>4, <1>5 DEF ToSet
<1> QED
    BY <1>1, <1>3, <1>6


\* Two sequences without repetitions and without a common element, joined.
LEMMA ConcatIsDistinct ==
    ASSUME NEW S, NEW s \in Seq(S), NEW t \in Seq(S), ToSet(s) \cap ToSet(t) = {},
           \A i, j \in 1..Len(s) : s[i] = s[j] => i = j,
           \A i, j \in 1..Len(t) : t[i] = t[j] => i = j
    PROVE  \A i, j \in 1..Len(s \o t) : (s \o t)[i] = (s \o t)[j] => i = j
<1>1. /\ Len(s \o t) = Len(s) + Len(t) /\ Len(s) \in Nat /\ Len(t) \in Nat
      /\ \A i \in 1..(Len(s) + Len(t)) :
            (s \o t)[i] = IF i <= Len(s) THEN s[i] ELSE t[i - Len(s)]
    BY ConcatProperties, LenProperties
<1>2. DOMAIN s = 1..Len(s) /\ DOMAIN t = 1..Len(t)
    BY LenProperties
<1>3. ASSUME NEW i \in 1..Len(s), NEW j \in 1..Len(t) PROVE s[i] # t[j]
    <2>1. s[i] \in ToSet(s) /\ t[j] \in ToSet(t)
        BY <1>2 DEF ToSet
    <2> QED
        BY <2>1
<1> SUFFICES ASSUME NEW i \in 1..(Len(s) + Len(t)), NEW j \in 1..(Len(s) + Len(t)),
                    (s \o t)[i] = (s \o t)[j]
             PROVE  i = j
    BY <1>1
<1>4. CASE i <= Len(s) /\ j <= Len(s)
    BY <1>1, <1>4
<1>5. CASE i > Len(s) /\ j > Len(s)
    BY <1>1, <1>5
<1>6. CASE i <= Len(s) /\ j > Len(s)
    BY <1>1, <1>3, <1>6
<1>7. CASE i > Len(s) /\ j <= Len(s)
    BY <1>1, <1>3, <1>7
<1> QED
    BY <1>1, <1>4, <1>5, <1>6, <1>7

\* A sequence over a set is one over any larger set.
LEMMA SeqOfMore ==
    ASSUME NEW S, NEW T, S \subseteq T, NEW s \in Seq(S)
    PROVE  s \in Seq(T)
<1>1. Len(s) \in Nat /\ s \in [1..Len(s) -> S]
    BY LenProperties
<1>2. s \in [1..Len(s) -> T]
    BY <1>1
<1> QED
    BY <1>1, <1>2

\* A sequence without its i-th element.
LEMMA RemoveAtProperties ==
    ASSUME NEW S, NEW s \in Seq(S), NEW i \in 1..Len(s)
    PROVE  /\ RemoveAt(s, i) \in Seq(S) /\ Len(RemoveAt(s, i)) = Len(s) - 1
           /\ \A j \in 1..(Len(s) - 1) :
                 RemoveAt(s, i)[j] = IF j < i THEN s[j] ELSE s[j + 1]
<1>1. Len(s) \in Nat /\ i \in Int /\ \A j \in 1..Len(s) : s[j] \in S
    BY LenProperties
<1> DEFINE a == SubSeq(s, 1, i - 1)
           b == SubSeq(s, i + 1, Len(s))
<1>2. a \in Seq(S) /\ Len(a) = i - 1 /\ \A j \in 1..(i - 1) : a[j] = s[j]
    <2>1. \A j \in 1..(i - 1) : s[j] \in S
        BY <1>1
    <2>2. /\ a \in Seq(S) /\ Len(a) = (IF 1 <= i - 1 THEN (i - 1) - 1 + 1 ELSE 0)
          /\ \A j \in 1..((i - 1) - 1 + 1) : a[j] = s[1 + j - 1]
        BY <1>1, <2>1, SubSeqProperties
    <2> HIDE DEF a
    <2> QED
        BY <1>1, <2>2
<1>3. b \in Seq(S) /\ Len(b) = Len(s) - i /\ \A j \in 1..(Len(s) - i) : b[j] = s[i + j]
    <2>1. \A j \in (i + 1)..Len(s) : s[j] \in S
        BY <1>1
    <2>2. /\ b \in Seq(S)
          /\ Len(b) = (IF i + 1 <= Len(s) THEN Len(s) - (i + 1) + 1 ELSE 0)
          /\ \A j \in 1..(Len(s) - (i + 1) + 1) : b[j] = s[(i + 1) + j - 1]
        BY <1>1, <2>1, SubSeqProperties
    <2> HIDE DEF b
    <2>3. \A j \in 1..(Len(s) - i) : b[j] = s[i + j]
        <3> TAKE j \in 1..(Len(s) - i)
        <3>1. j \in 1..(Len(s) - (i + 1) + 1) /\ (i + 1) + j - 1 = i + j
            BY <1>1
        <3> QED
            BY <2>2, <3>1
    <2> QED
        BY <1>1, <2>2, <2>3
<1> HIDE DEF a, b
<1>4. /\ a \o b \in Seq(S) /\ Len(a \o b) = Len(a) + Len(b)
      /\ \A j \in 1..(Len(a) + Len(b)) :
            (a \o b)[j] = IF j <= Len(a) THEN a[j] ELSE b[j - Len(a)]
    BY <1>2, <1>3, ConcatProperties
<1>5. RemoveAt(s, i) = a \o b
    BY DEF RemoveAt, a, b
<1>6. ASSUME NEW j \in 1..(Len(s) - 1)
      PROVE  (a \o b)[j] = IF j < i THEN s[j] ELSE s[j + 1]
    <2> DEFINE g == j - (i - 1)
    <2>1. CASE j < i
        BY <1>1, <1>2, <1>3, <1>4, <2>1
    <2>2. CASE ~(j < i)
        <3>1. g \in 1..(Len(s) - i) /\ i + g = j + 1
            BY <1>1, <2>2
        <3>2. (a \o b)[j] = b[g]
            BY <1>1, <1>2, <1>3, <1>4, <2>2
        <3> HIDE DEF g
        <3>3. b[g] = s[j + 1]
            <4>1. b[g] = s[i + g]
                BY <1>3, <3>1
            <4> QED
                BY <3>1, <4>1
        <3> QED
            BY <2>2, <3>2, <3>3
    <2> QED
        BY <2>1, <2>2
<1> QED
    BY <1>1, <1>2, <1>3, <1>4, <1>5, <1>6

\* A set of numbers that is not empty has a least one.
LEMMA LeastNumber ==
    ASSUME NEW S \in SUBSET Nat, S # {}
    PROVE  \E m \in S : \A k \in S : m <= k
<1> DEFINE R == OpToRel(<, Nat)
<1>1. IsWellFoundedOn(R, Nat)
    BY NatLessThanWellFounded
<1>2. PICK m \in S : \A k \in S : ~ (<<k, m>> \in R)
    BY <1>1, WFMin
<1>3. ASSUME NEW k \in S PROVE m <= k
    <2>1. ~ (k < m)
        BY <1>2, <1>3 DEF OpToRel
    <2> QED
        BY <2>1
<1> QED
    BY <1>3


\* The concatenations of the first sequences of a sequence.
AreJoined(f, seqs, n) ==
    /\ f[1] = seqs[1]
    /\ \A i \in 2..n : f[i] = f[i - 1] \o seqs[i]
    /\ f[n] = FlattenSeq(seqs)

LEMMA FlattenRun ==
    ASSUME NEW seqs, Len(seqs) \in Nat, Len(seqs) >= 1
    PROVE  \E f : AreJoined(f, seqs, Len(seqs))
<1> DEFINE n == Len(seqs)
           at(h, i) == IF i = 1 THEN seqs[i] ELSE h[i - 1] \o seqs[i]
           Table(k, h) == h = [i \in 1..k |-> at(h, i)]
           I == CHOOSE h : h = [i \in 1..n |-> at(h, i)]
<1>1. FlattenSeq(seqs) = I[n]
    BY DEF FlattenSeq
<1>2. n \in Nat /\ n >= 1
    OBVIOUS
<1> HIDE DEF n
<1> DEFINE S == {k \in Nat : \E h : Table(k, h)}
<1>3. 0 \in S
    <2>1. Table(0, [i \in 1..0 |-> seqs[1]])
        OBVIOUS
    <2> QED
        BY <2>1
<1>4. ASSUME NEW k \in Nat, k \in S PROVE k + 1 \in S
    <2>1. PICK h : Table(k, h)
        BY <1>4
    <2> DEFINE j == [i \in 1..(k + 1) |-> IF i = k + 1 THEN at(h, i) ELSE h[i]]
    <2>2. ASSUME NEW i \in 1..(k + 1) PROVE j[i] = at(j, i)
        <3>1. i # 1 => i - 1 \in 1..k /\ j[i - 1] = h[i - 1]
            OBVIOUS
        <3>2. at(j, i) = at(h, i)
            <4> HIDE DEF j
            <4> QED
                BY <3>1
        <3>3. j[i] = at(h, i)
            <4>1. CASE i = k + 1
                BY <4>1
            <4>2. CASE i # k + 1
                <5>1. i \in 1..k /\ j[i] = h[i]
                    BY <4>2
                <5> HIDE DEF j, at
                <5> QED
                    BY <2>1, <5>1
            <4> QED
                BY <4>1, <4>2
        <3> QED
            BY <3>2, <3>3
    <2>3. Table(k + 1, j)
        <3> HIDE DEF at
        <3> QED
            BY <2>2
    <2> HIDE DEF j, Table
    <2> QED
        BY <2>3
<1> HIDE DEF S, Table
<1>5. n \in S
    <2>1. Nat \subseteq S
        BY <1>3, <1>4, InductionOnSet
    <2> QED
        BY <1>2, <2>1
<1>6. PICK h : Table(n, h)
    BY <1>5 DEF S
<1> HIDE DEF at
<1>7. I = [i \in 1..n |-> at(I, i)]
    BY <1>6 DEF Table
<1> HIDE DEF I
<1>8. \A i \in 1..n : I[i] = at(I, i)
    BY <1>7
<1>9. I[1] = seqs[1]
    BY <1>2, <1>8 DEF at
<1>10. \A i \in 2..n : I[i] = I[i - 1] \o seqs[i]
    <2>1. \A i \in 2..n : i \in 1..n /\ i # 1
        BY <1>2
    <2> QED
        BY <1>8, <2>1 DEF at
<1>11. AreJoined(I, seqs, n)
    BY <1>1, <1>9, <1>10 DEF AreJoined
<1> QED
    BY <1>11 DEF n

\* The elements of all sequences of a sequence.
LEMMA FlattenProperties ==
    ASSUME NEW T, NEW n \in Nat, NEW seqs \in [1..n -> Seq(T)]
    PROVE  /\ FlattenSeq(seqs) \in Seq(T)
           /\ ToSet(FlattenSeq(seqs)) = UNION {ToSet(seqs[i]) : i \in 1..n}
<1>1. seqs \in Seq(Seq(T)) /\ Len(seqs) = n
    OBVIOUS
<1>2. CASE n = 0
    <2>1. FlattenSeq(seqs) = seqs
        BY <1>1, <1>2 DEF FlattenSeq
    <2>2. seqs = <<>>
        BY <1>1, <1>2
    <2>3. ToSet(<<>>) = {} /\ <<>> \in Seq(T)
        BY DEF ToSet
    <2>4. 1..n = {}
        BY <1>2
    <2> QED
        BY <2>1, <2>2, <2>3, <2>4
<1>3. CASE n # 0
    <2>1. n >= 1
        BY <1>3
    <2>2. PICK f : AreJoined(f, seqs, n)
        BY <1>1, <2>1, FlattenRun
    <2> DEFINE all(m) == UNION {ToSet(seqs[i]) : i \in 1..m}
               S == {m \in Nat : m + 1 <= n =>
                        f[m + 1] \in Seq(T) /\ ToSet(f[m + 1]) = all(m + 1)}
    <2>3. 0 \in S
        <3>1. f[1] = seqs[1] /\ 1 \in 1..n
            BY <2>1, <2>2 DEF AreJoined
        <3>2. f[1] \in Seq(T)
            BY <3>1
        <3>3. 1..1 = {1} /\ 0 + 1 = 1
            OBVIOUS
        <3>4. all(1) = ToSet(seqs[1])
            BY <3>3
        <3> HIDE DEF all
        <3> QED
            BY <3>1, <3>2, <3>3, <3>4
    <2>4. ASSUME NEW m \in Nat, m \in S PROVE m + 1 \in S
        <3>7. m + 1 + 1 = m + 2
            OBVIOUS
        <3> SUFFICES ASSUME m + 2 <= n
                     PROVE  f[m + 2] \in Seq(T) /\ ToSet(f[m + 2]) = all(m + 2)
            <4> HIDE DEF all
            <4> QED
                BY <3>7
        <3>1. m + 2 \in 2..n /\ m + 2 \in 1..n /\ (m + 2) - 1 = m + 1 /\ m + 1 <= n
            OBVIOUS
        <3>2. f[m + 2] = f[m + 1] \o seqs[m + 2]
            BY <2>2, <3>1 DEF AreJoined
        <3>3. f[m + 1] \in Seq(T) /\ ToSet(f[m + 1]) = all(m + 1) /\ seqs[m + 2] \in Seq(T)
            BY <2>4, <3>1
        <3>4. f[m + 2] \in Seq(T) /\ ToSet(f[m + 2]) = all(m + 1) \cup ToSet(seqs[m + 2])
            <4> HIDE DEF all
            <4> DEFINE a == f[m + 1]
                       b == seqs[m + 2]
            <4>1. a \in Seq(T) /\ b \in Seq(T)
                BY <3>3
            <4> HIDE DEF a, b
            <4>2. a \o b \in Seq(T) /\ ToSet(a \o b) = ToSet(a) \cup ToSet(b)
                BY <4>1, ElementsOfConcat
            <4> QED
                BY <3>2, <3>3, <4>2 DEF a, b
        <3>5. 1..(m + 2) = (1..(m + 1)) \cup {m + 2}
            OBVIOUS
        <3>6. all(m + 2) = all(m + 1) \cup ToSet(seqs[m + 2])
            BY <3>5
        <3> QED
            BY <3>4, <3>6
    <2> HIDE DEF S
    <2>5. n - 1 \in S /\ n - 1 + 1 = n
        <3>1. Nat \subseteq S
            BY <2>3, <2>4, InductionOnSet
        <3>2. n - 1 \in Nat /\ n - 1 + 1 = n
            BY <2>1
        <3> QED
            BY <3>1, <3>2
    <2>6. f[n] \in Seq(T) /\ ToSet(f[n]) = all(n)
        <3>1. n <= n
            OBVIOUS
        <3> HIDE DEF all
        <3> QED
            BY <2>5, <3>1 DEF S
    <2> QED
        BY <2>2, <2>6 DEF AreJoined
<1> QED
    BY <1>2, <1>3
=============================================================================
