----------------------------- MODULE AlgebraProofs -----------------------------
(***************************************************************************)
(* The state algebra, for any keys, values, states and deltas: what        *)
(* applyDelta makes of each key, and what follows from it for net deltas,  *)
(* for the audit of applyPackage and for the closure planner.              *)
(***************************************************************************)
EXTENDS ApplyPackage, ClosurePlan, Induction

-----------------------------------------------------------------------------
(* The passes of applyDelta as a run over the entries *)

Start(units) == [units |-> units, conflicts |-> {}]

\* The entries of keys, one after the other.
Run(units, d, keys) ==
    FoldLeft(LAMBDA r, k : Entered(r, k, d[k]), Start(units), keys)

\* The greatest element of some of the first numbers.
LEMMA MaxOf ==
    ASSUME NEW n \in Nat, NEW s \in SUBSET (1..n), s # {}
    PROVE  Max(s) \in s /\ \A y \in s : Max(s) >= y
<1> DEFINE T == {n - x : x \in s}
<1> \A x \in s : x \in 1..n
    OBVIOUS
<1>1. T \in SUBSET Nat /\ T # {}
    <2>1. \A x \in s : n - x \in Nat
        OBVIOUS
    <2> QED
        BY <2>1
<1>2. PICK m \in T : \A y \in T : m <= y
    BY <1>1, LeastNumber
<1>3. PICK x \in s : m = n - x
    BY <1>2
<1>4. ASSUME NEW y \in s PROVE x >= y
    <2>1. n - x <= n - y
        BY <1>2, <1>3
    <2> QED
        BY <2>1
<1> QED
    BY <1>3, <1>4 DEF Max

LEMMA MaxOfFirst ==
    ASSUME NEW n \in Nat, NEW s \in SUBSET (1..n), n \in s
    PROVE  Max(s) = n
<1>1. Max(s) \in s /\ Max(s) >= n
    BY MaxOf
<1>2. Max(s) \in 1..n
    BY <1>1
<1> QED
    BY <1>1, <1>2

\* The states before and after every entry of a run.
IsRun(f, units, d, keys, n) ==
    /\ f[0] = Start(units)
    /\ \A i \in 1..n : f[i] = Entered(f[i - 1], keys[i], d[keys[i]])
    /\ f[n] = Run(units, d, keys)

LEMMA RunOf ==
    ASSUME NEW units, NEW d, NEW n \in Nat, NEW keys, DOMAIN keys = 1..n
    PROVE  \E f : IsRun(f, units, d, keys, n)
<1> DEFINE value(it, s) ==
               IF s = {} THEN Start(units)
               ELSE Entered(it[s \ {Max(s)}], keys[Max(s)], d[keys[Max(s)]])
           body(it) == [s \in SUBSET (1..n) |-> value(it, s)]
           I == CHOOSE it : it = body(it)
           Table(k, h) == h = [s \in SUBSET (1..k) |-> value(h, s)]
<1>1. Run(units, d, keys) = I[1..n]
    BY DEF Run, FoldLeft, MapThenFoldSet
<1>2. \A k \in Nat : \E h : Table(k, h)
    <2> DEFINE S == {k \in Nat : \E h : Table(k, h)}
    <2>1. 0 \in S
        <3>1. Table(0, [s \in SUBSET (1..0) |-> Start(units)])
            OBVIOUS
        <3> QED
            BY <3>1
    <2>2. ASSUME NEW k \in Nat, k \in S PROVE k + 1 \in S
        <3>1. PICK h : Table(k, h)
            BY <2>2
        <3> DEFINE j == [s \in SUBSET (1..(k + 1)) |->
                            IF k + 1 \in s
                            THEN Entered(h[s \ {k + 1}], keys[k + 1], d[keys[k + 1]])
                            ELSE h[s]]
        <3>2. ASSUME NEW s \in SUBSET (1..(k + 1)) PROVE j[s] = value(j, s)
            <4>1. CASE k + 1 \in s
                <5>1. Max(s) = k + 1
                    BY <4>1, MaxOfFirst
                <5>2. s \ {k + 1} \in SUBSET (1..(k + 1)) /\ k + 1 \notin s \ {k + 1}
                    OBVIOUS
                <5> HIDE DEF value
                <5>3. j[s \ {k + 1}] = h[s \ {k + 1}]
                    BY <5>2
                <5> QED
                    BY <4>1, <5>1, <5>3 DEF value
            <4>2. CASE k + 1 \notin s
                <5>1. s \in SUBSET (1..k)
                    BY <4>2
                <5>2. CASE s = {}
                    BY <3>1, <4>2, <5>1, <5>2
                <5>3. CASE s # {}
                    <6>1. s \ {Max(s)} \in SUBSET (1..k)
                        BY <5>1
                    <6>2. j[s \ {Max(s)}] = h[s \ {Max(s)}]
                        BY <6>1
                    <6>3. h[s] = value(h, s)
                        BY <3>1, <5>1
                    <6> QED
                        BY <4>2, <5>3, <6>2, <6>3
                <5> QED
                    BY <5>2, <5>3
            <4> QED
                BY <4>1, <4>2
        <3>3. Table(k + 1, j)
            <4> HIDE DEF value
            <4> QED
                BY <3>2
        <3> HIDE DEF j, Table
        <3> QED
            BY <3>3
    <2> HIDE DEF S, Table
    <2>3. Nat \subseteq S
        BY <2>1, <2>2, InductionOnSet
    <2> QED
        BY <2>3 DEF S
<1> HIDE DEF value
<1>3. I = body(I)
    <2>1. PICK h : Table(n, h)
        BY <1>2
    <2>2. h = body(h)
        BY <2>1
    <2> HIDE DEF body
    <2> QED
        BY <2>2
<1> HIDE DEF I
<1> DEFINE f == [i \in 0..n |-> I[1..i]]
<1>4. f[0] = Start(units) /\ f[n] = Run(units, d, keys)
    BY <1>1, <1>3 DEF value
<1>5. ASSUME NEW i \in 1..n PROVE f[i] = Entered(f[i - 1], keys[i], d[keys[i]])
    <2>1. 1..i \in SUBSET (1..n) /\ 1..i # {} /\ Max(1..i) = i
        BY MaxOfFirst
    <2>2. (1..i) \ {i} = 1..(i - 1) /\ i - 1 \in 0..n
        OBVIOUS
    <2>3. I[1..i] = value(I, 1..i)
        BY <1>3, <2>1
    <2>4. value(I, 1..i) = Entered(I[1..(i - 1)], keys[i], d[keys[i]])
        BY <2>1, <2>2 DEF value
    <2>5. f[i] = I[1..i] /\ f[i - 1] = I[1..(i - 1)]
        BY <2>2
    <2> HIDE DEF f
    <2> QED
        BY <2>3, <2>4, <2>5
<1> HIDE DEF f
<1>6. IsRun(f, units, d, keys, n)
    BY <1>4, <1>5 DEF IsRun
<1> QED
    BY <1>6

-----------------------------------------------------------------------------
(* Sets in their order *)

\* A strict and total order of a set, as a set of pairs.
Orders(R, S) ==
    /\ \A x \in S : <<x, x>> \notin R
    /\ \A x, y \in S : x # y => <<x, y>> \in R \/ <<y, x>> \in R
    /\ \A x, y, z \in S : <<x, y>> \in R /\ <<y, z>> \in R => <<x, z>> \in R

\* What Listed makes of a set: each place has an element with as many below it,
\* if there is one.
Lists(list, S, R) ==
    /\ \E V : list \in [1..Cardinality(S) -> V]
    /\ \A i \in 1..Cardinality(S) : \A x \in S :
          Cardinality({y \in S : <<y, x>> \in R}) = i - 1
             => /\ list[i] \in S
                /\ Cardinality({y \in S : <<y, list[i]>> \in R}) = i - 1

\* Such a list has every element of the set once, in the order.
LEMMA ListedIs ==
    ASSUME NEW S, IsFiniteSet(S), NEW R, Orders(R, S), NEW list, Lists(list, S, R)
    PROVE  /\ list \in Seq(S) /\ Len(list) = Cardinality(S) /\ ToSet(list) = S
           /\ \A i, j \in 1..Len(list) : list[i] = list[j] => i = j
           /\ \A i, j \in 1..Len(list) : i < j => <<list[i], list[j]>> \in R
<1> DEFINE n == Cardinality(S)
           below(x) == {y \in S : <<y, x>> \in R}
           rank == [x \in S |-> Cardinality(below(x)) + 1]
<1>1. n \in Nat
    BY FS_CardinalityType
<1> /\ \A x \in S : <<x, x>> \notin R
    /\ \A x, y \in S : x # y => <<x, y>> \in R \/ <<y, x>> \in R
    /\ \A x, y, z \in S : <<x, y>> \in R /\ <<y, z>> \in R => <<x, z>> \in R
    BY DEF Orders
<1>2. ASSUME NEW x \in S
      PROVE  IsFiniteSet(below(x)) /\ Cardinality(below(x)) \in Nat /\ Cardinality(below(x)) < n
    <2>1. below(x) \in SUBSET (S \ {x}) /\ IsFiniteSet(S \ {x}) /\ Cardinality(S \ {x}) = n - 1
        BY FS_RemoveElement
    <2> HIDE DEF n, below
    <2>2. IsFiniteSet(below(x)) /\ Cardinality(below(x)) <= n - 1
        BY <2>1, FS_Subset
    <2>3. Cardinality(below(x)) \in Nat
        BY <2>2, FS_CardinalityType
    <2> QED
        BY <1>1, <2>2, <2>3
<1>3. ASSUME NEW x \in S, NEW y \in S, <<x, y>> \in R
      PROVE  Cardinality(below(x)) < Cardinality(below(y))
    <2>1. below(x) \in SUBSET below(y) /\ x \in below(y) /\ x \notin below(x)
        BY <1>3
    <2> HIDE DEF below
    <2>2. Cardinality(below(x)) <= Cardinality(below(y))
          /\ Cardinality(below(x)) # Cardinality(below(y))
        BY <1>2, <2>1, FS_Subset
    <2> QED
        BY <1>2, <2>2
<1> HIDE DEF below, n
<1>4. rank \in [S -> 1..n]
    BY <1>1, <1>2
<1>5. ASSUME NEW x \in S, NEW y \in S, rank[x] = rank[y] PROVE x = y
    <2>1. Cardinality(below(x)) = Cardinality(below(y))
        BY <1>2, <1>5
    <2>2. Cardinality(below(x)) \in Nat
        BY <1>2
    <2>3. <<x, y>> \notin R /\ <<y, x>> \notin R
        BY <1>3, <2>1, <2>2
    <2> QED
        BY <2>3
<1>6. rank \in Injection(S, 1..n)
    BY <1>4, <1>5 DEF Injection, IsInjective
<1>7. rank \in Surjection(S, 1..n)
    <2>1. IsFiniteSet(1..n) /\ Cardinality(1..n) = n
        BY <1>1, FS_Interval
    <2>2. Cardinality(S) = Cardinality(1..n)
        BY <2>1 DEF n
    <2> QED
        BY <1>6, <2>1, <2>2, FS_Injection
<1>8. ASSUME NEW i \in 1..n PROVE list[i] \in S /\ rank[list[i]] = i
    <2>1. \E x \in S : rank[x] = i
        BY <1>7 DEF Surjection
    <2>2. \E x \in S : Cardinality(below(x)) = i - 1
        BY <1>2, <2>1
    <2>3. list[i] \in S /\ Cardinality(below(list[i])) = i - 1
        BY <2>2 DEF below, n, Lists
    <2> QED
        BY <1>2, <2>3
<1>13. ASSUME NEW x \in S, NEW y \in S, rank[x] < rank[y] PROVE <<x, y>> \in R
    <2>1. Cardinality(below(x)) \in Nat /\ Cardinality(below(y)) \in Nat
          /\ Cardinality(below(x)) < Cardinality(below(y))
        BY <1>2, <1>13
    <2>2. x # y /\ <<y, x>> \notin R
        BY <1>3, <2>1
    <2> QED
        BY <2>2
<1> HIDE DEF rank
<1>9. list \in [1..n -> S] /\ DOMAIN list = 1..n
    <2>1. PICK V : list \in [1..n -> V]
        BY DEF n, Lists
    <2> QED
        BY <1>8, <2>1
<1>10. list \in Seq(S) /\ Len(list) = n
    BY <1>1, <1>9
<1>11. \A i, j \in 1..n : list[i] = list[j] => i = j
    BY <1>8
<1>14. \A i, j \in 1..n : i < j => <<list[i], list[j]>> \in R
    BY <1>8, <1>13
<1>12. ToSet(list) = S
    <2>1. ASSUME NEW x \in S PROVE x \in ToSet(list)
        <3>1. rank[x] \in 1..n
            BY <1>4
        <3>2. rank[list[rank[x]]] = rank[x] /\ list[rank[x]] \in S
            BY <1>8, <3>1
        <3>3. list[rank[x]] = x
            BY <1>5, <3>2
        <3> QED
            BY <1>9, <3>1, <3>3 DEF ToSet
    <2>2. ASSUME NEW x \in ToSet(list) PROVE x \in S
        BY <1>9 DEF ToSet
    <2> QED
        BY <2>1, <2>2
<1> QED
    BY <1>10, <1>11, <1>12, <1>14 DEF n

\* The keys of a kind.
LEMMA KeysWithIs ==
    ASSUME NEW d, NEW kind
    PROVE  LET s == KeysWith(d, kind) IN
           /\ s \in Seq(Key)
           /\ ToSet(s) = {k \in Key : d[k].kind = kind}
           /\ \A i, j \in 1..Len(s) : s[i] = s[j] => i = j
<1> DEFINE S == {k \in Key : d[k].kind = kind}
           R == {p \in Key \X Key : p[1] < p[2]}
           list == KeysWith(d, kind)
<1>1. IsFiniteSet(S)
    BY FS_Subset, KeysAreFinite
<1>2. \A x, y \in S : <<x, y>> \in R <=> x < y
    OBVIOUS
<1>3. \A x \in S : {y \in S : <<y, x>> \in R} = {y \in S : y < x}
    BY <1>2
<1>4. list = [i \in 1..Cardinality(S) |->
                  CHOOSE x \in S : Cardinality({y \in S : y < x}) = i - 1]
    BY DEF KeysWith, Listed
<1>5. S \subseteq Int
    BY Ordered
<1>6. /\ \A x \in S : <<x, x>> \notin R
      /\ \A x, y \in S : x # y => <<x, y>> \in R \/ <<y, x>> \in R
      /\ \A x, y, z \in S : <<x, y>> \in R /\ <<y, z>> \in R => <<x, z>> \in R
    BY <1>2, <1>5
<1> HIDE DEF R, S, list
<1>7. ASSUME NEW i \in 1..Cardinality(S), NEW x \in S,
             Cardinality({y \in S : <<y, x>> \in R}) = i - 1
      PROVE  /\ list[i] \in S
             /\ Cardinality({y \in S : <<y, list[i]>> \in R}) = i - 1
    <2>1. Cardinality({y \in S : y < x}) = i - 1
        BY <1>3, <1>7
    <2>2. list[i] = CHOOSE z \in S : Cardinality({y \in S : y < z}) = i - 1
        BY <1>4
    <2>3. list[i] \in S /\ Cardinality({y \in S : y < list[i]}) = i - 1
        BY <2>1, <2>2
    <2> QED
        BY <1>3, <2>3
<1>8. PICK V : list \in [1..Cardinality(S) -> V]
    <2> DEFINE V == {CHOOSE x \in S : Cardinality({y \in S : y < x}) = i - 1 :
                        i \in 1..Cardinality(S)}
    <2>1. list \in [1..Cardinality(S) -> V]
        BY <1>4
    <2> HIDE DEF V
    <2> QED
        BY <2>1
<1>12. Orders(R, S) /\ Lists(list, S, R)
    BY <1>6, <1>7, <1>8 DEF Orders, Lists
<1>9. /\ list \in Seq(S) /\ Len(list) = Cardinality(S) /\ ToSet(list) = S
      /\ \A i, j \in 1..Len(list) : list[i] = list[j] => i = j
    BY <1>1, <1>12, ListedIs
<1>10. S \subseteq Key
    BY DEF S
<1>11. list \in Seq(Key)
    BY <1>9, <1>10
<1> QED
    BY <1>9, <1>11 DEF S, list

\* Every key that a delta does something to is entered once.
LEMMA EntriesAre ==
    ASSUME NEW d
    PROVE  /\ EntriesOf(d) \in Seq(Key)
           /\ ToSet(EntriesOf(d)) = {k \in Key : d[k].kind \in {"add", "remove", "modify"}}
           /\ \A i, j \in 1..Len(EntriesOf(d)) : EntriesOf(d)[i] = EntriesOf(d)[j] => i = j
<1> DEFINE a == KeysWith(d, "add")
           r == KeysWith(d, "remove")
           m == KeysWith(d, "modify")
<1>1. /\ a \in Seq(Key) /\ ToSet(a) = {k \in Key : d[k].kind = "add"}
      /\ \A i, j \in 1..Len(a) : a[i] = a[j] => i = j
      /\ r \in Seq(Key) /\ ToSet(r) = {k \in Key : d[k].kind = "remove"}
      /\ \A i, j \in 1..Len(r) : r[i] = r[j] => i = j
      /\ m \in Seq(Key) /\ ToSet(m) = {k \in Key : d[k].kind = "modify"}
      /\ \A i, j \in 1..Len(m) : m[i] = m[j] => i = j
    BY KeysWithIs
<1> HIDE DEF a, r, m
<1>5. ToSet(a) \cap ToSet(r) = {} /\ (ToSet(a) \cup ToSet(r)) \cap ToSet(m) = {}
    BY <1>1
<1>2. /\ a \o r \in Seq(Key) /\ ToSet(a \o r) = ToSet(a) \cup ToSet(r)
    BY <1>1, ElementsOfConcat
<1>3. \A i, j \in 1..Len(a \o r) : (a \o r)[i] = (a \o r)[j] => i = j
    <2>1. /\ a \in Seq(Key) /\ \A i, j \in 1..Len(a) : a[i] = a[j] => i = j
          /\ r \in Seq(Key) /\ \A i, j \in 1..Len(r) : r[i] = r[j] => i = j
          /\ ToSet(a) \cap ToSet(r) = {}
        BY <1>1, <1>5
    <2> QED
        BY <2>1, ConcatIsDistinct, SMTT(30)
<1> DEFINE ar == a \o r
<1> HIDE DEF ar
<1>6. ar \o m \in Seq(Key) /\ ToSet(ar \o m) = ToSet(ar) \cup ToSet(m)
    <2>1. ar \in Seq(Key)
        BY <1>2 DEF ar
    <2> QED
        BY <1>1, <2>1, ElementsOfConcat
<1>7. \A i, j \in 1..Len(ar \o m) : (ar \o m)[i] = (ar \o m)[j] => i = j
    <2>1. ar \in Seq(Key) /\ \A i, j \in 1..Len(ar) : ar[i] = ar[j] => i = j
        BY <1>2, <1>3 DEF ar
    <2>2. ToSet(ar) \cap ToSet(m) = {}
        BY <1>2, <1>5 DEF ar
    <2>3. m \in Seq(Key) /\ \A i, j \in 1..Len(m) : m[i] = m[j] => i = j
        BY <1>1
    <2> QED
        BY <2>1, <2>2, <2>3, ConcatIsDistinct, SMTT(30)
<1>4. EntriesOf(d) = ar \o m
    BY DEF EntriesOf, a, r, m, ar
<1>8. ToSet(ar \o m) = {k \in Key : d[k].kind \in {"add", "remove", "modify"}}
    BY <1>1, <1>2, <1>6 DEF ar
<1> QED
    BY <1>4, <1>6, <1>7, <1>8

-----------------------------------------------------------------------------
(* Units with unique keys *)

\* A sequence of units, of keys of the domain and of any values.
IsUnits(u) == \E V : u \in Seq([key: Key, value: V])

\* The values of the units of a key: none, or one where keys are unique.
Vals(u, k) == {u[i].value : i \in {j \in DOMAIN u : u[j].key = k}}

LEMMA UnitsType ==
    ASSUME NEW u, IsUnits(u)
    PROVE  /\ Len(u) \in Nat /\ DOMAIN u = 1..Len(u)
           /\ \A i \in 1..Len(u) : u[i].key \in Key
<1>1. PICK V : u \in Seq([key: Key, value: V])
    BY DEF IsUnits
<1> DEFINE W == [key: Key, value: V]
<1> HIDE DEF W
<1>2. Len(u) \in Nat /\ DOMAIN u = 1..Len(u) /\ \A i \in 1..Len(u) : u[i] \in W
    BY <1>1, LenProperties DEF W
<1>3. \A x \in W : x.key \in Key
    BY DEF W
<1> QED
    BY <1>2, <1>3

LEMMA UnitsAreUnits ==
    ASSUME NEW u \in Seq(Unit)
    PROVE  IsUnits(u)
<1>1. Unit \subseteq [key: Key, value: Value]
    BY DEF Unit
<1>2. u \in Seq([key: Key, value: Value])
    BY <1>1, SeqOfMore
<1> QED
    BY <1>2 DEF IsUnits

LEMMA ValsIs ==
    ASSUME NEW u, NEW k, NEW v
    PROVE  v \in Vals(u, k) <=> \E i \in DOMAIN u : u[i].key = k /\ u[i].value = v
BY DEF Vals

LEMMA NoUnits ==
    ASSUME NEW u, NEW k
    PROVE  UnitsOf(u, k) = {} <=> Vals(u, k) = {}
BY DEF UnitsOf, Vals

LEMMA UnitAppended ==
    ASSUME NEW u, IsUnits(u), NEW k \in Key, NEW v, Vals(u, k) = {}
    PROVE  LET w == Append(u, [key |-> k, value |-> v]) IN
           /\ IsUnits(w) /\ (KeysUnique(u) => KeysUnique(w))
           /\ Vals(w, k) = {v} /\ \A j \in Key \ {k} : Vals(w, j) = Vals(u, j)
<1> DEFINE e == [key |-> k, value |-> v]
           w == Append(u, e)
<1>1. PICK V : u \in Seq([key: Key, value: V])
    BY DEF IsUnits
<1>2. [key: Key, value: V] \subseteq [key: Key, value: V \cup {v}]
    OBVIOUS
<1>3. u \in Seq([key: Key, value: V \cup {v}]) /\ e \in [key: Key, value: V \cup {v}]
    <2>1. e \in [key: Key, value: V \cup {v}]
        OBVIOUS
    <2> QED
        BY <1>1, <1>2, <2>1, SeqOfMore
<1>4. e.key = k /\ e.value = v
    OBVIOUS
<1> HIDE DEF e
<1>5. /\ w \in Seq([key: Key, value: V \cup {v}]) /\ Len(w) = Len(u) + 1
      /\ \A i \in 1..Len(u) : w[i] = u[i]
      /\ w[Len(u) + 1] = e
    BY <1>3, AppendProperties
<1>6. DOMAIN u = 1..Len(u) /\ DOMAIN w = 1..(Len(u) + 1) /\ Len(u) \in Nat
    BY <1>1, <1>5, LenProperties
<1>7. \A i \in 1..Len(u) : u[i].key # k
    BY <1>6 DEF Vals
<1> HIDE DEF w
<1>8. IsUnits(w)
    BY <1>5 DEF IsUnits
<1>9. KeysUnique(u) => KeysUnique(w)
    <2> SUFFICES ASSUME KeysUnique(u),
                        NEW i \in 1..(Len(u) + 1), NEW j \in 1..(Len(u) + 1),
                        w[i].key = w[j].key
                 PROVE  i = j
        BY <1>6 DEF KeysUnique
    <2>1. CASE i <= Len(u) /\ j <= Len(u)
        BY <1>5, <1>6, <2>1 DEF KeysUnique
    <2>2. CASE i = Len(u) + 1 \/ j = Len(u) + 1
        BY <1>4, <1>5, <1>6, <1>7, <2>2
    <2> QED
        BY <1>6, <2>1, <2>2
<1>10. ASSUME NEW j \in Key, NEW x
       PROVE  x \in Vals(w, j) <=> x \in Vals(u, j) \/ (j = k /\ x = v)
    <2>1. \A i \in DOMAIN w : i \in DOMAIN u \/ i = Len(u) + 1
        BY <1>6
    <2>2. DOMAIN u \subseteq DOMAIN w /\ Len(u) + 1 \in DOMAIN w
        BY <1>6
    <2>3. \A i \in DOMAIN u : w[i] = u[i]
        BY <1>5, <1>6
    <2> QED
        BY <1>4, <1>5, <2>1, <2>2, <2>3, ValsIs
<1>11. Vals(w, k) = {v} /\ \A j \in Key \ {k} : Vals(w, j) = Vals(u, j)
    BY <1>10
<1> QED
    BY <1>8, <1>9, <1>11 DEF w, e

LEMMA UnitRemoved ==
    ASSUME NEW u, IsUnits(u), NEW n \in DOMAIN u
    PROVE  LET w == RemoveAt(u, n) IN
           /\ IsUnits(w)
           /\ KeysUnique(u) => KeysUnique(w) /\ Vals(w, u[n].key) = {}
           /\ \A j \in Key \ {u[n].key} : Vals(w, j) = Vals(u, j)
<1> DEFINE w == RemoveAt(u, n)
<1>1. PICK V : u \in Seq([key: Key, value: V])
    BY DEF IsUnits
<1>2. Len(u) \in Nat /\ DOMAIN u = 1..Len(u)
    BY <1>1, LenProperties
<1>3. /\ w \in Seq([key: Key, value: V]) /\ Len(w) = Len(u) - 1
      /\ \A j \in 1..(Len(u) - 1) : w[j] = IF j < n THEN u[j] ELSE u[j + 1]
    BY <1>1, <1>2, RemoveAtProperties
<1>4. DOMAIN w = 1..(Len(u) - 1)
    BY <1>2, <1>3, LenProperties
<1> HIDE DEF w
<1> DEFINE at(j) == IF j < n THEN j ELSE j + 1
<1>5. \A j \in DOMAIN w : at(j) \in DOMAIN u /\ at(j) # n /\ w[j] = u[at(j)]
    BY <1>2, <1>3, <1>4
<1>6. \A i, j \in DOMAIN w : at(i) = at(j) => i = j
    BY <1>2, <1>4
<1>7. \A i \in DOMAIN u : i # n => \E j \in DOMAIN w : at(j) = i
    <2> TAKE i \in DOMAIN u
    <2> HAVE i # n
    <2>1. CASE i < n
        BY <1>2, <1>4, <2>1
    <2>2. CASE i > n
        <3>1. i - 1 \in DOMAIN w /\ at(i - 1) = i
            BY <1>2, <1>4, <2>2
        <3> QED
            BY <3>1
    <2> QED
        BY <1>2, <2>1, <2>2
<1> HIDE DEF at
<1>8. IsUnits(w)
    BY <1>3 DEF IsUnits
<1>9. KeysUnique(u) => KeysUnique(w)
    BY <1>5, <1>6 DEF KeysUnique
<1>12. KeysUnique(u) => Vals(w, u[n].key) = {}
    <2> SUFFICES ASSUME KeysUnique(u) PROVE Vals(w, u[n].key) = {}
        OBVIOUS
    <2>1. \A i \in DOMAIN u : u[i].key = u[n].key => i = n
        BY DEF KeysUnique
    <2>2. \A j \in DOMAIN w : w[j].key # u[n].key
        BY <1>5, <2>1
    <2> QED
        BY <2>2 DEF Vals
<1>13. ASSUME NEW j \in Key \ {u[n].key}, NEW x
       PROVE  x \in Vals(w, j) <=> x \in Vals(u, j)
    BY <1>5, <1>7, <1>13, ValsIs
<1> QED
    BY <1>8, <1>9, <1>12, <1>13 DEF w

Updated(u, n, v) == [u EXCEPT ![n] = [key |-> u[n].key, value |-> v]]

\* Units that differ from others at a key only.
OnlyAt(u, w, k, vals) ==
    /\ IsUnits(w)
    /\ KeysUnique(u) => KeysUnique(w) /\ Vals(w, k) = vals
    /\ \A j \in Key \ {k} : Vals(w, j) = Vals(u, j)

LEMMA UnitChanged ==
    ASSUME NEW u, IsUnits(u), NEW n \in DOMAIN u, NEW k, u[n].key = k, NEW v
    PROVE  OnlyAt(u, Updated(u, n, v), k, {v})
<1> DEFINE w == Updated(u, n, v)
<1>1. PICK V : u \in Seq([key: Key, value: V])
    BY DEF IsUnits
<1>2. Len(u) \in Nat /\ DOMAIN u = 1..Len(u) /\ \A i \in 1..Len(u) : u[i] \in [key: Key, value: V]
    BY <1>1, LenProperties
<1>3. [key: Key, value: V] \subseteq [key: Key, value: V \cup {v}]
    OBVIOUS
<1> DEFINE W == [key: Key, value: V \cup {v}]
<1>4. u \in Seq(W)
    BY <1>1, <1>3, SeqOfMore
<1> DEFINE e == [key |-> u[n].key, value |-> v]
<1>5. e \in W
    BY <1>2
<1>6. w = [u EXCEPT ![n] = e]
    BY DEF Updated
<1> HIDE DEF W
<1>7. w \in Seq(W) /\ DOMAIN w = DOMAIN u
    BY <1>2, <1>4, <1>5, <1>6, ExceptSeq
<1>8. IsUnits(w)
    BY <1>7 DEF IsUnits, W
<1>9. /\ \A i \in DOMAIN u : w[i].key = u[i].key
      /\ \A i \in DOMAIN u \ {n} : w[i] = u[i]
      /\ w[n].value = v
    BY <1>2, <1>6
<1> HIDE DEF w
<1>14. DOMAIN w = DOMAIN u /\ u[n].key = k /\ w[n].value = v
       /\ (\A i \in DOMAIN u : w[i].key = u[i].key)
       /\ \A i \in DOMAIN u : i # n => w[i].value = u[i].value
    BY <1>7, <1>9
<1>10. KeysUnique(u) => KeysUnique(w)
    BY <1>7, <1>9 DEF KeysUnique
<1>12. KeysUnique(u) => Vals(w, k) = {v}
    <2> SUFFICES ASSUME KeysUnique(u) PROVE Vals(w, k) = {v}
        OBVIOUS
    <2>1. \A i \in DOMAIN u : u[i].key = k => i = n
        BY DEF KeysUnique
    <2>2. ASSUME NEW x PROVE x \in Vals(w, k) <=> x = v
        BY <1>14, <2>1, ValsIs
    <2> QED
        BY <2>2
<1>13. ASSUME NEW j \in Key \ {k}, NEW x
       PROVE  x \in Vals(w, j) <=> x \in Vals(u, j)
    <2>1. \A i \in DOMAIN u : u[i].key = j => i # n
        BY <1>13, <1>14
    <2> QED
        BY <1>14, <2>1, ValsIs
<1> QED
    BY <1>8, <1>10, <1>12, <1>13 DEF OnlyAt, w

-----------------------------------------------------------------------------
(* What applyDelta makes of each key *)

\* The values of a key after its entry, and the codes of the entry's conflicts.
Effected(vals, effect) ==
    CASE effect.kind = "add"    -> IF vals = {} THEN {effect.value} ELSE vals
      [] effect.kind = "remove" -> {}
      [] effect.kind = "modify" -> {ApplyChanges(v, effect.changes) : v \in vals}
      [] OTHER                  -> vals

Misfits(vals, effect) ==
    CASE effect.kind = "add"    -> IF vals # {} THEN {"E_ADD_EXISTS"} ELSE {}
      [] effect.kind = "remove" -> IF vals = {} THEN {"E_REMOVE_MISSING"} ELSE {}
      [] effect.kind = "modify" -> IF vals = {} THEN {"E_MODIFY_MISSING"} ELSE {}
      [] OTHER                  -> {}

\* Units of a key with these values have that key.
Kept(vals, k) == \A v \in vals : KeyOf(k, v) = k

\* The delta leaves every unit its key.
KeptBy(u, d) == \A k \in Key : Kept(Effected(Vals(u, k), d[k]), k)

LEMMA AtIs ==
    ASSUME NEW u, IsUnits(u), NEW k, UnitsOf(u, k) # {}
    PROVE  At(u, k) \in DOMAIN u /\ u[At(u, k)].key = k
<1> DEFINE S == {i \in DOMAIN u : u[i].key = k}
           n == Len(u)
<1>1. n \in Nat /\ DOMAIN u = 1..n
    BY UnitsType
<1>2. S \in SUBSET (1..n) /\ S # {}
    BY <1>1 DEF UnitsOf
<1> HIDE DEF n
<1>3. Max(S) \in S /\ \A y \in S : Max(S) >= y
    BY <1>1, <1>2, MaxOf
<1> DEFINE m == Max(S)
<1> HIDE DEF m
<1>4. m \in DOMAIN u /\ u[m].key = k /\ \A y \in DOMAIN u : u[y].key = k => y <= m
    <2>1. m \in S /\ \A y \in S : m >= y
        BY <1>3 DEF m
    <2>2. m \in Nat /\ \A y \in S : y \in Nat
        BY <1>1, <1>2, <2>1
    <2> QED
        BY <2>1, <2>2
<1> QED
    BY <1>4 DEF At

\* What an entry does to its key and to the others.
EntryDone(u, c, w, k, effect) ==
    /\ w = [units |-> w.units, conflicts |-> w.conflicts]
    /\ IsUnits(w.units)
    /\ KeysUnique(u) => /\ KeysUnique(w.units)
                        /\ Vals(w.units, k) = Effected(Vals(u, k), effect)
    /\ \A j \in Key \ {k} : Vals(w.units, j) = Vals(u, j)
    /\ w.conflicts = c \cup {<<code, k>> : code \in Misfits(Vals(u, k), effect)}

LEMMA EnteredIs ==
    ASSUME NEW u, IsUnits(u), NEW c, NEW k \in Key, NEW effect,
           effect.kind \in {"add", "remove", "modify"},
           Kept(Effected(Vals(u, k), effect), k)
    PROVE  EntryDone(u, c, Entered([units |-> u, conflicts |-> c], k, effect), k, effect)
<1> DEFINE r == [units |-> u, conflicts |-> c]
<1>1. r.units = u /\ r.conflicts = c
    OBVIOUS
<1>2. \A code : Conflict(r, code, k) = [units |-> u, conflicts |-> c \cup {<<code, k>>}]
    BY DEF Conflict
<1>3. UnitsOf(u, k) = {} <=> Vals(u, k) = {}
    BY NoUnits
<1>4. CASE effect.kind = "add"
    <2>1. Entered(r, k, effect) = Added(r, k, effect)
        BY <1>4 DEF Entered
    <2>2. CASE Vals(u, k) = {}
        <3> DEFINE w == Append(u, [key |-> k, value |-> effect.value])
        <3>5. KeyOf(k, effect.value) = k
            BY <1>4, <2>2 DEF Kept, Effected
        <3>1. Added(r, k, effect) = [units |-> w, conflicts |-> c]
            BY <1>1, <1>3, <2>2, <3>5 DEF Added
        <3>2. /\ IsUnits(w) /\ (KeysUnique(u) => KeysUnique(w)) /\ Vals(w, k) = {effect.value}
              /\ \A j \in Key \ {k} : Vals(w, j) = Vals(u, j)
            BY <2>2, UnitAppended
        <3>3. Effected(Vals(u, k), effect) = {effect.value} /\ Misfits(Vals(u, k), effect) = {}
            BY <1>4, <2>2 DEF Effected, Misfits
        <3> HIDE DEF w
        <3>4. EntryDone(u, c, [units |-> w, conflicts |-> c], k, effect)
            BY <3>2, <3>3 DEF EntryDone
        <3> QED
            BY <2>1, <3>1, <3>4
    <2>3. CASE Vals(u, k) # {}
        <3>1. Added(r, k, effect) = [units |-> u, conflicts |-> c \cup {<<"E_ADD_EXISTS", k>>}]
            BY <1>1, <1>2, <1>3, <2>3 DEF Added
        <3>2. Effected(Vals(u, k), effect) = Vals(u, k)
              /\ Misfits(Vals(u, k), effect) = {"E_ADD_EXISTS"}
            BY <1>4, <2>3 DEF Effected, Misfits
        <3>3. EntryDone(u, c, [units |-> u, conflicts |-> c \cup {<<"E_ADD_EXISTS", k>>}],
                        k, effect)
            BY <3>2 DEF EntryDone
        <3> QED
            BY <2>1, <3>1, <3>3
    <2> QED
        BY <2>2, <2>3
<1>5. CASE effect.kind = "remove"
    <2>1. Entered(r, k, effect) = Removed(r, k)
        BY <1>5 DEF Entered
    <2>2. CASE Vals(u, k) # {}
        <3> DEFINE n == At(u, k)
        <3>1. n \in DOMAIN u /\ u[n].key = k
            BY <1>3, <2>2, AtIs
        <3> DEFINE w == RemoveAt(u, n)
        <3>2. Removed(r, k) = [units |-> w, conflicts |-> c]
            BY <1>1, <1>3, <2>2 DEF Removed
        <3> HIDE DEF n
        <3>3. /\ IsUnits(w) /\ (KeysUnique(u) => KeysUnique(w) /\ Vals(w, k) = {})
              /\ \A j \in Key \ {k} : Vals(w, j) = Vals(u, j)
            BY <3>1, UnitRemoved
        <3>4. Effected(Vals(u, k), effect) = {} /\ Misfits(Vals(u, k), effect) = {}
            BY <1>5, <2>2 DEF Effected, Misfits
        <3> HIDE DEF w
        <3>5. EntryDone(u, c, [units |-> w, conflicts |-> c], k, effect)
            BY <3>3, <3>4 DEF EntryDone
        <3> QED
            BY <2>1, <3>2, <3>5
    <2>3. CASE Vals(u, k) = {}
        <3>1. Removed(r, k) = [units |-> u, conflicts |-> c \cup {<<"E_REMOVE_MISSING", k>>}]
            BY <1>1, <1>2, <1>3, <2>3 DEF Removed
        <3>2. Effected(Vals(u, k), effect) = Vals(u, k)
              /\ Misfits(Vals(u, k), effect) = {"E_REMOVE_MISSING"}
            BY <1>5, <2>3 DEF Effected, Misfits
        <3>3. EntryDone(u, c, [units |-> u, conflicts |-> c \cup {<<"E_REMOVE_MISSING", k>>}],
                        k, effect)
            BY <3>2 DEF EntryDone
        <3> QED
            BY <2>1, <3>1, <3>3
    <2> QED
        BY <2>2, <2>3
<1>6. CASE effect.kind = "modify"
    <2>1. Entered(r, k, effect) = Modified(r, k, effect)
        BY <1>6 DEF Entered
    <2>2. CASE Vals(u, k) # {}
        <3> DEFINE n == At(u, k)
        <3>1. n \in DOMAIN u /\ u[n].key = k
            BY <1>3, <2>2, AtIs
        <3> DEFINE v == ApplyChanges(u[n].value, effect.changes)
                   w == Updated(u, n, v)
        <3>2. Modified(r, k, effect) = [units |-> w, conflicts |-> c]
            <4>3. v \in Effected(Vals(u, k), effect)
                <5>1. u[n].value \in Vals(u, k)
                    BY <3>1, ValsIs
                <5> QED
                    BY <1>6, <5>1 DEF Effected
            <4>4. KeyOf(k, v) = k
                BY <4>3 DEF Kept
            <4>1. Modified(r, k, effect)
                  = [r EXCEPT !.units[n] = [key |-> KeyOf(k, v), value |-> v]]
                BY <1>1, <1>3, <2>2, <4>4 DEF Modified
            <4> HIDE DEF n, v
            <4>2. [r EXCEPT !.units[n] = [key |-> k, value |-> v]]
                  = [units |-> w, conflicts |-> c]
                BY <3>1 DEF Updated
            <4> QED
                BY <4>1, <4>2, <4>4
        <3> HIDE DEF n
        <3>3. KeysUnique(u) => Vals(u, k) = {u[n].value}
            <4> SUFFICES ASSUME KeysUnique(u) PROVE Vals(u, k) = {u[n].value}
                OBVIOUS
            <4>1. \A i \in DOMAIN u : u[i].key = k => i = n
                BY <3>1 DEF KeysUnique
            <4>2. ASSUME NEW x PROVE x \in Vals(u, k) <=> x = u[n].value
                BY <3>1, <4>1, ValsIs
            <4> QED
                BY <4>2
        <3>4. (KeysUnique(u) => Effected(Vals(u, k), effect) = {v})
              /\ Misfits(Vals(u, k), effect) = {}
            BY <1>6, <2>2, <3>3 DEF Effected, Misfits
        <3> HIDE DEF v
        <3>5. /\ IsUnits(w) /\ (KeysUnique(u) => KeysUnique(w) /\ Vals(w, k) = {v})
              /\ \A j \in Key \ {k} : Vals(w, j) = Vals(u, j)
            <4>1. OnlyAt(u, Updated(u, n, v), k, {v})
                BY <3>1, UnitChanged
            <4> QED
                BY <4>1 DEF OnlyAt
        <3> HIDE DEF w
        <3>6. EntryDone(u, c, [units |-> w, conflicts |-> c], k, effect)
            BY <3>4, <3>5 DEF EntryDone
        <3> QED
            BY <2>1, <3>2, <3>6
    <2>3. CASE Vals(u, k) = {}
        <3>1. Modified(r, k, effect)
              = [units |-> u, conflicts |-> c \cup {<<"E_MODIFY_MISSING", k>>}]
            BY <1>1, <1>2, <1>3, <2>3 DEF Modified
        <3>2. Effected(Vals(u, k), effect) = Vals(u, k)
              /\ Misfits(Vals(u, k), effect) = {"E_MODIFY_MISSING"}
            BY <1>6, <2>3 DEF Effected, Misfits
        <3>3. EntryDone(u, c, [units |-> u, conflicts |-> c \cup {<<"E_MODIFY_MISSING", k>>}],
                        k, effect)
            BY <3>2 DEF EntryDone
        <3> QED
            BY <2>1, <3>1, <3>3
    <2> QED
        BY <2>2, <2>3
<1> QED
    BY <1>4, <1>5, <1>6

\* The state of a run after its first i entries.
Halfway(u, d, keys, i, r) ==
    LET done == {keys[m] : m \in 1..i} IN
    /\ r = [units |-> r.units, conflicts |-> r.conflicts]
    /\ IsUnits(r.units)
    /\ KeysUnique(u) => /\ KeysUnique(r.units)
                        /\ \A k \in done : Vals(r.units, k) = Effected(Vals(u, k), d[k])
    /\ \A k \in Key \ done : Vals(r.units, k) = Vals(u, k)
    /\ r.conflicts
       = UNION {{<<code, k>> : code \in Misfits(Vals(u, k), d[k])} : k \in done}

LEMMA RunKeywise ==
    ASSUME NEW u, IsUnits(u), NEW d, NEW n \in Nat, NEW keys \in [1..n -> Key],
           \A i, j \in 1..n : keys[i] = keys[j] => i = j,
           \A i \in 1..n : d[keys[i]].kind \in {"add", "remove", "modify"},
           KeptBy(u, d)
    PROVE  Halfway(u, d, keys, n, Run(u, d, keys))
<1>1. PICK f : /\ f[0] = Start(u)
               /\ \A i \in 1..n : f[i] = Entered(f[i - 1], keys[i], d[keys[i]])
               /\ f[n] = Run(u, d, keys)
    <2>1. DOMAIN keys = 1..n
        OBVIOUS
    <2>2. PICK f : IsRun(f, u, d, keys, n)
        BY <2>1, RunOf
    <2> QED
        BY <2>2 DEF IsRun
<1> DEFINE S == {i \in Nat : i <= n => Halfway(u, d, keys, i, f[i])}
<1>2. 0 \in S
    <2>1. f[0].units = u /\ f[0].conflicts = {} /\ f[0] = [units |-> u, conflicts |-> {}]
        BY <1>1 DEF Start
    <2>2. {keys[m] : m \in 1..0} = {}
        OBVIOUS
    <2> QED
        BY <2>1, <2>2 DEF Halfway
<1>3. ASSUME NEW i \in Nat, i \in S PROVE i + 1 \in S
    <2> SUFFICES ASSUME i + 1 <= n PROVE Halfway(u, d, keys, i + 1, f[i + 1])
        OBVIOUS
    <2> DEFINE r == f[i]
               w == f[i + 1]
               k == keys[i + 1]
               done == {keys[m] : m \in 1..i}
    <2>1. Halfway(u, d, keys, i, r)
        BY <1>3
    <2>2. r = [units |-> r.units, conflicts |-> r.conflicts]
          /\ IsUnits(r.units) /\ (KeysUnique(u) => KeysUnique(r.units))
        BY <2>1 DEF Halfway
    <2>3. i + 1 \in 1..n /\ k \in Key /\ d[k].kind \in {"add", "remove", "modify"}
        OBVIOUS
    <2>4. k \notin done
        BY <2>3
    <2>5. {keys[m] : m \in 1..(i + 1)} = done \cup {k}
        <3>1. 1..(i + 1) = (1..i) \cup {i + 1}
            OBVIOUS
        <3> QED
            BY <3>1
    <2>6. w = Entered(r, k, d[k])
        BY <1>1, <2>3
    <2> HIDE DEF done, k, r, w
    <2>8. /\ KeysUnique(u) => \A j \in done : Vals(r.units, j) = Effected(Vals(u, j), d[j])
          /\ \A j \in Key \ done : Vals(r.units, j) = Vals(u, j)
          /\ r.conflicts
             = UNION {{<<code, j>> : code \in Misfits(Vals(u, j), d[j])} : j \in done}
        BY <2>1 DEF Halfway, done
    <2>9. Vals(r.units, k) = Vals(u, k)
        BY <2>3, <2>4, <2>8
    <2>17. Kept(Effected(Vals(r.units, k), d[k]), k)
        BY <2>3, <2>9 DEF KeptBy
    <2>7. EntryDone(r.units, r.conflicts, w, k, d[k])
        <3>1. EntryDone(r.units, r.conflicts,
                        Entered([units |-> r.units, conflicts |-> r.conflicts], k, d[k]),
                        k, d[k])
            BY <2>2, <2>3, <2>17, EnteredIs
        <3> QED
            BY <2>2, <2>6, <3>1, Zenon
    <2>14. \A j \in Key \ {k} : Vals(w.units, j) = Vals(r.units, j)
        BY <2>7 DEF EntryDone
    <2>15. done \subseteq Key
        BY <2>3 DEF done
    <2>10. KeysUnique(u) =>
              \A j \in done \cup {k} : Vals(w.units, j) = Effected(Vals(u, j), d[j])
        <3> SUFFICES ASSUME KeysUnique(u), NEW j \in done \cup {k}
                     PROVE  Vals(w.units, j) = Effected(Vals(u, j), d[j])
            OBVIOUS
        <3>1. CASE j = k
            BY <2>2, <2>7, <2>9, <3>1 DEF EntryDone
        <3>2. CASE j # k
            BY <2>8, <2>14, <2>15, <3>2
        <3> QED
            BY <3>1, <3>2
    <2>16. \A j \in Key \ (done \cup {k}) : Vals(w.units, j) = Vals(u, j)
        BY <2>8, <2>14
    <2>11. w.conflicts = UNION {{<<code, j>> : code \in Misfits(Vals(u, j), d[j])} :
                                   j \in done \cup {k}}
        <3>1. w.conflicts = r.conflicts \cup {<<code, k>> : code \in Misfits(Vals(u, k), d[k])}
            BY <2>7, <2>9 DEF EntryDone
        <3> DEFINE A(j) == {<<code, j>> : code \in Misfits(Vals(u, j), d[j])}
        <3>2. w.conflicts = (UNION {A(j) : j \in done}) \cup A(k)
            BY <2>8, <3>1
        <3> HIDE DEF A
        <3>3. w.conflicts = UNION {A(j) : j \in done \cup {k}}
            BY <3>2
        <3> QED
            BY <3>3 DEF A
    <2>12. w = [units |-> w.units, conflicts |-> w.conflicts]
           /\ IsUnits(w.units) /\ (KeysUnique(u) => KeysUnique(w.units))
        BY <2>2, <2>7 DEF EntryDone
    <2>13. Halfway(u, d, keys, i + 1, w)
        BY <2>5, <2>10, <2>11, <2>12, <2>16 DEF Halfway
    <2> QED
        BY <2>13 DEF w
<1> HIDE DEF S
<1>4. Nat \subseteq S
    BY <1>2, <1>3, InductionOnSet
<1>5. n \in S
    BY <1>4
<1>6. Halfway(u, d, keys, n, f[n])
    BY <1>5 DEF S
<1> QED
    BY <1>1, <1>6, Zenon

\* The keys that occur twice, as detectConflicts reports them.
Duplicates(units) == {<<"E_DUPLICATE_KEY", k>> : k \in DuplicateKeys(units)}

LEMMA NothingTwice ==
    ASSUME NEW u, KeysUnique(u)
    PROVE  Duplicates(u) = {} /\ DetectConflicts(u) = SemanticConflicts(u)
<1>1. DuplicateKeys(u) = {}
    BY DEF DuplicateKeys, KeysUnique
<1>2. Duplicates(u) = {}
    BY <1>1 DEF Duplicates
<1> QED
    BY <1>2 DEF DetectConflicts, Duplicates

\* Apply reports what its entries met and the conflicts of the state they left.
LEMMA ApplyIs ==
    ASSUME NEW u, NEW d
    PROVE  LET r == Run(u, d, EntriesOf(d)) IN
           /\ Apply(u, d).units = r.units
           /\ Apply(u, d).conflicts = r.conflicts \cup DetectConflicts(r.units)
<1> DEFINE r == Run(u, d, EntriesOf(d))
<1>1. r = FoldLeft(LAMBDA s, k : Entered(s, k, d[k]),
                   [units |-> u, conflicts |-> {}], EntriesOf(d))
    BY DEF Run, Start
<1>2. Apply(u, d) = [units |-> r.units, conflicts |-> r.conflicts \cup DetectConflicts(r.units)]
    BY <1>1, Zenon DEF Apply
<1> QED
    BY <1>2

\* The run over the entries of a delta, key by key.
LEMMA RunIs ==
    ASSUME NEW u, IsUnits(u), NEW d, KeptBy(u, d)
    PROVE  LET r == Run(u, d, EntriesOf(d)) IN
           /\ IsUnits(r.units)
           /\ KeysUnique(u) =>
                /\ KeysUnique(r.units)
                /\ \A k \in Key : Vals(r.units, k) = Effected(Vals(u, k), d[k])
           /\ r.conflicts
              = UNION {{<<code, k>> : code \in Misfits(Vals(u, k), d[k])} : k \in Key}
<1> DEFINE keys == EntriesOf(d)
           n == Len(keys)
           r == Run(u, d, keys)
           done == {k \in Key : d[k].kind \in {"add", "remove", "modify"}}
<1>1. keys \in Seq(Key) /\ ToSet(keys) = done
      /\ \A i, j \in 1..n : keys[i] = keys[j] => i = j
    BY EntriesAre
<1> HIDE DEF keys
<1>2. n \in Nat /\ keys \in [1..n -> Key]
    BY <1>1, LenProperties
<1>3. {keys[m] : m \in 1..n} = done
    BY <1>1, <1>2 DEF ToSet
<1> HIDE DEF n
<1>4. \A i \in 1..n : d[keys[i]].kind \in {"add", "remove", "modify"}
    BY <1>3
<1>5. Halfway(u, d, keys, n, r)
    BY <1>1, <1>2, <1>4, RunKeywise
<1> HIDE DEF r
<1>6. IsUnits(r.units) /\ (KeysUnique(u) => KeysUnique(r.units))
    BY <1>5 DEF Halfway
<1>7. /\ KeysUnique(u) => \A k \in done : Vals(r.units, k) = Effected(Vals(u, k), d[k])
      /\ \A k \in Key \ done : Vals(r.units, k) = Vals(u, k)
      /\ r.conflicts = UNION {{<<code, k>> : code \in Misfits(Vals(u, k), d[k])} : k \in done}
    BY <1>3, <1>5 DEF Halfway
<1>8. \A k \in Key \ done : Effected(Vals(u, k), d[k]) = Vals(u, k)
                            /\ Misfits(Vals(u, k), d[k]) = {}
    BY DEF Effected, Misfits
<1>9. KeysUnique(u) => \A k \in Key : Vals(r.units, k) = Effected(Vals(u, k), d[k])
    BY <1>7, <1>8
<1> DEFINE A(k) == {<<code, k>> : code \in Misfits(Vals(u, k), d[k])}
<1>10. r.conflicts = UNION {A(k) : k \in Key}
    <2>1. r.conflicts = UNION {A(k) : k \in done} /\ \A k \in Key \ done : A(k) = {}
        BY <1>7, <1>8
    <2>2. done \subseteq Key
        OBVIOUS
    <2> HIDE DEF A, done
    <2> QED
        BY <2>1, <2>2
<1> QED
    BY <1>6, <1>9, <1>10 DEF r, keys

\* applyDelta, key by key, of a delta that renames no unit: keys stay unique, every
\* key gets what the delta does to it, and the conflicts are the entries that do
\* not fit and those of the state that is reached.
THEOREM ApplyKeywise ==
    ASSUME NEW u, IsUnits(u), KeysUnique(u), NEW d, KeptBy(u, d)
    PROVE  LET w == Apply(u, d) IN
           /\ IsUnits(w.units) /\ KeysUnique(w.units)
           /\ \A k \in Key : Vals(w.units, k) = Effected(Vals(u, k), d[k])
           /\ w.conflicts
              = (UNION {{<<code, k>> : code \in Misfits(Vals(u, k), d[k])} : k \in Key})
                    \cup SemanticConflicts(w.units)
<1> DEFINE r == Run(u, d, EntriesOf(d))
           A(k) == {<<code, k>> : code \in Misfits(Vals(u, k), d[k])}
<1>1. /\ IsUnits(r.units) /\ KeysUnique(r.units)
      /\ \A k \in Key : Vals(r.units, k) = Effected(Vals(u, k), d[k])
      /\ r.conflicts = UNION {A(k) : k \in Key}
    BY RunIs
<1>2. /\ Apply(u, d).units = r.units
      /\ Apply(u, d).conflicts = r.conflicts \cup DetectConflicts(r.units)
    BY ApplyIs
<1> HIDE DEF r, A
<1>3. DetectConflicts(r.units) = SemanticConflicts(r.units)
    BY <1>1, NothingTwice
<1> DEFINE w == Apply(u, d)
<1> HIDE DEF w
<1>4. w.conflicts = (UNION {A(k) : k \in Key}) \cup SemanticConflicts(w.units)
    BY <1>1, <1>2, <1>3 DEF w
<1>5. /\ IsUnits(w.units) /\ KeysUnique(w.units)
      /\ \A k \in Key : Vals(w.units, k) = Effected(Vals(u, k), d[k])
    BY <1>1, <1>2 DEF w
<1> QED
    BY <1>4, <1>5 DEF A, w

-----------------------------------------------------------------------------
(* The tree of revisions *)

\* Revisions come after their parents and have units of the domain.
Revision == [parent: Nat \cup {None}, units: Contents]

TreeType ==
    /\ revisions \in Seq(Revision)
    /\ \A r \in DOMAIN revisions :
          revisions[r].parent = None \/ revisions[r].parent \in 1..(r - 1)

\* The type of the tree is kept by every CreateRevision.
THEOREM TreeTyped == TreeSpec => []TreeType
<1>1. TreeInit => TreeType
    <2> SUFFICES ASSUME TreeInit PROVE TreeType
        OBVIOUS
    <2>1. revisions = <<>> /\ revisions \in Seq(Revision) /\ DOMAIN revisions = {}
        BY DEF TreeInit
    <2> QED
        BY <2>1 DEF TreeType
<1>2. TreeType /\ [TreeNext]_revisions => TreeType'
    <2> SUFFICES ASSUME TreeType, [TreeNext]_revisions PROVE TreeType'
        OBVIOUS
    <2>1. CASE UNCHANGED revisions
        BY <2>1 DEF TreeType
    <2>2. CASE TreeNext
        <3>1. PICK parent \in Id \cup {None}, units \in Contents : CreateRevision(parent, units)
            BY <2>2 DEF TreeNext
        <3> DEFINE e == [parent |-> parent, units |-> units]
                   n == Len(revisions)
        <3>2. /\ revisions' = Append(revisions, e)
              /\ parent \in DOMAIN revisions \cup {None}
            BY <3>1 DEF CreateRevision
        <3>3. revisions \in Seq(Revision) /\ n \in Nat /\ DOMAIN revisions = 1..n
            BY LenProperties DEF TreeType
        <3>4. e \in Revision /\ e.parent = parent
            <4>1. parent \in Nat \cup {None}
                <5>1. 1..n \subseteq Nat
                    BY <3>3
                <5>2. parent \in 1..n \cup {None}
                    BY <3>2, <3>3
                <5> QED
                    BY <5>1, <5>2
            <4> QED
                BY <4>1 DEF Revision
        <3> HIDE DEF e
        <3>5. /\ revisions' \in Seq(Revision) /\ Len(revisions') = n + 1
              /\ \A r \in 1..n : revisions'[r] = revisions[r]
              /\ revisions'[n + 1] = e
            <4> DEFINE w == Append(revisions, e)
            <4>1. /\ w \in Seq(Revision) /\ Len(w) = n + 1
                  /\ (\A r \in 1..n : w[r] = revisions[r])
                  /\ w[n + 1] = e
                BY <3>3, <3>4, AppendProperties
            <4> HIDE DEF w
            <4>2. revisions' = w
                BY <3>2 DEF w
            <4> QED
                BY <4>1, <4>2
        <3>6. DOMAIN revisions' = 1..(n + 1)
            BY <3>5, LenProperties
        <3>7. ASSUME NEW r \in 1..(n + 1)
              PROVE  revisions'[r].parent = None \/ revisions'[r].parent \in 1..(r - 1)
            <4>1. CASE r \in 1..n
                BY <3>3, <3>5, <4>1 DEF TreeType
            <4>2. CASE r = n + 1
                <5>1. parent = None \/ parent \in 1..n
                    BY <3>2, <3>3
                <5>2. revisions'[r].parent = parent /\ 1..(r - 1) = 1..n
                    BY <3>3, <3>4, <3>5, <4>2
                <5> QED
                    BY <5>1, <5>2
            <4> QED
                BY <3>3, <4>1, <4>2
        <3> QED
            BY <3>5, <3>6, <3>7 DEF TreeType
    <2> QED
        BY <2>1, <2>2
<1> QED
    BY <1>1, <1>2, PTL DEF TreeSpec

LEMMA UnitsOfRevision ==
    ASSUME TreeType, NEW r \in DOMAIN revisions
    PROVE  revisions[r].units \in Seq(Unit) /\ IsUnits(revisions[r].units)
<1>1. revisions[r].units \in Seq(Unit)
    <2>1. DOMAIN revisions = 1..Len(revisions) /\ \A i \in 1..Len(revisions) : revisions[i] \in Revision
        BY LenProperties DEF TreeType
    <2>2. \A x \in Revision : x.units \in Contents
        BY DEF Revision
    <2> QED
        BY <2>1, <2>2, ContentsType
<1> QED
    BY <1>1, UnitsAreUnits

\* The line of a revision: that of its parent, and itself.
LEMMA LineIs ==
    ASSUME TreeType
    PROVE  Line = [r \in DOMAIN revisions |->
                      IF revisions[r].parent = None THEN <<r>>
                      ELSE Append(Line[revisions[r].parent], r)]
<1> DEFINE n == Len(revisions)
           D == DOMAIN revisions
           up(r) == revisions[r].parent
           value(h, r) == IF up(r) = None THEN <<r>> ELSE Append(h[up(r)], r)
           Table(k, h) == h = [r \in 1..k |-> value(h, r)]
           I == CHOOSE h : h = [r \in D |-> value(h, r)]
<1>1. Line = I
    BY DEF Line
<1>2. n \in Nat /\ D = 1..n
    BY LenProperties DEF TreeType
<1>3. \A r \in 1..n : up(r) = None \/ up(r) \in 1..(r - 1)
    BY <1>2 DEF TreeType
<1> HIDE DEF n, D, up
<1> DEFINE S == {k \in Nat : k <= n => \E h : Table(k, h)}
<1>4. 0 \in S
    <2>1. Table(0, [r \in 1..0 |-> <<>>])
        OBVIOUS
    <2> QED
        BY <2>1
<1>5. ASSUME NEW k \in Nat, k \in S PROVE k + 1 \in S
    <2> SUFFICES ASSUME k + 1 <= n PROVE \E j : Table(k + 1, j)
        OBVIOUS
    <2>1. PICK h : Table(k, h)
        BY <1>2, <1>5
    <2> DEFINE j == [r \in 1..(k + 1) |-> IF r = k + 1 THEN value(h, r) ELSE h[r]]
    <2>2. ASSUME NEW r \in 1..(k + 1) PROVE j[r] = value(j, r)
        <3>1. r \in 1..n
            BY <1>2
        <3>2. up(r) # None => up(r) \in 1..k /\ j[up(r)] = h[up(r)]
            BY <1>3, <3>1
        <3>3. value(j, r) = value(h, r)
            <4> HIDE DEF j
            <4> QED
                BY <3>2
        <3>4. j[r] = value(h, r)
            <4>1. CASE r = k + 1
                BY <4>1
            <4>2. CASE r # k + 1
                <5>1. r \in 1..k /\ j[r] = h[r]
                    BY <4>2
                <5> HIDE DEF j, value
                <5> QED
                    BY <2>1, <5>1
            <4> QED
                BY <4>1, <4>2
        <3> QED
            BY <3>3, <3>4
    <2>3. Table(k + 1, j)
        <3> HIDE DEF value
        <3> QED
            BY <2>2
    <2> HIDE DEF j, Table
    <2> QED
        BY <2>3
<1> HIDE DEF S, Table
<1>6. n \in S
    <2>1. Nat \subseteq S
        BY <1>4, <1>5, InductionOnSet
    <2> QED
        BY <1>2, <2>1
<1>7. PICK h : Table(n, h)
    BY <1>2, <1>6 DEF S
<1> HIDE DEF value
<1>8. h = [r \in D |-> value(h, r)]
    BY <1>2, <1>7 DEF Table
<1>9. I = [r \in D |-> value(I, r)]
    BY <1>8
<1> HIDE DEF I
<1> QED
    BY <1>1, <1>9 DEF value, D, up

\* The line of a revision ascends to it.
Ascends(line, r) ==
    /\ line \in Seq(1..r) /\ Len(line) \in Nat \ {0} /\ line[Len(line)] = r
    /\ \A i, j \in 1..Len(line) : i < j => line[i] < line[j]

LEMMA LineAscends ==
    ASSUME TreeType, NEW r \in DOMAIN revisions
    PROVE  Ascends(Line[r], r)
<1> DEFINE n == Len(revisions)
           D == DOMAIN revisions
           up(x) == revisions[x].parent
<1>1. n \in Nat /\ D = 1..n
    BY LenProperties DEF TreeType
<1>2. \A x \in D : up(x) = None \/ up(x) \in 1..(x - 1)
    BY DEF TreeType
<1>3. \A x \in D : Line[x] = IF up(x) = None THEN <<x>> ELSE Append(Line[up(x)], x)
    <2> DEFINE value(x) == IF up(x) = None THEN <<x>> ELSE Append(Line[up(x)], x)
    <2>1. Line = [x \in D |-> value(x)]
        BY LineIs
    <2> HIDE DEF value
    <2>2. \A x \in D : Line[x] = value(x)
        BY <2>1
    <2> QED
        BY <2>2 DEF value
<1> HIDE DEF n, D, up
<1> DEFINE S == {k \in Nat : \A x \in D : x <= k => Ascends(Line[x], x)}
<1>4. 0 \in S
    BY <1>1
<1>5. ASSUME NEW k \in Nat, k \in S PROVE k + 1 \in S
    <2> SUFFICES ASSUME k + 1 \in D PROVE Ascends(Line[k + 1], k + 1)
        BY <1>1, <1>5
    <2> DEFINE x == k + 1
               p == up(x)
    <2>1. CASE p = None
        <3>1. Line[x] = <<x>>
            BY <1>3, <2>1
        <3> HIDE DEF p
        <3>2. Ascends(<<x>>, x)
            BY DEF Ascends
        <3> QED
            BY <3>1, <3>2
    <2>2. CASE p # None
        <3>1. p \in 1..k
            BY <1>2, <2>2
        <3> DEFINE s == Line[p]
                   t == Append(s, x)
        <3>2. Line[x] = t
            BY <1>3, <2>2
        <3>3. Ascends(s, p)
            BY <1>1, <1>5, <3>1
        <3> HIDE DEF p, s
        <3>4. s \in Seq(1..p) /\ Len(s) \in Nat \ {0}
              /\ \A i, j \in 1..Len(s) : i < j => s[i] < s[j]
            BY <3>3 DEF Ascends
        <3>5. s \in Seq(1..x) /\ x \in 1..x
            BY <3>1, <3>4, SeqOfMore
        <3> HIDE DEF x
        <3>6. /\ t \in Seq(1..x) /\ Len(t) = Len(s) + 1
              /\ (\A i \in 1..Len(s) : t[i] = s[i])
              /\ t[Len(s) + 1] = x
            BY <3>5, AppendProperties
        <3>7. \A i \in 1..Len(s) : s[i] \in 1..p
            BY <3>4, LenProperties
        <3>8. p < x /\ p \in Int /\ x \in Int
            BY <3>1 DEF x
        <3> HIDE DEF t
        <3>9. ASSUME NEW i \in 1..Len(t), NEW j \in 1..Len(t), i < j PROVE t[i] < t[j]
            <4>1. i \in 1..Len(s)
                BY <3>4, <3>6, <3>9
            <4>2. CASE j \in 1..Len(s)
                BY <3>4, <3>6, <3>9, <4>1, <4>2
            <4>3. CASE j = Len(s) + 1
                BY <3>6, <3>7, <3>8, <4>1, <4>3
            <4> QED
                BY <3>4, <3>6, <4>2, <4>3
        <3>10. Ascends(t, x)
            BY <3>4, <3>6, <3>9 DEF Ascends
        <3> QED
            BY <3>2, <3>10 DEF x
    <2> QED
        BY <2>1, <2>2
<1> HIDE DEF S
<1>6. Nat \subseteq S
    BY <1>4, <1>5, InductionOnSet
<1>7. n \in S
    BY <1>1, <1>6
<1>8. r \in D /\ r <= n
    BY <1>1 DEF D
<1> QED
    BY <1>7, <1>8 DEF S

\* A path from an ancestor to a revision.
LEMMA PathIs ==
    ASSUME TreeType, NEW to \in DOMAIN revisions, NEW from \in ToSet(Line[to])
    PROVE  LET path == AncestorPath(from, to) IN
           /\ path \in Seq(DOMAIN revisions) /\ Len(path) \in Nat \ {0}
           /\ path[1] = from /\ path[Len(path)] = to
           /\ (from = to => Len(path) = 1)
<1> DEFINE line == Line[to]
           c == CHOOSE i \in DOMAIN line : line[i] = from
           path == SubSeq(line, c, Len(line))
           D == DOMAIN revisions
<1>1. AncestorPath(from, to) = path
    BY DEF AncestorPath
<1>2. Ascends(line, to)
    BY LineAscends
<1>3. from \in ToSet(line)
    OBVIOUS
<1>4. D = 1..Len(revisions) /\ Len(revisions) \in Nat /\ to \in D
    BY LenProperties DEF TreeType
<1> HIDE DEF line, D
<1>5. /\ line \in Seq(1..to) /\ Len(line) \in Nat \ {0} /\ line[Len(line)] = to
      /\ \A i, j \in 1..Len(line) : i < j => line[i] < line[j]
    BY <1>2 DEF Ascends
<1>6. line \in Seq(D)
    BY <1>4, <1>5, SeqOfMore
<1>7. DOMAIN line = 1..Len(line) /\ \A i \in 1..Len(line) : line[i] \in D
    BY <1>6, LenProperties
<1>8. c \in 1..Len(line) /\ line[c] = from
    BY <1>3, <1>7 DEF ToSet
<1> HIDE DEF c
<1>9. /\ path \in Seq(D)
      /\ Len(path) = Len(line) - c + 1
      /\ \A i \in 1..(Len(line) - c + 1) : path[i] = line[c + i - 1]
    <2>1. c \in Nat /\ Len(line) \in Nat /\ c <= Len(line)
        BY <1>5, <1>8
    <2>2. \A i \in c..Len(line) : line[i] \in D
        <3>1. c..Len(line) \subseteq 1..Len(line)
            BY <1>8, <2>1
        <3> QED
            BY <1>7, <3>1
    <2> QED
        BY <1>6, <2>1, <2>2, SubSeqProperties
<1> HIDE DEF path
<1>10. Len(path) \in Nat \ {0} /\ path[1] = from /\ path[Len(path)] = to
    <2>1. 1 \in 1..(Len(line) - c + 1) /\ c + 1 - 1 = c
          /\ Len(path) \in 1..(Len(line) - c + 1) /\ c + Len(path) - 1 = Len(line)
        BY <1>5, <1>8, <1>9
    <2>2. path[1] = line[c + 1 - 1] /\ path[Len(path)] = line[c + Len(path) - 1]
        BY <1>9, <2>1
    <2> QED
        BY <1>5, <1>8, <2>1, <2>2
<1>11. from = to => Len(path) = 1
    <2>1. from = to => c = Len(line)
        <3> SUFFICES ASSUME line[c] = line[Len(line)] PROVE c = Len(line)
            BY <1>5, <1>8
        <3>1. line[c] \in Int /\ Len(line) \in 1..Len(line)
            BY <1>4, <1>5, <1>7, <1>8
        <3>2. ~(c < Len(line))
            BY <1>5, <1>8, <3>1
        <3> QED
            BY <1>5, <1>8, <3>2
    <2> QED
        BY <1>5, <1>9, <2>1
<1> QED
    BY <1>1, <1>9, <1>10, <1>11 DEF D

-----------------------------------------------------------------------------
(* The audit of applyPackage *)

\* A run without entries leaves the state.
LEMMA NothingRun ==
    ASSUME NEW u, NEW d, \A k \in Key : d[k].kind \notin {"add", "remove", "modify"}
    PROVE  Run(u, d, EntriesOf(d)) = Start(u)
<1> DEFINE keys == EntriesOf(d)
           n == 0
<1>1. keys \in Seq(Key) /\ ToSet(keys) = {}
    BY EntriesAre
<1> HIDE DEF keys
<1>2. n \in Nat /\ DOMAIN keys = 1..n
    <2>1. DOMAIN keys = {}
        BY <1>1 DEF ToSet
    <2> QED
        BY <2>1
<1> HIDE DEF n
<1>3. PICK f : IsRun(f, u, d, keys, n)
    BY <1>2, RunOf
<1>4. f[0] = Start(u) /\ f[n] = Run(u, d, keys)
    BY <1>3 DEF IsRun
<1> QED
    BY <1>4 DEF n, keys

\* The empty delta, and any other without entries, changes nothing.
LEMMA NothingEntered ==
    ASSUME NEW u, NEW d, \A k \in Key : d[k].kind \notin {"add", "remove", "modify"}
    PROVE  Apply(u, d).units = u
<1>1. Run(u, d, EntriesOf(d)).units = u
    BY NothingRun DEF Start
<1> QED
    BY <1>1, ApplyIs

\* From a revision to itself there is nothing to do.
LEMMA NetToItself ==
    ASSUME TreeType, NEW r \in DOMAIN revisions
    PROVE  Apply(revisions[r].units, CrossBranchNetDelta(r, r)).units = revisions[r].units
<1>1. r \in ToSet(Line[r])
    <2>1. Ascends(Line[r], r)
        BY LineAscends
    <2>2. Line[r] \in Seq(1..r) /\ Len(Line[r]) \in Nat \ {0} /\ Line[r][Len(Line[r])] = r
        BY <2>1 DEF Ascends
    <2>3. DOMAIN Line[r] = 1..Len(Line[r]) /\ Len(Line[r]) \in 1..Len(Line[r])
        BY <2>2, LenProperties
    <2> QED
        BY <2>2, <2>3 DEF ToSet
<1>2. Len(AncestorPath(r, r)) = 1
    BY <1>1, PathIs
<1>3. CrossBranchNetDelta(r, r) = Compressed(AncestorPath(r, r))
    BY <1>1 DEF CrossBranchNetDelta, IsAncestor
<1>4. Compressed(AncestorPath(r, r)) = Empty
    BY <1>2 DEF Compressed
<1>5. \A k \in Key : Empty[k].kind \notin {"add", "remove", "modify"}
    BY DEF Empty, NoEffect
<1> QED
    BY <1>3, <1>4, <1>5, NothingEntered

LEMMA RequestIs ==
    ASSUME NEW request \in Request
    PROVE  HasNet(request) =>
               request.net[1] \in DOMAIN revisions /\ request.net[2] \in DOMAIN revisions
<1> DEFINE D == DOMAIN revisions
<1>1. \A pair \in NetPair : pair # <<>> => pair[1] \in D /\ pair[2] \in D
    <2> SUFFICES ASSUME NEW pair \in D \X D PROVE pair[1] \in D /\ pair[2] \in D
        BY DEF NetPair
    <2> QED
        OBVIOUS
<1> DEFINE latest == {pair \in NetPair \ {<<>>} :
                         pair[1] = CurrentRevision - 1 /\ pair[2] = CurrentRevision}
           payloads == {revisions[1].units}
<1>2. \/ request \in [net: NetPair, model: {<<>>}, mode: {"best_effort"}, payload: payloads]
      \/ request \in [net: latest, model: {<<>>}, mode: {"strict"}, payload: payloads]
      \/ request \in [net: {<<>>} \cup latest, model: Proposals, mode: {"best_effort"},
                      payload: payloads]
    BY DEF Request
<1>3. request.net \in NetPair \cup {<<>>}
    <2>1. latest \subseteq NetPair
        OBVIOUS
    <2> HIDE DEF latest, payloads
    <2> QED
        BY <1>2, <2>1
<1> HIDE DEF D
<1> QED
    BY <1>1, <1>3 DEF HasNet, D

\* The audit of a request fails only for a net delta without conflicts between
\* two different revisions, and record and report name different states only
\* for a request with a net delta and a model's delta (attachExecutionAudit,
\* replayExecutionRecordV1).
THEOREM AuditVerdictIsExactAlways == TreeSpec => []AuditVerdictIsExact
<1>1. ASSUME TreeType, NEW request \in Request
      PROVE  AuditIsExact(request, Reports(request))
    <2> DEFINE from == request.net[1]
               to == request.net[2]
               net == NetDeltaReport(from, to)
               model == ModelDeltaReport(request.model[1])
               payload == TransitionReport(request.payload)
               reports == Reports(request)
               record == ExecutionRecordV1(request, reports)
    <2>1. /\ reports.net = IF HasNet(request) THEN <<net>> ELSE <<>>
          /\ reports.model = IF HasModel(request) THEN <<model>> ELSE <<>>
          /\ reports.payload = IF HasNet(request) THEN <<>> ELSE <<payload>>
        BY DEF Reports
    <2> HIDE DEF reports, net, model, payload
    <2>2. <<net>> # <<>> /\ <<model>> # <<>> /\ <<net>>[1] = net /\ <<model>>[1] = model
          /\ <<payload>>[1] = payload
        OBVIOUS
    <2>3. (HasNet(reports) <=> HasNet(request)) /\ (HasModel(reports) <=> HasModel(request))
        BY <2>1, <2>2 DEF HasNet, HasModel
    <2>4. /\ HasNet(request) => reports.net[1] = net
          /\ HasModel(request) => reports.model[1] = model
        BY <2>1, <2>2
    <2>5. HasModel(request) => /\ RecordedPart(reports) = model
                               /\ RecordedDelta(reports) = model.delta
        BY <2>3, <2>4 DEF RecordedPart, RecordedDelta
    <2>6. HasNet(request) /\ ~HasModel(request) => /\ RecordedPart(reports) = net
                                                   /\ RecordedDelta(reports) = net.delta
        BY <2>3, <2>4 DEF RecordedPart, RecordedDelta, TransitionOf
    <2>7. record.after = RecordedPart(reports).after /\ record.delta = RecordedDelta(reports)
        BY DEF ExecutionRecordV1
    <2> HIDE DEF record
    <2>8. \A state, d : Applied(state, d).delta = d
                        /\ Applied(state, d).conflicts = Apply(state.units, d).conflicts
                        /\ Applied(state, d).after
                           = [state EXCEPT !.units = Apply(state.units, d).units]
        BY DEF Applied, Report
    <2>9. \A state, d : ApplyTo(state, d) = [state EXCEPT !.units = Apply(state.units, d).units]
        BY DEF ApplyTo
    <2>10. \A state, d : ApplyTo(state, d) = Applied(state, d).after
        BY <2>8, <2>9
    <2>11. HasModel(request) =>
               /\ Audit(request, record) = "matches"
               /\ Audit(request, record) # "E_REPLAY_MISMATCH"
        <3> SUFFICES ASSUME HasModel(request)
                     PROVE  Audit(request, record) = "matches"
            OBVIOUS
        <3>1. model = Applied(StateOf(CurrentRevision), request.model[1])
            BY DEF model, ModelDeltaReport
        <3>2. ApplyTo(StateOf(CurrentRevision), model.delta) = model.after
            BY <2>8, <2>10, <3>1
        <3>3. ReplayBase(request) = StateOf(CurrentRevision)
            BY DEF ReplayBase
        <3> QED
            BY <2>5, <2>7, <3>2, <3>3 DEF Audit
    <2>12. ASSUME HasNet(request), ~HasModel(request)
           PROVE  Audit(request, record) = "E_REPLAY_MISMATCH"
                  <=> from # to /\ net.conflicts = {}
        <3> DEFINE d == CrossBranchNetDelta(from, to)
                   applied == Applied(StateOf(from), d)
                   replayed == ApplyTo(StateOf(from), d)
        <3>1. from \in DOMAIN revisions /\ to \in DOMAIN revisions
            BY <2>12, RequestIs
        <3>2. /\ net.delta = d /\ net.conflicts = applied.conflicts
              /\ net.after = IF applied.conflicts = {} THEN StateOf(to) ELSE applied.after
            <4>1. net = OrTarget(applied, to)
                BY DEF net, NetDeltaReport
            <4>2. \A x : [applied EXCEPT !.after = x].delta = d
                         /\ [applied EXCEPT !.after = x].conflicts = applied.conflicts
                         /\ [applied EXCEPT !.after = x].after = x
                BY DEF Applied, Report
            <4>3. applied.delta = d
                BY <2>8
            <4> HIDE DEF applied
            <4> QED
                BY <4>1, <4>2, <4>3 DEF OrTarget
        <3>3. ReplayBase(request) = StateOf(from)
            BY <2>12 DEF ReplayBase
        <3>4. Audit(request, record)
              = IF replayed = net.after THEN "matches" ELSE "E_REPLAY_MISMATCH"
            BY <2>6, <2>7, <2>12, <3>2, <3>3 DEF Audit
        <3>5. replayed = applied.after
            BY <2>10
        <3>6. /\ StateOf(from).units = revisions[from].units
              /\ replayed = [revision |-> from, units |-> Apply(revisions[from].units, d).units]
            BY <2>9 DEF StateOf
        <3>7. net.conflicts # {} => replayed = net.after
            BY <3>2, <3>5
        <3>8. net.conflicts = {} => net.after = [revision |-> to, units |-> revisions[to].units]
            BY <3>2 DEF StateOf
        <3> HIDE DEF replayed, applied, d
        <3>9. net.conflicts = {} /\ from # to => replayed # net.after
            <4> SUFFICES ASSUME net.conflicts = {}, from # to, replayed = net.after
                         PROVE  FALSE
                OBVIOUS
            <4>1. replayed.revision = from /\ net.after.revision = to
                BY <3>6, <3>8
            <4> QED
                BY <4>1
        <3>10. net.conflicts = {} /\ from = to => replayed = net.after
            <4> SUFFICES ASSUME net.conflicts = {}, from = to PROVE replayed = net.after
                OBVIOUS
            <4>1. Apply(revisions[from].units, d).units = revisions[from].units
                BY <1>1, <3>1, NetToItself DEF d
            <4> QED
                BY <3>6, <3>8, <4>1
        <3> QED
            BY <3>4, <3>7, <3>9, <3>10
    <2>13. HasNet(request) \/ HasModel(request) =>
               (Audit(request, record) = "E_REPLAY_MISMATCH"
                <=> /\ ~HasModel(request)
                    /\ request.net[1] # request.net[2]
                    /\ reports.net[1].conflicts = {})
        BY <2>4, <2>11, <2>12
    <2>14. ReportV1(request, reports).after # record.after
           => HasNet(request) /\ HasModel(request)
        <3>1. ReportV1(request, reports).after = ReportedPart(request, reports).after
            BY DEF ReportV1
        <3>2. ~HasModel(request) => RecordedPart(reports) = TransitionOf(reports)
            BY <2>3 DEF RecordedPart
        <3>3. ~HasModel(request) => ReportedPart(request, reports) = TransitionOf(reports)
            BY DEF ReportedPart, ModeOf
        <3>4. HasModel(request) /\ ~HasNet(request) => ReportedPart(request, reports) = model
            BY <2>4 DEF ReportedPart, ModeOf
        <3> QED
            BY <2>5, <2>7, <3>1, <3>2, <3>3, <3>4
    <2> QED
        BY <2>13, <2>14 DEF AuditIsExact, record, reports
<1>2. TreeType => AuditVerdictIsExact
    BY <1>1 DEF AuditVerdictIsExact
<1> QED
    BY <1>2, TreeTyped, PTL

-----------------------------------------------------------------------------
(* Changes of one field *)

\* The values before and after every change of a list.
AreChanges(f, value, list, n) ==
    /\ f[0] = value
    /\ \A i \in 1..n : f[i] = ApplyChange(f[i - 1], list[i])
    /\ f[n] = ApplyChanges(value, list)

LEMMA ChangesRunOf ==
    ASSUME NEW value, NEW n \in Nat, NEW list, DOMAIN list = 1..n
    PROVE  \E f : AreChanges(f, value, list, n)
<1> DEFINE at(it, s) ==
               IF s = {} THEN value
               ELSE ApplyChange(it[s \ {Max(s)}], list[Max(s)])
           body(it) == [s \in SUBSET (1..n) |-> at(it, s)]
           I == CHOOSE it : it = body(it)
           Table(k, h) == h = [s \in SUBSET (1..k) |-> at(h, s)]
<1>1. ApplyChanges(value, list) = I[1..n]
    BY DEF ApplyChanges, FoldLeft, MapThenFoldSet
<1>2. \A k \in Nat : \E h : Table(k, h)
    <2> DEFINE S == {k \in Nat : \E h : Table(k, h)}
    <2>1. 0 \in S
        <3>1. Table(0, [s \in SUBSET (1..0) |-> value])
            OBVIOUS
        <3> QED
            BY <3>1
    <2>2. ASSUME NEW k \in Nat, k \in S PROVE k + 1 \in S
        <3>1. PICK h : Table(k, h)
            BY <2>2
        <3> DEFINE j == [s \in SUBSET (1..(k + 1)) |->
                            IF k + 1 \in s
                            THEN ApplyChange(h[s \ {k + 1}], list[k + 1])
                            ELSE h[s]]
        <3>2. ASSUME NEW s \in SUBSET (1..(k + 1)) PROVE j[s] = at(j, s)
            <4>1. CASE k + 1 \in s
                <5>1. Max(s) = k + 1
                    BY <4>1, MaxOfFirst
                <5>2. s \ {k + 1} \in SUBSET (1..(k + 1)) /\ k + 1 \notin s \ {k + 1}
                    OBVIOUS
                <5> HIDE DEF at
                <5>3. j[s \ {k + 1}] = h[s \ {k + 1}]
                    BY <5>2
                <5> QED
                    BY <4>1, <5>1, <5>3 DEF at
            <4>2. CASE k + 1 \notin s
                <5>1. s \in SUBSET (1..k)
                    BY <4>2
                <5>2. CASE s = {}
                    BY <3>1, <4>2, <5>1, <5>2
                <5>3. CASE s # {}
                    <6>1. s \ {Max(s)} \in SUBSET (1..k)
                        BY <5>1
                    <6>2. j[s \ {Max(s)}] = h[s \ {Max(s)}]
                        BY <6>1
                    <6>3. h[s] = at(h, s)
                        BY <3>1, <5>1
                    <6> QED
                        BY <4>2, <5>3, <6>2, <6>3
                <5> QED
                    BY <5>2, <5>3
            <4> QED
                BY <4>1, <4>2
        <3>3. Table(k + 1, j)
            <4> HIDE DEF at
            <4> QED
                BY <3>2
        <3> HIDE DEF j, Table
        <3> QED
            BY <3>3
    <2> HIDE DEF S, Table
    <2>3. Nat \subseteq S
        BY <2>1, <2>2, InductionOnSet
    <2> QED
        BY <2>3 DEF S
<1> HIDE DEF at
<1>3. I = body(I)
    <2>1. PICK h : Table(n, h)
        BY <1>2
    <2>2. h = body(h)
        BY <2>1
    <2> HIDE DEF body
    <2> QED
        BY <2>2
<1> HIDE DEF I
<1> DEFINE f == [i \in 0..n |-> I[1..i]]
<1>4. f[0] = value /\ f[n] = ApplyChanges(value, list)
    BY <1>1, <1>3 DEF at
<1>5. ASSUME NEW i \in 1..n PROVE f[i] = ApplyChange(f[i - 1], list[i])
    <2>1. 1..i \in SUBSET (1..n) /\ 1..i # {} /\ Max(1..i) = i
        BY MaxOfFirst
    <2>2. (1..i) \ {i} = 1..(i - 1) /\ i - 1 \in 0..n
        OBVIOUS
    <2>3. I[1..i] = at(I, 1..i)
        BY <1>3, <2>1
    <2>4. at(I, 1..i) = ApplyChange(I[1..(i - 1)], list[i])
        BY <2>1, <2>2 DEF at
    <2>5. f[i] = I[1..i] /\ f[i - 1] = I[1..(i - 1)]
        BY <2>2
    <2> HIDE DEF f
    <2> QED
        BY <2>3, <2>4, <2>5
<1> HIDE DEF f
<1>6. AreChanges(f, value, list, n)
    BY <1>4, <1>5 DEF AreChanges
<1> QED
    BY <1>6

\* What ComposeChanges and DiffValues keep of the changes of one field: one
\* change, or changes of an array for different elements.
IsBucket(S) ==
    /\ IsFiniteSet(S)
    /\ \A a \in S : /\ a.op \in {"set", "unset", "append", "remove"}
                    /\ ArrayOp(a) => a.value \in Element
    /\ \A a, b \in S : a # b => ArrayOp(a) /\ ArrayOp(b) /\ a.value # b.value

LEMMA SortedIs ==
    ASSUME NEW S, IsBucket(S)
    PROVE  LET s == Sorted(S) IN
           /\ s \in Seq(S) /\ ToSet(s) = S
           /\ \A i, j \in 1..Len(s) : s[i] = s[j] => i = j
<1> DEFINE R == {p \in S \X S : ChangeBefore(p[1], p[2])}
           list == Sorted(S)
<1>1. IsFiniteSet(S)
    BY DEF IsBucket
<1>2. \A x, y \in S : <<x, y>> \in R <=> ChangeBefore(x, y)
    OBVIOUS
<1>3. \A x \in S : {y \in S : <<y, x>> \in R} = {y \in S : ChangeBefore(y, x)}
    BY <1>2
<1>4. list = [i \in 1..Cardinality(S) |->
                  CHOOSE x \in S : Cardinality({y \in S : ChangeBefore(y, x)}) = i - 1]
    BY DEF Sorted, Listed
<1>5. Orders(R, S)
    <2>1. \A a \in S : OpRank(a) \in 0..3 /\ (ArrayOp(a) => a.value \in Int)
        BY Ordered DEF IsBucket, OpRank
    <2>2. \A a, b \in S : a # b => ArrayOp(a) /\ ArrayOp(b) /\ a.value # b.value
        BY DEF IsBucket
    <2>3. \A a \in S : ~ChangeBefore(a, a)
        BY <2>1 DEF ChangeBefore
    <2>4. \A a, b \in S : a # b => ChangeBefore(a, b) \/ ChangeBefore(b, a)
        BY <2>1, <2>2 DEF ChangeBefore
    <2>5. \A a, b, c \in S : ChangeBefore(a, b) /\ ChangeBefore(b, c) => ChangeBefore(a, c)
        BY <2>1, <2>2 DEF ChangeBefore
    <2> HIDE DEF R
    <2> QED
        BY <1>2, <2>3, <2>4, <2>5 DEF Orders
<1> HIDE DEF R, list
<1>6. ASSUME NEW i \in 1..Cardinality(S), NEW x \in S,
             Cardinality({y \in S : <<y, x>> \in R}) = i - 1
      PROVE  /\ list[i] \in S
             /\ Cardinality({y \in S : <<y, list[i]>> \in R}) = i - 1
    <2>1. Cardinality({y \in S : ChangeBefore(y, x)}) = i - 1
        BY <1>3, <1>6
    <2>2. list[i] = CHOOSE z \in S : Cardinality({y \in S : ChangeBefore(y, z)}) = i - 1
        BY <1>4
    <2>3. list[i] \in S /\ Cardinality({y \in S : ChangeBefore(y, list[i])}) = i - 1
        BY <2>1, <2>2
    <2> QED
        BY <1>3, <2>3
<1>7. PICK V : list \in [1..Cardinality(S) -> V]
    <2> DEFINE V == {CHOOSE x \in S : Cardinality({y \in S : ChangeBefore(y, x)}) = i - 1 :
                        i \in 1..Cardinality(S)}
    <2>1. list \in [1..Cardinality(S) -> V]
        BY <1>4
    <2> HIDE DEF V
    <2> QED
        BY <2>1
<1>8. Lists(list, S, R)
    BY <1>6, <1>7 DEF Lists
<1> QED
    BY <1>1, <1>5, <1>8, ListedIs DEF list

\* An element more, and an element less, of an array without equal elements.
LEMMA ElementAppended ==
    ASSUME NEW s \in Seq(Element), IsInjective(s), NEW e \in Element, e \notin ToSet(s)
    PROVE  LET t == Append(s, e) IN
           t \in Seq(Element) /\ IsInjective(t) /\ ToSet(t) = ToSet(s) \cup {e}
<1> DEFINE t == Append(s, e)
<1>1. Len(s) \in Nat /\ DOMAIN s = 1..Len(s)
    BY LenProperties
<1>2. /\ t \in Seq(Element) /\ Len(t) = Len(s) + 1
      /\ (\A i \in 1..Len(s) : t[i] = s[i])
      /\ t[Len(s) + 1] = e
    BY AppendProperties
<1> HIDE DEF t
<1>3. DOMAIN t = 1..(Len(s) + 1)
    BY <1>2, LenProperties
<1>4. \A i \in 1..Len(s) : t[i] = s[i] /\ t[i] # e /\ t[i] \in ToSet(s)
    BY <1>1, <1>2 DEF ToSet
<1>5. IsInjective(t)
    <2> SUFFICES ASSUME NEW i \in 1..(Len(s) + 1), NEW j \in 1..(Len(s) + 1), t[i] = t[j]
                 PROVE  i = j
        BY <1>3 DEF IsInjective
    <2>1. CASE i \in 1..Len(s) /\ j \in 1..Len(s)
        BY <1>1, <1>2, <2>1 DEF IsInjective
    <2>2. CASE i = Len(s) + 1 \/ j = Len(s) + 1
        BY <1>1, <1>2, <1>4, <2>2
    <2> QED
        BY <1>1, <2>1, <2>2
<1>6. ASSUME NEW x PROVE x \in ToSet(t) <=> x \in ToSet(s) \cup {e}
    <2>1. x \in ToSet(t) => x \in ToSet(s) \cup {e}
        BY <1>1, <1>2, <1>3, <1>4 DEF ToSet
    <2>2. x \in ToSet(s) => x \in ToSet(t)
        BY <1>1, <1>3, <1>4 DEF ToSet
    <2>3. e \in ToSet(t)
        BY <1>1, <1>2, <1>3 DEF ToSet
    <2> QED
        BY <2>1, <2>2, <2>3
<1> QED
    BY <1>2, <1>5, <1>6 DEF t

LEMMA ElementRemoved ==
    ASSUME NEW s \in Seq(Element), IsInjective(s), NEW e
    PROVE  LET t == RemoveFirst(s, e) IN
           t \in Seq(Element) /\ IsInjective(t) /\ ToSet(t) = ToSet(s) \ {e}
<1> DEFINE t == RemoveFirst(s, e)
<1>1. Len(s) \in Nat /\ DOMAIN s = 1..Len(s)
    BY LenProperties
<1>2. CASE ~\E i \in 1..Len(s) : s[i] = e
    <2>1. t = s
        BY <1>2 DEF RemoveFirst
    <2>2. e \notin ToSet(s)
        BY <1>1, <1>2 DEF ToSet
    <2> QED
        BY <2>1, <2>2
<1>3. CASE \E i \in 1..Len(s) : s[i] = e
    <2> DEFINE I == {i \in 1..Len(s) : s[i] = e}
               n == Min(I)
    <2>1. t = RemoveAt(s, n)
        BY <1>3 DEF RemoveFirst, SelectInSeq
    <2>2. I \in SUBSET Nat /\ I # {}
        BY <1>3
    <2>3. \E x \in I : \A y \in I : x <= y
        <3> HIDE DEF I
        <3> QED
            BY <2>2, LeastNumber
    <2>4. n \in I
        <3> HIDE DEF I
        <3> QED
            BY <2>3 DEF Min
    <2>5. n \in 1..Len(s) /\ s[n] = e
        BY <2>4
    <2> HIDE DEF n, t
    <2>6. /\ t \in Seq(Element) /\ Len(t) = Len(s) - 1
          /\ \A j \in 1..(Len(s) - 1) : t[j] = IF j < n THEN s[j] ELSE s[j + 1]
        BY <2>1, <2>5, RemoveAtProperties
    <2>7. DOMAIN t = 1..(Len(s) - 1)
        BY <1>1, <2>6, LenProperties
    <2> DEFINE at(j) == IF j < n THEN j ELSE j + 1
    <2>8. \A j \in DOMAIN t : at(j) \in DOMAIN s /\ at(j) # n /\ t[j] = s[at(j)]
        BY <1>1, <2>5, <2>6, <2>7
    <2>9. \A i, j \in DOMAIN t : at(i) = at(j) => i = j
        BY <1>1, <2>5, <2>7
    <2>10. \A i \in DOMAIN s : i # n => \E j \in DOMAIN t : at(j) = i
        <3> TAKE i \in DOMAIN s
        <3> HAVE i # n
        <3>1. CASE i < n
            BY <1>1, <2>5, <2>7, <3>1
        <3>2. CASE i > n
            <4>1. i - 1 \in DOMAIN t /\ at(i - 1) = i
                BY <1>1, <2>5, <2>7, <3>2
            <4> QED
                BY <4>1
        <3> QED
            BY <1>1, <2>5, <3>1, <3>2
    <2> HIDE DEF at
    <2>11. IsInjective(t)
        BY <2>8, <2>9 DEF IsInjective
    <2>12. \A i \in DOMAIN s : s[i] = e <=> i = n
        BY <1>1, <2>5 DEF IsInjective
    <2>13. ASSUME NEW x PROVE x \in ToSet(t) <=> x \in ToSet(s) \ {e}
        <3>1. ASSUME x \in ToSet(t) PROVE x \in ToSet(s) \ {e}
            BY <2>8, <2>12, <3>1 DEF ToSet
        <3>2. ASSUME x \in ToSet(s), x # e PROVE x \in ToSet(t)
            BY <2>8, <2>10, <2>12, <3>2 DEF ToSet
        <3> QED
            BY <3>1, <3>2
    <2> QED
        BY <2>6, <2>11, <2>13 DEF t
<1> QED
    BY <1>2, <1>3

Appends(S) == {c.value : c \in {x \in S : x.op = "append"}}
Removals(S) == {c.value : c \in {x \in S : x.op = "remove"}}

\* The changes of an array add the elements of the appends and take away those
\* of the removals, if no append adds what is there.
LEMMA ArrayChanged ==
    ASSUME NEW v \in Seq(Element), IsInjective(v), NEW S, IsBucket(S),
           \A c \in S : ArrayOp(c), Appends(S) \cap ToSet(v) = {}
    PROVE  LET w == ApplyChanges(v, Sorted(S)) IN
           /\ w \in Seq(Element) /\ IsInjective(w)
           /\ ToSet(w) = (ToSet(v) \cup Appends(S)) \ Removals(S)
<1> DEFINE list == Sorted(S)
           n == Len(list)
           done(i) == {list[m] : m \in 1..i}
<1>1. /\ list \in Seq(S) /\ ToSet(list) = S
      /\ \A i, j \in 1..n : list[i] = list[j] => i = j
    BY SortedIs
<1> HIDE DEF list
<1>2. n \in Nat /\ DOMAIN list = 1..n /\ \A i \in 1..n : list[i] \in S
    BY <1>1, LenProperties
<1>3. done(n) = S
    BY <1>1, <1>2 DEF ToSet
<1> HIDE DEF n
<1>4. PICK f : AreChanges(f, v, list, n)
    BY <1>2, ChangesRunOf
<1> DEFINE Reached(i) ==
               /\ f[i] \in Seq(Element) /\ IsInjective(f[i])
               /\ ToSet(f[i]) = (ToSet(v) \cup Appends(done(i))) \ Removals(done(i))
           T == {i \in Nat : i <= n => Reached(i)}
<1>5. 0 \in T
    <2>1. f[0] = v /\ done(0) = {}
        BY <1>4 DEF AreChanges
    <2>2. Appends({}) = {} /\ Removals({}) = {}
        BY DEF Appends, Removals
    <2> HIDE DEF done
    <2> QED
        BY <2>1, <2>2
<1>6. ASSUME NEW i \in Nat, i \in T PROVE i + 1 \in T
    <2> SUFFICES ASSUME i + 1 <= n PROVE Reached(i + 1)
        OBVIOUS
    <2> DEFINE c == list[i + 1]
               D == done(i)
               s == f[i]
    <2>1. i + 1 \in 1..n /\ c \in S /\ ArrayOp(c) /\ c.value \in Element
        BY <1>2 DEF IsBucket
    <2>2. f[i + 1] = ApplyChange(s, c)
        <3>1. i + 1 - 1 = i
            OBVIOUS
        <3> QED
            BY <1>4, <2>1, <3>1 DEF AreChanges
    <2>3. done(i + 1) = D \cup {c}
        <3>1. 1..(i + 1) = (1..i) \cup {i + 1}
            OBVIOUS
        <3> QED
            BY <3>1
    <2>4. D \subseteq S /\ c \notin D
        <3>1. \A m \in 1..i : m \in 1..n /\ m # i + 1
            BY <1>2
        <3> QED
            BY <1>1, <1>2, <2>1, <3>1
    <2>5. \A x \in D : x.value # c.value
        BY <2>1, <2>4 DEF IsBucket
    <2>6. s \in Seq(Element) /\ IsInjective(s)
          /\ ToSet(s) = (ToSet(v) \cup Appends(D)) \ Removals(D)
        BY <1>2, <1>6
    <2> HIDE DEF c, D, s
    <2>7. c.value \notin Appends(D) /\ c.value \notin Removals(D)
        BY <2>5 DEF Appends, Removals
    <2>8. AsArray(s) = s
        BY <2>6, ArraysAreArrays DEF AsArray, IsArray
    <2> DEFINE t == ApplyChange(s, c)
    <2>9. CASE c.op = "append"
        <3>1. c.value \in Appends(S)
            BY <2>1, <2>9 DEF Appends
        <3>2. c.value \notin ToSet(s)
            BY <2>6, <2>7, <3>1
        <3>3. t = Append(s, c.value)
            BY <2>8, <2>9 DEF ApplyChange
        <3>4. t \in Seq(Element) /\ IsInjective(t) /\ ToSet(t) = ToSet(s) \cup {c.value}
            BY <2>1, <2>6, <3>2, <3>3, ElementAppended
        <3>5. /\ Appends(D \cup {c}) = Appends(D) \cup {c.value}
              /\ Removals(D \cup {c}) = Removals(D)
            BY <2>9 DEF Appends, Removals
        <3> HIDE DEF t
        <3>6. ToSet(t) = (ToSet(v) \cup Appends(D \cup {c})) \ Removals(D \cup {c})
            BY <2>6, <2>7, <3>4, <3>5
        <3> HIDE DEF done
        <3> QED
            BY <2>2, <2>3, <3>4, <3>6 DEF t
    <2>10. CASE c.op = "remove"
        <3>1. t = RemoveFirst(s, c.value)
            BY <2>8, <2>10 DEF ApplyChange
        <3>2. t \in Seq(Element) /\ IsInjective(t) /\ ToSet(t) = ToSet(s) \ {c.value}
            BY <2>6, <3>1, ElementRemoved
        <3>3. /\ Appends(D \cup {c}) = Appends(D)
              /\ Removals(D \cup {c}) = Removals(D) \cup {c.value}
            BY <2>10 DEF Appends, Removals
        <3> HIDE DEF t
        <3>4. ToSet(t) = (ToSet(v) \cup Appends(D \cup {c})) \ Removals(D \cup {c})
            BY <2>6, <3>2, <3>3
        <3> HIDE DEF done
        <3> QED
            BY <2>2, <2>3, <3>2, <3>4 DEF t
    <2> QED
        BY <2>1, <2>9, <2>10 DEF ArrayOp
<1> HIDE DEF T, Reached
<1>7. Nat \subseteq T
    BY <1>5, <1>6, InductionOnSet
<1>8. Reached(n)
    BY <1>2, <1>7 DEF T
<1>9. f[n] = ApplyChanges(v, list)
    BY <1>4 DEF AreChanges
<1> HIDE DEF done
<1> QED
    BY <1>3, <1>8, <1>9 DEF Reached, list

\* No change, and a single one.
LEMMA FewChanges ==
    ASSUME NEW v
    PROVE  /\ ApplyChanges(v, <<>>) = v
           /\ \A c : ApplyChanges(v, <<c>>) = ApplyChange(v, c)
<1>1. ApplyChanges(v, <<>>) = v
    <2> DEFINE n == 0
               list == <<>>
    <2>1. n \in Nat /\ DOMAIN list = 1..n
        OBVIOUS
    <2> HIDE DEF n, list
    <2>2. PICK f : AreChanges(f, v, list, n)
        BY <2>1, ChangesRunOf
    <2>3. f[0] = v /\ f[n] = ApplyChanges(v, list)
        BY <2>2 DEF AreChanges
    <2> QED
        BY <2>3 DEF n, list
<1>2. ASSUME NEW c PROVE ApplyChanges(v, <<c>>) = ApplyChange(v, c)
    <2> DEFINE n == 1
               list == <<c>>
    <2>1. n \in Nat /\ DOMAIN list = 1..n /\ list[1] = c
        OBVIOUS
    <2> HIDE DEF n, list
    <2>2. PICK f : AreChanges(f, v, list, n)
        BY <2>1, ChangesRunOf
    <2>3. /\ f[0] = v /\ f[n] = ApplyChanges(v, list)
          /\ \A i \in 1..n : f[i] = ApplyChange(f[i - 1], list[i])
        BY <2>2 DEF AreChanges
    <2>4. f[1] = ApplyChange(f[0], list[1])
        <3>1. 1 \in 1..n /\ 1 - 1 = 0
            BY DEF n
        <3> QED
            BY <2>3, <3>1
    <2> QED
        BY <2>1, <2>3, <2>4 DEF n, list
<1> QED
    BY <1>1, <1>2

LEMMA FiniteToSet ==
    ASSUME NEW S, NEW s \in Seq(S)
    PROVE  IsFiniteSet(ToSet(s))
<1>1. Len(s) \in Nat /\ DOMAIN s = 1..Len(s) /\ s \in [1..Len(s) -> S]
    BY LenProperties
<1>2. s \in Surjection(1..Len(s), ToSet(s))
    <2>1. s \in [1..Len(s) -> ToSet(s)]
        BY <1>1 DEF ToSet
    <2>2. \A t \in ToSet(s) : \E i \in 1..Len(s) : s[i] = t
        BY <1>1 DEF ToSet
    <2> QED
        BY <2>1, <2>2 DEF Surjection
<1>3. IsFiniteSet(1..Len(s))
    BY <1>1, FS_Interval
<1> QED
    BY <1>2, <1>3, FS_Surjection

\* Values that the differ takes for the same.
Alike(a, b) ==
    /\ IsArray(a) <=> IsArray(b)
    /\ IF IsArray(a) THEN ToSet(a) = ToSet(b) ELSE a = b

LEMMA ArrayValue ==
    ASSUME NEW v
    PROVE  /\ v \in Value => (IsArray(v) <=> v \in Seq(Element))
           /\ v \in Seq(Element) => v \in Value /\ IsArray(v)
BY ArraysAreArrays DEF Value, IsArray

\* The changes that make one array of another.
ArrayChanges(b, a) ==
    {[op |-> "append", value |-> e] : e \in ToSet(a) \ ToSet(b)} \cup
    {[op |-> "remove", value |-> e] : e \in ToSet(b) \ ToSet(a)}

LEMMA ArrayChangesAre ==
    ASSUME NEW b \in Seq(Element), NEW a \in Seq(Element)
    PROVE  LET S == ArrayChanges(b, a) IN
           /\ IsBucket(S) /\ \A c \in S : ArrayOp(c)
           /\ Appends(S) = ToSet(a) \ ToSet(b) /\ Removals(S) = ToSet(b) \ ToSet(a)
<1> DEFINE A == ToSet(a) \ ToSet(b)
           B == ToSet(b) \ ToSet(a)
           app(e) == [op |-> "append", value |-> e]
           rem(e) == [op |-> "remove", value |-> e]
           SA == {app(e) : e \in A}
           SB == {rem(e) : e \in B}
           S == ArrayChanges(b, a)
<1>1. S = SA \cup SB
    BY DEF ArrayChanges
<1>2. IsFiniteSet(A) /\ IsFiniteSet(B)
    BY FiniteToSet, FS_Difference
<1>3. A \subseteq Element /\ B \subseteq Element
    <2>1. ToSet(a) \subseteq Element /\ ToSet(b) \subseteq Element
        BY LenProperties DEF ToSet
    <2> QED
        BY <2>1
<1>4. A \cap B = {}
    OBVIOUS
<1> HIDE DEF A, B, S
<1>5. IsFiniteSet(SA)
    <2> DEFINE g == [e \in A |-> app(e)]
    <2>1. g \in [A -> SA] /\ \A t \in SA : \E e \in A : g[e] = t
        OBVIOUS
    <2> HIDE DEF g, SA
    <2>2. g \in Surjection(A, SA)
        BY <2>1 DEF Surjection
    <2> QED
        BY <1>2, <2>2, FS_Surjection
<1>6. IsFiniteSet(SB)
    <2> DEFINE g == [e \in B |-> rem(e)]
    <2>1. g \in [B -> SB] /\ \A t \in SB : \E e \in B : g[e] = t
        OBVIOUS
    <2> HIDE DEF g, SB
    <2>2. g \in Surjection(B, SB)
        BY <2>1 DEF Surjection
    <2> QED
        BY <1>2, <2>2, FS_Surjection
<1>7. IsFiniteSet(S)
    BY <1>1, <1>5, <1>6, FS_Union
<1>8. /\ \A c \in SA : c.op = "append" /\ c.value \in A /\ c = app(c.value)
      /\ \A c \in SB : c.op = "remove" /\ c.value \in B /\ c = rem(c.value)
    OBVIOUS
<1>9. /\ \A e \in A : app(e) \in SA /\ app(e).value = e
      /\ \A e \in B : rem(e) \in SB /\ rem(e).value = e
    OBVIOUS
<1> HIDE DEF SA, SB, app, rem
<1>10. \A c \in S : ArrayOp(c) /\ c.op \in {"append", "remove"} /\ c.value \in Element
    BY <1>1, <1>3, <1>8 DEF ArrayOp
<1>11. \A c, d \in S : c # d => c.value # d.value
    BY <1>1, <1>4, <1>8
<1>12. IsBucket(S)
    BY <1>7, <1>10, <1>11 DEF IsBucket
<1>13. Appends(S) = A /\ Removals(S) = B
    <2>1. ASSUME NEW e PROVE e \in Appends(S) <=> e \in A
        BY <1>1, <1>8, <1>9 DEF Appends
    <2>2. ASSUME NEW e PROVE e \in Removals(S) <=> e \in B
        BY <1>1, <1>8, <1>9 DEF Removals
    <2> QED
        BY <2>1, <2>2
<1> QED
    BY <1>10, <1>12, <1>13 DEF A, B, S

\* The changes between two values lead from the one to the other, as far as the
\* differ sees them.
LEMMA DiffValuesLead ==
    ASSUME NEW b \in Value, NoDuplicates(b), NEW a \in Value, NoDuplicates(a)
    PROVE  LET w == ApplyChanges(b, DiffValues(b, a)) IN
           w \in Value /\ NoDuplicates(w) /\ Alike(w, a)
<1> DEFINE w == ApplyChanges(b, DiffValues(b, a))
<1>1. CASE IsArray(b) /\ IsArray(a)
    <2> DEFINE S == ArrayChanges(b, a)
    <2>1. b \in Seq(Element) /\ a \in Seq(Element) /\ IsInjective(b)
        BY <1>1, ArrayValue DEF NoDuplicates
    <2>2. /\ IsBucket(S) /\ \A c \in S : ArrayOp(c)
          /\ Appends(S) = ToSet(a) \ ToSet(b) /\ Removals(S) = ToSet(b) \ ToSet(a)
        BY <2>1, ArrayChangesAre
    <2>3. DiffValues(b, a) = Sorted(S)
        BY <1>1 DEF DiffValues, ArrayChanges
    <2> HIDE DEF S
    <2>4. Appends(S) \cap ToSet(b) = {}
        BY <2>2
    <2>5. /\ w \in Seq(Element) /\ IsInjective(w)
          /\ ToSet(w) = (ToSet(b) \cup Appends(S)) \ Removals(S)
        BY <2>1, <2>2, <2>3, <2>4, ArrayChanged
    <2> HIDE DEF w
    <2>6. ToSet(w) = ToSet(a)
        BY <2>2, <2>5
    <2>7. w \in Value /\ IsArray(w)
        BY <2>5, ArrayValue
    <2> QED
        BY <1>1, <2>5, <2>6, <2>7 DEF NoDuplicates, Alike, w
<1>2. CASE ~(IsArray(b) /\ IsArray(a))
    <2>1. w = a
        <3>1. CASE b = a
            <4>1. DiffValues(b, a) = <<>>
                BY <1>2, <3>1 DEF DiffValues
            <4> QED
                BY <3>1, <4>1, FewChanges
        <3>2. CASE b # a /\ a = Absent
            <4> DEFINE c == [op |-> "unset", value |-> Absent]
            <4>1. DiffValues(b, a) = <<c>>
                BY <1>2, <3>2 DEF DiffValues
            <4>2. ApplyChange(b, c) = Absent
                BY DEF ApplyChange
            <4> HIDE DEF c
            <4> QED
                BY <3>2, <4>1, <4>2, FewChanges
        <3>3. CASE b # a /\ a # Absent
            <4> DEFINE c == [op |-> "set", value |-> a]
            <4>1. DiffValues(b, a) = <<c>>
                BY <1>2, <3>3 DEF DiffValues
            <4>2. ApplyChange(b, c) = a
                BY DEF ApplyChange
            <4> HIDE DEF c
            <4> QED
                BY <4>1, <4>2, FewChanges
        <3> QED
            BY <3>1, <3>2, <3>3
    <2> HIDE DEF w
    <2> QED
        BY <2>1 DEF Alike, w
<1> QED
    BY <1>1, <1>2

-----------------------------------------------------------------------------
(* The difference of two states, applied to the first *)

LEMMA SelectedIs ==
    ASSUME NEW u \in Seq(Unit), KeysUnique(u), NEW k
    PROVE  /\ UnitsOf(u, k) = {} => Vals(u, k) = {}
           /\ UnitsOf(u, k) # {} => /\ Vals(u, k) = {Selected(u, k)}
                                    /\ Selected(u, k) \in Value
                                    /\ Plain(u) => NoDuplicates(Selected(u, k))
<1>1. DOMAIN u = 1..Len(u) /\ \A i \in 1..Len(u) : u[i] \in Unit
    BY LenProperties
<1>2. ASSUME UnitsOf(u, k) # {}
      PROVE  /\ Vals(u, k) = {Selected(u, k)} /\ Selected(u, k) \in Value
             /\ Plain(u) => NoDuplicates(Selected(u, k))
    <2>1. PICK n \in DOMAIN u : u[n].key = k
        BY <1>2 DEF UnitsOf
    <2>2. \A i \in DOMAIN u : u[i].key = k => i = n
        BY <2>1 DEF KeysUnique
    <2>3. UnitsOf(u, k) = {u[n]}
        <3>1. ASSUME NEW x PROVE x \in UnitsOf(u, k) <=> x = u[n]
            BY <2>1, <2>2 DEF UnitsOf
        <3> QED
            BY <3>1
    <2>4. Selected(u, k) = u[n].value
        BY <2>3 DEF Selected
    <2>5. Vals(u, k) = {u[n].value}
        <3>1. ASSUME NEW x PROVE x \in Vals(u, k) <=> x = u[n].value
            BY <2>1, <2>2, ValsIs
        <3> QED
            BY <3>1
    <2>6. \A x \in Unit : x.value \in Value
        BY DEF Unit
    <2> QED
        BY <1>1, <2>1, <2>4, <2>5, <2>6 DEF Plain
<1> QED
    BY <1>2, NoUnits

LEMMA AlikeAreSeen ==
    ASSUME NEW a, NEW b, Alike(a, b)
    PROVE  Seen(a) = Seen(b)
BY DEF Alike, Seen

\* Each of the values is one of the others to the differ.
SameSeen(X, Y) ==
    /\ \A x \in X : \E y \in Y : Alike(x, y)
    /\ \A y \in Y : \E x \in X : Alike(x, y)

\* The content of units, key by key.
LooksLike(u, w) == \A k \in Key : SameSeen(Vals(u, k), Vals(w, k))

LEMMA LooksBack ==
    ASSUME NEW u, NEW w, LooksLike(u, w)
    PROVE  LooksLike(w, u)
<1>1. \A x, y : Alike(x, y) => Alike(y, x)
    BY DEF Alike
<1> QED
    BY <1>1 DEF LooksLike, SameSeen

LEMMA ContentIs ==
    ASSUME NEW u, IsUnits(u), NEW w, IsUnits(w), LooksLike(u, w)
    PROVE  Content(u) = Content(w)
<1>1. ASSUME NEW s, IsUnits(s), NEW t, IsUnits(t), LooksLike(s, t), NEW x \in Content(s)
      PROVE  x \in Content(t)
    <2>1. PICK i \in DOMAIN s : x = <<s[i].key, Seen(s[i].value)>>
        BY DEF Content
    <2> DEFINE k == s[i].key
    <2>2. k \in Key
        BY <1>1, UnitsType
    <2> HIDE DEF k
    <2>3. s[i].value \in Vals(s, k)
        BY ValsIs DEF k
    <2>4. PICK v \in Vals(t, k) : Alike(s[i].value, v)
        BY <1>1, <2>2, <2>3 DEF LooksLike, SameSeen
    <2>5. PICK j \in DOMAIN t : t[j].key = k /\ t[j].value = v
        BY ValsIs
    <2>6. x = <<t[j].key, Seen(t[j].value)>>
        BY <2>1, <2>4, <2>5, AlikeAreSeen DEF k
    <2> QED
        BY <2>6 DEF Content
<1>2. LooksLike(w, u)
    BY LooksBack
<1> QED
    BY <1>1, <1>2

\* The conditions of detectConflicts do not tell alike units apart.
LEMMA ConditionsOfLooks ==
    ASSUME NEW u, IsUnits(u), NEW w, IsUnits(w), LooksLike(u, w)
    PROVE  SemanticConflicts(u) = SemanticConflicts(w)
<1> DEFINE Meets(s, k, V) == \E x \in Vals(s, k) : x \in V
           Fails(s, k, V) == \E x \in Vals(s, k) : x \notin V
           Exceeds(s, k) ==
               \E x \in Vals(s, k) : x \in DOMAIN Level /\
                   \E l \in Constraint : \E y \in Vals(s, l) :
                       y \in DOMAIN Level /\ Level[x] > Level[y]
           Found(s) ==
               {<<"E_DECISION_FINAL_NO_ANSWER", k>> : k \in {l \in FinalDecision : Fails(s, l, Answer)}}
               \cup {<<"E_CONSTRAINT_RULE_EMPTY", k>> : k \in {l \in Ruled : Fails(s, l, Text)}}
               \cup {<<"E_RISK_THRESHOLD_EXCEEDED", k>> : k \in {l \in Risk : Exceeds(s, l)}}
<1>1. ASSUME NEW s, IsUnits(s) PROVE SemanticConflicts(s) = Found(s)
    <2> DEFINE Of(keys) == {x \in ToSet(s) : x.key \in keys}
               levels(keys) == {x \in Of(keys) : x.value \in DOMAIN Level}
    <2>1. \A x : x \in ToSet(s) => \E i \in DOMAIN s : s[i] = x
        BY DEF ToSet
    <2>2. \A i \in DOMAIN s : s[i] \in ToSet(s)
        BY DEF ToSet
    <2>3. \A keys, x : x \in Of(keys) => x.key \in keys /\ x.value \in Vals(s, x.key)
        BY <2>1, ValsIs
    <2>4. \A keys : \A k \in keys : \A v \in Vals(s, k) : \E x \in Of(keys) : x.key = k /\ x.value = v
        <3> SUFFICES ASSUME NEW keys, NEW k \in keys, NEW v \in Vals(s, k)
                     PROVE  \E x \in Of(keys) : x.key = k /\ x.value = v
            OBVIOUS
        <3>1. PICK i \in DOMAIN s : s[i].key = k /\ s[i].value = v
            BY ValsIs
        <3>2. s[i] \in Of(keys)
            BY <2>2, <3>1
        <3> QED
            BY <3>1, <3>2
    <2>5. SemanticConflicts(s) =
            {<<"E_DECISION_FINAL_NO_ANSWER", x.key>> : x \in {y \in Of(FinalDecision) : y.value \notin Answer}}
            \cup {<<"E_CONSTRAINT_RULE_EMPTY", x.key>> : x \in {y \in Of(Ruled) : y.value \notin Text}}
            \cup {<<"E_RISK_THRESHOLD_EXCEEDED", x.key>> :
                      x \in {y \in levels(Risk) : \E c \in levels(Constraint) :
                                                   Level[y.value] > Level[c.value]}}
        BY DEF SemanticConflicts
    <2> HIDE DEF Of
    <2>6. {x.key : x \in {y \in Of(FinalDecision) : y.value \notin Answer}}
          = {l \in FinalDecision : Fails(s, l, Answer)}
        BY <2>3, <2>4
    <2>7. {x.key : x \in {y \in Of(Ruled) : y.value \notin Text}}
          = {l \in Ruled : Fails(s, l, Text)}
        BY <2>3, <2>4
    <2>8. {x.key : x \in {y \in levels(Risk) : \E c \in levels(Constraint) :
                                                   Level[y.value] > Level[c.value]}}
          = {l \in Risk : Exceeds(s, l)}
        <3>1. ASSUME NEW x \in levels(Risk), NEW c \in levels(Constraint), Level[x.value] > Level[c.value]
              PROVE  x.key \in Risk /\ Exceeds(s, x.key)
            <4>1. x \in Of(Risk) /\ c \in Of(Constraint) /\ x.value \in DOMAIN Level /\ c.value \in DOMAIN Level
                OBVIOUS
            <4>2. x.key \in Risk /\ x.value \in Vals(s, x.key)
                  /\ c.key \in Constraint /\ c.value \in Vals(s, c.key)
                BY <2>3, <4>1
            <4> QED
                BY <3>1, <4>1, <4>2
        <3>2. ASSUME NEW l \in Risk, Exceeds(s, l)
              PROVE  \E x \in levels(Risk) :
                        /\ x.key = l
                        /\ \E c \in levels(Constraint) : Level[x.value] > Level[c.value]
            <4>1. PICK v \in Vals(s, l) : v \in DOMAIN Level /\
                        \E m \in Constraint : \E y \in Vals(s, m) :
                            y \in DOMAIN Level /\ Level[v] > Level[y]
                BY <3>2
            <4>2. PICK m \in Constraint : \E y \in Vals(s, m) :
                            y \in DOMAIN Level /\ Level[v] > Level[y]
                BY <4>1
            <4>3. PICK y \in Vals(s, m) : y \in DOMAIN Level /\ Level[v] > Level[y]
                BY <4>2
            <4>4. PICK x \in Of(Risk) : x.key = l /\ x.value = v
                BY <2>4
            <4>5. PICK c \in Of(Constraint) : c.key = m /\ c.value = y
                BY <2>4
            <4>6. x \in levels(Risk) /\ c \in levels(Constraint)
                BY <4>1, <4>3, <4>4, <4>5
            <4> QED
                BY <4>3, <4>4, <4>5, <4>6
        <3> HIDE DEF levels, Exceeds
        <3> QED
            BY <3>1, <3>2
    <2> DEFINE FD == {y \in Of(FinalDecision) : y.value \notin Answer}
               RU == {y \in Of(Ruled) : y.value \notin Text}
               RI == {y \in levels(Risk) : \E c \in levels(Constraint) :
                                                   Level[y.value] > Level[c.value]}
    <2>9. \A code, X : {<<code, x.key>> : x \in X} = {<<code, k>> : k \in {x.key : x \in X}}
        OBVIOUS
    <2>10. /\ SemanticConflicts(s) =
                 {<<"E_DECISION_FINAL_NO_ANSWER", x.key>> : x \in FD}
                 \cup {<<"E_CONSTRAINT_RULE_EMPTY", x.key>> : x \in RU}
                 \cup {<<"E_RISK_THRESHOLD_EXCEEDED", x.key>> : x \in RI}
           /\ {x.key : x \in FD} = {l \in FinalDecision : Fails(s, l, Answer)}
           /\ {x.key : x \in RU} = {l \in Ruled : Fails(s, l, Text)}
           /\ {x.key : x \in RI} = {l \in Risk : Exceeds(s, l)}
        BY <2>5, <2>6, <2>7, <2>8
    <2> HIDE DEF FD, RU, RI, Fails, Exceeds
    <2> QED
        BY <2>9, <2>10
<1>2. ASSUME NEW s, IsUnits(s), NEW t, IsUnits(t), LooksLike(s, t), NEW k \in Key
      PROVE  /\ \A V \in SUBSET Scalar : Fails(s, k, V) => Fails(t, k, V)
             /\ Exceeds(s, k) => Exceeds(t, k)
    <2>1. \A x, y : \A V \in SUBSET Scalar : Alike(x, y) => (x \in V <=> y \in V)
        BY DEF Alike, IsArray
    <2>2. \A x, y : Alike(x, y) /\ x \in Scalar => x = y
        BY DEF Alike, IsArray
    <2>3. \A l \in Key : \A x \in Vals(s, l) : \E y \in Vals(t, l) : Alike(x, y)
        BY <1>2 DEF LooksLike, SameSeen
    <2>4. \A V \in SUBSET Scalar : Fails(s, k, V) => Fails(t, k, V)
        BY <2>1, <2>3
    <2>5. Constraint \subseteq Key /\ DOMAIN Level \subseteq Scalar
        BY Conditions
    <2>6. \A l \in Key : \A x \in Vals(s, l) : x \in DOMAIN Level => x \in Vals(t, l)
        BY <2>2, <2>3, <2>5
    <2>7. Exceeds(s, k) => Exceeds(t, k)
        BY <2>5, <2>6
    <2> QED
        BY <2>4, <2>7
<1> HIDE DEF Fails, Exceeds
<1>3. \A k \in Key : /\ \A V \in SUBSET Scalar : Fails(u, k, V) <=> Fails(w, k, V)
                     /\ Exceeds(u, k) <=> Exceeds(w, k)
    BY <1>2, LooksBack
<1>4. /\ FinalDecision \subseteq Key /\ Ruled \subseteq Key /\ Risk \subseteq Key
      /\ Answer \in SUBSET Scalar /\ Text \in SUBSET Scalar
    BY Conditions
<1>5. /\ {l \in FinalDecision : Fails(u, l, Answer)} = {l \in FinalDecision : Fails(w, l, Answer)}
      /\ {l \in Ruled : Fails(u, l, Text)} = {l \in Ruled : Fails(w, l, Text)}
      /\ {l \in Risk : Exceeds(u, l)} = {l \in Risk : Exceeds(w, l)}
    BY <1>3, <1>4
<1>6. Found(u) = Found(w)
    BY <1>5
<1> QED
    BY <1>1, <1>6

\* What looks like units of revisions has their keys: no array names a unit.
LEMMA KeptAsSeen ==
    ASSUME NEW w \in Seq(Unit), NEW k \in Key, NEW X, SameSeen(X, Vals(w, k))
    PROVE  Kept(X, k)
<1>1. k \in Own => \A v : KeyOf(k, v) = k
    BY DEF KeyOf
<1>2. ASSUME k \notin Own, NEW y \in Vals(w, k) PROVE ~IsArray(y) /\ KeyOf(k, y) = k
    <2>1. PICK i \in DOMAIN w : w[i].key = k /\ w[i].value = y
        BY ValsIs
    <2>2. w[i] \in Unit
        BY LenProperties
    <2> DEFINE e == w[i]
    <2> HIDE DEF e
    <2>3. e \in Unit /\ e.key = k /\ e.value = y
        BY <2>1, <2>2 DEF e
    <2> QED
        BY <1>2, <2>3 DEF Unit
<1>3. ASSUME k \notin Own, NEW x \in X PROVE KeyOf(k, x) = k
    <2>1. PICK y \in Vals(w, k) : Alike(x, y)
        BY DEF SameSeen
    <2>2. x = y
        BY <1>2, <1>3, <2>1 DEF Alike
    <2> QED
        BY <1>2, <1>3, <2>2
<1> QED
    BY <1>1, <1>3 DEF Kept

\* What effect e makes of values X looks like values Y.
EffectLeads(X, e, Y) == Misfits(X, e) = {} /\ SameSeen(Effected(X, e), Y)

\* A delta that does to every key what is to be done leads where it should.
LEMMA KeywiseLeads ==
    ASSUME NEW u \in Seq(Unit), KeysUnique(u), NEW w \in Seq(Unit), KeysUnique(w), NEW d,
           \A k \in Key : EffectLeads(Vals(u, k), d[k], Vals(w, k))
    PROVE  /\ Apply(u, d).conflicts = DetectConflicts(w)
           /\ Content(Apply(u, d).units) = Content(w)
<1> DEFINE result == Apply(u, d)
<1>1. IsUnits(u) /\ IsUnits(w)
    BY UnitsAreUnits
<1>6. KeptBy(u, d)
    BY KeptAsSeen DEF KeptBy, EffectLeads
<1>2. /\ IsUnits(result.units)
      /\ \A k \in Key : Vals(result.units, k) = Effected(Vals(u, k), d[k])
      /\ result.conflicts
         = (UNION {{<<code, k>> : code \in Misfits(Vals(u, k), d[k])} : k \in Key})
               \cup SemanticConflicts(result.units)
    BY <1>1, <1>6, ApplyKeywise
<1> HIDE DEF result
<1>3. result.conflicts = SemanticConflicts(result.units)
    <2> DEFINE A(k) == {<<code, k>> : code \in Misfits(Vals(u, k), d[k])}
               sem == SemanticConflicts(result.units)
    <2> HIDE DEF sem
    <2>1. result.conflicts = (UNION {A(k) : k \in Key}) \cup sem /\ \A k \in Key : A(k) = {}
        BY <1>2 DEF EffectLeads, sem
    <2> HIDE DEF A
    <2> QED
        BY <2>1 DEF sem
<1>4. LooksLike(result.units, w)
    BY <1>2 DEF LooksLike, EffectLeads
<1>5. Content(result.units) = Content(w)
    BY <1>1, <1>2, <1>4, ContentIs
<1>7. SemanticConflicts(result.units) = DetectConflicts(w)
    BY <1>1, <1>2, <1>4, ConditionsOfLooks, NothingTwice
<1> QED
    BY <1>3, <1>5, <1>7 DEF result

LEMMA DiffEffectIs ==
    ASSUME NEW u \in Seq(Unit), Plain(u), NEW w \in Seq(Unit), Plain(w), NEW k \in Key
    PROVE  LET e == Diff(u, w)[k] IN
           EffectLeads(Vals(u, k), e, Vals(w, k))
<1> DEFINE e == DiffEffect(u, w, k)
           before == Selected(u, k)
           after == Selected(w, k)
<1>1. Diff(u, w)[k] = e
    BY DEF Diff
<1>2. /\ UnitsOf(u, k) = {} => Vals(u, k) = {}
      /\ UnitsOf(u, k) # {} => /\ Vals(u, k) = {before} /\ before \in Value
                               /\ NoDuplicates(before)
      /\ UnitsOf(w, k) = {} => Vals(w, k) = {}
      /\ UnitsOf(w, k) # {} => /\ Vals(w, k) = {after} /\ after \in Value
                               /\ NoDuplicates(after)
    BY SelectedIs DEF Plain
<1>3. e = CASE UnitsOf(u, k) = {} /\ UnitsOf(w, k) = {}   -> NoEffect
            [] UnitsOf(u, k) = {} /\ UnitsOf(w, k) # {}  -> AddEffect(after)
            [] UnitsOf(u, k) # {} /\ UnitsOf(w, k) = {}  -> RemoveEffect
            [] UnitsOf(u, k) # {} /\ UnitsOf(w, k) # {} ->
                  IF before = after THEN NoEffect
                  ELSE ModifyEffect(before, after, DiffValues(before, after))
    BY DEF DiffEffect
<1> HIDE DEF e, before, after
<1>9. \A x : Alike(x, x)
    BY DEF Alike
<1>4. CASE UnitsOf(u, k) = {} /\ UnitsOf(w, k) = {}
    <2>1. e.kind = "none" /\ Vals(u, k) = {} /\ Vals(w, k) = {}
        BY <1>2, <1>3, <1>4 DEF NoEffect
    <2>2. Misfits(Vals(u, k), e) = {} /\ Effected(Vals(u, k), e) = Vals(u, k)
        BY <2>1 DEF Misfits, Effected
    <2> QED
        BY <1>1, <2>1, <2>2 DEF EffectLeads, SameSeen
<1>5. CASE UnitsOf(u, k) = {} /\ UnitsOf(w, k) # {}
    <2>1. e.kind = "add" /\ e.value = after /\ Vals(u, k) = {} /\ Vals(w, k) = {after}
        BY <1>2, <1>3, <1>5 DEF AddEffect
    <2>2. Misfits(Vals(u, k), e) = {} /\ Effected(Vals(u, k), e) = {after}
        BY <2>1 DEF Misfits, Effected
    <2> QED
        BY <1>1, <1>9, <2>1, <2>2 DEF EffectLeads, SameSeen
<1>6. CASE UnitsOf(u, k) # {} /\ UnitsOf(w, k) = {}
    <2>1. e.kind = "remove" /\ Vals(u, k) # {} /\ Vals(w, k) = {}
        BY <1>2, <1>3, <1>6 DEF RemoveEffect
    <2>2. Misfits(Vals(u, k), e) = {} /\ Effected(Vals(u, k), e) = {}
        BY <2>1 DEF Misfits, Effected
    <2> QED
        BY <1>1, <2>1, <2>2 DEF EffectLeads, SameSeen
<1>7. CASE UnitsOf(u, k) # {} /\ UnitsOf(w, k) # {} /\ before = after
    <2>1. e.kind = "none" /\ Vals(u, k) = {after} /\ Vals(w, k) = {after}
        BY <1>2, <1>3, <1>7 DEF NoEffect
    <2>2. Misfits(Vals(u, k), e) = {} /\ Effected(Vals(u, k), e) = Vals(u, k)
        BY <2>1 DEF Misfits, Effected
    <2> QED
        BY <1>1, <1>9, <2>1, <2>2 DEF EffectLeads, SameSeen
<1>8. CASE UnitsOf(u, k) # {} /\ UnitsOf(w, k) # {} /\ before # after
    <2> DEFINE v == ApplyChanges(before, DiffValues(before, after))
    <2>1. /\ e.kind = "modify" /\ e.changes = DiffValues(before, after)
          /\ Vals(u, k) = {before} /\ Vals(w, k) = {after}
        BY <1>2, <1>3, <1>8 DEF ModifyEffect
    <2>2. Misfits(Vals(u, k), e) = {} /\ Effected(Vals(u, k), e) = {v}
        BY <2>1 DEF Misfits, Effected
    <2>3. Alike(v, after)
        BY <1>2, <1>8, DiffValuesLead
    <2> HIDE DEF v
    <2> QED
        BY <1>1, <2>1, <2>2, <2>3 DEF EffectLeads, SameSeen
<1> QED
    BY <1>4, <1>5, <1>6, <1>7, <1>8

\* The difference of two plain states, applied to the first, meets no conflict but
\* those of the second, and leads there (diffState, applyDelta).
THEOREM DiffLeads ==
    ASSUME NEW u \in Seq(Unit), Plain(u), NEW w \in Seq(Unit), Plain(w)
    PROVE  /\ Apply(u, Diff(u, w)).conflicts = DetectConflicts(w)
           /\ Content(Apply(u, Diff(u, w)).units) = Content(w)
<1> DEFINE d == Diff(u, w)
<1>1. KeysUnique(u) /\ KeysUnique(w)
    BY DEF Plain
<1>2. \A k \in Key : EffectLeads(Vals(u, k), d[k], Vals(w, k))
    BY DiffEffectIs
<1> HIDE DEF d
<1>3. /\ Apply(u, d).conflicts = DetectConflicts(w)
      /\ Content(Apply(u, d).units) = Content(w)
    BY <1>1, <1>2, KeywiseLeads
<1> QED
    BY <1>3 DEF d

\* Between related revisions of which the first is no ancestor of the second,
\* the net delta leads to the second and meets no conflict but those of the
\* second (computeCrossBranchNetDelta).
THEOREM CrossBranchIsExactAlways == TreeSpec => []CrossBranchIsExact
<1>1. TreeType => CrossBranchIsExact
    <2> SUFFICES ASSUME TreeType, AllPlain,
                        NEW from \in DOMAIN revisions, NEW to \in DOMAIN revisions,
                        ~IsAncestor(from, to)
                 PROVE  Leads(CrossBranchNetDelta(from, to), from, to)
        BY DEF CrossBranchIsExact
    <2> DEFINE u == revisions[from].units
               w == revisions[to].units
    <2>1. CrossBranchNetDelta(from, to) = Diff(u, w)
        BY DEF CrossBranchNetDelta, DiffRevisions
    <2>2. u \in Seq(Unit) /\ w \in Seq(Unit) /\ Plain(u) /\ Plain(w)
        BY UnitsOfRevision DEF AllPlain
    <2>3. /\ Apply(u, Diff(u, w)).conflicts = DetectConflicts(w)
          /\ Content(Apply(u, Diff(u, w)).units) = Content(w)
        BY <2>2, DiffLeads
    <2> QED
        BY <2>1, <2>3 DEF Leads
<1> QED
    BY <1>1, TreeTyped, PTL

-----------------------------------------------------------------------------
(* Compositions along a path *)

Step(path, i) == DiffRevisions(path[i], path[i + 1])

\* The compositions of the first steps of a path.
AreComposed(g, path, n) ==
    /\ g[1] = Step(path, 1)
    /\ \A i \in 2..n : g[i] = Compose(g[i - 1], Step(path, i))
    /\ g[n] = Compressed(path)

LEMMA CompressedIs ==
    ASSUME NEW path, Len(path) \in Nat, Len(path) >= 2
    PROVE  \E g : AreComposed(g, path, Len(path) - 1)
<1> DEFINE n == Len(path) - 1
           step(i) == DiffRevisions(path[i], path[i + 1])
           at(h, i) == IF i = 1 THEN step(1) ELSE Compose(h[i - 1], step(i))
           Table(k, h) == h = [i \in 1..k |-> at(h, i)]
           I == CHOOSE h : h = [i \in 1..n |-> at(h, i)]
<1>1. Compressed(path) = I[n]
    BY DEF Compressed
<1>2. n \in Nat /\ n >= 1
    OBVIOUS
<1> HIDE DEF n, step
<1> DEFINE S == {k \in Nat : \E h : Table(k, h)}
<1>3. 0 \in S
    <2>1. Table(0, [i \in 1..0 |-> step(1)])
        OBVIOUS
    <2> QED
        BY <2>1
<1>4. ASSUME NEW k \in Nat, k \in S PROVE k + 1 \in S
    <2>1. PICK h : Table(k, h)
        BY <1>4
    <2> DEFINE j == [i \in 1..(k + 1) |-> IF i = k + 1 THEN at(h, i) ELSE h[i]]
    <2>2. ASSUME NEW i \in 1..(k + 1) PROVE j[i] = at(j, i)
        <3>1. i # 1 => i - 1 \in 1..k /\ j[i - 1] = h[i - 1]
            OBVIOUS
        <3>2. at(j, i) = at(h, i)
            <4> HIDE DEF j
            <4> QED
                BY <3>1
        <3>3. j[i] = at(h, i)
            <4>1. CASE i = k + 1
                BY <4>1
            <4>2. CASE i # k + 1
                <5>1. i \in 1..k /\ j[i] = h[i]
                    BY <4>2
                <5> HIDE DEF j, at
                <5> QED
                    BY <2>1, <5>1
            <4> QED
                BY <4>1, <4>2
        <3> QED
            BY <3>2, <3>3
    <2>3. Table(k + 1, j)
        <3> HIDE DEF at
        <3> QED
            BY <2>2
    <2> HIDE DEF j, Table
    <2> QED
        BY <2>3
<1> HIDE DEF S, Table
<1>5. n \in S
    <2>1. Nat \subseteq S
        BY <1>3, <1>4, InductionOnSet
    <2> QED
        BY <1>2, <2>1
<1>6. PICK h : Table(n, h)
    BY <1>5 DEF S
<1> HIDE DEF at
<1>7. I = [i \in 1..n |-> at(I, i)]
    BY <1>6 DEF Table
<1> HIDE DEF I
<1>8. \A i \in 1..n : I[i] = at(I, i)
    BY <1>7
<1>9. I[1] = step(1)
    BY <1>2, <1>8 DEF at
<1>10. \A i \in 2..n : I[i] = Compose(I[i - 1], step(i))
    <2>1. \A i \in 2..n : i \in 1..n /\ i # 1
        BY <1>2
    <2> QED
        BY <1>8, <2>1 DEF at
<1>11. AreComposed(I, path, n)
    BY <1>1, <1>9, <1>10 DEF AreComposed, Step, step
<1> QED
    BY <1>11 DEF n

IsEffect(e) ==
    \/ e = NoEffect \/ e = RemoveEffect
    \/ \E v : e = AddEffect(v)
    \/ \E b, a, c : e = ModifyEffect(b, a, c)

\* A modification may turn out to be none.
Kinds(kind) == IF kind = "modify" THEN {"modify", "none"} ELSE {kind}

LEMMA EffectKinds ==
    ASSUME NEW e, IsEffect(e)
    PROVE  /\ e.kind \in {"none", "add", "remove", "modify"}
           /\ e.kind = "none" <=> e = NoEffect
           /\ e.kind = "remove" => e = RemoveEffect
           /\ e.kind = "add" => e = AddEffect(e.value)
           /\ e.kind = "modify" => e = ModifyEffect(e.before, e.after, e.changes)
BY DEF IsEffect, NoEffect, RemoveEffect, AddEffect, ModifyEffect

LEMMA EffectsAre ==
    /\ IsEffect(NoEffect) /\ NoEffect.kind = "none"
    /\ IsEffect(RemoveEffect) /\ RemoveEffect.kind = "remove"
    /\ \A v : IsEffect(AddEffect(v)) /\ AddEffect(v).kind = "add" /\ AddEffect(v).value = v
    /\ \A b, a, c : LET e == ModifyEffect(b, a, c) IN
          IsEffect(e) /\ e.kind = "modify" /\ e.before = b /\ e.after = a /\ e.changes = c
BY DEF IsEffect, NoEffect, RemoveEffect, AddEffect, ModifyEffect

LEMMA NormalizeIs ==
    ASSUME NEW e, IsEffect(e)
    PROVE  /\ IsEffect(Normalize(e)) /\ Normalize(e).kind \in Kinds(e.kind)
           /\ e.kind # "modify" => Normalize(e) = e
           /\ e.kind = "modify" =>
                LET c == ComposeChanges(<<>>, e.changes) IN
                Normalize(e) = IF c = <<>> THEN NoEffect ELSE ModifyEffect(e.before, e.after, c)
<1>1. CASE e.kind # "modify"
    BY <1>1 DEF Normalize, Kinds
<1>2. CASE e.kind = "modify"
    <2>1. e = ModifyEffect(e.before, e.after, e.changes)
        BY <1>2, EffectKinds
    <2> DEFINE c == ComposeChanges(<<>>, e.changes)
    <2>2. Normalize(e) = IF c = <<>> THEN NoEffect ELSE [e EXCEPT !.changes = c]
        BY <1>2 DEF Normalize
    <2> HIDE DEF c
    <2>3. [e EXCEPT !.changes = c] = ModifyEffect(e.before, e.after, c)
        <3>1. \A x, y, z : [ModifyEffect(x, y, z) EXCEPT !.changes = c] = ModifyEffect(x, y, c)
            BY DEF ModifyEffect
        <3> QED
            BY <2>1, <3>1
    <2>4. Normalize(e) = IF c = <<>> THEN NoEffect ELSE ModifyEffect(e.before, e.after, c)
        BY <2>2, <2>3
    <2>5. IsEffect(Normalize(e)) /\ Normalize(e).kind \in {"modify", "none"}
        BY <2>4, EffectsAre
    <2> QED
        BY <1>2, <2>4, <2>5 DEF c, Kinds
<1> QED
    BY <1>1, <1>2

\* The composition of two effects, each normalised first.
Composed(l, r) == ComposeEffects(ComposeEffects(NoEffect, l), ComposeEffects(NoEffect, r))

LEMMA ComposedIs ==
    ASSUME NEW l, NEW r
    PROVE  Composed(l, r) = ComposeEffects(Normalize(l), Normalize(r))
BY DEF Composed, ComposeEffects

\* The kinds of compositions (the table of STATE_ALGEBRA.md).
LEMMA ComposedKind ==
    ASSUME NEW l, IsEffect(l), NEW r, IsEffect(r)
    PROVE  LET e == Composed(l, r) IN
           /\ IsEffect(e)
           /\ e.kind \in CASE r.kind = "none"   -> Kinds(l.kind)
                            [] r.kind = "add"    -> {"add"}
                            [] r.kind = "remove" -> IF l.kind = "add" THEN {"none"} ELSE {"remove"}
                            [] r.kind = "modify" ->
                                  IF l.kind \in {"add", "remove"} THEN {l.kind} ELSE {"modify", "none"}
<1> DEFINE a == Normalize(l)
           b == Normalize(r)
           e == ComposeEffects(a, b)
<1>1. Composed(l, r) = e
    BY ComposedIs
<1>2. /\ IsEffect(a) /\ a.kind \in Kinds(l.kind)
      /\ IsEffect(b) /\ b.kind \in Kinds(r.kind)
    BY NormalizeIs
<1> HIDE DEF a, b
<1>3. CASE a = NoEffect
    <2>1. e = Normalize(b)
        BY <1>3 DEF ComposeEffects
    <2>2. IsEffect(e) /\ e.kind \in Kinds(b.kind)
        BY <1>2, <2>1, NormalizeIs
    <2>3. l.kind \in {"none", "modify"}
        BY <1>2, <1>3, EffectsAre DEF Kinds
    <2> HIDE DEF e
    <2> QED
        BY <1>1, <1>2, <2>2, <2>3, EffectKinds DEF Kinds
<1>4. CASE a # NoEffect /\ b = NoEffect
    <2>1. e = Normalize(a)
        BY <1>4 DEF ComposeEffects
    <2>2. IsEffect(e) /\ e.kind \in Kinds(a.kind)
        BY <1>2, <2>1, NormalizeIs
    <2>3. r.kind \in {"none", "modify"}
        BY <1>2, <1>4, EffectsAre DEF Kinds
    <2>4. a.kind = l.kind
        BY <1>2, <1>4, EffectKinds DEF Kinds
    <2> HIDE DEF e
    <2> QED
        BY <1>1, <1>2, <2>2, <2>3, <2>4, EffectKinds DEF Kinds
<1>5. CASE a # NoEffect /\ b # NoEffect
    <2>1. a.kind = l.kind /\ b.kind = r.kind
          /\ a.kind \in {"add", "remove", "modify"} /\ b.kind \in {"add", "remove", "modify"}
        BY <1>2, <1>5, EffectKinds DEF Kinds
    <2>2. CASE b.kind = "add"
        BY <1>1, <1>2, <1>5, <2>1, <2>2 DEF ComposeEffects
    <2>3. CASE b.kind = "remove"
        <3>1. e = ThenRemove(a)
            BY <1>5, <2>3 DEF ComposeEffects
        <3>2. e = IF a.kind = "add" THEN NoEffect ELSE RemoveEffect
            BY <3>1 DEF ThenRemove
        <3> HIDE DEF e
        <3> QED
            BY <1>1, <2>1, <2>3, <3>2, EffectsAre
    <2>4. CASE b.kind = "modify" /\ a.kind = "add"
        <3>1. e = AddThenModify(a, b)
            BY <1>5, <2>4 DEF ComposeEffects
        <3>2. e = a \/ \E v : e = AddEffect(v)
            BY <3>1 DEF AddThenModify
        <3> HIDE DEF e
        <3>3. IsEffect(e) /\ e.kind = "add"
            BY <1>2, <2>4, <3>2, EffectsAre
        <3> QED
            BY <1>1, <2>1, <2>4, <3>3
    <2>5. CASE b.kind = "modify" /\ a.kind = "remove"
        <3>1. e = RemoveEffect
            BY <1>5, <2>5 DEF ComposeEffects
        <3> HIDE DEF e
        <3> QED
            BY <1>1, <2>1, <2>5, <3>1, EffectsAre
    <2>6. CASE b.kind = "modify" /\ a.kind = "modify"
        <3>1. e = ModifyTwice(a, b)
            BY <1>5, <2>6 DEF ComposeEffects
        <3>2. e = NoEffect \/ \E x, y, z : e = ModifyEffect(x, y, z)
            BY <3>1 DEF ModifyTwice
        <3> HIDE DEF e
        <3>3. IsEffect(e) /\ e.kind \in {"modify", "none"}
            BY <3>2, EffectsAre
        <3> QED
            BY <1>1, <2>1, <2>6, <3>3
    <2> QED
        BY <2>1, <2>2, <2>3, <2>4, <2>5, <2>6
<1> QED
    BY <1>3, <1>4, <1>5

LEMMA DiffKind ==
    ASSUME NEW u, NEW w, NEW k \in Key
    PROVE  LET e == Diff(u, w)[k] IN
           /\ IsEffect(e)
           /\ e.kind = "none" => (UnitsOf(u, k) # {} <=> UnitsOf(w, k) # {})
           /\ e.kind = "add" => UnitsOf(u, k) = {} /\ UnitsOf(w, k) # {}
           /\ e.kind = "remove" => UnitsOf(u, k) # {} /\ UnitsOf(w, k) = {}
           /\ e.kind = "modify" => UnitsOf(u, k) # {} /\ UnitsOf(w, k) # {}
<1> DEFINE e == DiffEffect(u, w, k)
           before == Selected(u, k)
           after == Selected(w, k)
<1>1. Diff(u, w)[k] = e
    BY DEF Diff
<1>2. e = CASE UnitsOf(u, k) = {} /\ UnitsOf(w, k) = {}   -> NoEffect
            [] UnitsOf(u, k) = {} /\ UnitsOf(w, k) # {}  -> AddEffect(after)
            [] UnitsOf(u, k) # {} /\ UnitsOf(w, k) = {}  -> RemoveEffect
            [] UnitsOf(u, k) # {} /\ UnitsOf(w, k) # {} ->
                  IF before = after THEN NoEffect
                  ELSE ModifyEffect(before, after, DiffValues(before, after))
    BY DEF DiffEffect
<1> HIDE DEF e, before, after
<1>3. CASE UnitsOf(u, k) = {}
    BY <1>1, <1>2, <1>3, EffectsAre
<1>4. CASE UnitsOf(u, k) # {}
    BY <1>1, <1>2, <1>4, EffectsAre
<1> QED
    BY <1>3, <1>4

\* There was no unit at some place of the path up to i.
Missed(path, k, i) == \E j \in 1..i : ~Has(path[j], k)

\* What the kind of a composed effect says of the units on the way.
Fits(path, k, i, e) ==
    /\ IsEffect(e)
    /\ Missed(path, k, i) /\ Has(path[i], k) => e.kind = "add"
    /\ e.kind = "none" => (Has(path[i], k) => Has(path[1], k))
    /\ e.kind = "add" => Has(path[i], k) /\ (Has(path[1], k) => UnitReturns(path, k))
    /\ e.kind = "remove" => Has(path[1], k) /\ ~Has(path[i], k)
    /\ e.kind = "modify" => Has(path[1], k) /\ Has(path[i], k)

LEMMA ComposedFits ==
    ASSUME NEW path, NEW n \in Nat, n >= 1, DOMAIN path = 1..(n + 1),
           NEW g, AreComposed(g, path, n), NEW k \in Key
    PROVE  Fits(path, k, n + 1, Compressed(path)[k])
<1>1. ASSUME NEW i \in 1..n
      PROVE  LET e == Step(path, i)[k] IN
             /\ IsEffect(e)
             /\ e.kind = "none" => (Has(path[i], k) <=> Has(path[i + 1], k))
             /\ e.kind = "add" => ~Has(path[i], k) /\ Has(path[i + 1], k)
             /\ e.kind = "remove" => Has(path[i], k) /\ ~Has(path[i + 1], k)
             /\ e.kind = "modify" => Has(path[i], k) /\ Has(path[i + 1], k)
    BY DiffKind DEF Step, DiffRevisions, Has
<1> DEFINE S == {i \in Nat : i + 1 <= n => Fits(path, k, i + 2, g[i + 1][k])}
<1>2. 0 \in S
    <2>1. g[1] = Step(path, 1) /\ 1 \in 1..n /\ 1 + 1 = 2
        BY DEF AreComposed
    <2> DEFINE e == g[1][k]
    <2>2. /\ IsEffect(e)
          /\ e.kind = "none" => (Has(path[1], k) <=> Has(path[2], k))
          /\ e.kind = "add" => ~Has(path[1], k) /\ Has(path[2], k)
          /\ e.kind = "remove" => Has(path[1], k) /\ ~Has(path[2], k)
          /\ e.kind = "modify" => Has(path[1], k) /\ Has(path[2], k)
        BY <1>1, <2>1
    <2>4. \A j \in 1..2 : j = 1 \/ j = 2
        OBVIOUS
    <2>5. Missed(path, k, 2) /\ Has(path[2], k) => ~Has(path[1], k)
        BY <2>4 DEF Missed
    <2>6. e.kind \in {"none", "add", "remove", "modify"}
        BY <2>2, EffectKinds
    <2>3. Fits(path, k, 2, e)
        BY <2>2, <2>5, <2>6 DEF Fits
    <2> QED
        BY <2>3
<1>3. ASSUME NEW m \in Nat, m \in S PROVE m + 1 \in S
    <2> SUFFICES ASSUME m + 2 <= n PROVE Fits(path, k, m + 3, g[m + 2][k])
        OBVIOUS
    <2> DEFINE i == m + 2
               l == g[m + 1][k]
               r == Step(path, i)[k]
               e == g[i][k]
    <2>1. i \in 2..n /\ i \in 1..n /\ i - 1 = m + 1 /\ i + 1 = m + 3 /\ i > 1
          /\ 1 \in DOMAIN path /\ i \in DOMAIN path /\ i + 1 \in DOMAIN path /\ i < i + 1
        OBVIOUS
    <2>2. Fits(path, k, i, l)
        BY <1>3
    <2>3. e = Composed(l, r)
        <3>1. g[i] = Compose(g[i - 1], Step(path, i))
            BY <2>1 DEF AreComposed
        <3> QED
            BY <2>1, <3>1 DEF Compose, Composed
    <2> HIDE DEF i, l, r, e
    <2>4. /\ IsEffect(r)
          /\ r.kind = "none" => (Has(path[i], k) <=> Has(path[i + 1], k))
          /\ r.kind = "add" => ~Has(path[i], k) /\ Has(path[i + 1], k)
          /\ r.kind = "remove" => Has(path[i], k) /\ ~Has(path[i + 1], k)
          /\ r.kind = "modify" => Has(path[i], k) /\ Has(path[i + 1], k)
        BY <1>1, <2>1 DEF r
    <2>5. l.kind \in {"none", "add", "remove", "modify"}
          /\ r.kind \in {"none", "add", "remove", "modify"} /\ IsEffect(l)
        BY <2>2, <2>4, EffectKinds DEF Fits
    <2>6. /\ IsEffect(e)
          /\ e.kind \in CASE r.kind = "none"   -> Kinds(l.kind)
                           [] r.kind = "add"    -> {"add"}
                           [] r.kind = "remove" -> IF l.kind = "add" THEN {"none"} ELSE {"remove"}
                           [] r.kind = "modify" ->
                                 IF l.kind \in {"add", "remove"} THEN {l.kind} ELSE {"modify", "none"}
        BY <2>3, <2>4, <2>5, ComposedKind
    <2>7. /\ r.kind = "none" => e.kind \in Kinds(l.kind)
          /\ r.kind = "add" => e.kind = "add"
          /\ r.kind = "remove" => e.kind = IF l.kind = "add" THEN "none" ELSE "remove"
          /\ r.kind = "modify" => IF l.kind \in {"add", "remove"} THEN e.kind = l.kind
                                 ELSE e.kind \in {"modify", "none"}
        BY <2>6
    <2> DEFINE has == Has(path[1], k)
               was == Has(path[i], k)
               is == Has(path[i + 1], k)
               returns == UnitReturns(path, k)
               missed == Missed(path, k, i)
               missing == Missed(path, k, i + 1)
               a == l.kind
               b == r.kind
               c == e.kind
    <2>8. b = "add" /\ has => returns
        BY <2>1, <2>4 DEF UnitReturns
    <2>13. missing => missed \/ ~is
        <3>1. \A j \in 1..(i + 1) : j \in 1..i \/ j = i + 1
            BY <2>1
        <3> QED
            BY <3>1 DEF Missed
    <2>9. /\ missed /\ was => a = "add"
          /\ a = "none" => (was => has)
          /\ a = "add" => was /\ (has => returns)
          /\ a = "remove" => has /\ ~was
          /\ a = "modify" => has /\ was
        BY <2>2 DEF Fits
    <2>10. /\ b = "none" => (was <=> is)
           /\ b = "add" => ~was /\ is
           /\ b = "remove" => was /\ ~is
           /\ b = "modify" => was /\ is
        BY <2>4
    <2> HIDE DEF has, was, is, returns, missed, missing, a, b, c
    <2>12. /\ missing /\ is => c = "add"
           /\ c = "none" => (is => has)
           /\ c = "add" => is /\ (has => returns)
           /\ c = "remove" => has /\ ~is
           /\ c = "modify" => has /\ is
        <3>1. CASE b = "none"
            <4>1. c \in Kinds(a)
                BY <2>7, <3>1 DEF a, b, c
            <4>2. IF a = "modify" THEN c \in {"modify", "none"} ELSE c = a
                BY <4>1 DEF Kinds
            <4> QED
                BY <2>9, <2>10, <3>1, <4>2, <2>13
        <3>2. CASE b = "add"
            <4>1. c = "add"
                BY <2>7, <3>2 DEF b, c
            <4> QED
                BY <2>8, <2>10, <3>2, <4>1, <2>13
        <3>3. CASE b = "remove"
            <4>1. c = IF a = "add" THEN "none" ELSE "remove"
                BY <2>7, <3>3 DEF a, b, c
            <4>2. a \in {"none", "add", "remove", "modify"}
                BY <2>5 DEF a
            <4> QED
                BY <2>9, <2>10, <3>3, <4>1, <4>2, <2>13
        <3>4. CASE b = "modify"
            <4>1. IF a \in {"add", "remove"} THEN c = a ELSE c \in {"modify", "none"}
                BY <2>7, <3>4 DEF a, b, c
            <4>2. a \in {"none", "add", "remove", "modify"}
                BY <2>5 DEF a
            <4> QED
                BY <2>9, <2>10, <3>4, <4>1, <4>2, <2>13
        <3>5. b \in {"none", "add", "remove", "modify"}
            BY <2>5 DEF b
        <3> QED
            BY <3>1, <3>2, <3>3, <3>4, <3>5
    <2>11. Fits(path, k, i + 1, e)
        BY <2>6, <2>12 DEF Fits, c, is, has, returns, missing
    <2> QED
        BY <2>1, <2>11 DEF e, i
<1> HIDE DEF S
<1>4. Nat \subseteq S
    BY <1>2, <1>3, InductionOnSet
<1>5. n - 1 \in S /\ n - 1 + 2 = n + 1 /\ n - 1 + 1 = n
    BY <1>4
<1>6. Fits(path, k, n + 1, g[n][k])
    BY <1>5 DEF S
<1> QED
    BY <1>6 DEF AreComposed

\* What a net delta along a path does to a key.
LEMMA NetFits ==
    ASSUME TreeType, NEW to \in DOMAIN revisions, NEW from \in ToSet(Line[to]), NEW k \in Key
    PROVE  LET path == AncestorPath(from, to) IN
           Fits(path, k, Len(path), CrossBranchNetDelta(from, to)[k])
<1> DEFINE path == AncestorPath(from, to)
           D == DOMAIN revisions
<1>1. CrossBranchNetDelta(from, to) = Compressed(path)
    BY DEF CrossBranchNetDelta, IsAncestor
<1>2. path \in Seq(D) /\ Len(path) \in Nat \ {0}
    BY PathIs
<1> HIDE DEF path, D
<1>3. DOMAIN path = 1..Len(path)
    BY <1>2, LenProperties
<1>4. CASE Len(path) = 1
    <2>1. Compressed(path) = Empty
        BY <1>4 DEF Compressed
    <2>2. Empty[k] = NoEffect
        BY DEF Empty
    <2>4. ~(Missed(path, k, 1) /\ Has(path[1], k))
        BY DEF Missed
    <2>3. Fits(path, k, 1, NoEffect)
        BY <2>4, EffectsAre DEF Fits
    <2> QED
        BY <1>1, <1>4, <2>1, <2>2, <2>3 DEF path
<1>5. CASE Len(path) # 1
    <2> DEFINE n == Len(path) - 1
    <2>1. n \in Nat /\ n >= 1 /\ n + 1 = Len(path) /\ Len(path) >= 2 /\ Len(path) \in Nat
        <3> DEFINE m == Len(path)
        <3>1. m \in Nat /\ m # 0 /\ m # 1
            BY <1>2, <1>5
        <3> HIDE DEF m
        <3>2. m - 1 \in Nat /\ m - 1 >= 1 /\ (m - 1) + 1 = m /\ m >= 2 /\ m \in Nat
            BY <3>1
        <3> QED
            BY <3>2 DEF m
    <2>2. PICK g : AreComposed(g, path, n)
        BY <2>1, CompressedIs
    <2>3. DOMAIN path = 1..(n + 1)
        BY <1>3, <2>1
    <2> HIDE DEF n
    <2>4. Fits(path, k, n + 1, Compressed(path)[k])
        BY <2>1, <2>2, <2>3, ComposedFits
    <2> QED
        BY <1>1, <2>1, <2>4 DEF path
<1> QED
    BY <1>4, <1>5

-----------------------------------------------------------------------------
(* Composed changes *)

\* What ComposeChanges keeps of a list of changes.
Merged(list) == FoldLeft(MergeChange, {}, list)

AreMerged(f, list, n) ==
    /\ f[0] = {}
    /\ \A i \in 1..n : f[i] = MergeChange(f[i - 1], list[i])
    /\ f[n] = Merged(list)

LEMMA MergedRunOf ==
    ASSUME NEW n \in Nat, NEW list, DOMAIN list = 1..n
    PROVE  \E f : AreMerged(f, list, n)
<1> DEFINE at(it, s) ==
               IF s = {} THEN {}
               ELSE MergeChange(it[s \ {Max(s)}], list[Max(s)])
           body(it) == [s \in SUBSET (1..n) |-> at(it, s)]
           I == CHOOSE it : it = body(it)
           Table(k, h) == h = [s \in SUBSET (1..k) |-> at(h, s)]
<1>1. Merged(list) = I[1..n]
    BY DEF Merged, FoldLeft, MapThenFoldSet
<1>2. \A k \in Nat : \E h : Table(k, h)
    <2> DEFINE S == {k \in Nat : \E h : Table(k, h)}
    <2>1. 0 \in S
        <3>1. Table(0, [s \in SUBSET (1..0) |-> {}])
            OBVIOUS
        <3> QED
            BY <3>1
    <2>2. ASSUME NEW k \in Nat, k \in S PROVE k + 1 \in S
        <3>1. PICK h : Table(k, h)
            BY <2>2
        <3> DEFINE j == [s \in SUBSET (1..(k + 1)) |->
                            IF k + 1 \in s
                            THEN MergeChange(h[s \ {k + 1}], list[k + 1])
                            ELSE h[s]]
        <3>2. ASSUME NEW s \in SUBSET (1..(k + 1)) PROVE j[s] = at(j, s)
            <4>1. CASE k + 1 \in s
                <5>1. Max(s) = k + 1
                    BY <4>1, MaxOfFirst
                <5>2. s \ {k + 1} \in SUBSET (1..(k + 1)) /\ k + 1 \notin s \ {k + 1}
                    OBVIOUS
                <5> HIDE DEF at
                <5>3. j[s \ {k + 1}] = h[s \ {k + 1}]
                    BY <5>2
                <5> QED
                    BY <4>1, <5>1, <5>3 DEF at
            <4>2. CASE k + 1 \notin s
                <5>1. s \in SUBSET (1..k)
                    BY <4>2
                <5>2. CASE s = {}
                    BY <3>1, <4>2, <5>1, <5>2
                <5>3. CASE s # {}
                    <6>1. s \ {Max(s)} \in SUBSET (1..k)
                        BY <5>1
                    <6>2. j[s \ {Max(s)}] = h[s \ {Max(s)}]
                        BY <6>1
                    <6>3. h[s] = at(h, s)
                        BY <3>1, <5>1
                    <6> QED
                        BY <4>2, <5>3, <6>2, <6>3
                <5> QED
                    BY <5>2, <5>3
            <4> QED
                BY <4>1, <4>2
        <3>3. Table(k + 1, j)
            <4> HIDE DEF at
            <4> QED
                BY <3>2
        <3> HIDE DEF j, Table
        <3> QED
            BY <3>3
    <2> HIDE DEF S, Table
    <2>3. Nat \subseteq S
        BY <2>1, <2>2, InductionOnSet
    <2> QED
        BY <2>3 DEF S
<1> HIDE DEF at
<1>3. I = body(I)
    <2>1. PICK h : Table(n, h)
        BY <1>2
    <2>2. h = body(h)
        BY <2>1
    <2> HIDE DEF body
    <2> QED
        BY <2>2
<1> HIDE DEF I
<1> DEFINE f == [i \in 0..n |-> I[1..i]]
<1>4. f[0] = {} /\ f[n] = Merged(list)
    <2>1. f[n] = I[1..n]
        OBVIOUS
    <2>2. f[0] = I[1..0]
        OBVIOUS
    <2> HIDE DEF f
    <2>3. f[n] = Merged(list)
        BY <1>1, <2>1
    <2>4. 1..0 = {} /\ {} \in SUBSET (1..n)
        OBVIOUS
    <2>5. I[{}] = at(I, {})
        BY <1>3, <2>4
    <2>6. at(I, {}) = {}
        BY DEF at
    <2> QED
        BY <2>2, <2>3, <2>4, <2>5, <2>6
<1>5. ASSUME NEW i \in 1..n PROVE f[i] = MergeChange(f[i - 1], list[i])
    <2>1. 1..i \in SUBSET (1..n) /\ 1..i # {} /\ Max(1..i) = i
        BY MaxOfFirst
    <2>2. (1..i) \ {i} = 1..(i - 1) /\ i - 1 \in 0..n
        OBVIOUS
    <2>3. I[1..i] = at(I, 1..i)
        BY <1>3, <2>1
    <2>4. at(I, 1..i) = MergeChange(I[1..(i - 1)], list[i])
        BY <2>1, <2>2 DEF at
    <2>5. f[i] = I[1..i] /\ f[i - 1] = I[1..(i - 1)]
        BY <2>2
    <2> HIDE DEF f
    <2> QED
        BY <2>3, <2>4, <2>5
<1> HIDE DEF f
<1>6. AreMerged(f, list, n)
    BY <1>4, <1>5 DEF AreMerged
<1> QED
    BY <1>6

\* A change that a FieldChange can be.
IsChange(c) ==
    /\ c.op \in {"set", "unset", "append", "remove"}
    /\ ArrayOp(c) => c.value \in Element

AreAll(list) == \E S : list \in Seq(S) /\ \A c \in S : IsChange(c)

LEMMA MergeChangeIs ==
    ASSUME NEW B, IsBucket(B), NEW c, IsChange(c)
    PROVE  IsBucket(MergeChange(B, c))
<1> DEFINE kept == {x \in B : ArrayOp(x) /\ x.value # c.value}
           M == MergeChange(B, c)
<1>1. IsFiniteSet(kept) /\ IsFiniteSet({c})
    BY FS_Subset, FS_Singleton DEF IsBucket
<1>2. IsFiniteSet(kept \cup {c})
    BY <1>1, FS_Union
<1>3. M = IF ArrayOp(c) THEN kept \cup {c} ELSE {c}
    BY DEF MergeChange
<1>4. \A x \in kept : x \in B /\ ArrayOp(x) /\ x.value # c.value
    OBVIOUS
<1> HIDE DEF kept, M
<1>5. IsFiniteSet(M)
    BY <1>1, <1>2, <1>3
<1>6. \A a \in M : IsChange(a)
    BY <1>3, <1>4 DEF IsBucket, IsChange
<1>7. \A a, b \in M : a # b => ArrayOp(a) /\ ArrayOp(b) /\ a.value # b.value
    BY <1>3, <1>4 DEF IsBucket
<1> QED
    BY <1>5, <1>6, <1>7 DEF IsBucket, IsChange, M

LEMMA MergedIs ==
    ASSUME NEW list, AreAll(list)
    PROVE  IsBucket(Merged(list))
<1>1. PICK S : list \in Seq(S) /\ \A c \in S : IsChange(c)
    BY DEF AreAll
<1> DEFINE n == Len(list)
<1>2. n \in Nat /\ DOMAIN list = 1..n /\ \A i \in 1..n : IsChange(list[i])
    BY <1>1, LenProperties
<1> HIDE DEF n
<1>3. PICK f : AreMerged(f, list, n)
    BY <1>2, MergedRunOf
<1> DEFINE T == {i \in Nat : i <= n => IsBucket(f[i])}
<1>4. 0 \in T
    <2>1. f[0] = {}
        BY <1>3 DEF AreMerged
    <2>2. IsBucket({})
        BY FS_EmptySet DEF IsBucket
    <2> QED
        BY <2>1, <2>2
<1>5. ASSUME NEW i \in Nat, i \in T PROVE i + 1 \in T
    <2> SUFFICES ASSUME i + 1 <= n PROVE IsBucket(f[i + 1])
        OBVIOUS
    <2>1. i + 1 \in 1..n /\ i + 1 - 1 = i /\ IsBucket(f[i])
        BY <1>2, <1>5
    <2>2. f[i + 1] = MergeChange(f[i], list[i + 1])
        BY <1>3, <2>1 DEF AreMerged
    <2> QED
        BY <1>2, <2>1, <2>2, MergeChangeIs
<1> HIDE DEF T
<1>6. n \in T
    BY <1>2, <1>4, <1>5, InductionOnSet
<1> QED
    BY <1>2, <1>3, <1>6 DEF AreMerged, T

LEMMA MergedOfSorted ==
    ASSUME NEW B, IsBucket(B)
    PROVE  AreAll(Sorted(B)) /\ Merged(Sorted(B)) = B
<1> DEFINE list == Sorted(B)
           n == Len(list)
           done(i) == {list[m] : m \in 1..i}
<1>1. /\ list \in Seq(B) /\ ToSet(list) = B
      /\ \A i, j \in 1..n : list[i] = list[j] => i = j
    BY SortedIs
<1> HIDE DEF list
<1>2. n \in Nat /\ DOMAIN list = 1..n /\ \A i \in 1..n : list[i] \in B
    BY <1>1, LenProperties
<1>3. done(n) = B
    BY <1>1, <1>2 DEF ToSet
<1> HIDE DEF n
<1>4. PICK f : AreMerged(f, list, n)
    BY <1>2, MergedRunOf
<1> DEFINE T == {i \in Nat : i <= n => f[i] = done(i)}
<1>5. 0 \in T
    BY <1>4 DEF AreMerged
<1>6. ASSUME NEW i \in Nat, i \in T PROVE i + 1 \in T
    <2> SUFFICES ASSUME i + 1 <= n PROVE f[i + 1] = done(i + 1)
        OBVIOUS
    <2> DEFINE c == list[i + 1]
               D == done(i)
    <2>1. i + 1 \in 1..n /\ i + 1 - 1 = i /\ f[i] = D /\ c \in B
        BY <1>2, <1>6
    <2>2. f[i + 1] = MergeChange(D, c)
        BY <1>4, <2>1 DEF AreMerged
    <2>3. done(i + 1) = D \cup {c}
        <3>1. 1..(i + 1) = (1..i) \cup {i + 1}
            OBVIOUS
        <3> QED
            BY <3>1
    <2>4. D \subseteq B /\ c \notin D
        <3>1. \A m \in 1..i : m \in 1..n /\ m # i + 1
            BY <1>2
        <3> QED
            BY <1>1, <1>2, <2>1, <3>1
    <2> HIDE DEF c, D
    <2>5. \A x \in D : ArrayOp(x) /\ ArrayOp(c) /\ x.value # c.value
        BY <2>1, <2>4 DEF IsBucket
    <2>6. MergeChange(D, c) = D \cup {c}
        <3>1. CASE ArrayOp(c)
            BY <2>5, <3>1 DEF MergeChange
        <3>2. CASE ~ArrayOp(c)
            <4>1. D = {}
                BY <2>5, <3>2
            <4> QED
                BY <3>2, <4>1 DEF MergeChange
        <3> QED
            BY <3>1, <3>2
    <2> HIDE DEF done
    <2> QED
        BY <2>2, <2>3, <2>6
<1> HIDE DEF T
<1>7. n \in T
    BY <1>2, <1>5, <1>6, InductionOnSet
<1>8. f[n] = done(n) /\ f[n] = Merged(list)
    BY <1>2, <1>4, <1>7 DEF T, AreMerged
<1>9. AreAll(list)
    BY <1>1 DEF AreAll, IsBucket, IsChange
<1> HIDE DEF done
<1> QED
    BY <1>3, <1>8, <1>9 DEF list

\* What a composition of changes is, and that composing it again changes nothing.
LEMMA ComposeChangesIs ==
    ASSUME NEW a, AreAll(a), NEW b, AreAll(b)
    PROVE  LET s == ComposeChanges(a, b) IN
           /\ IsBucket(Merged(a \o b)) /\ s = Sorted(Merged(a \o b))
           /\ AreAll(s) /\ ComposeChanges(<<>>, s) = s
<1> DEFINE s == ComposeChanges(a, b)
           B == Merged(a \o b)
<1>1. AreAll(a \o b)
    <2>1. PICK S : a \in Seq(S) /\ \A c \in S : IsChange(c)
        BY DEF AreAll
    <2>2. PICK T : b \in Seq(T) /\ \A c \in T : IsChange(c)
        BY DEF AreAll
    <2> DEFINE U == S \cup T
    <2>3. S \subseteq U /\ T \subseteq U /\ \A c \in U : IsChange(c)
        BY <2>1, <2>2
    <2> HIDE DEF U
    <2>4. a \in Seq(U) /\ b \in Seq(U)
        BY <2>1, <2>2, <2>3, SeqOfMore
    <2>5. a \o b \in Seq(U)
        BY <2>4, ConcatProperties
    <2> QED
        BY <2>3, <2>5 DEF AreAll
<1>2. IsBucket(B)
    BY <1>1, MergedIs
<1>3. s = Sorted(B)
    BY DEF ComposeChanges, Merged
<1> HIDE DEF B, s
<1>4. AreAll(s) /\ Merged(s) = B
    BY <1>2, <1>3, MergedOfSorted
<1>5. <<>> \o s = s
    <2>1. PICK S : s \in Seq(S)
        BY <1>4 DEF AreAll
    <2> QED
        BY <2>1, ConcatEmptySeq
<1>6. ComposeChanges(<<>>, s) = Sorted(Merged(s))
    BY <1>5 DEF ComposeChanges, Merged
<1> QED
    BY <1>2, <1>3, <1>4, <1>6 DEF B, s

\* An effect whose changes, if it is a modification, are changes of a field, and
\* one that normalising leaves as it is.
IsSound(e) == IsEffect(e) /\ (e.kind = "modify" => AreAll(e.changes))
IsSettled(e) == IsSound(e) /\ Normalize(e) = e

LEMMA Settled ==
    /\ IsSettled(NoEffect) /\ IsSettled(RemoveEffect) /\ \A v : IsSettled(AddEffect(v))
    /\ \A e : IsSound(e) => IsSettled(Normalize(e))
    /\ \A b, a, c, d : AreAll(c) /\ AreAll(d) =>
          LET s == ComposeChanges(c, d) IN
          s # <<>> => IsSettled(ModifyEffect(b, a, s))
<1>1. IsSettled(NoEffect) /\ IsSettled(RemoveEffect) /\ \A v : IsSettled(AddEffect(v))
    BY EffectsAre DEF IsSettled, IsSound, Normalize
<1>2. ASSUME NEW b, NEW a, NEW c, NEW d, AreAll(c), AreAll(d), ComposeChanges(c, d) # <<>>
      PROVE  IsSettled(ModifyEffect(b, a, ComposeChanges(c, d)))
    <2> DEFINE s == ComposeChanges(c, d)
               e == ModifyEffect(b, a, s)
    <2>1. AreAll(s) /\ ComposeChanges(<<>>, s) = s
        BY <1>2, ComposeChangesIs
    <2>2. s # <<>>
        BY <1>2
    <2> HIDE DEF s
    <2>3. IsEffect(e) /\ e.kind = "modify" /\ e.before = b /\ e.after = a /\ e.changes = s
        BY EffectsAre
    <2> HIDE DEF e
    <2>4. Normalize(e) = ModifyEffect(b, a, s)
        BY <2>1, <2>2, <2>3, NormalizeIs
    <2> QED
        BY <2>1, <2>3, <2>4 DEF IsSettled, IsSound, e, s
<1>3. ASSUME NEW e, IsSound(e) PROVE IsSettled(Normalize(e))
    <2>1. CASE e.kind = "modify"
        <3> DEFINE empty == <<>>
                   c == ComposeChanges(empty, e.changes)
        <3>1. Normalize(e) = IF c = <<>> THEN NoEffect ELSE ModifyEffect(e.before, e.after, c)
            BY <1>3, <2>1, NormalizeIs DEF IsSound
        <3>2. AreAll(empty)
            <4> DEFINE W == {}
            <4>1. empty \in Seq(W) /\ \A x \in W : IsChange(x)
                OBVIOUS
            <4> HIDE DEF W, empty
            <4> QED
                BY <4>1 DEF AreAll
        <3> HIDE DEF empty
        <3>3. c # <<>> => IsSettled(ModifyEffect(e.before, e.after, c))
            BY <1>2, <1>3, <2>1, <3>2 DEF IsSound
        <3> HIDE DEF c
        <3> QED
            BY <1>1, <3>1, <3>3
    <2>2. CASE e.kind # "modify"
        <3>1. Normalize(e) = e
            BY <1>3, <2>2, NormalizeIs DEF IsSound
        <3> QED
            BY <1>3, <3>1 DEF IsSettled
    <2> QED
        BY <2>1, <2>2
<1> QED
    BY <1>1, <1>2, <1>3

\* A composition is settled.
LEMMA ComposedIsSettled ==
    ASSUME NEW l, IsSound(l), NEW r, IsSound(r)
    PROVE  IsSettled(Composed(l, r))
<1> DEFINE a == Normalize(l)
           b == Normalize(r)
           e == ComposeEffects(a, b)
<1>1. Composed(l, r) = e
    BY ComposedIs
<1>2. IsSettled(a) /\ IsSettled(b)
    BY Settled
<1> HIDE DEF a, b
<1>3. IsEffect(a) /\ IsEffect(b) /\ Normalize(a) = a /\ Normalize(b) = b
      /\ (a.kind = "modify" => AreAll(a.changes)) /\ (b.kind = "modify" => AreAll(b.changes))
    BY <1>2 DEF IsSettled, IsSound
<1>4. CASE a = NoEffect \/ b = NoEffect
    <2>1. e \in {a, b}
        BY <1>3, <1>4 DEF ComposeEffects
    <2> HIDE DEF e
    <2> QED
        BY <1>1, <1>2, <2>1
<1>5. CASE a # NoEffect /\ b # NoEffect
    <2>1. a.kind \in {"add", "remove", "modify"} /\ b.kind \in {"add", "remove", "modify"}
        BY <1>3, <1>5, EffectKinds
    <2>2. CASE b.kind = "add"
        BY <1>1, <1>2, <1>5, <2>2 DEF ComposeEffects
    <2>3. CASE b.kind = "remove"
        <3>1. e \in {NoEffect, RemoveEffect}
            BY <1>5, <2>3 DEF ComposeEffects, ThenRemove
        <3> HIDE DEF e
        <3> QED
            BY <1>1, <3>1, Settled
    <2>4. CASE b.kind = "modify" /\ a.kind = "add"
        <3>1. e = AddThenModify(a, b)
            BY <1>5, <2>4 DEF ComposeEffects
        <3>2. e = a \/ \E v : e = AddEffect(v)
            BY <3>1 DEF AddThenModify
        <3> HIDE DEF e
        <3> QED
            BY <1>1, <1>2, <3>2, Settled
    <2>5. CASE b.kind = "modify" /\ a.kind = "remove"
        <3>1. e = RemoveEffect
            BY <1>5, <2>5 DEF ComposeEffects
        <3> HIDE DEF e
        <3> QED
            BY <1>1, <3>1, Settled
    <2>6. CASE b.kind = "modify" /\ a.kind = "modify"
        <3> DEFINE s == ComposeChanges(a.changes, b.changes)
        <3>1. e = ModifyTwice(a, b)
            BY <1>5, <2>6 DEF ComposeEffects
        <3>2. e = IF s = <<>> THEN NoEffect ELSE ModifyEffect(a.before, b.after, s)
            BY <3>1 DEF ModifyTwice
        <3>3. s # <<>> => IsSettled(ModifyEffect(a.before, b.after, s))
            BY <1>3, <2>6, Settled
        <3> HIDE DEF e, s
        <3> QED
            BY <1>1, <3>2, <3>3, Settled
    <2> QED
        BY <2>1, <2>2, <2>3, <2>4, <2>5, <2>6
<1> QED
    BY <1>4, <1>5

LEMMA DiffIsSound ==
    ASSUME NEW u \in Seq(Unit), NEW w \in Seq(Unit), NEW k \in Key
    PROVE  IsSound(Diff(u, w)[k])
<1> DEFINE e == DiffEffect(u, w, k)
           before == Selected(u, k)
           after == Selected(w, k)
           list == DiffValues(before, after)
<1>1. Diff(u, w)[k] = e
    BY DEF Diff
<1>2. e = CASE UnitsOf(u, k) = {} /\ UnitsOf(w, k) = {}   -> NoEffect
            [] UnitsOf(u, k) = {} /\ UnitsOf(w, k) # {}  -> AddEffect(after)
            [] UnitsOf(u, k) # {} /\ UnitsOf(w, k) = {}  -> RemoveEffect
            [] UnitsOf(u, k) # {} /\ UnitsOf(w, k) # {} ->
                  IF before = after THEN NoEffect ELSE ModifyEffect(before, after, list)
    BY DEF DiffEffect
<1>3. ASSUME NEW s \in Seq(Unit), UnitsOf(s, k) # {}
      PROVE  Selected(s, k) \in Value
    <2>1. UnitsOf(s, k) \subseteq Unit
        <3>1. DOMAIN s = 1..Len(s) /\ \A i \in 1..Len(s) : s[i] \in Unit
            BY LenProperties
        <3> QED
            BY <3>1 DEF UnitsOf
    <2>2. (CHOOSE x \in UnitsOf(s, k) : TRUE) \in Unit
        BY <1>3, <2>1
    <2>3. \A x \in Unit : x.value \in Value
        BY DEF Unit
    <2> QED
        BY <2>2, <2>3 DEF Selected
<1>4. UnitsOf(u, k) # {} /\ UnitsOf(w, k) # {} => before \in Value /\ after \in Value
    BY <1>3
<1> HIDE DEF e, before, after
<1>5. before \in Value /\ after \in Value => AreAll(list)
    <2> SUFFICES ASSUME before \in Value, after \in Value PROVE AreAll(list)
        OBVIOUS
    <2>1. CASE IsArray(before) /\ IsArray(after)
        <3> DEFINE S == ArrayChanges(before, after)
        <3>1. before \in Seq(Element) /\ after \in Seq(Element)
            BY <2>1, ArrayValue
        <3>2. IsBucket(S)
            BY <3>1, ArrayChangesAre
        <3>3. list = Sorted(S)
            BY <2>1 DEF DiffValues, ArrayChanges
        <3> HIDE DEF S
        <3> QED
            BY <3>2, <3>3, MergedOfSorted
    <2>2. CASE ~(IsArray(before) /\ IsArray(after))
        <3> DEFINE set == [op |-> "set", value |-> after]
                   unset == [op |-> "unset", value |-> Absent]
        <3>1. list \in {<<>>, <<set>>, <<unset>>}
            BY <2>2 DEF DiffValues
        <3>2. IsChange(set) /\ IsChange(unset)
            BY DEF IsChange, ArrayOp
        <3> HIDE DEF set, unset, list
        <3> DEFINE W == {set, unset}
        <3>3. set \in W /\ unset \in W /\ \A x \in W : IsChange(x)
            BY <3>2
        <3> HIDE DEF W
        <3>4. <<>> \in Seq(W) /\ <<set>> \in Seq(W) /\ <<unset>> \in Seq(W)
            BY <3>3
        <3>5. list \in Seq(W)
            BY <3>1, <3>4
        <3> QED
            BY <3>3, <3>5 DEF AreAll
    <2> QED
        BY <2>1, <2>2
<1> HIDE DEF list
<1>6. CASE UnitsOf(u, k) = {} \/ UnitsOf(w, k) = {} \/ before = after
    <2>1. e = NoEffect \/ e = RemoveEffect \/ \E v : e = AddEffect(v)
        BY <1>2, <1>6
    <2> QED
        BY <1>1, <2>1, EffectsAre DEF IsSound
<1>7. CASE UnitsOf(u, k) # {} /\ UnitsOf(w, k) # {} /\ before # after
    <2>1. e = ModifyEffect(before, after, list) /\ AreAll(list)
        BY <1>2, <1>4, <1>5, <1>7
    <2> QED
        BY <1>1, <2>1, EffectsAre DEF IsSound
<1> QED
    BY <1>6, <1>7

\* A composition of several steps is settled at every key.
LEMMA CompressedIsSettled ==
    ASSUME TreeType, NEW path \in Seq(DOMAIN revisions), Len(path) > 2
    PROVE  /\ Compressed(path) = [k \in Key |-> Compressed(path)[k]]
           /\ \A k \in Key : IsSettled(Compressed(path)[k])
<1> DEFINE n == Len(path) - 1
           D == DOMAIN revisions
<1>1. Len(path) \in Nat /\ DOMAIN path = 1..Len(path) /\ \A i \in 1..Len(path) : path[i] \in D
    BY LenProperties
<1>2. n \in Nat /\ n >= 2 /\ Len(path) >= 2 /\ n + 1 = Len(path)
    BY <1>1
<1>3. PICK g : AreComposed(g, path, n)
    BY <1>1, <1>2, CompressedIs
<1> HIDE DEF n, D
<1>4. ASSUME NEW i \in 1..n, NEW k \in Key PROVE IsSound(Step(path, i)[k])
    <2>1. path[i] \in D /\ path[i + 1] \in D
        BY <1>1, <1>2
    <2>2. revisions[path[i]].units \in Seq(Unit) /\ revisions[path[i + 1]].units \in Seq(Unit)
        BY <2>1, UnitsOfRevision DEF D
    <2> QED
        BY <2>2, DiffIsSound DEF Step, DiffRevisions
<1>5. ASSUME NEW i \in 2..n
      PROVE  /\ g[i] = Compose(g[i - 1], Step(path, i))
             /\ \A k \in Key : g[i][k] = Composed(g[i - 1][k], Step(path, i)[k])
    BY <1>3 DEF AreComposed, Compose, Composed
<1> DEFINE S == {i \in Nat : i + 1 <= n => \A k \in Key : IsSound(g[i + 1][k])}
<1>6. 0 \in S
    <2>1. 1 \in 1..n /\ g[1] = Step(path, 1) /\ 0 + 1 = 1
        BY <1>2, <1>3 DEF AreComposed
    <2> QED
        BY <1>4, <2>1
<1>7. ASSUME NEW m \in Nat, m \in S PROVE m + 1 \in S
    <2> SUFFICES ASSUME m + 2 <= n, NEW k \in Key PROVE IsSound(g[m + 2][k])
        OBVIOUS
    <2> DEFINE i == m + 2
    <2>1. i \in 2..n /\ i \in 1..n /\ i - 1 = m + 1
        BY <1>2
    <2>2. IsSound(g[m + 1][k])
        BY <1>2, <1>7
    <2> HIDE DEF i
    <2>3. g[i][k] = Composed(g[m + 1][k], Step(path, i)[k])
        BY <1>5, <2>1
    <2>4. IsSettled(g[i][k])
        BY <1>4, <2>1, <2>2, <2>3, ComposedIsSettled
    <2> QED
        BY <2>4 DEF IsSettled, i
<1> HIDE DEF S
<1>8. n - 2 \in S /\ n - 2 + 1 = n - 1 /\ n \in 2..n /\ n \in 1..n
    <2>1. n - 2 \in Nat /\ n - 2 + 1 = n - 1 /\ n \in 2..n /\ n \in 1..n
        BY <1>2
    <2>2. Nat \subseteq S
        BY <1>6, <1>7, InductionOnSet
    <2> QED
        BY <2>1, <2>2
<1>9. \A k \in Key : IsSound(g[n - 1][k])
    BY <1>2, <1>8 DEF S
<1>10. \A k \in Key : IsSettled(g[n][k])
    BY <1>4, <1>5, <1>8, <1>9, ComposedIsSettled
<1>11. g[n] = [k \in Key |-> g[n][k]]
    <2>1. g[n] = Compose(g[n - 1], Step(path, n))
        BY <1>5, <1>8
    <2>2. \A d, e : Compose(d, e) = [k \in Key |-> Compose(d, e)[k]]
        BY DEF Compose
    <2> QED
        BY <2>1, <2>2
<1> QED
    BY <1>3, <1>10, <1>11 DEF AreComposed

\* A composed delta is in normal form (composeDelta, STATE_ALGEBRA.md, Law 4).
THEOREM ComposedIsNormalAlways == TreeSpec => []ComposedIsNormal
<1>1. TreeType => ComposedIsNormal
    <2> SUFFICES ASSUME TreeType, NEW to \in Newest, NEW from \in ToSet(Line[to]),
                        Len(AncestorPath(from, to)) > 2
                 PROVE  IsNormal(CrossBranchNetDelta(from, to))
        BY DEF ComposedIsNormal
    <2> DEFINE path == AncestorPath(from, to)
               d == Compressed(path)
    <2>1. CrossBranchNetDelta(from, to) = d
        BY DEF CrossBranchNetDelta, IsAncestor
    <2>2. path \in Seq(DOMAIN revisions)
        BY PathIs DEF Newest
    <2>3. d = [k \in Key |-> d[k]] /\ \A k \in Key : IsSettled(d[k])
        BY <2>2, CompressedIsSettled
    <2> HIDE DEF d
    <2>4. ASSUME NEW k \in Key
          PROVE  Composed(d[k], NoEffect) = d[k] /\ Composed(NoEffect, d[k]) = d[k]
        <3> DEFINE e == d[k]
        <3>1. Normalize(e) = e /\ Normalize(NoEffect) = NoEffect
            BY <2>3, Settled DEF IsSettled
        <3> HIDE DEF e
        <3>2. Composed(e, NoEffect) = ComposeEffects(e, NoEffect)
              /\ Composed(NoEffect, e) = ComposeEffects(NoEffect, e)
            BY <3>1, ComposedIs
        <3> QED
            BY <3>1, <3>2 DEF ComposeEffects, e
    <2>5. Compose(d, Empty) = d
        <3>1. Compose(d, Empty) = [k \in Key |-> Composed(d[k], NoEffect)]
            BY DEF Compose, Composed, Empty
        <3> QED
            BY <2>3, <2>4, <3>1
    <2>6. Compose(Empty, d) = d
        <3>1. Compose(Empty, d) = [k \in Key |-> Composed(NoEffect, d[k])]
            BY DEF Compose, Composed, Empty
        <3> QED
            BY <2>3, <2>4, <3>1
    <2> QED
        BY <2>1, <2>5, <2>6 DEF IsNormal
<1> QED
    BY <1>1, TreeTyped, PTL

-----------------------------------------------------------------------------
(* Patches *)

Whole(v) == [ok |-> TRUE, value |-> v]

\* The patch before and after every change of a list.
ArePatched(f, v, list, n) ==
    /\ f[0] = Whole(v)
    /\ \A i \in 1..n : f[i] = PatchStep(f[i - 1], list[i])
    /\ f[n] = Patch(v, list)

LEMMA PatchRunOf ==
    ASSUME NEW v, NEW n \in Nat, NEW list, DOMAIN list = 1..n
    PROVE  \E f : ArePatched(f, v, list, n)
<1> DEFINE at(it, s) ==
               IF s = {} THEN Whole(v)
               ELSE PatchStep(it[s \ {Max(s)}], list[Max(s)])
           body(it) == [s \in SUBSET (1..n) |-> at(it, s)]
           I == CHOOSE it : it = body(it)
           Table(k, h) == h = [s \in SUBSET (1..k) |-> at(h, s)]
<1>1. Patch(v, list) = I[1..n]
    BY DEF Patch, Whole, FoldLeft, MapThenFoldSet
<1>2. \A k \in Nat : \E h : Table(k, h)
    <2> DEFINE S == {k \in Nat : \E h : Table(k, h)}
    <2>1. 0 \in S
        <3>1. Table(0, [s \in SUBSET (1..0) |-> Whole(v)])
            OBVIOUS
        <3> QED
            BY <3>1
    <2>2. ASSUME NEW k \in Nat, k \in S PROVE k + 1 \in S
        <3>1. PICK h : Table(k, h)
            BY <2>2
        <3> DEFINE j == [s \in SUBSET (1..(k + 1)) |->
                            IF k + 1 \in s
                            THEN PatchStep(h[s \ {k + 1}], list[k + 1])
                            ELSE h[s]]
        <3>2. ASSUME NEW s \in SUBSET (1..(k + 1)) PROVE j[s] = at(j, s)
            <4>1. CASE k + 1 \in s
                <5>1. Max(s) = k + 1
                    BY <4>1, MaxOfFirst
                <5>2. s \ {k + 1} \in SUBSET (1..(k + 1)) /\ k + 1 \notin s \ {k + 1}
                    OBVIOUS
                <5> HIDE DEF at
                <5>3. j[s \ {k + 1}] = h[s \ {k + 1}]
                    BY <5>2
                <5> QED
                    BY <4>1, <5>1, <5>3 DEF at
            <4>2. CASE k + 1 \notin s
                <5>1. s \in SUBSET (1..k)
                    BY <4>2
                <5>2. CASE s = {}
                    BY <3>1, <4>2, <5>1, <5>2
                <5>3. CASE s # {}
                    <6>1. s \ {Max(s)} \in SUBSET (1..k)
                        BY <5>1
                    <6>2. j[s \ {Max(s)}] = h[s \ {Max(s)}]
                        BY <6>1
                    <6>3. h[s] = at(h, s)
                        BY <3>1, <5>1
                    <6> QED
                        BY <4>2, <5>3, <6>2, <6>3
                <5> QED
                    BY <5>2, <5>3
            <4> QED
                BY <4>1, <4>2
        <3>3. Table(k + 1, j)
            <4> HIDE DEF at
            <4> QED
                BY <3>2
        <3> HIDE DEF j, Table
        <3> QED
            BY <3>3
    <2> HIDE DEF S, Table
    <2>3. Nat \subseteq S
        BY <2>1, <2>2, InductionOnSet
    <2> QED
        BY <2>3 DEF S
<1> HIDE DEF at
<1>3. I = body(I)
    <2>1. PICK h : Table(n, h)
        BY <1>2
    <2>2. h = body(h)
        BY <2>1
    <2> HIDE DEF body
    <2> QED
        BY <2>2
<1> HIDE DEF I
<1> DEFINE f == [i \in 0..n |-> I[1..i]]
<1>4. f[0] = Whole(v) /\ f[n] = Patch(v, list)
    <2>1. f[n] = I[1..n]
        OBVIOUS
    <2>2. f[0] = I[1..0]
        OBVIOUS
    <2> HIDE DEF f
    <2>3. f[n] = Patch(v, list)
        BY <1>1, <2>1
    <2>4. 1..0 = {} /\ {} \in SUBSET (1..n)
        OBVIOUS
    <2>5. I[{}] = at(I, {})
        BY <1>3, <2>4
    <2>6. at(I, {}) = Whole(v)
        BY DEF at
    <2> QED
        BY <2>2, <2>3, <2>4, <2>5, <2>6
<1>5. ASSUME NEW i \in 1..n PROVE f[i] = PatchStep(f[i - 1], list[i])
    <2>1. 1..i \in SUBSET (1..n) /\ 1..i # {} /\ Max(1..i) = i
        BY MaxOfFirst
    <2>2. (1..i) \ {i} = 1..(i - 1) /\ i - 1 \in 0..n
        OBVIOUS
    <2>3. I[1..i] = at(I, 1..i)
        BY <1>3, <2>1
    <2>4. at(I, 1..i) = PatchStep(I[1..(i - 1)], list[i])
        BY <2>1, <2>2 DEF at
    <2>5. f[i] = I[1..i] /\ f[i - 1] = I[1..(i - 1)]
        BY <2>2
    <2> HIDE DEF f
    <2> QED
        BY <2>3, <2>4, <2>5
<1> HIDE DEF f
<1>6. ArePatched(f, v, list, n)
    BY <1>4, <1>5 DEF ArePatched
<1> QED
    BY <1>6

\* Removing an element from an array leaves an array.
LEMMA RemovedIsArray ==
    ASSUME NEW s \in Seq(Element), NEW e
    PROVE  RemoveFirst(s, e) \in Seq(Element)
<1> DEFINE t == RemoveFirst(s, e)
<1>1. CASE ~\E i \in 1..Len(s) : s[i] = e
    BY <1>1 DEF RemoveFirst
<1>2. CASE \E i \in 1..Len(s) : s[i] = e
    <2> DEFINE I == {i \in 1..Len(s) : s[i] = e}
               n == Min(I)
    <2>1. t = RemoveAt(s, n)
        BY <1>2 DEF RemoveFirst, SelectInSeq
    <2>2. I \in SUBSET Nat /\ I # {}
        BY <1>2
    <2>3. \E x \in I : \A y \in I : x <= y
        <3> HIDE DEF I
        <3> QED
            BY <2>2, LeastNumber
    <2>4. n \in I
        <3> HIDE DEF I
        <3> QED
            BY <2>3 DEF Min
    <2>5. n \in 1..Len(s)
        BY <2>4
    <2> HIDE DEF n, t
    <2> QED
        BY <2>1, <2>5, RemoveAtProperties DEF t
<1> QED
    BY <1>1, <1>2

\* A change of an array, applied to one.
LEMMA ArrayPatched ==
    ASSUME NEW s \in Seq(Element), NEW c, IsChange(c), ArrayOp(c)
    PROVE  /\ ApplyChange(s, c) \in Seq(Element)
           /\ PatchStep(Whole(s), c) = Whole(ApplyChange(s, c))
<1>1. AsArray(s) = s /\ s \notin Scalar
    BY ArraysAreArrays DEF AsArray, IsArray
<1>2. c.op \in {"append", "remove"} /\ c.value \in Element
    BY DEF ArrayOp, IsChange
<1>5. PatchStep(Whole(s), c) = Whole(ApplyChange(s, c))
    BY <1>1 DEF PatchStep, Whole
<1>3. CASE c.op = "append"
    <2>1. ApplyChange(s, c) = Append(s, c.value)
        BY <1>1, <1>3 DEF ApplyChange
    <2> QED
        BY <1>2, <1>5, <2>1, AppendProperties
<1>4. CASE c.op = "remove"
    <2>1. ApplyChange(s, c) = RemoveFirst(s, c.value)
        BY <1>1, <1>4 DEF ApplyChange
    <2> QED
        BY <1>2, <1>5, <2>1, RemovedIsArray
<1> QED
    BY <1>2, <1>3, <1>4

\* Changes of an array, and a change that is none of an array, never fail as a
\* patch, and then a patch is what applying the changes is.
LEMMA PatchIs ==
    ASSUME NEW v \in Value, NEW list, AreAll(list),
           \/ IsArray(v) /\ \A i \in 1..Len(list) : ArrayOp(list[i])
           \/ \E c : list = <<c>> /\ ~ArrayOp(c)
    PROVE  Patch(v, list) = Whole(ApplyChanges(v, list))
<1>1. CASE IsArray(v) /\ \A i \in 1..Len(list) : ArrayOp(list[i])
    <2> DEFINE n == Len(list)
    <2>1. PICK S : list \in Seq(S) /\ \A c \in S : IsChange(c)
        BY DEF AreAll
    <2>2. n \in Nat /\ DOMAIN list = 1..n /\ \A i \in 1..n : list[i] \in S
        BY <2>1, LenProperties
    <2>3. \A i \in 1..n : IsChange(list[i]) /\ ArrayOp(list[i])
        BY <1>1, <2>1, <2>2
    <2> HIDE DEF n
    <2>4. PICK f : ArePatched(f, v, list, n)
        BY <2>2, PatchRunOf
    <2>5. PICK g : AreChanges(g, v, list, n)
        BY <2>2, ChangesRunOf
    <2> DEFINE T == {i \in Nat : i <= n => f[i] = Whole(g[i]) /\ g[i] \in Seq(Element)}
    <2>6. 0 \in T
        <3>1. f[0] = Whole(v) /\ g[0] = v /\ v \in Seq(Element)
            BY <1>1, <2>4, <2>5, ArrayValue DEF ArePatched, AreChanges
        <3> QED
            BY <3>1
    <2>7. ASSUME NEW i \in Nat, i \in T PROVE i + 1 \in T
        <3> SUFFICES ASSUME i + 1 <= n
                     PROVE  f[i + 1] = Whole(g[i + 1]) /\ g[i + 1] \in Seq(Element)
            OBVIOUS
        <3>1. i + 1 \in 1..n /\ i + 1 - 1 = i /\ f[i] = Whole(g[i]) /\ g[i] \in Seq(Element)
            BY <2>2, <2>7
        <3>2. f[i + 1] = PatchStep(f[i], list[i + 1])
            BY <2>4, <3>1 DEF ArePatched
        <3>3. g[i + 1] = ApplyChange(g[i], list[i + 1])
            BY <2>5, <3>1 DEF AreChanges
        <3> QED
            BY <2>3, <3>1, <3>2, <3>3, ArrayPatched
    <2> HIDE DEF T
    <2>8. n \in T
        BY <2>2, <2>6, <2>7, InductionOnSet
    <2>9. f[n] = Patch(v, list) /\ g[n] = ApplyChanges(v, list)
        BY <2>4, <2>5 DEF ArePatched, AreChanges
    <2> QED
        BY <2>2, <2>8, <2>9 DEF T
<1>2. CASE \E c : list = <<c>> /\ ~ArrayOp(c)
    <2>1. PICK c : list = <<c>> /\ ~ArrayOp(c)
        BY <1>2
    <2> DEFINE n == 1
    <2>2. n \in Nat /\ DOMAIN list = 1..n /\ n \in 1..n /\ n - 1 = 0 /\ list[n] = c
        BY <2>1
    <2> HIDE DEF n
    <2>3. PICK f : ArePatched(f, v, list, n)
        BY <2>2, PatchRunOf
    <2>4. f[0] = Whole(v) /\ f[n] = PatchStep(f[n - 1], list[n]) /\ f[n] = Patch(v, list)
        BY <2>2, <2>3 DEF ArePatched
    <2>5. PatchStep(Whole(v), c) = Whole(ApplyChange(v, c))
        BY <2>1 DEF PatchStep, Whole
    <2> QED
        BY <2>1, <2>2, <2>4, <2>5, FewChanges
<1> QED
    BY <1>1, <1>2

-----------------------------------------------------------------------------
(* Deltas that rename no unit *)

\* The change gives any unit of key k a field that leaves it this key.
Keeps(k, c) == c.op \in {"set", "unset"} /\ KeyOf(k, ApplyChange(Absent, c)) = k

AllKeep(k, list) == \A c \in ToSet(list) : Keeps(k, c)

\* A sequence, of whatever elements.
IsSequence(list) == \E S : list \in Seq(S)

LEMMA SequenceIs ==
    ASSUME NEW list, IsSequence(list)
    PROVE  /\ Len(list) \in Nat /\ DOMAIN list = 1..Len(list)
           /\ \A i \in 1..Len(list) : list[i] \in ToSet(list)
<1>1. PICK S : list \in Seq(S)
    BY DEF IsSequence
<1>2. Len(list) \in Nat /\ DOMAIN list = 1..Len(list)
    BY <1>1, LenProperties
<1> QED
    BY <1>2 DEF ToSet

LEMMA KeptChange ==
    ASSUME NEW k, NEW c, Keeps(k, c), NEW v
    PROVE  KeyOf(k, ApplyChange(v, c)) = k
<1>1. ApplyChange(v, c) = ApplyChange(Absent, c)
    BY DEF ApplyChange, Keeps
<1> QED
    BY <1>1 DEF Keeps

LEMMA KeptByChanges ==
    ASSUME NEW k, NEW list, IsSequence(list), AllKeep(k, list), NEW v, KeyOf(k, v) = k
    PROVE  KeyOf(k, ApplyChanges(v, list)) = k
<1> DEFINE n == Len(list)
<1>1. n \in Nat /\ DOMAIN list = 1..n /\ \A i \in 1..n : Keeps(k, list[i])
    BY SequenceIs DEF AllKeep
<1> HIDE DEF n
<1>2. PICK f : AreChanges(f, v, list, n)
    BY <1>1, ChangesRunOf
<1> DEFINE T == {i \in Nat : i <= n => KeyOf(k, f[i]) = k}
<1>3. 0 \in T
    BY <1>2 DEF AreChanges
<1>4. ASSUME NEW i \in Nat, i \in T PROVE i + 1 \in T
    <2> SUFFICES ASSUME i + 1 <= n PROVE KeyOf(k, f[i + 1]) = k
        OBVIOUS
    <2>1. i + 1 \in 1..n /\ i + 1 - 1 = i
        BY <1>1
    <2>2. f[i + 1] = ApplyChange(f[i], list[i + 1])
        BY <1>2, <2>1 DEF AreChanges
    <2> QED
        BY <1>1, <2>1, <2>2, KeptChange
<1> HIDE DEF T
<1>5. n \in T
    BY <1>1, <1>3, <1>4, InductionOnSet
<1> QED
    BY <1>1, <1>2, <1>5 DEF AreChanges, T

LEMMA KeptByPatch ==
    ASSUME NEW k, NEW list, IsSequence(list), AllKeep(k, list), NEW v, KeyOf(k, v) = k
    PROVE  KeyOf(k, Patch(v, list).value) = k
<1> DEFINE n == Len(list)
<1>1. n \in Nat /\ DOMAIN list = 1..n /\ \A i \in 1..n : Keeps(k, list[i])
    BY SequenceIs DEF AllKeep
<1> HIDE DEF n
<1>2. PICK f : ArePatched(f, v, list, n)
    BY <1>1, PatchRunOf
<1> DEFINE T == {i \in Nat : i <= n => KeyOf(k, f[i].value) = k}
<1>3. 0 \in T
    <2>1. f[0].value = v
        BY <1>2 DEF ArePatched, Whole
    <2> QED
        BY <2>1
<1>4. ASSUME NEW i \in Nat, i \in T PROVE i + 1 \in T
    <2> SUFFICES ASSUME i + 1 <= n PROVE KeyOf(k, f[i + 1].value) = k
        OBVIOUS
    <2>1. i + 1 \in 1..n /\ i + 1 - 1 = i /\ KeyOf(k, f[i].value) = k
        BY <1>1, <1>4
    <2>2. f[i + 1] = PatchStep(f[i], list[i + 1])
        BY <1>2, <2>1 DEF ArePatched
    <2>3. f[i + 1].value \in {f[i].value, ApplyChange(f[i].value, list[i + 1])}
        BY <2>2 DEF PatchStep
    <2> QED
        BY <1>1, <2>1, <2>3, KeptChange
<1> HIDE DEF T
<1>5. n \in T
    BY <1>1, <1>3, <1>4, InductionOnSet
<1> QED
    BY <1>1, <1>2, <1>5 DEF ArePatched, T

\* What is kept of a list of changes is of the list.
LEMMA MergedAreSome ==
    ASSUME NEW list, IsSequence(list)
    PROVE  Merged(list) \subseteq ToSet(list)
<1> DEFINE n == Len(list)
<1>1. n \in Nat /\ DOMAIN list = 1..n /\ \A i \in 1..n : list[i] \in ToSet(list)
    BY SequenceIs
<1> HIDE DEF n
<1>2. PICK f : AreMerged(f, list, n)
    BY <1>1, MergedRunOf
<1> DEFINE T == {i \in Nat : i <= n => f[i] \subseteq ToSet(list)}
<1>3. 0 \in T
    BY <1>2 DEF AreMerged
<1>4. ASSUME NEW i \in Nat, i \in T PROVE i + 1 \in T
    <2> SUFFICES ASSUME i + 1 <= n PROVE f[i + 1] \subseteq ToSet(list)
        OBVIOUS
    <2>1. i + 1 \in 1..n /\ i + 1 - 1 = i /\ f[i] \subseteq ToSet(list)
        BY <1>1, <1>4
    <2>2. f[i + 1] = MergeChange(f[i], list[i + 1])
        BY <1>2, <2>1 DEF AreMerged
    <2>3. f[i + 1] \subseteq f[i] \cup {list[i + 1]}
        BY <2>2 DEF MergeChange
    <2> QED
        BY <1>1, <2>1, <2>3
<1> HIDE DEF T
<1>5. n \in T
    BY <1>1, <1>3, <1>4, InductionOnSet
<1> QED
    BY <1>1, <1>2, <1>5 DEF AreMerged, T

LEMMA ComposedKeep ==
    ASSUME NEW k, NEW a, AreAll(a), AllKeep(k, a), NEW b, AreAll(b), AllKeep(k, b)
    PROVE  AllKeep(k, ComposeChanges(a, b))
<1> DEFINE s == ComposeChanges(a, b)
           B == Merged(a \o b)
<1>1. IsBucket(B) /\ s = Sorted(B)
    BY ComposeChangesIs
<1>2. IsSequence(a \o b) /\ ToSet(a \o b) = ToSet(a) \cup ToSet(b)
    <2>1. PICK S : a \in Seq(S) /\ \A c \in S : IsChange(c)
        BY DEF AreAll
    <2>2. PICK T : b \in Seq(T) /\ \A c \in T : IsChange(c)
        BY DEF AreAll
    <2> DEFINE U == S \cup T
    <2>3. S \subseteq U /\ T \subseteq U
        OBVIOUS
    <2> HIDE DEF U
    <2>4. a \in Seq(U) /\ b \in Seq(U)
        BY <2>1, <2>2, <2>3, SeqOfMore
    <2>5. a \o b \in Seq(U) /\ ToSet(a \o b) = ToSet(a) \cup ToSet(b)
        BY <2>4, ElementsOfConcat
    <2> QED
        BY <2>5 DEF IsSequence
<1>3. B \subseteq ToSet(a) \cup ToSet(b)
    BY <1>2, MergedAreSome
<1> HIDE DEF B, s
<1>4. ToSet(s) = B
    BY <1>1, SortedIs
<1> QED
    BY <1>3, <1>4 DEF AllKeep, s

LEMMA KeepsIs ==
    ASSUME NEW k, k \notin Own
    PROVE  /\ KeepsKey(k, NoEffect) /\ KeepsKey(k, RemoveEffect)
           /\ \A v : KeepsKey(k, AddEffect(v)) <=> KeyOf(k, v) = k
           /\ \A b, a, c : KeepsKey(k, ModifyEffect(b, a, c)) <=> KeyOf(k, a) = k /\ AllKeep(k, c)
           /\ \A e : e.kind = "modify" =>
                  (KeepsKey(k, e) <=> KeyOf(k, e.after) = k /\ AllKeep(k, e.changes))
           /\ \A e : e.kind = "add" => (KeepsKey(k, e) <=> KeyOf(k, e.value) = k)
<1>1. /\ \A e : e.kind = "modify" =>
             (KeepsKey(k, e) <=> KeyOf(k, e.after) = k /\ AllKeep(k, e.changes))
      /\ \A e : e.kind = "add" => (KeepsKey(k, e) <=> KeyOf(k, e.value) = k)
      /\ \A e : e.kind \in {"none", "remove"} => KeepsKey(k, e)
    BY DEF KeepsKey, AllKeep, Keeps
<1> QED
    BY <1>1, EffectsAre

LEMMA NormalizedKeeps ==
    ASSUME NEW k, NEW e, IsSound(e), KeepsKey(k, e)
    PROVE  KeepsKey(k, Normalize(e))
<1>1. CASE k \in Own
    BY <1>1 DEF KeepsKey
<1>2. CASE k \notin Own /\ e.kind # "modify"
    BY <1>2, NormalizeIs DEF IsSound
<1>3. CASE k \notin Own /\ e.kind = "modify"
    <2> DEFINE empty == <<>>
               c == ComposeChanges(empty, e.changes)
    <2>1. Normalize(e) = IF c = <<>> THEN NoEffect ELSE ModifyEffect(e.before, e.after, c)
        BY <1>3, NormalizeIs DEF IsSound
    <2>2. AreAll(empty) /\ AllKeep(k, empty)
        <3> DEFINE W == {}
        <3>1. empty \in Seq(W) /\ \A x \in W : IsChange(x)
            OBVIOUS
        <3>2. ToSet(empty) = {}
            BY DEF ToSet
        <3> HIDE DEF W, empty
        <3> QED
            BY <3>1, <3>2 DEF AreAll, AllKeep
    <2> HIDE DEF empty
    <2>3. KeyOf(k, e.after) = k /\ AllKeep(k, e.changes) /\ AreAll(e.changes)
        BY <1>3, KeepsIs DEF IsSound
    <2>4. AllKeep(k, c)
        BY <2>2, <2>3, ComposedKeep
    <2> HIDE DEF c
    <2> QED
        BY <1>3, <2>1, <2>3, <2>4, KeepsIs
<1> QED
    BY <1>1, <1>2, <1>3

\* Effects that rename no unit compose to one that renames none.
LEMMA ComposedKeeps ==
    ASSUME NEW k, NEW l, IsSound(l), KeepsKey(k, l), NEW r, IsSound(r), KeepsKey(k, r)
    PROVE  KeepsKey(k, Composed(l, r))
<1> SUFFICES ASSUME k \notin Own PROVE KeepsKey(k, Composed(l, r))
    BY DEF KeepsKey
<1> DEFINE a == Normalize(l)
           b == Normalize(r)
           e == ComposeEffects(a, b)
<1>1. Composed(l, r) = e
    BY ComposedIs
<1>2. IsSettled(a) /\ IsSettled(b) /\ KeepsKey(k, a) /\ KeepsKey(k, b)
    BY Settled, NormalizedKeeps
<1> HIDE DEF a, b
<1>3. IsEffect(a) /\ IsEffect(b) /\ Normalize(a) = a /\ Normalize(b) = b
      /\ (a.kind = "modify" => AreAll(a.changes)) /\ (b.kind = "modify" => AreAll(b.changes))
    BY <1>2 DEF IsSettled, IsSound
<1>4. CASE a = NoEffect \/ b = NoEffect
    <2>1. e \in {a, b}
        BY <1>3, <1>4 DEF ComposeEffects
    <2> HIDE DEF e
    <2> QED
        BY <1>1, <1>2, <2>1
<1>5. CASE a # NoEffect /\ b # NoEffect
    <2>1. a.kind \in {"add", "remove", "modify"} /\ b.kind \in {"add", "remove", "modify"}
        BY <1>3, <1>5, EffectKinds
    <2>2. CASE b.kind = "add"
        BY <1>1, <1>2, <1>5, <2>2 DEF ComposeEffects
    <2>3. CASE b.kind = "remove"
        <3>1. e \in {NoEffect, RemoveEffect}
            BY <1>5, <2>3 DEF ComposeEffects, ThenRemove
        <3> HIDE DEF e
        <3> QED
            BY <1>1, <3>1, KeepsIs
    <2>4. CASE b.kind = "modify" /\ a.kind = "add"
        <3> DEFINE z == Patch(a.value, b.changes).value
        <3>1. e = AddThenModify(a, b)
            BY <1>5, <2>4 DEF ComposeEffects
        <3>2. e = a \/ e = AddEffect(z) \/ e = AddEffect(b.after)
            BY <1>3, <3>1 DEF AddThenModify
        <3>3. KeyOf(k, a.value) = k /\ KeyOf(k, b.after) = k /\ AllKeep(k, b.changes)
            BY <1>2, <2>4, KeepsIs
        <3>4. IsSequence(b.changes)
            BY <1>3, <2>4 DEF AreAll, IsSequence
        <3>5. KeyOf(k, z) = k
            BY <3>3, <3>4, KeptByPatch
        <3> HIDE DEF e, z
        <3> QED
            BY <1>1, <1>2, <3>2, <3>3, <3>5, KeepsIs
    <2>5. CASE b.kind = "modify" /\ a.kind = "remove"
        <3>1. e = RemoveEffect
            BY <1>5, <2>5 DEF ComposeEffects
        <3> HIDE DEF e
        <3> QED
            BY <1>1, <3>1, KeepsIs
    <2>6. CASE b.kind = "modify" /\ a.kind = "modify"
        <3> DEFINE s == ComposeChanges(a.changes, b.changes)
        <3>1. e = ModifyTwice(a, b)
            BY <1>5, <2>6 DEF ComposeEffects
        <3>2. e = IF s = <<>> THEN NoEffect ELSE ModifyEffect(a.before, b.after, s)
            BY <3>1 DEF ModifyTwice
        <3>3. KeyOf(k, b.after) = k /\ AllKeep(k, a.changes) /\ AllKeep(k, b.changes)
            BY <1>2, <2>6, KeepsIs
        <3>4. AllKeep(k, s)
            BY <1>3, <2>6, <3>3, ComposedKeep
        <3> HIDE DEF e, s
        <3> QED
            BY <1>1, <3>2, <3>3, <3>4, KeepsIs
    <2> QED
        BY <2>1, <2>2, <2>3, <2>4, <2>5, <2>6
<1> QED
    BY <1>4, <1>5

\* The units of a revision without an id hold no array.
LEMMA SelectedKeeps ==
    ASSUME NEW u \in Seq(Unit), NEW k \in Key \ Own, UnitsOf(u, k) # {}
    PROVE  ~IsArray(Selected(u, k)) /\ KeyOf(k, Selected(u, k)) = k
<1>1. UnitsOf(u, k) \subseteq Unit /\ \A x \in UnitsOf(u, k) : x.key = k
    <2>1. DOMAIN u = 1..Len(u) /\ \A i \in 1..Len(u) : u[i] \in Unit
        BY LenProperties
    <2> QED
        BY <2>1 DEF UnitsOf
<1> DEFINE x == CHOOSE y \in UnitsOf(u, k) : TRUE
<1>2. x \in UnitsOf(u, k) /\ Selected(u, k) = x.value
    BY DEF Selected
<1> HIDE DEF x
<1>3. x \in Unit /\ x.key = k
    BY <1>1, <1>2
<1> QED
    BY <1>2, <1>3 DEF Unit

LEMMA DiffKeeps ==
    ASSUME NEW u \in Seq(Unit), NEW w \in Seq(Unit), NEW k \in Key
    PROVE  KeepsKey(k, Diff(u, w)[k])
<1> SUFFICES ASSUME k \notin Own PROVE KeepsKey(k, Diff(u, w)[k])
    BY DEF KeepsKey
<1> DEFINE e == DiffEffect(u, w, k)
           before == Selected(u, k)
           after == Selected(w, k)
           list == DiffValues(before, after)
<1>1. Diff(u, w)[k] = e
    BY DEF Diff
<1>2. e = CASE UnitsOf(u, k) = {} /\ UnitsOf(w, k) = {}   -> NoEffect
            [] UnitsOf(u, k) = {} /\ UnitsOf(w, k) # {}  -> AddEffect(after)
            [] UnitsOf(u, k) # {} /\ UnitsOf(w, k) = {}  -> RemoveEffect
            [] UnitsOf(u, k) # {} /\ UnitsOf(w, k) # {} ->
                  IF before = after THEN NoEffect ELSE ModifyEffect(before, after, list)
    BY DEF DiffEffect
<1>3. UnitsOf(w, k) # {} => ~IsArray(after) /\ KeyOf(k, after) = k
    BY SelectedKeeps
<1> HIDE DEF e, before, after
<1>4. UnitsOf(w, k) # {} => AllKeep(k, list)
    <2> SUFFICES ASSUME UnitsOf(w, k) # {} PROVE AllKeep(k, list)
        OBVIOUS
    <2> DEFINE set == [op |-> "set", value |-> after]
               unset == [op |-> "unset", value |-> Absent]
    <2>1. list = <<>> \/ (after = Absent /\ list = <<unset>>) \/ list = <<set>>
        BY <1>3 DEF DiffValues
    <2>2. Keeps(k, set) /\ (after = Absent => Keeps(k, unset))
        BY <1>3 DEF Keeps, ApplyChange
    <2> HIDE DEF set, unset, list
    <2>3. ASSUME NEW x, Keeps(k, x) PROVE AllKeep(k, <<x>>)
        <3>1. ToSet(<<x>>) = {x}
            BY DEF ToSet
        <3> QED
            BY <2>3, <3>1 DEF AllKeep
    <2>4. AllKeep(k, <<>>)
        <3>1. ToSet(<<>>) = {}
            BY DEF ToSet
        <3> QED
            BY <3>1 DEF AllKeep
    <2>5. AllKeep(k, <<set>>) /\ (after = Absent => AllKeep(k, <<unset>>))
        BY <2>2, <2>3
    <2>6. CASE list = <<>>
        BY <2>4, <2>6
    <2>7. CASE after = Absent /\ list = <<unset>>
        BY <2>5, <2>7
    <2>8. CASE list = <<set>>
        BY <2>5, <2>8
    <2> QED
        BY <2>1, <2>6, <2>7, <2>8
<1> HIDE DEF list
<1> QED
    BY <1>1, <1>2, <1>3, <1>4, KeepsIs

LEMMA CompressedKeeps ==
    ASSUME TreeType, NEW path \in Seq(DOMAIN revisions), Len(path) >= 2, NEW k \in Key
    PROVE  IsSound(Compressed(path)[k]) /\ KeepsKey(k, Compressed(path)[k])
<1> DEFINE n == Len(path) - 1
           D == DOMAIN revisions
           Good(e) == IsSound(e) /\ KeepsKey(k, e)
<1>1. Len(path) \in Nat /\ DOMAIN path = 1..Len(path) /\ \A i \in 1..Len(path) : path[i] \in D
    BY LenProperties
<1>2. n \in Nat /\ n >= 1 /\ n + 1 = Len(path)
    BY <1>1
<1>3. PICK g : AreComposed(g, path, n)
    BY <1>1, CompressedIs
<1> HIDE DEF n, D
<1>4. ASSUME NEW i \in 1..n PROVE Good(Step(path, i)[k])
    <2>1. path[i] \in D /\ path[i + 1] \in D
        BY <1>1, <1>2
    <2>2. revisions[path[i]].units \in Seq(Unit) /\ revisions[path[i + 1]].units \in Seq(Unit)
        BY <2>1, UnitsOfRevision DEF D
    <2> QED
        BY <2>2, DiffIsSound, DiffKeeps DEF Step, DiffRevisions
<1>5. ASSUME NEW i \in 2..n
      PROVE  g[i][k] = Composed(g[i - 1][k], Step(path, i)[k])
    BY <1>3 DEF AreComposed, Compose, Composed
<1> DEFINE S == {i \in Nat : i + 1 <= n => Good(g[i + 1][k])}
<1>6. 0 \in S
    <2>1. 1 \in 1..n /\ g[1] = Step(path, 1) /\ 0 + 1 = 1
        BY <1>2, <1>3 DEF AreComposed
    <2> HIDE DEF Good
    <2> QED
        BY <1>4, <2>1
<1>7. ASSUME NEW m \in Nat, m \in S PROVE m + 1 \in S
    <2> SUFFICES ASSUME m + 2 <= n PROVE Good(g[m + 2][k])
        OBVIOUS
    <2> DEFINE i == m + 2
    <2>1. i \in 2..n /\ i \in 1..n /\ i - 1 = m + 1
        BY <1>2
    <2>2. Good(g[m + 1][k])
        BY <1>2, <1>7
    <2> HIDE DEF i
    <2>3. g[i][k] = Composed(g[m + 1][k], Step(path, i)[k])
        BY <1>5, <2>1
    <2>4. Good(Step(path, i)[k])
        BY <1>4, <2>1
    <2>5. IsSound(g[i][k])
        BY <2>2, <2>3, <2>4, ComposedIsSettled DEF IsSettled
    <2>6. KeepsKey(k, g[i][k])
        BY <2>2, <2>3, <2>4, ComposedKeeps
    <2> QED
        BY <2>5, <2>6 DEF i
<1> HIDE DEF S, Good
<1>8. n - 1 \in S /\ n - 1 + 1 = n
    <2>1. n - 1 \in Nat /\ n - 1 + 1 = n
        BY <1>2
    <2>2. Nat \subseteq S
        BY <1>6, <1>7, InductionOnSet
    <2> QED
        BY <2>1, <2>2
<1>9. Good(g[n][k])
    BY <1>2, <1>8 DEF S
<1> QED
    BY <1>3, <1>9 DEF AreComposed, Good

\* A net delta renames no unit.
LEMMA NetKeeps ==
    ASSUME TreeType, NEW from \in DOMAIN revisions, NEW to \in DOMAIN revisions, NEW k \in Key
    PROVE  LET e == CrossBranchNetDelta(from, to)[k] IN IsSound(e) /\ KeepsKey(k, e)
<1> DEFINE path == AncestorPath(from, to)
<1>1. CASE ~IsAncestor(from, to)
    <2>1. CrossBranchNetDelta(from, to) = Diff(revisions[from].units, revisions[to].units)
        BY <1>1 DEF CrossBranchNetDelta, DiffRevisions
    <2>2. revisions[from].units \in Seq(Unit) /\ revisions[to].units \in Seq(Unit)
        BY UnitsOfRevision
    <2> QED
        BY <2>1, <2>2, DiffIsSound, DiffKeeps
<1>2. CASE IsAncestor(from, to)
    <2>1. CrossBranchNetDelta(from, to) = Compressed(path)
        BY <1>2 DEF CrossBranchNetDelta
    <2>2. path \in Seq(DOMAIN revisions) /\ Len(path) \in Nat
        BY <1>2, PathIs DEF IsAncestor
    <2> HIDE DEF path
    <2>3. CASE Len(path) < 2
        <3>1. Compressed(path) = Empty /\ Empty[k] = NoEffect
            BY <2>3 DEF Compressed, Empty
        <3>2. IsSound(NoEffect) /\ KeepsKey(k, NoEffect)
            BY EffectsAre DEF IsSound, KeepsKey
        <3> QED
            BY <2>1, <3>1, <3>2
    <2>4. CASE Len(path) >= 2
        BY <2>1, <2>2, <2>4, CompressedKeeps
    <2> QED
        BY <2>2, <2>3, <2>4
<1> QED
    BY <1>1, <1>2

\* Applied to units of revisions, such an effect leaves their key.
LEMMA KeepsIsKept ==
    ASSUME NEW u \in Seq(Unit), NEW k \in Key, NEW e, IsSound(e), KeepsKey(k, e)
    PROVE  Kept(Effected(Vals(u, k), e), k)
<1>1. CASE k \in Own
    BY <1>1 DEF Kept, KeyOf
<1>2. CASE k \notin Own
    <2>1. Kept(Vals(u, k), k)
        <3>1. \A x : Alike(x, x)
            BY DEF Alike
        <3>2. SameSeen(Vals(u, k), Vals(u, k))
            BY <3>1 DEF SameSeen
        <3> QED
            BY <3>2, KeptAsSeen
    <2>2. CASE e.kind = "add"
        <3>1. KeyOf(k, e.value) = k
            BY <1>2, <2>2, KeepsIs
        <3> QED
            BY <2>1, <2>2, <3>1 DEF Effected, Kept
    <2>3. CASE e.kind = "modify"
        <3>1. AllKeep(k, e.changes) /\ IsSequence(e.changes)
            BY <1>2, <2>3, KeepsIs DEF IsSound, AreAll, IsSequence
        <3>2. \A v \in Vals(u, k) : KeyOf(k, ApplyChanges(v, e.changes)) = k
            BY <2>1, <3>1, KeptByChanges DEF Kept
        <3>3. Effected(Vals(u, k), e) = {ApplyChanges(v, e.changes) : v \in Vals(u, k)}
            BY <2>3 DEF Effected
        <3> QED
            BY <3>2, <3>3 DEF Kept
    <2>4. CASE e.kind \notin {"add", "modify"}
        BY <2>1, <2>4 DEF Effected, Kept
    <2> QED
        BY <2>2, <2>3, <2>4
<1> QED
    BY <1>1, <1>2

LEMMA NetIsKept ==
    ASSUME TreeType, NEW from \in DOMAIN revisions, NEW to \in DOMAIN revisions,
           NEW r \in DOMAIN revisions
    PROVE  KeptBy(revisions[r].units, CrossBranchNetDelta(from, to))
BY UnitsOfRevision, NetKeeps, KeepsIsKept DEF KeptBy

\* Whatever revision any net delta is applied to, keys that are unique stay
\* unique (applyDelta, computeCrossBranchNetDelta).
THEOREM KeysStayUniqueAlways == TreeSpec => []KeysStayUnique
<1>1. TreeType => KeysStayUnique
    <2> SUFFICES ASSUME TreeType,
                        NEW from \in DOMAIN revisions, NEW to \in DOMAIN revisions,
                        NEW r \in DOMAIN revisions, KeysUnique(revisions[r].units)
                 PROVE  KeysUnique(Apply(revisions[r].units, CrossBranchNetDelta(from, to)).units)
        BY DEF KeysStayUnique
    <2>1. IsUnits(revisions[r].units)
        BY UnitsOfRevision
    <2>2. KeptBy(revisions[r].units, CrossBranchNetDelta(from, to))
        BY NetIsKept
    <2> QED
        BY <2>1, <2>2, ApplyKeywise
<1> QED
    BY <1>1, TreeTyped, PTL

\* The units that are at both ends of a path and were missing on the way are those
\* whose addition does not fit.
LEMMA NetMisfits ==
    ASSUME TreeType, NEW to \in DOMAIN revisions, NEW from \in ToSet(Line[to]), NEW k \in Key
    PROVE  LET path == AncestorPath(from, to)
               e == CrossBranchNetDelta(from, to)[k]
           IN
           Misfits(Vals(revisions[from].units, k), e)
           = IF Has(from, k) /\ Has(to, k) /\ UnitReturns(path, k) THEN {"E_ADD_EXISTS"} ELSE {}
<1> DEFINE path == AncestorPath(from, to)
           n == Len(path)
           e == CrossBranchNetDelta(from, to)[k]
           X == Vals(revisions[from].units, k)
<1>1. path \in Seq(DOMAIN revisions) /\ n \in Nat \ {0} /\ path[1] = from /\ path[n] = to
    BY PathIs
<1>2. Fits(path, k, n, e)
    BY NetFits
<1>3. X # {} <=> Has(from, k)
    BY NoUnits DEF Has
<1> HIDE DEF path, e, X
<1>4. DOMAIN path = 1..n
    BY <1>1, LenProperties
<1> HIDE DEF n
<1>5. UnitReturns(path, k) => Missed(path, k, n)
    BY <1>4 DEF UnitReturns, Missed
<1>6. /\ e.kind \in {"none", "add", "remove", "modify"}
      /\ Missed(path, k, n) /\ Has(to, k) => e.kind = "add"
      /\ e.kind = "add" => Has(to, k) /\ (Has(from, k) => UnitReturns(path, k))
      /\ e.kind \in {"remove", "modify"} => Has(from, k)
    BY <1>1, <1>2, EffectKinds DEF Fits
<1> DEFINE has == Has(from, k)
           had == Has(to, k)
           returns == UnitReturns(path, k)
           kind == e.kind
<1> HIDE DEF has, had, returns, kind
<1>6b. /\ kind \in {"none", "add", "remove", "modify"}
       /\ had /\ returns => kind = "add"
       /\ kind = "add" => had /\ (has => returns)
       /\ kind \in {"remove", "modify"} => has
    BY <1>5, <1>6 DEF has, had, returns, kind
<1> DEFINE Goal == Misfits(X, e) = IF has /\ had /\ returns THEN {"E_ADD_EXISTS"} ELSE {}
<1>7. ASSUME kind = "add" PROVE Goal
    <2>1. Misfits(X, e) = IF X # {} THEN {"E_ADD_EXISTS"} ELSE {}
        BY <1>7 DEF Misfits, kind
    <2>2. X # {} <=> has /\ had /\ returns
        BY <1>3, <1>6b, <1>7 DEF has
    <2> QED
        BY <2>1, <2>2
<1>8. ASSUME kind # "add" PROVE Goal
    <2>1. Misfits(X, e) = {}
        <3>1. kind \in {"remove", "modify"} => X # {}
            BY <1>3, <1>6b DEF has
        <3>2. CASE kind = "none"
            BY <3>2 DEF Misfits, kind
        <3>3. CASE kind = "remove"
            BY <3>1, <3>3 DEF Misfits, kind
        <3>4. CASE kind = "modify"
            BY <3>1, <3>4 DEF Misfits, kind
        <3> QED
            BY <1>6b, <1>8, <3>2, <3>3, <3>4
    <2>2. ~(had /\ returns)
        BY <1>6b, <1>8
    <2> QED
        BY <2>1, <2>2
<1> QED
    BY <1>7, <1>8 DEF path, e, X, has, had, returns

\* The entries of a net delta that the revision it starts from refuses are exactly
\* the additions of units that were there, were removed and came back; the other
\* conflicts are those of the state that is reached (compressRevisionChain,
\* composeEffects, applyDelta).
THEOREM OnlyReturnsConflictAlways == TreeSpec => []OnlyReturnsConflict
<1>1. TreeType => OnlyReturnsConflict
    <2> SUFFICES ASSUME TreeType, AllPlain, NEW to \in Newest, NEW from \in ToSet(Line[to])
                 PROVE  LET result == Apply(revisions[from].units, CrossBranchNetDelta(from, to))
                            path == AncestorPath(from, to)
                        IN
                        result.conflicts =
                            DetectConflicts(result.units) \cup
                            {<<"E_ADD_EXISTS", k>> : k \in {x \in Key :
                                Has(from, x) /\ Has(to, x) /\ UnitReturns(path, x)}}
        BY DEF OnlyReturnsConflict
    <2> DEFINE u == revisions[from].units
               net == CrossBranchNetDelta(from, to)
               path == AncestorPath(from, to)
               result == Apply(u, net)
               R == {x \in Key : Has(from, x) /\ Has(to, x) /\ UnitReturns(path, x)}
               A(k) == {<<code, k>> : code \in Misfits(Vals(u, k), net[k])}
    <2>1. to \in DOMAIN revisions
        BY DEF Newest
    <2>2. from \in DOMAIN revisions
        <3>1. path \in Seq(DOMAIN revisions) /\ Len(path) \in Nat \ {0} /\ path[1] = from
            BY <2>1, PathIs
        <3>2. 1 \in 1..Len(path)
            BY <3>1
        <3> HIDE DEF path
        <3>3. path[1] \in DOMAIN revisions
            BY <3>1, <3>2, LenProperties
        <3> QED
            BY <3>1, <3>3
    <2>3. IsUnits(u) /\ KeysUnique(u)
        BY <2>2, UnitsOfRevision DEF AllPlain, Plain
    <2>4. KeptBy(u, net)
        BY <2>1, <2>2, NetIsKept
    <2>5. /\ KeysUnique(result.units)
          /\ result.conflicts = (UNION {A(k) : k \in Key}) \cup SemanticConflicts(result.units)
        BY <2>3, <2>4, ApplyKeywise
    <2>6. \A k \in Key : A(k) = IF k \in R THEN {<<"E_ADD_EXISTS", k>>} ELSE {}
        <3> SUFFICES ASSUME NEW k \in Key
                     PROVE  A(k) = IF k \in R THEN {<<"E_ADD_EXISTS", k>>} ELSE {}
            OBVIOUS
        <3> DEFINE M == Misfits(Vals(u, k), net[k])
        <3>1. M = IF k \in R THEN {"E_ADD_EXISTS"} ELSE {}
            BY <2>1, NetMisfits
        <3> HIDE DEF M, R
        <3>2. {<<code, k>> : code \in M} = IF k \in R THEN {<<"E_ADD_EXISTS", k>>} ELSE {}
            BY <3>1
        <3> QED
            BY <3>2 DEF M
    <2>7. R \subseteq Key
        OBVIOUS
    <2> HIDE DEF A, R
    <2>8. UNION {A(k) : k \in Key} = {<<"E_ADD_EXISTS", k>> : k \in R}
        BY <2>6, <2>7
    <2> HIDE DEF result
    <2>9. DetectConflicts(result.units) = SemanticConflicts(result.units)
        BY <2>5, NothingTwice
    <2>10. result.conflicts = DetectConflicts(result.units) \cup {<<"E_ADD_EXISTS", k>> : k \in R}
        BY <2>5, <2>8, <2>9
    <2> QED
        BY <2>10 DEF result, R
<1> QED
    BY <1>1, TreeTyped, PTL

-----------------------------------------------------------------------------
(* Changes merged with those that were composed before *)

AreMergedOn(h, B, list, n) ==
    /\ h[0] = B
    /\ \A i \in 1..n : h[i] = MergeChange(h[i - 1], list[i])

LEMMA MergedConcat ==
    ASSUME NEW S, NEW a \in Seq(S), NEW b \in Seq(S)
    PROVE  \E h : AreMergedOn(h, Merged(a), b, Len(b)) /\ h[Len(b)] = Merged(a \o b)
<1> DEFINE n == Len(a)
           m == Len(b)
           list == a \o b
<1>1. /\ n \in Nat /\ m \in Nat /\ DOMAIN a = 1..n /\ DOMAIN b = 1..m
      /\ DOMAIN list = 1..(n + m)
      /\ \A i \in 1..n : list[i] = a[i]
      /\ \A i \in 1..m : list[n + i] = b[i]
    BY LenProperties, ConcatProperties
<1> HIDE DEF n, m, list
<1>2. PICK f : AreMerged(f, list, n + m)
    <2>1. n + m \in Nat
        BY <1>1
    <2> QED
        BY <1>1, <2>1, MergedRunOf
<1>3. PICK g : AreMerged(g, a, n)
    BY <1>1, MergedRunOf
<1> DEFINE T == {i \in Nat : i <= n => f[i] = g[i]}
<1>4. 0 \in T
    BY <1>2, <1>3 DEF AreMerged
<1>5. ASSUME NEW i \in Nat, i \in T PROVE i + 1 \in T
    <2> SUFFICES ASSUME i + 1 <= n PROVE f[i + 1] = g[i + 1]
        OBVIOUS
    <2>1. i + 1 \in 1..n /\ i + 1 \in 1..(n + m) /\ i + 1 - 1 = i /\ f[i] = g[i]
        BY <1>1, <1>5
    <2>2. f[i + 1] = MergeChange(f[i], list[i + 1]) /\ g[i + 1] = MergeChange(g[i], a[i + 1])
        BY <1>2, <1>3, <2>1 DEF AreMerged
    <2> QED
        BY <1>1, <2>1, <2>2
<1> HIDE DEF T
<1>6. n \in T
    BY <1>1, <1>4, <1>5, InductionOnSet
<1>7. f[n] = Merged(a)
    BY <1>1, <1>3, <1>6 DEF T, AreMerged
<1> DEFINE h == [i \in 0..m |-> f[n + i]]
<1>8. h[0] = Merged(a) /\ h[m] = Merged(list)
    BY <1>1, <1>2, <1>7 DEF AreMerged
<1>9. ASSUME NEW i \in 1..m PROVE h[i] = MergeChange(h[i - 1], b[i])
    <2>1. i \in 0..m /\ i - 1 \in 0..m /\ n + i \in 1..(n + m) /\ n + i - 1 = n + (i - 1)
        BY <1>1
    <2>2. f[n + i] = MergeChange(f[n + i - 1], list[n + i])
        <3>1. \A q \in 1..(n + m) : f[q] = MergeChange(f[q - 1], list[q])
            BY <1>2 DEF AreMerged
        <3> QED
            BY <1>1, <2>1, <3>1
    <2> QED
        BY <1>1, <2>1, <2>2
<1> HIDE DEF h
<1> QED
    BY <1>8, <1>9 DEF AreMergedOn, list, m

\* The bucket of what was composed before, with the changes of D on top.
Overlaid(B, D) == {c \in B : ArrayOp(c) /\ \A d \in D : c.value # d.value} \cup D

LEMMA MergedOnTop ==
    ASSUME NEW B, IsBucket(B), NEW D, IsBucket(D), D # {}, \A d \in D : ArrayOp(d)
    PROVE  Merged(Sorted(B) \o Sorted(D)) = Overlaid(B, D)
<1> DEFINE a == Sorted(B)
           list == Sorted(D)
           n == Len(list)
           done(i) == {list[m] : m \in 1..i}
<1>1. /\ list \in Seq(D) /\ ToSet(list) = D
      /\ \A i, j \in 1..n : list[i] = list[j] => i = j
    BY SortedIs
<1>2. a \in Seq(B) /\ Merged(a) = B
    BY SortedIs, MergedOfSorted
<1> HIDE DEF list, a
<1>3. n \in Nat /\ DOMAIN list = 1..n /\ \A i \in 1..n : list[i] \in D
    BY <1>1, LenProperties
<1>4. done(n) = D
    BY <1>1, <1>3 DEF ToSet
<1>5. PICK h : AreMergedOn(h, B, list, n) /\ h[n] = Merged(a \o list)
    <2> DEFINE U == B \cup D
    <2>1. B \subseteq U /\ D \subseteq U
        OBVIOUS
    <2> HIDE DEF U
    <2>2. a \in Seq(U) /\ list \in Seq(U)
        BY <1>1, <1>2, <2>1, SeqOfMore
    <2> QED
        BY <1>2, <2>2, MergedConcat
<1> HIDE DEF n
<1> DEFINE T == {i \in Nat : i + 1 <= n => h[i + 1] = Overlaid(B, done(i + 1))}
<1>6. ASSUME NEW i \in 1..n
      PROVE  /\ h[i] = MergeChange(h[i - 1], list[i])
             /\ done(i) = done(i - 1) \cup {list[i]}
             /\ list[i] \in D /\ ArrayOp(list[i])
             /\ done(i - 1) \subseteq D /\ list[i] \notin done(i - 1)
             /\ \A x \in done(i - 1) : ArrayOp(x) /\ x.value # list[i].value
    <2>1. h[i] = MergeChange(h[i - 1], list[i])
        BY <1>5 DEF AreMergedOn
    <2>2. done(i) = done(i - 1) \cup {list[i]}
        <3>1. 1..i = (1..(i - 1)) \cup {i}
            BY <1>3
        <3> QED
            BY <3>1
    <2>3. list[i] \in D /\ ArrayOp(list[i])
        BY <1>3
    <2>4. \A m \in 1..(i - 1) : m \in 1..n /\ m # i
        BY <1>3
    <2>5. done(i - 1) \subseteq D /\ list[i] \notin done(i - 1)
        BY <1>1, <1>3, <2>4
    <2> HIDE DEF done
    <2>6. \A x \in done(i - 1) : ArrayOp(x) /\ x.value # list[i].value
        BY <2>3, <2>5 DEF IsBucket
    <2> QED
        BY <2>1, <2>2, <2>3, <2>5, <2>6
<1> HIDE DEF done
<1>7. 0 \in T
    <2> SUFFICES ASSUME 1 <= n PROVE h[1] = Overlaid(B, done(1))
        OBVIOUS
    <2> DEFINE i == 1
    <2>1. i \in 1..n /\ i - 1 = 0
        BY <1>3
    <2>2. h[0] = B /\ done(0) = {}
        BY <1>5 DEF AreMergedOn, done
    <2> HIDE DEF i
    <2>3. h[i] = MergeChange(B, list[i]) /\ done(i) = {list[i]} /\ ArrayOp(list[i])
        BY <1>6, <2>1, <2>2
    <2>4. MergeChange(B, list[i]) = Overlaid(B, {list[i]})
        BY <2>3 DEF MergeChange, Overlaid
    <2> QED
        BY <2>3, <2>4 DEF i
<1>8. ASSUME NEW m \in Nat, m \in T PROVE m + 1 \in T
    <2> SUFFICES ASSUME m + 1 + 1 <= n PROVE h[m + 1 + 1] = Overlaid(B, done(m + 1 + 1))
        OBVIOUS
    <2> DEFINE i == m + 1 + 1
               E == done(m + 1)
    <2>1. i \in 1..n /\ i - 1 = m + 1
        BY <1>3
    <2>2. h[m + 1] = Overlaid(B, E)
        BY <1>3, <1>8
    <2> HIDE DEF i, E
    <2> DEFINE c == list[i]
    <2>3. /\ h[i] = MergeChange(Overlaid(B, E), c) /\ done(i) = E \cup {c} /\ ArrayOp(c)
          /\ \A x \in E : ArrayOp(x) /\ x.value # c.value
        BY <1>6, <2>1, <2>2 DEF E
    <2> HIDE DEF c
    <2>4. MergeChange(Overlaid(B, E), c)
          = {x \in Overlaid(B, E) : ArrayOp(x) /\ x.value # c.value} \cup {c}
        BY <2>3 DEF MergeChange
    <2>5. {x \in Overlaid(B, E) : ArrayOp(x) /\ x.value # c.value} \cup {c}
          = Overlaid(B, E \cup {c})
        BY <2>3 DEF Overlaid
    <2> QED
        BY <2>3, <2>4, <2>5 DEF i
<1> HIDE DEF T
<1>9. Nat \subseteq T
    BY <1>7, <1>8, InductionOnSet
<1>10. n - 1 \in Nat /\ n - 1 + 1 = n
    <2>1. n # 0
        <3>1. ASSUME n = 0 PROVE FALSE
            <4>1. done(0) = {}
                BY DEF done
            <4> QED
                BY <1>4, <3>1, <4>1
        <3> QED
            BY <3>1
    <2> QED
        BY <1>3, <2>1
<1>11. n - 1 \in T /\ n <= n
    BY <1>3, <1>9, <1>10
<1>12. h[n] = Overlaid(B, done(n))
    BY <1>10, <1>11 DEF T
<1> QED
    BY <1>4, <1>5, <1>12 DEF a, list

\* Of a bucket with one change there is one order.
LEMMA SortedSingle ==
    ASSUME NEW c, IsBucket({c})
    PROVE  Sorted({c}) = <<c>>
<1> DEFINE s == Sorted({c})
<1>1. /\ s \in Seq({c}) /\ ToSet(s) = {c}
      /\ \A i, j \in 1..Len(s) : s[i] = s[j] => i = j
    BY SortedIs
<1> HIDE DEF s
<1>2. Len(s) \in Nat /\ DOMAIN s = 1..Len(s) /\ \A i \in 1..Len(s) : s[i] = c
    BY <1>1, LenProperties
<1>3. \A i, j \in 1..Len(s) : i = j
    BY <1>1, <1>2
<1>4. \E i \in 1..Len(s) : TRUE
    BY <1>1, <1>2 DEF ToSet
<1>5. Len(s) = 1
    <2>1. PICK i \in 1..Len(s) : TRUE
        BY <1>4
    <2>2. 1 \in 1..Len(s) /\ Len(s) \in 1..Len(s)
        BY <1>2, <2>1
    <2> QED
        BY <1>3, <2>2
<1>6. <<c>> \in Seq({c}) /\ Len(<<c>>) = 1 /\ <<c>>[1] = c
    OBVIOUS
<1>7. \A i \in 1..Len(s) : s[i] = <<c>>[i]
    BY <1>2, <1>5, <1>6
<1> DEFINE S == {c}
           w == <<c>>
<1>8. s \in Seq(S) /\ w \in Seq(S) /\ Len(s) = Len(w) /\ \A i \in 1..Len(s) : s[i] = w[i]
    BY <1>1, <1>5, <1>6, <1>7
<1> HIDE DEF S, w
<1>9. s = w
    BY <1>8, SeqEqual
<1> QED
    BY <1>9 DEF s, w

\* A scalar change on top leaves nothing of what was before.
LEMMA MergedScalar ==
    ASSUME NEW B, IsBucket(B), NEW c, IsBucket({c}), ~ArrayOp(c)
    PROVE  Merged(Sorted(B) \o Sorted({c})) = {c}
<1> DEFINE a == Sorted(B)
           U == B \cup {c}
           list == <<c>>
<1>1. a \in Seq(B) /\ Merged(a) = B /\ Sorted({c}) = list
    BY SortedIs, MergedOfSorted, SortedSingle
<1>2. B \subseteq U /\ c \in U
    OBVIOUS
<1> HIDE DEF a, U
<1>3. a \in Seq(U) /\ list \in Seq(U) /\ Len(list) = 1 /\ list[1] = c
    BY <1>1, <1>2, SeqOfMore
<1> HIDE DEF list
<1>4. PICK h : AreMergedOn(h, B, list, Len(list)) /\ h[Len(list)] = Merged(a \o list)
    BY <1>1, <1>3, MergedConcat
<1> DEFINE n == 1
<1>5. n \in 1..Len(list) /\ n = Len(list) /\ list[n] = c
    BY <1>3
<1> HIDE DEF n
<1>6. h[n] = MergeChange(h[n - 1], c)
    BY <1>4, <1>5 DEF AreMergedOn
<1>7. h[n] = {c}
    BY <1>6 DEF MergeChange
<1> QED
    BY <1>1, <1>4, <1>5, <1>7 DEF a

-----------------------------------------------------------------------------
(* What composed changes do to a value *)

\* The changes between two values.
IsSetting(c, a) ==
    c.op \in {"set", "unset"} /\ c.value = a /\ (c.op = "unset" => a = Absent)

IsDifference(D, b, a) ==
    /\ IsBucket(D)
    /\ IF IsArray(b) /\ IsArray(a) THEN D = ArrayChanges(b, a)
       ELSE \E c : D = {c} /\ IsSetting(c, a)

\* Changes B lead from v to w: an array gets and loses elements, or the value is
\* replaced.
ByElements(B, v, w) ==
    /\ IsArray(v) /\ IsArray(w) /\ \A c \in B : ArrayOp(c)
    /\ Appends(B) \cap ToSet(v) = {}
    /\ ToSet(w) = (ToSet(v) \cup Appends(B)) \ Removals(B)

ByValue(B, w) ==
    \E c, x : B = {c} /\ IsSetting(c, x) /\ x \in Value /\ NoDuplicates(x) /\ Alike(x, w)

IsPlainValue(v) == v \in Value /\ NoDuplicates(v)

LEMMA DiffIsDifference ==
    ASSUME NEW b, IsPlainValue(b), NEW a, IsPlainValue(a), b # a
    PROVE  \E D : IsDifference(D, b, a) /\ DiffValues(b, a) = Sorted(D)
<1>1. CASE IsArray(b) /\ IsArray(a)
    <2> DEFINE D == ArrayChanges(b, a)
    <2>1. b \in Seq(Element) /\ a \in Seq(Element)
        BY <1>1, ArrayValue DEF IsPlainValue
    <2>2. IsBucket(D)
        BY <2>1, ArrayChangesAre
    <2>3. DiffValues(b, a) = Sorted(D)
        BY <1>1 DEF DiffValues, ArrayChanges
    <2> HIDE DEF D
    <2>4. D = ArrayChanges(b, a)
        BY DEF D
    <2> QED
        BY <1>1, <2>2, <2>3, <2>4 DEF IsDifference
<1>2. CASE ~(IsArray(b) /\ IsArray(a))
    <2> DEFINE c == IF a = Absent THEN [op |-> "unset", value |-> Absent]
                    ELSE [op |-> "set", value |-> a]
    <2>1. DiffValues(b, a) = <<c>>
        BY <1>2 DEF DiffValues
    <2>2. IsSetting(c, a) /\ ~ArrayOp(c)
        BY DEF IsSetting, ArrayOp
    <2> HIDE DEF c
    <2>3. IsBucket({c})
        BY <2>2, FS_Singleton DEF IsBucket, IsSetting
    <2>4. Sorted({c}) = <<c>>
        BY <2>3, SortedSingle
    <2>5. IsDifference({c}, b, a)
        BY <1>2, <2>2, <2>3 DEF IsDifference
    <2> QED
        BY <2>1, <2>4, <2>5
<1> QED
    BY <1>1, <1>2

\* From a value that looks like b, the changes between b and a lead to a.
LEMMA DifferenceLeads ==
    ASSUME NEW v, NEW b, IsPlainValue(b), Alike(v, b), NEW a, IsPlainValue(a),
           NEW D, IsDifference(D, b, a)
    PROVE  IF IsArray(b) /\ IsArray(a) THEN ByElements(D, v, a) ELSE ByValue(D, a)
<1>1. CASE IsArray(b) /\ IsArray(a)
    <2>1. b \in Seq(Element) /\ a \in Seq(Element) /\ D = ArrayChanges(b, a)
        BY <1>1, ArrayValue DEF IsPlainValue, IsDifference
    <2>2. /\ \A c \in D : ArrayOp(c)
          /\ Appends(D) = ToSet(a) \ ToSet(b) /\ Removals(D) = ToSet(b) \ ToSet(a)
        BY <2>1, ArrayChangesAre
    <2>3. IsArray(v) /\ ToSet(v) = ToSet(b)
        BY <1>1 DEF Alike
    <2>4. Appends(D) \cap ToSet(v) = {} /\ ToSet(a) = (ToSet(v) \cup Appends(D)) \ Removals(D)
        BY <2>2, <2>3
    <2> QED
        BY <1>1, <2>2, <2>3, <2>4 DEF ByElements
<1>2. CASE ~(IsArray(b) /\ IsArray(a))
    <2>1. PICK c : D = {c} /\ IsSetting(c, a)
        BY <1>2 DEF IsDifference
    <2>2. Alike(a, a)
        BY DEF Alike
    <2> QED
        BY <1>2, <2>1, <2>2 DEF ByValue, IsPlainValue
<1> QED
    BY <1>1, <1>2

\* Changes that lead from v to w do so when they are applied.
LEMMA LeadingChanges ==
    ASSUME NEW v, IsPlainValue(v), NEW w, NEW B, IsBucket(B),
           ByElements(B, v, w) \/ ByValue(B, w)
    PROVE  LET x == ApplyChanges(v, Sorted(B)) IN IsPlainValue(x) /\ Alike(x, w)
<1> DEFINE x == ApplyChanges(v, Sorted(B))
<1>1. CASE ByElements(B, v, w)
    <2>1. v \in Seq(Element) /\ IsInjective(v)
        BY <1>1, ArrayValue DEF ByElements, IsPlainValue, NoDuplicates
    <2>2. /\ x \in Seq(Element) /\ IsInjective(x)
          /\ ToSet(x) = (ToSet(v) \cup Appends(B)) \ Removals(B)
        BY <1>1, <2>1, ArrayChanged DEF ByElements
    <2> HIDE DEF x
    <2>3. x \in Value /\ IsArray(x)
        BY <2>2, ArrayValue
    <2> QED
        BY <1>1, <2>2, <2>3 DEF ByElements, IsPlainValue, NoDuplicates, Alike, x
<1>2. CASE ByValue(B, w)
    <2>1. PICK c, y : B = {c} /\ IsSetting(c, y) /\ IsPlainValue(y) /\ Alike(y, w)
        BY <1>2 DEF ByValue, IsPlainValue
    <2>2. Sorted(B) = <<c>>
        BY <2>1, SortedSingle
    <2>3. ApplyChange(v, c) = y
        BY <2>1 DEF ApplyChange, IsSetting
    <2>4. x = y
        BY <2>2, <2>3, FewChanges
    <2> HIDE DEF x
    <2> QED
        BY <2>1, <2>4 DEF x
<1> QED
    BY <1>1, <1>2

\* Changes D from w to a, after changes B of an array from v to w: an element that
\* comes back is the only thing that can go wrong.
LEMMA ElementsOnTop ==
    ASSUME NEW v, NEW w, IsPlainValue(w), NEW a, IsPlainValue(a), IsArray(a),
           NEW B, IsBucket(B), ByElements(B, v, w),
           NEW D, IsDifference(D, w, a), D # {},
           \A e \in ToSet(v) : e \notin ToSet(w) => e \notin ToSet(a)
    PROVE  /\ Merged(Sorted(B) \o Sorted(D)) = Overlaid(B, D)
           /\ ByElements(Overlaid(B, D), v, a)
<1> DEFINE M == Overlaid(B, D)
<1>1. IsArray(v) /\ IsArray(w) /\ D = ArrayChanges(w, a) /\ IsBucket(D)
    BY DEF ByElements, IsDifference
<1>2. w \in Seq(Element) /\ a \in Seq(Element)
    BY <1>1, ArrayValue DEF IsPlainValue
<1>3. /\ \A c \in D : ArrayOp(c)
      /\ Appends(D) = ToSet(a) \ ToSet(w) /\ Removals(D) = ToSet(w) \ ToSet(a)
    BY <1>1, <1>2, ArrayChangesAre
<1>4. Merged(Sorted(B) \o Sorted(D)) = M
    BY <1>1, <1>3, MergedOnTop
<1>5. \A c \in B : ArrayOp(c)
    BY DEF ByElements
<1>6. \A d \in D : d.value \in Appends(D) \cup Removals(D)
    BY <1>3 DEF Appends, Removals, ArrayOp
<1>7. \A e \in Appends(D) \cup Removals(D) : \E d \in D : d.value = e
    BY DEF Appends, Removals
<1> DEFINE V == Appends(D) \cup Removals(D)
<1>8. M = {c \in B : c.value \notin V} \cup D
    BY <1>5, <1>6, <1>7 DEF Overlaid
<1> HIDE DEF M, V
<1>9. Appends(M) = (Appends(B) \ V) \cup Appends(D)
    BY <1>8 DEF Appends
<1>10. Removals(M) = (Removals(B) \ V) \cup Removals(D)
    BY <1>8 DEF Removals
<1>11. \A c \in M : ArrayOp(c)
    BY <1>3, <1>5, <1>8
<1>12. /\ Appends(B) \cap ToSet(v) = {}
       /\ ToSet(w) = (ToSet(v) \cup Appends(B)) \ Removals(B)
    BY DEF ByElements
<1>13. Appends(M) \cap ToSet(v) = {}
    BY <1>3, <1>9, <1>12
<1>14. ToSet(a) = (ToSet(v) \cup Appends(M)) \ Removals(M)
    BY <1>3, <1>9, <1>10, <1>12 DEF V
<1> QED
    BY <1>1, <1>4, <1>11, <1>13, <1>14 DEF ByElements, M

\* Changes that replace the value, after any others.
LEMMA ValueOnTop ==
    ASSUME NEW w, NEW a, IsPlainValue(a), ~(IsArray(w) /\ IsArray(a)),
           NEW B, IsBucket(B), NEW D, IsDifference(D, w, a)
    PROVE  Merged(Sorted(B) \o Sorted(D)) = D /\ ByValue(D, a)
<1>1. PICK c : D = {c} /\ IsSetting(c, a)
    BY DEF IsDifference
<1>2. ~ArrayOp(c) /\ IsBucket({c})
    BY <1>1 DEF IsSetting, ArrayOp, IsDifference
<1>3. Alike(a, a)
    BY DEF Alike
<1> QED
    BY <1>1, <1>2, <1>3, MergedScalar DEF ByValue, IsPlainValue

LEMMA SortedChanges ==
    ASSUME NEW D, IsBucket(D)
    PROVE  /\ AreAll(Sorted(D)) /\ ComposeChanges(<<>>, Sorted(D)) = Sorted(D)
           /\ Sorted(D) = <<>> <=> D = {}
<1> DEFINE s == Sorted(D)
<1>1. AreAll(s) /\ Merged(s) = D
    BY MergedOfSorted
<1>2. s \in Seq(D) /\ ToSet(s) = D
    BY SortedIs
<1>3. ComposeChanges(<<>>, s) = s
    <2>1. <<>> \o s = s
        <3> HIDE DEF s
        <3> QED
            BY <1>2, ConcatEmptySeq
    <2>2. ComposeChanges(<<>>, s) = Sorted(Merged(<<>> \o s))
        BY DEF ComposeChanges, Merged
    <2> QED
        BY <1>1, <2>1, <2>2
<1>4. s = <<>> => D = {}
    BY <1>2 DEF ToSet
<1>5. D = {} => s = <<>>
    <2>1. ASSUME D = {} PROVE s = <<>>
        <3> HIDE DEF s
        <3>1. Len(s) \in Nat /\ \A i \in 1..Len(s) : s[i] \in D
            BY <1>2, LenProperties
        <3>2. Len(s) = 0
            <4>1. ~(1 \in 1..Len(s))
                BY <2>1, <3>1
            <4> QED
                BY <3>1, <4>1
        <3> QED
            BY <1>2, <3>2, EmptySeq
    <2> QED
        BY <2>1
<1> QED
    BY <1>1, <1>3, <1>4, <1>5

-----------------------------------------------------------------------------
(* Net deltas along a path *)

ArePlain(path, k) ==
    \A i \in DOMAIN path : Has(path[i], k) => IsPlainValue(ValueAt(path[i], k))

\* The array at place i came to replace what was none, and looks as it did then.
Replaced(path, k, i) ==
    \E j \in 1..(i - 1) :
        /\ Has(path[j], k) /\ Has(path[j + 1], k)
        /\ ~IsArray(ValueAt(path[j], k)) /\ IsArray(ValueAt(path[j + 1], k))
        /\ Alike(ValueAt(path[j + 1], k), ValueAt(path[i], k))

LeadsTo(path, k, i, B) ==
    \/ ByElements(B, ValueAt(path[1], k), ValueAt(path[i], k))
    \/ /\ ByValue(B, ValueAt(path[i], k))
       /\ IsArray(ValueAt(path[i], k)) => Replaced(path, k, i)

\* Effect e leads from the first place of the path to place i.
Leading(path, k, i, e) ==
    /\ IsEffect(e)
    /\ e.kind = "none" =>
          /\ Has(path[1], k) <=> Has(path[i], k)
          /\ Has(path[i], k) => Alike(ValueAt(path[1], k), ValueAt(path[i], k))
    /\ e.kind = "add" =>
          /\ ~Has(path[1], k) /\ Has(path[i], k)
          /\ IsPlainValue(e.value) /\ Alike(e.value, ValueAt(path[i], k))
    /\ e.kind = "remove" => Has(path[1], k) /\ ~Has(path[i], k)
    /\ e.kind = "modify" =>
          /\ Has(path[1], k) /\ Has(path[i], k)
          /\ \E B : IsBucket(B) /\ B # {} /\ e.changes = Sorted(B) /\ LeadsTo(path, k, i, B)

\* What a step of the path does to a key.
IsStep(r, path, k, i) ==
    LET b == ValueAt(path[i], k)
        a == ValueAt(path[i + 1], k)
        was == Has(path[i], k)
        is == Has(path[i + 1], k)
    IN
    \/ r = NoEffect /\ (was <=> is) /\ (was => Alike(b, a))
    \/ r = AddEffect(a) /\ ~was /\ is
    \/ r = RemoveEffect /\ was /\ ~is
    \/ was /\ is /\ \E D : r = ModifyEffect(b, a, Sorted(D)) /\ IsDifference(D, b, a) /\ D # {}

LEMMA StepIs ==
    ASSUME NEW path, NEW k \in Key, ArePlain(path, k),
           NEW i, i \in DOMAIN path, i + 1 \in DOMAIN path
    PROVE  IsStep(Normalize(Step(path, i)[k]), path, k, i)
<1> DEFINE b == ValueAt(path[i], k)
           a == ValueAt(path[i + 1], k)
           was == Has(path[i], k)
           is == Has(path[i + 1], k)
           s == Step(path, i)[k]
           r == Normalize(s)
<1>1. s = CASE ~was /\ ~is -> NoEffect
            [] ~was /\ is  -> AddEffect(a)
            [] was /\ ~is  -> RemoveEffect
            [] was /\ is   -> IF b = a THEN NoEffect ELSE ModifyEffect(b, a, DiffValues(b, a))
    BY DEF Step, DiffRevisions, Diff, DiffEffect, Has, ValueAt
<1>2. (was => IsPlainValue(b)) /\ (is => IsPlainValue(a))
    BY DEF ArePlain
<1> HIDE DEF b, a, was, is, s
<1>3. s = NoEffect \/ s = RemoveEffect \/ s = AddEffect(a) => r = s
    BY EffectsAre, NormalizeIs
<1>4. CASE ~was /\ ~is
    <2>1. r = NoEffect
        BY <1>1, <1>3, <1>4
    <2> QED
        BY <1>4, <2>1 DEF IsStep, was, is, r, s
<1>5. CASE ~was /\ is
    <2>1. r = AddEffect(a)
        BY <1>1, <1>3, <1>5
    <2> QED
        BY <1>5, <2>1 DEF IsStep, was, is, a, r, s
<1>6. CASE was /\ ~is
    <2>1. r = RemoveEffect
        BY <1>1, <1>3, <1>6
    <2> QED
        BY <1>6, <2>1 DEF IsStep, was, is, r, s
<1>7. CASE was /\ is /\ b = a
    <2>1. r = NoEffect /\ Alike(b, a)
        BY <1>1, <1>3, <1>7 DEF Alike
    <2> QED
        BY <1>7, <2>1 DEF IsStep, was, is, b, a, r, s
<1>8. CASE was /\ is /\ b # a
    <2>1. PICK D : IsDifference(D, b, a) /\ DiffValues(b, a) = Sorted(D)
        BY <1>2, <1>8, DiffIsDifference
    <2>2. IsBucket(D)
        BY <2>1 DEF IsDifference
    <2>3. ComposeChanges(<<>>, Sorted(D)) = Sorted(D) /\ (Sorted(D) = <<>> <=> D = {})
        BY <2>2, SortedChanges
    <2>4. s = ModifyEffect(b, a, Sorted(D))
        BY <1>1, <1>8, <2>1
    <2>5. /\ IsEffect(s) /\ s.kind = "modify" /\ s.before = b /\ s.after = a
          /\ s.changes = Sorted(D)
        BY <2>4, EffectsAre
    <2>6. r = IF Sorted(D) = <<>> THEN NoEffect ELSE ModifyEffect(b, a, Sorted(D))
        BY <2>3, <2>5, NormalizeIs
    <2>7. CASE D = {}
        <3>1. IsArray(b) /\ IsArray(a) /\ ArrayChanges(b, a) = {}
            BY <2>1, <2>7 DEF IsDifference
        <3>2. b \in Seq(Element) /\ a \in Seq(Element)
            BY <1>2, <1>8, <3>1, ArrayValue DEF IsPlainValue
        <3>3. ToSet(a) \ ToSet(b) = {} /\ ToSet(b) \ ToSet(a) = {}
            BY <3>1, <3>2, ArrayChangesAre DEF Appends, Removals
        <3>4. Alike(b, a)
            <4>1. ToSet(a) = ToSet(b)
                BY <3>3
            <4> QED
                BY <3>1, <4>1 DEF Alike
        <3>5. r = NoEffect
            BY <2>3, <2>6, <2>7
        <3> QED
            BY <1>8, <3>4, <3>5 DEF IsStep, was, is, b, a, r, s
    <2>8. CASE D # {}
        <3>1. r = ModifyEffect(b, a, Sorted(D))
            BY <2>3, <2>6, <2>8
        <3> QED
            BY <1>8, <2>1, <2>8, <3>1 DEF IsStep, was, is, b, a, r, s
    <2> QED
        BY <2>7, <2>8
<1> QED
    BY <1>4, <1>5, <1>6, <1>7, <1>8 DEF r, s

\* Effects along a path are normal.
LEMMA NormalChanges ==
    ASSUME NEW e, IsEffect(e),
           e.kind = "modify" => \E B : IsBucket(B) /\ B # {} /\ e.changes = Sorted(B)
    PROVE  Normalize(e) = e
<1>1. CASE e.kind # "modify"
    BY <1>1, NormalizeIs
<1>2. CASE e.kind = "modify"
    <2>1. PICK B : IsBucket(B) /\ B # {} /\ e.changes = Sorted(B)
        BY <1>2
    <2>2. ComposeChanges(<<>>, e.changes) = e.changes /\ e.changes # <<>>
        BY <2>1, SortedChanges
    <2>3. e = ModifyEffect(e.before, e.after, e.changes)
        BY <1>2, EffectKinds
    <2> QED
        BY <1>2, <2>2, <2>3, NormalizeIs
<1> QED
    BY <1>1, <1>2

LEMMA LeadingIsNormal ==
    ASSUME NEW path, NEW k, NEW i, NEW e, Leading(path, k, i, e)
    PROVE  Normalize(e) = e
BY NormalChanges DEF Leading

LEMMA StepIsNormal ==
    ASSUME NEW path, NEW k, NEW i, NEW r, IsStep(r, path, k, i)
    PROVE  IsEffect(r) /\ Normalize(r) = r
<1>1. IsEffect(r)
    BY EffectsAre DEF IsStep
<1>2. r.kind = "modify" => \E B : IsBucket(B) /\ B # {} /\ r.changes = Sorted(B)
    BY EffectsAre DEF IsStep, IsDifference
<1> QED
    BY <1>1, <1>2, NormalChanges

LEMMA AlikeTrans ==
    ASSUME NEW x, NEW y, NEW z, Alike(x, y), Alike(y, z)
    PROVE  Alike(x, z)
BY DEF Alike

\* A step that does nothing.
LEMMA OnwardNothing ==
    ASSUME NEW path, NEW k, NEW i \in Nat, i >= 1, NEW l, Leading(path, k, i, l),
           Has(path[i], k) <=> Has(path[i + 1], k),
           Has(path[i], k) => Alike(ValueAt(path[i], k), ValueAt(path[i + 1], k))
    PROVE  Leading(path, k, i + 1, l)
<1> DEFINE v == ValueAt(path[1], k)
           b == ValueAt(path[i], k)
           a == ValueAt(path[i + 1], k)
<1>1. IsEffect(l) /\ l.kind \in {"none", "add", "remove", "modify"}
    BY EffectKinds DEF Leading
<1>2. CASE l.kind = "none"
    <2>1. /\ Has(path[1], k) <=> Has(path[i + 1], k)
          /\ Has(path[i + 1], k) => Alike(v, b) /\ Alike(b, a)
        BY <1>2 DEF Leading
    <2>2. Has(path[i + 1], k) => Alike(v, a)
        BY <2>1, AlikeTrans
    <2> QED
        BY <1>1, <1>2, <2>1, <2>2 DEF Leading
<1>3. CASE l.kind = "add"
    <2>1. ~Has(path[1], k) /\ Has(path[i], k) /\ IsPlainValue(l.value) /\ Alike(l.value, b)
        BY <1>3 DEF Leading
    <2>2. Alike(l.value, a)
        BY <2>1, AlikeTrans
    <2> QED
        BY <1>1, <1>3, <2>1, <2>2 DEF Leading
<1>4. CASE l.kind = "remove"
    BY <1>1, <1>4 DEF Leading
<1>5. CASE l.kind = "modify"
    <2>1. PICK B : IsBucket(B) /\ B # {} /\ l.changes = Sorted(B) /\ LeadsTo(path, k, i, B)
        BY <1>5 DEF Leading
    <2>2. Has(path[1], k) /\ Has(path[i], k) /\ Has(path[i + 1], k) /\ Alike(b, a)
        BY <1>5 DEF Leading
    <2>3. CASE ByElements(B, v, b)
        <3>1. ByElements(B, v, a)
            BY <2>2, <2>3 DEF ByElements, Alike
        <3>2. LeadsTo(path, k, i + 1, B)
            BY <3>1 DEF LeadsTo
        <3> QED
            BY <1>1, <1>5, <2>1, <2>2, <3>2 DEF Leading
    <2>4. CASE ByValue(B, b) /\ (IsArray(b) => Replaced(path, k, i))
        <3>1. ByValue(B, a)
            <4>1. PICK c, x : B = {c} /\ IsSetting(c, x) /\ x \in Value /\ NoDuplicates(x)
                              /\ Alike(x, b)
                BY <2>4 DEF ByValue
            <4>2. Alike(x, a)
                BY <2>2, <4>1, AlikeTrans
            <4> QED
                BY <4>1, <4>2 DEF ByValue
        <3>2. ASSUME IsArray(a) PROVE Replaced(path, k, i + 1)
            <4>1. IsArray(b)
                BY <2>2, <3>2 DEF Alike
            <4>2. PICK j \in 1..(i - 1) :
                      /\ Has(path[j], k) /\ Has(path[j + 1], k)
                      /\ ~IsArray(ValueAt(path[j], k)) /\ IsArray(ValueAt(path[j + 1], k))
                      /\ Alike(ValueAt(path[j + 1], k), b)
                BY <2>4, <4>1 DEF Replaced
            <4>3. j \in 1..(i + 1 - 1)
                OBVIOUS
            <4>4. Alike(ValueAt(path[j + 1], k), a)
                BY <2>2, <4>2, AlikeTrans
            <4> QED
                BY <4>2, <4>3, <4>4 DEF Replaced
        <3>3. LeadsTo(path, k, i + 1, B)
            BY <3>1, <3>2 DEF LeadsTo
        <3> QED
            BY <1>1, <1>5, <2>1, <2>2, <3>3 DEF Leading
    <2> QED
        BY <2>1, <2>3, <2>4 DEF LeadsTo
<1> QED
    BY <1>1, <1>2, <1>3, <1>4, <1>5

\* A step that changes a unit, after an addition.
LEMMA OnwardAdded ==
    ASSUME NEW path, NEW k, NEW i \in Nat, i >= 1, NEW l, Leading(path, k, i, l),
           l.kind = "add", i \in DOMAIN path, i + 1 \in DOMAIN path, ArePlain(path, k),
           Has(path[i + 1], k),
           NEW D, IsDifference(D, ValueAt(path[i], k), ValueAt(path[i + 1], k)), D # {},
           NEW r, r = ModifyEffect(ValueAt(path[i], k), ValueAt(path[i + 1], k), Sorted(D)),
           Normalize(r) = r
    PROVE  Leading(path, k, i + 1, ComposeEffects(l, r))
<1> DEFINE b == ValueAt(path[i], k)
           a == ValueAt(path[i + 1], k)
           v == l.value
           w == ApplyChanges(v, Sorted(D))
<1>1. /\ ~Has(path[1], k) /\ Has(path[i], k)
      /\ IsPlainValue(v) /\ Alike(v, b)
    BY DEF Leading
<1>2. IsPlainValue(b) /\ IsPlainValue(a)
    BY <1>1 DEF ArePlain
<1>3. r.kind = "modify" /\ r.changes = Sorted(D) /\ r # NoEffect /\ l # NoEffect
    BY EffectsAre
<1> HIDE DEF b, a
<1>4. IF IsArray(b) /\ IsArray(a) THEN ByElements(D, v, a) ELSE ByValue(D, a)
    BY <1>1, <1>2, DifferenceLeads DEF a, b
<1>5. IsBucket(D)
    BY DEF IsDifference
<1>6. IsPlainValue(w) /\ Alike(w, a)
    BY <1>1, <1>4, <1>5, LeadingChanges
<1>7. Patch(v, Sorted(D)) = Whole(w)
    <2>1. AreAll(Sorted(D))
        BY <1>5, SortedChanges
    <2>2. CASE IsArray(b) /\ IsArray(a)
        <3>1. \A c \in D : ArrayOp(c)
            BY <1>4, <2>2 DEF ByElements
        <3>2. Sorted(D) \in Seq(D)
            BY <1>5, SortedIs
        <3> DEFINE list == Sorted(D)
        <3> HIDE DEF list
        <3>3. \A j \in 1..Len(list) : list[j] \in D
            BY <3>2, LenProperties DEF list
        <3>4. IsArray(v)
            BY <1>1, <2>2 DEF Alike
        <3> QED
            BY <1>1, <2>1, <3>1, <3>3, <3>4, PatchIs DEF list, IsPlainValue
    <2>3. CASE ~(IsArray(b) /\ IsArray(a))
        <3>1. PICK c, x : D = {c} /\ IsSetting(c, x)
            BY <1>4, <2>3 DEF ByValue
        <3>2. Sorted(D) = <<c>> /\ ~ArrayOp(c)
            BY <1>5, <3>1, SortedSingle DEF IsSetting, ArrayOp
        <3> QED
            BY <1>1, <2>1, <3>2, PatchIs DEF IsPlainValue
    <2> QED
        BY <2>2, <2>3
<1>8. AddThenModify(l, r) = AddEffect(w)
    BY <1>3, <1>7 DEF AddThenModify, Whole
<1>9. ComposeEffects(l, r) = AddEffect(w)
    BY <1>3, <1>8 DEF ComposeEffects
<1> HIDE DEF w
<1>10. /\ IsEffect(AddEffect(w)) /\ AddEffect(w).kind = "add" /\ AddEffect(w).value = w
    BY EffectsAre
<1>11. Leading(path, k, i + 1, AddEffect(w))
    BY <1>1, <1>6, <1>10 DEF Leading, a
<1> QED
    BY <1>9, <1>11

\* A step that changes a unit, after other changes.
LEMMA OnwardModified ==
    ASSUME NEW path, NEW k, NEW n \in Nat, DOMAIN path = 1..n, Len(path) = n,
           NEW i \in 1..n, i + 1 \in 1..n, NEW l, Leading(path, k, i, l),
           l.kind = "modify", ArePlain(path, k), Has(path[i + 1], k),
           ~ElementReturns(path, k), ~ArrayReplaces(path, k),
           NEW D, IsDifference(D, ValueAt(path[i], k), ValueAt(path[i + 1], k)), D # {},
           NEW r, r = ModifyEffect(ValueAt(path[i], k), ValueAt(path[i + 1], k), Sorted(D))
    PROVE  Leading(path, k, i + 1, ComposeEffects(l, r))
<1> DEFINE v == ValueAt(path[1], k)
           b == ValueAt(path[i], k)
           a == ValueAt(path[i + 1], k)
<1>1. PICK B : IsBucket(B) /\ B # {} /\ l.changes = Sorted(B) /\ LeadsTo(path, k, i, B)
    BY DEF Leading
<1>2. Has(path[1], k) /\ Has(path[i], k) /\ 1 \in DOMAIN path
    BY DEF Leading
<1>3. IsPlainValue(v) /\ IsPlainValue(b) /\ IsPlainValue(a)
    BY <1>2 DEF ArePlain
<1>4. IsBucket(D)
    BY DEF IsDifference
<1> DEFINE M == Merged(Sorted(B) \o Sorted(D))
<1>5. LeadsTo(path, k, i + 1, M) /\ M # {}
    <2>1. CASE IsArray(b) /\ IsArray(a) /\ ByElements(B, v, b)
        <3>1. ASSUME NEW e \in ToSet(v), e \notin ToSet(b), e \in ToSet(a) PROVE FALSE
            <4>1. IsArray(v) /\ v \in Seq(Element) /\ e \in Element
                <5>1. IsArray(v) /\ v \in Seq(Element)
                    BY <1>3, <2>1, ArrayValue DEF ByElements, IsPlainValue
                <5>2. \A j \in DOMAIN v : v[j] \in Element
                    BY <5>1, LenProperties
                <5> QED
                    BY <5>1, <5>2 DEF ToSet
            <4>2. i # 1
                BY <3>1
            <4>3. 1 \in DOMAIN path /\ i \in DOMAIN path /\ i + 1 \in DOMAIN path
                  /\ 1 < i /\ i < i + 1
                BY <1>2, <4>2
            <4>4. \A s \in {path[1], path[i], path[i + 1]} : Has(s, k) /\ IsArray(ValueAt(s, k))
                BY <1>2, <2>1, <4>1
            <4>5. ElementReturns(path, k)
                BY <3>1, <4>1, <4>3, <4>4 DEF ElementReturns
            <4> QED
                BY <4>5
        <3> HIDE DEF v, b, a
        <3>2. \A e \in ToSet(v) : e \notin ToSet(b) => e \notin ToSet(a)
            BY <3>1
        <3>3. IsDifference(D, b, a)
            BY DEF b, a
        <3>4. M = Overlaid(B, D) /\ ByElements(Overlaid(B, D), v, a)
            BY <1>1, <1>3, <2>1, <3>2, <3>3, ElementsOnTop
        <3>5. D \subseteq M
            BY <3>4 DEF Overlaid
        <3> HIDE DEF M
        <3> QED
            BY <3>4, <3>5 DEF LeadsTo, v, a
    <2>2. CASE IsArray(b) /\ IsArray(a) /\ ~ByElements(B, v, b)
        <3>1. PICK j \in 1..(i - 1) :
                  /\ Has(path[j], k) /\ Has(path[j + 1], k)
                  /\ ~IsArray(ValueAt(path[j], k)) /\ IsArray(ValueAt(path[j + 1], k))
                  /\ Alike(ValueAt(path[j + 1], k), b)
            BY <1>1, <2>2 DEF LeadsTo, Replaced
        <3> DEFINE x == ValueAt(path[j + 1], k)
        <3>2. Seen(x) = Seen(b)
            BY <3>1, AlikeAreSeen
        <3>3. Seen(b) # Seen(a)
            <4> HIDE DEF b, a
            <4>1. ToSet(a) # ToSet(b)
                <5>1. SUFFICES ASSUME ToSet(a) = ToSet(b) PROVE FALSE
                    OBVIOUS
                <5>2. D = ArrayChanges(b, a)
                    BY <2>2 DEF IsDifference, b, a
                <5>3. ArrayChanges(b, a) = {}
                    BY <5>1 DEF ArrayChanges
                <5> QED
                    BY <5>2, <5>3
            <4>2. Seen(a) = <<ToSet(a)>> /\ Seen(b) = <<ToSet(b)>>
                BY <2>2 DEF Seen
            <4> QED
                BY <4>1, <4>2
        <3>4. j \in 1..(Len(path) - 2) /\ i + 1 \in (j + 2)..Len(path)
            OBVIOUS
        <3>5. Seen(a) # Seen(x)
            BY <3>2, <3>3
        <3> DEFINE m == i + 1
        <3>6. m \in (j + 2)..Len(path) /\ Has(path[m], k) /\ Seen(ValueAt(path[m], k)) # Seen(x)
            BY <3>4, <3>5
        <3> HIDE DEF m
        <3>7. ArrayReplaces(path, k)
            BY <3>1, <3>4, <3>6 DEF ArrayReplaces
        <3> QED
            BY <3>7
    <2>3. CASE ~(IsArray(b) /\ IsArray(a))
        <3>1. M = D /\ ByValue(D, a)
            BY <1>1, <1>3, <2>3, ValueOnTop
        <3>2. ASSUME IsArray(a) PROVE Replaced(path, k, i + 1)
            <4>1. i \in 1..(i + 1 - 1) /\ ~IsArray(b)
                BY <2>3, <3>2
            <4>2. Alike(a, a)
                BY DEF Alike
            <4> QED
                BY <1>2, <3>2, <4>1, <4>2 DEF Replaced
        <3> HIDE DEF M
        <3> QED
            BY <3>1, <3>2 DEF LeadsTo
    <2> QED
        BY <2>1, <2>2, <2>3
<1>6. /\ IsBucket(M) /\ ComposeChanges(Sorted(B), Sorted(D)) = Sorted(M)
    BY <1>1, <1>4, SortedChanges, ComposeChangesIs
<1> HIDE DEF M
<1>7. r.kind = "modify" /\ r.changes = Sorted(D) /\ r.after = a /\ r # NoEffect
    BY EffectsAre
<1>8. l # NoEffect
    BY EffectsAre
<1>9. Sorted(M) # <<>>
    BY <1>5, <1>6, SortedChanges
<1>10. ModifyTwice(l, r) = ModifyEffect(l.before, r.after, Sorted(M))
    BY <1>1, <1>6, <1>7, <1>9 DEF ModifyTwice
<1> DEFINE e == ModifyEffect(l.before, r.after, Sorted(M))
<1>11. ComposeEffects(l, r) = e
    BY <1>7, <1>8, <1>10 DEF ComposeEffects
<1>12. IsEffect(e) /\ e.kind = "modify" /\ e.changes = Sorted(M)
    BY EffectsAre
<1> HIDE DEF e
<1>13. Leading(path, k, i + 1, e)
    BY <1>2, <1>5, <1>6, <1>12 DEF Leading
<1> QED
    BY <1>11, <1>13

\* One step more along the path.
LEMMA Onward ==
    ASSUME NEW path, NEW k, NEW n \in Nat, DOMAIN path = 1..n, Len(path) = n,
           NEW i \in 1..n, i + 1 \in 1..n, ArePlain(path, k),
           ~UnitReturns(path, k), ~ElementReturns(path, k), ~ArrayReplaces(path, k),
           NEW l, Leading(path, k, i, l), NEW r, IsStep(r, path, k, i)
    PROVE  Leading(path, k, i + 1, ComposeEffects(l, r))
<1> DEFINE b == ValueAt(path[i], k)
           a == ValueAt(path[i + 1], k)
           was == Has(path[i], k)
           is == Has(path[i + 1], k)
           e == ComposeEffects(l, r)
<1>1. Normalize(l) = l /\ Normalize(r) = r /\ IsEffect(r) /\ IsEffect(l)
    BY LeadingIsNormal, StepIsNormal DEF Leading
<1>2. l.kind \in {"none", "add", "remove", "modify"} /\ (l.kind = "none" => l = NoEffect)
    BY <1>1, EffectKinds
<1>3. i \in Nat /\ i >= 1
    OBVIOUS
<1>4. l = NoEffect => e = r
    BY <1>1 DEF ComposeEffects
<1>5. CASE r = NoEffect /\ (was <=> is) /\ (was => Alike(b, a))
    <2>1. e = l
        BY <1>1, <1>5 DEF ComposeEffects
    <2>2. Leading(path, k, i + 1, l)
        BY <1>3, <1>5, OnwardNothing
    <2> HIDE DEF e
    <2> QED
        BY <2>1, <2>2 DEF e
<1>6. CASE r = AddEffect(a) /\ ~was /\ is
    <2>1. IsEffect(r) /\ r.kind = "add" /\ r.value = a /\ r # NoEffect
        BY <1>6, EffectsAre
    <2>2. e = r
        BY <1>4, <2>1 DEF ComposeEffects
    <2>3. ~Has(path[1], k)
        <3>1. ASSUME Has(path[1], k) PROVE FALSE
            <4>1. i # 1 /\ 1 \in DOMAIN path /\ i \in DOMAIN path /\ i + 1 \in DOMAIN path
                BY <1>6, <3>1
            <4>2. 1 < i /\ i < i + 1
                BY <4>1
            <4>3. UnitReturns(path, k)
                BY <1>6, <3>1, <4>1, <4>2 DEF UnitReturns
            <4> QED
                BY <4>3
        <3> QED
            BY <3>1
    <2>4. IsPlainValue(a)
        BY <1>6 DEF ArePlain
    <2>5. Alike(a, a)
        BY DEF Alike
    <2> HIDE DEF e
    <2>6. Leading(path, k, i + 1, r)
        BY <1>6, <2>1, <2>3, <2>4, <2>5 DEF Leading
    <2> QED
        BY <2>2, <2>6 DEF e
<1>7. CASE r = RemoveEffect /\ was /\ ~is
    <2>1. r.kind = "remove" /\ r # NoEffect
        BY <1>7, EffectsAre
    <2>2. CASE l.kind = "add"
        <3>1. ThenRemove(l) = NoEffect /\ l # NoEffect
            BY <2>2, EffectsAre DEF ThenRemove
        <3>2. e = NoEffect
            BY <2>1, <3>1 DEF ComposeEffects
        <3>3. ~Has(path[1], k)
            BY <2>2 DEF Leading
        <3> HIDE DEF e
        <3> QED
            BY <1>7, <3>2, <3>3, EffectsAre DEF Leading, e
    <2>3. CASE l.kind # "add"
        <3>1. ThenRemove(l) = RemoveEffect
            BY <2>3 DEF ThenRemove
        <3>2. e = RemoveEffect
            BY <1>4, <1>7, <2>1, <3>1 DEF ComposeEffects
        <3>3. Has(path[1], k)
            BY <1>2, <1>7, <2>3 DEF Leading
        <3> HIDE DEF e
        <3> QED
            BY <1>7, <3>2, <3>3, EffectsAre DEF Leading, e
    <2> QED
        BY <2>2, <2>3
<1>8. CASE was /\ is /\ \E D : /\ r = ModifyEffect(b, a, Sorted(D))
                               /\ IsDifference(D, b, a) /\ D # {}
    <2>1. PICK D : r = ModifyEffect(b, a, Sorted(D)) /\ IsDifference(D, b, a) /\ D # {}
        BY <1>8
    <2>2. r.kind = "modify" /\ r.changes = Sorted(D)
        BY <2>1, EffectsAre
    <2>3. CASE l.kind = "none"
        <3>1. e = r
            BY <1>2, <1>4, <2>3
        <3>2. Has(path[1], k) /\ Alike(ValueAt(path[1], k), b) /\ IsPlainValue(b) /\ IsPlainValue(a)
            BY <1>8, <2>3 DEF Leading, ArePlain
        <3>3. IF IsArray(b) /\ IsArray(a) THEN ByElements(D, ValueAt(path[1], k), a)
              ELSE ByValue(D, a)
            BY <2>1, <3>2, DifferenceLeads
        <3>4. LeadsTo(path, k, i + 1, D)
            <4>1. CASE IsArray(b) /\ IsArray(a)
                BY <3>3, <4>1 DEF LeadsTo
            <4>2. CASE ~(IsArray(b) /\ IsArray(a))
                <5>1. ASSUME IsArray(a) PROVE Replaced(path, k, i + 1)
                    <6>1. i \in 1..(i + 1 - 1) /\ ~IsArray(b)
                        BY <4>2, <5>1
                    <6>2. Alike(a, a)
                        BY DEF Alike
                    <6> QED
                        BY <1>8, <5>1, <6>1, <6>2 DEF Replaced
                <5> QED
                    BY <3>3, <4>2, <5>1 DEF LeadsTo
            <4> QED
                BY <4>1, <4>2
        <3>5. IsBucket(D)
            BY <2>1 DEF IsDifference
        <3> HIDE DEF e
        <3>6. Leading(path, k, i + 1, r)
            BY <1>1, <1>8, <2>1, <2>2, <3>2, <3>4, <3>5 DEF Leading
        <3> QED
            BY <3>1, <3>6 DEF e
    <2>4. CASE l.kind = "add"
        <3>1. i \in DOMAIN path /\ i + 1 \in DOMAIN path
            OBVIOUS
        <3> QED
            BY <1>1, <1>3, <1>8, <2>1, <2>4, <3>1, OnwardAdded
    <2>5. CASE l.kind = "remove"
        BY <1>8, <2>5 DEF Leading
    <2>6. CASE l.kind = "modify"
        BY <1>8, <2>1, <2>6, OnwardModified
    <2> QED
        BY <1>2, <2>3, <2>4, <2>5, <2>6
<1> QED
    BY <1>5, <1>6, <1>7, <1>8 DEF IsStep

\* Along a path on which nothing returns, what is composed leads to its end.
LEMMA PathLeads ==
    ASSUME NEW path, NEW n \in Nat, n >= 2, DOMAIN path = 1..(n + 1), Len(path) = n + 1,
           NEW g, AreComposed(g, path, n), NEW k \in Key, ArePlain(path, k),
           ~UnitReturns(path, k), ~ElementReturns(path, k), ~ArrayReplaces(path, k)
    PROVE  Leading(path, k, n + 1, Compressed(path)[k])
<1> DEFINE R(i) == Normalize(Step(path, i)[k])
           G(i) == Normalize(g[i][k])
<1>1. ASSUME NEW i \in 1..n PROVE IsStep(R(i), path, k, i)
    <2>1. i \in DOMAIN path /\ i + 1 \in DOMAIN path
        OBVIOUS
    <2> QED
        BY <2>1, StepIs
<1>2. ASSUME NEW i \in 1..n, NEW l, Leading(path, k, i, l)
      PROVE  Leading(path, k, i + 1, ComposeEffects(l, R(i)))
    <2>1. i \in 1..(n + 1) /\ i + 1 \in 1..(n + 1) /\ n + 1 \in Nat
        OBVIOUS
    <2> DEFINE r == R(i)
               m == n + 1
    <2>2. IsStep(r, path, k, i)
        BY <1>1
    <2> HIDE DEF r, m
    <2>3. m \in Nat /\ DOMAIN path = 1..m /\ Len(path) = m /\ i \in 1..m /\ i + 1 \in 1..m
        BY <2>1 DEF m
    <2>4. Leading(path, k, i + 1, ComposeEffects(l, r))
        BY <1>2, <2>2, <2>3, Onward
    <2> QED
        BY <2>4 DEF r
<1>3. ASSUME NEW i \in 2..n PROVE g[i][k] = ComposeEffects(G(i - 1), R(i))
    <2>1. g[i] = Compose(g[i - 1], Step(path, i))
        BY DEF AreComposed
    <2>2. g[i][k] = Composed(g[i - 1][k], Step(path, i)[k])
        BY <2>1 DEF Compose, Composed
    <2> QED
        BY <2>2, ComposedIs
<1> HIDE DEF R, G
<1> DEFINE T == {i \in Nat : i + 1 <= n => Leading(path, k, i + 2, G(i + 1))}
<1>4. 0 \in T
    <2> DEFINE i == 1
    <2>1. i \in 1..n /\ i + 1 = 0 + 2 /\ 0 + 1 = i
        OBVIOUS
    <2>2. Leading(path, k, i, NoEffect)
        <3>1. Alike(ValueAt(path[i], k), ValueAt(path[i], k))
            BY DEF Alike
        <3> QED
            BY <3>1, EffectsAre DEF Leading
    <2>3. g[i] = Step(path, i)
        BY DEF AreComposed
    <2> HIDE DEF i
    <2>4. R(i) = G(i)
        BY <2>3 DEF R, G
    <2>5. Normalize(R(i)) = R(i)
        BY <1>1, <2>1, StepIsNormal
    <2>6. ComposeEffects(NoEffect, R(i)) = G(i)
        BY <2>4, <2>5 DEF ComposeEffects
    <2>7. Leading(path, k, i + 1, G(i))
        BY <1>2, <2>1, <2>2, <2>6
    <2> QED
        BY <2>1, <2>7
<1>5. ASSUME NEW m \in Nat, m \in T PROVE m + 1 \in T
    <2> SUFFICES ASSUME m + 1 + 1 <= n PROVE Leading(path, k, m + 1 + 2, G(m + 1 + 1))
        OBVIOUS
    <2> DEFINE i == m + 1 + 1
    <2>1. i \in 2..n /\ i \in 1..n /\ i - 1 = m + 1 /\ m + 2 = i /\ m + 1 + 2 = i + 1
        OBVIOUS
    <2>2. Leading(path, k, i, G(i - 1))
        BY <1>5, <2>1
    <2> HIDE DEF i
    <2>3. Leading(path, k, i + 1, g[i][k])
        BY <1>2, <1>3, <2>1, <2>2
    <2>4. G(i) = g[i][k]
        BY <2>3, LeadingIsNormal DEF G
    <2>5. Leading(path, k, i + 1, G(i))
        BY <2>3, <2>4
    <2> QED
        BY <2>1, <2>5 DEF i
<1> HIDE DEF T
<1>6. Nat \subseteq T
    BY <1>4, <1>5, InductionOnSet
<1>7. n - 2 \in Nat /\ n - 2 + 1 = n - 1 /\ n - 2 + 2 = n /\ n - 1 <= n /\ n \in 2..n /\ n \in 1..n
    OBVIOUS
<1>8. Leading(path, k, n, G(n - 1))
    <2>1. n - 2 \in T
        BY <1>6, <1>7
    <2>2. n - 2 + 1 <= n => Leading(path, k, n - 2 + 2, G(n - 2 + 1))
        BY <2>1 DEF T
    <2> QED
        BY <1>7, <2>2
<1>9. Leading(path, k, n + 1, g[n][k])
    BY <1>2, <1>3, <1>7, <1>8
<1> QED
    BY <1>9 DEF AreComposed

\* An effect that leads to the end of the path does so when it is applied.
LEMMA LeadingApplied ==
    ASSUME NEW path, NEW k, NEW i \in DOMAIN path, 1 \in DOMAIN path, NEW e,
           Leading(path, k, i, e), ArePlain(path, k),
           NEW u, NEW w,
           Has(path[1], k) => Vals(u, k) = {ValueAt(path[1], k)},
           ~Has(path[1], k) => Vals(u, k) = {},
           Has(path[i], k) => Vals(w, k) = {ValueAt(path[i], k)},
           ~Has(path[i], k) => Vals(w, k) = {}
    PROVE  EffectLeads(Vals(u, k), e, Vals(w, k))
<1> SUFFICES Misfits(Vals(u, k), e) = {} /\ SameSeen(Effected(Vals(u, k), e), Vals(w, k))
    BY DEF EffectLeads
<1> DEFINE x == ValueAt(path[1], k)
           y == ValueAt(path[i], k)
<1>1. IsEffect(e) /\ e.kind \in {"none", "add", "remove", "modify"}
    BY EffectKinds DEF Leading
<1>2. CASE e.kind = "none"
    <2>1. Misfits(Vals(u, k), e) = {} /\ Effected(Vals(u, k), e) = Vals(u, k)
        BY <1>2 DEF Misfits, Effected
    <2>2. (Has(path[1], k) <=> Has(path[i], k)) /\ (Has(path[i], k) => Alike(x, y))
        BY <1>2 DEF Leading
    <2> HIDE DEF x, y
    <2>3. CASE Has(path[i], k)
        <3>1. Vals(u, k) = {x} /\ Vals(w, k) = {y}
            BY <2>2, <2>3 DEF x, y
        <3> QED
            BY <2>1, <2>2, <2>3, <3>1 DEF SameSeen
    <2>4. CASE ~Has(path[i], k)
        BY <2>1, <2>2, <2>4 DEF SameSeen
    <2> QED
        BY <2>3, <2>4
<1>3. CASE e.kind = "add"
    <2>1. ~Has(path[1], k) /\ Has(path[i], k) /\ Alike(e.value, y)
        BY <1>3 DEF Leading
    <2>2. Vals(u, k) = {} /\ Vals(w, k) = {y}
        BY <2>1
    <2>3. Misfits(Vals(u, k), e) = {} /\ Effected(Vals(u, k), e) = {e.value}
        BY <1>3, <2>2 DEF Misfits, Effected
    <2> HIDE DEF y
    <2> QED
        BY <2>1, <2>2, <2>3 DEF SameSeen
<1>4. CASE e.kind = "remove"
    <2>1. Has(path[1], k) /\ ~Has(path[i], k)
        BY <1>4 DEF Leading
    <2>2. Vals(u, k) # {} /\ Vals(w, k) = {}
        BY <2>1
    <2>3. Misfits(Vals(u, k), e) = {} /\ Effected(Vals(u, k), e) = {}
        BY <1>4, <2>2 DEF Misfits, Effected
    <2> QED
        BY <2>2, <2>3 DEF SameSeen
<1>5. CASE e.kind = "modify"
    <2>1. Has(path[1], k) /\ Has(path[i], k)
        BY <1>5 DEF Leading
    <2>2. PICK B : IsBucket(B) /\ e.changes = Sorted(B) /\ LeadsTo(path, k, i, B)
        BY <1>5 DEF Leading
    <2>3. ByElements(B, x, y) \/ ByValue(B, y)
        BY <2>2 DEF LeadsTo
    <2>4. IsPlainValue(x)
        BY <2>1 DEF ArePlain
    <2> DEFINE z == ApplyChanges(x, Sorted(B))
    <2>5. Alike(z, y)
        BY <2>2, <2>3, <2>4, LeadingChanges
    <2>7. Vals(u, k) = {x} /\ Vals(w, k) = {y}
        BY <2>1
    <2>8. Misfits(Vals(u, k), e) = {} /\ Effected(Vals(u, k), e) = {z}
        BY <1>5, <2>2, <2>7 DEF Misfits, Effected
    <2> HIDE DEF x, y, z
    <2> QED
        BY <2>5, <2>7, <2>8 DEF SameSeen
<1> QED
    BY <1>1, <1>2, <1>3, <1>4, <1>5

\* Along a path on which nothing that was removed comes back, and no array that
\* replaced a scalar changes again, the net delta of the ancestor leads to the
\* descendant and meets no conflict but those of the descendant
\* (compressRevisionChain, composeDelta).
THEOREM PathNetIsExactAlways == TreeSpec => []PathNetIsExact
<1>1. TreeType => PathNetIsExact
    <2> SUFFICES ASSUME TreeType, AllPlain,
                        NEW to \in Newest, NEW from \in ToSet(Line[to]),
                        NothingReturns(AncestorPath(from, to))
                 PROVE  Leads(CrossBranchNetDelta(from, to), from, to)
        BY DEF PathNetIsExact
    <2> DEFINE u == revisions[from].units
               w == revisions[to].units
               path == AncestorPath(from, to)
               d == CrossBranchNetDelta(from, to)
               D == DOMAIN revisions
               n == Len(path) - 1
    <2>1. to \in D /\ d = Compressed(path)
        BY DEF Newest, CrossBranchNetDelta, IsAncestor
    <2>2. path \in Seq(D) /\ Len(path) \in Nat \ {0} /\ path[1] = from /\ path[Len(path)] = to
        BY <2>1, PathIs
    <2> HIDE DEF path, D
    <2>3. DOMAIN path = 1..Len(path) /\ \A i \in 1..Len(path) : path[i] \in D
        BY <2>2, LenProperties
    <2>4. n \in Nat /\ Len(path) = n + 1 /\ 1 \in DOMAIN path /\ n + 1 \in DOMAIN path
        BY <2>2, <2>3
    <2>5. \A s \in D : revisions[s].units \in Seq(Unit) /\ Plain(revisions[s].units)
        BY UnitsOfRevision DEF AllPlain, D
    <2>6. \A s \in D : \A k :
              /\ ~Has(s, k) => Vals(revisions[s].units, k) = {}
              /\ Has(s, k) => /\ Vals(revisions[s].units, k) = {ValueAt(s, k)}
                              /\ IsPlainValue(ValueAt(s, k))
        BY <2>5, SelectedIs DEF Has, ValueAt, Plain, IsPlainValue
    <2>7. \A k : ArePlain(path, k)
        BY <2>3, <2>6 DEF ArePlain
    <2>8. from \in D /\ to \in D
        BY <2>1, <2>2, <2>3, <2>4
    <2>9. u \in Seq(Unit) /\ w \in Seq(Unit) /\ Plain(u) /\ Plain(w)
          /\ KeysUnique(u) /\ KeysUnique(w)
        BY <2>5, <2>8 DEF Plain
    <2> HIDE DEF n, d
    <2>10. ASSUME NEW k \in Key
           PROVE  EffectLeads(Vals(u, k), d[k], Vals(w, k))
        <3>1. CASE n = 0
            <4>1. d = Empty
                BY <2>1, <2>4, <3>1 DEF Compressed
            <4>2. d[k] = NoEffect
                BY <4>1 DEF Empty
            <4>3. Misfits(Vals(u, k), NoEffect) = {} /\ Effected(Vals(u, k), NoEffect) = Vals(u, k)
                BY EffectsAre DEF Misfits, Effected
            <4>4. u = w
                BY <2>2, <2>4, <3>1
            <4>5. \A x : Alike(x, x)
                BY DEF Alike
            <4> QED
                BY <4>2, <4>3, <4>4, <4>5 DEF EffectLeads, SameSeen
        <3>2. CASE n = 1
            <4>0. Len(path) \in Nat /\ Len(path) >= 2
                BY <2>4, <3>2
            <4>1. PICK g : AreComposed(g, path, n)
                BY <4>0, CompressedIs DEF n
            <4>2. g[1] = Compressed(path) /\ g[1] = Step(path, 1) /\ path[1 + 1] = to
                BY <2>2, <2>4, <3>2, <4>1 DEF AreComposed
            <4>3. d = Diff(u, w)
                BY <2>1, <2>2, <4>2 DEF Step, DiffRevisions
            <4> QED
                BY <2>9, <4>3, DiffEffectIs
        <3>3. CASE n >= 2
            <4>1. PICK g : AreComposed(g, path, n)
                BY <2>4, <3>3, CompressedIs DEF n
            <4>2. ~UnitReturns(path, k) /\ ~ElementReturns(path, k) /\ ~ArrayReplaces(path, k)
                BY DEF NothingReturns, path
            <4>3. Leading(path, k, n + 1, d[k])
                BY <2>1, <2>3, <2>4, <2>7, <3>3, <4>1, <4>2, PathLeads
            <4>4. path[n + 1] = to
                BY <2>2, <2>4
            <4> DEFINE e == d[k]
                       m == n + 1
            <4> HIDE DEF e, m
            <4>5. /\ m \in DOMAIN path /\ 1 \in DOMAIN path /\ Leading(path, k, m, e)
                  /\ path[m] = to /\ path[1] = from
                BY <2>2, <2>4, <4>3, <4>4 DEF e, m
            <4> QED
                BY <2>6, <2>7, <2>8, <4>5, LeadingApplied DEF e
        <3> QED
            BY <2>4, <3>1, <3>2, <3>3
    <2>11. Apply(u, d).conflicts = DetectConflicts(w)
           /\ Content(Apply(u, d).units) = Content(w)
        BY <2>9, <2>10, KeywiseLeads
    <2> QED
        BY <2>11 DEF Leads, d
<1> QED
    BY <1>1, TreeTyped, PTL

-----------------------------------------------------------------------------
(* Outcomes *)

\* The best effort application lists whatever detectConflicts would find in the
\* state that it reaches: there is nothing left for the check after it, and the
\* reason POST_APPLY_CONFLICT is never given.
THEOREM OutcomeListsAll ==
    ASSUME NEW units, NEW d
    PROVE  DetectConflicts(Apply(units, d).units) \subseteq Apply(units, d).conflicts
BY ApplyIs

\* The empty delta leaves the units and finds the conflicts that they have.
LEMMA EmptyOutcome ==
    ASSUME NEW u
    PROVE  /\ Apply(u, Empty).units = u
           /\ Apply(u, Empty).conflicts = DetectConflicts(u)
<1>1. \A k \in Key : Empty[k].kind \notin {"add", "remove", "modify"}
    BY DEF Empty, NoEffect
<1> DEFINE r == Run(u, Empty, EntriesOf(Empty))
<1>2. r = [units |-> u, conflicts |-> {}]
    BY <1>1, NothingRun DEF Start
<1>3. /\ Apply(u, Empty).units = r.units
      /\ Apply(u, Empty).conflicts = r.conflicts \cup DetectConflicts(r.units)
    BY ApplyIs
<1> HIDE DEF r
<1>4. r.units = u /\ r.conflicts = {}
    BY <1>2
<1> QED
    BY <1>3, <1>4

-----------------------------------------------------------------------------
(* The inductive invariant of the plan *)

\* What has been accepted was tried as a whole.
AcceptedWasTried ==
    /\ accepted = {} => delta = Empty
    /\ accepted # {} => Apply(base, delta).conflicts = {}

\* The report is the last thing that happens, or the answer to an invalid policy.
ReportIsLast ==
    /\ next \in Nat
    /\ next = 0 => candidates = <<>>
    /\ next = 0 /\ report # None => policy.rules # <<>> /\ ~ IsValid(policy)
    /\ Finished => (report.closureViolation <=> accepted = {} /\ ~ IsClean(base))

PlanInv == AcceptedWasTried /\ ReportIsLast

LEMMA InvalidPolicyKeeps == PlanInv /\ InvalidPolicy => PlanInv'
<1> SUFFICES ASSUME PlanInv, InvalidPolicy PROVE PlanInv'
    OBVIOUS
<1>1. /\ accepted' = accepted /\ delta' = delta /\ base' = base /\ next' = next
      /\ candidates' = candidates /\ policy' = policy /\ next = 0
      /\ policy.rules # <<>> /\ ~ IsValid(policy)
    BY DEF InvalidPolicy
<1>2. AcceptedWasTried'
    BY <1>1 DEF PlanInv, AcceptedWasTried
<1>3. ReportIsLast'
    BY <1>1 DEF PlanInv, ReportIsLast, Finished
<1> QED
    BY <1>2, <1>3 DEF PlanInv

LEMMA ExpandCandidatesKeeps == PlanInv /\ ExpandCandidates => PlanInv'
<1> SUFFICES ASSUME PlanInv, ExpandCandidates PROVE PlanInv'
    OBVIOUS
<1>1. /\ accepted' = accepted /\ delta' = delta /\ base' = base /\ next' = 1
      /\ policy' = policy /\ report' = report /\ next = 0
      /\ policy.rules = <<>> \/ IsValid(policy)
    BY DEF ExpandCandidates
<1>2. report' = None
    BY <1>1 DEF PlanInv, ReportIsLast
<1>3. AcceptedWasTried'
    BY <1>1 DEF PlanInv, AcceptedWasTried
<1>4. ReportIsLast'
    BY <1>1, <1>2 DEF ReportIsLast, Finished
<1> QED
    BY <1>3, <1>4 DEF PlanInv

LEMMA RefusalKeeps == PlanInv /\ (RefuseBlocked \/ RefuseConflict) => PlanInv'
<1> SUFFICES ASSUME PlanInv, RefuseBlocked \/ RefuseConflict PROVE PlanInv'
    OBVIOUS
<1>1. /\ accepted' = accepted /\ delta' = delta /\ base' = base /\ next' = next + 1
      /\ report' = report /\ report = None
    BY DEF RefuseBlocked, RefuseConflict, Considered
<1>2. next' \in Nat /\ next' # 0
    BY <1>1 DEF PlanInv, ReportIsLast
<1>3. AcceptedWasTried'
    BY <1>1 DEF PlanInv, AcceptedWasTried
<1>4. ReportIsLast'
    BY <1>1, <1>2 DEF ReportIsLast, Finished
<1> QED
    BY <1>3, <1>4 DEF PlanInv

LEMMA AcceptKeeps == PlanInv /\ Accept => PlanInv'
<1> SUFFICES ASSUME PlanInv, Accept PROVE PlanInv'
    OBVIOUS
<1>1. /\ accepted' = accepted \cup {next} /\ delta' = Tentative(next)
      /\ base' = base /\ next' = next + 1 /\ report' = report /\ report = None
      /\ Apply(base, Tentative(next)).conflicts = {}
    BY DEF Accept, Considered, Tentative
<1>2. next' \in Nat /\ next' # 0
    BY <1>1 DEF PlanInv, ReportIsLast
<1>3. accepted' # {} /\ Apply(base', delta').conflicts = {}
    BY <1>1
<1>4. AcceptedWasTried'
    BY <1>3 DEF AcceptedWasTried
<1>5. ReportIsLast'
    BY <1>1, <1>2 DEF ReportIsLast, Finished
<1> QED
    BY <1>4, <1>5 DEF PlanInv

LEMMA FinishKeeps == PlanInv /\ Finish => PlanInv'
<1> SUFFICES ASSUME PlanInv, Finish PROVE PlanInv'
    OBVIOUS
<1> DEFINE outcome == Apply(base, delta)
           conflicts == outcome.conflicts \cup DetectConflicts(outcome.units)
<1>1. /\ accepted' = accepted /\ delta' = delta /\ base' = base /\ next' = next
      /\ candidates' = candidates /\ policy' = policy
      /\ next = Len(candidates) + 1
    BY DEF Finish
<1>2. next \in Nat /\ next # 0
    BY <1>1 DEF PlanInv, ReportIsLast
<1>3. report'.closureViolation = (conflicts # {})
    BY DEF Finish
<1>4. conflicts # {} <=> accepted = {} /\ ~ IsClean(base)
    <2>1. CASE accepted = {}
        <3>1. delta = Empty
            BY <2>1 DEF PlanInv, AcceptedWasTried
        <3>2. conflicts = DetectConflicts(base)
            BY <3>1, EmptyOutcome
        <3> QED
            BY <2>1, <3>2 DEF IsClean
    <2>2. CASE accepted # {}
        <3>1. outcome.conflicts = {}
            BY <2>2 DEF PlanInv, AcceptedWasTried
        <3>2. conflicts = {}
            BY <3>1, OutcomeListsAll
        <3> QED
            BY <2>2, <3>2
    <2> QED
        BY <2>1, <2>2
<1>5. AcceptedWasTried'
    BY <1>1 DEF PlanInv, AcceptedWasTried
<1>6. (report.closureViolation <=> accepted = {} /\ ~ IsClean(base))'
    <2>1. IsClean(base)' <=> IsClean(base)
        BY <1>1
    <2> QED
        BY <1>1, <1>3, <1>4, <2>1
<1>7. ReportIsLast'
    BY <1>1, <1>2, <1>6 DEF ReportIsLast, Finished
<1> QED
    BY <1>5, <1>7 DEF PlanInv

\* What is accepted applies to the base without a conflict in every reachable
\* state, and nothing happens after the report.
THEOREM PlanInvariant == Spec => []PlanInv
<1>1. Init => PlanInv
    BY DEF Init, PlanInv, AcceptedWasTried, ReportIsLast, Finished
<1>2. PlanInv /\ [Next]_vars => PlanInv'
    <2> SUFFICES ASSUME PlanInv, [Next]_vars PROVE PlanInv'
        OBVIOUS
    <2>1. CASE UNCHANGED vars
        BY <2>1 DEF vars, PlanInv, AcceptedWasTried, ReportIsLast, Finished
    <2> QED
        BY <2>1, InvalidPolicyKeeps, ExpandCandidatesKeeps, RefusalKeeps, AcceptKeeps,
           FinishKeeps DEF Next
<1> QED
    BY <1>1, <1>2, PTL DEF Spec

\* The accepted part of any proposal applies to its base without a conflict
\* whenever the base had none or anything was accepted, and the plan reports a
\* violation only for a base with conflicts of which nothing could be accepted.
THEOREM AcceptedStaysClean == Spec => []AcceptedIsClean
<1>1. PlanInv => AcceptedIsClean
    <2> SUFFICES ASSUME PlanInv PROVE AcceptedIsClean
        OBVIOUS
    <2>1. accepted # {} => Apply(base, delta).conflicts = {}
        BY DEF PlanInv, AcceptedWasTried
    <2>2. IsClean(base) /\ accepted = {} => Apply(base, delta).conflicts = {}
        BY EmptyOutcome DEF PlanInv, AcceptedWasTried, IsClean
    <2>3. Finished => (report.closureViolation <=> accepted = {} /\ ~ IsClean(base))
        BY DEF PlanInv, ReportIsLast
    <2> QED
        BY <2>1, <2>2, <2>3 DEF AcceptedIsClean
<1> QED
    BY <1>1, PlanInvariant, PTL

-----------------------------------------------------------------------------
(* Stable sorts *)

\* A strict weak order of the first n numbers, and the order of a stable sort by
\* it.
WeakOrder(W, n) ==
    /\ \A i, j \in 1..n : <<i, j>> \in W => <<j, i>> \notin W
    /\ \A i, j, l \in 1..n : <<i, j>> \notin W /\ <<j, l>> \notin W => <<i, l>> \notin W

Stable(W, n) ==
    {p \in (1..n) \X (1..n) : p \in W \/ (p[1] < p[2] /\ <<p[2], p[1]>> \notin W)}

LEMMA StableOrders ==
    ASSUME NEW n \in Nat, NEW W, WeakOrder(W, n)
    PROVE  Orders(Stable(W, n), 1..n)
<1> DEFINE R == Stable(W, n)
           w(i, j) == <<i, j>> \in W
<1>1. \A i, j \in 1..n : <<i, j>> \in R <=> w(i, j) \/ (i < j /\ ~w(j, i))
    BY DEF Stable
<1>2. \A i, j \in 1..n : w(i, j) => ~w(j, i)
    BY DEF WeakOrder
<1>3. \A i, j, l \in 1..n : ~w(i, j) /\ ~w(j, l) => ~w(i, l)
    BY DEF WeakOrder
<1> HIDE DEF w, R
<1>4. \A x \in 1..n : <<x, x>> \notin R
    BY <1>1, <1>2
<1>5. \A x, y \in 1..n : x # y => <<x, y>> \in R \/ <<y, x>> \in R
    BY <1>1, <1>2
<1>6. ASSUME NEW x \in 1..n, NEW y \in 1..n, NEW z \in 1..n, <<x, y>> \in R, <<y, z>> \in R
      PROVE  <<x, z>> \in R
    <2>1. w(x, y) \/ (x < y /\ ~w(y, x))
        BY <1>1, <1>6
    <2>2. w(y, z) \/ (y < z /\ ~w(z, y))
        BY <1>1, <1>6
    <2>3. CASE w(x, y)
        <3>1. ~w(z, y)
            BY <1>2, <2>2
        <3>2. w(x, z)
            BY <1>3, <2>3, <3>1
        <3> QED
            BY <1>1, <3>2
    <2>4. CASE ~w(x, y) /\ w(y, z)
        <3>1. ~w(y, x)
            BY <2>1, <2>4
        <3>2. w(x, z)
            BY <1>3, <2>4, <3>1
        <3> QED
            BY <1>1, <3>2
    <2>5. CASE ~w(x, y) /\ ~w(y, z)
        <3>1. x < z /\ ~w(z, x)
            BY <1>3, <2>1, <2>2, <2>5
        <3> QED
            BY <1>1, <3>1
    <2> QED
        BY <2>3, <2>4, <2>5
<1> QED
    BY <1>4, <1>5, <1>6 DEF Orders, R

\* What SortedBy makes of a sequence whose elements stand as W says.
IsSortOf(t, s, n, W) ==
    /\ t \in [1..n -> ToSet(s)] /\ ToSet(t) = ToSet(s)
    /\ \E order \in [1..n -> 1..n] :
          /\ \A i, j \in 1..n : order[i] = order[j] => i = j
          /\ \A i \in 1..n : \E j \in 1..n : order[j] = i
          /\ \A i \in 1..n : t[i] = s[order[i]]
          /\ \A i, j \in 1..n : i < j => <<order[j], order[i]>> \notin W

LEMMA StableSort ==
    ASSUME NEW n \in Nat, NEW s, DOMAIN s = 1..n, NEW W, WeakOrder(W, n),
           NEW order, Lists(order, 1..n, Stable(W, n)),
           NEW t, t = [i \in DOMAIN s |-> s[order[i]]]
    PROVE  IsSortOf(t, s, n, W)
<1> DEFINE R == Stable(W, n)
           D == 1..n
<1>1. IsFiniteSet(D) /\ Cardinality(D) = n
    BY FS_Interval
<1>2. Orders(R, D) /\ Lists(order, D, R)
    BY StableOrders
<1>3. \A i, j \in D : i < j /\ <<i, j>> \in W => <<j, i>> \notin W
    BY DEF WeakOrder
<1>4. \A i, j \in D : <<i, j>> \in R => <<j, i>> \notin W
    BY DEF Stable, WeakOrder
<1> HIDE DEF R, D
<1>5. /\ order \in Seq(D) /\ Len(order) = Cardinality(D) /\ ToSet(order) = D
      /\ \A i, j \in 1..Len(order) : order[i] = order[j] => i = j
      /\ \A i, j \in 1..Len(order) : i < j => <<order[i], order[j]>> \in R
    BY <1>1, <1>2, ListedIs
<1>6. order \in [1..n -> D] /\ Len(order) = n
    BY <1>1, <1>5, LenProperties
<1>7. \A i, j \in 1..n : order[i] = order[j] => i = j
    BY <1>5, <1>6
<1>8. \A i \in 1..n : \E j \in 1..n : order[j] = i
    <2>1. \A i \in D : \E j \in DOMAIN order : order[j] = i
        BY <1>5 DEF ToSet
    <2> QED
        BY <1>6, <2>1 DEF D
<1>9. \A i, j \in 1..n : i < j => <<order[j], order[i]>> \notin W
    <2> TAKE i, j \in 1..n
    <2> HAVE i < j
    <2>1. <<order[i], order[j]>> \in R
        BY <1>5, <1>6
    <2> QED
        BY <1>4, <1>6, <2>1
<1>10. \A i \in 1..n : order[i] \in 1..n /\ t[i] = s[order[i]]
    BY <1>6 DEF D
<1>11. t \in [1..n -> ToSet(s)]
    <2>1. \A i \in 1..n : t[i] \in ToSet(s)
        BY <1>10 DEF ToSet
    <2>2. DOMAIN t = 1..n /\ t = [i \in 1..n |-> t[i]]
        OBVIOUS
    <2> QED
        BY <2>1, <2>2
<1>12. ToSet(t) = ToSet(s)
    <2>1. ToSet(t) \subseteq ToSet(s)
        BY <1>11 DEF ToSet
    <2>2. ASSUME NEW i \in 1..n PROVE s[i] \in ToSet(t)
        <3>1. PICK j \in 1..n : order[j] = i
            BY <1>8
        <3> QED
            BY <1>10, <1>11, <3>1 DEF ToSet
    <2>3. ToSet(s) = {s[i] : i \in 1..n}
        BY DEF ToSet
    <2>4. ToSet(s) \subseteq ToSet(t)
        BY <2>2, <2>3
    <2> QED
        BY <2>1, <2>4
<1>13. order \in [1..n -> 1..n]
    BY <1>6 DEF D
<1> QED
    BY <1>7, <1>8, <1>9, <1>10, <1>11, <1>12, <1>13 DEF IsSortOf

-----------------------------------------------------------------------------
(* The candidates of a proposal *)

IsCandidate(c) ==
    /\ c.key \in Key /\ c.path \in {"whole", "field"}
    /\ c.op \in {"add", "remove", "set", "append", "modify"}
    /\ IsSound(c.effect) /\ c.effect.kind \in {"add", "remove", "modify"}

\* Candidates, in the order of their keys.
AreCandidates(list) == \E S : list \in Seq(S) /\ \A c \in S : IsCandidate(c)

AreByKey(list) == \A i, j \in DOMAIN list : i < j => list[i].key <= list[j].key

LEMMA OpRanks ==
    ASSUME NEW c
    PROVE  SelectInSeq(OpOrder, LAMBDA op : op = c.op) \in Nat
<1> DEFINE I == {i \in 1..Len(OpOrder) : OpOrder[i] = c.op}
<1>1. SelectInSeq(OpOrder, LAMBDA op : op = c.op) = IF I # {} THEN Min(I) ELSE 0
    BY DEF SelectInSeq
<1>2. I \subseteq Nat
    <2>1. Len(OpOrder) = 5
        BY DEF OpOrder
    <2> QED
        BY <2>1
<1> HIDE DEF I
<1>3. CASE I = {}
    BY <1>1, <1>3
<1>4. CASE I # {}
    <2>1. \E y \in I : \A z \in I : y <= z
        BY <1>2, <1>4, LeastNumber
    <2>2. Min(I) \in I
        BY <2>1 DEF Min
    <2> QED
        BY <1>1, <1>2, <1>4, <2>2
<1> QED
    BY <1>3, <1>4

\* Expand sorts candidates by their keys.
LEMMA CandidatesSorted ==
    ASSUME NEW s, AreCandidates(s)
    PROVE  LET t == SortedBy(s, Before) IN
           AreCandidates(t) /\ AreByKey(t) /\ ToSet(t) = ToSet(s)
<1> DEFINE n == Len(s)
           W == {p \in (1..n) \X (1..n) : Before(s[p[1]], s[p[2]])}
           R == Stable(W, n)
           order == Listed(DOMAIN s, LAMBDA i, j : Before(s[i], s[j])
                                                   \/ (i < j /\ ~Before(s[j], s[i])))
           t == SortedBy(s, Before)
<1>1. PICK S : s \in Seq(S) /\ \A c \in S : IsCandidate(c)
    BY DEF AreCandidates
<1>2. n \in Nat /\ DOMAIN s = 1..n /\ \A i \in 1..n : IsCandidate(s[i])
    BY <1>1, LenProperties
<1> HIDE DEF n
<1>3. t = [i \in DOMAIN s |-> s[order[i]]]
    BY DEF SortedBy
<1>4. \A i, j \in 1..n : <<i, j>> \in W <=> Before(s[i], s[j])
    OBVIOUS
<1> DEFINE rank(c) == SelectInSeq(OpOrder, LAMBDA op : op = c.op)
<1>5. \A a, b : Before(a, b) <=> \/ a.key < b.key
                                 \/ a.key = b.key /\ a.path = "field" /\ b.path = "whole"
                                 \/ a.key = b.key /\ a.path = b.path /\ rank(a) < rank(b)
    BY DEF Before
<1>6. \A c : rank(c) \in Nat
    BY OpRanks
<1>7. \A c : IsCandidate(c) => c.key \in Int /\ c.path \in {"whole", "field"}
    BY Ordered DEF IsCandidate
<1> HIDE DEF rank, W
<1>8. WeakOrder(W, n)
    <2>1. \A i \in 1..n : s[i].key \in Int /\ s[i].path \in {"whole", "field"}
        BY <1>2, <1>7
    <2>2. \A i, j \in 1..n : Before(s[i], s[j]) => ~Before(s[j], s[i])
        BY <1>5, <1>6, <2>1
    <2>3. \A i, j, l \in 1..n :
              ~Before(s[i], s[j]) /\ ~Before(s[j], s[l]) => ~Before(s[i], s[l])
        BY <1>5, <1>6, <2>1
    <2> QED
        BY <1>4, <2>2, <2>3 DEF WeakOrder
<1> DEFINE D == 1..n
           below(x) == {y \in D : Before(s[y], s[x]) \/ (y < x /\ ~Before(s[x], s[y]))}
<1>9. \A x \in D : {y \in D : <<y, x>> \in R} = below(x)
    BY <1>4 DEF Stable
<1>10. order = [i \in 1..Cardinality(D) |->
                   CHOOSE x \in D : Cardinality(below(x)) = i - 1]
    BY <1>2 DEF Listed
<1> HIDE DEF below, D, R, order
<1>11. Lists(order, D, R)
    <2>1. ASSUME NEW i \in 1..Cardinality(D), NEW x \in D,
                 Cardinality({y \in D : <<y, x>> \in R}) = i - 1
          PROVE  /\ order[i] \in D
                 /\ Cardinality({y \in D : <<y, order[i]>> \in R}) = i - 1
        <3>1. Cardinality(below(x)) = i - 1
            BY <1>9, <2>1
        <3>2. order[i] = CHOOSE z \in D : Cardinality(below(z)) = i - 1
            BY <1>10
        <3>3. order[i] \in D /\ Cardinality(below(order[i])) = i - 1
            BY <3>1, <3>2
        <3> QED
            BY <1>9, <3>3
    <2>2. PICK V : order \in [1..Cardinality(D) -> V]
        <3> DEFINE V == {CHOOSE x \in D : Cardinality(below(x)) = i - 1 :
                            i \in 1..Cardinality(D)}
        <3>1. order \in [1..Cardinality(D) -> V]
            BY <1>10
        <3> HIDE DEF V
        <3> QED
            BY <3>1
    <2> QED
        BY <2>1, <2>2 DEF Lists
<1> HIDE DEF t
<1>12. IsSortOf(t, s, n, W)
    BY <1>2, <1>3, <1>8, <1>11, StableSort DEF D, R
<1>13. PICK o \in [1..n -> 1..n] :
          /\ \A i \in 1..n : t[i] = s[o[i]]
          /\ \A i, j \in 1..n : i < j => <<o[j], o[i]>> \notin W
    BY <1>12 DEF IsSortOf
<1>14. t \in [1..n -> ToSet(s)]
    BY <1>12 DEF IsSortOf
<1>15. \A c \in ToSet(s) : IsCandidate(c)
    BY <1>2 DEF ToSet
<1>16. AreCandidates(t)
    <2>1. t \in Seq(ToSet(s))
        BY <1>2, <1>14
    <2> QED
        BY <1>15, <2>1 DEF AreCandidates
<1>17. AreByKey(t)
    <2> SUFFICES ASSUME NEW i \in 1..n, NEW j \in 1..n, i < j PROVE t[i].key <= t[j].key
        BY <1>14 DEF AreByKey
    <2>1. ~Before(s[o[j]], s[o[i]])
        BY <1>4, <1>13
    <2>2. ~(s[o[j]].key < s[o[i]].key)
        BY <1>5, <2>1
    <2>3. s[o[i]].key \in Int /\ s[o[j]].key \in Int
        BY <1>2, <1>7, <1>13
    <2> QED
        BY <1>13, <2>2, <2>3
<1>18. ToSet(t) = ToSet(s)
    BY <1>12 DEF IsSortOf
<1> QED
    BY <1>16, <1>17, <1>18 DEF t

\* The candidates of one entry.
IsEntry(e) ==
    /\ e.key \in Key /\ e.kind \in {"add", "remove", "modify"}
    /\ e.kind = "modify" =>
          /\ e.changes \in Seq(ToSet(e.changes))
          /\ \A c \in ToSet(e.changes) \ {Unsafe} : IsChange(c)

LEMMA CandidatesOfEntry ==
    ASSUME NEW e, IsEntry(e), NEW given,
           e.kind = "modify" /\ ~given.fieldLevelModify => Unsafe \notin ToSet(e.changes)
    PROVE  AreCandidates(CandidatesOf(e, given))
<1>1. CASE ~IsSplit(e, given)
    <2>1. CandidatesOf(e, given) = <<WholeUnit(e)>>
        BY <1>1 DEF CandidatesOf
    <2> DEFINE f == EntryEffect(e)
               x == WholeUnit(e)
    <2>2. x.key = e.key /\ x.path = "whole" /\ x.op = e.kind /\ x.effect = f
        BY DEF WholeUnit
    <2> HIDE DEF f, x
    <2>3. IsSound(f) /\ f.kind \in {"add", "remove", "modify"}
        <3>1. CASE e.kind = "add"
            <4>1. f = AddEffect(e.value)
                BY <3>1 DEF EntryEffect, f
            <4> QED
                BY <4>1, EffectsAre DEF IsSound
        <3>2. CASE e.kind = "remove"
            <4>1. f = RemoveEffect
                BY <3>2 DEF EntryEffect, f
            <4> QED
                BY <4>1, EffectsAre DEF IsSound
        <3>3. CASE e.kind = "modify"
            <4>1. f = ModifyEffect(e.before, e.after, e.changes)
                BY <3>3 DEF EntryEffect, f
            <4>2. Unsafe \notin ToSet(e.changes)
                <5>1. CASE given.fieldLevelModify
                    <6>1. e.changes = <<>>
                        BY <1>1, <3>3, <5>1 DEF IsSplit
                    <6>2. ToSet(<<>>) = {}
                        BY DEF ToSet
                    <6> QED
                        BY <6>1, <6>2
                <5>2. CASE ~given.fieldLevelModify
                    BY <3>3, <5>2
                <5> QED
                    BY <5>1, <5>2
            <4>3. \A c \in ToSet(e.changes) : IsChange(c)
                BY <3>3, <4>2 DEF IsEntry
            <4>4. AreAll(e.changes)
                BY <3>3, <4>3 DEF IsEntry, AreAll
            <4> QED
                BY <4>1, <4>4, EffectsAre DEF IsSound
        <3> QED
            BY <3>1, <3>2, <3>3 DEF IsEntry
    <2>4. IsCandidate(x)
        BY <2>2, <2>3 DEF IsCandidate, IsEntry
    <2> DEFINE W == {x}
    <2>5. <<x>> \in Seq(W) /\ \A c \in W : IsCandidate(c)
        BY <2>4
    <2> HIDE DEF W
    <2>6. AreCandidates(<<x>>)
        BY <2>5 DEF AreCandidates
    <2> QED
        BY <2>1, <2>6 DEF x
<1>2. CASE IsSplit(e, given)
    <2>1. e.kind = "modify" /\ e.changes # <<>>
        BY <1>2 DEF IsSplit
    <2> DEFINE n == Len(e.changes)
               Piece(c) == IF c = Unsafe THEN <<>> ELSE <<OfField(e, c)>>
               pieces == [i \in DOMAIN e.changes |-> Piece(e.changes[i])]
               safe == ToSet(e.changes) \ {Unsafe}
               T == {OfField(e, c) : c \in safe}
    <2>2. CandidatesOf(e, given) = FlattenSeq(pieces)
        BY <1>2 DEF CandidatesOf, Flat
    <2>3. n \in Nat /\ DOMAIN e.changes = 1..n /\ \A i \in 1..n : e.changes[i] \in ToSet(e.changes)
        BY <2>1, LenProperties DEF IsEntry
    <2>4. \A c \in safe : IsChange(c)
        BY <2>1 DEF IsEntry
    <2>5. ASSUME NEW c \in safe PROVE IsCandidate(OfField(e, c))
        <3> DEFINE x == OfField(e, c)
                   one == <<c>>
                   f == ModifyEffect(e.before, e.after, one)
        <3>1. x.key = e.key /\ x.path = "field" /\ x.effect = f
              /\ x.op = IF c.op = "unset" THEN "set" ELSE c.op
            BY DEF OfField
        <3>2. one \in Seq({c})
            OBVIOUS
        <3> HIDE DEF x, one
        <3>3. AreAll(one)
            BY <2>4, <3>2 DEF AreAll
        <3>4. IsSound(f) /\ f.kind = "modify"
            BY <3>3, EffectsAre DEF IsSound
        <3>5. x.op \in {"add", "remove", "set", "append", "modify"}
            BY <2>4, <3>1 DEF IsChange
        <3> HIDE DEF f
        <3> QED
            BY <3>1, <3>4, <3>5 DEF IsCandidate, IsEntry, x
    <2>6. ASSUME NEW i \in 1..n PROVE Piece(e.changes[i]) \in Seq(T)
        <3>1. CASE e.changes[i] = Unsafe
            BY <3>1
        <3>2. CASE e.changes[i] # Unsafe
            <4> DEFINE x == OfField(e, e.changes[i])
            <4>1. x \in T
                BY <2>3, <3>2
            <4> HIDE DEF x, T
            <4>2. <<x>> \in Seq(T)
                BY <4>1
            <4> QED
                BY <3>2, <4>2 DEF x
        <3> QED
            BY <3>1, <3>2
    <2> HIDE DEF T, Piece, n
    <2>7. pieces \in [1..n -> Seq(T)]
        BY <2>3, <2>6
    <2> HIDE DEF pieces
    <2>8. FlattenSeq(pieces) \in Seq(T)
        BY <2>3, <2>7, FlattenProperties
    <2>9. \A x \in T : IsCandidate(x)
        BY <2>5 DEF T
    <2>10. AreCandidates(FlattenSeq(pieces))
        BY <2>8, <2>9 DEF AreCandidates
    <2> QED
        BY <2>2, <2>10
<1> QED
    BY <1>1, <1>2

\* The candidates of an entry that gives its unit no other key do not either.
LEMMA CandidatesKeep ==
    ASSUME NEW e, IsEntry(e), NEW given, KeepsKey(e.key, EntryEffect(e))
    PROVE  \A c \in ToSet(CandidatesOf(e, given)) : KeepsKey(c.key, c.effect)
<1>1. CASE ~IsSplit(e, given)
    <2> DEFINE x == WholeUnit(e)
    <2>1. CandidatesOf(e, given) = <<x>>
        BY <1>1 DEF CandidatesOf
    <2>2. x.key = e.key /\ x.effect = EntryEffect(e)
        BY DEF WholeUnit
    <2> HIDE DEF x
    <2>3. ToSet(<<x>>) = {x}
        BY DEF ToSet
    <2> QED
        BY <2>1, <2>2, <2>3
<1>2. CASE IsSplit(e, given)
    <2>1. e.kind = "modify" /\ e.changes # <<>>
        BY <1>2 DEF IsSplit
    <2> DEFINE n == Len(e.changes)
               Piece(c) == IF c = Unsafe THEN <<>> ELSE <<OfField(e, c)>>
               pieces == [i \in DOMAIN e.changes |-> Piece(e.changes[i])]
               T == {OfField(e, c) : c \in ToSet(e.changes)}
    <2>2. CandidatesOf(e, given) = FlattenSeq(pieces)
        BY <1>2 DEF CandidatesOf, Flat
    <2>3. n \in Nat /\ DOMAIN e.changes = 1..n /\ \A i \in 1..n : e.changes[i] \in ToSet(e.changes)
        BY <2>1, LenProperties DEF IsEntry
    <2>4. ASSUME NEW i \in 1..n PROVE Piece(e.changes[i]) \in Seq(T)
        <3>1. CASE e.changes[i] = Unsafe
            BY <3>1
        <3>2. CASE e.changes[i] # Unsafe
            <4> DEFINE x == OfField(e, e.changes[i])
            <4>1. x \in T
                BY <2>3
            <4> HIDE DEF x, T
            <4>2. <<x>> \in Seq(T)
                BY <4>1
            <4> QED
                BY <3>2, <4>2 DEF x
        <3> QED
            BY <3>1, <3>2
    <2> HIDE DEF T, Piece, n
    <2>5. pieces \in [1..n -> Seq(T)]
        BY <2>3, <2>4
    <2> HIDE DEF pieces
    <2>6. FlattenSeq(pieces) \in Seq(T)
        BY <2>3, <2>5, FlattenProperties
    <2> DEFINE all == FlattenSeq(pieces)
    <2> HIDE DEF all
    <2>7. ToSet(all) \subseteq T
        <3>1. all \in [1..Len(all) -> T] /\ DOMAIN all = 1..Len(all)
            BY <2>6, LenProperties DEF all
        <3> QED
            BY <3>1 DEF ToSet
    <2>8. ASSUME NEW c \in ToSet(e.changes)
          PROVE  KeepsKey(OfField(e, c).key, OfField(e, c).effect)
        <3> DEFINE k == e.key
                   one == <<c>>
                   f == ModifyEffect(e.before, e.after, one)
                   list == e.changes
        <3>1. OfField(e, c).key = k /\ OfField(e, c).effect = f
            BY DEF OfField
        <3>2. CASE k \in Own
            BY <3>1, <3>2 DEF KeepsKey
        <3>3. CASE k \notin Own
            <4>1. EntryEffect(e) = ModifyEffect(e.before, e.after, list)
                BY <2>1 DEF EntryEffect
            <4>2. ToSet(one) = {c}
                BY DEF ToSet
            <4> HIDE DEF one
            <4>3. KeepsKey(k, ModifyEffect(e.before, e.after, list))
                BY <4>1
            <4> HIDE DEF list, k
            <4>4. KeyOf(k, e.after) = k /\ AllKeep(k, list)
                BY <3>3, <4>3, KeepsIs
            <4>5. AllKeep(k, one)
                BY <4>2, <4>4 DEF AllKeep, list
            <4>6. KeepsKey(k, ModifyEffect(e.before, e.after, one))
                BY <3>3, <4>4, <4>5, KeepsIs
            <4> QED
                BY <3>1, <4>6
        <3> QED
            BY <3>2, <3>3
    <2> QED
        BY <2>2, <2>7, <2>8 DEF T, all
<1> QED
    BY <1>1, <1>2

\* What a proposal may hold (see Init).
IsPossible(entries, given) ==
    \A i \in DOMAIN entries :
        ~given.fieldLevelModify /\ entries[i].kind = "modify" =>
            Unsafe \notin ToSet(entries[i].changes)

LEMMA ExpandIs ==
    ASSUME NEW p \in Proposal, NEW given, IsPossible(p, given)
    PROVE  /\ AreCandidates(Expand(p, given)) /\ AreByKey(Expand(p, given))
           /\ ToSet(Expand(p, given)) = UNION {ToSet(CandidatesOf(p[i], given)) : i \in DOMAIN p}
<1> DEFINE n == Len(p)
           pieces == [i \in DOMAIN p |-> CandidatesOf(p[i], given)]
           T == UNION {ToSet(pieces[i]) : i \in 1..n}
<1>1. Expand(p, given) = SortedBy(FlattenSeq(pieces), Before)
    BY DEF Expand, Flat
<1>2. p \in Seq(ToSet(p)) /\ \A e \in ToSet(p) : IsEntry(e)
    BY EntryType DEF IsEntry, IsChange
<1>3. n \in Nat /\ DOMAIN p = 1..n /\ \A i \in 1..n : p[i] \in ToSet(p)
    BY <1>2, LenProperties
<1> HIDE DEF n
<1>4. ASSUME NEW i \in 1..n PROVE AreCandidates(pieces[i])
    <2>1. IsEntry(p[i])
        BY <1>2, <1>3
    <2>2. p[i].kind = "modify" /\ ~given.fieldLevelModify => Unsafe \notin ToSet(p[i].changes)
        BY <1>3 DEF IsPossible
    <2>3. AreCandidates(CandidatesOf(p[i], given))
        BY <2>1, <2>2, CandidatesOfEntry
    <2> QED
        BY <1>3, <2>3
<1>5. DOMAIN pieces = 1..n
    BY <1>3
<1> HIDE DEF pieces
<1>6. ASSUME NEW i \in 1..n
      PROVE  pieces[i] \in Seq(T) /\ \A c \in ToSet(pieces[i]) : IsCandidate(c)
    <2>1. PICK S : pieces[i] \in Seq(S) /\ \A c \in S : IsCandidate(c)
        BY <1>4 DEF AreCandidates
    <2> DEFINE s == pieces[i]
    <2>2. Len(s) \in Nat /\ DOMAIN s = 1..Len(s) /\ s \in [1..Len(s) -> S]
        BY <2>1, LenProperties
    <2>3. ToSet(s) \subseteq T
        OBVIOUS
    <2> HIDE DEF s, T
    <2>4. \A j \in 1..Len(s) : s[j] \in ToSet(s) /\ s[j] \in S
        BY <2>2 DEF ToSet
    <2>5. s \in [1..Len(s) -> T]
        BY <2>2, <2>3, <2>4
    <2>6. ToSet(s) \subseteq S
        BY <2>2 DEF ToSet
    <2> QED
        BY <2>1, <2>2, <2>5, <2>6 DEF s
<1>7. \A c \in T : IsCandidate(c)
    BY <1>6
<1>8. pieces = [i \in 1..n |-> pieces[i]]
    BY <1>3 DEF pieces
<1> HIDE DEF T
<1>9. pieces \in [1..n -> Seq(T)]
    BY <1>6, <1>8
<1>10. FlattenSeq(pieces) \in Seq(T)
    BY <1>3, <1>9, FlattenProperties
<1>11. AreCandidates(FlattenSeq(pieces))
    BY <1>7, <1>10 DEF AreCandidates
<1> DEFINE all == FlattenSeq(pieces)
<1> HIDE DEF all
<1>12. /\ AreCandidates(SortedBy(all, Before)) /\ AreByKey(SortedBy(all, Before))
       /\ ToSet(SortedBy(all, Before)) = ToSet(all)
    BY <1>11, CandidatesSorted DEF all
<1>13. ToSet(all) = UNION {ToSet(CandidatesOf(p[i], given)) : i \in DOMAIN p}
    <2>1. ToSet(all) = UNION {ToSet(pieces[i]) : i \in 1..n}
        BY <1>3, <1>9, FlattenProperties DEF all
    <2>2. \A i \in 1..n : ToSet(pieces[i]) = ToSet(CandidatesOf(p[i], given))
        BY <1>3 DEF pieces
    <2> QED
        BY <1>3, <2>1, <2>2
<1> QED
    BY <1>1, <1>12, <1>13 DEF all

-----------------------------------------------------------------------------
(* Refusals *)

\* No entry of the proposal gives a unit another key; nor does a candidate or the
\* delta then.
KeysKept(entries) ==
    \A i \in DOMAIN entries : KeepsKey(entries[i].key, EntryEffect(entries[i]))

KeepKeys(list, d) ==
    /\ \A i \in DOMAIN list : KeepsKey(list[i].key, list[i].effect)
    /\ \A k \in Key : KeepsKey(k, d[k])

\* The effects of the accepted delta are settled: to compose it with a candidate
\* of another unit changes nothing.
Planned ==
    /\ base \in Base /\ proposal \in Proposal /\ IsPossible(proposal, policy)
    /\ AreCandidates(candidates) /\ AreByKey(candidates) /\ next <= Len(candidates) + 1
    /\ accepted \subseteq 1..(next - 1)
    /\ \A k \in Key : IsSettled(delta[k])
    /\ KeysKept(proposal) => KeepKeys(candidates, delta)

LEMMA ExpandKeeps ==
    ASSUME NEW p \in Proposal, NEW given, IsPossible(p, given), KeysKept(p)
    PROVE  \A i \in DOMAIN Expand(p, given) :
              KeepsKey(Expand(p, given)[i].key, Expand(p, given)[i].effect)
<1> DEFINE all == Expand(p, given)
<1>1. ToSet(all) = UNION {ToSet(CandidatesOf(p[i], given)) : i \in DOMAIN p}
    BY ExpandIs
<1>2. p \in Seq(ToSet(p)) /\ \A e \in ToSet(p) : IsEntry(e)
    BY EntryType DEF IsEntry, IsChange
<1>3. \A i \in DOMAIN p : IsEntry(p[i])
    BY <1>2, LenProperties
<1>4. \A i \in DOMAIN p : \A c \in ToSet(CandidatesOf(p[i], given)) : KeepsKey(c.key, c.effect)
    BY <1>3, CandidatesKeep DEF KeysKept
<1>5. \A c \in ToSet(all) : KeepsKey(c.key, c.effect)
    <2> HIDE DEF all
    <2> QED
        BY <1>1, <1>4
<1> HIDE DEF all
<1>6. \A i \in DOMAIN all : all[i] \in ToSet(all)
    BY DEF ToSet
<1> QED
    BY <1>5, <1>6 DEF all

LEMMA TentativeIs ==
    ASSUME AreCandidates(candidates), \A k \in Key : IsSettled(delta[k]),
           NEW i \in DOMAIN candidates
    PROVE  /\ candidates[i].key \in Key /\ IsSound(candidates[i].effect)
           /\ Tentative(i)[candidates[i].key]
                = Composed(delta[candidates[i].key], candidates[i].effect)
           /\ \A k \in Key \ {candidates[i].key} : Tentative(i)[k] = delta[k]
           /\ \A k \in Key : IsSettled(Tentative(i)[k])
<1> DEFINE c == candidates[i]
           one == [Empty EXCEPT ![c.key] = c.effect]
<1>1. IsCandidate(c)
    <2>1. PICK S : candidates \in Seq(S) /\ \A x \in S : IsCandidate(x)
        BY DEF AreCandidates
    <2> QED
        BY <2>1, LenProperties
<1> HIDE DEF c
<1>2. c.key \in Key /\ IsSound(c.effect)
    BY <1>1 DEF IsCandidate
<1>3. one[c.key] = c.effect /\ \A k \in Key \ {c.key} : one[k] = NoEffect
    BY <1>2 DEF Empty
<1> HIDE DEF one
<1>4. \A k \in Key : Tentative(i)[k] = Composed(delta[k], one[k])
    BY DEF Tentative, Compose, Composed, one, c
<1>5. ASSUME NEW e, IsSettled(e) PROVE Composed(e, NoEffect) = e
    <2>1. Normalize(e) = e /\ Normalize(NoEffect) = NoEffect
        BY <1>5, Settled DEF IsSettled
    <2>2. Composed(e, NoEffect) = ComposeEffects(e, NoEffect)
        BY <2>1, ComposedIs
    <2> QED
        BY <2>1, <2>2 DEF ComposeEffects
<1>6. \A k \in Key \ {c.key} : Tentative(i)[k] = delta[k]
    BY <1>3, <1>4, <1>5
<1>7. Tentative(i)[c.key] = Composed(delta[c.key], c.effect)
    BY <1>2, <1>3, <1>4
<1>8. IsSettled(Tentative(i)[c.key])
    <2>1. IsSound(delta[c.key])
        BY <1>2 DEF IsSettled
    <2>2. IsSettled(Composed(delta[c.key], c.effect))
        BY <1>2, <2>1, ComposedIsSettled
    <2> QED
        BY <1>7, <2>2
<1>9. \A k \in Key : IsSettled(Tentative(i)[k])
    BY <1>6, <1>8
<1> QED
    BY <1>2, <1>6, <1>7, <1>9 DEF c

\* Whatever is tried leaves units their keys, if the entries do.
LEMMA TentativeKeeps ==
    ASSUME Planned, KeysKept(proposal), NEW i \in DOMAIN candidates
    PROVE  /\ \A k \in Key : KeepsKey(k, Tentative(i)[k])
           /\ KeptBy(base, Tentative(i)) /\ KeptBy(base, delta)
<1> DEFINE l == candidates[i].key
           f == candidates[i].effect
           d == Tentative(i)
<1>1. /\ l \in Key /\ IsSound(f) /\ d[l] = Composed(delta[l], f)
      /\ \A k \in Key \ {l} : d[k] = delta[k]
      /\ \A k \in Key : IsSettled(d[k])
    BY TentativeIs DEF Planned
<1>2. KeepsKey(l, f) /\ \A k \in Key : KeepsKey(k, delta[k]) /\ IsSound(delta[k])
    BY DEF Planned, KeepKeys, IsSettled
<1>3. base \in Seq(Unit)
    BY BaseType DEF Planned
<1> HIDE DEF l, f, d
<1>4. KeepsKey(l, d[l])
    <2>1. KeepsKey(l, Composed(delta[l], f))
        BY <1>1, <1>2, ComposedKeeps
    <2> QED
        BY <1>1, <2>1
<1>5. \A k \in Key : KeepsKey(k, d[k]) /\ IsSound(d[k])
    BY <1>1, <1>2, <1>4 DEF IsSettled
<1>6. KeptBy(base, d) /\ KeptBy(base, delta)
    BY <1>2, <1>3, <1>5, KeepsIsKept DEF KeptBy
<1> QED
    BY <1>5, <1>6 DEF d

LEMMA PlannedKept ==
    ASSUME Planned, PlanInv, Next
    PROVE  Planned'
<1>1. base' = base /\ proposal' = proposal /\ policy' = policy
    BY DEF Next, InvalidPolicy, ExpandCandidates, RefuseBlocked, RefuseConflict, Accept, Finish
<1>2. /\ base' \in Base /\ proposal' \in Proposal /\ IsPossible(proposal', policy')
      /\ KeysKept(proposal') <=> KeysKept(proposal)
    BY <1>1 DEF Planned
<1>3. next \in Nat
    BY DEF PlanInv, ReportIsLast
<1>4. accepted \subseteq 1..(next - 1)
    BY DEF Planned
<1>9. ASSUME NEW s, AreCandidates(s) PROVE Len(s) \in Nat /\ DOMAIN s = 1..Len(s)
    BY <1>9, LenProperties DEF AreCandidates
<1>5. CASE InvalidPolicy \/ Finish
    <2>1. UNCHANGED <<candidates, accepted, next, delta>>
        BY <1>5 DEF InvalidPolicy, Finish
    <2> QED
        BY <1>2, <2>1 DEF Planned
<1>6. CASE ExpandCandidates
    <2>1. candidates' = Expand(proposal, policy) /\ next = 0 /\ next' = 1
          /\ accepted' = accepted /\ delta' = delta
        BY <1>6 DEF ExpandCandidates
    <2>5. KeysKept(proposal) => KeepKeys(candidates', delta')
        BY <2>1, ExpandKeeps DEF Planned, KeepKeys
    <2>2. AreCandidates(candidates') /\ AreByKey(candidates')
        BY <2>1, ExpandIs DEF Planned
    <2>4. next' <= Len(candidates') + 1
        BY <1>9, <2>1, <2>2
    <2>3. accepted' \subseteq 1..(next' - 1)
        BY <1>4, <2>1
    <2> QED
        BY <1>2, <2>1, <2>2, <2>3, <2>4, <2>5 DEF Planned
<1>7. CASE RefuseBlocked \/ RefuseConflict
    <2>1. UNCHANGED <<candidates, accepted, delta>> /\ next' = next + 1
          /\ next \in DOMAIN candidates
        BY <1>7 DEF RefuseBlocked, RefuseConflict, Considered
    <2>3. next' <= Len(candidates') + 1
        BY <1>3, <1>9, <2>1 DEF Planned
    <2>2. accepted' \subseteq 1..(next' - 1)
        BY <1>3, <1>4, <2>1
    <2> QED
        BY <1>2, <2>1, <2>2, <2>3 DEF Planned
<1>8. CASE Accept
    <2>1. candidates' = candidates /\ next' = next + 1 /\ delta' = Tentative(next)
          /\ accepted' = accepted \cup {next} /\ next \in DOMAIN candidates
        BY <1>8 DEF Accept, Considered, Tentative
    <2>2. next >= 1
        <3>1. PICK S : candidates \in Seq(S)
            BY DEF Planned, AreCandidates
        <3> QED
            BY <2>1, <3>1, LenProperties
    <2>3. accepted' \subseteq 1..(next' - 1)
        BY <1>3, <1>4, <2>1, <2>2
    <2>4. \A k \in Key : IsSettled(Tentative(next)[k])
        BY <2>1, TentativeIs DEF Planned
    <2>5. next' <= Len(candidates') + 1
        BY <1>3, <1>9, <2>1 DEF Planned
    <2>6. KeysKept(proposal) => KeepKeys(candidates', delta')
        BY <2>1, TentativeKeeps DEF Planned, KeepKeys
    <2> QED
        BY <1>2, <2>1, <2>3, <2>4, <2>5, <2>6 DEF Planned
<1> QED
    BY <1>5, <1>6, <1>7, <1>8 DEF Next

\* What is known of a refusal r of the first n - 1 of the candidates cs, when acc
\* of them are accepted with delta d for the base b.
IsFair(r, cs, n, acc, d, b, p, rs) ==
    \/ r.candidate = 0 /\ r.reason = "UNSAFE_PATH" /\ r.rule = "INVARIANT_BREAK"
    \/ /\ r.candidate \in 1..(n - 1)
       /\ r.key = cs[r.candidate].key /\ r.key \in Key
       /\ r.reason \in {"CONFLICT", "DEPENDENCY_BLOCKED"}
       /\ \A j \in acc : cs[j].key = r.key => j < r.candidate
       /\ KeysKept(p) /\ r.rule \in {"MISSING_KEY", "DUP_KEY_ADD"} =>
             Misfits(Vals(b, r.key), Composed(d[r.key], cs[r.candidate].effect)) # {}
       /\ r.reason = "DEPENDENCY_BLOCKED" =>
             \E s \in rs : s.reason = "CONFLICT" /\ s.key = r.key /\ s.candidate < r.candidate

AllFair ==
    /\ \E S : refused \in Seq(S)
    /\ next = 0 => refused = <<>>
    /\ \A r \in ToSet(refused) :
          IsFair(r, candidates, next, accepted, delta, base, proposal, ToSet(refused))
    /\ \A i \in 1..(next - 1) : i \in accepted \/ \E r \in ToSet(refused) : r.candidate = i

\* One refusal more.
LEMMA RefusalAdded ==
    ASSUME AllFair, NEW x, refused' = Append(refused, x), next \in Nat, next >= 1,
           next' = next + 1, UNCHANGED <<candidates, accepted, delta, base, proposal>>,
           x.candidate = next,
           IsFair(x, candidates, next + 1, accepted, delta, base, proposal, ToSet(refused) \cup {x})
    PROVE  AllFair'
<1>1. PICK S : refused \in Seq(S)
    BY DEF AllFair
<1>2. refused' \in Seq(S \cup {x}) /\ ToSet(refused') = ToSet(refused) \cup {x}
    <2> DEFINE T == S \cup {x}
    <2>1. refused \in Seq(T)
        BY <1>1, SeqOfMore
    <2>2. x \in T
        OBVIOUS
    <2> HIDE DEF T
    <2>3. /\ Append(refused, x) \in Seq(T) /\ Len(Append(refused, x)) = Len(refused) + 1
          /\ \A i \in 1..Len(refused) : Append(refused, x)[i] = refused[i]
          /\ Append(refused, x)[Len(refused) + 1] = x
        BY <2>1, <2>2, AppendProperties
    <2> DEFINE w == Append(refused, x)
    <2>4. DOMAIN refused = 1..Len(refused) /\ DOMAIN w = 1..(Len(refused) + 1)
          /\ Len(refused) \in Nat
        BY <2>1, <2>3, LenProperties
    <2> HIDE DEF w
    <2>5. ToSet(w) = ToSet(refused) \cup {x}
        <3>1. \A i \in DOMAIN w : w[i] = IF i = Len(refused) + 1 THEN x ELSE refused[i]
            BY <2>3, <2>4 DEF w
        <3>2. DOMAIN w = DOMAIN refused \cup {Len(refused) + 1}
              /\ Len(refused) + 1 \notin DOMAIN refused
            BY <2>4
        <3> QED
            BY <3>1, <3>2 DEF ToSet
    <2> QED
        BY <2>3, <2>5 DEF w, T
<1> DEFINE rs == ToSet(refused)
           cs == candidates
           n == next
<1>3. ASSUME NEW r \in rs PROVE IsFair(r, cs, n + 1, accepted, delta, base, proposal, rs \cup {x})
    <2>1. IsFair(r, cs, n, accepted, delta, base, proposal, rs)
        BY DEF AllFair
    <2>2. \A i : i \in 1..(n - 1) => i \in 1..((n + 1) - 1)
        OBVIOUS
    <2> HIDE DEF rs, cs, n
    <2> QED
        BY <2>1, <2>2 DEF IsFair
<1>4. ASSUME NEW i \in 1..((n + 1) - 1)
      PROVE  i \in accepted \/ \E r \in rs \cup {x} : r.candidate = i
    <2>1. i = n \/ i \in 1..(n - 1)
        OBVIOUS
    <2> QED
        BY <2>1 DEF AllFair
<1>5. ToSet(refused)' = rs \cup {x}
    BY <1>2
<1>6. \A r \in ToSet(refused)' :
          IsFair(r, candidates', next', accepted', delta', base', proposal', ToSet(refused)')
    BY <1>3, <1>5
<1>7. \A i \in 1..(next' - 1) :
          i \in accepted' \/ \E r \in ToSet(refused)' : r.candidate = i
    BY <1>4, <1>5
<1>8. next' # 0 /\ \E T : refused' \in Seq(T)
    BY <1>2
<1> QED
    BY <1>6, <1>7, <1>8 DEF AllFair

\* An outcome has the misfits of a delta that renames nothing among its conflicts,
\* and no other conflicts of their codes; none is a collision of keys.
LEMMA OutcomeConflicts ==
    ASSUME NEW u \in Base, NEW d, KeptBy(u, d)
    PROVE  /\ \A k \in Key : \A code \in Misfits(Vals(u, k), d[k]) :
                <<code, k>> \in Apply(u, d).conflicts
           /\ \A x \in Apply(u, d).conflicts :
                x[1] \in {"E_REMOVE_MISSING", "E_MODIFY_MISSING", "E_ADD_EXISTS",
                          "E_MODIFY_KEY_COLLISION"} =>
                   \E k \in Key : Misfits(Vals(u, k), d[k]) # {}
<1> DEFINE r == Run(u, d, EntriesOf(d))
           A(k) == {<<code, k>> : code \in Misfits(Vals(u, k), d[k])}
           others == DetectConflicts(r.units)
<1>1. IsUnits(u)
    BY BaseType, UnitsAreUnits
<1>2. r.conflicts = UNION {A(k) : k \in Key}
    BY <1>1, RunIs
<1>3. Apply(u, d).conflicts = r.conflicts \cup others
    BY ApplyIs
<1>4. \A x \in others : x[1] \in {"E_DUPLICATE_KEY", "E_DECISION_FINAL_NO_ANSWER",
                                  "E_CONSTRAINT_RULE_EMPTY", "E_RISK_THRESHOLD_EXCEEDED"}
    <2> HIDE DEF r
    <2>1. \A x \in {<<"E_DUPLICATE_KEY", k>> : k \in DuplicateKeys(r.units)} :
              x[1] = "E_DUPLICATE_KEY"
        OBVIOUS
    <2>2. \A x \in SemanticConflicts(r.units) :
              x[1] \in {"E_DECISION_FINAL_NO_ANSWER", "E_CONSTRAINT_RULE_EMPTY",
                        "E_RISK_THRESHOLD_EXCEEDED"}
        BY DEF SemanticConflicts
    <2> QED
        BY <2>1, <2>2 DEF DetectConflicts
<1> HIDE DEF r, others
<1>5. ASSUME NEW k \in Key, NEW code, code \in Misfits(Vals(u, k), d[k])
      PROVE  <<code, k>> \in Apply(u, d).conflicts
    <2>1. <<code, k>> \in A(k)
        BY <1>5
    <2> HIDE DEF A
    <2> QED
        BY <1>2, <1>3, <2>1
<1>6. ASSUME NEW x \in Apply(u, d).conflicts,
             x[1] \in {"E_REMOVE_MISSING", "E_MODIFY_MISSING", "E_ADD_EXISTS",
                       "E_MODIFY_KEY_COLLISION"}
      PROVE  \E k \in Key : Misfits(Vals(u, k), d[k]) # {}
    <2>1. x \in r.conflicts
        BY <1>3, <1>4, <1>6
    <2>2. PICK k \in Key : x \in A(k)
        BY <1>2, <2>1
    <2> QED
        BY <2>2
<1> QED
    BY <1>5, <1>6

\* A conflict of one of the rules is one of the candidate's own unit: the delta
\* accepted so far has none.
LEMMA OwnMisfit ==
    ASSUME Planned, PlanInv, KeysKept(proposal), NEW i \in DOMAIN candidates,
           ConflictRule(Apply(base, Tentative(i)).conflicts) \in {"MISSING_KEY", "DUP_KEY_ADD"}
    PROVE  Misfits(Vals(base, candidates[i].key),
                   Composed(delta[candidates[i].key], candidates[i].effect)) # {}
<1> DEFINE t == Tentative(i)
           found == Apply(base, t).conflicts
           k == candidates[i].key
<1>1. k \in Key /\ t[k] = Composed(delta[k], candidates[i].effect)
      /\ \A l \in Key \ {k} : t[l] = delta[l]
    BY TentativeIs DEF Planned
<1>2. base \in Base /\ KeptBy(base, t) /\ KeptBy(base, delta)
    BY TentativeKeeps DEF Planned
<1> HIDE DEF t, k
<1>3. \E x \in found : x[1] \in {"E_REMOVE_MISSING", "E_MODIFY_MISSING", "E_ADD_EXISTS",
                                 "E_MODIFY_KEY_COLLISION"}
    <2>1. ConflictRule(found) \in {"MISSING_KEY", "DUP_KEY_ADD"}
        BY DEF t
    <2> HIDE DEF found
    <2>2. Codes(found) \cap {"E_REMOVE_MISSING", "E_MODIFY_MISSING"} # {}
          \/ Codes(found) \cap {"E_ADD_EXISTS", "E_MODIFY_KEY_COLLISION"} # {}
        BY <2>1 DEF ConflictRule
    <2> QED
        BY <2>2 DEF Codes
<1>4. PICK l \in Key : Misfits(Vals(base, l), t[l]) # {}
    BY <1>2, <1>3, OutcomeConflicts
<1>5. CASE l = k
    BY <1>1, <1>4, <1>5 DEF k
<1>6. CASE l # k
    <2>1. Misfits(Vals(base, l), delta[l]) # {}
        BY <1>1, <1>4, <1>6
    <2>2. PICK code : code \in Misfits(Vals(base, l), delta[l])
        BY <2>1
    <2>4. <<code, l>> \in Apply(base, delta).conflicts
        BY <1>2, <2>2, OutcomeConflicts
    <2>5. accepted = {}
        BY <2>4 DEF PlanInv, AcceptedWasTried
    <2>6. delta[l] = NoEffect
        BY <2>5 DEF PlanInv, AcceptedWasTried, Empty
    <2>7. Misfits(Vals(base, l), delta[l]) = {}
        BY <2>6, EffectsAre DEF Misfits
    <2> QED
        BY <2>1, <2>7
<1> QED
    BY <1>5, <1>6

\* The candidates in front of one of the same unit are of that unit.
LEMMA SameUnit ==
    ASSUME AreCandidates(candidates), AreByKey(candidates),
           NEW i \in DOMAIN candidates, NEW j \in DOMAIN candidates, i < j,
           candidates[i].key = candidates[j].key
    PROVE  j - 1 \in DOMAIN candidates /\ i <= j - 1 /\ j > 1
           /\ candidates[j - 1].key = candidates[j].key
<1>1. PICK S : candidates \in Seq(S) /\ \A c \in S : IsCandidate(c)
    BY DEF AreCandidates
<1>2. /\ Len(candidates) \in Nat /\ DOMAIN candidates = 1..Len(candidates)
      /\ \A l \in 1..Len(candidates) : candidates[l].key \in Int
    BY <1>1, LenProperties, Ordered DEF IsCandidate
<1>3. j - 1 \in DOMAIN candidates /\ i <= j - 1 /\ j > 1 /\ j - 1 < j
    BY <1>2
<1>4. candidates[j - 1].key <= candidates[j].key
    BY <1>3 DEF AreByKey
<1>5. candidates[i].key <= candidates[j - 1].key
    <2>1. CASE i = j - 1
        BY <1>2, <2>1
    <2>2. CASE i # j - 1
        <3>1. i < j - 1
            BY <1>2, <1>3, <2>2
        <3> QED
            BY <1>3, <3>1 DEF AreByKey
    <2> QED
        BY <2>1, <2>2
<1>6. candidates[j - 1].key = candidates[j].key
    <2> DEFINE x == candidates[j - 1].key
               y == candidates[j].key
    <2>1. x \in Int /\ y \in Int
        BY <1>2, <1>3
    <2>2. x <= y /\ y <= x
        BY <1>4, <1>5
    <2> HIDE DEF x, y
    <2>3. x = y
        BY <2>1, <2>2
    <2> QED
        BY <2>3 DEF x, y
<1> QED
    BY <1>3, <1>6

\* The steps of the plan.
LEMMA BlockedIsFair ==
    ASSUME Planned, PlanInv, AllFair, RefuseBlocked
    PROVE  AllFair'
<1> DEFINE x == Refusal(next, "DEPENDENCY_BLOCKED", "UNKNOWN")
           k == candidates[next].key
<1>1. /\ next \in DOMAIN candidates /\ Blockers(next) # {} /\ refused' = Append(refused, x)
      /\ next' = next + 1 /\ UNCHANGED <<candidates, accepted, delta, base, proposal>>
    BY DEF RefuseBlocked, Considered
<1>2. next \in Nat /\ next >= 1 /\ k \in Key
    <2>1. PICK S : candidates \in Seq(S) /\ \A c \in S : IsCandidate(c)
        BY DEF Planned, AreCandidates
    <2>2. next \in 1..Len(candidates) /\ Len(candidates) \in Nat
        BY <1>1, <2>1, LenProperties
    <2>3. IsCandidate(candidates[next])
        BY <2>1, <2>2, LenProperties
    <2> QED
        BY <2>2, <2>3 DEF IsCandidate
<1>3. /\ x.candidate = next /\ x.key = k /\ x.reason = "DEPENDENCY_BLOCKED"
      /\ x.rule = "UNKNOWN"
    BY DEF Refusal
<1> HIDE DEF x
\* The one in front of it was refused.
<1>4. next > 1 /\ candidates[next - 1].key = k /\ next - 1 \notin accepted
    BY <1>1 DEF Blockers, DependsOn
<1>5. next - 1 \in 1..(next - 1)
    BY <1>2, <1>4
<1>6. PICK r \in ToSet(refused) : r.candidate = next - 1
    BY <1>4, <1>5 DEF AllFair
<1>7. r.candidate # 0
    BY <1>2, <1>4, <1>6
<1>8. /\ r.key = candidates[next - 1].key /\ r.reason \in {"CONFLICT", "DEPENDENCY_BLOCKED"}
      /\ r.reason = "DEPENDENCY_BLOCKED" =>
            \E s \in ToSet(refused) :
                s.reason = "CONFLICT" /\ s.key = r.key /\ s.candidate < r.candidate
      /\ \A s \in ToSet(refused) : s.candidate \in Nat
    <2>1. IsFair(r, candidates, next, accepted, delta, base, proposal, ToSet(refused))
        BY DEF AllFair
    <2>2. ASSUME NEW s \in ToSet(refused) PROVE s.candidate \in Nat
        <3>1. IsFair(s, candidates, next, accepted, delta, base, proposal, ToSet(refused))
            BY DEF AllFair
        <3>2. s.candidate = 0 \/ s.candidate \in 1..(next - 1)
            BY <3>1 DEF IsFair
        <3> QED
            BY <1>2, <3>2
    <2> QED
        BY <1>6, <1>7, <2>1, <2>2 DEF IsFair
<1>9. \E s \in ToSet(refused) : s.reason = "CONFLICT" /\ s.key = k /\ s.candidate < next
    <2>1. CASE r.reason = "CONFLICT"
        <3>1. r.candidate < next
            BY <1>2, <1>6
        <3> QED
            BY <1>4, <1>8, <2>1, <3>1
    <2>2. CASE r.reason = "DEPENDENCY_BLOCKED"
        <3>1. PICK s \in ToSet(refused) :
                  s.reason = "CONFLICT" /\ s.key = r.key /\ s.candidate < r.candidate
            BY <1>8, <2>2
        <3>2. s.candidate < next
            BY <1>2, <1>6, <1>8, <3>1
        <3> QED
            BY <1>4, <1>8, <3>1, <3>2
    <2> QED
        BY <1>8, <2>1, <2>2
<1>10. \A j \in accepted : j < next
    BY <1>2 DEF Planned
<1>11. IsFair(x, candidates, next + 1, accepted, delta, base, proposal, ToSet(refused) \cup {x})
    <2>1. next \in 1..((next + 1) - 1)
        BY <1>2
    <2>2. \E s \in ToSet(refused) \cup {x} :
              s.reason = "CONFLICT" /\ s.key = k /\ s.candidate < next
        BY <1>9
    <2> QED
        BY <1>2, <1>3, <1>10, <2>1, <2>2 DEF IsFair
<1> QED
    BY <1>1, <1>2, <1>3, <1>11, RefusalAdded

LEMMA ConflictIsFair ==
    ASSUME Planned, PlanInv, AllFair, RefuseConflict
    PROVE  AllFair'
<1> DEFINE outcome == Apply(base, Tentative(next))
           rule == ConflictRule(outcome.conflicts)
           x == Refusal(next, "CONFLICT", rule)
           k == candidates[next].key
<1>1. /\ next \in DOMAIN candidates
      /\ outcome.conflicts \cup DetectConflicts(outcome.units) # {}
      /\ refused' = Append(refused, IF outcome.conflicts # {} THEN x
                                    ELSE Refusal(next, "POST_APPLY_CONFLICT",
                                                 "POST_APPLY_CONFLICT"))
      /\ next' = next + 1 /\ UNCHANGED <<candidates, accepted, delta, base, proposal>>
    BY DEF RefuseConflict, Considered
<1>2. outcome.conflicts # {}
    <2>1. DetectConflicts(outcome.units) \subseteq outcome.conflicts
        BY OutcomeListsAll
    <2> QED
        BY <1>1, <2>1
<1>3. refused' = Append(refused, x)
    BY <1>1, <1>2
<1>4. next \in Nat /\ next >= 1 /\ k \in Key
    <2>1. PICK S : candidates \in Seq(S) /\ \A c \in S : IsCandidate(c)
        BY DEF Planned, AreCandidates
    <2>2. next \in 1..Len(candidates) /\ Len(candidates) \in Nat
        BY <1>1, <2>1, LenProperties
    <2>3. IsCandidate(candidates[next])
        BY <2>1, <2>2, LenProperties
    <2> QED
        BY <2>2, <2>3 DEF IsCandidate
<1>5. KeysKept(proposal) /\ rule \in {"MISSING_KEY", "DUP_KEY_ADD"} =>
          Misfits(Vals(base, k), Composed(delta[k], candidates[next].effect)) # {}
    BY <1>1, OwnMisfit
<1> HIDE DEF outcome, rule
<1>6. x.candidate = next /\ x.key = k /\ x.reason = "CONFLICT" /\ x.rule = rule
    BY DEF Refusal
<1> HIDE DEF x
<1>7. \A j \in accepted : j < next
    BY <1>4 DEF Planned
<1>8. IsFair(x, candidates, next + 1, accepted, delta, base, proposal, ToSet(refused) \cup {x})
    <2>1. next \in 1..((next + 1) - 1)
        BY <1>4
    <2> QED
        BY <1>4, <1>5, <1>6, <1>7, <2>1 DEF IsFair
<1> QED
    BY <1>1, <1>3, <1>4, <1>6, <1>8, RefusalAdded

LEMMA AcceptIsFair ==
    ASSUME Planned, PlanInv, AllFair, Accept
    PROVE  AllFair'
<1> DEFINE rs == ToSet(refused)
           cs == candidates
           k == candidates[next].key
           d == Tentative(next)
<1>1. /\ next \in DOMAIN cs /\ Blockers(next) = {} /\ next' = next + 1
      /\ accepted' = accepted \cup {next} /\ delta' = d
      /\ UNCHANGED <<candidates, refused, base, proposal>>
    BY DEF Accept, Considered, Tentative
<1>2. next \in Nat /\ next >= 1
    <2>1. PICK S : candidates \in Seq(S)
        BY DEF Planned, AreCandidates
    <2> QED
        BY <1>1, <2>1, LenProperties
<1>3. \A l \in Key \ {k} : d[l] = delta[l]
    BY <1>1, TentativeIs DEF Planned
<1> HIDE DEF d
<1>4. ASSUME NEW r \in rs
      PROVE  IsFair(r, cs, next + 1, accepted \cup {next}, d, base, proposal, rs)
    <2>1. IsFair(r, cs, next, accepted, delta, base, proposal, rs)
        BY DEF AllFair
    <2>2. CASE r.candidate = 0 /\ r.reason = "UNSAFE_PATH" /\ r.rule = "INVARIANT_BREAK"
        BY <2>2 DEF IsFair
    <2>3. CASE r.candidate \in 1..(next - 1)
        <3>1. /\ r.key = cs[r.candidate].key /\ r.key \in Key
              /\ r.reason \in {"CONFLICT", "DEPENDENCY_BLOCKED"}
              /\ \A j \in accepted : cs[j].key = r.key => j < r.candidate
              /\ KeysKept(proposal) /\ r.rule \in {"MISSING_KEY", "DUP_KEY_ADD"} =>
                    Misfits(Vals(base, r.key), Composed(delta[r.key], cs[r.candidate].effect)) # {}
              /\ r.reason = "DEPENDENCY_BLOCKED" =>
                    \E s \in rs : s.reason = "CONFLICT" /\ s.key = r.key
                                  /\ s.candidate < r.candidate
            <4>1. r.candidate # 0
                BY <1>2, <2>3
            <4> HIDE DEF rs, cs
            <4> QED
                BY <2>1, <4>1 DEF IsFair
        <3>2. r.candidate \in DOMAIN cs /\ r.candidate < next /\ r.candidate \in Nat
            <4>1. PICK S : candidates \in Seq(S)
                BY DEF Planned, AreCandidates
            <4>2. DOMAIN candidates = 1..Len(candidates) /\ Len(candidates) \in Nat
                BY <4>1, LenProperties
            <4> QED
                BY <1>1, <1>2, <2>3, <4>2
        <3>3. r.key # k
            <4> SUFFICES ASSUME r.key = k PROVE FALSE
                OBVIOUS
            <4>1. cs[r.candidate].key = cs[next].key
                BY <3>1
            <4>2. next > 1 /\ r.candidate <= next - 1 /\ cs[next - 1].key = cs[next].key
                BY <1>1, <3>2, <4>1, SameUnit DEF Planned
            <4>3. next - 1 \in accepted
                BY <1>1, <4>2 DEF Blockers, DependsOn
            <4>4. next - 1 < r.candidate
                BY <3>1, <4>2, <4>3
            <4> QED
                BY <1>2, <3>2, <4>2, <4>4
        <3>4. d[r.key] = delta[r.key]
            BY <1>3, <3>1, <3>3
        <3>5. \A j \in accepted \cup {next} : cs[j].key = r.key => j < r.candidate
            BY <3>1, <3>3
        <3>6. r.candidate \in 1..((next + 1) - 1)
            BY <1>2, <2>3
        <3> HIDE DEF rs, cs
        <3> QED
            BY <3>1, <3>4, <3>5, <3>6 DEF IsFair
    <2> QED
        BY <2>1, <2>2, <2>3 DEF IsFair
<1>5. ASSUME NEW i \in 1..((next + 1) - 1)
      PROVE  i \in accepted \cup {next} \/ \E r \in rs : r.candidate = i
    <2>1. i = next \/ i \in 1..(next - 1)
        BY <1>2
    <2> QED
        BY <2>1 DEF AllFair
<1>6. next' # 0 /\ ToSet(refused') = rs
    BY <1>1, <1>2
<1>7. \A r \in ToSet(refused)' :
          IsFair(r, candidates', next', accepted', delta', base', proposal', ToSet(refused)')
    BY <1>1, <1>4, <1>6
<1>8. \A i \in 1..(next' - 1) :
          i \in accepted' \/ \E r \in ToSet(refused)' : r.candidate = i
    BY <1>1, <1>5, <1>6
<1>9. \E S : refused' \in Seq(S)
    BY <1>1 DEF AllFair
<1> QED
    BY <1>6, <1>7, <1>8, <1>9 DEF AllFair

LEMMA UnsafeOfEntry ==
    ASSUME NEW e, IsEntry(e), NEW given
    PROVE  UnsafeOf(e, given) \in Seq(Key)
<1>1. CASE ~IsSplit(e, given)
    <2>1. UnsafeOf(e, given) = <<>>
        BY <1>1 DEF UnsafeOf
    <2> QED
        BY <2>1
<1>2. CASE IsSplit(e, given)
    <2> DEFINE n == Len(e.changes)
               k == e.key
               Piece(c) == IF c = Unsafe THEN <<k>> ELSE <<>>
               pieces == [i \in DOMAIN e.changes |-> Piece(e.changes[i])]
    <2>1. UnsafeOf(e, given) = FlattenSeq(pieces)
        BY <1>2 DEF UnsafeOf, Flat
    <2>2. n \in Nat /\ DOMAIN e.changes = 1..n /\ k \in Key
        BY <1>2, LenProperties DEF IsEntry, IsSplit
    <2> HIDE DEF n, k
    <2>3. \A c : Piece(c) \in Seq(Key)
        BY <2>2
    <2> HIDE DEF Piece
    <2>4. pieces \in [1..n -> Seq(Key)]
        BY <2>2, <2>3
    <2> HIDE DEF pieces
    <2> QED
        BY <2>1, <2>2, <2>4, FlattenProperties
<1> QED
    BY <1>1, <1>2

LEMMA UnsafeIs ==
    ASSUME NEW p \in Proposal, NEW given
    PROVE  FlattenSeq([i \in DOMAIN p |-> UnsafeOf(p[i], given)]) \in Seq(Key)
<1> DEFINE n == Len(p)
           pieces == [i \in DOMAIN p |-> UnsafeOf(p[i], given)]
<1>2. p \in Seq(ToSet(p)) /\ \A e \in ToSet(p) : IsEntry(e)
    BY EntryType DEF IsEntry, IsChange
<1>3. n \in Nat /\ DOMAIN p = 1..n /\ \A i \in 1..n : IsEntry(p[i])
    BY <1>2, LenProperties
<1> HIDE DEF n
<1>4. \A i \in 1..n : UnsafeOf(p[i], given) \in Seq(Key)
    BY <1>3, UnsafeOfEntry
<1>5. pieces \in [1..n -> Seq(Key)]
    BY <1>3, <1>4
<1> HIDE DEF pieces
<1>6. FlattenSeq(pieces) \in Seq(Key)
    BY <1>3, <1>5, FlattenProperties
<1> QED
    BY <1>6 DEF pieces

LEMMA ExpandedIsFair ==
    ASSUME Planned, PlanInv, AllFair, ExpandCandidates
    PROVE  AllFair'
<1> DEFINE found == Flat(proposal, LAMBDA e : UnsafeOf(e, policy))
           at(i) == [key |-> found[i], path |-> "field", op |-> "modify",
                     reason |-> "UNSAFE_PATH", rule |-> "INVARIANT_BREAK",
                     level |-> LevelFor(policy, "INVARIANT_BREAK"), candidate |-> 0]
<1>1. /\ next' = 1 /\ UNCHANGED <<accepted, delta, base, proposal>>
      /\ refused' = [i \in DOMAIN found |-> at(i)]
    BY DEF ExpandCandidates
<1>2. found \in Seq(Key)
    <2>1. FlattenSeq([i \in DOMAIN proposal |-> UnsafeOf(proposal[i], policy)]) \in Seq(Key)
        BY UnsafeIs DEF Planned
    <2>2. found = FlattenSeq([i \in DOMAIN proposal |-> UnsafeOf(proposal[i], policy)])
        BY DEF Flat
    <2> QED
        BY <2>1, <2>2
<1>3. \A i : at(i).candidate = 0 /\ at(i).reason = "UNSAFE_PATH" /\ at(i).rule = "INVARIANT_BREAK"
    OBVIOUS
<1>4. DOMAIN found = 1..Len(found) /\ Len(found) \in Nat
    BY <1>2, LenProperties
<1> HIDE DEF found, at
<1> DEFINE S == {at(i) : i \in 1..Len(found)}
<1>5. refused' \in Seq(S)
    BY <1>1, <1>4
<1>6. ToSet(refused') = S
    BY <1>1, <1>4 DEF ToSet
<1>7. \A r \in S : r.candidate = 0 /\ r.reason = "UNSAFE_PATH" /\ r.rule = "INVARIANT_BREAK"
    BY <1>3
<1> HIDE DEF S
<1>8. \A r \in ToSet(refused') :
          IsFair(r, candidates', next', accepted', delta', base', proposal', ToSet(refused'))
    BY <1>6, <1>7 DEF IsFair
<1>9. 1..(next' - 1) = {} /\ next' # 0
    BY <1>1
<1> QED
    BY <1>5, <1>8, <1>9 DEF AllFair

\* Refusals of every reachable state are fair.
THEOREM RefusalsAreFair == Spec => [](Planned /\ AllFair)
<1>1. Init => Planned /\ AllFair
    <2> SUFFICES ASSUME Init PROVE Planned /\ AllFair
        OBVIOUS
    <2>1. /\ base \in Base /\ proposal \in Proposal /\ candidates = <<>> /\ next = 0
          /\ accepted = {} /\ delta = Empty /\ refused = <<>>
          /\ IsPossible(proposal, policy)
        BY DEF Init, IsPossible
    <2> DEFINE W == {}
    <2>2. <<>> \in Seq(W) /\ DOMAIN <<>> = {} /\ \A c \in W : IsCandidate(c)
        OBVIOUS
    <2>3. ToSet(<<>>) = {}
        BY DEF ToSet
    <2> HIDE DEF W
    <2>4. AreCandidates(candidates) /\ AreByKey(candidates)
        BY <2>1, <2>2 DEF AreCandidates, AreByKey
    <2>5. \A k \in Key : IsSettled(delta[k])
        BY <2>1, Settled DEF Empty
    <2>9. Len(<<>>) = 0
        OBVIOUS
    <2>10. KeepKeys(candidates, delta)
        BY <2>1, <2>2, EffectsAre DEF KeepKeys, KeepsKey, Empty
    <2>6. Planned
        BY <2>1, <2>4, <2>5, <2>9, <2>10 DEF Planned
    <2>7. 1..(next - 1) = {}
        BY <2>1
    <2>8. AllFair
        BY <2>1, <2>2, <2>3, <2>7 DEF AllFair
    <2> QED
        BY <2>6, <2>8
<1>2. Planned /\ AllFair /\ PlanInv /\ [Next]_vars => (Planned /\ AllFair)'
    <2> SUFFICES ASSUME Planned, AllFair, PlanInv, [Next]_vars PROVE (Planned /\ AllFair)'
        OBVIOUS
    <2>1. CASE UNCHANGED vars
        <3>1. UNCHANGED <<base, proposal, policy, candidates, next, accepted, delta, refused>>
            BY <2>1 DEF vars
        <3> QED
            BY <3>1 DEF Planned, AllFair, ToSet
    <2>2. CASE InvalidPolicy \/ Finish
        <3>1. UNCHANGED <<base, candidates, next, accepted, delta, refused, proposal>>
            BY <2>2 DEF InvalidPolicy, Finish
        <3>2. AllFair'
            BY <3>1 DEF AllFair, ToSet
        <3> QED
            BY <2>2, <3>2, PlannedKept DEF Next
    <2>3. CASE ExpandCandidates
        BY <2>3, ExpandedIsFair, PlannedKept DEF Next
    <2>4. CASE RefuseBlocked
        BY <2>4, BlockedIsFair, PlannedKept DEF Next
    <2>5. CASE RefuseConflict
        BY <2>5, ConflictIsFair, PlannedKept DEF Next
    <2>6. CASE Accept
        BY <2>6, AcceptIsFair, PlannedKept DEF Next
    <2> QED
        BY <2>1, <2>2, <2>3, <2>4, <2>5, <2>6 DEF Next
<1> QED
    BY <1>1, <1>2, PlanInvariant, PTL DEF Spec

\* A refusal for a unit that is missing or exists already is final, if the proposal
\* renames no unit, and every blocked candidate has an earlier one of its unit to
\* blame that was refused for a conflict (applyCandidateSequence,
\* determineConflictOutcome).
THEOREM RefusalsStandAlways == Spec => []RefusalsStand
<1>1. Planned /\ AllFair /\ PlanInv => RefusalsStand
    <2> SUFFICES ASSUME Planned, AllFair, PlanInv, NEW r \in ToSet(refused)
                 PROVE  /\ KeysKept(proposal) /\ r.rule \in {"MISSING_KEY", "DUP_KEY_ADD"} =>
                              Apply(base, Tentative(r.candidate)).conflicts # {}
                        /\ r.reason = "DEPENDENCY_BLOCKED" =>
                              \E s \in ToSet(refused) :
                                  s.reason = "CONFLICT" /\ s.key = r.key
                                  /\ s.candidate < r.candidate
        BY DEF RefusalsStand, KeysAreKept, KeysKept
    <2> DEFINE i == r.candidate
               k == r.key
    <2>1. IsFair(r, candidates, next, accepted, delta, base, proposal, ToSet(refused))
        BY DEF AllFair
    <2>2. r.reason = "DEPENDENCY_BLOCKED" =>
              \E s \in ToSet(refused) :
                  s.reason = "CONFLICT" /\ s.key = r.key /\ s.candidate < r.candidate
        BY <2>1 DEF IsFair
    <2>3. ASSUME KeysKept(proposal), r.rule \in {"MISSING_KEY", "DUP_KEY_ADD"}
          PROVE  Apply(base, Tentative(i)).conflicts # {}
        <3>1. /\ k = candidates[i].key /\ k \in Key /\ i \in 1..(next - 1)
              /\ Misfits(Vals(base, k), Composed(delta[k], candidates[i].effect)) # {}
            BY <2>1, <2>3 DEF IsFair
        <3>2. i \in DOMAIN candidates
            <4>1. PICK S : candidates \in Seq(S)
                BY DEF Planned, AreCandidates
            <4>2. Len(candidates) \in Nat /\ DOMAIN candidates = 1..Len(candidates)
                BY <4>1, LenProperties
            <4>3. next \in Nat /\ next <= Len(candidates) + 1
                BY DEF Planned, PlanInv, ReportIsLast
            <4> QED
                BY <3>1, <4>2, <4>3
        <3>3. Tentative(i)[k] = Composed(delta[k], candidates[i].effect)
            BY <3>1, <3>2, TentativeIs DEF Planned
        <3>4. base \in Base /\ KeptBy(base, Tentative(i))
            BY <2>3, <3>2, TentativeKeeps DEF Planned
        <3> QED
            BY <3>1, <3>3, <3>4, OutcomeConflicts
    <2> QED
        BY <2>2, <2>3
<1> QED
    BY <1>1, RefusalsAreFair, PlanInvariant, PTL

-----------------------------------------------------------------------------
(* Suggestions *)

IsDistinct(s) == \A i, j \in 1..Len(s) : s[i] = s[j] => i = j

\* Which of the joined sequences an element comes from: it says where it was, if no
\* sequence holds an element twice.
ArePlaces(g, s, seqs, n) ==
    /\ g \in [1..Len(s) -> 1..n]
    /\ \A p \in 1..Len(s) : s[p] \in ToSet(seqs[g[p]])
    /\ \A p, q \in 1..Len(s) : g[p] = g[q] /\ s[p] = s[q] => p = q

LEMMA PlacesJoined ==
    ASSUME NEW T, NEW m \in Nat, NEW seqs, NEW s \in Seq(T), NEW t \in Seq(T),
           seqs[m + 1] = t, IsDistinct(t), NEW g, ArePlaces(g, s, seqs, m)
    PROVE  \E h : ArePlaces(h, s \o t, seqs, m + 1)
<1> DEFINE a == Len(s)
           b == Len(t)
           u == s \o t
           h == [p \in 1..(a + b) |-> IF p <= a THEN g[p] ELSE m + 1]
<1>1. /\ a \in Nat /\ b \in Nat /\ Len(u) = a + b /\ DOMAIN t = 1..b
      /\ \A p \in 1..(a + b) : u[p] = IF p <= a THEN s[p] ELSE t[p - a]
    BY ConcatProperties, LenProperties
<1>2. /\ g \in [1..a -> 1..m] /\ \A p \in 1..a : s[p] \in ToSet(seqs[g[p]])
      /\ \A p, q \in 1..a : g[p] = g[q] /\ s[p] = s[q] => p = q
    BY DEF ArePlaces
<1>3. \A p, q \in 1..b : t[p] = t[q] => p = q
    BY DEF IsDistinct
<1>4. \A p \in 1..b : t[p] \in ToSet(t)
    BY <1>1 DEF ToSet
<1> HIDE DEF a, b, u
<1>5. h \in [1..(a + b) -> 1..(m + 1)]
    BY <1>1, <1>2
<1>6. \A p \in 1..(a + b) : IF p <= a THEN p \in 1..a /\ h[p] = g[p] /\ h[p] \in 1..m
                            ELSE p - a \in 1..b /\ h[p] = m + 1
    BY <1>1, <1>2
<1> HIDE DEF h
<1>7. ASSUME NEW p \in 1..(a + b) PROVE u[p] \in ToSet(seqs[h[p]])
    <2>1. CASE p <= a
        BY <1>1, <1>2, <1>6, <2>1
    <2>2. CASE ~(p <= a)
        <3>1. u[p] = t[p - a] /\ seqs[h[p]] = t /\ p - a \in 1..b
            BY <1>1, <1>6, <2>2
        <3> QED
            BY <1>4, <3>1
    <2> QED
        BY <2>1, <2>2
<1>8. ASSUME NEW p \in 1..(a + b), NEW q \in 1..(a + b), h[p] = h[q], u[p] = u[q] PROVE p = q
    <2>1. CASE p <= a
        <3>1. q <= a
            BY <1>6, <1>8, <2>1
        <3> QED
            BY <1>1, <1>2, <1>6, <1>8, <2>1, <3>1
    <2>2. CASE ~(p <= a)
        <3>1. ~(q <= a)
            BY <1>6, <1>8, <2>2
        <3>2. t[p - a] = t[q - a] /\ p - a \in 1..b /\ q - a \in 1..b
            BY <1>1, <1>6, <1>8, <2>2, <3>1
        <3>3. p - a = q - a
            BY <1>3, <3>2
        <3> QED
            BY <1>1, <3>3
    <2> QED
        BY <2>1, <2>2
<1>9. ArePlaces(h, u, seqs, m + 1)
    BY <1>1, <1>5, <1>7, <1>8 DEF ArePlaces
<1> QED
    BY <1>9 DEF u

LEMMA FlattenPlaces ==
    ASSUME NEW T, NEW n \in Nat, NEW seqs \in [1..n -> Seq(T)],
           \A i \in 1..n : IsDistinct(seqs[i])
    PROVE  \E g : ArePlaces(g, FlattenSeq(seqs), seqs, n)
<1>1. seqs \in Seq(Seq(T)) /\ Len(seqs) = n
    OBVIOUS
<1>2. CASE n = 0
    <2>1. FlattenSeq(seqs) = seqs /\ Len(seqs) = 0
        BY <1>1, <1>2 DEF FlattenSeq
    <2> DEFINE s == FlattenSeq(seqs)
    <2>2. Len(s) = 0
        BY <2>1
    <2> HIDE DEF s
    <2>3. 1..Len(s) = {}
        BY <2>2
    <2> DEFINE g == [p \in {} |-> 0]
    <2>4. ArePlaces(g, s, seqs, n)
        BY <2>3 DEF ArePlaces
    <2> QED
        BY <2>4 DEF s
<1>3. CASE n # 0
    <2>1. n >= 1
        BY <1>3
    <2>2. PICK f : AreJoined(f, seqs, n)
        BY <1>1, <2>1, FlattenRun
    <2> DEFINE P(m) == f[m] \in Seq(T) /\ \E g : ArePlaces(g, f[m], seqs, m)
               S == {m \in Nat : m + 1 <= n => P(m + 1)}
    <2>3. 0 \in S
        <3>1. f[1] = seqs[1] /\ 1 \in 1..n
            BY <2>1, <2>2 DEF AreJoined
        <3> DEFINE s == f[1]
                   m == 1
        <3>2. s \in Seq(T) /\ seqs[m] = s /\ IsDistinct(s) /\ m \in Nat
            BY <3>1
        <3> HIDE DEF s, m
        <3> DEFINE g == [p \in 1..Len(s) |-> m]
        <3>3. /\ \A p \in 1..Len(s) : s[p] \in ToSet(s)
              /\ \A p, q \in 1..Len(s) : s[p] = s[q] => p = q
            BY <3>2, LenProperties DEF ToSet, IsDistinct
        <3>4. g \in [1..Len(s) -> 1..m]
            BY <3>2 DEF m
        <3>5. ArePlaces(g, s, seqs, m)
            BY <3>2, <3>3, <3>4 DEF ArePlaces
        <3>6. P(1)
            BY <3>2, <3>5 DEF s, m
        <3>7. 0 + 1 = 1 /\ 0 \in Nat
            OBVIOUS
        <3> HIDE DEF P
        <3> QED
            BY <3>6, <3>7
    <2>4. ASSUME NEW m \in Nat, m \in S PROVE m + 1 \in S
        <3> SUFFICES ASSUME m + 1 + 1 <= n PROVE P(m + 1 + 1)
            <4> HIDE DEF P
            <4> QED
                OBVIOUS
        <3> DEFINE l == m + 1
        <3>1. l \in Nat /\ l + 1 \in 2..n /\ l + 1 \in 1..n /\ (l + 1) - 1 = l /\ l <= n
            OBVIOUS
        <3>2. P(l)
            <4> HIDE DEF P
            <4> QED
                BY <2>4, <3>1
        <3> HIDE DEF l
        <3>3. f[l + 1] = f[l] \o seqs[l + 1]
            BY <2>2, <3>1 DEF AreJoined
        <3> DEFINE s == f[l]
                   t == seqs[l + 1]
        <3>4. s \in Seq(T) /\ t \in Seq(T) /\ IsDistinct(t)
            BY <3>1, <3>2
        <3>5. PICK g : ArePlaces(g, s, seqs, l)
            BY <3>2
        <3>6. seqs[l + 1] = t
            OBVIOUS
        <3> HIDE DEF s, t
        <3>7. \E h : ArePlaces(h, s \o t, seqs, l + 1)
            BY <3>1, <3>4, <3>5, <3>6, PlacesJoined
        <3>8. s \o t \in Seq(T)
            BY <3>4, ElementsOfConcat
        <3>9. P(l + 1)
            BY <3>3, <3>7, <3>8 DEF s, t
        <3> QED
            BY <3>9 DEF l
    <2> HIDE DEF S
    <2>5. n - 1 \in S /\ n - 1 + 1 = n
        <3>1. Nat \subseteq S
            BY <2>3, <2>4, InductionOnSet
        <3>2. n - 1 \in Nat /\ n - 1 + 1 = n
            BY <2>1
        <3> QED
            BY <3>1, <3>2
    <2>6. P(n)
        <3> HIDE DEF P
        <3> QED
            BY <2>5 DEF S
    <2> QED
        BY <2>2, <2>6 DEF AreJoined
<1> QED
    BY <1>2, <1>3

LEMMA ActionsAre ==
    ASSUME NEW r
    PROVE  LET s == ActionsFor(r) IN
           /\ s \in Seq(ToSet(ActionOrder)) /\ IsDistinct(s)
           /\ "PROMOTE_TO_L3_REVIEW" \in ToSet(s) => r.level = "L3"
<1> DEFINE A == ToSet(ActionOrder)
           last == "PROMOTE_TO_L3_REVIEW"
           a == CASE r.reason = "DEPENDENCY_BLOCKED" -> <<"ADD_MISSING_DEP">>
                  [] r.reason = "CONFLICT" -> <<"REQUEST_HUMAN_CONFIRM", "RETRY_WITH_CONTEXT">>
                  [] OTHER -> <<>>
           b == IF r.level = "L3" THEN <<last>> ELSE <<>>
<1>1. ActionsFor(r) = a \o b
    BY DEF ActionsFor
<1>2. A = {"ADD_MISSING_DEP", "REQUEST_HUMAN_CONFIRM", "RETRY_WITH_CONTEXT", last}
    <2>1. DOMAIN ActionOrder = 1..4
        BY DEF ActionOrder
    <2>2. A = {ActionOrder[i] : i \in 1..4}
        BY <2>1 DEF ToSet
    <2>3. 1..4 = {1, 2, 3, 4}
        OBVIOUS
    <2> HIDE DEF A
    <2> QED
        BY <2>2, <2>3 DEF ActionOrder
<1> DEFINE Is(s) == s \in Seq(A) /\ IsDistinct(s)
<1>3. Is(a) /\ last \notin ToSet(a)
    <2>1. Is(<<>>) /\ last \notin ToSet(<<>>)
        BY DEF ToSet, IsDistinct
    <2>2. Is(<<"ADD_MISSING_DEP">>) /\ last \notin ToSet(<<"ADD_MISSING_DEP">>)
        <3> DEFINE s == <<"ADD_MISSING_DEP">>
        <3>1. Len(s) = 1 /\ DOMAIN s = {1} /\ s[1] = "ADD_MISSING_DEP"
            OBVIOUS
        <3>2. s \in Seq(A)
            <4> HIDE DEF A
            <4> QED
                BY <1>2
        <3> HIDE DEF s
        <3>3. IsDistinct(s)
            BY <3>1 DEF IsDistinct
        <3>4. last \notin ToSet(s)
            BY <3>1 DEF ToSet
        <3> QED
            BY <3>2, <3>3, <3>4 DEF s
    <2>3. /\ Is(<<"REQUEST_HUMAN_CONFIRM", "RETRY_WITH_CONTEXT">>)
          /\ last \notin ToSet(<<"REQUEST_HUMAN_CONFIRM", "RETRY_WITH_CONTEXT">>)
        <3> DEFINE s == <<"REQUEST_HUMAN_CONFIRM", "RETRY_WITH_CONTEXT">>
        <3>1. /\ Len(s) = 2 /\ DOMAIN s = {1, 2}
              /\ s[1] = "REQUEST_HUMAN_CONFIRM" /\ s[2] = "RETRY_WITH_CONTEXT"
            OBVIOUS
        <3>2. s \in Seq(A)
            <4> HIDE DEF A
            <4> QED
                BY <1>2
        <3> HIDE DEF s
        <3>3. IsDistinct(s)
            BY <3>1 DEF IsDistinct
        <3>4. last \notin ToSet(s)
            BY <3>1 DEF ToSet
        <3> QED
            BY <3>2, <3>3, <3>4 DEF s
    <2> HIDE DEF A, Is
    <2> QED
        BY <2>1, <2>2, <2>3
<1>4. Is(b) /\ ToSet(b) \subseteq {last} /\ (last \in ToSet(b) => r.level = "L3")
    <2>1. Is(<<>>) /\ ToSet(<<>>) = {}
        BY DEF ToSet, IsDistinct
    <2>2. Is(<<last>>) /\ ToSet(<<last>>) = {last}
        <3> DEFINE s == <<last>>
        <3>1. Len(s) = 1 /\ DOMAIN s = {1} /\ s[1] = last
            OBVIOUS
        <3>2. s \in Seq(A)
            <4> HIDE DEF A
            <4> QED
                BY <1>2
        <3> HIDE DEF s
        <3>3. IsDistinct(s)
            BY <3>1 DEF IsDistinct
        <3>4. ToSet(s) = {last}
            BY <3>1 DEF ToSet
        <3> QED
            BY <3>2, <3>3, <3>4 DEF s
    <2> HIDE DEF A, Is
    <2> QED
        BY <2>1, <2>2
<1> HIDE DEF a, b, A
<1>5. a \o b \in Seq(A) /\ ToSet(a \o b) = ToSet(a) \cup ToSet(b)
    BY <1>3, <1>4, ElementsOfConcat
<1>6. IsDistinct(a \o b)
    BY <1>3, <1>4, ConcatIsDistinct DEF IsDistinct
<1> QED
    BY <1>1, <1>3, <1>4, <1>5, <1>6 DEF A

\* Where a name stands in a list of names.
Place(s, x) ==
    LET I == {i \in 1..Len(s) : s[i] = x} IN IF I # {} THEN Min(I) ELSE 0

LEMMA PlaceIs ==
    ASSUME NEW S, NEW s \in Seq(S), NEW x
    PROVE  Place(s, x) \in Nat /\ (x \in ToSet(s) => s[Place(s, x)] = x)
<1> DEFINE I == {i \in 1..Len(s) : s[i] = x}
<1>1. Place(s, x) = IF I # {} THEN Min(I) ELSE 0
    BY DEF Place
<1>2. I \subseteq Nat /\ (\A i \in I : s[i] = x) /\ (x \in ToSet(s) => I # {})
    BY LenProperties DEF ToSet
<1> HIDE DEF I
<1>3. CASE I = {}
    BY <1>1, <1>2, <1>3
<1>4. CASE I # {}
    <2>1. \E y \in I : \A z \in I : y <= z
        BY <1>2, <1>4, LeastNumber
    <2>2. Min(I) \in I
        BY <2>1 DEF Min
    <2> QED
        BY <1>1, <1>2, <1>4, <2>2
<1> QED
    BY <1>3, <1>4

LEMMA RanksAre ==
    /\ \A r : SelectInSeq(OpByName, LAMBDA op : op = r.op) = Place(OpByName, r.op)
    /\ \A s : SelectInSeq(ActionOrder, LAMBDA x : x = s.action) = Place(ActionOrder, s.action)
<1>1. ASSUME NEW r
      PROVE  SelectInSeq(OpByName, LAMBDA op : op = r.op) = Place(OpByName, r.op)
    BY DEF SelectInSeq, Place
<1>2. ASSUME NEW s
      PROVE  SelectInSeq(ActionOrder, LAMBDA x : x = s.action) = Place(ActionOrder, s.action)
    BY DEF SelectInSeq, Place
<1> QED
    BY <1>1, <1>2

IsRefusal(r) == r.key \in Key /\ r.path \in {"whole", "field"} /\ r.op \in ToSet(OpByName)

AreRefusals(s) == \E S : s \in Seq(S) /\ \A r \in S : IsRefusal(r)

\* Sorting keeps what was refused.
LEMMA RefusalsSorted ==
    ASSUME NEW s, AreRefusals(s)
    PROVE  LET t == SortedBy(s, RefusedBefore) IN
           t \in Seq(ToSet(s)) /\ Len(t) = Len(s) /\ ToSet(t) = ToSet(s)
<1> DEFINE n == Len(s)
           W == {p \in (1..n) \X (1..n) : RefusedBefore(s[p[1]], s[p[2]])}
           R == Stable(W, n)
           order == Listed(DOMAIN s, LAMBDA i, j : RefusedBefore(s[i], s[j])
                                                   \/ (i < j /\ ~RefusedBefore(s[j], s[i])))
           t == SortedBy(s, RefusedBefore)
<1>1. PICK S : s \in Seq(S) /\ \A r \in S : IsRefusal(r)
    BY DEF AreRefusals
<1>2. n \in Nat /\ DOMAIN s = 1..n /\ \A i \in 1..n : IsRefusal(s[i])
    BY <1>1, LenProperties
<1> HIDE DEF n
<1>3. t = [i \in DOMAIN s |-> s[order[i]]]
    BY DEF SortedBy
<1>4. \A i, j \in 1..n : <<i, j>> \in W <=> RefusedBefore(s[i], s[j])
    OBVIOUS
<1> DEFINE rank(r) == Place(OpByName, r.op)
<1>5. \A a, b : RefusedBefore(a, b) <=>
          \/ a.key < b.key
          \/ a.key = b.key /\ a.path = "field" /\ b.path = "whole"
          \/ a.key = b.key /\ a.path = b.path /\ rank(a) < rank(b)
          \/ /\ a.key = b.key /\ a.path = b.path /\ a.op = b.op
             /\ a.reason = "CONFLICT" /\ b.reason # "CONFLICT"
    BY RanksAre DEF RefusedBefore
<1>6. \A r : IsRefusal(r) =>
          /\ rank(r) \in Nat /\ r.key \in Int /\ r.path \in {"whole", "field"}
          /\ OpByName[rank(r)] = r.op
    <2> DEFINE V == {"add", "append", "modify", "remove", "set"}
    <2>1. OpByName \in Seq(V)
        BY DEF OpByName
    <2> HIDE DEF V
    <2> QED
        BY <2>1, PlaceIs, Ordered DEF IsRefusal
<1> HIDE DEF rank, W
<1>8. WeakOrder(W, n)
    <2>1. \A i \in 1..n : /\ s[i].key \in Int /\ s[i].path \in {"whole", "field"}
                          /\ rank(s[i]) \in Nat
        BY <1>2, <1>6
    <2>2. \A i, j \in 1..n : s[i].op = s[j].op <=> rank(s[i]) = rank(s[j])
        BY <1>2, <1>6 DEF rank
    <2>3. \A i, j \in 1..n : RefusedBefore(s[i], s[j]) => ~RefusedBefore(s[j], s[i])
        BY <1>5, <2>1, <2>2
    <2>4. \A i, j, l \in 1..n :
              ~RefusedBefore(s[i], s[j]) /\ ~RefusedBefore(s[j], s[l])
                  => ~RefusedBefore(s[i], s[l])
        BY <1>5, <2>1, <2>2
    <2> QED
        BY <1>4, <2>3, <2>4 DEF WeakOrder
<1> DEFINE D == 1..n
           below(x) == {y \in D : RefusedBefore(s[y], s[x])
                                  \/ (y < x /\ ~RefusedBefore(s[x], s[y]))}
<1>9. \A x \in D : {y \in D : <<y, x>> \in R} = below(x)
    BY <1>4 DEF Stable
<1>10. order = [i \in 1..Cardinality(D) |->
                   CHOOSE x \in D : Cardinality(below(x)) = i - 1]
    BY <1>2 DEF Listed
<1> HIDE DEF below, D, R, order
<1>11. Lists(order, D, R)
    <2>1. ASSUME NEW i \in 1..Cardinality(D), NEW x \in D,
                 Cardinality({y \in D : <<y, x>> \in R}) = i - 1
          PROVE  /\ order[i] \in D
                 /\ Cardinality({y \in D : <<y, order[i]>> \in R}) = i - 1
        <3>1. Cardinality(below(x)) = i - 1
            BY <1>9, <2>1
        <3>2. order[i] = CHOOSE z \in D : Cardinality(below(z)) = i - 1
            BY <1>10
        <3>3. order[i] \in D /\ Cardinality(below(order[i])) = i - 1
            BY <3>1, <3>2
        <3> QED
            BY <1>9, <3>3
    <2>2. PICK V : order \in [1..Cardinality(D) -> V]
        <3> DEFINE V == {CHOOSE x \in D : Cardinality(below(x)) = i - 1 :
                            i \in 1..Cardinality(D)}
        <3>1. order \in [1..Cardinality(D) -> V]
            BY <1>10
        <3> HIDE DEF V
        <3> QED
            BY <3>1
    <2> QED
        BY <2>1, <2>2 DEF Lists
<1> HIDE DEF t
<1>12. IsSortOf(t, s, n, W)
    BY <1>2, <1>3, <1>8, <1>11, StableSort DEF D, R
<1>13. t \in [1..n -> ToSet(s)] /\ ToSet(t) = ToSet(s)
    BY <1>12 DEF IsSortOf
<1>14. t \in Seq(ToSet(s)) /\ Len(t) = n
    BY <1>2, <1>13
<1> QED
    BY <1>13, <1>14 DEF t, n

\* What a sorted list of suggestions is.
AreSorted(t, s) ==
    /\ t \in Seq(ToSet(s)) /\ Len(t) = Len(s) /\ ToSet(t) = ToSet(s)
    /\ \E o \in [1..Len(s) -> 1..Len(s)] :
          /\ \A i, j \in 1..Len(s) : o[i] = o[j] => i = j
          /\ \A i \in 1..Len(s) : t[i] = s[o[i]]
    /\ \A i, j \in 1..Len(s) : t[i].key < t[j].key => i < j

LEMMA SuggestionsSorted ==
    ASSUME NEW s, NEW S, s \in Seq(S),
           \A x \in S : x.key \in Key /\ x.path \in {"whole", "field"}
    PROVE  AreSorted(SortedBy(s, SuggestionBefore), s)
<1> DEFINE n == Len(s)
           W == {p \in (1..n) \X (1..n) : SuggestionBefore(s[p[1]], s[p[2]])}
           R == Stable(W, n)
           order == Listed(DOMAIN s, LAMBDA i, j : SuggestionBefore(s[i], s[j])
                                                   \/ (i < j /\ ~SuggestionBefore(s[j], s[i])))
           t == SortedBy(s, SuggestionBefore)
<1>2. n \in Nat /\ DOMAIN s = 1..n
      /\ \A i \in 1..n : s[i].key \in Key /\ s[i].path \in {"whole", "field"}
    BY LenProperties
<1> HIDE DEF n
<1>3. t = [i \in DOMAIN s |-> s[order[i]]]
    BY DEF SortedBy
<1>4. \A i, j \in 1..n : <<i, j>> \in W <=> SuggestionBefore(s[i], s[j])
    OBVIOUS
<1> DEFINE rank(x) == Place(ActionOrder, x.action)
<1>5. \A a, b : SuggestionBefore(a, b) <=>
          \/ a.key < b.key
          \/ a.key = b.key /\ a.path = "whole" /\ b.path = "field"
          \/ a.key = b.key /\ a.path = b.path /\ rank(a) < rank(b)
    BY RanksAre DEF SuggestionBefore
<1>6. \A x : rank(x) \in Nat
    <2> DEFINE V == {"ADD_MISSING_DEP", "REQUEST_HUMAN_CONFIRM", "RETRY_WITH_CONTEXT",
                     "PROMOTE_TO_L3_REVIEW"}
    <2>1. ActionOrder \in Seq(V)
        BY DEF ActionOrder
    <2> HIDE DEF V
    <2> QED
        BY <2>1, PlaceIs
<1> HIDE DEF rank, W
<1>7. \A i \in 1..n : s[i].key \in Int /\ s[i].path \in {"whole", "field"}
    BY <1>2, Ordered
<1>8. WeakOrder(W, n)
    <2>2. \A i, j \in 1..n : SuggestionBefore(s[i], s[j]) => ~SuggestionBefore(s[j], s[i])
        BY <1>5, <1>6, <1>7
    <2>3. \A i, j, l \in 1..n :
              ~SuggestionBefore(s[i], s[j]) /\ ~SuggestionBefore(s[j], s[l])
                  => ~SuggestionBefore(s[i], s[l])
        BY <1>5, <1>6, <1>7
    <2> QED
        BY <1>4, <2>2, <2>3 DEF WeakOrder
<1> DEFINE D == 1..n
           below(x) == {y \in D : SuggestionBefore(s[y], s[x])
                                  \/ (y < x /\ ~SuggestionBefore(s[x], s[y]))}
<1>9. \A x \in D : {y \in D : <<y, x>> \in R} = below(x)
    BY <1>4 DEF Stable
<1>10. order = [i \in 1..Cardinality(D) |->
                   CHOOSE x \in D : Cardinality(below(x)) = i - 1]
    BY <1>2 DEF Listed
<1> HIDE DEF below, D, R, order
<1>11. Lists(order, D, R)
    <2>1. ASSUME NEW i \in 1..Cardinality(D), NEW x \in D,
                 Cardinality({y \in D : <<y, x>> \in R}) = i - 1
          PROVE  /\ order[i] \in D
                 /\ Cardinality({y \in D : <<y, order[i]>> \in R}) = i - 1
        <3>1. Cardinality(below(x)) = i - 1
            BY <1>9, <2>1
        <3>2. order[i] = CHOOSE z \in D : Cardinality(below(z)) = i - 1
            BY <1>10
        <3>3. order[i] \in D /\ Cardinality(below(order[i])) = i - 1
            BY <3>1, <3>2
        <3> QED
            BY <1>9, <3>3
    <2>2. PICK V : order \in [1..Cardinality(D) -> V]
        <3> DEFINE V == {CHOOSE x \in D : Cardinality(below(x)) = i - 1 :
                            i \in 1..Cardinality(D)}
        <3>1. order \in [1..Cardinality(D) -> V]
            BY <1>10
        <3> HIDE DEF V
        <3> QED
            BY <3>1
    <2> QED
        BY <2>1, <2>2 DEF Lists
<1> HIDE DEF t
<1>12. IsSortOf(t, s, n, W)
    BY <1>2, <1>3, <1>8, <1>11, StableSort DEF D, R
<1>13. PICK o \in [1..n -> 1..n] :
          /\ \A i, j \in 1..n : o[i] = o[j] => i = j
          /\ \A i \in 1..n : t[i] = s[o[i]]
          /\ \A i, j \in 1..n : i < j => <<o[j], o[i]>> \notin W
    BY <1>12 DEF IsSortOf
<1>14. t \in [1..n -> ToSet(s)] /\ ToSet(t) = ToSet(s)
    BY <1>12 DEF IsSortOf
<1>15. t \in Seq(ToSet(s)) /\ Len(t) = n
    BY <1>2, <1>14
<1>16. ASSUME NEW i \in 1..n, NEW j \in 1..n, t[i].key < t[j].key PROVE i < j
    <2>1. t[i] = s[o[i]] /\ t[j] = s[o[j]] /\ o[i] \in 1..n /\ o[j] \in 1..n
        BY <1>13
    <2>2. SuggestionBefore(s[o[i]], s[o[j]])
        BY <1>5, <1>16, <2>1
    <2>3. <<o[i], o[j]>> \in W
        BY <1>4, <2>1, <2>2
    <2>4. ~(j < i)
        BY <1>13, <2>3
    <2>5. i # j
        <3>1. t[i].key \in Int
            BY <1>7, <2>1
        <3> QED
            BY <1>16, <3>1
    <2> QED
        BY <1>2, <2>4, <2>5
<1> QED
    BY <1>13, <1>14, <1>15, <1>16 DEF AreSorted, t, n

Advice(r, a) == [key |-> r.key, path |-> r.path, op |-> r.op, action |-> a]

AdviceFor(r) == [i \in DOMAIN ActionsFor(r) |-> Advice(r, ActionsFor(r)[i])]

Promotion(x) == x.action = "PROMOTE_TO_L3_REVIEW"

LEMMA AdviceIs ==
    ASSUME NEW r, NEW S, \A a \in ToSet(ActionOrder) : Advice(r, a) \in S
    PROVE  /\ AdviceFor(r) \in Seq(S) /\ IsDistinct(AdviceFor(r))
           /\ ToSet(AdviceFor(r)) = {Advice(r, a) : a \in ToSet(ActionsFor(r))}
<1> DEFINE s == ActionsFor(r)
           A == ToSet(ActionOrder)
<1>1. s \in Seq(A) /\ IsDistinct(s)
    BY ActionsAre
<1>2. Len(s) \in Nat /\ DOMAIN s = 1..Len(s) /\ \A i \in 1..Len(s) : s[i] \in A
    BY <1>1, LenProperties
<1> DEFINE w(a) == Advice(r, a)
           t == AdviceFor(r)
<1>3. t = [i \in 1..Len(s) |-> w(s[i])]
    BY <1>2 DEF AdviceFor
<1>4. \A a, b : w(a) = w(b) => a = b
    <2> TAKE a, b
    <2> HAVE w(a) = w(b)
    <2>1. w(a).action = a /\ w(b).action = b
        BY DEF Advice
    <2> QED
        BY <2>1
<1>5. \A a \in A : w(a) \in S
    OBVIOUS
<1>7. ToSet(s) = {s[i] : i \in 1..Len(s)}
    BY <1>2 DEF ToSet
<1> HIDE DEF s, A, w, t
<1>6. t \in Seq(S) /\ Len(t) = Len(s) /\ \A i \in 1..Len(s) : t[i] = w(s[i])
    BY <1>2, <1>3, <1>5
<1>8. IsDistinct(t)
    BY <1>1, <1>4, <1>6 DEF IsDistinct
<1>9. ToSet(t) = {w(a) : a \in ToSet(s)}
    <2>1. ToSet(t) = {t[i] : i \in 1..Len(s)}
        BY <1>3 DEF ToSet
    <2> QED
        BY <1>6, <1>7, <2>1
<1> QED
    BY <1>6, <1>8, <1>9 DEF t, w, s

\* The suggestions that are made of the refusals rs.
IsAdvice(list, rs) ==
    /\ \E S : list \in Seq(S)
    /\ Cardinality({i \in DOMAIN list : Promotion(list[i])})
         <= Cardinality({i \in DOMAIN rs : rs[i].level = "L3"})
    /\ \A r, s \in ToSet(rs) : \A x \in ToSet(list) : \A a \in ToSet(ActionsFor(r)) :
          r.key < s.key /\ Target(x) = Target(s) => Advice(r, a) \in ToSet(list)

LEMMA SuggestionsAre ==
    ASSUME NEW rs, AreRefusals(rs)
    PROVE  IsAdvice(Suggestions(rs), rs)
<1> DEFINE n == Len(rs)
           pieces == [i \in DOMAIN rs |-> AdviceFor(rs[i])]
           A == ToSet(ActionOrder)
           S == {Advice(p[1], p[2]) : p \in ToSet(rs) \X A}
           F == FlattenSeq(pieces)
           all == SortedBy(F, SuggestionBefore)
           m == IF Len(all) < MaxSuggestions THEN Len(all) ELSE MaxSuggestions
           list == SubSeq(all, 1, m)
<1>1. Suggestions(rs) = list
    BY DEF Suggestions, Flat, AdviceFor, Advice
<1>2. n \in Nat /\ DOMAIN rs = 1..n /\ (\A i \in 1..n : IsRefusal(rs[i]))
      /\ ToSet(rs) = {rs[i] : i \in 1..n}
    <2>1. PICK T : rs \in Seq(T) /\ \A r \in T : IsRefusal(r)
        BY DEF AreRefusals
    <2> QED
        BY <2>1, LenProperties DEF ToSet
<1> HIDE DEF n
<1>3. \A r \in ToSet(rs) : \A a \in A : Advice(r, a) \in S
    <2> TAKE r \in ToSet(rs)
    <2> TAKE a \in A
    <2> DEFINE p == <<r, a>>
    <2>1. p \in ToSet(rs) \X A /\ p[1] = r /\ p[2] = a
        <3> HIDE DEF A
        <3> QED
            OBVIOUS
    <2> HIDE DEF A
    <2> QED
        BY <2>1
<1>4. \A x \in S : x.key \in Key /\ x.path \in {"whole", "field"}
    <2>1. \A r \in ToSet(rs) : r.key \in Key /\ r.path \in {"whole", "field"}
        BY <1>2 DEF IsRefusal
    <2>2. \A r, a : Advice(r, a).key = r.key /\ Advice(r, a).path = r.path
        BY DEF Advice
    <2> HIDE DEF A
    <2> QED
        BY <2>1, <2>2
<1> HIDE DEF S, A
<1>5. ASSUME NEW i \in 1..n
      PROVE  /\ pieces[i] \in Seq(S) /\ IsDistinct(pieces[i])
             /\ ToSet(pieces[i]) = {Advice(rs[i], a) : a \in ToSet(ActionsFor(rs[i]))}
    <2>1. pieces[i] = AdviceFor(rs[i]) /\ rs[i] \in ToSet(rs)
        BY <1>2
    <2>2. \A a \in ToSet(ActionOrder) : Advice(rs[i], a) \in S
        BY <1>3, <2>1 DEF A
    <2> QED
        BY <2>1, <2>2, AdviceIs
<1>6. pieces \in [1..n -> Seq(S)]
    <2>1. pieces = [i \in 1..n |-> pieces[i]]
        BY <1>2
    <2> HIDE DEF pieces
    <2> QED
        BY <1>5, <2>1
<1> HIDE DEF pieces
<1>7. F \in Seq(S) /\ ToSet(F) = UNION {ToSet(pieces[i]) : i \in 1..n}
    BY <1>2, <1>6, FlattenProperties
<1>8. PICK g : ArePlaces(g, F, pieces, n)
    BY <1>2, <1>5, <1>6, FlattenPlaces
<1> HIDE DEF F
<1>9. AreSorted(all, F)
    BY <1>4, <1>7, SuggestionsSorted
<1> HIDE DEF all
<1>10. /\ all \in Seq(ToSet(F)) /\ Len(all) = Len(F) /\ ToSet(all) = ToSet(F)
       /\ \A i, j \in 1..Len(F) : all[i].key < all[j].key => i < j
    BY <1>9 DEF AreSorted
<1>11. PICK o \in [1..Len(F) -> 1..Len(F)] :
          /\ \A i, j \in 1..Len(F) : o[i] = o[j] => i = j
          /\ \A i \in 1..Len(F) : all[i] = F[o[i]]
    BY <1>9 DEF AreSorted
<1>12. Len(F) \in Nat /\ DOMAIN all = 1..Len(F) /\ DOMAIN F = 1..Len(F)
    BY <1>7, <1>10, LenProperties
<1>13. m \in 0..Len(F) /\ m \in Nat
    BY <1>10, <1>12, LimitType
<1> HIDE DEF m
<1>14. list \in Seq(ToSet(F)) /\ Len(list) = m /\ \A i \in 1..m : list[i] = all[i]
    BY <1>10, <1>12, <1>13, SubSeqProperties
<1> HIDE DEF list
<1>15. DOMAIN list = 1..m /\ ToSet(list) = {all[i] : i \in 1..m}
    BY <1>14, LenProperties DEF ToSet
<1> DEFINE P == {i \in DOMAIN list : Promotion(list[i])}
           L == {i \in DOMAIN rs : rs[i].level = "L3"}
           from(i) == g[o[i]]
<1>16. ASSUME NEW i \in P
       PROVE  /\ i \in 1..m /\ i \in 1..Len(F) /\ o[i] \in 1..Len(F) /\ from(i) \in L
              /\ F[o[i]] = Advice(rs[from(i)], "PROMOTE_TO_L3_REVIEW")
    <2>1. i \in 1..m /\ i \in 1..Len(F) /\ o[i] \in 1..Len(F)
        BY <1>11, <1>12, <1>13, <1>15
    <2>2. from(i) \in 1..n /\ F[o[i]] \in ToSet(pieces[from(i)])
        BY <1>8, <2>1 DEF ArePlaces
    <2>3. PICK a \in ToSet(ActionsFor(rs[from(i)])) : F[o[i]] = Advice(rs[from(i)], a)
        BY <1>5, <2>2
    <2>4. list[i] = F[o[i]] /\ Promotion(list[i])
        BY <1>11, <1>14, <2>1
    <2>5. a = "PROMOTE_TO_L3_REVIEW"
        BY <2>3, <2>4 DEF Promotion, Advice
    <2>6. rs[from(i)].level = "L3"
        BY <2>3, <2>5, ActionsAre
    <2> QED
        BY <1>2, <2>1, <2>2, <2>3, <2>5, <2>6
<1>17. ASSUME NEW i \in P, NEW j \in P, from(i) = from(j) PROVE i = j
    <2>1. F[o[i]] = F[o[j]] /\ o[i] \in 1..Len(F) /\ o[j] \in 1..Len(F)
        BY <1>16, <1>17
    <2>2. o[i] = o[j]
        BY <1>8, <1>17, <2>1 DEF ArePlaces
    <2>3. i \in 1..Len(F) /\ j \in 1..Len(F)
        BY <1>16
    <2> QED
        BY <1>11, <2>2, <2>3
<1>18. Cardinality(P) <= Cardinality(L)
    <2>1. IsFiniteSet(L)
        <3>1. L \subseteq 1..n /\ IsFiniteSet(1..n)
            BY <1>2, FS_Interval
        <3> HIDE DEF L
        <3> QED
            BY <3>1, FS_Subset
    <2> DEFINE h == [i \in P |-> from(i)]
    <2>2. \A i \in P : from(i) \in L
        BY <1>16
    <2>3. \A i, j \in P : from(i) = from(j) => i = j
        BY <1>17
    <2> HIDE DEF P, L, from
    <2>4. h \in Injection(P, L)
        BY <2>2, <2>3 DEF Injection, IsInjective
    <2> HIDE DEF h
    <2> QED
        BY <2>1, <2>4, FS_Injection
<1>19. ASSUME NEW r \in ToSet(rs), NEW s \in ToSet(rs), NEW x \in ToSet(list),
              NEW a \in ToSet(ActionsFor(r)), r.key < s.key, Target(x) = Target(s)
       PROVE  Advice(r, a) \in ToSet(list)
    <2> DEFINE y == Advice(r, a)
    <2>1. y.key = r.key /\ x.key = s.key
        BY <1>19 DEF Advice, Target
    <2>2. y \in ToSet(all)
        <3>1. PICK i \in 1..n : rs[i] = r
            BY <1>2
        <3>2. y \in ToSet(pieces[i])
            BY <1>5, <3>1
        <3> QED
            BY <1>7, <1>10, <3>1, <3>2
    <2> HIDE DEF y
    <2>3. PICK q \in 1..Len(F) : all[q] = y
        BY <1>12, <2>2 DEF ToSet
    <2>4. PICK p \in 1..m : all[p] = x
        BY <1>15
    <2>5. p \in 1..Len(F)
        BY <1>12, <1>13
    <2>6. q < p
        BY <1>10, <1>19, <2>1, <2>3, <2>4, <2>5
    <2>7. q \in 1..m
        BY <1>13, <2>6
    <2>8. y \in ToSet(list)
        BY <1>15, <2>3, <2>7
    <2> QED
        BY <2>8 DEF y
<1>20. IsAdvice(list, rs)
    <2>1. \E T : list \in Seq(T)
        BY <1>14
    <2> QED
        BY <1>18, <1>19, <2>1 DEF IsAdvice
<1> QED
    BY <1>1, <1>20

\* None of the counts in a contract exceeds the one it is divided by.
LEMMA ContractIs ==
    ASSUME NEW rs, AreRefusals(rs), NEW list, IsAdvice(list, rs)
    PROVE  LET c == Contract(rs, list) IN
           /\ c.actionableKeys <= c.coveredKeys /\ c.coveredKeys <= c.rejectedCount
           /\ c.l3Suggestions <= c.l3Rejected
<1> DEFINE n == Len(rs)
           targets == {Target(r) : r \in ToSet(rs)}
           covered == {Target(s) : s \in ToSet(list)} \cap targets
           actionable == {Target(s) : s \in
                {x \in ToSet(list) : x.action # "REQUEST_HUMAN_CONFIRM"}} \cap covered
           c == Contract(rs, list)
<1>1. /\ c.actionableKeys = Cardinality(actionable) /\ c.coveredKeys = Cardinality(covered)
      /\ c.rejectedCount = n
      /\ c.l3Suggestions = Cardinality({i \in DOMAIN list : Promotion(list[i])})
      /\ c.l3Rejected = Cardinality({i \in DOMAIN rs : rs[i].level = "L3"})
    BY DEF Contract, Promotion
<1>2. actionable \subseteq covered /\ covered \subseteq targets
    OBVIOUS
<1>3. n \in Nat /\ DOMAIN rs = 1..n /\ ToSet(rs) = {rs[i] : i \in 1..n}
    BY LenProperties DEF AreRefusals, ToSet
<1>4. IsFiniteSet(targets) /\ Cardinality(targets) <= n
    <2> DEFINE w(i) == Target(rs[i])
               f == [i \in 1..n |-> w(i)]
    <2>1. \A i \in 1..n : w(i) \in targets
        BY <1>3
    <2>2. \A x \in targets : \E i \in 1..n : w(i) = x
        BY <1>3
    <2> HIDE DEF w, targets, n
    <2>3. IsFiniteSet(1..n) /\ Cardinality(1..n) = n
        BY <1>3, FS_Interval
    <2>4. f \in Surjection(1..n, targets)
        BY <2>1, <2>2 DEF Surjection
    <2> HIDE DEF f
    <2> QED
        BY <2>3, <2>4, FS_Surjection
<1> HIDE DEF c, covered, actionable, targets, n
<1>5. IsFiniteSet(covered) /\ Cardinality(covered) <= Cardinality(targets)
    BY <1>2, <1>4, FS_Subset
<1>6. IsFiniteSet(actionable) /\ Cardinality(actionable) <= Cardinality(covered)
    BY <1>2, <1>5, FS_Subset
<1>7. Cardinality(targets) \in Nat /\ Cardinality(covered) \in Nat
    BY <1>4, <1>5, FS_CardinalityType
<1>8. Cardinality(covered) <= n
    BY <1>3, <1>4, <1>5, <1>7
<1>9. c.l3Suggestions <= c.l3Rejected
    BY <1>1 DEF IsAdvice
<1> QED
    BY <1>1, <1>6, <1>8, <1>9 DEF c

\* The report is about all that was refused.
Reported ==
    /\ AreRefusals(refused)
    /\ Finished =>
          \E rs : /\ AreRefusals(rs) /\ ToSet(rs) = ToSet(refused)
                  /\ report.suggestions = Suggestions(rs)
                  /\ report.contract = Contract(rs, Suggestions(rs))

LEMMA RefusalReported ==
    ASSUME Planned, AreRefusals(refused), NEW reason, NEW rule, next \in DOMAIN candidates,
           NEW s, s = Append(refused, Refusal(next, reason, rule))
    PROVE  AreRefusals(s)
<1> DEFINE x == Refusal(next, reason, rule)
           c == candidates[next]
<1>1. IsCandidate(c)
    <2>1. PICK S : candidates \in Seq(S) /\ \A y \in S : IsCandidate(y)
        BY DEF Planned, AreCandidates
    <2> QED
        BY <2>1, LenProperties
<1>2. x.key = c.key /\ x.path = c.path /\ x.op = c.op
    BY DEF Refusal
<1>3. ToSet(OpByName) = {"add", "append", "modify", "remove", "set"}
    <2>1. ToSet(OpByName) = {OpByName[i] : i \in 1..5}
        BY DEF ToSet, OpByName
    <2>2. 1..5 = {1, 2, 3, 4, 5}
        OBVIOUS
    <2> QED
        BY <2>1, <2>2 DEF OpByName
<1> HIDE DEF x, c
<1>4. IsRefusal(x)
    BY <1>1, <1>2, <1>3 DEF IsRefusal, IsCandidate
<1>5. PICK S : refused \in Seq(S) /\ \A r \in S : IsRefusal(r)
    BY DEF AreRefusals
<1> DEFINE T == S \cup {x}
<1>6. T \in SUBSET T /\ S \subseteq T /\ x \in T /\ \A r \in T : IsRefusal(r)
    BY <1>4, <1>5
<1> HIDE DEF T
<1>7. refused \in Seq(T)
    BY <1>5, <1>6, SeqOfMore
<1>8. Append(refused, x) \in Seq(T)
    BY <1>6, <1>7, AppendProperties
<1> QED
    BY <1>6, <1>8 DEF AreRefusals, x

LEMMA UnsafeReported ==
    ASSUME Planned, ExpandCandidates
    PROVE  AreRefusals(refused')
<1> DEFINE found == Flat(proposal, LAMBDA e : UnsafeOf(e, policy))
           at(i) == [key |-> found[i], path |-> "field", op |-> "modify",
                     reason |-> "UNSAFE_PATH", rule |-> "INVARIANT_BREAK",
                     level |-> LevelFor(policy, "INVARIANT_BREAK"), candidate |-> 0]
<1>1. refused' = [i \in DOMAIN found |-> at(i)]
    BY DEF ExpandCandidates
<1>2. found \in Seq(Key)
    <2>1. FlattenSeq([i \in DOMAIN proposal |-> UnsafeOf(proposal[i], policy)]) \in Seq(Key)
        BY UnsafeIs DEF Planned
    <2>2. found = FlattenSeq([i \in DOMAIN proposal |-> UnsafeOf(proposal[i], policy)])
        BY DEF Flat
    <2> QED
        BY <2>1, <2>2
<1>3. \A i : at(i).key = found[i] /\ at(i).path = "field" /\ at(i).op = "modify"
    OBVIOUS
<1>4. DOMAIN found = 1..Len(found) /\ Len(found) \in Nat /\ \A i \in 1..Len(found) : found[i] \in Key
    BY <1>2, LenProperties
<1>5. "modify" \in ToSet(OpByName)
    <2>1. 3 \in DOMAIN OpByName /\ OpByName[3] = "modify"
        BY DEF OpByName
    <2> QED
        BY <2>1 DEF ToSet
<1> HIDE DEF found, at
<1> DEFINE S == {at(i) : i \in 1..Len(found)}
<1>6. refused' \in Seq(S)
    BY <1>1, <1>4
<1>7. \A r \in S : IsRefusal(r)
    BY <1>3, <1>4, <1>5 DEF IsRefusal
<1> HIDE DEF S
<1> QED
    BY <1>6, <1>7 DEF AreRefusals

\* Everything refused is a refusal of a known operation, and once the plan has
\* answered, its report is the one drawn from all of them.
THEOREM AllReported == Spec => []Reported
<1>1. Init => Reported
    <2> SUFFICES ASSUME Init PROVE Reported
        OBVIOUS
    <2>1. refused = <<>> /\ ~Finished
        BY DEF Init, Finished
    <2> DEFINE W == {}
    <2>2. <<>> \in Seq(W) /\ \A r \in W : IsRefusal(r)
        OBVIOUS
    <2> HIDE DEF W
    <2> QED
        BY <2>1, <2>2 DEF Reported, AreRefusals
<1>2. Reported /\ Planned /\ PlanInv /\ [Next]_vars => Reported'
    <2> SUFFICES ASSUME Reported, Planned, PlanInv, [Next]_vars PROVE Reported'
        OBVIOUS
    <2>1. CASE UNCHANGED vars
        BY <2>1 DEF vars, Reported, Finished, AreRefusals, ToSet
    <2>2. CASE InvalidPolicy
        <3>1. refused' = refused /\ next' = 0
            BY <2>2 DEF InvalidPolicy
        <3>2. ~Finished'
            BY <3>1 DEF Finished
        <3> QED
            BY <3>1, <3>2 DEF Reported, AreRefusals
    <2>3. CASE ExpandCandidates
        <3>1. report' = report /\ next = 0 /\ (policy.rules = <<>> \/ IsValid(policy))
            BY <2>3 DEF ExpandCandidates
        <3>2. report' = None
            BY <3>1 DEF PlanInv, ReportIsLast
        <3>3. ~Finished'
            BY <3>2 DEF Finished
        <3>4. AreRefusals(refused')
            BY <2>3, UnsafeReported
        <3> QED
            BY <3>3, <3>4 DEF Reported, AreRefusals
    <2>4. CASE RefuseBlocked \/ RefuseConflict \/ Accept
        <3>1. report' = None /\ next \in DOMAIN candidates
            BY <2>4 DEF RefuseBlocked, RefuseConflict, Accept, Considered
        <3>2. \/ refused' = refused
              \/ \E reason, rule : refused' = Append(refused, Refusal(next, reason, rule))
            BY <2>4 DEF RefuseBlocked, RefuseConflict, Accept
        <3>3. AreRefusals(refused')
            BY <3>1, <3>2, RefusalReported DEF Reported
        <3>4. ~Finished'
            BY <3>1 DEF Finished
        <3> QED
            BY <3>3, <3>4 DEF Reported, AreRefusals
    <2>5. CASE Finish
        <3> DEFINE rs == SortedBy(refused, RefusedBefore)
        <3>1. /\ report'.suggestions = Suggestions(rs)
              /\ report'.contract = Contract(rs, Suggestions(rs))
              /\ refused' = refused
            BY <2>5 DEF Finish
        <3>2. AreRefusals(refused)
            BY DEF Reported
        <3>3. rs \in Seq(ToSet(refused)) /\ ToSet(rs) = ToSet(refused)
            BY <3>2, RefusalsSorted
        <3>4. \A r \in ToSet(refused) : IsRefusal(r)
            BY <3>2, LenProperties DEF AreRefusals, ToSet
        <3> HIDE DEF rs
        <3>5. AreRefusals(rs)
            BY <3>3, <3>4 DEF AreRefusals
        <3>6. ToSet(rs) = ToSet(refused')
            BY <3>1, <3>3
        <3>7. AreRefusals(refused')
            BY <3>1, <3>2
        <3> QED
            BY <3>1, <3>5, <3>6, <3>7 DEF Reported, AreRefusals, ToSet
    <2> QED
        BY <2>1, <2>2, <2>3, <2>4, <2>5 DEF Next
<1> QED
    BY <1>1, <1>2, RefusalsAreFair, PlanInvariant, PTL DEF Spec

\* The suggestions and the counts of the contract are honest, for any proposal,
\* policy and limit of suggestions (buildClosureSuggestionsV1,
\* buildClosureContractV1).
THEOREM CoverageIsHonestAlways == Spec => []CoverageIsHonest
<1>1. Reported => CoverageIsHonest
    <2> SUFFICES ASSUME Reported, Finished PROVE CoverageIsHonest
        BY DEF CoverageIsHonest
    <2>1. PICK rs : /\ AreRefusals(rs) /\ ToSet(rs) = ToSet(refused)
                    /\ report.suggestions = Suggestions(rs)
                    /\ report.contract = Contract(rs, Suggestions(rs))
        BY DEF Reported
    <2> DEFINE list == Suggestions(rs)
               c == report.contract
               Given(r) == {x \in ToSet(list) : Target(x) = Target(r)}
    <2>2. IsAdvice(list, rs)
        BY <2>1, SuggestionsAre
    <2>3. /\ c.actionableKeys <= c.coveredKeys /\ c.coveredKeys <= c.rejectedCount
          /\ c.l3Suggestions <= c.l3Rejected
        <3> HIDE DEF list
        <3>1. c = Contract(rs, list)
            BY <2>1 DEF list
        <3> HIDE DEF c
        <3> QED
            BY <2>1, <2>2, <3>1, ContractIs
    <2>4. ASSUME NEW r \in ToSet(refused), NEW s \in ToSet(refused),
                 r.key < s.key, Given(s) # {}
          PROVE  ToSet(ActionsFor(r)) \subseteq {x.action : x \in Given(r)}
        <3> HIDE DEF list
        <3>1. PICK x \in ToSet(list) : Target(x) = Target(s)
            BY <2>4
        <3> SUFFICES ASSUME NEW a \in ToSet(ActionsFor(r))
                     PROVE  \E y \in Given(r) : y.action = a
            OBVIOUS
        <3>2. Advice(r, a) \in ToSet(list)
            BY <2>1, <2>2, <2>4, <3>1 DEF IsAdvice
        <3>3. Target(Advice(r, a)) = Target(r) /\ Advice(r, a).action = a
            BY DEF Target, Advice
        <3> QED
            BY <3>2, <3>3
    <2>5. report.suggestions = list
        BY <2>1
    <2> HIDE DEF list, c
    <2> QED
        BY <2>3, <2>4, <2>5 DEF CoverageIsHonest, c
<1> QED
    BY <1>1, AllReported, PTL

-----------------------------------------------------------------------------
(* What a proper proposal asks of a unit *)

\* The effects of the candidates of an entry.
EffectsOf(e, given) ==
    IF IsSplit(e, given)
    THEN {ModifyEffect(e.before, e.after, <<c>>) : c \in ToSet(e.changes)}
    ELSE {EntryEffect(e)}

\* The list holds the candidates of the entry e: of its key, each with one of its
\* effects, and one for each.
AreCandidatesOf(list, e, given) ==
    /\ \A c \in ToSet(list) : c.key = e.key /\ c.effect \in EffectsOf(e, given)
    /\ \A f \in EffectsOf(e, given) : \E c \in ToSet(list) : c.key = e.key /\ c.effect = f

\* An entry without unsafe changes is considered change by change, or as a whole.
LEMMA EffectsOfCandidates ==
    ASSUME NEW e, IsEntry(e), NEW given, e.kind = "modify" => Unsafe \notin ToSet(e.changes)
    PROVE  AreCandidatesOf(CandidatesOf(e, given), e, given)
<1>1. CASE ~IsSplit(e, given)
    <2> DEFINE x == WholeUnit(e)
    <2>1. CandidatesOf(e, given) = <<x>>
        BY <1>1 DEF CandidatesOf
    <2>2. x.key = e.key /\ x.effect = EntryEffect(e)
        BY DEF WholeUnit
    <2> HIDE DEF x
    <2>3. ToSet(<<x>>) = {x}
        BY DEF ToSet
    <2>4. EffectsOf(e, given) = {EntryEffect(e)}
        BY <1>1 DEF EffectsOf
    <2> QED
        BY <2>1, <2>2, <2>3, <2>4 DEF AreCandidatesOf
<1>2. CASE IsSplit(e, given)
    <2>1. e.kind = "modify" /\ e.changes # <<>>
        BY <1>2 DEF IsSplit
    <2> DEFINE n == Len(e.changes)
               pieces == [i \in DOMAIN e.changes |->
                             IF e.changes[i] = Unsafe THEN <<>> ELSE <<OfField(e, e.changes[i])>>]
               T == {OfField(e, c) : c \in ToSet(e.changes)}
    <2>2. CandidatesOf(e, given) = FlattenSeq(pieces)
        BY <1>2 DEF CandidatesOf, Flat
    <2>3. /\ n \in Nat /\ DOMAIN e.changes = 1..n
          /\ \A i \in 1..n : e.changes[i] \in ToSet(e.changes) /\ e.changes[i] # Unsafe
        BY <2>1, LenProperties DEF IsEntry
    <2> HIDE DEF n
    <2>4. pieces = [i \in 1..n |-> <<OfField(e, e.changes[i])>>]
        BY <2>3
    <2> HIDE DEF pieces
    <2>5. \A i \in 1..n : OfField(e, e.changes[i]) \in T
        BY <2>3
    <2> DEFINE one(i) == OfField(e, e.changes[i])
    <2> HIDE DEF T, one
    <2>6. \A i \in 1..n : <<one(i)>> \in Seq(T) /\ ToSet(<<one(i)>>) = {one(i)}
        BY <2>5 DEF ToSet, one
    <2>7. pieces \in [1..n -> Seq(T)] /\ \A i \in 1..n : ToSet(pieces[i]) = {one(i)}
        BY <2>4, <2>6 DEF one
    <2>8. ToSet(FlattenSeq(pieces)) = UNION {ToSet(pieces[i]) : i \in 1..n}
        BY <2>3, <2>7, FlattenProperties
    <2>9. ToSet(FlattenSeq(pieces)) = {one(i) : i \in 1..n}
        BY <2>7, <2>8
    <2>10. ToSet(e.changes) = {e.changes[i] : i \in 1..n}
        BY <2>3 DEF ToSet
    <2>11. ToSet(CandidatesOf(e, given)) = T
        BY <2>2, <2>9, <2>10 DEF T, one
    <2>12. \A c : /\ OfField(e, c).key = e.key
                  /\ OfField(e, c).effect = ModifyEffect(e.before, e.after, <<c>>)
        BY DEF OfField
    <2>13. EffectsOf(e, given) = {ModifyEffect(e.before, e.after, <<c>>) : c \in ToSet(e.changes)}
        BY <1>2 DEF EffectsOf
    <2> QED
        BY <2>11, <2>12, <2>13 DEF AreCandidatesOf, T
<1> QED
    BY <1>1, <1>2

\* The changes of an entry as a difference has them.
IsProperEntry(e) ==
    /\ IsEntry(e)
    /\ e.kind = "modify" =>
          /\ Unsafe \notin ToSet(e.changes)
          /\ e.changes = ComposeChanges(<<>>, e.changes)

\* The changes of a proper modification are a bucket, in its order.
LEMMA ProperChanges ==
    ASSUME NEW e, IsProperEntry(e), e.kind = "modify"
    PROVE  IsBucket(ToSet(e.changes)) /\ e.changes = Sorted(ToSet(e.changes))
<1>1. AreAll(e.changes)
    BY DEF IsProperEntry, IsEntry, AreAll
<1>2. AreAll(<<>>)
    <2> DEFINE W == {}
    <2>1. <<>> \in Seq(W) /\ \A c \in W : IsChange(c)
        OBVIOUS
    <2> HIDE DEF W
    <2> QED
        BY <2>1 DEF AreAll
<1> DEFINE M == Merged(<<>> \o e.changes)
<1>3. IsBucket(M) /\ ComposeChanges(<<>>, e.changes) = Sorted(M)
    BY <1>1, <1>2, ComposeChangesIs
<1>4. e.changes = Sorted(M)
    BY <1>3 DEF IsProperEntry
<1> HIDE DEF M
<1>5. ToSet(Sorted(M)) = M
    BY <1>3, SortedIs
<1>6. ToSet(e.changes) = M
    BY <1>4, <1>5
<1> QED
    BY <1>3, <1>4, <1>6

\* Of changes of one difference, those that are composed are all kept.
LEMMA BucketsJoin ==
    ASSUME NEW C, IsBucket(C), NEW B, B \subseteq C, NEW D, D \subseteq C, D # {}
    PROVE  Merged(Sorted(B) \o Sorted(D)) = B \cup D
<1>1. IsBucket(B) /\ IsBucket(D)
    BY FS_Subset DEF IsBucket
<1>2. CASE \A d \in D : ArrayOp(d)
    <2>1. Merged(Sorted(B) \o Sorted(D)) = Overlaid(B, D)
        BY <1>1, <1>2, MergedOnTop
    <2>2. ASSUME NEW b \in B, b \notin D PROVE ArrayOp(b) /\ \A d \in D : b.value # d.value
        <3>1. PICK d \in D : TRUE
            OBVIOUS
        <3>2. \A x \in D : b \in C /\ x \in C /\ b # x
            BY <2>2
        <3> QED
            BY <3>1, <3>2 DEF IsBucket
    <2> QED
        BY <2>1, <2>2 DEF Overlaid
<1>3. CASE \E d \in D : ~ArrayOp(d)
    <2>1. PICK d \in D : ~ArrayOp(d)
        BY <1>3
    <2>2. \A x \in C : x = d
        BY <2>1 DEF IsBucket
    <2>3. D = {d} /\ B \cup D = {d}
        BY <2>2
    <2> QED
        BY <1>1, <2>1, <2>3, MergedScalar
<1> QED
    BY <1>2, <1>3

\* What a part of the changes of an entry makes of it.
Part(e, B) ==
    IF e.kind # "modify" THEN EntryEffect(e)
    ELSE IF B = {} THEN NoEffect
    ELSE ModifyEffect(e.before, e.after, Sorted(B))

\* What an effect changes of a unit that stays.
ChangesIn(f) == IF f.kind = "modify" THEN ToSet(f.changes) ELSE {}

\* Each effect of an entry is a part of it.
LEMMA EffectsOfEntry ==
    ASSUME NEW e, IsProperEntry(e), NEW given, NEW f \in EffectsOf(e, given)
    PROVE  /\ e.kind # "modify" => f = EntryEffect(e) /\ f.kind = e.kind
           /\ e.kind = "modify" =>
                 LET D == ChangesIn(f) IN
                 /\ D \subseteq ToSet(e.changes)
                 /\ f = ModifyEffect(e.before, e.after, Sorted(D))
                 /\ f.kind = "modify"
<1>1. CASE e.kind # "modify"
    <2>1. ~IsSplit(e, given)
        BY <1>1 DEF IsSplit
    <2>2. f = EntryEffect(e)
        BY <2>1 DEF EffectsOf
    <2>3. CASE e.kind = "add"
        BY <1>1, <2>2, <2>3, EffectsAre DEF EntryEffect
    <2>4. CASE e.kind = "remove"
        BY <1>1, <2>2, <2>4, EffectsAre DEF EntryEffect
    <2> QED
        BY <1>1, <2>3, <2>4 DEF IsProperEntry, IsEntry
<1>2. CASE e.kind = "modify"
    <2>1. IsBucket(ToSet(e.changes)) /\ e.changes = Sorted(ToSet(e.changes))
        BY <1>2, ProperChanges
    <2>2. CASE IsSplit(e, given)
        <3>1. PICK c \in ToSet(e.changes) : f = ModifyEffect(e.before, e.after, <<c>>)
            BY <2>2 DEF EffectsOf
        <3>2. IsBucket({c})
            BY <2>1, FS_Singleton DEF IsBucket
        <3>3. Sorted({c}) = <<c>> /\ ToSet(<<c>>) = {c}
            <4>1. Sorted({c}) = <<c>>
                BY <3>2, SortedSingle
            <4>2. ToSet(<<c>>) = {c}
                BY DEF ToSet
            <4> QED
                BY <4>1, <4>2
        <3>4. f.kind = "modify" /\ f.changes = <<c>>
            BY <3>1, EffectsAre
        <3>5. ChangesIn(f) = {c}
            BY <3>3, <3>4 DEF ChangesIn
        <3> QED
            BY <1>2, <3>1, <3>3, <3>4, <3>5
    <2>3. CASE ~IsSplit(e, given)
        <3>1. f = ModifyEffect(e.before, e.after, e.changes)
            BY <1>2, <2>3 DEF EffectsOf, EntryEffect
        <3>2. f.kind = "modify" /\ f.changes = e.changes
            BY <3>1, EffectsAre
        <3>3. ChangesIn(f) = ToSet(e.changes)
            BY <3>2 DEF ChangesIn
        <3> QED
            BY <1>2, <2>1, <3>1, <3>2, <3>3
    <2> QED
        BY <2>2, <2>3
<1> QED
    BY <1>1, <1>2

\* To compose one more effect onto a part makes the larger part.
LEMMA PartsJoin ==
    ASSUME NEW e, IsProperEntry(e), NEW given, NEW f \in EffectsOf(e, given),
           NEW B, e.kind = "modify" => B \subseteq ToSet(e.changes)
    PROVE  /\ Composed(NoEffect, f) = Part(e, ChangesIn(f))
           /\ Composed(Part(e, B), f) = Part(e, B \cup ChangesIn(f))
<1>1. Normalize(NoEffect) = NoEffect /\ Normalize(RemoveEffect) = RemoveEffect
      /\ \A v : Normalize(AddEffect(v)) = AddEffect(v)
    BY Settled DEF IsSettled
<1>2. CASE e.kind = "add"
    <2>1. f = AddEffect(e.value) /\ EntryEffect(e) = AddEffect(e.value)
        BY <1>2, EffectsOfEntry DEF EntryEffect
    <2>2. \A C : Part(e, C) = f
        BY <1>2, <2>1 DEF Part
    <2>3. f.kind = "add" /\ f # NoEffect /\ Normalize(f) = f
        BY <1>1, <2>1, EffectsAre
    <2>4. ComposeEffects(NoEffect, f) = f /\ ComposeEffects(f, f) = f
        BY <2>3 DEF ComposeEffects
    <2> QED
        BY <1>1, <2>2, <2>3, <2>4, ComposedIs
<1>3. CASE e.kind = "remove"
    <2>1. f = RemoveEffect /\ EntryEffect(e) = RemoveEffect
        BY <1>3, EffectsOfEntry DEF EntryEffect
    <2>2. \A C : Part(e, C) = f
        BY <1>3, <2>1 DEF Part
    <2>3. f.kind = "remove" /\ f # NoEffect /\ Normalize(f) = f
        BY <1>1, <2>1, EffectsAre
    <2>4. ComposeEffects(NoEffect, f) = f /\ ComposeEffects(f, f) = f
        BY <2>1, <2>3 DEF ComposeEffects, ThenRemove
    <2> QED
        BY <1>1, <2>2, <2>3, <2>4, ComposedIs
<1>4. CASE e.kind = "modify"
    <2> DEFINE C == ToSet(e.changes)
               D == ChangesIn(f)
               M(S) == ModifyEffect(e.before, e.after, Sorted(S))
    <2>1. IsBucket(C)
        BY <1>4, ProperChanges
    <2>2. D \subseteq C /\ f = M(D)
        BY <1>4, EffectsOfEntry
    <2>3. B \subseteq C
        BY <1>4
    <2> HIDE DEF C, D
    <2>4. ASSUME NEW S, S \subseteq C
          PROVE  /\ IsBucket(S) /\ Part(e, S) = Normalize(M(S))
                 /\ S # {} => Part(e, S) = M(S) /\ M(S) # NoEffect
        <3>1. IsBucket(S)
            BY <2>1, <2>4, FS_Subset DEF IsBucket
        <3>2. IsEffect(M(S)) /\ M(S).kind = "modify" /\ M(S).changes = Sorted(S)
              /\ M(S).before = e.before /\ M(S).after = e.after
            BY EffectsAre
        <3>3. ComposeChanges(<<>>, Sorted(S)) = Sorted(S) /\ (Sorted(S) = <<>> <=> S = {})
            BY <3>1, SortedChanges
        <3>4. Part(e, S) = IF S = {} THEN NoEffect ELSE M(S)
            BY <1>4 DEF Part
        <3>5. M(S) # NoEffect
            BY <3>2, EffectsAre
        <3> DEFINE m == M(S)
        <3> HIDE DEF m
        <3>6. Normalize(m) = IF Sorted(S) = <<>> THEN NoEffect
                             ELSE ModifyEffect(e.before, e.after, Sorted(S))
            BY <3>2, <3>3, NormalizeIs DEF m
        <3> QED
            BY <3>1, <3>3, <3>4, <3>5, <3>6 DEF m
    <2>5. Part(e, {}) = NoEffect
        BY <1>4 DEF Part
    <2>6. ASSUME NEW S, S \subseteq C
          PROVE  Normalize(Part(e, S)) = Part(e, S)
        <3>1. CASE S = {}
            BY <1>1, <2>5, <3>1
        <3>2. CASE S # {}
            BY <2>4, <2>6, <3>2
        <3> QED
            BY <3>1, <3>2
    <2>7. Composed(NoEffect, f) = Part(e, D)
        <3>1. Composed(NoEffect, f) = ComposeEffects(NoEffect, Part(e, D))
            BY <1>1, <2>2, <2>4, ComposedIs
        <3> QED
            BY <2>2, <2>6, <3>1 DEF ComposeEffects
    <2>8. Composed(Part(e, B), f) = ComposeEffects(Part(e, B), Part(e, D))
        BY <2>2, <2>3, <2>4, <2>6, ComposedIs
    <2>9. CASE B = {}
        <3>1. Composed(Part(e, B), f) = Part(e, D) /\ B \cup D = D
            BY <2>5, <2>7, <2>9
        <3> QED
            BY <2>7, <3>1 DEF D
    <2>10. CASE B # {} /\ D = {}
        <3>1. ComposeEffects(Part(e, B), Part(e, D)) = Normalize(Part(e, B))
            BY <2>3, <2>4, <2>5, <2>10 DEF ComposeEffects
        <3>2. B \cup D = B
            BY <2>10
        <3> QED
            BY <2>3, <2>6, <2>7, <2>8, <3>1, <3>2 DEF D
    <2>11. CASE B # {} /\ D # {}
        <3> DEFINE l == Part(e, B)
                   r == Part(e, D)
        <3>1. l = M(B) /\ l # NoEffect /\ r = M(D) /\ r # NoEffect
            BY <2>2, <2>3, <2>4, <2>11
        <3>2. /\ l.kind = "modify" /\ l.changes = Sorted(B) /\ l.before = e.before
              /\ r.kind = "modify" /\ r.changes = Sorted(D) /\ r.after = e.after
            BY <3>1, EffectsAre
        <3> HIDE DEF l, r
        <3>3. ComposeEffects(l, r) = ModifyTwice(l, r)
            BY <3>1, <3>2 DEF ComposeEffects
        <3>4. ComposeChanges(Sorted(B), Sorted(D)) = Sorted(B \cup D)
            BY <2>1, <2>2, <2>3, <2>11, BucketsJoin DEF ComposeChanges, Merged
        <3>5. B \cup D \subseteq C /\ B \cup D # {}
            BY <2>2, <2>3, <2>11
        <3>6. Sorted(B \cup D) # <<>>
            BY <2>4, <3>5, SortedChanges
        <3>7. ModifyTwice(l, r) = M(B \cup D)
            BY <3>2, <3>4, <3>6 DEF ModifyTwice
        <3>8. Part(e, B \cup D) = M(B \cup D)
            BY <2>4, <3>5
        <3> QED
            BY <2>7, <2>8, <3>3, <3>7, <3>8 DEF l, r, D
    <2> QED
        BY <2>9, <2>10, <2>11
<1> QED
    BY <1>2, <1>3, <1>4 DEF IsProperEntry, IsEntry

\* The candidates cs are those of the entries of p.
FromProposal(cs, p, given) ==
    /\ \A i \in DOMAIN cs : \E n \in DOMAIN p :
          cs[i].key = p[n].key /\ cs[i].effect \in EffectsOf(p[n], given)
    /\ \A n \in DOMAIN p : \A f \in EffectsOf(p[n], given) :
          \E i \in DOMAIN cs : cs[i].key = p[n].key /\ cs[i].effect = f

\* As IsProper, of the proposal p.
AreProper(p) ==
    /\ \A i, j \in DOMAIN p : p[i].key = p[j].key => i = j
    /\ \A i \in DOMAIN p : IsProperEntry(p[i])

\* What IsProper says of the entries.
LEMMA ProperEntries ==
    ASSUME proposal \in Proposal, IsProper
    PROVE  AreProper(proposal)
<1>1. /\ proposal \in Seq(ToSet(proposal))
      /\ \A e \in ToSet(proposal) : IsEntry(e)
    BY EntryType DEF IsEntry, IsChange
<1>2. \A i \in DOMAIN proposal : proposal[i] \in ToSet(proposal)
    BY DEF ToSet
<1>3. \A i \in DOMAIN proposal : IsEntry(proposal[i])
    BY <1>1, <1>2
<1>4. ASSUME NEW i \in DOMAIN proposal PROVE IsProperEntry(proposal[i])
    BY <1>3, <1>4 DEF IsProperEntry, IsProper
<1> QED
    BY <1>4 DEF IsProper, AreProper

\* The candidates are those of the entries.
LEMMA ExpandFrom ==
    ASSUME NEW p \in Proposal, NEW given, IsPossible(p, given), AreProper(p)
    PROVE  FromProposal(Expand(p, given), p, given)
<1> DEFINE cs == Expand(p, given)
<1>1. ToSet(cs) = UNION {ToSet(CandidatesOf(p[i], given)) : i \in DOMAIN p}
    BY ExpandIs
<1> HIDE DEF cs
<1>2. \A n \in DOMAIN p : AreCandidatesOf(CandidatesOf(p[n], given), p[n], given)
    BY EffectsOfCandidates DEF AreProper, IsProperEntry
<1>3. ASSUME NEW i \in DOMAIN cs
      PROVE  \E n \in DOMAIN p : cs[i].key = p[n].key /\ cs[i].effect \in EffectsOf(p[n], given)
    <2>1. cs[i] \in ToSet(cs)
        BY DEF ToSet
    <2>2. PICK n \in DOMAIN p : cs[i] \in ToSet(CandidatesOf(p[n], given))
        BY <1>1, <2>1
    <2> QED
        BY <1>2, <2>2 DEF AreCandidatesOf
<1>4. ASSUME NEW n \in DOMAIN p, NEW f \in EffectsOf(p[n], given)
      PROVE  \E i \in DOMAIN cs : cs[i].key = p[n].key /\ cs[i].effect = f
    <2>1. PICK c \in ToSet(CandidatesOf(p[n], given)) : c.key = p[n].key /\ c.effect = f
        BY <1>2 DEF AreCandidatesOf
    <2>2. c \in ToSet(cs)
        BY <1>1
    <2>3. PICK i \in DOMAIN cs : cs[i] = c
        BY <2>2 DEF ToSet
    <2> QED
        BY <2>1, <2>3
<1> QED
    BY <1>3, <1>4 DEF FromProposal, cs

\* A proper proposal as one delta, unit by unit.
LEMMA ProposedIs ==
    ASSUME AreProper(proposal), NEW k \in Key
    PROVE  /\ \A n \in DOMAIN proposal :
                proposal[n].key = k => Proposed[k] = EntryEffect(proposal[n])
           /\ (\A n \in DOMAIN proposal : proposal[n].key # k) => Proposed[k] = NoEffect
<1> DEFINE at == {i \in DOMAIN proposal : proposal[i].key = k}
<1>1. Proposed[k] = IF at = {} THEN NoEffect ELSE EntryEffect(proposal[CHOOSE i \in at : TRUE])
    BY DEF Proposed
<1>2. ASSUME NEW n \in DOMAIN proposal, proposal[n].key = k
      PROVE  Proposed[k] = EntryEffect(proposal[n])
    <2>1. at = {n}
        BY <1>2 DEF AreProper
    <2> HIDE DEF at
    <2>2. (CHOOSE i \in at : TRUE) = n
        BY <2>1
    <2> QED
        BY <1>1, <2>1, <2>2
<1> QED
    BY <1>1, <1>2

\* Nothing is refused at once.
LEMMA NothingUnsafe ==
    ASSUME NEW p \in Proposal, NEW given, AreProper(p)
    PROVE  FlattenSeq([i \in DOMAIN p |-> UnsafeOf(p[i], given)]) = <<>>
<1> DEFINE n == Len(p)
           none == {}
           pieces == [i \in DOMAIN p |-> UnsafeOf(p[i], given)]
<1>2. n \in Nat /\ DOMAIN p = 1..n
    BY EntryType, LenProperties
<1> HIDE DEF n, none
<1>3. ASSUME NEW i \in 1..n PROVE UnsafeOf(p[i], given) \in Seq(none)
    <2> DEFINE e == p[i]
    <2>1. IsProperEntry(e)
        BY <1>2 DEF AreProper
    <2> HIDE DEF e
    <2>2. CASE ~IsSplit(e, given)
        <3>1. UnsafeOf(e, given) = <<>>
            BY <2>2 DEF UnsafeOf
        <3>2. <<>> \in Seq(none)
            OBVIOUS
        <3> QED
            BY <3>1, <3>2 DEF e
    <2>3. CASE IsSplit(e, given)
        <3> DEFINE m == Len(e.changes)
                   parts == [j \in DOMAIN e.changes |->
                                IF e.changes[j] = Unsafe THEN <<e.key>> ELSE <<>>]
        <3>1. UnsafeOf(e, given) = FlattenSeq(parts)
            BY <2>3 DEF UnsafeOf, Flat
        <3>2. /\ m \in Nat /\ DOMAIN e.changes = 1..m
              /\ \A j \in 1..m : e.changes[j] \in ToSet(e.changes) /\ e.changes[j] # Unsafe
            BY <2>1, <2>3, LenProperties DEF IsProperEntry, IsEntry, IsSplit
        <3> HIDE DEF m
        <3>3. parts = [j \in 1..m |-> <<>>]
            BY <3>2
        <3> HIDE DEF parts
        <3>4. parts \in [1..m -> Seq(none)]
            BY <3>3
        <3>5. FlattenSeq(parts) \in Seq(none)
            BY <3>2, <3>4, FlattenProperties
        <3> QED
            BY <3>1, <3>5 DEF e
    <2> QED
        BY <2>2, <2>3
<1>4. pieces \in [1..n -> Seq(none)]
    BY <1>2, <1>3
<1> HIDE DEF pieces
<1>5. FlattenSeq(pieces) \in Seq(none)
    BY <1>2, <1>4, FlattenProperties
<1> DEFINE s == FlattenSeq(pieces)
<1> HIDE DEF s
<1>6. s = <<>>
    <2>1. Len(s) \in Nat /\ DOMAIN s = 1..Len(s) /\ \A j \in 1..Len(s) : s[j] \in none
        BY <1>5, LenProperties DEF s
    <2>2. Len(s) = 0
        BY <2>1 DEF none
    <2> QED
        BY <1>5, <2>2 DEF s
<1> QED
    BY <1>6 DEF s, pieces

-----------------------------------------------------------------------------
(* A proper proposal is taken part by part *)

\* The candidates of the unit k that are taken, and what they change of it.
Taken(acc, cs, k) == {i \in acc : cs[i].key = k}

TakenChanges(acc, cs, k) == UNION {ChangesIn(cs[i].effect) : i \in Taken(acc, cs, k)}

\* The effect e on k is what the candidates taken for it say in the proposal p.
IsTakenOf(e, acc, cs, p, k) ==
    LET B == TakenChanges(acc, cs, k) IN
    IF Taken(acc, cs, k) = {} THEN e = NoEffect
    ELSE \E n \in DOMAIN p :
            /\ p[n].key = k /\ e = Part(p[n], B)
            /\ p[n].kind = "modify" => B \subseteq ToSet(p[n].changes)

\* What is known of the accepted delta.
PartlyTaken ==
    /\ Finished => next = Len(candidates) + 1
    /\ IsProper => /\ next # 0 => FromProposal(candidates, proposal, policy)
                   /\ \A k \in Key : IsTakenOf(delta[k], accepted, candidates, proposal, k)

\* With one candidate more.
LEMMA TakenGrows ==
    ASSUME NEW acc, NEW cs, NEW p, NEW given, NEW d, NEW k \in Key,
           AreProper(p), FromProposal(cs, p, given), NEW i \in DOMAIN cs,
           IsTakenOf(d, acc, cs, p, k)
    PROVE  /\ cs[i].key # k => IsTakenOf(d, acc \cup {i}, cs, p, k)
           /\ cs[i].key = k => IsTakenOf(Composed(d, cs[i].effect), acc \cup {i}, cs, p, k)
<1> DEFINE more == acc \cup {i}
           B == TakenChanges(acc, cs, k)
           f == cs[i].effect
<1>1. CASE cs[i].key # k
    <2>1. Taken(more, cs, k) = Taken(acc, cs, k)
        BY <1>1 DEF Taken
    <2>2. TakenChanges(more, cs, k) = TakenChanges(acc, cs, k)
        BY <2>1 DEF TakenChanges
    <2> QED
        BY <1>1, <2>1, <2>2 DEF IsTakenOf
<1>2. CASE cs[i].key = k
    <2>1. PICK n \in DOMAIN p : p[n].key = k /\ f \in EffectsOf(p[n], given)
        BY <1>2 DEF FromProposal
    <2> DEFINE e == p[n]
    <2>2. IsProperEntry(e)
        BY DEF AreProper
    <2>3. Taken(more, cs, k) = Taken(acc, cs, k) \cup {i}
        BY <1>2 DEF Taken
    <2>4. TakenChanges(more, cs, k) = B \cup ChangesIn(f)
        BY <2>3 DEF TakenChanges
    <2>5. e.kind = "modify" => ChangesIn(f) \subseteq ToSet(e.changes)
        BY <2>1, <2>2, EffectsOfEntry
    <2>6. /\ e.kind = "modify" => B \subseteq ToSet(e.changes)
          /\ (d = NoEffect /\ B = {}) \/ d = Part(e, B)
        <3>1. CASE Taken(acc, cs, k) = {}
            BY <3>1 DEF IsTakenOf, TakenChanges
        <3>2. CASE Taken(acc, cs, k) # {}
            <4>1. PICK m \in DOMAIN p :
                     /\ p[m].key = k /\ d = Part(p[m], B)
                     /\ p[m].kind = "modify" => B \subseteq ToSet(p[m].changes)
                BY <3>2 DEF IsTakenOf
            <4>2. m = n
                BY <2>1, <4>1 DEF AreProper
            <4> QED
                BY <4>1, <4>2
        <3> QED
            BY <3>1, <3>2
    <2> DEFINE g == ChangesIn(f)
    <2>7. Composed(d, f) = Part(e, B \cup g)
        <3>1. Composed(NoEffect, f) = Part(e, g)
            BY <2>1, <2>2, <2>6, PartsJoin
        <3>2. Composed(Part(e, B), f) = Part(e, B \cup g)
            BY <2>1, <2>2, <2>6, PartsJoin
        <3>3. B = {} => B \cup g = g
            OBVIOUS
        <3> HIDE DEF B, e, f, g
        <3> QED
            BY <2>6, <3>1, <3>2, <3>3
    <2> HIDE DEF B, f, g
    <2>8. e.kind = "modify" => B \cup g \subseteq ToSet(e.changes)
        BY <2>5, <2>6 DEF g
    <2>9. Taken(more, cs, k) # {} /\ TakenChanges(more, cs, k) = B \cup g
        BY <2>3, <2>4 DEF g
    <2>10. IsTakenOf(Composed(d, f), more, cs, p, k)
        BY <2>1, <2>7, <2>8, <2>9 DEF IsTakenOf
    <2> QED
        BY <1>2, <2>10 DEF f
<1> QED
    BY <1>1, <1>2

\* It is kept by each step.
LEMMA PartlyTakenKept ==
    ASSUME Planned, PlanInv, PartlyTaken, Next
    PROVE  PartlyTaken'
<1>1. proposal' = proposal /\ policy' = policy /\ (IsProper' <=> IsProper)
    <2>1. proposal' = proposal /\ policy' = policy
        BY DEF Next, InvalidPolicy, ExpandCandidates, RefuseBlocked, RefuseConflict, Accept, Finish
    <2> QED
        BY <2>1 DEF IsProper
<1>2. next \in Nat /\ accepted \subseteq 1..(next - 1)
    BY DEF PlanInv, ReportIsLast, Planned
<1>3. CASE InvalidPolicy \/ Finish
    <2>1. UNCHANGED <<candidates, accepted, next, delta>>
          /\ (next = 0 \/ next = Len(candidates) + 1)
        BY <1>3 DEF InvalidPolicy, Finish
    <2>2. Finished' => next' = Len(candidates') + 1
        BY <2>1 DEF Finished
    <2> QED
        BY <1>1, <2>1, <2>2 DEF PartlyTaken
<1>4. CASE ExpandCandidates
    <2>1. /\ candidates' = Expand(proposal, policy) /\ next = 0 /\ next' = 1
          /\ accepted' = accepted /\ delta' = delta /\ report' = report
          /\ (policy.rules = <<>> \/ IsValid(policy))
        BY <1>4 DEF ExpandCandidates
    <2>2. report' = None
        BY <2>1 DEF PlanInv, ReportIsLast
    <2>3. accepted = {}
        BY <1>2, <2>1
    <2>4. \A cs, k : Taken({}, cs, k) = {}
        BY DEF Taken
    <2>5. ASSUME IsProper PROVE FromProposal(candidates', proposal, policy)
        BY <2>1, <2>5, ProperEntries, ExpandFrom DEF Planned
    <2>6. ASSUME IsProper, NEW k \in Key
          PROVE  IsTakenOf(delta'[k], accepted', candidates', proposal', k)
        <3>1. IsTakenOf(delta[k], accepted, candidates, proposal, k)
            BY <2>6 DEF PartlyTaken
        <3>2. delta[k] = NoEffect
            BY <2>3, <2>4, <3>1 DEF IsTakenOf
        <3> QED
            BY <2>1, <2>3, <2>4, <3>2 DEF IsTakenOf
    <2> QED
        BY <1>1, <2>1, <2>2, <2>5, <2>6 DEF PartlyTaken, Finished
<1>5. CASE RefuseBlocked \/ RefuseConflict
    <2>1. UNCHANGED <<candidates, accepted, delta>> /\ next' = next + 1
          /\ next \in DOMAIN candidates /\ report' = report /\ report = None
        BY <1>5 DEF RefuseBlocked, RefuseConflict, Considered
    <2>2. next # 0
        <3>1. PICK S : candidates \in Seq(S)
            BY DEF Planned, AreCandidates
        <3> QED
            BY <2>1, <3>1, LenProperties
    <2> QED
        BY <1>1, <2>1, <2>2 DEF PartlyTaken, Finished
<1>6. CASE Accept
    <2>1. /\ candidates' = candidates /\ next' = next + 1 /\ delta' = Tentative(next)
          /\ accepted' = accepted \cup {next} /\ next \in DOMAIN candidates
          /\ report' = report /\ report = None
        BY <1>6 DEF Accept, Considered, Tentative
    <2>2. next # 0
        <3>1. PICK S : candidates \in Seq(S)
            BY DEF Planned, AreCandidates
        <3> QED
            BY <2>1, <3>1, LenProperties
    <2>3. /\ candidates[next].key \in Key
          /\ Tentative(next)[candidates[next].key]
               = Composed(delta[candidates[next].key], candidates[next].effect)
          /\ \A k \in Key \ {candidates[next].key} : Tentative(next)[k] = delta[k]
        BY <2>1, TentativeIs DEF Planned
    <2>4. ASSUME IsProper, NEW k \in Key
          PROVE  IsTakenOf(delta'[k], accepted', candidates', proposal', k)
        <3>1. AreProper(proposal) /\ FromProposal(candidates, proposal, policy)
              /\ IsTakenOf(delta[k], accepted, candidates, proposal, k)
            BY <2>2, <2>4, ProperEntries DEF Planned, PartlyTaken
        <3>2. CASE candidates[next].key # k
            <4>1. IsTakenOf(delta[k], accepted \cup {next}, candidates, proposal, k)
                BY <2>1, <3>1, <3>2, TakenGrows
            <4>2. delta'[k] = delta[k]
                BY <2>1, <2>3, <3>2
            <4> QED
                BY <1>1, <2>1, <4>1, <4>2
        <3>3. CASE candidates[next].key = k
            <4>1. IsTakenOf(Composed(delta[k], candidates[next].effect),
                            accepted \cup {next}, candidates, proposal, k)
                BY <2>1, <3>1, <3>3, TakenGrows
            <4>2. delta'[k] = Composed(delta[k], candidates[next].effect)
                BY <2>1, <2>3, <3>3
            <4> QED
                BY <1>1, <2>1, <4>1, <4>2
        <3> QED
            BY <3>2, <3>3
    <2> QED
        BY <1>1, <2>1, <2>2, <2>4 DEF PartlyTaken, Finished
<1> QED
    BY <1>3, <1>4, <1>5, <1>6 DEF Next

\* A change of an array makes one of any value.
LEMMA ArrayChangeIs ==
    ASSUME NEW v \in Value, NEW c, IsChange(c), ArrayOp(c)
    PROVE  ApplyChange(v, c) \in Seq(Element)
<1> DEFINE s == AsArray(v)
<1>1. s \in Seq(Element)
    BY ArrayValue DEF AsArray
<1>2. AsArray(s) = s
    BY <1>1, ArraysAreArrays DEF AsArray, IsArray
<1>3. c.op \in {"append", "remove"}
    BY DEF ArrayOp
<1>4. ApplyChange(v, c) = ApplyChange(s, c)
    <2> HIDE DEF s
    <2>1. AsArray(v) = s
        BY DEF s
    <2> QED
        BY <1>2, <1>3, <2>1 DEF ApplyChange
<1> HIDE DEF s
<1> QED
    BY <1>1, <1>4, ArrayPatched

\* A list of array changes makes an array.
LEMMA ArrayMade ==
    ASSUME NEW v \in Value, NEW S, IsBucket(S), S # {}, \A c \in S : ArrayOp(c)
    PROVE  ApplyChanges(v, Sorted(S)) \notin Scalar
<1> DEFINE list == Sorted(S)
           n == Len(list)
<1>1. list \in Seq(S) /\ ToSet(list) = S /\ list # <<>>
    BY SortedIs, SortedChanges
<1> HIDE DEF list
<1>2. n \in Nat /\ DOMAIN list = 1..n /\ \A i \in 1..n : list[i] \in S
    BY <1>1, LenProperties
<1>3. \A i \in 1..n : IsChange(list[i]) /\ ArrayOp(list[i])
    BY <1>2 DEF IsBucket, IsChange
<1>4. n # 0
    BY <1>1
<1> HIDE DEF n
<1>5. PICK g : AreChanges(g, v, list, n)
    BY <1>2, ChangesRunOf
<1> DEFINE T == {i \in Nat : i <= n => g[i] \in Value /\ (i # 0 => g[i] \in Seq(Element))}
<1>6. 0 \in T
    BY <1>5 DEF AreChanges
<1>7. ASSUME NEW i \in Nat, i \in T PROVE i + 1 \in T
    <2> SUFFICES ASSUME i + 1 <= n PROVE g[i + 1] \in Seq(Element)
        BY DEF Value
    <2>1. i + 1 \in 1..n /\ i + 1 - 1 = i /\ g[i] \in Value
        BY <1>2, <1>7
    <2>2. g[i + 1] = ApplyChange(g[i], list[i + 1])
        BY <1>5, <2>1 DEF AreChanges
    <2> QED
        BY <1>3, <2>1, <2>2, ArrayChangeIs
<1> HIDE DEF T
<1>8. n \in T
    BY <1>2, <1>6, <1>7, InductionOnSet
<1>9. g[n] \in Seq(Element)
    BY <1>2, <1>4, <1>8 DEF T
<1>10. ApplyChanges(v, list) \in Seq(Element)
    BY <1>5, <1>9 DEF AreChanges
<1> QED
    BY <1>10, ArraysAreArrays DEF list

\* What is taken of an entry is of the entry's kind.
LEMMA PartFits ==
    ASSUME AreProper(proposal), NEW k \in Key, NEW e, NEW acc, NEW cs,
           IsTakenOf(e, acc, cs, proposal, k), NEW vals, Misfits(vals, Proposed[k]) = {}
    PROVE  Misfits(vals, e) = {}
<1>1. CASE e = NoEffect
    BY <1>1, EffectsAre DEF Misfits
<1>2. CASE e # NoEffect
    <2> DEFINE B == TakenChanges(acc, cs, k)
    <2>1. PICK n \in DOMAIN proposal : proposal[n].key = k /\ e = Part(proposal[n], B)
        BY <1>2 DEF IsTakenOf
    <2>2. Proposed[k] = EntryEffect(proposal[n])
        BY <2>1, ProposedIs
    <2>3. CASE proposal[n].kind # "modify"
        BY <2>1, <2>2, <2>3 DEF Part
    <2>4. CASE proposal[n].kind = "modify"
        <3> DEFINE p == Proposed[k]
        <3>1. p.kind = "modify"
            BY <2>2, <2>4, EffectsAre DEF EntryEffect
        <3>2. e.kind = "modify"
            BY <1>2, <2>1, <2>4, EffectsAre DEF Part
        <3>3. Misfits(vals, p) = {}
            OBVIOUS
        <3> HIDE DEF p
        <3> QED
            BY <3>1, <3>2, <3>3 DEF Misfits
    <2> QED
        BY <2>3, <2>4
<1> QED
    BY <1>1, <1>2

\* A value on the way is that of the base, that of the end, or an array where
\* the end has one.
LEMMA PartValues ==
    ASSUME AreProper(proposal), NEW k \in Key, NEW e, NEW acc, NEW cs,
           IsTakenOf(e, acc, cs, proposal, k),
           NEW vals, vals \subseteq Value, NEW v \in Effected(vals, e)
    PROVE  \/ e = NoEffect /\ v \in vals
           \/ v \in Effected(vals, Proposed[k])
           \/ v \notin Scalar /\ \E w \in Effected(vals, Proposed[k]) : w \notin Scalar
<1>1. CASE e = NoEffect
    BY <1>1, EffectsAre DEF Effected
<1>2. CASE e # NoEffect
    <2> DEFINE B == TakenChanges(acc, cs, k)
    <2>1. PICK n \in DOMAIN proposal :
             /\ proposal[n].key = k /\ e = Part(proposal[n], B)
             /\ proposal[n].kind = "modify" => B \subseteq ToSet(proposal[n].changes)
        BY <1>2 DEF IsTakenOf
    <2> DEFINE x == proposal[n]
               C == ToSet(x.changes)
    <2>2. Proposed[k] = EntryEffect(x) /\ IsProperEntry(x)
        BY <2>1, ProposedIs DEF AreProper
    <2>3. CASE x.kind # "modify"
        BY <2>1, <2>2, <2>3 DEF Part
    <2>4. CASE x.kind = "modify"
        <3>1. IsBucket(C) /\ x.changes = Sorted(C)
            BY <2>2, <2>4, ProperChanges
        <3>2. B # {} /\ B \subseteq C /\ e = ModifyEffect(x.before, x.after, Sorted(B))
            BY <1>2, <2>1, <2>4 DEF Part
        <3> DEFINE p == Proposed[k]
        <3>3. p = ModifyEffect(x.before, x.after, Sorted(C))
            BY <2>2, <2>4, <3>1 DEF EntryEffect
        <3>4. /\ p.kind = "modify" /\ p.changes = Sorted(C)
              /\ e.kind = "modify" /\ e.changes = Sorted(B)
            BY <3>2, <3>3, EffectsAre
        <3> HIDE DEF B, C, x, p
        <3>5. PICK u \in vals : v = ApplyChanges(u, Sorted(B))
            BY <3>4 DEF Effected
        <3>6. ApplyChanges(u, Sorted(C)) \in Effected(vals, p)
            BY <3>4 DEF Effected
        <3>7. CASE \A c \in C : ArrayOp(c)
            <4>1. IsBucket(B) /\ C # {}
                BY <3>1, <3>2, FS_Subset DEF IsBucket
            <4>2. v \notin Scalar
                BY <3>2, <3>5, <3>7, <4>1, ArrayMade
            <4>3. ApplyChanges(u, Sorted(C)) \notin Scalar
                BY <3>1, <3>7, <4>1, ArrayMade
            <4> QED
                BY <3>6, <4>2, <4>3 DEF p
        <3>8. CASE \E c \in C : ~ArrayOp(c)
            <4>1. \A b, c \in C : b = c
                BY <3>1, <3>8 DEF IsBucket
            <4>2. B = C
                BY <3>2, <4>1
            <4> QED
                BY <3>5, <3>6, <4>2 DEF p
        <3> QED
            BY <3>7, <3>8
    <2> QED
        BY <2>3, <2>4
<1> QED
    BY <1>1, <1>2

\* No semantic conflicts, value by value.
LEMMA SemanticIs ==
    ASSUME NEW u
    PROVE  SemanticConflicts(u) = {} <=>
              /\ \A k \in FinalDecision : Vals(u, k) \subseteq Answer
              /\ \A k \in Ruled : Vals(u, k) \subseteq Text
              /\ \A k \in Risk, l \in Constraint :
                    \A x \in Vals(u, k) \cap DOMAIN Level, y \in Vals(u, l) \cap DOMAIN Level :
                       ~(Level[x] > Level[y])
<1> DEFINE Of(keys) == {x \in ToSet(u) : x.key \in keys}
           levels(keys) == {x \in Of(keys) : x.value \in DOMAIN Level}
           A == {x \in Of(FinalDecision) : x.value \notin Answer}
           B == {x \in Of(Ruled) : x.value \notin Text}
           R == {x \in levels(Risk) : \E c \in levels(Constraint) :
                                         Level[x.value] > Level[c.value]}
<1>1. SemanticConflicts(u) = {<<"E_DECISION_FINAL_NO_ANSWER", x.key>> : x \in A} \cup
                             {<<"E_CONSTRAINT_RULE_EMPTY", x.key>> : x \in B} \cup
                             {<<"E_RISK_THRESHOLD_EXCEEDED", x.key>> : x \in R}
    BY DEF SemanticConflicts
<1>2. SemanticConflicts(u) = {} <=> A = {} /\ B = {} /\ R = {}
    <2> HIDE DEF A, B, R
    <2> QED
        BY <1>1
<1>3. \A k, v : v \in Vals(u, k) <=> \E x \in ToSet(u) : x.key = k /\ x.value = v
    BY DEF Vals, ToSet
<1>4. A = {} <=> \A k \in FinalDecision : Vals(u, k) \subseteq Answer
    BY <1>3
<1>5. B = {} <=> \A k \in Ruled : Vals(u, k) \subseteq Text
    BY <1>3
<1>6. R = {} <=> \A k \in Risk, l \in Constraint :
                    \A x \in Vals(u, k) \cap DOMAIN Level, y \in Vals(u, l) \cap DOMAIN Level :
                       ~(Level[x] > Level[y])
    <2>1. R = {} <=> \A x \in levels(Risk), c \in levels(Constraint) :
                        ~(Level[x.value] > Level[c.value])
        BY Zenon
    <2>2. \A keys, x : x \in levels(keys) <=> /\ x \in ToSet(u) /\ x.key \in keys
                                              /\ x.value \in DOMAIN Level
        OBVIOUS
    <2> HIDE DEF R, levels
    <2> QED
        BY <1>3, <2>1, <2>2
<1> HIDE DEF A, B, R
<1> QED
    BY <1>2, <1>4, <1>5, <1>6

\* The proposal applies to the base as a whole.
Applies == Apply(base, Proposed).conflicts = {}

\* The proposal renames no unit of the base.
LEMMA ProposedKeeps ==
    ASSUME Planned, IsProper, KeysKept(proposal)
    PROVE  KeptBy(base, Proposed)
<1>1. AreProper(proposal) /\ base \in Seq(Unit)
    BY ProperEntries, BaseType DEF Planned
<1>2. ASSUME NEW k \in Key PROVE IsSound(Proposed[k]) /\ KeepsKey(k, Proposed[k])
    <2>1. CASE \A n \in DOMAIN proposal : proposal[n].key # k
        <3>1. Proposed[k] = NoEffect
            BY <1>1, <2>1, ProposedIs
        <3> QED
            BY <3>1, Settled DEF IsSettled, KeepsKey, NoEffect
    <2>2. CASE \E n \in DOMAIN proposal : proposal[n].key = k
        <3>1. PICK n \in DOMAIN proposal : proposal[n].key = k
            BY <2>2
        <3> DEFINE x == proposal[n]
        <3>2. Proposed[k] = EntryEffect(x) /\ IsProperEntry(x) /\ KeepsKey(k, EntryEffect(x))
            BY <1>1, <3>1, ProposedIs DEF AreProper, KeysKept
        <3> HIDE DEF x
        <3>3. IsSound(EntryEffect(x))
            <4>1. CASE x.kind = "add"
                BY <4>1, EffectsAre DEF EntryEffect, IsSound
            <4>2. CASE x.kind = "remove"
                BY <4>2, EffectsAre DEF EntryEffect, IsSound
            <4>3. CASE x.kind = "modify"
                <5>1. AreAll(x.changes)
                    BY <3>2, <4>3 DEF IsProperEntry, IsEntry, AreAll
                <5>2. EntryEffect(x) = ModifyEffect(x.before, x.after, x.changes)
                    BY <4>3 DEF EntryEffect
                <5> QED
                    BY <5>1, <5>2, EffectsAre DEF IsSound
            <4> QED
                BY <3>2, <4>1, <4>2, <4>3 DEF IsProperEntry, IsEntry
        <3> QED
            BY <3>2, <3>3
    <2> QED
        BY <2>1, <2>2
<1> QED
    BY <1>1, <1>2, KeepsIsKept DEF KeptBy

\* No constraint changes.
NoConstraint == \A i \in DOMAIN proposal : proposal[i].key \notin Constraint

\* What is tried with a candidate is a part of the proposal, too.
LEMMA TentativeTaken ==
    ASSUME Planned, PartlyTaken, IsProper, next # 0, NEW i \in DOMAIN candidates
    PROVE  \A k \in Key :
              IsTakenOf(Tentative(i)[k], accepted \cup {i}, candidates, proposal, k)
<1>1. /\ candidates[i].key \in Key
      /\ Tentative(i)[candidates[i].key]
           = Composed(delta[candidates[i].key], candidates[i].effect)
      /\ \A k \in Key \ {candidates[i].key} : Tentative(i)[k] = delta[k]
    BY TentativeIs DEF Planned
<1>2. ASSUME NEW k \in Key
      PROVE  IsTakenOf(Tentative(i)[k], accepted \cup {i}, candidates, proposal, k)
    <2>1. AreProper(proposal) /\ FromProposal(candidates, proposal, policy)
          /\ IsTakenOf(delta[k], accepted, candidates, proposal, k)
        BY ProperEntries DEF Planned, PartlyTaken
    <2>2. CASE candidates[i].key # k
        <3>1. IsTakenOf(delta[k], accepted \cup {i}, candidates, proposal, k)
            BY <2>1, <2>2, TakenGrows
        <3> QED
            BY <1>1, <2>2, <3>1
    <2>3. CASE candidates[i].key = k
        <3>1. IsTakenOf(Composed(delta[k], candidates[i].effect),
                        accepted \cup {i}, candidates, proposal, k)
            BY <2>1, <2>3, TakenGrows
        <3> QED
            BY <1>1, <2>3, <3>1
    <2> QED
        BY <2>2, <2>3
<1> QED
    BY <1>2

\* What fits as a whole fits on the way.
LEMMA OnTheWayFits ==
    ASSUME Planned, PartlyTaken, IsProper, KeysKept(proposal), Applies, next # 0,
           NEW i \in DOMAIN candidates, NEW k \in Key
    PROVE  Misfits(Vals(base, k), Tentative(i)[k]) = {}
<1>1. IsTakenOf(Tentative(i)[k], accepted \cup {i}, candidates, proposal, k)
    BY TentativeTaken
<1>2. AreProper(proposal) /\ base \in Base
    BY ProperEntries DEF Planned
<1>3. Misfits(Vals(base, k), Proposed[k]) = {}
    BY <1>2, ProposedKeeps, OutcomeConflicts DEF Applies
<1> QED
    BY <1>1, <1>2, <1>3, PartFits

\* So what is tried never misfits: a conflict is one of the state.
LEMMA OwnFits ==
    ASSUME Planned, PlanInv, PartlyTaken, IsProper, KeysKept(proposal), Applies, next # 0,
           NEW i \in DOMAIN candidates
    PROVE  ConflictRule(Apply(base, Tentative(i)).conflicts) = "UNKNOWN"
<1> DEFINE rule == ConflictRule(Apply(base, Tentative(i)).conflicts)
<1>1. rule \in {"MISSING_KEY", "DUP_KEY_ADD", "UNKNOWN"}
    BY DEF ConflictRule
<1>2. ASSUME rule \in {"MISSING_KEY", "DUP_KEY_ADD"} PROVE FALSE
    <2>1. Misfits(Vals(base, candidates[i].key),
                  Composed(delta[candidates[i].key], candidates[i].effect)) # {}
        BY <1>2, OwnMisfit
    <2>2. candidates[i].key \in Key
          /\ Tentative(i)[candidates[i].key]
               = Composed(delta[candidates[i].key], candidates[i].effect)
        BY TentativeIs DEF Planned
    <2> QED
        BY <2>1, <2>2, OnTheWayFits
<1> HIDE DEF rule
<1> QED
    BY <1>1, <1>2 DEF rule

\* On a clean base, with the constraints left alone, nothing is in the way.
LEMMA NothingInTheWay ==
    ASSUME Planned, PartlyTaken, IsProper, KeysKept(proposal), Applies, next # 0,
           NEW i \in DOMAIN candidates, IsClean(base), NoConstraint
    PROVE  Apply(base, Tentative(i)).conflicts = {}
<1> DEFINE t == Tentative(i)
           acc == accepted \cup {i}
           u == Apply(base, t).units
           w == Apply(base, Proposed).units
<1>1. /\ AreProper(proposal) /\ base \in Base
      /\ \A k \in Key : IsTakenOf(t[k], acc, candidates, proposal, k)
      /\ \A k \in Key : Misfits(Vals(base, k), t[k]) = {}
    BY ProperEntries, TentativeTaken, OnTheWayFits DEF Planned
<1>2. base \in Seq(Unit)
    BY <1>1, BaseType
<1>3. IsUnits(base)
    BY <1>2, UnitsAreUnits
<1>4. SemanticConflicts(base) = {} /\ KeysUnique(base)
    <2>1. SemanticConflicts(base) = {} /\ {<<"E_DUPLICATE_KEY", k>> : k \in DuplicateKeys(base)} = {}
        BY DEF IsClean, DetectConflicts
    <2>2. \A i1 \in DOMAIN base : base[i1].key \in Key
        BY <1>3, UnitsType
    <2>3. DuplicateKeys(base) = {}
        BY <2>1
    <2> QED
        BY <2>1, <2>2, <2>3 DEF KeysUnique, DuplicateKeys
<1>5. \A k \in Key : Vals(base, k) \subseteq Value
    <2>1. \A j \in DOMAIN base : base[j] \in Unit
        BY <1>2, LenProperties
    <2>2. \A x \in Unit : x.value \in Value
        BY DEF Unit
    <2> QED
        BY <2>1, <2>2 DEF Vals
<1>16. KeptBy(base, t) /\ KeptBy(base, Proposed)
    BY TentativeKeeps, ProposedKeeps
<1>6. /\ \A k \in Key : Vals(u, k) = Effected(Vals(base, k), t[k])
      /\ Apply(base, t).conflicts
           = (UNION {{<<code, k>> : code \in Misfits(Vals(base, k), t[k])} : k \in Key})
               \cup SemanticConflicts(u)
      /\ \A k \in Key : Vals(w, k) = Effected(Vals(base, k), Proposed[k])
    BY <1>3, <1>4, <1>16, ApplyKeywise
<1>7. Apply(base, t).conflicts = SemanticConflicts(u)
    <2> DEFINE A(k) == {<<code, k>> : code \in Misfits(Vals(base, k), t[k])}
    <2>1. \A k \in Key : A(k) = {}
        BY <1>1
    <2>2. Apply(base, t).conflicts = (UNION {A(k) : k \in Key}) \cup SemanticConflicts(u)
        BY <1>6
    <2> HIDE DEF A, u
    <2> QED
        BY <2>1, <2>2
<1>8. SemanticConflicts(w) = {}
    <2>1. DetectConflicts(w) = {}
        BY OutcomeListsAll DEF Applies
    <2> QED
        BY <2>1 DEF DetectConflicts
<1> HIDE DEF u, w, t, acc
<1>9. ASSUME NEW k \in Key, NEW v \in Vals(u, k)
      PROVE  \/ v \in Vals(base, k)
             \/ v \in Vals(w, k)
             \/ v \notin Scalar /\ \E x \in Vals(w, k) : x \notin Scalar
    <2> DEFINE e == t[k]
               vals == Vals(base, k)
    <2>1. IsTakenOf(e, acc, candidates, proposal, k) /\ vals \subseteq Value
          /\ v \in Effected(vals, e) /\ AreProper(proposal)
        BY <1>1, <1>5, <1>6
    <2> HIDE DEF e, vals
    <2>2. \/ e = NoEffect /\ v \in vals
          \/ v \in Effected(vals, Proposed[k])
          \/ v \notin Scalar /\ \E x \in Effected(vals, Proposed[k]) : x \notin Scalar
        BY <2>1, PartValues
    <2> QED
        BY <1>6, <2>2 DEF vals
\* A constraint's units stay those of the base.
<1>10. ASSUME NEW k \in Constraint PROVE k \in Key /\ Vals(u, k) = Vals(base, k) /\ Vals(w, k) = Vals(base, k)
    <2>1. k \in Key
        BY Conditions
    <2>2. \A n \in DOMAIN proposal : proposal[n].key # k
        BY DEF NoConstraint
    <2>3. Proposed[k] = NoEffect
        BY <1>1, <2>1, <2>2, ProposedIs
    <2>4. t[k] = NoEffect
        BY <1>1, <2>1, <2>2 DEF IsTakenOf
    <2>5. \A vals : Effected(vals, NoEffect) = vals
        BY EffectsAre DEF Effected
    <2> QED
        BY <1>6, <2>1, <2>3, <2>4, <2>5
<1>11. /\ FinalDecision \subseteq Key /\ Ruled \subseteq Key /\ Risk \subseteq Key
       /\ Answer \subseteq Scalar /\ Text \subseteq Scalar /\ DOMAIN Level \subseteq Scalar
    BY Conditions
<1>12. /\ \A k \in FinalDecision : Vals(base, k) \subseteq Answer /\ Vals(w, k) \subseteq Answer
       /\ \A k \in Ruled : Vals(base, k) \subseteq Text /\ Vals(w, k) \subseteq Text
       /\ \A k \in Risk, l \in Constraint :
             \A x \in (Vals(base, k) \cup Vals(w, k)) \cap DOMAIN Level,
                y \in Vals(base, l) \cap DOMAIN Level :
                ~(Level[x] > Level[y])
    BY <1>4, <1>8, <1>10, SemanticIs
<1>13. /\ \A k \in FinalDecision : Vals(u, k) \subseteq Answer
       /\ \A k \in Ruled : Vals(u, k) \subseteq Text
    BY <1>9, <1>11, <1>12
<1>14. ASSUME NEW k \in Risk, NEW l \in Constraint,
              NEW x \in Vals(u, k) \cap DOMAIN Level, NEW y \in Vals(u, l) \cap DOMAIN Level
       PROVE  ~(Level[x] > Level[y])
    <2>1. x \in Vals(base, k) \cup Vals(w, k)
        BY <1>9, <1>11
    <2> QED
        BY <1>10, <1>12, <2>1
<1>15. SemanticConflicts(u) = {}
    BY <1>13, <1>14, SemanticIs
<1> QED
    BY <1>7, <1>15 DEF t

\* Of a proper proposal that applies as a whole and renames no unit, nothing is refused but for
\* conditions, and nothing at all on a clean base with its constraints left alone.
TakenAsWhole ==
    IsProper /\ KeysKept(proposal) /\ Applies =>
        /\ \A r \in ToSet(refused) : r.reason = "DEPENDENCY_BLOCKED" \/ r.rule = "UNKNOWN"
        /\ IsClean(base) /\ NoConstraint => refused = <<>>

\* It is kept by each step.
LEMMA TakenAsWholeKept ==
    ASSUME Planned, PlanInv, AllFair, PartlyTaken, TakenAsWhole, Next
    PROVE  TakenAsWhole'
<1>1. proposal' = proposal /\ base' = base /\ Proposed' = Proposed
      /\ (IsProper' <=> IsProper) /\ (KeysKept(proposal)' <=> KeysKept(proposal))
      /\ (Applies' <=> Applies) /\ (NoConstraint' <=> NoConstraint)
      /\ (IsClean(base)' <=> IsClean(base))
    <2>1. proposal' = proposal /\ base' = base
        BY DEF Next, InvalidPolicy, ExpandCandidates, RefuseBlocked, RefuseConflict, Accept, Finish
    <2>2. Proposed' = Proposed
        BY <2>1 DEF Proposed
    <2> QED
        BY <2>1, <2>2 DEF IsProper, KeysKept, Applies, NoConstraint
<1>2. CASE InvalidPolicy \/ Finish \/ Accept
    <2>1. refused' = refused
        BY <1>2 DEF InvalidPolicy, Finish, Accept
    <2> QED
        BY <1>1, <2>1 DEF TakenAsWhole
<1>3. CASE ExpandCandidates
    <2> SUFFICES ASSUME IsProper PROVE refused' = <<>>
        <3>1. refused' = <<>> => ToSet(refused') = {}
            BY DEF ToSet
        <3> QED
            BY <1>1, <3>1 DEF TakenAsWhole, ToSet
    <2> DEFINE found == Flat(proposal, LAMBDA e : UnsafeOf(e, policy))
               x(j) == [key |-> found[j], path |-> "field", op |-> "modify",
                        reason |-> "UNSAFE_PATH", rule |-> "INVARIANT_BREAK",
                        level |-> LevelFor(policy, "INVARIANT_BREAK"), candidate |-> 0]
    <2>1. refused' = [j \in DOMAIN found |-> x(j)]
        BY <1>3 DEF ExpandCandidates
    <2>2. found = <<>>
        <3>1. FlattenSeq([i \in DOMAIN proposal |-> UnsafeOf(proposal[i], policy)]) = <<>>
            BY ProperEntries, NothingUnsafe DEF Planned
        <3>2. found = FlattenSeq([i \in DOMAIN proposal |-> UnsafeOf(proposal[i], policy)])
            BY DEF Flat
        <3> QED
            BY <3>1, <3>2
    <2> HIDE DEF found, x
    <2>3. DOMAIN found = {}
        BY <2>2
    <2> QED
        BY <2>1, <2>3
<1>4. \E S : refused \in Seq(S)
    BY DEF AllFair
<1>5. ASSUME NEW r, refused' = Append(refused, r)
      PROVE  ToSet(refused)' = ToSet(refused) \cup {r}
    <2>1. PICK S : refused \in Seq(S)
        BY <1>4
    <2> DEFINE V == S \cup {r}
    <2>2. refused \in Seq(V) /\ <<r>> \in Seq(V)
        BY <2>1, SeqOfMore
    <2>3. Append(refused, r) = refused \o <<r>>
        BY <2>1
    <2>4. ToSet(refused \o <<r>>) = ToSet(refused) \cup ToSet(<<r>>)
        BY <2>2, ElementsOfConcat
    <2>5. ToSet(<<r>>) = {r}
        BY DEF ToSet
    <2>6. ToSet(refused)' = ToSet(Append(refused, r))
        BY <1>5 DEF ToSet
    <2> QED
        BY <2>3, <2>4, <2>5, <2>6
<1>6. ASSUME RefuseBlocked \/ RefuseConflict
      PROVE  next \in DOMAIN candidates /\ next \in Nat /\ next # 0
    <2>1. next \in DOMAIN candidates
        BY <1>6 DEF RefuseBlocked, RefuseConflict, Considered
    <2>2. PICK S : candidates \in Seq(S)
        BY DEF Planned, AreCandidates
    <2> QED
        BY <2>1, <2>2, LenProperties
<1>7. CASE RefuseBlocked
    <2> DEFINE r == Refusal(next, "DEPENDENCY_BLOCKED", "UNKNOWN")
    <2>1. refused' = Append(refused, r) /\ Blockers(next) # {}
        BY <1>7 DEF RefuseBlocked
    <2>2. r.rule = "UNKNOWN"
        BY DEF Refusal
    <2> HIDE DEF r
    <2>3. refused # <<>>
        <3> SUFFICES ASSUME refused = <<>> PROVE FALSE
            OBVIOUS
        <3>1. ToSet(refused) = {}
            BY DEF ToSet
        <3>2. \A j \in 1..(next - 1) : j \in accepted
            BY <3>1 DEF AllFair
        <3>3. next > 1 /\ next - 1 \notin accepted
            BY <2>1 DEF Blockers, DependsOn
        <3>4. next - 1 \in 1..(next - 1)
            BY <1>6, <1>7, <3>3
        <3> QED
            BY <3>2, <3>3, <3>4
    <2> QED
        BY <1>1, <1>5, <2>1, <2>2, <2>3 DEF TakenAsWhole
<1>8. CASE RefuseConflict
    <2> DEFINE outcome == Apply(base, Tentative(next))
               r == Refusal(next, "CONFLICT", ConflictRule(outcome.conflicts))
    <2>1. /\ outcome.conflicts \cup DetectConflicts(outcome.units) # {}
          /\ refused' = Append(refused, IF outcome.conflicts # {} THEN r
                                        ELSE Refusal(next, "POST_APPLY_CONFLICT",
                                                     "POST_APPLY_CONFLICT"))
        BY <1>8 DEF RefuseConflict
    <2>2. outcome.conflicts # {}
        <3>1. DetectConflicts(outcome.units) \subseteq outcome.conflicts
            BY OutcomeListsAll
        <3> QED
            BY <2>1, <3>1
    <2>3. refused' = Append(refused, r)
        BY <2>1, <2>2
    <2>4. r.rule = ConflictRule(outcome.conflicts)
        BY DEF Refusal
    <2> HIDE DEF r
    <2>5. IsProper /\ KeysKept(proposal) /\ Applies => r.rule = "UNKNOWN"
        BY <1>6, <1>8, <2>4, OwnFits
    <2>6. ~(IsProper /\ KeysKept(proposal) /\ Applies /\ IsClean(base) /\ NoConstraint)
        BY <1>6, <1>8, <2>2, NothingInTheWay
    <2> QED
        BY <1>1, <1>5, <2>3, <2>5, <2>6 DEF TakenAsWhole
<1> QED
    BY <1>2, <1>3, <1>7, <1>8 DEF Next

-----------------------------------------------------------------------------
(* Where the plan leads *)

\* With nothing refused, the accepted delta is the proposal, but for
\* modifications without changes.
AsIdle(e, p) == e = NoEffect /\ p.kind = "modify" /\ p.changes = <<>>

\* With all candidates, each entry is taken, with all its changes.
LEMMA EntryTaken ==
    ASSUME NEW p, NEW given, NEW cs, AreProper(p), FromProposal(cs, p, given),
           NEW n \in DOMAIN p
    PROVE  LET e == p[n]
               acc == DOMAIN cs
           IN
           /\ Taken(acc, cs, e.key) # {}
           /\ e.kind = "modify" => ToSet(e.changes) \subseteq TakenChanges(acc, cs, e.key)
<1> DEFINE e == p[n]
           acc == DOMAIN cs
           B == TakenChanges(acc, cs, e.key)
<1>1. IsProperEntry(e)
    BY DEF AreProper
<1>2. ASSUME NEW f \in EffectsOf(e, given)
      PROVE  Taken(acc, cs, e.key) # {} /\ ChangesIn(f) \subseteq B
    <2>1. PICK i \in DOMAIN cs : cs[i].key = e.key /\ cs[i].effect = f
        BY DEF FromProposal
    <2>2. i \in Taken(acc, cs, e.key)
        BY <2>1 DEF Taken
    <2> QED
        BY <2>1, <2>2 DEF TakenChanges
<1> HIDE DEF B, acc, e
<1>3. CASE ~IsSplit(e, given)
    <2>1. EntryEffect(e) \in EffectsOf(e, given)
        BY <1>3 DEF EffectsOf
    <2>2. ASSUME e.kind = "modify" PROVE ToSet(e.changes) \subseteq B
        <3>1. EntryEffect(e) = ModifyEffect(e.before, e.after, e.changes)
            BY <2>2 DEF EntryEffect
        <3>2. ChangesIn(EntryEffect(e)) = ToSet(e.changes)
            BY <3>1, EffectsAre DEF ChangesIn
        <3> QED
            BY <1>2, <2>1, <3>2
    <2> QED
        BY <1>2, <2>1, <2>2 DEF B, acc, e
<1>4. CASE IsSplit(e, given)
    <2>1. e.kind = "modify" /\ e.changes # <<>> /\ e.changes \in Seq(ToSet(e.changes))
        BY <1>1, <1>4 DEF IsSplit, IsProperEntry, IsEntry
    <2>2. \A c \in ToSet(e.changes) : ModifyEffect(e.before, e.after, <<c>>) \in EffectsOf(e, given)
        BY <1>4 DEF EffectsOf
    <2>3. ASSUME NEW c \in ToSet(e.changes) PROVE c \in B
        <3> DEFINE f == ModifyEffect(e.before, e.after, <<c>>)
        <3>1. f.kind = "modify" /\ f.changes = <<c>>
            BY EffectsAre
        <3>2. ToSet(<<c>>) = {c}
            BY DEF ToSet
        <3>3. ChangesIn(f) = {c}
            BY <3>1, <3>2 DEF ChangesIn
        <3> QED
            BY <1>2, <2>2, <3>3
    <2>4. PICK c : c \in ToSet(e.changes)
        <3>1. Len(e.changes) \in Nat /\ DOMAIN e.changes = 1..Len(e.changes) /\ Len(e.changes) # 0
            BY <2>1, LenProperties
        <3>2. 1 \in DOMAIN e.changes
            BY <3>1
        <3> QED
            BY <3>2 DEF ToSet
    <2>5. Taken(acc, cs, e.key) # {}
        BY <1>2, <2>2, <2>4
    <2> QED
        BY <2>3, <2>5 DEF B, acc, e
<1> QED
    BY <1>3, <1>4 DEF acc, e

\* The delta then differs from the proposal by idle modifications only.
LEMMA AllAreTaken ==
    ASSUME Planned, PartlyTaken, IsProper, next # 0, accepted = DOMAIN candidates,
           NEW k \in Key
    PROVE  delta[k] = Proposed[k] \/ AsIdle(delta[k], Proposed[k])
<1> DEFINE B == TakenChanges(accepted, candidates, k)
           p == proposal
<1>1. /\ AreProper(p) /\ FromProposal(candidates, p, policy)
      /\ IsTakenOf(delta[k], accepted, candidates, p, k)
    BY ProperEntries DEF Planned, PartlyTaken
<1>2. CASE \A n \in DOMAIN p : p[n].key # k
    <2>1. Proposed[k] = NoEffect
        BY <1>1, <1>2, ProposedIs
    <2>2. delta[k] = NoEffect
        BY <1>1, <1>2 DEF IsTakenOf
    <2> QED
        BY <2>1, <2>2
<1>3. CASE \E n \in DOMAIN p : p[n].key = k
    <2>1. PICK n \in DOMAIN p : p[n].key = k
        BY <1>3
    <2> DEFINE e == p[n]
    <2>2. Proposed[k] = EntryEffect(e) /\ IsProperEntry(e)
        BY <1>1, <2>1, ProposedIs DEF AreProper
    <2>3. /\ Taken(accepted, candidates, k) # {}
          /\ e.kind = "modify" => ToSet(e.changes) \subseteq B
        BY <1>1, <2>1, EntryTaken
    <2>4. /\ delta[k] = Part(e, B)
          /\ e.kind = "modify" => B \subseteq ToSet(e.changes)
        <3>1. PICK m \in DOMAIN p : /\ p[m].key = k /\ delta[k] = Part(p[m], B)
                                    /\ p[m].kind = "modify" => B \subseteq ToSet(p[m].changes)
            BY <1>1, <2>3 DEF IsTakenOf
        <3>2. m = n
            BY <1>1, <2>1, <3>1 DEF AreProper
        <3> QED
            BY <3>1, <3>2
    <2> HIDE DEF e, B
    <2>5. CASE e.kind # "modify"
        BY <2>2, <2>4, <2>5 DEF Part
    <2>6. CASE e.kind = "modify"
        <3>1. B = ToSet(e.changes)
            BY <2>3, <2>4, <2>6
        <3>2. e.changes = Sorted(B) /\ IsBucket(B)
            BY <2>2, <2>6, <3>1, ProperChanges
        <3>3. Proposed[k] = ModifyEffect(e.before, e.after, e.changes)
            BY <2>2, <2>6 DEF EntryEffect
        <3>4. CASE B = {}
            <4>1. delta[k] = NoEffect
                BY <2>4, <2>6, <3>4 DEF Part
            <4>2. e.changes = <<>>
                BY <3>2, <3>4, SortedChanges
            <4> QED
                BY <3>3, <4>1, <4>2, EffectsAre DEF AsIdle
        <3>5. CASE B # {}
            BY <2>4, <2>6, <3>2, <3>3, <3>5 DEF Part
        <3> QED
            BY <3>4, <3>5
    <2> QED
        BY <2>5, <2>6
<1> QED
    BY <1>2, <1>3

\* The units w with the changes of d made to those of the keys in S.
Patched(w, d, S) ==
    [i \in DOMAIN w |->
        [key |-> w[i].key,
         value |-> IF w[i].key \in S /\ i = At(w, w[i].key)
                   THEN ApplyChanges(w[i].value, d[w[i].key].changes)
                   ELSE w[i].value]]

\* Which units a key has depends on the keys only.
LEMMA SameAt ==
    ASSUME NEW u, NEW w, DOMAIN u = DOMAIN w, \A i \in DOMAIN w : u[i].key = w[i].key, NEW k
    PROVE  At(u, k) = At(w, k) /\ (UnitsOf(u, k) = {} <=> UnitsOf(w, k) = {})
<1>1. \A i \in DOMAIN w : (/\ u[i].key = k
                           /\ \A j \in DOMAIN u : u[j].key = k => j <= i)
                      <=> (/\ w[i].key = k
                           /\ \A j \in DOMAIN w : w[j].key = k => j <= i)
    OBVIOUS
<1>2. At(u, k) = At(w, k)
    BY <1>1, Zenon DEF At
<1> QED
    BY <1>2 DEF UnitsOf

\* The i-th unit, of key k, changed.
ChangedAt(u, i, k, changes) ==
    [u EXCEPT ![i] = [key |-> k, value |-> ApplyChanges(u[i].value, changes)]]

\* One more unit is changed.
LEMMA OnePatched ==
    ASSUME NEW w, IsUnits(w), NEW d, NEW S, NEW k \in Key, k \notin S, UnitsOf(w, k) # {}
    PROVE  LET u == Patched(w, d, S)
               i == At(u, k)
           IN  ChangedAt(u, i, k, d[k].changes) = Patched(w, d, S \cup {k})
               /\ u[i].value \in Vals(w, k)
<1> DEFINE u == Patched(w, d, S)
           i == At(w, k)
           x == Patched(w, d, S \cup {k})
           y == [u EXCEPT ![i] = [key |-> k, value |-> ApplyChanges(u[i].value, d[k].changes)]]
           New(v, key) == ApplyChanges(v, d[key].changes)
<1>1. i \in DOMAIN w /\ w[i].key = k
    BY AtIs
<1>2. DOMAIN u = DOMAIN w /\ DOMAIN x = DOMAIN w /\ \A j \in DOMAIN w : u[j].key = w[j].key
    BY DEF Patched
<1>3. At(u, k) = i
    <2> HIDE DEF u, i
    <2> QED
        BY <1>2, SameAt DEF i
<1> HIDE DEF i, New
<1>4. \A j \in DOMAIN w :
          /\ u[j] = [key |-> w[j].key,
                     value |-> IF w[j].key \in S /\ j = At(w, w[j].key)
                               THEN New(w[j].value, w[j].key) ELSE w[j].value]
          /\ x[j] = [key |-> w[j].key,
                     value |-> IF w[j].key \in S \cup {k} /\ j = At(w, w[j].key)
                               THEN New(w[j].value, w[j].key) ELSE w[j].value]
    BY DEF Patched, New
<1>5. x = [j \in DOMAIN w |-> x[j]]
    BY DEF Patched
<1>6. u[i] = [key |-> k, value |-> w[i].value]
    BY <1>1, <1>4
<1>7. x[i] = [key |-> k, value |-> New(w[i].value, k)]
    BY <1>1, <1>4 DEF i
<1>8. \A j \in DOMAIN w \ {i} : x[j] = u[j]
    BY <1>4 DEF i
<1> HIDE DEF u, x
<1>9. y = [j \in DOMAIN w |-> IF j = i
                              THEN [key |-> k, value |-> ApplyChanges(u[i].value, d[k].changes)]
                              ELSE u[j]]
    <2>1. u = [j \in DOMAIN w |-> u[j]]
        BY DEF u, Patched
    <2> QED
        BY <1>1, <1>2, <2>1
<1>10. [key |-> k, value |-> ApplyChanges(u[i].value, d[k].changes)]
          = [key |-> k, value |-> New(w[i].value, k)]
    BY <1>6 DEF New
<1>12. u[i].value \in Vals(w, k)
    BY <1>1, <1>6 DEF Vals
<1>11. y = x
    BY <1>1, <1>5, <1>7, <1>8, <1>9, <1>10
<1> QED
    BY <1>3, <1>11, <1>12 DEF u, x, y, ChangedAt

\* A run of modifications, of units of different keys, changes each of them.
ArePatches(h, w, c, d, ms, m) ==
    /\ ms \in [1..m -> Key]
    /\ \A i, j \in 1..m : ms[i] = ms[j] => i = j
    /\ \A j \in 1..m : d[ms[j]].kind = "modify" /\ Kept(Effected(Vals(w, ms[j]), d[ms[j]]), ms[j])
    /\ h[0] = [units |-> w, conflicts |-> c]
    /\ \A j \in 1..m : h[j] = Entered(h[j - 1], ms[j], d[ms[j]])

\* So the run changes them all.
LEMMA PatchesRun ==
    ASSUME NEW w, IsUnits(w), NEW d, NEW m \in Nat, NEW ms, NEW h, NEW c,
           ArePatches(h, w, c, d, ms, m)
    PROVE  h[m].units = Patched(w, d, ToSet(ms))
<1> DEFINE done(i) == {ms[j] : j \in 1..i}
           P(i) == \E b : h[i] = [units |-> Patched(w, d, done(i)), conflicts |-> b]
           T == {i \in Nat : i <= m => P(i)}
<1>8. /\ ms \in [1..m -> Key]
      /\ \A i, j \in 1..m : ms[i] = ms[j] => i = j
      /\ \A j \in 1..m : d[ms[j]].kind = "modify"
                           /\ Kept(Effected(Vals(w, ms[j]), d[ms[j]]), ms[j])
      /\ h[0] = [units |-> w, conflicts |-> c]
      /\ \A j \in 1..m : h[j] = Entered(h[j - 1], ms[j], d[ms[j]])
    BY DEF ArePatches
<1>1. PICK V : w \in Seq([key: Key, value: V])
    BY DEF IsUnits
<1>2. Patched(w, d, {}) = w
    <2> DEFINE W == [key: Key, value: V]
               x == [i \in DOMAIN w |-> [key |-> w[i].key, value |-> w[i].value]]
    <2>1. \A y \in W : [key |-> y.key, value |-> y.value] = y
        OBVIOUS
    <2>2. Patched(w, d, {}) = x
        BY DEF Patched
    <2> HIDE DEF W
    <2>6. w \in Seq(W)
        BY <1>1 DEF W
    <2>3. DOMAIN w = 1..Len(w) /\ \A i \in DOMAIN w : w[i] \in W
        BY <2>6, LenProperties
    <2>4. x = [i \in DOMAIN w |-> w[i]]
        BY <2>1, <2>3
    <2>5. w = [i \in DOMAIN w |-> w[i]]
        BY <1>1
    <2> QED
        BY <2>2, <2>4, <2>5
<1>3. 0 \in T
    <2>1. done(0) = {}
        OBVIOUS
    <2>2. h[0] = [units |-> Patched(w, d, done(0)), conflicts |-> c]
        BY <1>2, <1>8, <2>1
    <2> QED
        BY <2>2
<1>4. ASSUME NEW i \in Nat, i \in T PROVE i + 1 \in T
    <2> SUFFICES ASSUME i + 1 <= m PROVE P(i + 1)
        <3> HIDE DEF P
        <3> QED
            OBVIOUS
    <2> DEFINE k == ms[i + 1]
               S == done(i)
               u == Patched(w, d, S)
    <2>1. i + 1 \in 1..m /\ i + 1 - 1 = i /\ i <= m
        BY <1>4
    <2>2. PICK b : h[i] = [units |-> u, conflicts |-> b]
        BY <1>4, <2>1
    <2>3. k \in Key /\ d[k].kind = "modify" /\ Kept(Effected(Vals(w, k), d[k]), k)
        BY <1>8, <2>1
    <2>4. k \notin S
        <3> SUFFICES ASSUME NEW j \in 1..i, ms[j] = ms[i + 1] PROVE FALSE
            OBVIOUS
        <3>1. j \in 1..m /\ j # i + 1
            BY <2>1
        <3> QED
            BY <1>8, <2>1, <3>1
    <2>5. done(i + 1) = S \cup {k}
        <3>1. 1..(i + 1) = (1..i) \cup {i + 1}
            OBVIOUS
        <3> QED
            BY <3>1
    <2> DEFINE r == [units |-> u, conflicts |-> b]
    <2>6. h[i + 1] = Modified(r, k, d[k])
        BY <1>8, <2>1, <2>2, <2>3 DEF Entered
    <2> HIDE DEF k, S, done
    <2>7. DOMAIN u = DOMAIN w /\ \A j \in DOMAIN w : u[j].key = w[j].key
        BY DEF Patched
    <2>8. UnitsOf(u, k) = {} <=> UnitsOf(w, k) = {}
        <3> HIDE DEF u
        <3> QED
            BY <2>7, SameAt
    <2>9. CASE UnitsOf(w, k) = {}
        <3>1. \A j \in DOMAIN w : w[j].key # k
            BY <2>9 DEF UnitsOf
        <3>2. Patched(w, d, S \cup {k}) = u
            BY <3>1 DEF Patched
        <3> HIDE DEF u
        <3>3. Modified(r, k, d[k]) = [units |-> u, conflicts |-> b \cup {<<"E_MODIFY_MISSING", k>>}]
            BY <2>8, <2>9 DEF Modified, Conflict
        <3> QED
            BY <2>5, <2>6, <3>2, <3>3
    <2>10. CASE UnitsOf(w, k) # {}
        <3> DEFINE at == At(u, k)
                   x == ChangedAt(u, at, k, d[k].changes)
                   value == ApplyChanges(u[at].value, d[k].changes)
        <3>1. x = Patched(w, d, S \cup {k}) /\ u[at].value \in Vals(w, k)
            BY <2>3, <2>4, <2>10, OnePatched
        <3> HIDE DEF u
        <3>0. KeyOf(k, value) = k
            BY <2>3, <3>1 DEF Effected, Kept
        <3>2. Modified(r, k, d[k]) = [units |-> x, conflicts |-> b]
            <4>1. Modified(r, k, d[k])
                    = [r EXCEPT !.units[at] = [key |-> k, value |-> value]]
                <5> HIDE DEF at, value
                <5>1. r.units = u
                    OBVIOUS
                <5> HIDE DEF r
                <5> QED
                    BY <2>8, <2>10, <3>0, <5>1 DEF Modified, at, value
            <4> QED
                BY <4>1 DEF ChangedAt
        <3> HIDE DEF x
        <3> QED
            BY <2>5, <2>6, <3>1, <3>2
    <2> QED
        BY <2>9, <2>10
<1> HIDE DEF T
<1>5. m \in T
    BY <1>3, <1>4, InductionOnSet
<1>6. P(m)
    <2> HIDE DEF P
    <2> QED
        BY <1>5 DEF T
<1>7. done(m) = ToSet(ms)
    BY <1>8 DEF ToSet
<1> HIDE DEF done
<1> QED
    BY <1>6, <1>7

\* Modifications without changes leave the units as they are.
LEMMA SameUnits ==
    ASSUME NEW u, IsUnits(u), NEW d, NEW p,
           \A k \in Key : d[k] = p[k] \/ AsIdle(d[k], p[k]),
           KeptBy(u, d), KeptBy(u, p)
    PROVE  Apply(u, d).units = Apply(u, p).units
<1> DEFINE a == KeysWith(d, "add")
           r == KeysWith(d, "remove")
           ar == a \o r
           md == KeysWith(d, "modify")
           mp == KeysWith(p, "modify")
           n == Len(ar)
           ld == Len(md)
           lp == Len(mp)
<1>1. \A k \in Key : /\ d[k].kind = "add" <=> p[k].kind = "add"
                     /\ d[k].kind = "remove" <=> p[k].kind = "remove"
                     /\ d[k].kind = "modify" => d[k] = p[k]
                     /\ d[k].kind \in {"add", "remove"} => d[k] = p[k]
                     /\ p[k].kind = "modify" => d[k] = p[k] \/ p[k].changes = <<>>
    BY EffectsAre DEF AsIdle
<1>2. KeysWith(p, "add") = a /\ KeysWith(p, "remove") = r
    <2>1. /\ {k \in Key : p[k].kind = "add"} = {k \in Key : d[k].kind = "add"}
          /\ {k \in Key : p[k].kind = "remove"} = {k \in Key : d[k].kind = "remove"}
        BY <1>1
    <2> DEFINE L(S) == [i \in 1..Cardinality(S) |->
                           CHOOSE x \in S : Cardinality({y \in S : y < x}) = i - 1]
    <2>2. \A x, kind : KeysWith(x, kind) = L({k \in Key : x[k].kind = kind})
        BY DEF KeysWith, Listed
    <2> HIDE DEF L
    <2> QED
        BY <2>1, <2>2
<1>3. EntriesOf(d) = ar \o md /\ EntriesOf(p) = ar \o mp
    BY <1>2 DEF EntriesOf
<1>4. /\ a \in Seq(Key) /\ ToSet(a) = {k \in Key : d[k].kind = "add"}
      /\ r \in Seq(Key) /\ ToSet(r) = {k \in Key : d[k].kind = "remove"}
      /\ md \in Seq(Key) /\ ToSet(md) = {k \in Key : d[k].kind = "modify"}
      /\ \A i, j \in 1..Len(md) : md[i] = md[j] => i = j
      /\ mp \in Seq(Key) /\ ToSet(mp) = {k \in Key : p[k].kind = "modify"}
      /\ \A i, j \in 1..Len(mp) : mp[i] = mp[j] => i = j
    BY KeysWithIs
<1> HIDE DEF a, r, md, mp
<1>5. ar \in Seq(Key) /\ ToSet(ar) = ToSet(a) \cup ToSet(r)
    BY <1>4, ElementsOfConcat
<1> HIDE DEF ar
<1>6. /\ n \in Nat /\ DOMAIN ar = 1..n /\ ld \in Nat /\ DOMAIN md = 1..ld
      /\ lp \in Nat /\ DOMAIN mp = 1..lp
    BY <1>4, <1>5, LenProperties
<1>7. ASSUME NEW s \in Seq(Key)
      PROVE  /\ DOMAIN (ar \o s) = 1..(n + Len(s))
             /\ \A i \in 1..n : (ar \o s)[i] = ar[i]
             /\ \A i \in 1..Len(s) : (ar \o s)[n + i] = s[i]
    <2>1. Len(s) \in Nat
        BY LenProperties
    <2> QED
        BY <1>5, <1>6, <2>1, ConcatProperties, LenProperties
<1>8. \A i \in 1..n : ar[i] \in Key /\ d[ar[i]] = p[ar[i]] /\ d[ar[i]].kind \in {"add", "remove"}
    <2>1. \A i \in 1..n : ar[i] \in ToSet(ar)
        BY <1>6 DEF ToSet
    <2> QED
        BY <1>1, <1>4, <1>5, <2>1
<1> HIDE DEF n, ld, lp
<1>9. PICK f : IsRun(f, u, d, ar \o md, n + ld)
    <2>1. n + ld \in Nat /\ DOMAIN (ar \o md) = 1..(n + ld)
        BY <1>4, <1>6, <1>7 DEF ld
    <2> QED
        BY <2>1, RunOf
<1>10. PICK g : IsRun(g, u, p, ar \o mp, n + lp)
    <2>1. n + lp \in Nat /\ DOMAIN (ar \o mp) = 1..(n + lp)
        BY <1>4, <1>6, <1>7 DEF lp
    <2> QED
        BY <2>1, RunOf
\* Additions and removals are the same.
<1>17. PICK z : IsRun(z, u, d, ar, n)
    BY <1>6, RunOf
<1>18. Halfway(u, d, ar, n, z[n])
    <2>1. ar \in [1..n -> Key]
        BY <1>5, LenProperties DEF n
    <2>2. \A i, j \in 1..n : ar[i] = ar[j] => i = j
        <3> DEFINE all == EntriesOf(d)
        <3>1. /\ all \in Seq(Key) /\ \A i, j \in 1..Len(all) : all[i] = all[j] => i = j
              /\ DOMAIN all = 1..(n + ld) /\ \A i \in 1..n : all[i] = ar[i]
            <4> DEFINE s == ar \o md
            <4>1. all = s
                BY <1>3
            <4>2. DOMAIN s = 1..(n + Len(md)) /\ \A i \in 1..n : s[i] = ar[i]
                BY <1>4, <1>7
            <4>3. all \in Seq(Key) /\ \A i, j \in 1..Len(all) : all[i] = all[j] => i = j
                BY EntriesAre
            <4> HIDE DEF s, all
            <4> QED
                BY <4>1, <4>2, <4>3 DEF ld
        <3> HIDE DEF all
        <3>2. DOMAIN all = 1..Len(all)
            BY <3>1, LenProperties
        <3>3. \A i \in 1..n : i \in 1..(n + ld)
            BY <1>6
        <3> QED
            BY <3>1, <3>2, <3>3
    <2>3. \A i \in 1..n : d[ar[i]].kind \in {"add", "remove", "modify"}
        BY <1>8
    <2>4. Halfway(u, d, ar, n, Run(u, d, ar))
        BY <1>6, <2>1, <2>2, <2>3, RunKeywise
    <2> QED
        BY <1>17, <2>4 DEF IsRun
<1>20. \A m \in 1..n : (ar \o md)[m] = ar[m] /\ (ar \o mp)[m] = ar[m]
    <2>1. \A m \in 1..n : (ar \o md)[m] = ar[m]
        BY <1>4, <1>7
    <2>2. \A m \in 1..n : (ar \o mp)[m] = ar[m]
        BY <1>4, <1>7
    <2> QED
        BY <2>1, <2>2
<1> DEFINE T == {i \in Nat : i <= n => f[i] = z[i] /\ g[i] = z[i]}
<1>11. n \in T
    <2>1. 0 \in T
        BY <1>9, <1>10, <1>17 DEF IsRun
    <2>2. ASSUME NEW i \in Nat, i \in T PROVE i + 1 \in T
        <3> SUFFICES ASSUME i + 1 <= n PROVE f[i + 1] = z[i + 1] /\ g[i + 1] = z[i + 1]
            OBVIOUS
        <3> DEFINE q == i + 1
                   k == ar[i + 1]
        <3>1. f[i] = z[i] /\ g[i] = z[i] /\ q - 1 = i /\ ar[q] = k
              /\ q \in 1..n /\ q \in 1..(n + ld) /\ q \in 1..(n + lp)
            BY <1>6, <2>2
        <3>2. p[k] = d[k]
            BY <1>8, <3>1
        <3> HIDE DEF q, k
        <3>3. (ar \o md)[q] = k /\ (ar \o mp)[q] = k
            BY <1>20, <3>1
        <3>4. f[q] = Entered(f[i], k, d[k])
            BY <1>9, <3>1, <3>3 DEF IsRun
        <3>5. g[q] = Entered(g[i], k, p[k])
            BY <1>10, <3>1, <3>3 DEF IsRun
        <3>6. z[q] = Entered(z[i], k, d[k])
            BY <1>17, <3>1 DEF IsRun
        <3> QED
            BY <3>1, <3>2, <3>4, <3>5, <3>6 DEF q
    <2> HIDE DEF T
    <2> QED
        BY <1>6, <2>1, <2>2, InductionOnSet
<1> DEFINE w == z[n].units
           c == z[n].conflicts
<1>12. /\ IsUnits(w) /\ f[n] = [units |-> w, conflicts |-> c] /\ g[n] = [units |-> w, conflicts |-> c]
       /\ \A k \in Key \ ToSet(ar) : Vals(w, k) = Vals(u, k)
    <2>1. f[n] = z[n] /\ g[n] = z[n]
        BY <1>6, <1>11
    <2>2. ToSet(ar) = {ar[m] : m \in 1..n}
        BY <1>6 DEF ToSet
    <2>3. /\ z[n] = [units |-> z[n].units, conflicts |-> z[n].conflicts] /\ IsUnits(z[n].units)
          /\ \A k \in Key \ ToSet(ar) : Vals(z[n].units, k) = Vals(u, k)
        BY <1>18, <2>2 DEF Halfway
    <2> QED
        BY <2>1, <2>3
\* The modifications are of units that are as in the beginning.
<1>19. /\ \A k \in ToSet(md) : Kept(Effected(Vals(w, k), d[k]), k)
       /\ \A k \in ToSet(mp) : Kept(Effected(Vals(w, k), p[k]), k)
    <2>1. \A k \in ToSet(md) \cup ToSet(mp) : k \in Key \ ToSet(ar)
        BY <1>1, <1>4, <1>5
    <2> QED
        BY <1>12, <2>1 DEF KeptBy
<1> HIDE DEF w, c, T
<1>13. f[n + ld].units = Patched(w, d, ToSet(md))
    <2> DEFINE h == [j \in 0..ld |-> f[n + j]]
    <2>1. h[0] = [units |-> w, conflicts |-> c] /\ h[ld] = f[n + ld]
        BY <1>6, <1>12
    <2>2. ASSUME NEW j \in 1..ld PROVE h[j] = Entered(h[j - 1], md[j], d[md[j]])
        <3>1. n + j \in 1..(n + ld) /\ (n + j) - 1 = n + (j - 1) /\ j - 1 \in 0..ld /\ j \in 0..ld
            BY <1>6
        <3>2. (ar \o md)[n + j] = md[j]
            BY <1>4, <1>7 DEF ld
        <3>3. f[n + j] = Entered(f[(n + j) - 1], md[j], d[md[j]])
            <4> DEFINE q == n + j
            <4>1. q \in 1..(n + ld) /\ (ar \o md)[q] = md[j]
                BY <3>1, <3>2
            <4> HIDE DEF q
            <4>2. f[q] = Entered(f[q - 1], md[j], d[md[j]])
                BY <1>9, <4>1 DEF IsRun
            <4> QED
                BY <4>2 DEF q
        <3> QED
            BY <3>1, <3>3
    <2> HIDE DEF h
    <2>3. md \in [1..ld -> Key] /\ ToSet(md) = {md[j] : j \in 1..ld}
        BY <1>4, <1>6 DEF ToSet, ld
    <2>4. \A j \in 1..ld : d[md[j]].kind = "modify" /\ Kept(Effected(Vals(w, md[j]), d[md[j]]), md[j])
        BY <1>4, <1>19, <2>3
    <2>5. \A i, j \in 1..ld : md[i] = md[j] => i = j
        BY <1>4 DEF ld
    <2>6. h[ld].units = Patched(w, d, ToSet(md))
        <3>1. ArePatches(h, w, c, d, md, ld)
            BY <2>1, <2>2, <2>3, <2>4, <2>5 DEF ArePatches
        <3> QED
            BY <1>6, <1>12, <3>1, PatchesRun
    <2> QED
        BY <2>1, <2>3, <2>6
<1>14. g[n + lp].units = Patched(w, p, ToSet(mp))
    <2> DEFINE h == [j \in 0..lp |-> g[n + j]]
    <2>1. h[0] = [units |-> w, conflicts |-> c] /\ h[lp] = g[n + lp]
        BY <1>6, <1>12
    <2>2. ASSUME NEW j \in 1..lp PROVE h[j] = Entered(h[j - 1], mp[j], p[mp[j]])
        <3>1. n + j \in 1..(n + lp) /\ (n + j) - 1 = n + (j - 1) /\ j - 1 \in 0..lp /\ j \in 0..lp
            BY <1>6
        <3>2. (ar \o mp)[n + j] = mp[j]
            BY <1>4, <1>7 DEF lp
        <3>3. g[n + j] = Entered(g[(n + j) - 1], mp[j], p[mp[j]])
            <4> DEFINE q == n + j
            <4>1. q \in 1..(n + lp) /\ (ar \o mp)[q] = mp[j]
                BY <3>1, <3>2
            <4> HIDE DEF q
            <4>2. g[q] = Entered(g[q - 1], mp[j], p[mp[j]])
                BY <1>10, <4>1 DEF IsRun
            <4> QED
                BY <4>2 DEF q
        <3> QED
            BY <3>1, <3>3
    <2> HIDE DEF h
    <2>3. mp \in [1..lp -> Key] /\ ToSet(mp) = {mp[j] : j \in 1..lp}
        BY <1>4, <1>6 DEF ToSet, lp
    <2>4. \A j \in 1..lp : p[mp[j]].kind = "modify" /\ Kept(Effected(Vals(w, mp[j]), p[mp[j]]), mp[j])
        BY <1>4, <1>19, <2>3
    <2>5. \A i, j \in 1..lp : mp[i] = mp[j] => i = j
        BY <1>4 DEF lp
    <2>6. h[lp].units = Patched(w, p, ToSet(mp))
        <3>1. ArePatches(h, w, c, p, mp, lp)
            BY <2>1, <2>2, <2>3, <2>4, <2>5 DEF ArePatches
        <3> QED
            BY <1>6, <1>12, <3>1, PatchesRun
    <2> QED
        BY <2>1, <2>3, <2>6
<1>15. Patched(w, d, ToSet(md)) = Patched(w, p, ToSet(mp))
    <2> DEFINE New(e, v) == ApplyChanges(v, e[1].changes)
    <2>1. \A i \in DOMAIN w : w[i].key \in Key
        BY <1>12, UnitsType
    <2>2. ASSUME NEW k \in Key, NEW v
          PROVE  (IF k \in ToSet(md) THEN ApplyChanges(v, d[k].changes) ELSE v)
                 = IF k \in ToSet(mp) THEN ApplyChanges(v, p[k].changes) ELSE v
        <3>1. CASE k \in ToSet(md)
            <4>1. d[k] = p[k] /\ k \in ToSet(mp)
                BY <1>1, <1>4, <3>1
            <4> QED
                BY <3>1, <4>1
        <3>2. CASE k \notin ToSet(md) /\ k \in ToSet(mp)
            <4>1. p[k].changes = <<>>
                BY <1>1, <1>4, <3>2
            <4>2. ApplyChanges(v, <<>>) = v
                BY FewChanges
            <4> QED
                BY <3>2, <4>1, <4>2
        <3>3. CASE k \notin ToSet(md) /\ k \notin ToSet(mp)
            BY <3>3
        <3> QED
            BY <3>1, <3>2, <3>3
    <2>3. \A i \in DOMAIN w :
              (IF w[i].key \in ToSet(md) /\ i = At(w, w[i].key)
               THEN ApplyChanges(w[i].value, d[w[i].key].changes) ELSE w[i].value)
              = IF w[i].key \in ToSet(mp) /\ i = At(w, w[i].key)
                THEN ApplyChanges(w[i].value, p[w[i].key].changes) ELSE w[i].value
        BY <2>1, <2>2
    <2> QED
        BY <2>3, Zenon DEF Patched
<1>16. /\ f[n + ld] = Run(u, d, EntriesOf(d)) /\ g[n + lp] = Run(u, p, EntriesOf(p))
    BY <1>3, <1>9, <1>10 DEF IsRun
<1> QED
    BY <1>13, <1>14, <1>15, <1>16, ApplyIs

\* For each unit the accepted delta holds the part of the proposal's entry that
\* the accepted candidates make up; and a proposal that applies to the base is
\* refused, if at all, for conditions of the state that hold on the way
\* (expandCandidates, applyCandidateSequence).
THEOREM TakenPartByPart == Spec => [](PartlyTaken /\ TakenAsWhole)
<1>1. Init => PartlyTaken /\ TakenAsWhole
    <2> SUFFICES ASSUME Init PROVE PartlyTaken /\ TakenAsWhole
        OBVIOUS
    <2>1. accepted = {} /\ delta = Empty /\ refused = <<>> /\ next = 0 /\ report = None
        BY DEF Init
    <2>2. ~Finished
        BY <2>1 DEF Finished
    <2>3. \A k \in Key : IsTakenOf(delta[k], accepted, candidates, proposal, k)
        BY <2>1 DEF IsTakenOf, Taken, Empty
    <2>4. PartlyTaken
        BY <2>1, <2>2, <2>3 DEF PartlyTaken
    <2>5. ToSet(refused) = {}
        BY <2>1 DEF ToSet
    <2>6. TakenAsWhole
        BY <2>1, <2>5 DEF TakenAsWhole
    <2> QED
        BY <2>4, <2>6
<1>2. /\ Planned /\ AllFair /\ PlanInv /\ PartlyTaken /\ TakenAsWhole /\ [Next]_vars
      => (PartlyTaken /\ TakenAsWhole)'
    <2> SUFFICES ASSUME Planned, AllFair, PlanInv, PartlyTaken, TakenAsWhole, [Next]_vars
                 PROVE  (PartlyTaken /\ TakenAsWhole)'
        OBVIOUS
    <2>1. CASE UNCHANGED vars
        <3>1. UNCHANGED <<base, proposal, policy, candidates, next, accepted, delta, refused,
                          report>>
            BY <2>1 DEF vars
        <3>2. Proposed' = Proposed /\ (Finished' <=> Finished) /\ (IsProper' <=> IsProper)
            BY <3>1 DEF Proposed, Finished, IsProper, ToSet
        <3>3. PartlyTaken'
            BY <3>1, <3>2 DEF PartlyTaken
        <3>4. (KeysKept(proposal)' <=> KeysKept(proposal)) /\ (Applies' <=> Applies) /\ (NoConstraint' <=> NoConstraint)
              /\ (IsClean(base)' <=> IsClean(base)) /\ ToSet(refused)' = ToSet(refused)
            BY <3>1, <3>2 DEF KeysKept, Applies, NoConstraint, ToSet
        <3>5. TakenAsWhole'
            BY <3>1, <3>2, <3>4 DEF TakenAsWhole
        <3> QED
            BY <3>3, <3>5
    <2>2. CASE Next
        BY <2>2, PartlyTakenKept, TakenAsWholeKept
    <2> QED
        BY <2>1, <2>2
<1> QED
    BY <1>1, <1>2, PlanInvariant, RefusalsAreFair, PTL DEF Spec

\* A proposal that applies to the base as a whole and renames no unit is not picked
\* apart: entries are refused only for conditions that hold on the way, never when
\* the base is clean and no constraint changes; if none is refused, the plan leads where the
\* proposal leads (buildPlan, applyCandidateSequence).
THEOREM CleanProposalIsTakenAlways == Spec => []CleanProposalIsTaken
<1>1. Planned /\ AllFair /\ PlanInv /\ PartlyTaken /\ TakenAsWhole => CleanProposalIsTaken
    <2> SUFFICES ASSUME Planned, AllFair, PlanInv, PartlyTaken, TakenAsWhole,
                        Finished, IsProper, KeysKept(proposal), Applies
                 PROVE  /\ \A r \in ToSet(refused) :
                              r.reason = "DEPENDENCY_BLOCKED" \/ r.rule = "UNKNOWN"
                        /\ IsClean(base) /\ NoConstraint => refused = <<>>
                        /\ refused = <<>> =>
                              Apply(base, delta).units = Apply(base, Proposed).units
        BY DEF CleanProposalIsTaken, KeysAreKept, KeysKept, Applies, NoConstraint
    <2>1. ASSUME refused = <<>>
          PROVE  Apply(base, delta).units = Apply(base, Proposed).units
        <3>1. next = Len(candidates) + 1 /\ next \in Nat /\ next # 0
            BY DEF PartlyTaken, PlanInv, ReportIsLast, Finished
        <3>2. Len(candidates) \in Nat /\ DOMAIN candidates = 1..Len(candidates)
            <4>1. PICK S : candidates \in Seq(S)
                BY DEF Planned, AreCandidates
            <4> QED
                BY <4>1, LenProperties
        <3>3. 1..(next - 1) = DOMAIN candidates
            BY <3>1, <3>2
        <3>4. ToSet(refused) = {}
            BY <2>1 DEF ToSet
        <3>5. accepted = DOMAIN candidates
            BY <3>3, <3>4 DEF AllFair, Planned
        <3>6. \A k \in Key : delta[k] = Proposed[k] \/ AsIdle(delta[k], Proposed[k])
            BY <3>1, <3>5, AllAreTaken
        <3>7. IsUnits(base) /\ KeptBy(base, delta) /\ KeptBy(base, Proposed)
            <4>1. base \in Seq(Unit) /\ \A k \in Key : IsSound(delta[k]) /\ KeepsKey(k, delta[k])
                BY BaseType DEF Planned, KeepKeys, IsSettled
            <4> QED
                BY <4>1, UnitsAreUnits, KeepsIsKept, ProposedKeeps DEF KeptBy
        <3> QED
            BY <3>6, <3>7, SameUnits
    <2> QED
        BY <2>1 DEF TakenAsWhole
<1> QED
    BY <1>1, TakenPartByPart, PlanInvariant, RefusalsAreFair, PTL
=============================================================================
