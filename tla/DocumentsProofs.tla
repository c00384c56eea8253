--------------------------- MODULE DocumentsProofs ---------------------------
(***************************************************************************)
(* What the hashes of documents vouch for, however many documents are      *)
(* built and however often copies of them are changed. The point of the    *)
(* argument: whatever has a hash at all has that of a document that was    *)
(* built, since the steps that change a copy leave its hash; a copy that   *)
(* verifies has therefore the hashed content of a built document, and the  *)
(* content determines all but the order of the lists and the times.        *)
(***************************************************************************)
EXTENDS Documents, Induction

-----------------------------------------------------------------------------
(* Sorting *)

\* The lists that are sorted, and what is left of them at some of their places.
IsList(list) == list \in [DOMAIN list -> Int] /\ IsFiniteSet(DOMAIN list)

Size(list) == Cardinality(DOMAIN list)

LEMMA SequenceIsList ==
    ASSUME NEW S \in SUBSET Int, NEW list \in Seq(S)
    PROVE  IsList(list) /\ Size(list) = Len(list) /\ DOMAIN list = 1..Len(list)
<1>1. /\ DOMAIN list = 1..Len(list) /\ Len(list) \in Nat
      /\ list \in [1..Len(list) -> S]
    BY LenProperties
<1>2. IsFiniteSet(1..Len(list)) /\ Cardinality(1..Len(list)) = Len(list)
    BY <1>1, FS_Interval
<1>3. list \in [DOMAIN list -> Int]
    BY <1>1
<1> QED
    BY <1>1, <1>2, <1>3 DEF IsList, Size

\* How many entries of a list are less than a number, and how many not greater.
Less(list, e) == Cardinality(Lower(list, e))
AtMost(list, e) == Cardinality(UpTo(list, e))

LEMMA CountType ==
    ASSUME NEW list, IsList(list), NEW e \in Int
    PROVE  /\ Size(list) \in Nat
           /\ \A j \in DOMAIN list : list[j] \in Int
           /\ IsFiniteSet(Lower(list, e)) /\ IsFiniteSet(UpTo(list, e))
           /\ Less(list, e) \in Nat /\ AtMost(list, e) \in Nat
           /\ AtMost(list, e) <= Size(list)
           /\ Lower(list, e) \subseteq UpTo(list, e)
           /\ Less(list, e) <= AtMost(list, e)
<1>1. IsFiniteSet(DOMAIN list) /\ \A j \in DOMAIN list : list[j] \in Int
    BY DEF IsList
<1>2. /\ Lower(list, e) \subseteq UpTo(list, e)
      /\ UpTo(list, e) \subseteq DOMAIN list
    BY <1>1 DEF Lower, UpTo
<1>3. IsFiniteSet(UpTo(list, e)) /\ Cardinality(UpTo(list, e)) <= Size(list)
    BY <1>1, <1>2, FS_Subset DEF Size
<1>4. IsFiniteSet(Lower(list, e)) /\ Cardinality(Lower(list, e)) <= Cardinality(UpTo(list, e))
    BY <1>2, <1>3, FS_Subset
<1> QED
    BY <1>1, <1>2, <1>3, <1>4, FS_CardinalityType DEF Less, AtMost, Size

\* Counts grow with the number.
LEMMA CountGrows ==
    ASSUME NEW list, IsList(list), NEW e \in Int, NEW f \in Int, e < f
    PROVE  AtMost(list, e) <= Less(list, f)
<1>1. UpTo(list, e) \subseteq Lower(list, f)
    <2>1. \A j \in DOMAIN list : list[j] \in Int
        BY CountType
    <2>2. \A j \in DOMAIN list : list[j] <= e => list[j] < f
        BY <2>1
    <2> QED
        BY <2>2 DEF UpTo, Lower
<1>2. IsFiniteSet(Lower(list, f))
    BY CountType
<1> QED
    BY <1>1, <1>2, FS_Subset DEF AtMost, Less

\* An entry counts itself.
LEMMA EntryCounts ==
    ASSUME NEW list, IsList(list), NEW j \in DOMAIN list
    PROVE  list[j] \in Int /\ Less(list, list[j]) < AtMost(list, list[j])
<1>1. list[j] \in Int
    BY DEF IsList
<1>2. j \in UpTo(list, list[j]) /\ j \notin Lower(list, list[j])
    BY <1>1 DEF UpTo, Lower
<1>3. /\ Lower(list, list[j]) \subseteq UpTo(list, list[j])
      /\ IsFiniteSet(UpTo(list, list[j]))
    BY <1>1, CountType
<1>4. /\ Cardinality(Lower(list, list[j])) <= Cardinality(UpTo(list, list[j]))
      /\ Cardinality(Lower(list, list[j])) # Cardinality(UpTo(list, list[j]))
    BY <1>2, <1>3, FS_Subset
<1>5. Less(list, list[j]) \in Nat /\ AtMost(list, list[j]) \in Nat
    BY <1>1, CountType
<1> QED
    BY <1>1, <1>4, <1>5 DEF Less, AtMost

\* Of some entries of a list one is the greatest.
LEMMA GreatestEntry ==
    ASSUME NEW list, IsList(list), NEW I \in SUBSET DOMAIN list, I # {}
    PROVE  \E j \in I : \A k \in I : list[k] <= list[j]
<1> DEFINE n == Size(list)
           above(j) == n - AtMost(list, list[j])
           N == {above(j) : j \in I}
<1>1. ASSUME NEW j \in I PROVE list[j] \in Int /\ above(j) \in Nat
    <2>1. list[j] \in Int
        BY DEF IsList
    <2>2. n \in Nat /\ AtMost(list, list[j]) \in Nat /\ AtMost(list, list[j]) <= n
        BY <2>1, CountType
    <2> QED
        BY <2>1, <2>2
<1>2. PICK j \in I : \A k \in I : above(j) <= above(k)
    <2>1. N \in SUBSET Nat /\ N # {}
        BY <1>1
    <2>2. PICK m \in N : \A k \in N : m <= k
        BY <2>1, LeastNumber
    <2> QED
        BY <2>2
<1>3. ASSUME NEW k \in I, ~ (list[k] <= list[j]) PROVE FALSE
    <2>1. list[j] \in Int /\ list[k] \in Int /\ list[j] < list[k]
        BY <1>1, <1>3
    <2>2. AtMost(list, list[j]) <= Less(list, list[k])
        BY <2>1, CountGrows
    <2>3. Less(list, list[k]) < AtMost(list, list[k])
        BY EntryCounts
    <2>4. /\ AtMost(list, list[j]) \in Nat /\ AtMost(list, list[k]) \in Nat
          /\ Less(list, list[k]) \in Nat /\ n \in Nat
        BY <2>1, CountType
    <2>5. above(j) <= above(k)
        BY <1>2
    <2> QED
        BY <2>2, <2>3, <2>4, <2>5
<1> QED
    BY <1>3

\* For every place there is the entry that belongs there.
LEMMA PlaceIsTaken ==
    ASSUME NEW list, IsList(list), NEW i \in 1..Size(list)
    PROVE  \E e \in ToSet(list) : Less(list, e) < i /\ i <= AtMost(list, e)
<1> DEFINE n == Size(list)
           J == {j \in DOMAIN list : i <= AtMost(list, list[j])}
           N == {AtMost(list, list[j]) : j \in J}
<1>1. n \in Nat /\ IsFiniteSet(DOMAIN list) /\ \A j \in DOMAIN list : list[j] \in Int
    BY FS_CardinalityType DEF IsList, Size
<1>2. J # {}
    <2>0. DOMAIN list # {}
        <3>1. CASE DOMAIN list = {}
            BY <3>1, FS_EmptySet DEF Size
        <3> QED
            BY <3>1
    <2>1. PICK j \in DOMAIN list : \A k \in DOMAIN list : list[k] <= list[j]
        BY <2>0, GreatestEntry
    <2>2. UpTo(list, list[j]) = DOMAIN list
        BY <1>1, <2>1 DEF UpTo
    <2>4. AtMost(list, list[j]) = n
        BY <2>2 DEF AtMost, Size
    <2> QED
        BY <1>1, <2>4
<1>3. PICK j \in J : \A k \in J : AtMost(list, list[j]) <= AtMost(list, list[k])
    <2>1. N \in SUBSET Nat /\ N # {}
        BY <1>1, <1>2, CountType
    <2>2. PICK m \in N : \A k \in N : m <= k
        BY <2>1, LeastNumber
    <2> QED
        BY <2>2
<1> DEFINE e == list[j]
<1>4. e \in Int /\ e \in ToSet(list) /\ Less(list, e) \in Nat
    BY <1>1, CountType DEF ToSet
<1>5. ASSUME ~ (Less(list, e) < i) PROVE FALSE
    <2>1. Lower(list, e) \subseteq DOMAIN list
        BY <1>1 DEF Lower
    <2>2. Lower(list, e) # {}
        <3>1. CASE Lower(list, e) = {}
            BY <1>5, <3>1, FS_EmptySet DEF Less
        <3> QED
            BY <3>1
    <2>3. PICK k \in Lower(list, e) : \A l \in Lower(list, e) : list[l] <= list[k]
        BY <2>1, <2>2, GreatestEntry
    <2>4. k \in DOMAIN list /\ list[k] \in Int /\ list[k] < e
        BY <1>1, <2>1 DEF Lower
    <2>5. UpTo(list, list[k]) = Lower(list, e)
        BY <1>1, <1>4, <2>3, <2>4 DEF UpTo, Lower
    <2>6. AtMost(list, list[k]) = Less(list, e)
        BY <2>5 DEF AtMost, Less
    <2>7. Less(list, e) < AtMost(list, e) /\ AtMost(list, e) \in Nat
        BY <1>4, EntryCounts, CountType
    <2>8. k \in J
        BY <1>4, <1>5, <2>4, <2>6
    <2>9. AtMost(list, e) <= AtMost(list, list[k])
        BY <1>3, <2>8
    <2> QED
        BY <1>4, <2>6, <2>7, <2>9
<1> QED
    BY <1>4, <1>5

\* A sorted list has the entry that belongs there in every place.
LEMMA SortedPlaces ==
    ASSUME NEW list, IsList(list)
    PROVE  /\ Sorted(list) \in Seq(Int) /\ Len(Sorted(list)) = Size(list)
           /\ IsList(Sorted(list)) /\ Size(Sorted(list)) = Size(list)
           /\ DOMAIN Sorted(list) = 1..Size(list)
           /\ \A i \in 1..Size(list) :
                 LET e == Sorted(list)[i] IN
                 /\ e \in ToSet(list) /\ e \in Int
                 /\ Less(list, e) < i /\ i <= AtMost(list, e)
<1> DEFINE s == Sorted(list)
<1>1. Size(list) \in Nat /\ ToSet(list) \subseteq Int
    BY FS_CardinalityType DEF IsList, Size, ToSet
<1>2. ASSUME NEW i \in 1..Size(list)
      PROVE  s[i] \in ToSet(list) /\ Less(list, s[i]) < i /\ i <= AtMost(list, s[i])
    <2>1. s[i] = CHOOSE e \in ToSet(list) : Less(list, e) < i /\ i <= AtMost(list, e)
        BY <1>1 DEF Sorted, Less, AtMost, Size
    <2> HIDE DEF s
    <2>2. \E e \in ToSet(list) : Less(list, e) < i /\ i <= AtMost(list, e)
        BY PlaceIsTaken
    <2> QED
        BY <2>1, <2>2
<1>3. s \in [1..Size(list) -> Int]
    BY <1>1, <1>2 DEF Sorted, Size
<1> HIDE DEF s
<1>4. s \in Seq(Int) /\ Len(s) = Size(list)
    BY <1>1, <1>3
<1>5. IsList(s) /\ Size(s) = Size(list) /\ DOMAIN s = 1..Size(list)
    BY <1>4, SequenceIsList
<1> QED
    BY <1>1, <1>2, <1>4, <1>5 DEF s

\* Sorting keeps the counts.
LEMMA SortedCounts ==
    ASSUME NEW list, IsList(list), NEW e \in Int
    PROVE  /\ Less(Sorted(list), e) = Less(list, e)
           /\ AtMost(Sorted(list), e) = AtMost(list, e)
<1> DEFINE s == Sorted(list)
           n == Size(list)
<1>1. /\ IsList(s) /\ DOMAIN s = 1..n /\ n \in Nat
      /\ \A i \in 1..n : /\ s[i] \in Int /\ Less(list, s[i]) < i /\ i <= AtMost(list, s[i])
                         /\ Less(list, s[i]) \in Nat /\ AtMost(list, s[i]) \in Nat
    BY SortedPlaces, CountType, LenProperties
<1>2. /\ Less(list, e) \in Nat /\ AtMost(list, e) \in Nat
      /\ Less(list, e) <= AtMost(list, e) /\ AtMost(list, e) <= n
    BY CountType
<1> HIDE DEF s, n
<1>3. ASSUME NEW i \in 1..n PROVE s[i] < e <=> i <= Less(list, e)
    <2>1. CASE s[i] < e
        <3>1. AtMost(list, s[i]) <= Less(list, e)
            BY <1>1, <2>1, CountGrows
        <3> QED
            BY <1>1, <1>2, <2>1, <3>1
    <2>2. CASE s[i] = e
        BY <1>1, <1>2, <2>2
    <2>3. CASE e < s[i]
        <3>1. AtMost(list, e) <= Less(list, s[i])
            BY <1>1, <2>3, CountGrows
        <3> QED
            BY <1>1, <1>2, <2>3, <3>1
    <2> QED
        BY <1>1, <2>1, <2>2, <2>3
<1>4. ASSUME NEW i \in 1..n PROVE s[i] <= e <=> i <= AtMost(list, e)
    <2>1. CASE s[i] < e
        <3>1. AtMost(list, s[i]) <= Less(list, e)
            BY <1>1, <2>1, CountGrows
        <3> QED
            BY <1>1, <1>2, <2>1, <3>1
    <2>2. CASE s[i] = e
        BY <1>1, <1>2, <2>2
    <2>3. CASE e < s[i]
        <3>1. AtMost(list, e) <= Less(list, s[i])
            BY <1>1, <2>3, CountGrows
        <3> QED
            BY <1>1, <1>2, <2>3, <3>1
    <2> QED
        BY <1>1, <2>1, <2>2, <2>3
<1>5. Lower(s, e) = 1..Less(list, e)
    <2>1. Lower(s, e) = {i \in 1..n : i <= Less(list, e)}
        BY <1>1, <1>3 DEF Lower
    <2> QED
        BY <1>1, <1>2, <2>1
<1>6. UpTo(s, e) = 1..AtMost(list, e)
    <2>1. UpTo(s, e) = {i \in 1..n : i <= AtMost(list, e)}
        BY <1>1, <1>4 DEF UpTo
    <2> QED
        BY <1>1, <1>2, <2>1
<1>7. Less(s, e) = Less(list, e)
    <2>1. Cardinality(1..Less(list, e)) = Less(list, e)
        BY <1>2, FS_Interval
    <2> QED
        BY <1>5, <2>1 DEF Less
<1>8. AtMost(s, e) = AtMost(list, e)
    <2>1. Cardinality(1..AtMost(list, e)) = AtMost(list, e)
        BY <1>2, FS_Interval
    <2> QED
        BY <1>6, <2>1 DEF AtMost
<1> QED
    BY <1>7, <1>8 DEF s

\* What the counts say of an entry.
LEMMA EntriesByCounts ==
    ASSUME NEW list, IsList(list), NEW e \in Int
    PROVE  /\ e \in ToSet(list) <=> Less(list, e) < AtMost(list, e)
           /\ Cardinality({i \in DOMAIN list : list[i] = e})
                = AtMost(list, e) - Less(list, e)
<1> DEFINE same == {i \in DOMAIN list : list[i] = e}
<1>1. /\ IsFiniteSet(UpTo(list, e)) /\ Lower(list, e) \subseteq UpTo(list, e)
      /\ Less(list, e) \in Nat /\ AtMost(list, e) \in Nat
      /\ \A j \in DOMAIN list : list[j] \in Int
    BY CountType
<1>2. same = UpTo(list, e) \ Lower(list, e)
    BY <1>1 DEF UpTo, Lower
<1>3. UpTo(list, e) \cap Lower(list, e) = Lower(list, e)
    BY <1>1
<1>4. Cardinality(UpTo(list, e) \ Lower(list, e))
        = Cardinality(UpTo(list, e)) - Cardinality(UpTo(list, e) \cap Lower(list, e))
    BY <1>1, FS_Difference
<1>5. Cardinality(same) = AtMost(list, e) - Less(list, e)
    BY <1>2, <1>3, <1>4 DEF AtMost, Less
<1>6. CASE e \in ToSet(list)
    <2>1. PICK j \in DOMAIN list : list[j] = e
        BY <1>1, <1>6 DEF ToSet
    <2>2. Less(list, e) < AtMost(list, e)
        BY <2>1, EntryCounts
    <2> QED
        BY <1>5, <1>6, <2>2
<1>7. CASE e \notin ToSet(list)
    <2>1. UpTo(list, e) = Lower(list, e)
        BY <1>1, <1>2, <1>7 DEF ToSet
    <2> QED
        BY <1>1, <1>5, <1>7, <2>1 DEF AtMost, Less
<1> QED
    BY <1>6, <1>7

\* Sorting keeps every entry as often as it occurs.
LEMMA SortedEntries ==
    ASSUME NEW list, IsList(list)
    PROVE  /\ ToSet(Sorted(list)) = ToSet(list)
           /\ Entries(Sorted(list)) = Entries(list)
<1> DEFINE s == Sorted(list)
<1>1. IsList(s) /\ ToSet(s) \subseteq Int /\ ToSet(list) \subseteq Int
    <2>1. IsList(s)
        BY SortedPlaces
    <2> QED
        BY <2>1 DEF IsList, ToSet
<1>2. ASSUME NEW e \in Int
      PROVE  Less(s, e) = Less(list, e) /\ AtMost(s, e) = AtMost(list, e)
    BY SortedCounts
<1> HIDE DEF s
<1>3. ASSUME NEW e \in Int PROVE e \in ToSet(s) <=> e \in ToSet(list)
    BY <1>1, <1>2, EntriesByCounts
<1>4. ToSet(s) = ToSet(list)
    BY <1>1, <1>3
<1>5. ASSUME NEW e \in ToSet(list)
      PROVE  Cardinality({i \in DOMAIN s : s[i] = e})
               = Cardinality({i \in DOMAIN list : list[i] = e})
    <2>1. e \in Int
        BY <1>1
    <2>2. Cardinality({i \in DOMAIN s : s[i] = e}) = AtMost(s, e) - Less(s, e)
        BY <1>1, <2>1, EntriesByCounts
    <2>3. Cardinality({i \in DOMAIN list : list[i] = e}) = AtMost(list, e) - Less(list, e)
        BY <2>1, EntriesByCounts
    <2> QED
        BY <1>2, <2>1, <2>2, <2>3
<1>6. Entries(s) = Entries(list)
    BY <1>4, <1>5 DEF Entries
<1> QED
    BY <1>4, <1>6 DEF s

\* A list that is sorted stays as it is.
LEMMA SortedTwice ==
    ASSUME NEW list, IsList(list)
    PROVE  Sorted(Sorted(list)) = Sorted(list)
<1> DEFINE s == Sorted(list)
<1>1. Size(s) = Size(list) /\ ToSet(list) \subseteq Int
    BY SortedPlaces DEF ToSet, IsList
<1>2. ToSet(s) = ToSet(list)
    BY SortedEntries
<1>3. \A e \in Int : Less(s, e) = Less(list, e) /\ AtMost(s, e) = AtMost(list, e)
    BY SortedCounts
<1> DEFINE place(l, i) ==
               CHOOSE e \in ToSet(l) : Less(l, e) < i /\ i <= AtMost(l, e)
<1>4. s = [i \in 1..Size(list) |-> place(list, i)]
    BY DEF Sorted, Less, AtMost, Size
<1>5. Sorted(s) = [i \in 1..Size(s) |-> place(s, i)]
    BY DEF Sorted, Less, AtMost, Size
<1> HIDE DEF s
<1>6. ASSUME NEW i PROVE place(s, i) = place(list, i)
    <2>1. \A e \in ToSet(list) : (Less(s, e) < i /\ i <= AtMost(s, e))
                                   <=> (Less(list, e) < i /\ i <= AtMost(list, e))
        BY <1>1, <1>3
    <2> QED
        BY <1>2, <2>1
<1> QED
    BY <1>1, <1>4, <1>5, <1>6 DEF s

\* What the normalisers sort are lists, and sorted they stay as they are.
LEMMA TextsAreList ==
    ASSUME NEW list \in Seq(Text \cup {Other})
    PROVE  IsList(Texts(list))
<1>1. IsFiniteSet(1..Len(list)) /\ DOMAIN list = 1..Len(list)
    BY LenProperties, FS_Interval
<1>2. {j \in DOMAIN list : list[j] \in Text} \subseteq 1..Len(list)
    BY <1>1
<1>3. IsFiniteSet({j \in DOMAIN list : list[j] \in Text})
    BY <1>1, <1>2, FS_Subset
<1> DEFINE I == {j \in DOMAIN list : list[j] \in Text}
           f == Texts(list)
<1>4. f = [i \in I |-> list[i]] /\ \A i \in I : list[i] \in Int
    BY DocumentsAssumption DEF Texts
<1>5. IsFiniteSet(I)
    BY <1>3
<1> HIDE DEF I, f
<1>6. f \in [I -> Int] /\ DOMAIN f = I
    BY <1>4
<1> QED
    BY <1>5, <1>6 DEF IsList, f

LEMMA MendedIsList ==
    ASSUME NEW list \in Seq(Action)
    PROVE  /\ IsList(list) /\ IsList(Mended(list)) /\ Mended(list) \in Seq(Action)
           /\ Sorted(Mended(list)) \in Seq(Action)
           /\ Mended(Sorted(Mended(list))) = Sorted(Mended(list))
           /\ ToSet(Sorted(Mended(list))) \cap Unfit = {}
<1> DEFINE m == Mended(list)
           s == Sorted(m)
<1>1. /\ IsList(list) /\ DOMAIN list = 1..Len(list) /\ Len(list) \in Nat
      /\ \A i \in 1..Len(list) : list[i] \in Action
    BY SequenceIsList, LenProperties, ElementOfSeq, DocumentsAssumption
<1>2. /\ m = [i \in 1..Len(list) |-> Mend[list[i]]]
      /\ \A i \in 1..Len(list) : /\ Mend[list[i]] \in Action
                                 /\ Mend[Mend[list[i]]] = Mend[list[i]]
                                 /\ Mend[list[i]] \notin Unfit
    BY <1>1, DocumentsAssumption DEF Mended
<1> HIDE DEF m
<1>3. m \in [1..Len(list) -> Action]
    BY <1>2
<1>4. m \in Seq(Action)
    BY <1>1, <1>3
<1>5. IsList(m) /\ DOMAIN m = 1..Len(list)
    BY <1>3, <1>4, SequenceIsList, DocumentsAssumption
<1>6. \A e \in ToSet(m) : e \in Action /\ Mend[e] = e /\ e \notin Unfit
    BY <1>2, <1>3 DEF ToSet
<1>7. /\ s \in Seq(Int) /\ DOMAIN s = 1..Size(m) /\ Len(s) = Size(m)
      /\ \A i \in 1..Size(m) : s[i] \in ToSet(m)
    BY <1>5, SortedPlaces
<1>8. Size(m) \in Nat
    BY <1>5, FS_CardinalityType DEF IsList, Size
<1> HIDE DEF s
<1>9. s = [i \in 1..Size(m) |-> s[i]]
    BY <1>7, LenProperties
<1>10. s \in [1..Size(m) -> Action]
    BY <1>6, <1>7, <1>9
<1>11. s \in Seq(Action)
    BY <1>8, <1>10
<1>12. Mended(s) = [i \in 1..Size(m) |-> Mend[s[i]]]
    BY <1>7 DEF Mended
<1>13. Mended(s) = s
    BY <1>6, <1>7, <1>9, <1>12
<1>14. ToSet(s) \cap Unfit = {}
    BY <1>6, <1>7 DEF ToSet
<1> QED
    BY <1>1, <1>4, <1>5, <1>11, <1>13, <1>14 DEF m, s

-----------------------------------------------------------------------------
(* Documents by their schemas *)

\* What the trunk of a copy may hold.
Entry == Text \cup {Other}

IsTransfer(t) ==
    /\ t = [schema |-> "transfer-package-1", identity |-> t.identity,
            closure |-> t.closure, report |-> t.report, record |-> t.record,
            trunk |-> t.trunk, actions |-> t.actions, hash |-> t.hash]
    /\ t.trunk \in Seq(Entry) /\ t.actions \in Seq(Action)

IsLineage(l) ==
    l = [schema |-> "lineage-binding-1", identity |-> l.identity,
         transfer |-> l.transfer, closure |-> l.closure, execution |-> l.execution,
         handoff |-> l.handoff, missing |-> l.missing, createdAt |-> l.createdAt,
         hash |-> l.hash]

IsHandoff(h) ==
    /\ h = [schema |-> "handoff-record-1", identity |-> h.identity,
            transfer |-> h.transfer, closure |-> h.closure, report |-> h.report,
            record |-> h.record, trunk |-> h.trunk, actions |-> h.actions,
            recomputed |-> h.recomputed, matches |-> h.matches, lineage |-> h.lineage,
            createdAt |-> h.createdAt, hash |-> h.hash]
    /\ h.trunk \in Seq(Entry) /\ h.actions \in Seq(Action)
    /\ IsLineage(h.lineage)

IsBundle(b) ==
    /\ b = [schema |-> "artifact-bundle-1", identity |-> b.identity,
            package |-> b.package, transfer |-> b.transfer, lineage |-> b.lineage,
            handoff |-> b.handoff, invariants |-> b.invariants, notes |-> b.notes,
            createdAt |-> b.createdAt, hash |-> b.hash]
    /\ b.invariants = [transferMatchesLineage |-> b.invariants.transferMatchesLineage,
                       embeddedMatchesTop |-> b.invariants.embeddedMatchesTop,
                       noHandoffInLineage |-> b.invariants.noHandoffInLineage]
    /\ b.notes \in Seq(Int)
    /\ IsTransfer(b.transfer) /\ IsLineage(b.lineage) /\ IsHandoff(b.handoff)

IsDocument(d) == IsTransfer(d) \/ IsLineage(d) \/ IsHandoff(d) \/ IsBundle(d)

\* A document's schema tells what it is, and how it is verified.
LEMMA SchemaTells ==
    ASSUME NEW d, IsDocument(d)
    PROVE  /\ d.schema = "transfer-package-1" <=> IsTransfer(d)
           /\ d.schema = "lineage-binding-1"  <=> IsLineage(d)
           /\ d.schema = "handoff-record-1"   <=> IsHandoff(d)
           /\ d.schema = "artifact-bundle-1"  <=> IsBundle(d)
<1>1. /\ IsTransfer(d) => d.schema = "transfer-package-1"
      /\ IsLineage(d) => d.schema = "lineage-binding-1"
      /\ IsHandoff(d) => d.schema = "handoff-record-1"
      /\ IsBundle(d) => d.schema = "artifact-bundle-1"
    BY DEF IsTransfer, IsLineage, IsHandoff, IsBundle
<1> QED
    BY <1>1 DEF IsDocument

LEMMA VerifiedBySchema ==
    ASSUME NEW d, IsDocument(d)
    PROVE  /\ IsTransfer(d) => (Matches(d) <=> TransferMatches(d))
           /\ IsLineage(d) => (Matches(d) <=> LineageMatches(d))
           /\ IsHandoff(d) => (Matches(d) <=> HandoffMatches(d))
           /\ IsBundle(d) => (Matches(d) <=> BundleMatches(d))
<1>1. CASE IsTransfer(d)
    <2>1. d.schema = "transfer-package-1"
        BY <1>1, SchemaTells
    <2>2. Matches(d) <=> TransferMatches(d)
        BY <2>1 DEF Matches
    <2> QED
        BY <2>1, <2>2, SchemaTells
<1>2. CASE IsLineage(d)
    <2>1. d.schema = "lineage-binding-1"
        BY <1>2, SchemaTells
    <2>2. Matches(d) <=> LineageMatches(d)
        BY <2>1 DEF Matches
    <2> QED
        BY <2>1, <2>2, SchemaTells
<1>3. CASE IsHandoff(d)
    <2>1. d.schema = "handoff-record-1"
        BY <1>3, SchemaTells
    <2>2. Matches(d) <=> HandoffMatches(d)
        BY <2>1 DEF Matches
    <2> QED
        BY <2>1, <2>2, SchemaTells
<1>4. CASE IsBundle(d)
    <2>1. d.schema = "artifact-bundle-1"
        BY <1>4, SchemaTells
    <2>2. Matches(d) <=> BundleMatches(d)
        BY <2>1 DEF Matches
    <2> QED
        BY <2>1, <2>2, SchemaTells
<1> QED
    BY <1>1, <1>2, <1>3, <1>4 DEF IsDocument

\* Hashes tell contents apart.
LEMMA ShaIsInjective ==
    ASSUME NEW x, NEW y
    PROVE  /\ Sha(x) = Sha(y) => x = y
           /\ Sha(x) # NoHash
<1>1. Sha(x).sha = x /\ Sha(y).sha = y
    BY DEF Sha
<1>2. DOMAIN Sha(x) = {"sha"} /\ DOMAIN NoHash = {"none"}
    BY DEF Sha, NoHash
<1>3. "sha" # "none"
    OBVIOUS
<1> QED
    BY <1>1, <1>2, <1>3

-----------------------------------------------------------------------------
(* The hashed contents, written out *)

LEMMA TransferContentIs ==
    ASSUME NEW t, IsTransfer(t)
    PROVE  TransferContent(t) =
             [schema |-> "transfer-package-1", identity |-> AsIdentity(t.identity),
              closure |-> t.closure, report |-> AsText(t.report),
              record |-> AsText(t.record), trunk |-> Sorted(Texts(t.trunk)),
              actions |-> Sorted(Mended(t.actions)), hash |-> None]
<1> DEFINE q == TransferContent(t)
<1>1. PICK id, cl, re, rc, tr, ac, ha :
           t = [schema |-> "transfer-package-1", identity |-> id,
                closure |-> cl, report |-> re, record |-> rc, trunk |-> tr,
                actions |-> ac, hash |-> ha]
    BY DEF IsTransfer
<1>2. /\ t.identity = id /\ t.closure = cl /\ t.report = re /\ t.record = rc /\ t.trunk = tr
      /\ t.actions = ac /\ t.hash = ha
    BY <1>1
<1>3. PICK i, x, y, k, l :
           /\ i = AsIdentity(t.identity) /\ x = AsText(t.report) /\ y = AsText(t.record)
           /\ k = Sorted(Texts(t.trunk)) /\ l = Sorted(Mended(t.actions))
    OBVIOUS
<1>4. q = [t EXCEPT !.identity = i, !.report = x, !.record = y, !.trunk = k,
                    !.actions = l, !.hash = None]
    BY <1>3 DEF TransferContent
<1> HIDE DEF q
<1>5. q = [schema |-> "transfer-package-1", identity |-> i, closure |-> cl,
           report |-> x, record |-> y, trunk |-> k, actions |-> l, hash |-> None]
    BY <1>1, <1>4
<1> QED
    BY <1>2, <1>3, <1>5 DEF q

LEMMA LineageContentIs ==
    ASSUME NEW l, IsLineage(l)
    PROVE  LineageContent(l) =
             [schema |-> "lineage-binding-1", identity |-> l.identity,
              transfer |-> l.transfer, closure |-> l.closure, execution |-> l.execution,
              handoff |-> l.handoff, missing |-> Missing(l), createdAt |-> None,
              hash |-> None]
<1> DEFINE q == LineageContent(l)
<1>1. PICK id, tp, cl, ex, hd, mi, ca, ha :
           l = [schema |-> "lineage-binding-1", identity |-> id,
                transfer |-> tp, closure |-> cl, execution |-> ex,
                handoff |-> hd, missing |-> mi, createdAt |-> ca, hash |-> ha]
    BY DEF IsLineage
<1>2. /\ l.identity = id /\ l.transfer = tp /\ l.closure = cl /\ l.execution = ex
      /\ l.handoff = hd /\ l.missing = mi /\ l.createdAt = ca /\ l.hash = ha
    BY <1>1
<1>3. q = [l EXCEPT !.missing = Missing(l), !.createdAt = None, !.hash = None]
    BY <1>2 DEF LineageContent
<1> HIDE DEF q
<1>4. q = [schema |-> "lineage-binding-1", identity |-> id, transfer |-> tp,
           closure |-> cl, execution |-> ex, handoff |-> hd,
           missing |-> Missing(l), createdAt |-> None, hash |-> None]
    BY <1>1, <1>2, <1>3
<1> QED
    BY <1>2, <1>4 DEF q

LEMMA EmbeddedIs ==
    ASSUME NEW l, IsLineage(l)
    PROVE  Embedded(l) =
             [schema |-> "lineage-binding-1", identity |-> l.identity,
              transfer |-> l.transfer, closure |-> l.closure, execution |-> l.execution,
              handoff |-> l.handoff, missing |-> l.missing, createdAt |-> None,
              hash |-> l.hash]
<1> DEFINE q == Embedded(l)
<1>1. PICK id, tp, cl, ex, hd, mi, ca, ha :
           l = [schema |-> "lineage-binding-1", identity |-> id,
                transfer |-> tp, closure |-> cl, execution |-> ex,
                handoff |-> hd, missing |-> mi, createdAt |-> ca, hash |-> ha]
    BY DEF IsLineage
<1>2. /\ l.identity = id /\ l.transfer = tp /\ l.closure = cl /\ l.execution = ex
      /\ l.handoff = hd /\ l.missing = mi /\ l.createdAt = ca /\ l.hash = ha
    BY <1>1
<1>3. q = [l EXCEPT !.createdAt = None]
    BY <1>2 DEF Embedded
<1> HIDE DEF q
<1>4. q = [schema |-> "lineage-binding-1", identity |-> id, transfer |-> tp,
           closure |-> cl, execution |-> ex, handoff |-> hd, missing |-> mi,
           createdAt |-> None, hash |-> ha]
    BY <1>1, <1>2, <1>3
<1> QED
    BY <1>2, <1>4 DEF q

LEMMA HandoffContentIs ==
    ASSUME NEW h, IsHandoff(h)
    PROVE  HandoffContent(h) =
             [schema |-> "handoff-record-1", identity |-> h.identity,
              transfer |-> h.transfer, closure |-> h.closure,
              report |-> AsText(h.report), record |-> AsText(h.record),
              trunk |-> h.trunk, actions |-> Sorted(Mended(h.actions)),
              recomputed |-> h.recomputed, matches |-> h.matches,
              lineage |-> Embedded(h.lineage), createdAt |-> None, hash |-> None]
<1> DEFINE n == Normal(h)
           q == HandoffContent(h)
<1>1. PICK id, tp, cl, re, rc, tr, ac, rh, ma, li, ca, ha :
           h = [schema |-> "handoff-record-1", identity |-> id, transfer |-> tp,
                closure |-> cl, report |-> re, record |-> rc, trunk |-> tr,
                actions |-> ac, recomputed |-> rh, matches |-> ma,
                lineage |-> li, createdAt |-> ca, hash |-> ha]
    BY DEF IsHandoff
<1>2. /\ h.identity = id /\ h.transfer = tp /\ h.closure = cl /\ h.report = re /\ h.record = rc
      /\ h.trunk = tr /\ h.actions = ac /\ h.recomputed = rh /\ h.matches = ma /\ h.lineage = li
      /\ h.createdAt = ca /\ h.hash = ha
    BY <1>1
<1>3. PICK x, y, l : x = AsText(h.report) /\ y = AsText(h.record) /\ l = Sorted(Mended(h.actions))
    OBVIOUS
<1>4. n = [h EXCEPT !.report = x, !.record = y, !.actions = l]
    BY <1>3 DEF Normal
<1>5. q = [n EXCEPT !.lineage = Embedded(n.lineage), !.createdAt = None, !.hash = None]
    BY DEF HandoffContent
<1> HIDE DEF n, q
<1>6. n = [schema |-> "handoff-record-1", identity |-> id, transfer |-> tp,
           closure |-> cl, report |-> x, record |-> y, trunk |-> tr,
           actions |-> l, recomputed |-> rh, matches |-> ma,
           lineage |-> li, createdAt |-> ca, hash |-> ha]
    BY <1>1, <1>4
<1>7. q = [schema |-> "handoff-record-1", identity |-> id, transfer |-> tp,
           closure |-> cl, report |-> x, record |-> y, trunk |-> tr,
           actions |-> l, recomputed |-> rh, matches |-> ma,
           lineage |-> Embedded(li), createdAt |-> None, hash |-> None]
    BY <1>5, <1>6
<1> QED
    BY <1>2, <1>3, <1>7 DEF q

LEMMA HandoffCloneIs ==
    ASSUME NEW h, IsHandoff(h)
    PROVE  HandoffClone(h) =
             [schema |-> "handoff-record-1", identity |-> h.identity,
              transfer |-> h.transfer, closure |-> h.closure, report |-> h.report,
              record |-> h.record, trunk |-> h.trunk, actions |-> h.actions,
              recomputed |-> h.recomputed, matches |-> h.matches,
              lineage |-> Embedded(h.lineage), createdAt |-> None, hash |-> h.hash]
<1> DEFINE q == HandoffClone(h)
<1>1. PICK id, tp, cl, re, rc, tr, ac, rh, ma, li, ca, ha :
           h = [schema |-> "handoff-record-1", identity |-> id, transfer |-> tp,
                closure |-> cl, report |-> re, record |-> rc, trunk |-> tr,
                actions |-> ac, recomputed |-> rh, matches |-> ma,
                lineage |-> li, createdAt |-> ca, hash |-> ha]
    BY DEF IsHandoff
<1>2. /\ h.identity = id /\ h.transfer = tp /\ h.closure = cl /\ h.report = re /\ h.record = rc
      /\ h.trunk = tr /\ h.actions = ac /\ h.recomputed = rh /\ h.matches = ma /\ h.lineage = li
      /\ h.createdAt = ca /\ h.hash = ha
    BY <1>1
<1>3. q = [h EXCEPT !.createdAt = None, !.lineage = Embedded(h.lineage)]
    BY <1>2 DEF HandoffClone
<1> HIDE DEF q
<1>4. q = [schema |-> "handoff-record-1", identity |-> id, transfer |-> tp,
           closure |-> cl, report |-> re, record |-> rc, trunk |-> tr,
           actions |-> ac, recomputed |-> rh, matches |-> ma,
           lineage |-> Embedded(li), createdAt |-> None, hash |-> ha]
    BY <1>1, <1>2, <1>3
<1> QED
    BY <1>2, <1>4 DEF q

LEMMA BundleContentIs ==
    ASSUME NEW b, IsBundle(b)
    PROVE  BundleContent(b) =
             [schema |-> "artifact-bundle-1", identity |-> b.identity,
              package |-> b.package, transfer |-> b.transfer,
              lineage |-> Embedded(b.lineage), handoff |-> HandoffClone(b.handoff),
              invariants |-> b.invariants, notes |-> Sorted(b.notes),
              createdAt |-> None, hash |-> None]
<1> DEFINE q == BundleContent(b)
<1>1. PICK id, pk, tp, li, hd, iv, no, ca, ha :
           b = [schema |-> "artifact-bundle-1", identity |-> id, package |-> pk,
                transfer |-> tp, lineage |-> li, handoff |-> hd,
                invariants |-> iv, notes |-> no, createdAt |-> ca, hash |-> ha]
    BY DEF IsBundle
<1>2. /\ b.identity = id /\ b.package = pk /\ b.transfer = tp /\ b.lineage = li
      /\ b.handoff = hd /\ b.invariants = iv /\ b.notes = no /\ b.createdAt = ca /\ b.hash = ha
    BY <1>1
<1>3. q = [b EXCEPT !.lineage = Embedded(b.lineage), !.handoff = HandoffClone(b.handoff),
                    !.notes = Sorted(b.notes), !.createdAt = None, !.hash = None]
    BY <1>2 DEF BundleContent
<1> HIDE DEF q
<1>4. q = [schema |-> "artifact-bundle-1", identity |-> id, package |-> pk,
           transfer |-> tp, lineage |-> Embedded(li),
           handoff |-> HandoffClone(hd), invariants |-> iv,
           notes |-> Sorted(no), createdAt |-> None, hash |-> None]
    BY <1>1, <1>2, <1>3
<1> QED
    BY <1>2, <1>4 DEF q

-----------------------------------------------------------------------------
(* What a hashed content determines *)

\* Lists that are equal when sorted have the same entries.
LEMMA SameEntries ==
    ASSUME NEW k, IsList(k), NEW l, IsList(l), Sorted(k) = Sorted(l)
    PROVE  Entries(k) = Entries(l)
BY SortedEntries

LEMMA TransferDetermined ==
    ASSUME NEW a, IsTransfer(a), NEW b, IsTransfer(b),
           TransferContent(a) = TransferContent(b)
    PROVE  SameTransfer(a, b)
<1> DEFINE x == TransferContent(a)
           y == TransferContent(b)
<1>1. /\ x.identity = AsIdentity(a.identity) /\ x.closure = a.closure
      /\ x.report = AsText(a.report) /\ x.record = AsText(a.record)
      /\ x.trunk = Sorted(Texts(a.trunk)) /\ x.actions = Sorted(Mended(a.actions))
    BY TransferContentIs
<1>2. /\ y.identity = AsIdentity(b.identity) /\ y.closure = b.closure
      /\ y.report = AsText(b.report) /\ y.record = AsText(b.record)
      /\ y.trunk = Sorted(Texts(b.trunk)) /\ y.actions = Sorted(Mended(b.actions))
    BY TransferContentIs
<1> HIDE DEF x, y
<1>3. x = y
    BY DEF x, y
<1>4. Entries(Texts(a.trunk)) = Entries(Texts(b.trunk))
    <2>1. IsList(Texts(a.trunk)) /\ IsList(Texts(b.trunk))
        BY TextsAreList DEF IsTransfer, Entry
    <2> QED
        BY <1>1, <1>2, <1>3, <2>1, SameEntries
<1>5. Entries(Mended(a.actions)) = Entries(Mended(b.actions))
    <2>1. IsList(Mended(a.actions)) /\ IsList(Mended(b.actions))
        BY MendedIsList DEF IsTransfer
    <2> QED
        BY <1>1, <1>2, <1>3, <2>1, SameEntries
<1> QED
    BY <1>1, <1>2, <1>3, <1>4, <1>5 DEF SameTransfer, SameBindings

LEMMA LineageDetermined ==
    ASSUME NEW a, IsLineage(a), NEW b, IsLineage(b),
           LineageContent(a) = LineageContent(b)
    PROVE  /\ a.identity = b.identity /\ a.transfer = b.transfer
           /\ a.closure = b.closure /\ a.execution = b.execution
           /\ a.handoff = b.handoff
<1> DEFINE x == LineageContent(a)
           y == LineageContent(b)
<1>1. /\ x.identity = a.identity /\ x.transfer = a.transfer /\ x.closure = a.closure
      /\ x.execution = a.execution /\ x.handoff = a.handoff
    BY LineageContentIs
<1>2. /\ y.identity = b.identity /\ y.transfer = b.transfer /\ y.closure = b.closure
      /\ y.execution = b.execution /\ y.handoff = b.handoff
    BY LineageContentIs
<1> HIDE DEF x, y
<1>3. x = y
    BY DEF x, y
<1> QED
    BY <1>1, <1>2, <1>3

LEMMA EmbeddedDetermined ==
    ASSUME NEW a, IsLineage(a), NEW b, IsLineage(b), Embedded(a) = Embedded(b)
    PROVE  SameLineage(a, b)
<1> DEFINE x == Embedded(a)
           y == Embedded(b)
<1>1. /\ x.identity = a.identity /\ x.transfer = a.transfer /\ x.closure = a.closure
      /\ x.execution = a.execution /\ x.handoff = a.handoff /\ x.hash = a.hash
    BY EmbeddedIs
<1>2. /\ y.identity = b.identity /\ y.transfer = b.transfer /\ y.closure = b.closure
      /\ y.execution = b.execution /\ y.handoff = b.handoff /\ y.hash = b.hash
    BY EmbeddedIs
<1> HIDE DEF x, y
<1>3. x = y
    BY DEF x, y
<1> QED
    BY <1>1, <1>2, <1>3 DEF SameLineage

LEMMA HandoffDetermined ==
    ASSUME NEW a, IsHandoff(a), NEW b, IsHandoff(b),
           HandoffContent(a) = HandoffContent(b)
    PROVE  SameHandoff(a, b)
<1> DEFINE x == HandoffContent(a)
           y == HandoffContent(b)
<1>1. /\ x.identity = a.identity /\ x.transfer = a.transfer /\ x.closure = a.closure
      /\ x.report = AsText(a.report) /\ x.record = AsText(a.record) /\ x.trunk = a.trunk
      /\ x.actions = Sorted(Mended(a.actions)) /\ x.recomputed = a.recomputed
      /\ x.matches = a.matches /\ x.lineage = Embedded(a.lineage)
    BY HandoffContentIs
<1>2. /\ y.identity = b.identity /\ y.transfer = b.transfer /\ y.closure = b.closure
      /\ y.report = AsText(b.report) /\ y.record = AsText(b.record) /\ y.trunk = b.trunk
      /\ y.actions = Sorted(Mended(b.actions)) /\ y.recomputed = b.recomputed
      /\ y.matches = b.matches /\ y.lineage = Embedded(b.lineage)
    BY HandoffContentIs
<1> HIDE DEF x, y
<1>3. x = y
    BY DEF x, y
<1>4. Entries(Mended(a.actions)) = Entries(Mended(b.actions))
    <2>1. IsList(Mended(a.actions)) /\ IsList(Mended(b.actions))
        BY MendedIsList DEF IsHandoff
    <2> QED
        BY <1>1, <1>2, <1>3, <2>1, SameEntries
<1>5. SameLineage(a.lineage, b.lineage)
    BY <1>1, <1>2, <1>3, EmbeddedDetermined DEF IsHandoff
<1>6. SameBindings(a, b)
    BY <1>1, <1>2, <1>3 DEF SameBindings
<1> QED
    BY <1>1, <1>2, <1>3, <1>4, <1>5, <1>6 DEF SameHandoff

LEMMA CloneDetermined ==
    ASSUME NEW a, IsHandoff(a), NEW b, IsHandoff(b), HandoffClone(a) = HandoffClone(b)
    PROVE  SameHandoff(a, b) /\ a.hash = b.hash
<1> DEFINE x == HandoffClone(a)
           y == HandoffClone(b)
<1>1. /\ x.identity = a.identity /\ x.transfer = a.transfer /\ x.closure = a.closure
      /\ x.report = a.report /\ x.record = a.record /\ x.trunk = a.trunk
      /\ x.actions = a.actions /\ x.recomputed = a.recomputed
      /\ x.matches = a.matches /\ x.lineage = Embedded(a.lineage) /\ x.hash = a.hash
    BY HandoffCloneIs
<1>2. /\ y.identity = b.identity /\ y.transfer = b.transfer /\ y.closure = b.closure
      /\ y.report = b.report /\ y.record = b.record /\ y.trunk = b.trunk
      /\ y.actions = b.actions /\ y.recomputed = b.recomputed
      /\ y.matches = b.matches /\ y.lineage = Embedded(b.lineage) /\ y.hash = b.hash
    BY HandoffCloneIs
<1> HIDE DEF x, y
<1>3. x = y
    BY DEF x, y
<1>4. SameLineage(a.lineage, b.lineage)
    BY <1>1, <1>2, <1>3, EmbeddedDetermined DEF IsHandoff
<1>5. SameBindings(a, b)
    BY <1>1, <1>2, <1>3 DEF SameBindings
<1> QED
    BY <1>1, <1>2, <1>3, <1>4, <1>5 DEF SameHandoff

LEMMA BundleDetermined ==
    ASSUME NEW a, IsBundle(a), NEW b, IsBundle(b), BundleContent(a) = BundleContent(b)
    PROVE  SameBundle(a, b) /\ a.handoff.hash = b.handoff.hash
<1> DEFINE x == BundleContent(a)
           y == BundleContent(b)
<1>1. /\ x.identity = a.identity /\ x.package = a.package /\ x.transfer = a.transfer
      /\ x.lineage = Embedded(a.lineage) /\ x.handoff = HandoffClone(a.handoff)
      /\ x.invariants = a.invariants /\ x.notes = Sorted(a.notes)
    BY BundleContentIs
<1>2. /\ y.identity = b.identity /\ y.package = b.package /\ y.transfer = b.transfer
      /\ y.lineage = Embedded(b.lineage) /\ y.handoff = HandoffClone(b.handoff)
      /\ y.invariants = b.invariants /\ y.notes = Sorted(b.notes)
    BY BundleContentIs
<1> HIDE DEF x, y
<1>3. x = y
    BY DEF x, y
<1>4. SameLineage(a.lineage, b.lineage)
    BY <1>1, <1>2, <1>3, EmbeddedDetermined DEF IsBundle
<1>5. SameHandoff(a.handoff, b.handoff) /\ a.handoff.hash = b.handoff.hash
    BY <1>1, <1>2, <1>3, CloneDetermined DEF IsBundle
<1>6. Entries(a.notes) = Entries(b.notes)
    <2>1. IsList(a.notes) /\ IsList(b.notes)
        BY SequenceIsList DEF IsBundle
    <2> QED
        BY <1>1, <1>2, <1>3, <2>1, SameEntries
<1> QED
    BY <1>1, <1>2, <1>3, <1>4, <1>5, <1>6 DEF SameBundle

-----------------------------------------------------------------------------
(* What the builders build *)

\* A handoff record as it was built: it verifies when its trunk has only strings.
IsSealed(h) ==
    /\ Identified(h) /\ Continues(h) /\ EmbeddedFits(h)
    /\ Sha(HandoffContent(h)) = h.hash

\* The lists of a request are sorted as they are.
LEMMA RequestLists ==
    ASSUME NEW trunk \in Trunks, NEW actions \in NextActions
    PROVE  /\ Sorted(trunk) \in Seq(Text) /\ Sorted(actions) \in Seq(Action)
<1>1. /\ trunk \in Seq(Text) /\ Text \in SUBSET Int
      /\ actions \in Seq(Action) /\ Action \in SUBSET Int
    <2>1. actions \in Seq({e \in Action : Mend[e] = e})
        BY DocumentsAssumption
    <2>2. /\ DOMAIN actions = 1..Len(actions) /\ Len(actions) \in Nat
          /\ actions \in [1..Len(actions) -> {e \in Action : Mend[e] = e}]
        BY <2>1, LenProperties
    <2>3. actions \in [1..Len(actions) -> Action]
        BY <2>2
    <2>4. actions \in Seq(Action)
        BY <2>2, <2>3
    <2> QED
        BY <2>4, DocumentsAssumption
<1>2. ASSUME NEW S \in SUBSET Int, NEW list \in Seq(S) PROVE Sorted(list) \in Seq(S)
    <2> DEFINE s == Sorted(list)
    <2>1. IsList(list) /\ DOMAIN list = 1..Len(list)
        BY SequenceIsList
    <2>2. \A e \in ToSet(list) : e \in S
        BY <2>1, ElementOfSeq DEF ToSet
    <2>3. /\ s \in Seq(Int) /\ DOMAIN s = 1..Size(list) /\ Len(s) = Size(list)
          /\ \A i \in 1..Size(list) : s[i] \in ToSet(list)
        BY <2>1, SortedPlaces
    <2>4. Size(list) \in Nat
        BY <2>1, FS_CardinalityType DEF IsList, Size
    <2> HIDE DEF s
    <2>5. s = [i \in 1..Size(list) |-> s[i]]
        BY <2>3, LenProperties
    <2>6. s \in [1..Size(list) -> S]
        BY <2>2, <2>3, <2>5
    <2>7. s \in Seq(S)
        BY <2>4, <2>6
    <2> QED
        BY <2>7 DEF s
<1> QED
    BY <1>1, <1>2

LEMMA TextsSorted ==
    ASSUME NEW list \in Seq(Text)
    PROVE  list \in Seq(Entry) /\ Texts(list) = list
<1>1. /\ DOMAIN list = 1..Len(list) /\ Len(list) \in Nat
      /\ list \in [1..Len(list) -> Text]
    BY LenProperties
<1>2. list \in [1..Len(list) -> Entry]
    BY <1>1 DEF Entry
<1>3. list \in Seq(Entry)
    BY <1>1, <1>2
<1>4. {j \in DOMAIN list : list[j] \in Text} = 1..Len(list)
    BY <1>1
<1>5. Texts(list) = [i \in 1..Len(list) |-> list[i]]
    BY <1>4 DEF Texts
<1> QED
    BY <1>1, <1>3, <1>5

LEMMA TransferOfMatches ==
    ASSUME NEW r \in Revision, NEW bindings, NEW trunk \in Trunks, NEW actions \in NextActions
    PROVE  LET t == TransferOf(r, bindings, trunk, actions)
           IN  IsTransfer(t) /\ TransferMatches(t) /\ Identified(t)
<1> DEFINE t == TransferOf(r, bindings, trunk, actions)
<1>1. PICK id, k, l : id = IdentityOf(r) /\ k = Sorted(trunk) /\ l = Sorted(actions)
    OBVIOUS
<1> DEFINE s == [schema |-> "transfer-package-1", identity |-> id,
                 closure |-> bindings.closure, report |-> bindings.report,
                 record |-> bindings.record, trunk |-> k, actions |-> l, hash |-> None]
<1>2. t = [s EXCEPT !.hash = Sha(TransferContent(s))]
    BY <1>1 DEF TransferOf
<1>3. k \in Seq(Entry) /\ l \in Seq(Action)
    BY <1>1, RequestLists, TextsSorted
<1>4. IsTransfer(s)
    BY <1>3 DEF IsTransfer
<1>5. PICK x : x = Sha(TransferContent(s))
    OBVIOUS
<1> HIDE DEF t
<1>6. t = [schema |-> "transfer-package-1", identity |-> id,
           closure |-> bindings.closure, report |-> bindings.report,
           record |-> bindings.record, trunk |-> k, actions |-> l, hash |-> x]
    BY <1>2, <1>5
<1>7. IsTransfer(t)
    BY <1>3, <1>6 DEF IsTransfer
<1>8. TransferContent(t) = TransferContent(s)
    BY <1>4, <1>6, <1>7, TransferContentIs
<1>9. TransferMatches(t)
    BY <1>5, <1>6, <1>8 DEF TransferMatches
<1>10. Identified(t)
    BY <1>1, <1>6, DocumentsAssumption DEF Identified, IdentityOf
<1> QED
    BY <1>7, <1>9, <1>10 DEF t

LEMMA LineageOfMatches ==
    ASSUME NEW t, NEW closure, NEW execution, NEW createdAt,
           Identified(t), Bindable(closure, execution)
    PROVE  LET l == LineageOf(t, closure, execution, createdAt)
           IN  /\ IsLineage(l) /\ LineageMatches(l)
               /\ l.identity = t.identity /\ l.transfer = t.hash /\ l.handoff = None
<1> DEFINE s == [schema |-> "lineage-binding-1", identity |-> t.identity,
                 transfer |-> t.hash, closure |-> closure, execution |-> execution,
                 handoff |-> None, missing |-> {}, createdAt |-> createdAt, hash |-> None]
           l == LineageOf(t, closure, execution, createdAt)
<1>1. l = [s EXCEPT !.missing = Missing(s), !.hash = Sha(LineageContent(s))]
    BY DEF LineageOf
<1>2. IsLineage(s)
    BY DEF IsLineage
<1>3. PICK x : x = Sha(LineageContent(s))
    OBVIOUS
<1>4. PICK m : m = Missing(s)
    OBVIOUS
<1> HIDE DEF l
<1>5. l = [schema |-> "lineage-binding-1", identity |-> t.identity,
           transfer |-> t.hash, closure |-> closure, execution |-> execution,
           handoff |-> None, missing |-> m, createdAt |-> createdAt, hash |-> x]
    BY <1>1, <1>3, <1>4
<1>6. IsLineage(l)
    BY <1>5 DEF IsLineage
<1>7. Missing(l) = Missing(s)
    BY <1>5 DEF Missing
<1>8. LineageContent(l) = LineageContent(s)
    BY <1>2, <1>5, <1>6, <1>7, LineageContentIs
<1>9. LineageMatches(l)
    BY <1>3, <1>5, <1>8 DEF LineageMatches, Identified
<1> QED
    BY <1>5, <1>6, <1>9 DEF l

LEMMA HandoffOfSound ==
    ASSUME NEW t, IsTransfer(t), Identified(t), NEW bindings, NEW l, IsLineage(l),
           NEW createdAt, l.identity = t.identity, l.handoff = None
    PROVE  LET h == HandoffOf(t, bindings, l, createdAt)
           IN  /\ IsHandoff(h) /\ IsSealed(h)
               /\ h.identity = t.identity /\ h.transfer = t.hash
               /\ h.trunk = t.trunk /\ h.actions = Sorted(Mended(t.actions)) /\ h.lineage = l
<1>1. PICK x : x = Sha(TransferContent(t))
    OBVIOUS
<1> DEFINE s == [schema |-> "handoff-record-1", identity |-> t.identity,
                 transfer |-> t.hash, closure |-> bindings.closure,
                 report |-> bindings.report, record |-> bindings.record,
                 trunk |-> t.trunk, actions |-> t.actions,
                 recomputed |-> x, matches |-> TRUE,
                 lineage |-> l, createdAt |-> createdAt, hash |-> None]
           n == Normal(s)
           h == HandoffOf(t, bindings, l, createdAt)
<1>2. h = [n EXCEPT !.hash = Sha(HandoffContent(s))]
    BY <1>1 DEF HandoffOf
<1>3. t.trunk \in Seq(Entry) /\ t.actions \in Seq(Action)
    BY DEF IsTransfer
<1>4. PICK re, rc, ac : re = AsText(bindings.report) /\ rc = AsText(bindings.record)
                        /\ ac = Sorted(Mended(t.actions))
    OBVIOUS
<1>5. /\ ac \in Seq(Action) /\ Sorted(Mended(ac)) = ac /\ ToSet(ac) \cap Unfit = {}
    <2>1. /\ ac \in Seq(Action) /\ Mended(ac) = ac /\ ToSet(ac) \cap Unfit = {}
          /\ IsList(Mended(t.actions))
        BY <1>3, <1>4, MendedIsList
    <2>2. Sorted(ac) = ac
        BY <1>4, <2>1, SortedTwice
    <2> QED
        BY <2>1, <2>2
<1>6. AsText(re) = re /\ AsText(rc) = rc
    BY <1>4, DocumentsAssumption DEF AsText
<1>7. IsHandoff(s)
    BY <1>3 DEF IsHandoff
<1>8. n = [s EXCEPT !.report = re, !.record = rc, !.actions = ac]
    BY <1>4 DEF Normal
<1>9. PICK y : y = Sha(HandoffContent(s))
    OBVIOUS
<1> HIDE DEF h, n
<1>10. n = [schema |-> "handoff-record-1", identity |-> t.identity,
            transfer |-> t.hash, closure |-> bindings.closure, report |-> re,
            record |-> rc, trunk |-> t.trunk, actions |-> ac,
            recomputed |-> x, matches |-> TRUE,
            lineage |-> l, createdAt |-> createdAt, hash |-> None]
    BY <1>8
<1>11. h = [schema |-> "handoff-record-1", identity |-> t.identity,
            transfer |-> t.hash, closure |-> bindings.closure, report |-> re,
            record |-> rc, trunk |-> t.trunk, actions |-> ac,
            recomputed |-> x, matches |-> TRUE,
            lineage |-> l, createdAt |-> createdAt, hash |-> y]
    BY <1>2, <1>9, <1>10
<1>12. IsHandoff(h)
    BY <1>3, <1>5, <1>11 DEF IsHandoff
<1>13. HandoffContent(h) = HandoffContent(s)
    <2>1. /\ s.schema = "handoff-record-1" /\ s.identity = h.identity
          /\ s.transfer = h.transfer /\ s.closure = h.closure /\ s.trunk = h.trunk
          /\ s.recomputed = h.recomputed /\ s.matches = h.matches /\ s.lineage = h.lineage
          /\ s.report = bindings.report /\ s.record = bindings.record
          /\ s.actions = t.actions /\ h.report = re /\ h.record = rc /\ h.actions = ac
        BY <1>11
    <2> HIDE DEF s
    <2>2. /\ AsText(h.report) = AsText(s.report) /\ AsText(h.record) = AsText(s.record)
          /\ Sorted(Mended(h.actions)) = Sorted(Mended(s.actions))
        BY <1>4, <1>5, <1>6, <2>1
    <2>3. PICK a, c, e : /\ a = AsText(s.report) /\ c = AsText(s.record)
                         /\ e = Sorted(Mended(s.actions))
        OBVIOUS
    <2>4. HandoffContent(s) =
             [schema |-> "handoff-record-1", identity |-> s.identity,
              transfer |-> s.transfer, closure |-> s.closure,
              report |-> a, record |-> c, trunk |-> s.trunk, actions |-> e,
              recomputed |-> s.recomputed, matches |-> s.matches,
              lineage |-> Embedded(s.lineage), createdAt |-> None, hash |-> None]
        BY <1>7, <2>3, HandoffContentIs
    <2>5. HandoffContent(h) =
             [schema |-> "handoff-record-1", identity |-> h.identity,
              transfer |-> h.transfer, closure |-> h.closure,
              report |-> a, record |-> c, trunk |-> h.trunk, actions |-> e,
              recomputed |-> h.recomputed, matches |-> h.matches,
              lineage |-> Embedded(h.lineage), createdAt |-> None, hash |-> None]
        BY <1>12, <2>2, <2>3, HandoffContentIs
    <2> QED
        BY <2>1, <2>4, <2>5
<1>14. IsSealed(h)
    BY <1>5, <1>9, <1>11, <1>13 DEF IsSealed, EmbeddedFits, Identified, Continues
<1> QED
    BY <1>4, <1>11, <1>12, <1>14 DEF h

LEMMA BundleOfMatches ==
    ASSUME NEW identity, NEW t, IsTransfer(t), NEW l, IsLineage(l), NEW h, IsHandoff(h),
           NEW notes \in Trunks, NEW createdAt, AreIdentified(t, l, h)
    PROVE  LET b == BundleOf(identity, t, l, h, notes, createdAt)
           IN  /\ IsBundle(b) /\ BundleMatches(b)
               /\ b.transfer = t /\ b.lineage = l /\ b.handoff = h
               /\ b.invariants = Invariants(t, l, h)
<1>1. PICK v : v = Invariants(t, l, h)
    OBVIOUS
<1> DEFINE s == [schema |-> "artifact-bundle-1", identity |-> identity,
                 package |-> PackageOf[t.identity.revision], transfer |-> t, lineage |-> l,
                 handoff |-> h, invariants |-> v, notes |-> Sorted(notes),
                 createdAt |-> createdAt, hash |-> None]
           b == BundleOf(identity, t, l, h, notes, createdAt)
<1>2. b = [s EXCEPT !.hash = Sha(BundleContent(s))]
    BY <1>1 DEF BundleOf
<1>3. Sorted(notes) \in Seq(Int)
    <2>1. IsList(notes)
        BY SequenceIsList, DocumentsAssumption
    <2> QED
        BY <2>1, SortedPlaces
<1>4. v = [transferMatchesLineage |-> v.transferMatchesLineage,
           embeddedMatchesTop |-> v.embeddedMatchesTop,
           noHandoffInLineage |-> v.noHandoffInLineage]
    <2>1. PICK x : x = (l.transfer = t.hash)
        OBVIOUS
    <2>2. PICK y : y = (h.lineage.hash = l.hash)
        OBVIOUS
    <2>3. PICK z : z = (l.handoff = None)
        OBVIOUS
    <2>4. v = [transferMatchesLineage |-> x, embeddedMatchesTop |-> y,
               noHandoffInLineage |-> z]
        BY <1>1, <2>1, <2>2, <2>3 DEF Invariants
    <2> QED
        BY <2>4
<1>5. IsBundle(s)
    BY <1>3, <1>4 DEF IsBundle
<1>6. PICK x : x = Sha(BundleContent(s))
    OBVIOUS
<1> HIDE DEF b
<1>7. b = [schema |-> "artifact-bundle-1", identity |-> identity,
           package |-> PackageOf[t.identity.revision], transfer |-> t, lineage |-> l,
           handoff |-> h, invariants |-> v, notes |-> Sorted(notes),
           createdAt |-> createdAt, hash |-> x]
    BY <1>2, <1>6
<1>8. IsBundle(b)
    BY <1>3, <1>4, <1>7 DEF IsBundle
<1>9. BundleContent(b) = BundleContent(s)
    BY <1>5, <1>7, <1>8, BundleContentIs
<1>10. BundleMatches(b)
    BY <1>6, <1>7, <1>9 DEF BundleMatches
<1> QED
    BY <1>1, <1>7, <1>8, <1>10 DEF b

-----------------------------------------------------------------------------
(* Changed copies *)

\* The lists of a changed copy are lists still.
LEMMA ChangedLists ==
    ASSUME NEW S, NEW list \in Seq(S)
    PROVE  /\ Reverse(list) \in Seq(S) /\ Front(list) \in Seq(S)
           /\ \A e \in S : Append(list, e) \in Seq(S) /\ Append(Front(list), e) \in Seq(S)
<1>1. Len(list) \in Nat /\ DOMAIN list = 1..Len(list) /\ \A i \in 1..Len(list) : list[i] \in S
    BY LenProperties, ElementOfSeq
<1>2. Reverse(list) \in Seq(S)
    <2>1. Reverse(list) = [i \in 1..Len(list) |-> list[(Len(list) - i) + 1]]
        BY DEF Reverse
    <2>2. \A i \in 1..Len(list) : (Len(list) - i) + 1 \in 1..Len(list)
        BY <1>1
    <2>3. Reverse(list) \in [1..Len(list) -> S]
        BY <1>1, <2>1, <2>2
    <2> QED
        BY <1>1, <2>3
<1>3. Front(list) \in Seq(S)
    <2>1. Front(list) = SubSeq(list, 1, Len(list) - 1)
        BY DEF Front
    <2> QED
        BY <1>1, <2>1
<1> QED
    BY <1>2, <1>3, AppendProperties

LEMMA ChangedTransferKeeps ==
    ASSUME NEW t, IsTransfer(t), NEW c \in ChangedTransfers(t)
    PROVE  IsTransfer(c) /\ c.hash = t.hash
<1>1. PICK id, cl, re, rc, tr, ac, ha :
           t = [schema |-> "transfer-package-1", identity |-> id,
                closure |-> cl, report |-> re, record |-> rc, trunk |-> tr,
                actions |-> ac, hash |-> ha]
    BY DEF IsTransfer
<1>2. /\ t.identity = id /\ t.trunk = tr /\ t.actions = ac /\ t.hash = ha
      /\ tr \in Seq(Entry) /\ ac \in Seq(Action)
    BY <1>1 DEF IsTransfer
<1>3. /\ Reverse(tr) \in Seq(Entry) /\ Front(tr) \in Seq(Entry)
      /\ Append(tr, Other) \in Seq(Entry) /\ Reverse(ac) \in Seq(Action)
      /\ \A e \in Action : Append(Front(ac), e) \in Seq(Action)
    BY <1>2, ChangedLists DEF Entry
<1> DEFINE Copied(i, x, y, k, l) ==
               c = [schema |-> "transfer-package-1", identity |-> i,
                    closure |-> x, report |-> y, record |-> rc, trunk |-> k,
                    actions |-> l, hash |-> ha]
<1>4. ASSUME NEW i, NEW x, NEW y, NEW k \in Seq(Entry), NEW l \in Seq(Action),
             Copied(i, x, y, k, l)
      PROVE  IsTransfer(c) /\ c.hash = t.hash
    BY <1>2, <1>4 DEF IsTransfer
<1>5. CASE c \in ChangedIdentities(t)
    <2>1. PICK i : c = [t EXCEPT !.identity = i]
        <3>1. CASE \E r \in Revision : c = [t EXCEPT !.identity = IdentityOf(r)]
            BY <3>1
        <3>2. CASE c = [t EXCEPT !.identity.parent = Other]
            BY <3>2
        <3> QED
            BY <1>5, <3>1, <3>2 DEF ChangedIdentities
    <2>2. Copied(i, cl, re, tr, ac)
        BY <1>1, <2>1
    <2> HIDE DEF Copied
    <2> QED
        BY <1>2, <1>4, <2>2
<1>6. CASE c = [t EXCEPT !.closure = None]
    <2>1. Copied(id, None, re, tr, ac)
        BY <1>1, <1>6
    <2> HIDE DEF Copied
    <2> QED
        BY <1>2, <1>4, <2>1
<1>7. CASE c = [t EXCEPT !.report = None] \/ c = [t EXCEPT !.report = Other]
    <2>1. PICK y : c = [t EXCEPT !.report = y]
        BY <1>7
    <2>2. Copied(id, cl, y, tr, ac)
        BY <1>1, <2>1
    <2> HIDE DEF Copied
    <2> QED
        BY <1>2, <1>4, <2>2
<1>8. CASE \/ c = [t EXCEPT !.trunk = Append(@, Other)]
           \/ c = [t EXCEPT !.trunk = Reverse(@)] \/ c = [t EXCEPT !.trunk = Front(@)]
    <2>1. PICK k \in Seq(Entry) : c = [t EXCEPT !.trunk = k]
        BY <1>2, <1>3, <1>8
    <2>2. Copied(id, cl, re, k, ac)
        BY <1>1, <2>1
    <2> HIDE DEF Copied
    <2> QED
        BY <1>2, <1>4, <2>2
<1>9. CASE \/ c = [t EXCEPT !.actions = Reverse(@)]
           \/ \E e \in Action : c = [t EXCEPT !.actions = Append(Front(@), e)]
    <2>1. PICK l \in Seq(Action) : c = [t EXCEPT !.actions = l]
        BY <1>2, <1>3, <1>9
    <2>2. Copied(id, cl, re, tr, l)
        BY <1>1, <2>1
    <2> HIDE DEF Copied
    <2> QED
        BY <1>2, <1>4, <2>2
<1> HIDE DEF Copied
<1> QED
    BY <1>5, <1>6, <1>7, <1>8, <1>9 DEF ChangedTransfers

LEMMA ChangedLineageKeeps ==
    ASSUME NEW l, IsLineage(l), NEW c \in ChangedLineages(l)
    PROVE  IsLineage(c) /\ c.hash = l.hash
<1>1. PICK id, tp, cl, ex, hd, mi, ca, ha :
           l = [schema |-> "lineage-binding-1", identity |-> id,
                transfer |-> tp, closure |-> cl, execution |-> ex,
                handoff |-> hd, missing |-> mi, createdAt |-> ca, hash |-> ha]
    BY DEF IsLineage
<1>2. \E i, x, y, z, m, n :
         c = [schema |-> "lineage-binding-1", identity |-> i,
              transfer |-> tp, closure |-> x, execution |-> y,
              handoff |-> z, missing |-> m, createdAt |-> n, hash |-> ha]
    <2>1. CASE c \in ChangedIdentities(l)
        <3>1. PICK i : c = [l EXCEPT !.identity = i]
            <4>1. CASE \E r \in Revision : c = [l EXCEPT !.identity = IdentityOf(r)]
                BY <4>1
            <4>2. CASE c = [l EXCEPT !.identity.parent = Other]
                BY <4>2
            <4> QED
                BY <2>1, <4>1, <4>2 DEF ChangedIdentities
        <3> QED
            BY <1>1, <3>1
    <2>2. CASE \E time \in Times : c = [l EXCEPT !.createdAt = time]
        BY <1>1, <2>2
    <2>3. CASE c = [l EXCEPT !.closure = None] \/ c = [l EXCEPT !.execution = None]
        BY <1>1, <2>3
    <2>4. CASE c = [l EXCEPT !.missing = {}] \/ c = [l EXCEPT !.handoff = Sha(None)]
        BY <1>1, <2>4
    <2> QED
        BY <2>1, <2>2, <2>3, <2>4 DEF ChangedLineages
<1> QED
    BY <1>1, <1>2 DEF IsLineage

LEMMA ChangedHandoffKeeps ==
    ASSUME NEW h, IsHandoff(h), NEW c \in ChangedHandoffs(h)
    PROVE  IsHandoff(c) /\ c.hash = h.hash
<1>1. PICK id, tp, cl, re, rc, tr, ac, rh, ma, li, ca, ha :
           h = [schema |-> "handoff-record-1", identity |-> id,
                transfer |-> tp, closure |-> cl, report |-> re, record |-> rc,
                trunk |-> tr, actions |-> ac, recomputed |-> rh, matches |-> ma,
                lineage |-> li, createdAt |-> ca, hash |-> ha]
    BY DEF IsHandoff
<1>2. /\ h.trunk = tr /\ h.actions = ac /\ h.hash = ha /\ h.lineage = li
      /\ h.identity = id /\ tr \in Seq(Entry) /\ ac \in Seq(Action) /\ IsLineage(li)
    BY <1>1 DEF IsHandoff
<1>3. /\ Reverse(tr) \in Seq(Entry) /\ Append(tr, Other) \in Seq(Entry)
      /\ Reverse(ac) \in Seq(Action)
      /\ \A e \in Action : Append(Front(ac), e) \in Seq(Action)
    BY <1>2, ChangedLists DEF Entry
<1> DEFINE Copied(i, x, y, k, l, m, n, z) ==
               c = [schema |-> "handoff-record-1", identity |-> i,
                    transfer |-> tp, closure |-> x, report |-> y, record |-> rc,
                    trunk |-> k, actions |-> l, recomputed |-> rh, matches |-> m,
                    lineage |-> n, createdAt |-> z, hash |-> ha]
<1>4. ASSUME NEW i, NEW x, NEW y, NEW k \in Seq(Entry), NEW l \in Seq(Action), NEW m, NEW n, NEW z,
             IsLineage(n), Copied(i, x, y, k, l, m, n, z)
      PROVE  IsHandoff(c) /\ c.hash = h.hash
    BY <1>2, <1>4 DEF IsHandoff
<1>5. CASE c \in ChangedIdentities(h)
    <2>1. PICK i : c = [h EXCEPT !.identity = i]
        <3>1. CASE \E r \in Revision : c = [h EXCEPT !.identity = IdentityOf(r)]
            BY <3>1
        <3>2. CASE c = [h EXCEPT !.identity.parent = Other]
            BY <3>2
        <3> QED
            BY <1>5, <3>1, <3>2 DEF ChangedIdentities
    <2>2. Copied(i, cl, re, tr, ac, ma, li, ca)
        BY <1>1, <2>1
    <2> HIDE DEF Copied
    <2> QED
        BY <1>2, <1>4, <2>2
<1>6. CASE \E time \in Times : c = [h EXCEPT !.createdAt = time]
    <2>1. PICK time \in Times : c = [h EXCEPT !.createdAt = time]
        BY <1>6
    <2>2. Copied(id, cl, re, tr, ac, ma, li, time)
        BY <1>1, <2>1
    <2> HIDE DEF Copied
    <2> QED
        BY <1>2, <1>4, <2>2
<1>7. CASE \E l \in ChangedLineages(h.lineage) : c = [h EXCEPT !.lineage = l]
    <2>1. PICK l \in ChangedLineages(h.lineage) : c = [h EXCEPT !.lineage = l]
        BY <1>7
    <2>2. Copied(id, cl, re, tr, ac, ma, l, ca)
        BY <1>1, <2>1
    <2>3. IsLineage(l)
        BY <1>2, ChangedLineageKeeps
    <2> HIDE DEF Copied
    <2> QED
        BY <1>2, <1>4, <2>2, <2>3
<1>8. CASE c = [h EXCEPT !.closure = None]
    <2>1. Copied(id, None, re, tr, ac, ma, li, ca)
        BY <1>1, <1>8
    <2> HIDE DEF Copied
    <2> QED
        BY <1>2, <1>4, <2>1
<1>9. CASE c = [h EXCEPT !.matches = FALSE]
    <2>1. PICK m : m = FALSE
        OBVIOUS
    <2>2. Copied(id, cl, re, tr, ac, m, li, ca)
        BY <1>1, <1>9, <2>1
    <2> HIDE DEF Copied
    <2> QED
        BY <1>2, <1>4, <2>2
<1>10. CASE c = [h EXCEPT !.report = Other]
    <2>1. Copied(id, cl, Other, tr, ac, ma, li, ca)
        BY <1>1, <1>10
    <2> HIDE DEF Copied
    <2> QED
        BY <1>2, <1>4, <2>1
<1>11. CASE \/ c = [h EXCEPT !.trunk = Append(@, Other)]
            \/ c = [h EXCEPT !.trunk = Reverse(@)]
    <2>1. PICK k \in Seq(Entry) : c = [h EXCEPT !.trunk = k]
        BY <1>2, <1>3, <1>11
    <2>2. Copied(id, cl, re, k, ac, ma, li, ca)
        BY <1>1, <2>1
    <2> HIDE DEF Copied
    <2> QED
        BY <1>2, <1>4, <2>2
<1>12. CASE \/ c = [h EXCEPT !.actions = Reverse(@)]
            \/ \E e \in Action : c = [h EXCEPT !.actions = Append(Front(@), e)]
    <2>1. PICK l \in Seq(Action) : c = [h EXCEPT !.actions = l]
        BY <1>2, <1>3, <1>12
    <2>2. Copied(id, cl, re, tr, l, ma, li, ca)
        BY <1>1, <2>1
    <2> HIDE DEF Copied
    <2> QED
        BY <1>2, <1>4, <2>2
<1> HIDE DEF Copied
<1> QED
    BY <1>5, <1>6, <1>7, <1>8, <1>9, <1>10, <1>11, <1>12 DEF ChangedHandoffs

LEMMA ChangedBundleKeeps ==
    ASSUME NEW b, IsBundle(b), NEW c \in ChangedBundles(b)
    PROVE  IsBundle(c) /\ c.hash \in {b.hash, NoHash} /\ c.handoff.hash = b.handoff.hash
<1>1. PICK id, pk, tr, li, hd, iv, no, ca, ha :
           b = [schema |-> "artifact-bundle-1", identity |-> id, package |-> pk,
                transfer |-> tr, lineage |-> li, handoff |-> hd, invariants |-> iv,
                notes |-> no, createdAt |-> ca, hash |-> ha]
    BY DEF IsBundle
<1>2. /\ b.transfer = tr /\ b.handoff = hd /\ b.hash = ha /\ b.notes = no
      /\ b.invariants = iv /\ b.lineage = li
      /\ no \in Seq(Int) /\ IsTransfer(tr) /\ IsLineage(li) /\ IsHandoff(hd)
    BY <1>1 DEF IsBundle
<1>3. PICK p, q, r :
           iv = [transferMatchesLineage |-> p, embeddedMatchesTop |-> q,
                 noHandoffInLineage |-> r]
    BY <1>2 DEF IsBundle
<1>4. Reverse(no) \in Seq(Int)
    BY <1>2, ChangedLists
<1>5. PICK t : t = [tr EXCEPT !.trunk = Append(@, Other)]
    OBVIOUS
<1>6. IsTransfer(t)
    BY <1>2, <1>5, ChangedTransferKeeps DEF ChangedTransfers
<1>7. \E i, x, y, u, v, n, z :
         /\ c = [schema |-> "artifact-bundle-1", identity |-> i, package |-> pk,
                 transfer |-> x, lineage |-> li, handoff |-> y,
                 invariants |-> [transferMatchesLineage |-> p, embeddedMatchesTop |-> u,
                                 noHandoffInLineage |-> r],
                 notes |-> n, createdAt |-> ca, hash |-> z]
         /\ n \in Seq(Int) /\ IsTransfer(x) /\ IsHandoff(y)
         /\ z \in {ha, NoHash} /\ y.hash = hd.hash
    <2>1. CASE c = [b EXCEPT !.identity = None]
        BY <1>1, <1>2, <1>3, <2>1
    <2>2. CASE c = [b EXCEPT !.hash = NoHash]
        BY <1>1, <1>2, <1>3, <2>2
    <2>3. CASE c = [b EXCEPT !.notes = Reverse(@)]
        BY <1>1, <1>2, <1>3, <1>4, <2>3
    <2>4. CASE c = [b EXCEPT !.invariants.embeddedMatchesTop = TRUE]
        <3>1. PICK w : w = [iv EXCEPT !.embeddedMatchesTop = TRUE]
            OBVIOUS
        <3>2. PICK v : v = TRUE
            OBVIOUS
        <3>3. w = [transferMatchesLineage |-> p, embeddedMatchesTop |-> v,
                   noHandoffInLineage |-> r]
            BY <1>3, <3>1, <3>2
        <3>4. c = [b EXCEPT !.invariants = w]
            BY <1>2, <2>4, <3>1
        <3> QED
            BY <1>1, <1>2, <3>3, <3>4
    <2>5. CASE c = [b EXCEPT !.transfer.trunk = Append(@, Other)]
        <3>1. c = [b EXCEPT !.transfer = t]
            BY <1>2, <1>5, <2>5
        <3> QED
            BY <1>1, <1>2, <1>3, <1>6, <3>1
    <2>6. CASE \E time \in Times : c = [b EXCEPT !.handoff.lineage.createdAt = time]
        <3>1. PICK time \in Times : c = [b EXCEPT !.handoff.lineage.createdAt = time]
            BY <2>6
        <3>2. PICK l : l = [hd.lineage EXCEPT !.createdAt = time]
            OBVIOUS
        <3>3. PICK y : y = [hd EXCEPT !.lineage = l]
            OBVIOUS
        <3>4. l \in ChangedLineages(hd.lineage)
            BY <3>2 DEF ChangedLineages
        <3>5. y \in ChangedHandoffs(hd)
            BY <3>3, <3>4 DEF ChangedHandoffs
        <3>6. IsHandoff(y) /\ y.hash = hd.hash
            BY <1>2, <3>5, ChangedHandoffKeeps
        <3>7. c = [b EXCEPT !.handoff = y]
            BY <1>2, <3>1, <3>2, <3>3
        <3> QED
            BY <1>1, <1>2, <1>3, <3>6, <3>7
    <2> QED
        BY <2>1, <2>2, <2>3, <2>4, <2>5, <2>6 DEF ChangedBundles
<1> QED
    BY <1>2, <1>7 DEF IsBundle

-----------------------------------------------------------------------------
(* The inductive invariant *)

\* Some document that was built is of this schema and has this hash.
IsBuiltHash(schema, hash) == \E b \in built : b.schema = schema /\ b.hash = hash

\* A handoff record is made of a transfer package that was verified.
MadeOfVerified(h) ==
    \E t \in Held :
        /\ IsTransfer(t) /\ TransferMatches(t)
        /\ h.identity = t.identity /\ h.transfer = t.hash
        /\ h.trunk = t.trunk /\ h.actions = Sorted(Mended(t.actions))
        /\ h.lineage.identity = t.identity /\ h.lineage.transfer = t.hash
        /\ LineageMatches(h.lineage)

\* What the server has built verifies, a handoff record but for other entries of
\* its trunk, and is made of what it is said to be.
BuiltIsSound(d) ==
    /\ ~ IsHandoff(d) => Matches(d)
    /\ IsHandoff(d) => IsSealed(d) /\ MadeOfVerified(d)
    /\ IsBundle(d) => d.invariants = Invariants(d.transfer, d.lineage, d.handoff)

\* Whatever is held has the hash of a built document, a bundle perhaps none; the
\* handoff in a bundle too.
HashIsOfBuilt(d) ==
    /\ IsBuiltHash(d.schema, d.hash) \/ (IsBundle(d) /\ d.hash = NoHash)
    /\ IsBundle(d) => IsBuiltHash("handoff-record-1", d.handoff.hash)

DocumentsInv ==
    /\ \A d \in Held : IsDocument(d) /\ HashIsOfBuilt(d)
    /\ \A d \in built : BuiltIsSound(d)

\* A step that builds documents.
LEMMA BuiltKeeps ==
    ASSUME DocumentsInv, NEW N, built' = built \cup N, altered' = altered,
           \A d \in N : /\ IsDocument(d) /\ BuiltIsSound(d)
                        /\ IsBundle(d) =>
                              IsBuiltHash("handoff-record-1", d.handoff.hash)
    PROVE  DocumentsInv'
<1>1. Held' = Held \cup N
    BY DEF Held
<1>2. ASSUME NEW schema, NEW hash, IsBuiltHash(schema, hash)
      PROVE  IsBuiltHash(schema, hash)'
    BY <1>2 DEF IsBuiltHash
<1>3. ASSUME NEW d \in Held' PROVE IsDocument(d) /\ HashIsOfBuilt(d)'
    <2>1. CASE d \in Held
        <3>1. IsDocument(d) /\ HashIsOfBuilt(d)
            BY <2>1 DEF DocumentsInv
        <3> QED
            BY <1>2, <3>1 DEF HashIsOfBuilt
    <2>2. CASE d \in N
        <3>1. IsDocument(d) /\ (IsBundle(d) => IsBuiltHash("handoff-record-1", d.handoff.hash))
            BY <2>2
        <3>2. IsBuiltHash(d.schema, d.hash)'
            BY <2>2 DEF IsBuiltHash
        <3>3. IsBundle(d) => IsBuiltHash("handoff-record-1", d.handoff.hash)'
            BY <1>2, <3>1
        <3> QED
            BY <3>1, <3>2, <3>3 DEF HashIsOfBuilt
    <2> QED
        BY <1>1, <2>1, <2>2
<1>4. ASSUME NEW d, MadeOfVerified(d) PROVE MadeOfVerified(d)'
    BY <1>1, <1>4 DEF MadeOfVerified
<1>5. ASSUME NEW d \in built' PROVE BuiltIsSound(d)'
    <2>1. BuiltIsSound(d)
        BY DEF DocumentsInv
    <2> QED
        BY <1>4, <2>1 DEF BuiltIsSound
<1> QED
    BY <1>3, <1>5 DEF DocumentsInv

LEMMA CreateTransferKeeps ==
    ASSUME DocumentsInv, NEW request \in TransferRequest, CreateTransfer(request)
    PROVE  DocumentsInv'
<1>1. PICK t : t = TransferFor(request)
    OBVIOUS
<1>2. PICK l : l = LineageFor(t, request.include, request.given, None)
    OBVIOUS
<1>3. /\ request.revision \in Revision /\ request.trunk \in Trunks
      /\ request.actions \in NextActions
    BY DEF TransferRequest
<1>4. IsTransfer(t) /\ TransferMatches(t) /\ Identified(t)
    BY <1>1, <1>3, TransferOfMatches DEF TransferFor
<1>5. IsLineage(l) /\ LineageMatches(l)
    <2>1. LineageAccepts(request.include, request.given)
        BY DEF CreateTransfer
    <2> QED
        BY <1>2, <1>4, <2>1, LineageOfMatches DEF LineageFor, LineageAccepts
<1>6. built' = built \cup {t, l} /\ altered' = altered
    BY <1>1, <1>2 DEF CreateTransfer
<1>7. ASSUME NEW d \in {t, l}
      PROVE  IsDocument(d) /\ BuiltIsSound(d) /\ ~ IsBundle(d)
    <2>1. IsDocument(d) /\ ~ IsBundle(d) /\ ~ IsHandoff(d)
        BY <1>4, <1>5 DEF IsDocument, IsTransfer, IsLineage, IsHandoff, IsBundle
    <2>2. Matches(d)
        BY <1>4, <1>5, <2>1, VerifiedBySchema
    <2> QED
        BY <2>1, <2>2 DEF BuiltIsSound
<1> DEFINE N == {t, l}
<1>8. \A d \in N : /\ IsDocument(d) /\ BuiltIsSound(d)
                   /\ IsBundle(d) => IsBuiltHash("handoff-record-1", d.handoff.hash)
    BY <1>7
<1>9. built' = built \cup N
    BY <1>6
<1> HIDE DEF N
<1> QED
    BY <1>6, <1>8, <1>9, BuiltKeeps

LEMMA IngestKeeps ==
    ASSUME DocumentsInv, NEW t \in Of("transfer-package-1", Held),
           NEW request \in IngestRequest, Ingest(t, request)
    PROVE  DocumentsInv'
<1>1. t \in Held /\ IsDocument(t) /\ t.schema = "transfer-package-1"
    BY DEF Of, DocumentsInv
<1>2. IsTransfer(t) /\ TransferMatches(t) /\ Identified(t)
    BY <1>1, SchemaTells DEF Ingest, Ingestible
<1>3. PICK bindings : bindings = Flagged(request.include, request.given)
    OBVIOUS
<1>4. PICK l : l = LineageFor(t, request.include, bindings, request.createdAt)
    OBVIOUS
<1>5. /\ IsLineage(l) /\ LineageMatches(l)
      /\ l.identity = t.identity /\ l.transfer = t.hash /\ l.handoff = None
    <2>1. LineageAccepts(request.include, bindings)
        BY <1>3 DEF Ingest
    <2> QED
        BY <1>2, <1>4, <2>1, LineageOfMatches DEF LineageFor, LineageAccepts
<1>6. PICK h : h = HandoffOf(t, bindings, l, request.createdAt)
    OBVIOUS
<1>7. /\ IsHandoff(h) /\ IsSealed(h)
      /\ h.identity = t.identity /\ h.transfer = t.hash
      /\ h.trunk = t.trunk /\ h.actions = Sorted(Mended(t.actions)) /\ h.lineage = l
    BY <1>2, <1>5, <1>6, HandoffOfSound
<1>8. HandoffFor(t, request) = h
    BY <1>3, <1>4, <1>6 DEF HandoffFor
<1>9. built' = built \cup {h, l} /\ altered' = altered
    BY <1>7, <1>8 DEF Ingest
<1>10. MadeOfVerified(h)
    BY <1>1, <1>2, <1>5, <1>7 DEF MadeOfVerified
<1>11. ASSUME NEW d \in {h, l}
       PROVE  IsDocument(d) /\ BuiltIsSound(d) /\ ~ IsBundle(d)
    <2>1. /\ IsDocument(d) /\ ~ IsBundle(d)
          /\ (IsHandoff(d) => d = h) /\ (~ IsHandoff(d) => d = l)
        BY <1>5, <1>7 DEF IsDocument, IsLineage, IsHandoff, IsBundle
    <2>2. ~ IsHandoff(d) => Matches(d)
        BY <1>5, <2>1, VerifiedBySchema
    <2> QED
        BY <1>7, <1>10, <2>1, <2>2 DEF BuiltIsSound
<1> DEFINE N == {h, l}
<1>12. \A d \in N : /\ IsDocument(d) /\ BuiltIsSound(d)
                    /\ IsBundle(d) => IsBuiltHash("handoff-record-1", d.handoff.hash)
    BY <1>11
<1>13. built' = built \cup N
    BY <1>9
<1> HIDE DEF N
<1> QED
    BY <1>9, <1>12, <1>13, BuiltKeeps

LEMMA BuildBundleKeeps ==
    ASSUME DocumentsInv, NEW t \in Of("transfer-package-1", Held),
           NEW l \in Of("lineage-binding-1", Held),
           NEW h \in Of("handoff-record-1", Held),
           NEW identity, NEW notes \in Trunks, NEW createdAt,
           BuildBundle(identity, t, l, h, notes, createdAt)
    PROVE  DocumentsInv'
<1>1. /\ IsDocument(t) /\ t.schema = "transfer-package-1"
      /\ IsDocument(l) /\ l.schema = "lineage-binding-1"
      /\ IsDocument(h) /\ h.schema = "handoff-record-1" /\ HashIsOfBuilt(h)
    BY DEF Of, DocumentsInv
<1>2. IsTransfer(t) /\ IsLineage(l) /\ IsHandoff(h)
    BY <1>1, SchemaTells
<1>3. AreIdentified(t, l, h)
    BY DEF BuildBundle
<1>4. PICK b : b = BundleOf(identity, t, l, h, notes, createdAt)
    OBVIOUS
<1>5. /\ IsBundle(b) /\ BundleMatches(b)
      /\ b.transfer = t /\ b.lineage = l /\ b.handoff = h
      /\ b.invariants = Invariants(t, l, h)
    BY <1>2, <1>3, <1>4, BundleOfMatches
<1>6. built' = built \cup {b} /\ altered' = altered
    BY <1>4 DEF BuildBundle
<1>7. IsBuiltHash("handoff-record-1", h.hash)
    <2>1. ~ IsBundle(h)
        BY <1>1, <1>2, SchemaTells DEF IsBundle
    <2> QED
        BY <1>1, <2>1 DEF HashIsOfBuilt
<1>8. IsDocument(b) /\ Matches(b) /\ ~ IsHandoff(b)
    <2>1. IsDocument(b)
        BY <1>5 DEF IsDocument
    <2>2. ~ IsHandoff(b)
        BY <1>5 DEF IsBundle, IsHandoff
    <2> QED
        BY <1>5, <2>1, <2>2, VerifiedBySchema
<1>9. BuiltIsSound(b)
    BY <1>5, <1>8 DEF BuiltIsSound
<1> DEFINE N == {b}
<1>10. \A d \in N : /\ IsDocument(d) /\ BuiltIsSound(d)
                    /\ IsBundle(d) => IsBuiltHash("handoff-record-1", d.handoff.hash)
    BY <1>5, <1>7, <1>8, <1>9
<1>11. built' = built \cup N
    BY <1>6
<1> HIDE DEF N
<1> QED
    BY <1>6, <1>10, <1>11, BuiltKeeps

LEMMA AlterKeeps ==
    ASSUME DocumentsInv, NEW d \in Held, NEW copy \in Changed(d), Alter(d, copy)
    PROVE  DocumentsInv'
<1>1. altered' = altered \cup {copy} /\ built' = built /\ Held' = Held \cup {copy}
    BY DEF Alter, Held
<1>2. IsDocument(d) /\ HashIsOfBuilt(d)
    BY DEF DocumentsInv
<1>3. IsDocument(copy) /\ HashIsOfBuilt(copy)
    <2>1. CASE IsTransfer(d)
        <3>1. d.schema = "transfer-package-1"
            BY <1>2, <2>1, SchemaTells
        <3>2. copy \in ChangedTransfers(d)
            BY <3>1 DEF Changed
        <3>3. IsTransfer(copy) /\ copy.hash = d.hash
            BY <2>1, <3>2, ChangedTransferKeeps
        <3>4. ~ IsBundle(d) /\ ~ IsBundle(copy) /\ copy.schema = d.schema
            BY <2>1, <3>3 DEF IsTransfer, IsBundle
        <3> QED
            BY <1>2, <3>3, <3>4 DEF IsDocument, HashIsOfBuilt
    <2>2. CASE IsLineage(d)
        <3>1. d.schema = "lineage-binding-1"
            BY <1>2, <2>2, SchemaTells
        <3>2. copy \in ChangedLineages(d)
            BY <3>1 DEF Changed
        <3>3. IsLineage(copy) /\ copy.hash = d.hash
            BY <2>2, <3>2, ChangedLineageKeeps
        <3>4. ~ IsBundle(d) /\ ~ IsBundle(copy) /\ copy.schema = d.schema
            BY <2>2, <3>3 DEF IsLineage, IsBundle
        <3> QED
            BY <1>2, <3>3, <3>4 DEF IsDocument, HashIsOfBuilt
    <2>3. CASE IsHandoff(d)
        <3>1. d.schema = "handoff-record-1"
            BY <1>2, <2>3, SchemaTells
        <3>2. copy \in ChangedHandoffs(d)
            BY <3>1 DEF Changed
        <3>3. IsHandoff(copy) /\ copy.hash = d.hash
            BY <2>3, <3>2, ChangedHandoffKeeps
        <3>4. ~ IsBundle(d) /\ ~ IsBundle(copy) /\ copy.schema = d.schema
            BY <2>3, <3>3 DEF IsHandoff, IsBundle
        <3> QED
            BY <1>2, <3>3, <3>4 DEF IsDocument, HashIsOfBuilt
    <2>4. CASE IsBundle(d)
        <3>1. d.schema = "artifact-bundle-1"
            BY <1>2, <2>4, SchemaTells
        <3>2. copy \in ChangedBundles(d)
            BY <3>1 DEF Changed
        <3>3. /\ IsBundle(copy) /\ copy.hash \in {d.hash, NoHash}
              /\ copy.handoff.hash = d.handoff.hash
            BY <2>4, <3>2, ChangedBundleKeeps
        <3>4. copy.schema = d.schema
            BY <2>4, <3>3 DEF IsBundle
        <3> QED
            BY <1>2, <2>4, <3>3, <3>4 DEF IsDocument, HashIsOfBuilt
    <2> QED
        BY <1>2, <2>1, <2>2, <2>3, <2>4 DEF IsDocument
<1>4. ASSUME NEW c \in Held' PROVE IsDocument(c) /\ HashIsOfBuilt(c)'
    <2>1. IsDocument(c) /\ HashIsOfBuilt(c)
        BY <1>1, <1>3 DEF DocumentsInv
    <2> QED
        BY <1>1, <2>1 DEF HashIsOfBuilt, IsBuiltHash
<1>5. ASSUME NEW c \in built' PROVE BuiltIsSound(c)'
    <2>1. BuiltIsSound(c)
        BY <1>1 DEF DocumentsInv
    <2> QED
        BY <1>1, <2>1 DEF BuiltIsSound, MadeOfVerified
<1> QED
    BY <1>4, <1>5 DEF DocumentsInv

LEMMA StepKeeps == DocumentsInv /\ [Next]_vars => DocumentsInv'
<1> SUFFICES ASSUME DocumentsInv, [Next]_vars PROVE DocumentsInv'
    OBVIOUS
<1>1. CASE \E request \in TransferRequest : CreateTransfer(request)
    BY <1>1, CreateTransferKeeps
<1>2. CASE \E t \in Of("transfer-package-1", Held), request \in IngestRequest :
              Ingest(t, request)
    BY <1>2, IngestKeeps
<1>3. CASE \E t \in Of("transfer-package-1", Held), l \in Of("lineage-binding-1", Held),
              h \in Of("handoff-record-1", Held) :
              \E identity \in {t.identity.revision, None}, notes \in Trunks,
                 createdAt \in Times :
                  BuildBundle(identity, t, l, h, notes, createdAt)
    BY <1>3, BuildBundleKeeps
<1>4. CASE \E b \in Of("artifact-bundle-1", Held) : StoreBundle(b)
    <2> DEFINE N == {}
    <2>1. built' = built \cup N /\ altered' = altered
        BY <1>4 DEF StoreBundle
    <2>2. \A d \in N : /\ IsDocument(d) /\ BuiltIsSound(d)
                       /\ IsBundle(d) => IsBuiltHash("handoff-record-1", d.handoff.hash)
        OBVIOUS
    <2> HIDE DEF N
    <2> QED
        BY <2>1, <2>2, BuiltKeeps
<1>5. CASE \E d \in Held : \E copy \in Changed(d) : Alter(d, copy)
    BY <1>5, AlterKeeps
<1>6. CASE UNCHANGED vars
    <2> DEFINE N == {}
    <2>1. built' = built \cup N /\ altered' = altered
        BY <1>6 DEF vars
    <2>2. \A d \in N : /\ IsDocument(d) /\ BuiltIsSound(d)
                       /\ IsBundle(d) => IsBuiltHash("handoff-record-1", d.handoff.hash)
        OBVIOUS
    <2> HIDE DEF N
    <2> QED
        BY <2>1, <2>2, BuiltKeeps
<1> QED
    BY <1>1, <1>2, <1>3, <1>4, <1>5, <1>6 DEF Next

\* Everything held is a document, whatever was built has the hash of its content
\* and is made of what it says, and every hash is one that was computed for a built
\* document, however often documents are built, changed and given back. A built
\* document verifies, a handoff record but for the entries of its trunk.
THEOREM DocumentsInvariant == Spec => []DocumentsInv
<1>1. Init => DocumentsInv
    BY DEF Init, DocumentsInv, Held
<1> QED
    BY <1>1, StepKeeps, PTL DEF Spec

-----------------------------------------------------------------------------
(* What a hash vouches for *)

\* A copy that verifies says what some built document says.
LEMMA MatchingCopy ==
    ASSUME DocumentsInv, NEW d \in Held, Matches(d)
    PROVE  \E b \in built : b.hash = d.hash /\ Same(d, b)
<1>1. IsDocument(d) /\ HashIsOfBuilt(d)
    BY DEF DocumentsInv
<1>2. ~ (IsBundle(d) /\ d.hash = NoHash)
    <2>1. IsBundle(d) => d.hash = Sha(BundleContent(d))
        BY <1>1, VerifiedBySchema DEF BundleMatches
    <2> QED
        BY <2>1, ShaIsInjective
<1>3. PICK b \in built : b.schema = d.schema /\ b.hash = d.hash
    BY <1>1, <1>2 DEF HashIsOfBuilt, IsBuiltHash
<1>4. b \in Held /\ IsDocument(b) /\ BuiltIsSound(b)
    BY DEF DocumentsInv, Held
<1>5. CASE IsTransfer(d)
    <2>1. IsTransfer(b) /\ d.schema = "transfer-package-1"
        BY <1>1, <1>3, <1>4, <1>5, SchemaTells
    <2>2. TransferMatches(d) /\ TransferMatches(b)
        <3>1. ~ IsHandoff(b)
            BY <2>1 DEF IsTransfer, IsHandoff
        <3>2. Matches(b)
            BY <1>4, <3>1 DEF BuiltIsSound
        <3> QED
            BY <1>1, <1>4, <1>5, <2>1, <3>2, VerifiedBySchema
    <2>3. TransferContent(d) = TransferContent(b)
        BY <1>3, <2>2, ShaIsInjective DEF TransferMatches
    <2>4. SameTransfer(d, b)
        BY <1>5, <2>1, <2>3, TransferDetermined
    <2> QED
        BY <1>3, <2>1, <2>4 DEF Same
<1>6. CASE IsLineage(d)
    <2>1. IsLineage(b) /\ d.schema = "lineage-binding-1"
        BY <1>1, <1>3, <1>4, <1>6, SchemaTells
    <2>2. LineageMatches(d) /\ LineageMatches(b)
        <3>1. ~ IsHandoff(b)
            BY <2>1 DEF IsLineage, IsHandoff
        <3>2. Matches(b)
            BY <1>4, <3>1 DEF BuiltIsSound
        <3> QED
            BY <1>1, <1>4, <1>6, <2>1, <3>2, VerifiedBySchema
    <2>3. LineageContent(d) = LineageContent(b)
        BY <1>3, <2>2, ShaIsInjective DEF LineageMatches
    <2>4. SameLineage(d, b)
        BY <1>3, <1>6, <2>1, <2>3, LineageDetermined DEF SameLineage
    <2> QED
        BY <1>3, <2>1, <2>4 DEF Same
<1>7. CASE IsHandoff(d)
    <2>1. IsHandoff(b) /\ d.schema = "handoff-record-1"
        BY <1>1, <1>3, <1>4, <1>7, SchemaTells
    <2>2. HandoffMatches(d) /\ IsSealed(b)
        BY <1>1, <1>4, <1>7, <2>1, VerifiedBySchema DEF BuiltIsSound
    <2>3. HandoffContent(d) = HandoffContent(b)
        BY <1>3, <2>2, ShaIsInjective DEF HandoffMatches, IsSealed
    <2>4. SameHandoff(d, b)
        BY <1>7, <2>1, <2>3, HandoffDetermined
    <2> QED
        BY <1>3, <2>1, <2>4 DEF Same
<1>8. CASE IsBundle(d)
    <2>1. IsBundle(b) /\ d.schema = "artifact-bundle-1"
        BY <1>1, <1>3, <1>4, <1>8, SchemaTells
    <2>2. BundleMatches(d) /\ BundleMatches(b)
        <3>1. ~ IsHandoff(b)
            BY <2>1 DEF IsBundle, IsHandoff
        <3>2. Matches(b)
            BY <1>4, <3>1 DEF BuiltIsSound
        <3> QED
            BY <1>1, <1>4, <1>8, <2>1, <3>2, VerifiedBySchema
    <2>3. BundleContent(d) = BundleContent(b)
        BY <1>3, <2>2, ShaIsInjective DEF BundleMatches
    <2>4. SameBundle(d, b)
        BY <1>8, <2>1, <2>3, BundleDetermined
    <2> QED
        BY <1>3, <2>1, <2>4 DEF Same
<1> QED
    BY <1>1, <1>5, <1>6, <1>7, <1>8 DEF IsDocument

\* In every reachable state whatever the server has built verifies, but for a
\* handoff record of a package whose trunk had an entry that is no string, and a
\* changed copy that verifies says what a built document says, up to the order of
\* lists, the times, the note of what is missing and the values of another type
\* that a normaliser drops, however many copies there are and however often they
\* were changed.
THEOREM VerifiedStaysAsBuilt == Spec => []VerifiedIsAsBuilt
<1>1. DocumentsInv => VerifiedIsAsBuilt
    <2> SUFFICES ASSUME DocumentsInv PROVE VerifiedIsAsBuilt
        OBVIOUS
    <2>1. ASSUME NEW d \in built
          PROVE  Matches(d) \/ (d.schema = "handoff-record-1" /\ ~ ToSet(d.trunk) \subseteq Text)
        <3>1. IsDocument(d) /\ BuiltIsSound(d)
            BY DEF DocumentsInv, Held
        <3>2. CASE IsHandoff(d)
            <4>1. d.schema = "handoff-record-1" /\ IsSealed(d)
                BY <3>1, <3>2, SchemaTells DEF BuiltIsSound
            <4>2. ToSet(d.trunk) \subseteq Text => HandoffMatches(d)
                BY <4>1 DEF IsSealed, HandoffMatches
            <4> QED
                BY <3>1, <3>2, <4>1, <4>2, VerifiedBySchema
        <3>3. CASE ~ IsHandoff(d)
            BY <3>1, <3>3 DEF BuiltIsSound
        <3> QED
            BY <3>2, <3>3
    <2>2. \A d \in altered : Matches(d) => \E b \in built : Same(d, b)
        BY MatchingCopy DEF Held
    <2> QED
        BY <2>1, <2>2 DEF VerifiedIsAsBuilt
<1> QED
    BY <1>1, DocumentsInvariant, PTL

\* The parts of a bundle that verify, under recorded invariants that all hold, are
\* about one transfer package.
LEMMA PartsAgree ==
    ASSUME DocumentsInv, NEW b \in Of("artifact-bundle-1", Held), BundleMatches(b),
           \A code \in DOMAIN b.invariants : b.invariants[code],
           TransferMatches(b.transfer), LineageMatches(b.lineage),
           HandoffMatches(b.handoff)
    PROVE  LET t == b.transfer  h == b.handoff IN
           /\ t.hash = h.transfer /\ t.hash = b.lineage.transfer
           /\ t.identity = h.identity /\ t.identity = b.lineage.identity
           /\ Entries(Texts(t.trunk)) = Entries(h.trunk)
           /\ Entries(Mended(t.actions)) = Entries(Mended(h.actions))
<1> DEFINE t == b.transfer
           l == b.lineage
           h == b.handoff
<1>1. b \in Held /\ IsDocument(b) /\ IsBundle(b) /\ HashIsOfBuilt(b) /\ b.schema = "artifact-bundle-1"
    BY SchemaTells DEF Of, DocumentsInv
<1>2. IsTransfer(t) /\ IsLineage(l) /\ IsHandoff(h) /\ IsLineage(h.lineage)
    BY <1>1 DEF IsBundle, IsHandoff
\* The bundle is one that was built, in all that the invariants are about.
<1>3. /\ l.transfer = t.hash
      /\ h.lineage.hash = l.hash
    <2>1. Matches(b) /\ b.hash = Sha(BundleContent(b))
        BY <1>1, VerifiedBySchema DEF BundleMatches
    <2>2. IsBuiltHash(b.schema, b.hash)
        BY <1>1, <2>1, ShaIsInjective DEF HashIsOfBuilt
    <2>3. PICK c \in built : c.schema = b.schema /\ c.hash = b.hash
        BY <2>2 DEF IsBuiltHash
    <2>4. IsBundle(c) /\ BuiltIsSound(c)
        BY <1>1, <2>3, SchemaTells DEF DocumentsInv, Held
    <2>5. BundleMatches(c)
        <3>1. ~ IsHandoff(c) /\ IsDocument(c)
            BY <2>4 DEF IsBundle, IsHandoff, IsDocument
        <3> QED
            BY <2>4, <3>1, VerifiedBySchema DEF BuiltIsSound
    <2>6. BundleContent(b) = BundleContent(c)
        BY <2>1, <2>3, <2>5, ShaIsInjective DEF BundleMatches
    <2>7. SameBundle(b, c)
        BY <1>1, <2>4, <2>6, BundleDetermined
    <2>8. /\ b.invariants = c.invariants /\ t = c.transfer
          /\ SameLineage(l, c.lineage) /\ SameHandoff(h, c.handoff)
        BY <2>7 DEF SameBundle
    <2>9. /\ l.transfer = c.lineage.transfer /\ l.hash = c.lineage.hash
          /\ h.lineage.hash = c.handoff.lineage.hash
        BY <2>8 DEF SameLineage, SameHandoff
    <2>10. c.invariants = Invariants(t, c.lineage, c.handoff)
        BY <2>4, <2>8 DEF BuiltIsSound
    <2>11. c.invariants["transferMatchesLineage"] /\ c.invariants["embeddedMatchesTop"]
        <3>1. DOMAIN b.invariants =
                {"transferMatchesLineage", "embeddedMatchesTop", "noHandoffInLineage"}
            BY <2>8, <2>10 DEF Invariants
        <3> QED
            BY <2>8, <3>1
    <2>12. c.lineage.transfer = t.hash /\ c.handoff.lineage.hash = c.lineage.hash
        <3>1. /\ c.invariants["transferMatchesLineage"] = (c.lineage.transfer = t.hash)
              /\ c.invariants["embeddedMatchesTop"]
                   = (c.handoff.lineage.hash = c.lineage.hash)
            BY <2>10 DEF Invariants
        <3> QED
            BY <2>11, <3>1
    <2> QED
        BY <2>9, <2>12
\* The handoff is one that was built, of a verified transfer package.
<1>4. PICK g \in built : g.schema = "handoff-record-1" /\ g.hash = h.hash
    BY <1>1 DEF HashIsOfBuilt, IsBuiltHash
<1>5. IsHandoff(g) /\ BuiltIsSound(g) /\ IsDocument(g) /\ IsLineage(g.lineage)
    BY <1>4, SchemaTells DEF DocumentsInv, Held, IsHandoff
<1>6. IsSealed(g)
    BY <1>5 DEF BuiltIsSound
<1>7. HandoffContent(h) = HandoffContent(g)
    BY <1>4, <1>6, ShaIsInjective DEF HandoffMatches, IsSealed
<1>8. SameHandoff(h, g)
    BY <1>2, <1>5, <1>7, HandoffDetermined
<1>9. PICK s \in Held :
           /\ IsTransfer(s) /\ TransferMatches(s)
           /\ g.identity = s.identity /\ g.transfer = s.hash
           /\ g.trunk = s.trunk /\ g.actions = Sorted(Mended(s.actions))
           /\ g.lineage.identity = s.identity /\ g.lineage.transfer = s.hash
           /\ LineageMatches(g.lineage)
    BY <1>5 DEF BuiltIsSound, MadeOfVerified
\* Its lineage binding and the one of the bundle have one hash, and so one content.
<1>10. l.transfer = s.hash /\ l.identity = s.identity
    <2>1. g.lineage.hash = h.lineage.hash
        BY <1>8 DEF SameHandoff, SameLineage
    <2>2. g.lineage.hash = l.hash
        BY <1>3, <2>1
    <2>3. LineageContent(l) = LineageContent(g.lineage)
        BY <1>9, <2>2, ShaIsInjective DEF LineageMatches
    <2>4. l.transfer = g.lineage.transfer /\ l.identity = g.lineage.identity
        BY <1>2, <1>5, <2>3, LineageDetermined
    <2> QED
        BY <1>9, <2>4
\* And so have the two transfer packages.
<1>11. SameTransfer(t, s)
    <2>1. TransferContent(t) = TransferContent(s)
        BY <1>3, <1>9, <1>10, ShaIsInjective DEF TransferMatches
    <2> QED
        BY <1>2, <1>9, <2>1, TransferDetermined
<1>12. /\ h.identity = g.identity /\ h.transfer = g.transfer /\ h.trunk = g.trunk
       /\ Entries(Mended(h.actions)) = Entries(Mended(g.actions))
    BY <1>8 DEF SameHandoff
<1>13. /\ AsIdentity(t.identity) = AsIdentity(s.identity)
       /\ Entries(Texts(t.trunk)) = Entries(Texts(s.trunk))
       /\ Entries(Mended(t.actions)) = Entries(Mended(s.actions))
    BY <1>11 DEF SameTransfer
<1>14. t.identity = s.identity
    <2>1. t.identity.parent # Other
        BY DEF BundleMatches, AreIdentified, Identified
    <2>2. s.identity.parent # Other
        BY <1>6, <1>9 DEF IsSealed, Identified
    <2> QED
        BY <1>13, <2>1, <2>2 DEF AsIdentity
<1>15. Entries(Texts(t.trunk)) = Entries(h.trunk)
    <2>1. h.trunk \in Seq(Entry) /\ ToSet(h.trunk) \subseteq Text
        BY <1>2 DEF IsHandoff, HandoffMatches
    <2>2. /\ Len(h.trunk) \in Nat /\ DOMAIN h.trunk = 1..Len(h.trunk)
          /\ h.trunk \in [1..Len(h.trunk) -> Entry]
        BY <2>1, LenProperties
    <2>3. h.trunk \in [1..Len(h.trunk) -> Text]
        BY <2>1, <2>2 DEF ToSet
    <2>4. h.trunk \in Seq(Text)
        BY <2>2, <2>3
    <2>5. Texts(h.trunk) = h.trunk
        BY <2>4, TextsSorted
    <2> QED
        BY <1>9, <1>12, <1>13, <2>5
<1>16. Entries(Mended(g.actions)) = Entries(Mended(s.actions))
    <2>1. /\ IsList(Mended(s.actions))
          /\ Mended(Sorted(Mended(s.actions))) = Sorted(Mended(s.actions))
        BY <1>9, MendedIsList DEF IsTransfer
    <2>2. Entries(Sorted(Mended(s.actions))) = Entries(Mended(s.actions))
        BY <2>1, SortedEntries
    <2> QED
        BY <1>9, <2>1, <2>2
<1> QED
    BY <1>3, <1>9, <1>10, <1>12, <1>13, <1>14, <1>15, <1>16

\* In every reachable state a bundle that verifies, whose parts verify and which
\* records all invariants, is about one transfer package as the server built it,
\* though the verify of a bundle looks at none of its parts: of the package alone
\* up to values of another type that its hash does not see.
THEOREM BundleStaysOfOneTransfer == Spec => []BundleIsOfOneTransfer
<1>1. DocumentsInv => BundleIsOfOneTransfer
    <2> SUFFICES ASSUME DocumentsInv PROVE BundleIsOfOneTransfer
        OBVIOUS
    <2> QED
        BY PartsAgree DEF BundleIsOfOneTransfer
<1> QED
    BY <1>1, DocumentsInvariant, PTL
=============================================================================
