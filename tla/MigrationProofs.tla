---------------------------- MODULE MigrationProofs ----------------------------
(***************************************************************************)
(* Migration for every value of its constants: what an export that is      *)
(* answered "ok" has written, what an import that is answered "ok" has     *)
(* stored, that an accepted import is never refused, and that the target   *)
(* remains the ledger of ClosedDag.                                        *)
(***************************************************************************)
EXTENDS Migration, Induction

-----------------------------------------------------------------------------
(* The inductive invariant *)

\* The revisions of s lead from root to parent to parent, all in the set.
IsChain(s, root, set) ==
    /\ s \in Seq(Revision) /\ s # <<>> /\ s[1] = root
    /\ \A i \in 1..(Len(s) - 1) :
          s[i + 1] = RevisionNode[s[i]].parent /\ s[i + 1] \in set

Ended(s) == RevisionNode[s[Len(s)]].parent = None

ExportAnswer ==
    {"none", "ok", "ERR_MIGRATION_CLOSURE_INCOMPLETE", "interrupted"} \cup Broken

Exporter == [pc: {"idle", "findRevision", "findArtifact", "references", "done"},
             root: Revision \cup {None}, current: Revision \cup {None},
             line: Seq(Revision), i: Nat, found: SUBSET Bundle,
             pending: Seq(Bundle), whole: BOOLEAN, answer: ExportAnswer]

PackageFile == [root: Revision \cup {None}, lines: Seq(Bundle), artifactCount: Nat,
                revisionCount: Nat, repacked: BOOLEAN]

Importer == [pc: {"idle", "storeBundle", "findStored", "insertRevision", "done"},
             root: Revision \cup {None}, bundles: Seq(Bundle),
             chain: Seq(Revision), i: Nat, answer: ExportAnswer \cup {"P2002"}]

MigrationType ==
    /\ held \in [Ledger -> SUBSET Bundle]
    /\ revs \in [Ledger -> SUBSET Revision]
    /\ exporter \in Exporter
    /\ package \in PackageFile
    /\ importer \in Importer

\* What createRevision looks up before it stores a revision.
RestsIn(l, r) ==
    LET node == RevisionNode[r] IN
    /\ node.parent # None =>
          node.parent \in revs[l] /\ RevisionNode[node.parent].packageId = node.packageId
    /\ \A i \in DOMAIN node.artifacts : HeldIn(l, node.packageId, node.artifacts[i])

LedgersAreClosed == \A l \in Ledger : \A r \in revs[l] : RestsIn(l, r)

PackageIsOfSource == package # NoPackage => package.root \in revs["source"]

\* The artifact i of the j-th visited revision has been read.
IsRead(e, j, i) == j < Len(e.line) \/ e.pc # "findArtifact" \/ i < e.i

\* A found document was read under its own hash, or as an artifact whose
\* normalised form it is.
FoundInSource(e, n) ==
    \/ n \in held["source"]
    \/ \E j \in DOMAIN e.line : \E i \in DOMAIN RevisionNode[e.line[j]].artifacts :
          LET a == RevisionNode[e.line[j]].artifacts[i] IN
          a # n /\ Content[a].normal = n

\* What the closure under construction holds.
ClosureIsSound(e) ==
    /\ \A n \in e.found : /\ Content[n].normal = n
                          /\ ToSet(Content[n].references) \subseteq e.found \cup ToSet(e.pending)
                          /\ FoundInSource(e, n)
    /\ \A j \in DOMAIN e.line : \A i \in DOMAIN RevisionNode[e.line[j]].artifacts :
          IsRead(e, j, i) => Content[RevisionNode[e.line[j]].artifacts[i]].normal \in e.found
    /\ IsPlain(e.root) => e.found \cup ToSet(e.pending) \subseteq RestsOn[e.root]
    /\ e.whole => RestsOn[e.root] \subseteq held["source"]

LineIsSound(e) ==
    /\ e.root \in Revision
    /\ e.line # <<>> =>
          IsChain(e.line, e.root, Revision) /\ ToSet(e.line) \subseteq revs["source"]
    /\ e.pc = "findRevision" =>
          /\ e.current \in Revision
          /\ IF e.line = <<>> THEN e.current = e.root
             ELSE e.current = RevisionNode[e.line[Len(e.line)]].parent
    /\ e.pc = "findArtifact" =>
          /\ e.line # <<>> /\ e.current = e.line[Len(e.line)]
          /\ e.i \in DOMAIN RevisionNode[e.current].artifacts
    /\ e.pc = "references" => e.line # <<>> /\ Ended(e.line)

ExporterIsSound ==
    /\ exporter.pc \notin {"idle", "done"} =>
          LineIsSound(exporter) /\ ClosureIsSound(exporter) /\ package = NoPackage
    /\ exporter.pc # "done" => exporter.answer = NoAnswer

\* What a validated package has the import store.
PlanIsSound(m) ==
    /\ m.root \in Revision
    /\ m.bundles # <<>> /\ m.chain # <<>>
    /\ m.chain[Len(m.chain)] = m.root
    /\ RevisionNode[m.chain[1]].parent = None
    /\ \A j \in 1..(Len(m.chain) - 1) : RevisionNode[m.chain[j + 1]].parent = m.chain[j]
    /\ ToSet(m.chain) = LineOf[m.root]
    /\ ToSet(m.chain) \subseteq {Content[b].carries : b \in ToSet(m.bundles)}
    /\ ToSet(m.chain) \subseteq revs["source"]
    /\ RestsOn[m.root] \subseteq ToSet(m.bundles)

BundlesAreStored(m) == ToSet(m.bundles) \subseteq held["target"]

ImporterIsSound ==
    LET m == importer IN
    /\ m.bundles # <<>> => PlanIsSound(m)
    /\ m.pc = "storeBundle" =>
          /\ m.i \in DOMAIN m.bundles
          /\ \A j \in 1..(m.i - 1) : m.bundles[j] \in held["target"]
    /\ m.pc \in {"findStored", "insertRevision"} =>
          /\ m.bundles # <<>> /\ m.i \in DOMAIN m.chain
          /\ BundlesAreStored(m)
          /\ \A j \in 1..(m.i - 1) : m.chain[j] \in revs["target"]
    /\ m.answer = "ok" =>
          /\ m.bundles # <<>>
          /\ BundlesAreStored(m)
          /\ ToSet(m.chain) \subseteq revs["target"]
    /\ m.pc # "done" => m.answer = NoAnswer
    /\ AcceptedImportCompletes

MigrationInv ==
    /\ MigrationType
    /\ LedgersAreClosed
    /\ PackageIsOfSource
    /\ ExporterIsSound
    /\ ExportVerdictIsExact
    /\ ImporterIsSound

-----------------------------------------------------------------------------
(* Lines of revisions *)

\* A chain and its elements.
LEMMA ChainType ==
    ASSUME NEW s, NEW root, NEW set, IsChain(s, root, set)
    PROVE  /\ Len(s) \in Nat \ {0} /\ DOMAIN s = 1..Len(s) /\ 1 \in DOMAIN s /\ Len(s) \in DOMAIN s
           /\ \A i \in 1..Len(s) : s[i] \in Revision
           /\ ToSet(s) = {s[i] : i \in 1..Len(s)} /\ ToSet(s) \subseteq Revision
           /\ Last(s) = s[Len(s)]
<1>1. s \in Seq(Revision) /\ s # <<>>
    BY DEF IsChain
<1>2. Len(s) \in Nat /\ DOMAIN s = 1..Len(s) /\ s \in [1..Len(s) -> Revision] /\ Len(s) # 0
    BY <1>1, LenProperties, EmptySeq
<1>3. ToSet(s) = {s[i] : i \in 1..Len(s)}
    BY <1>2 DEF ToSet
<1> QED
    BY <1>2, <1>3 DEF Last

\* No revision comes twice: no hash covers itself.
LEMMA ChainIsDistinct ==
    ASSUME NEW s, NEW root, NEW set, IsChain(s, root, set)
    PROVE  \A i, j \in 1..Len(s) : s[i] = s[j] => i = j
<1>1. ASSUME NEW i \in 1..Len(s), NEW j \in 1..Len(s), s[i] = s[j], i < j PROVE FALSE
    <2> DEFINE S == {s[k] : k \in i..(j - 1)}
    <2>1. Len(s) \in Nat /\ \A k \in 1..Len(s) : s[k] \in Revision
        BY ChainType
    <2>2. S \in SUBSET Revision /\ s[i] \in S
        BY <1>1, <2>1
    <2>3. PICK r \in S : RevisionNode[r].parent \notin S
        BY <2>2, ParentsAreOlder
    <2>4. PICK k \in i..(j - 1) : r = s[k]
        BY <2>3
    <2>5. k \in 1..(Len(s) - 1) /\ (k + 1 = j \/ k + 1 \in i..(j - 1))
        BY <1>1, <2>1, <2>4
    <2>6. RevisionNode[r].parent = s[k + 1]
        BY <2>4, <2>5 DEF IsChain
    <2>7. s[k + 1] \in S
        BY <1>1, <2>2, <2>5
    <2> QED
        BY <2>3, <2>6, <2>7
<1>2. Len(s) \in Nat
    BY ChainType
<1> QED
    BY <1>1, <1>2

\* The parents of a chain's revisions are in the set, and each is another one.
LEMMA ChainIsShort ==
    ASSUME NEW s, NEW root, NEW set \in SUBSET Revision, IsChain(s, root, set)
    PROVE  IsFiniteSet(set) /\ Cardinality(set) \in Nat /\ Len(s) - 1 <= Cardinality(set)
<1>1. IsFiniteSet(set) /\ Cardinality(set) \in Nat
    BY HashesAreFinite, FS_Subset, FS_CardinalityType
<1>2. Len(s) \in Nat \ {0} /\ \A i \in 1..Len(s) : s[i] \in Revision
    BY ChainType
<1> DEFINE n == Len(s) - 1
           t == [i \in 1..n |-> s[i + 1]]
<1>3. n \in Nat
    BY <1>2
<1>4. \A i \in 1..n : s[i + 1] \in set /\ i + 1 \in 1..Len(s)
    <2>1. \A i \in 1..n : s[i + 1] \in set
        BY DEF IsChain
    <2>2. \A i \in 1..n : i + 1 \in 1..Len(s)
        BY <1>2
    <2> QED
        BY <2>1, <2>2
<1>5. t \in Seq(set) /\ Len(t) = n
    BY <1>3, <1>4
<1>6. \A i, j \in 1..Len(t) : t[i] = t[j] => i = j
    BY <1>3, <1>4, <1>5, ChainIsDistinct
<1>7. Cardinality(ToSet(t)) = n
    BY <1>5, <1>6, LengthOfDistinct
<1>8. ToSet(t) \subseteq set
    BY <1>4, <1>5 DEF ToSet
<1> QED
    BY <1>1, <1>3, <1>7, <1>8, FS_Subset

\* A chain grows by a parent that is in the set.
LEMMA ChainGrows ==
    ASSUME NEW s, NEW root, NEW set \in SUBSET Revision, IsChain(s, root, set),
           RevisionNode[s[Len(s)]].parent \in set
    PROVE  LET t == Append(s, RevisionNode[s[Len(s)]].parent) IN
           IsChain(t, root, set) /\ Len(t) = Len(s) + 1
<1> DEFINE p == RevisionNode[s[Len(s)]].parent
           t == Append(s, p)
<1>1. s \in Seq(Revision) /\ Len(s) \in Nat \ {0} /\ p \in Revision
    BY ChainType DEF IsChain
<1> HIDE DEF p
<1>2. /\ t \in Seq(Revision) /\ Len(t) = Len(s) + 1 /\ t[Len(s) + 1] = p
      /\ \A i \in 1..Len(s) : t[i] = s[i]
    BY <1>1, AppendProperties
<1> HIDE DEF t
<1>3. t # <<>> /\ t[1] = root
    BY <1>1, <1>2 DEF IsChain
<1>4. ASSUME NEW i \in 1..(Len(t) - 1)
      PROVE  t[i + 1] = RevisionNode[t[i]].parent /\ t[i + 1] \in set
    <2>1. CASE i = Len(s)
        BY <1>1, <1>2, <2>1 DEF p
    <2>2. CASE i # Len(s)
        <3>1. i \in 1..(Len(s) - 1) /\ i + 1 \in 1..Len(s) /\ i \in 1..Len(s)
            BY <1>1, <1>2, <2>2
        <3> QED
            BY <1>2, <3>1 DEF IsChain
    <2> QED
        BY <2>1, <2>2
<1> QED
    BY <1>2, <1>3, <1>4 DEF IsChain, t, p

\* Of two chains from the same root the one that ends is not the shorter.
LEMMA ChainsAgree ==
    ASSUME NEW s, NEW t, NEW root, NEW S, NEW T \in SUBSET Revision,
           IsChain(s, root, S), IsChain(t, root, T), S \subseteq T,
           RevisionNode[t[Len(t)]].parent \notin T
    PROVE  Len(s) <= Len(t) /\ \A i \in 1..Len(s) : s[i] = t[i]
<1>1. Len(s) \in Nat \ {0} /\ Len(t) \in Nat \ {0}
    BY ChainType
<1> DEFINE P == {n \in Nat : n + 1 <= Len(s) => n + 1 <= Len(t) /\ s[n + 1] = t[n + 1]}
<1>2. 0 \in P
    BY <1>1 DEF IsChain
<1>3. ASSUME NEW n \in Nat, n \in P, (n + 1) + 1 <= Len(s)
      PROVE  (n + 1) + 1 <= Len(t) /\ s[(n + 1) + 1] = t[(n + 1) + 1]
    <2>1. n + 1 \in 1..(Len(s) - 1) /\ n + 1 <= Len(t) /\ s[n + 1] = t[n + 1]
        BY <1>1, <1>3
    <2>2. s[(n + 1) + 1] = RevisionNode[s[n + 1]].parent /\ s[(n + 1) + 1] \in T
        BY <2>1 DEF IsChain
    <2>3. n + 1 # Len(t)
        BY <2>1, <2>2
    <2>4. n + 1 \in 1..(Len(t) - 1)
        BY <1>1, <2>1, <2>3
    <2>5. t[(n + 1) + 1] = RevisionNode[t[n + 1]].parent
        BY <2>4 DEF IsChain
    <2> QED
        BY <1>1, <2>1, <2>2, <2>4, <2>5
<1>4. \A n \in Nat : n \in P => n + 1 \in P
    BY <1>3
<1>5. Nat \subseteq P
    <2> HIDE DEF P
    <2> QED
        BY <1>2, <1>4, InductionOnSet
<1>6. ASSUME NEW i \in 1..Len(s) PROVE i <= Len(t) /\ s[i] = t[i]
    <2>1. i - 1 \in Nat /\ (i - 1) + 1 = i /\ i <= Len(s)
        BY <1>1
    <2>2. i - 1 \in P
        BY <1>5, <2>1
    <2> QED
        BY <2>1, <2>2
<1> QED
    BY <1>1, <1>6


\* sortRevisionsAncestorFirst follows parents from the root until there is no
\* other in the set.
LEMMA ChainFromIsChain ==
    ASSUME NEW root \in Revision, NEW set \in SUBSET Revision
    PROVE  LET c == ChainFrom(root, set) IN
           IsChain(c, root, set) /\ RevisionNode[c[Len(c)]].parent \notin set
<1> DEFINE V == {s \in Seq(Revision) : IsChain(s, root, set)}
           Longer(s) == LET parent == RevisionNode[Last(s)].parent
                        IN  IF parent \in set THEN Append(s, parent) ELSE s
           g == [s \in V |-> Longer(s)]
           Walks(w) == w = [n \in Nat |->
                              IF n = 0 THEN <<root>>
                              ELSE LET parent == RevisionNode[Last(w[n - 1])].parent
                                   IN  IF parent \in set THEN Append(w[n - 1], parent)
                                       ELSE w[n - 1]]
           walk == CHOOSE w : Walks(w)
           N == Cardinality(set)
<1>1. <<root>> \in V
    <2>1. /\ <<root>> \in Seq(Revision) /\ Len(<<root>>) = 1 /\ <<root>> # <<>>
          /\ <<root>>[1] = root
        OBVIOUS
    <2> QED
        BY <2>1 DEF IsChain
<1>2. ASSUME NEW s \in V
      PROVE  /\ Longer(s) \in V
             /\ \/ Len(Longer(s)) = Len(s) + 1
                \/ Longer(s) = s /\ RevisionNode[s[Len(s)]].parent \notin set
    <2>1. IsChain(s, root, set) /\ Last(s) = s[Len(s)]
        BY ChainType
    <2>2. CASE RevisionNode[s[Len(s)]].parent \in set
        <3>1. Longer(s) = Append(s, RevisionNode[s[Len(s)]].parent)
            BY <2>1, <2>2
        <3>2. IsChain(Longer(s), root, set) /\ Len(Longer(s)) = Len(s) + 1
            BY <2>1, <2>2, <3>1, ChainGrows
        <3>3. Longer(s) \in Seq(Revision)
            BY <3>2 DEF IsChain
        <3> QED
            BY <3>2, <3>3
    <2>3. CASE RevisionNode[s[Len(s)]].parent \notin set
        BY <2>1, <2>3
    <2> QED
        BY <2>2, <2>3
<1>3. g \in [V -> V]
    BY <1>2
<1> HIDE DEF V, Longer
<1>4. PICK f \in [Nat -> V] : f[0] = <<root>> /\ \A n \in Nat : f[n + 1] = g[f[n]]
    <2>1. PICK a \in V : a = <<root>>
        BY <1>1
    <2> HIDE DEF g
    <2>2. \E f \in [Nat -> V] : f[0] = a /\ \A n \in Nat : f[n + 1] = g[f[n]]
        BY <1>3, Iteration
    <2> QED
        BY <2>1, <2>2
<1>5. \A n \in Nat : f[n + 1] = Longer(f[n])
    BY <1>4
<1>6. Walks(f)
    <2>1. ASSUME NEW n \in Nat
          PROVE  f[n] = IF n = 0 THEN <<root>>
                        ELSE LET parent == RevisionNode[Last(f[n - 1])].parent
                             IN  IF parent \in set THEN Append(f[n - 1], parent)
                                 ELSE f[n - 1]
        <3>1. CASE n = 0
            BY <1>4, <3>1
        <3>2. CASE n # 0
            <4>1. n - 1 \in Nat /\ (n - 1) + 1 = n
                BY <3>2
            <4>2. f[n] = Longer(f[n - 1])
                BY <1>5, <4>1
            <4> QED
                BY <3>2, <4>2 DEF Longer
        <3> QED
            BY <3>1, <3>2
    <2> QED
        BY <1>4, <2>1
<1>7. Walks(walk)
    BY <1>6
<1>8. ChainFrom(root, set) = walk[N]
    BY DEF ChainFrom
<1> HIDE DEF walk
<1>9. walk[0] = <<root>> /\ \A n \in Nat : walk[n + 1] = Longer(walk[n])
    <2>1. walk[0] = <<root>>
        BY <1>7
    <2>2. ASSUME NEW n \in Nat PROVE walk[n + 1] = Longer(walk[n])
        <3>1. n + 1 \in Nat /\ n + 1 # 0 /\ (n + 1) - 1 = n
            OBVIOUS
        <3> QED
            BY <1>7, <3>1 DEF Longer
    <2> QED
        BY <2>1, <2>2
<1> HIDE DEF Walks
<1> DEFINE Ends(s) == RevisionNode[s[Len(s)]].parent \notin set
           P == {n \in Nat : walk[n] \in V /\ (Len(walk[n]) = n + 1 \/ Ends(walk[n]))}
<1>10. Nat \subseteq P
    <2>1. 0 \in P
        <3>1. walk[0] \in V /\ Len(walk[0]) = 0 + 1
            BY <1>1, <1>9
        <3> QED
            BY <3>1
    <2>2. ASSUME NEW n \in Nat, n \in P PROVE n + 1 \in P
        <3>1. walk[n] \in V /\ walk[n + 1] = Longer(walk[n])
            BY <1>9, <2>2
        <3> DEFINE s == walk[n]
        <3>2. /\ Longer(s) \in V
              /\ \/ Len(Longer(s)) = Len(s) + 1
                 \/ Longer(s) = s /\ Ends(s)
            BY <1>2, <3>1
        <3>3. Len(s) = n + 1 \/ Ends(s)
            BY <2>2
        <3>4. ASSUME Ends(s) PROVE Longer(s) = s
            BY <3>1, <3>4, ChainType DEF Longer, V
        <3> HIDE DEF s
        <3>5. Len(Longer(s)) = (n + 1) + 1 \/ Ends(Longer(s))
            BY <3>2, <3>3, <3>4
        <3>6. n + 1 \in Nat
            OBVIOUS
        <3> QED
            BY <3>1, <3>2, <3>5, <3>6 DEF s
    <2> HIDE DEF P
    <2> QED
        BY <2>1, <2>2, InductionOnSet
<1>11. N \in Nat
    BY HashesAreFinite, FS_Subset, FS_CardinalityType
<1> DEFINE c == walk[N]
<1>12. IsChain(c, root, set) /\ (Len(c) = N + 1 \/ Ends(c))
    BY <1>10, <1>11 DEF V
<1> HIDE DEF c
<1>13. Ends(c)
    <2> SUFFICES ASSUME ~ Ends(c), Len(c) = N + 1 PROVE FALSE
        BY <1>12
    <2>1. \E t : IsChain(t, root, set) /\ Len(t) = Len(c) + 1
        BY <1>12, ChainGrows
    <2>2. Len(c) + 1 - 1 <= N
        BY <2>1, ChainIsShort
    <2> QED
        BY <1>11, <2>2
<1> QED
    BY <1>8, <1>12, <1>13 DEF c


\* The line of a revision is its only chain that ends at a revision without
\* a parent, and holds every chain that starts from it.
LEMMA LineOfIsChain ==
    ASSUME NEW root \in Revision, NEW s, NEW set \in SUBSET Revision,
           IsChain(s, root, set)
    PROVE  /\ ToSet(s) \subseteq LineOf[root]
           /\ Ended(s) => LineOf[root] = ToSet(s)
           /\ Ended(s) /\ ToSet(s) \subseteq set => ChainFrom(root, set) = s
<1> DEFINE t == ChainFrom(root, Revision)
           c == ChainFrom(root, set)
<1>1. IsChain(t, root, Revision) /\ RevisionNode[t[Len(t)]].parent \notin Revision
    BY ChainFromIsChain
<1>2. IsChain(c, root, set) /\ RevisionNode[c[Len(c)]].parent \notin set
    BY ChainFromIsChain
<1>3. LineOf[root] = ToSet(t)
    BY DEF LineOf
<1> HIDE DEF t, c
<1>4. /\ ToSet(s) = {s[i] : i \in 1..Len(s)} /\ Len(s) \in Nat /\ s \in Seq(Revision)
      /\ ToSet(t) = {t[i] : i \in 1..Len(t)} /\ Len(t) \in Nat
      /\ Len(c) \in Nat /\ c \in Seq(Revision)
    BY <1>1, <1>2, ChainType DEF IsChain
<1>5. Len(s) <= Len(t) /\ \A i \in 1..Len(s) : s[i] = t[i]
    BY <1>1, ChainsAgree
<1>6. ToSet(s) \subseteq LineOf[root]
    BY <1>3, <1>4, <1>5
<1>7. ASSUME Ended(s) PROVE LineOf[root] = ToSet(s)
    <2>1. RevisionNode[s[Len(s)]].parent \notin Revision
        BY <1>7, NotRevisions DEF Ended
    <2>2. IsChain(s, root, Revision)
        BY DEF IsChain
    <2>3. Len(t) <= Len(s) /\ \A i \in 1..Len(t) : t[i] = s[i]
        BY <1>1, <2>1, <2>2, ChainsAgree
    <2>4. ASSUME NEW i \in 1..Len(t) PROVE t[i] \in ToSet(s)
        <3>1. i \in 1..Len(s) /\ t[i] = s[i]
            BY <1>4, <2>3
        <3> QED
            BY <1>4, <3>1
    <2> QED
        BY <1>3, <1>4, <1>6, <2>4
<1>8. ASSUME Ended(s) PROVE c = s
    <2>1. RevisionNode[s[Len(s)]].parent \notin set
        BY <1>8, NotRevisions DEF Ended
    <2>2. Len(c) <= Len(s) /\ \A i \in 1..Len(c) : c[i] = s[i]
        BY <1>2, <2>1, ChainsAgree
    <2>3. Len(s) <= Len(c)
        BY <1>2, ChainsAgree
    <2>4. Len(c) = Len(s)
        BY <1>4, <2>2, <2>3
    <2> QED
        BY <1>4, <2>2, <2>4, SeqEqual
<1> QED
    BY <1>6, <1>7, <1>8 DEF c

\* A ledger that holds a revision, and of every revision the parent, holds its
\* line.
LEMMA ChainIsStored ==
    ASSUME NEW s, NEW root, NEW set, NEW stored, IsChain(s, root, set), root \in stored,
           \A r \in stored : RevisionNode[r].parent # None => RevisionNode[r].parent \in stored,
           None \notin set
    PROVE  ToSet(s) \subseteq stored
<1>1. Len(s) \in Nat \ {0} /\ ToSet(s) = {s[i] : i \in 1..Len(s)}
    BY ChainType
<1> DEFINE P == {n \in Nat : n + 1 <= Len(s) => s[n + 1] \in stored}
<1>2. 0 \in P
    BY DEF IsChain
<1>3. ASSUME NEW n \in Nat, n \in P, (n + 1) + 1 <= Len(s)
      PROVE  s[(n + 1) + 1] \in stored
    <2>1. n + 1 \in 1..(Len(s) - 1) /\ s[n + 1] \in stored
        BY <1>1, <1>3
    <2>2. s[(n + 1) + 1] = RevisionNode[s[n + 1]].parent /\ s[(n + 1) + 1] # None
        BY <2>1 DEF IsChain
    <2> QED
        BY <2>1, <2>2
<1>4. \A n \in Nat : n \in P => n + 1 \in P
    BY <1>3
<1>5. Nat \subseteq P
    <2> HIDE DEF P
    <2> QED
        BY <1>2, <1>4, InductionOnSet
<1>6. ASSUME NEW i \in 1..Len(s) PROVE s[i] \in stored
    <2>1. i - 1 \in Nat /\ (i - 1) + 1 = i /\ i <= Len(s)
        BY <1>1
    <2>2. i - 1 \in P
        BY <1>5, <2>1
    <2> QED
        BY <2>1, <2>2
<1> QED
    BY <1>1, <1>6

-----------------------------------------------------------------------------
(* What a revision rests on *)

\* The artifacts that the revisions of a set name.
Named(set) == UNION {ToSet(RevisionNode[x].artifacts) : x \in set}

\* The least set that holds the artifacts of the line and all references.
LEMMA RestsOnIsLeast ==
    ASSUME NEW r \in Revision
    PROVE  /\ Named(LineOf[r]) \subseteq RestsOn[r]
           /\ \A b \in RestsOn[r] : b \in Bundle /\ ToSet(Content[b].references) \subseteq RestsOn[r]
           /\ \A S \in SUBSET Bundle :
                Named(LineOf[r]) \subseteq S
                /\ (\A b \in S : ToSet(Content[b].references) \subseteq S)
                => RestsOn[r] \subseteq S
<1> DEFINE Closed(S) == \A b \in S : ToSet(Content[b].references) \subseteq S
<1>1. RestsOn[r] = {b \in Bundle : \A S \in SUBSET Bundle :
                        Named(LineOf[r]) \subseteq S /\ Closed(S) => b \in S}
    BY DEF RestsOn, Named
<1>2. LineOf[r] \in SUBSET Revision
    <2>1. IsChain(ChainFrom(r, Revision), r, Revision)
        BY ChainFromIsChain
    <2> QED
        BY <2>1, ChainType DEF LineOf
<1>3. Named(LineOf[r]) \subseteq Bundle
    BY <1>2, NodeType DEF Named, ToSet
<1>4. \A b \in Bundle : ToSet(Content[b].references) \subseteq Bundle
    BY ContentType DEF ToSet
<1> QED
    BY <1>1, <1>3, <1>4


-----------------------------------------------------------------------------
(* The validation of a package *)

\* The elements of a sequence of bundles, and the revisions they carry.
LEMMA LinesType ==
    ASSUME NEW lines \in Seq(Bundle)
    PROVE  /\ Len(lines) \in Nat /\ DOMAIN lines = 1..Len(lines)
           /\ \A i \in DOMAIN lines : lines[i] \in ToSet(lines)
           /\ ToSet(lines) \in SUBSET Bundle
           /\ IsFiniteSet(CarriedBy(lines)) /\ Cardinality(CarriedBy(lines)) \in Nat
<1>1. /\ Len(lines) \in Nat /\ DOMAIN lines = 1..Len(lines)
      /\ lines \in [1..Len(lines) -> Bundle]
    BY LenProperties
<1>2. ToSet(lines) \in SUBSET Bundle /\ \A i \in DOMAIN lines : lines[i] \in ToSet(lines)
    BY <1>1 DEF ToSet
<1> DEFINE X == {x \in ToSet(lines) : Carries(x)}
           f == [b \in X |-> Content[b].carries]
<1>3. IsFiniteSet(X)
    BY <1>2, HashesAreFinite, FS_Subset
<1>4. f \in Surjection(X, CarriedBy(lines))
    BY DEF Surjection, CarriedBy
<1> HIDE DEF X, f
<1>5. IsFiniteSet(CarriedBy(lines))
    BY <1>3, <1>4, FS_Surjection
<1> QED
    BY <1>1, <1>2, <1>5, FS_CardinalityType

\* No line of a package whose first fault is none has one.
LEMMA FirstFaultIsFirst ==
    ASSUME NEW lines \in Seq(Bundle)
    PROVE  \/ FirstFault(lines) = "ok" /\ \A i \in DOMAIN lines : LineFault(lines, i) = "ok"
           \/ \E i \in DOMAIN lines : FirstFault(lines) = LineFault(lines, i)
                                      /\ LineFault(lines, i) # "ok"
<1> DEFINE faulty == {i \in DOMAIN lines : LineFault(lines, i) # "ok"}
<1>1. CASE faulty = {}
    BY <1>1 DEF FirstFault
<1>2. CASE faulty # {}
    <2>1. faulty \in SUBSET Nat
        BY LinesType
    <2>2. \E m \in faulty : \A k \in faulty : m <= k
        <3> HIDE DEF faulty
        <3> QED
            BY <1>2, <2>1, LeastNumber
    <2> DEFINE m == CHOOSE i \in faulty : \A j \in faulty : i <= j
    <2>3. m \in faulty
        <3> HIDE DEF faulty
        <3> QED
            BY <2>2
    <2>4. FirstFault(lines) = LineFault(lines, m)
        BY <1>2 DEF FirstFault
    <2> HIDE DEF m
    <2> QED
        BY <2>3, <2>4
<1> QED
    BY <1>1, <1>2

\* The answers of the validation.
LEMMA VerdictType ==
    ASSUME NEW p \in PackageFile
    PROVE  Verdict(p) \in {"ok", "ERR_MIGRATION_CLOSURE_INCOMPLETE"} \cup Broken
<1>1. p.lines \in Seq(Bundle)
    BY DEF PackageFile
<1>2. \A i : LineFault(p.lines, i) \in {"ok"} \cup Broken
    BY DEF LineFault, Broken
<1>3. FirstFault(p.lines) \in {"ok"} \cup Broken
    BY <1>1, <1>2, FirstFaultIsFirst
<1> QED
    BY <1>3 DEF Verdict, Broken

\* A package that is found in order: each line comes once and has the carried
\* revision's package, the carried revisions are the root's line, and all that
\* the root rests on is inside.
LEMMA GoodPackage ==
    ASSUME NEW p \in PackageFile, Verdict(p) = "ok"
    PROVE  /\ \A i, j \in DOMAIN p.lines : p.lines[i] = p.lines[j] => i = j
           /\ \A b \in ToSet(p.lines) : Carries(b) =>
                 /\ Content[b].carries \in Revision
                 /\ Content[b].packageId = RevisionNode[Content[b].carries].packageId
           /\ p.root \in Revision
           /\ LET c == ChainFrom(p.root, CarriedBy(p.lines)) IN
              IsChain(c, p.root, Revision) /\ Ended(c) /\ ToSet(c) = LineOf[p.root]
           /\ CarriedBy(p.lines) = LineOf[p.root]
           /\ RestsOn[p.root] \subseteq ToSet(p.lines)
<1> DEFINE lines == p.lines
           carried == CarriedBy(lines)
           c == ChainFrom(p.root, carried)
<1>1. lines \in Seq(Bundle)
    BY DEF PackageFile
<1>2. \A i \in DOMAIN lines : LineFault(lines, i) = "ok"
    BY <1>1, FirstFaultIsFirst DEF Verdict
<1>3. ReferencesAreInside(lines) /\ LineIsComplete(p.root, carried) /\ ArtifactsAreInside(lines)
    BY DEF Verdict
<1> HIDE DEF lines
<1>4. Len(lines) \in Nat /\ DOMAIN lines = 1..Len(lines) /\ ToSet(lines) \in SUBSET Bundle
    BY <1>1, LinesType
<1>5. ASSUME NEW i \in DOMAIN lines, NEW j \in DOMAIN lines, lines[i] = lines[j], i < j PROVE FALSE
    <2>1. i \in 1..(j - 1)
        BY <1>4, <1>5
    <2> QED
        BY <1>2, <1>5, <2>1 DEF LineFault
<1>6. \A i, j \in DOMAIN lines : lines[i] = lines[j] => i = j
    BY <1>4, <1>5
<1>7. ASSUME NEW b \in ToSet(lines), Carries(b)
      PROVE  /\ Content[b].carries \in Revision
             /\ Content[b].packageId = RevisionNode[Content[b].carries].packageId
    <2>1. PICK i \in DOMAIN lines : lines[i] = b
        BY DEF ToSet
    <2>2. LineFault(lines, i) = "ok"
        BY <1>2
    <2>3. Content[b].carries \in Revision \cup {None} \cup Broken
        BY <1>4, ContentType
    <2> QED
        BY <1>7, <2>1, <2>2, <2>3 DEF LineFault, Carries, Broken
<1>8. carried \in SUBSET Revision
    BY <1>7 DEF CarriedBy
<1>9. p.root \in Revision
    BY <1>3, <1>8 DEF LineIsComplete
<1>10. IsChain(c, p.root, carried) /\ Ended(c) /\ ToSet(c) = carried
    <2>1. IsChain(c, p.root, carried)
        BY <1>8, <1>9, ChainFromIsChain
    <2> QED
        BY <1>3, <2>1, ChainType DEF LineIsComplete, Ended
<1>11. LineOf[p.root] = carried /\ IsChain(c, p.root, Revision)
    <2> HIDE DEF carried, c
    <2> QED
        BY <1>8, <1>9, <1>10, LineOfIsChain DEF IsChain
<1>12. RestsOn[p.root] \subseteq ToSet(lines)
    <2>1. Named(LineOf[p.root]) \subseteq ToSet(lines)
        BY <1>3, <1>11 DEF ArtifactsAreInside, Named
    <2>2. \A b \in ToSet(lines) : ToSet(Content[b].references) \subseteq ToSet(lines)
        BY <1>3 DEF ReferencesAreInside
    <2> QED
        BY <1>4, <1>9, <2>1, <2>2, RestsOnIsLeast
<1> QED
    BY <1>6, <1>7, <1>9, <1>10, <1>11, <1>12 DEF lines


-----------------------------------------------------------------------------
(* What a step leaves alone *)

\* Nothing is removed from a ledger.
Grows ==
    /\ \A l \in Ledger : held[l] \subseteq held'[l] /\ revs[l] \subseteq revs'[l]
    /\ held' \in [Ledger -> SUBSET Bundle] /\ revs' \in [Ledger -> SUBSET Revision]

\* What a revision rests on stays.
LEMMA RestsInGrows ==
    ASSUME Grows, NEW l \in Ledger, NEW r, RestsIn(l, r)
    PROVE  RestsIn(l, r)'
BY DEF Grows, RestsIn, HeldIn

\* A ledger stays closed when what is stored rests in it.
LEMMA LedgersStayClosed ==
    ASSUME LedgersAreClosed, Grows,
           \A l \in Ledger : \A r \in revs'[l] : r \in revs[l] \/ RestsIn(l, r)
    PROVE  LedgersAreClosed'
<1>1. ASSUME NEW l \in Ledger, NEW r \in revs'[l] PROVE RestsIn(l, r)'
    BY <1>1, RestsInGrows DEF LedgersAreClosed
<1> QED
    BY <1>1 DEF LedgersAreClosed

\* An export that takes no step stays sound.
LEMMA ExporterFrame ==
    ASSUME MigrationInv, Grows, UNCHANGED <<exporter, package>>
    PROVE  ExporterIsSound' /\ ExportVerdictIsExact' /\ PackageIsOfSource'
<1>1. "source" \in Ledger
    BY DEF Ledger
<1>2. held["source"] \subseteq held'["source"] /\ revs["source"] \subseteq revs'["source"]
    BY <1>1 DEF Grows
<1>3. ASSUME NEW e, LineIsSound(e) PROVE LineIsSound(e)'
    BY <1>2, <1>3 DEF LineIsSound
<1>4. ASSUME NEW e, ClosureIsSound(e) PROVE ClosureIsSound(e)'
    BY <1>2, <1>4 DEF ClosureIsSound, FoundInSource
<1>5. ExporterIsSound'
    <2>1. PICK e : e = exporter
        OBVIOUS
    <2> HIDE DEF MigrationInv
    <2>2. e.pc \notin {"idle", "done"} => LineIsSound(e)' /\ ClosureIsSound(e)'
        BY <1>3, <1>4, <2>1 DEF MigrationInv, ExporterIsSound
    <2>3. exporter' = e
        BY <2>1
    <2> QED
        BY <2>1, <2>2, <2>3 DEF MigrationInv, ExporterIsSound
<1>6. ExportVerdictIsExact'
    BY <1>2 DEF MigrationInv, ExportVerdictIsExact
<1>7. PackageIsOfSource'
    BY <1>2 DEF MigrationInv, PackageIsOfSource
<1> QED
    BY <1>5, <1>6, <1>7

\* An import that takes no step stays sound.
LEMMA ImporterFrame ==
    ASSUME MigrationInv, Grows, UNCHANGED importer
    PROVE  ImporterIsSound'
<1>1. "source" \in Ledger /\ "target" \in Ledger
    BY DEF Ledger
<1>2. /\ revs["source"] \subseteq revs'["source"]
      /\ held["target"] \subseteq held'["target"] /\ revs["target"] \subseteq revs'["target"]
    BY <1>1 DEF Grows
<1>3. ASSUME NEW m, PlanIsSound(m) PROVE PlanIsSound(m)'
    BY <1>2, <1>3 DEF PlanIsSound
<1>4. ASSUME NEW m, BundlesAreStored(m) PROVE BundlesAreStored(m)'
    BY <1>2, <1>4 DEF BundlesAreStored
<1>5. PICK m : m = importer
    OBVIOUS
<1>6. importer' = m
    BY <1>5
<1>7. /\ m.bundles # <<>> => PlanIsSound(m)'
      /\ BundlesAreStored(m) => BundlesAreStored(m)'
    BY <1>3, <1>4, <1>5 DEF MigrationInv, ImporterIsSound
<1> QED
    BY <1>2, <1>5, <1>6, <1>7 DEF MigrationInv, ImporterIsSound, AcceptedImportCompletes

\* A step of neither the export nor the import.
LEMMA LedgerFrame ==
    ASSUME MigrationInv, Grows, UNCHANGED <<exporter, package, importer>>,
           \A l \in Ledger : \A r \in revs'[l] : r \in revs[l] \/ RestsIn(l, r)
    PROVE  MigrationInv'
<1>1. LedgersAreClosed'
    BY LedgersStayClosed DEF MigrationInv
<1>2. MigrationType'
    BY DEF MigrationInv, MigrationType, Grows
<1> QED
    BY <1>1, <1>2, ExporterFrame, ImporterFrame DEF MigrationInv

\* A step of the export that leaves the ledgers alone.
LEMMA ExportFrame ==
    ASSUME MigrationInv, UNCHANGED <<held, revs, importer>>, package' \in PackageFile,
           exporter' \in Exporter, PackageIsOfSource', ExporterIsSound', ExportVerdictIsExact'
    PROVE  MigrationInv'
<1>1. Grows
    BY DEF MigrationInv, MigrationType, Grows
<1>2. MigrationType'
    BY DEF MigrationInv, MigrationType
<1>3. LedgersAreClosed'
    BY <1>1, LedgersStayClosed DEF MigrationInv
<1> QED
    BY <1>1, <1>2, <1>3, ImporterFrame DEF MigrationInv

\* A step of the import.
LEMMA ImportFrame ==
    ASSUME MigrationInv, Grows, UNCHANGED <<exporter, package>>,
           importer' \in Importer, ImporterIsSound',
           \A l \in Ledger : \A r \in revs'[l] : r \in revs[l] \/ RestsIn(l, r)
    PROVE  MigrationInv'
<1>1. MigrationType'
    BY DEF MigrationInv, MigrationType, Grows
<1>2. LedgersAreClosed'
    BY LedgersStayClosed DEF MigrationInv
<1> QED
    BY <1>1, <1>2, ExporterFrame DEF MigrationInv

-----------------------------------------------------------------------------
(* Ordinary requests *)

LEMMA StoreArtifactKeeps ==
    ASSUME MigrationInv, NEW l \in Ledger, NEW b \in Bundle, StoreArtifact(l, b)
    PROVE  MigrationInv'
<1>1. Grows
    BY DEF MigrationInv, MigrationType, StoreArtifact, Grows
<1> QED
    BY <1>1, LedgerFrame DEF StoreArtifact

LEMMA StoreRevisionKeeps ==
    ASSUME MigrationInv, NEW l \in Ledger, NEW r \in Revision, StoreRevision(l, r)
    PROVE  MigrationInv'
<1>1. Grows
    BY DEF MigrationInv, MigrationType, StoreRevision, Grows
<1>2. RestsIn(l, r)
    BY DEF StoreRevision, RestsIn
<1>3. \A k \in Ledger : \A x \in revs'[k] : x \in revs[k] \/ RestsIn(k, x)
    BY <1>2 DEF MigrationInv, MigrationType, StoreRevision
<1> QED
    BY <1>1, <1>3, LedgerFrame DEF StoreRevision


-----------------------------------------------------------------------------
(* The export *)

\* A reply changes what is next and the answer.
LEMMA ExportReplies ==
    ASSUME exporter \in Exporter, NEW a \in ExportAnswer, ExportReply(a)
    PROVE  /\ exporter' \in Exporter
           /\ exporter'.pc = "done" /\ exporter'.answer = a
           /\ exporter'.root = exporter.root /\ exporter'.line = exporter.line
           /\ exporter'.whole = exporter.whole
<1>1. exporter' = [pc |-> "done", root |-> exporter.root, current |-> exporter.current,
                   line |-> exporter.line, i |-> exporter.i, found |-> exporter.found,
                   pending |-> exporter.pending, whole |-> exporter.whole, answer |-> a]
    BY DEF ExportReply, Exporter
<1> QED
    BY <1>1 DEF Exporter

\* A reply that says nothing wrong of the ledger.
LEMMA ExportReplyKeeps ==
    ASSUME MigrationInv, UNCHANGED <<held, revs, package, importer>>,
           NEW a \in ExportAnswer, ExportReply(a), a # "ok",
           a \in Broken => ~IsPlain(exporter.root),
           a = "ERR_MIGRATION_CLOSURE_INCOMPLETE" =>
              \/ exporter.line = <<>> \/ ~IsPlain(exporter.root) \/ ~exporter.whole
    PROVE  MigrationInv'
<1>1. /\ exporter' \in Exporter
      /\ exporter'.pc = "done" /\ exporter'.answer = a
      /\ exporter'.root = exporter.root /\ exporter'.line = exporter.line
      /\ exporter'.whole = exporter.whole
    BY ExportReplies DEF MigrationInv, MigrationType
<1>2. ExporterIsSound'
    BY <1>1 DEF ExporterIsSound
<1>4. ExportVerdictIsExact'
    BY <1>1 DEF ExportVerdictIsExact, IsPlain
<1>5. PackageIsOfSource'
    BY DEF MigrationInv, PackageIsOfSource
<1>6. package' \in PackageFile
    BY DEF MigrationInv, MigrationType
<1> QED
    BY <1>1, <1>2, <1>4, <1>5, <1>6, ExportFrame

LEMMA BeginExportKeeps ==
    ASSUME MigrationInv, NEW r \in Revision, BeginExport(r)
    PROVE  MigrationInv'
<1> DEFINE w == RestsOn[r] \subseteq held["source"]
<1>0. w \in BOOLEAN
    OBVIOUS
<1> HIDE DEF w
<1>1. exporter' = [pc |-> "findRevision", root |-> r, current |-> r, line |-> <<>>,
                   i |-> 0, found |-> {}, pending |-> <<>>, whole |-> w,
                   answer |-> NoAnswer]
    BY DEF BeginExport, IdleExporter, w
<1>2. exporter' \in Exporter
    BY <1>0, <1>1 DEF Exporter, ExportAnswer, NoAnswer
<1>3. package' = package /\ package = NoPackage /\ held' = held /\ revs' = revs
      /\ importer' = importer
    BY DEF BeginExport, SourceIsOpen
<1> PICK q : q = exporter'
    OBVIOUS
<1>4. LineIsSound(q)'
    BY <1>1, <1>3 DEF LineIsSound
<1>5. ClosureIsSound(q)'
    <2>1. q.found = {} /\ q.line = <<>> /\ q.pending = <<>> /\ q.root = r /\ q.whole = w
        BY <1>1
    <2>2. DOMAIN q.line = {} /\ ToSet(q.pending) = {}
        BY <2>1 DEF ToSet
    <2>3. w => RestsOn[r] \subseteq held'["source"]
        BY <1>3 DEF w
    <2>4. IsPlain(q.root)' => (q.found \cup ToSet(q.pending) \subseteq RestsOn[q.root])'
        BY <2>1, <2>2
    <2> QED
        BY <2>1, <2>2, <2>3 DEF ClosureIsSound
<1>6. ExporterIsSound'
    BY <1>1, <1>3, <1>4, <1>5 DEF ExporterIsSound
<1>7. ExportVerdictIsExact'
    BY <1>1 DEF ExportVerdictIsExact, NoAnswer, Broken
<1>8. PackageIsOfSource' /\ package' \in PackageFile
    BY <1>3 DEF MigrationInv, MigrationType, PackageIsOfSource
<1> QED
    BY <1>2, <1>3, <1>6, <1>7, <1>8, ExportFrame

\* An export goes on.
LEMMA ExportGoesOn ==
    ASSUME MigrationInv, UNCHANGED <<held, revs, package, importer>>,
           exporter.pc \notin {"idle", "done"}, NEW q \in Exporter, exporter' = q,
           q.pc \notin {"idle", "done"}, q.answer = exporter.answer,
           LineIsSound(q), ClosureIsSound(q)
    PROVE  MigrationInv'
<1>1. LineIsSound(q)'
    BY DEF LineIsSound
<1>2. ClosureIsSound(q)'
    BY DEF ClosureIsSound, FoundInSource
<1>3. package = NoPackage /\ q.answer = NoAnswer
    BY DEF MigrationInv, ExporterIsSound
<1>4. ExporterIsSound'
    BY <1>1, <1>2, <1>3 DEF ExporterIsSound
<1>5. ExportVerdictIsExact'
    BY <1>3 DEF ExportVerdictIsExact, NoAnswer, Broken
<1>6. PackageIsOfSource' /\ package' \in PackageFile
    BY DEF MigrationInv, MigrationType, PackageIsOfSource
<1> QED
    BY <1>4, <1>5, <1>6, ExportFrame

LEMMA FindRevisionKeeps ==
    ASSUME MigrationInv, FindRevision
    PROVE  MigrationInv'
<1> DEFINE e == exporter
<1>1. /\ e \in Exporter /\ e.pc = "findRevision" /\ LineIsSound(e) /\ ClosureIsSound(e)
      /\ UNCHANGED <<held, revs, package, importer>>
    BY DEF MigrationInv, MigrationType, ExporterIsSound, FindRevision
<1>2. /\ e.root \in Revision /\ e.current \in Revision /\ e.line \in Seq(Revision)
      /\ Len(e.line) \in Nat /\ DOMAIN e.line = 1..Len(e.line)
    BY <1>1 DEF LineIsSound, Exporter
\* The parent of a stored revision is stored.
<1>3. CASE e.current \notin revs["source"]
    <2>1. e.line = <<>>
        <3> SUFFICES ASSUME e.line # <<>> PROVE FALSE
            OBVIOUS
        <3>1. IsChain(e.line, e.root, Revision) /\ ToSet(e.line) \subseteq revs["source"]
            BY <1>1 DEF LineIsSound
        <3>2. e.current = RevisionNode[e.line[Len(e.line)]].parent
            BY <1>1 DEF LineIsSound
        <3>3. e.line[Len(e.line)] \in revs["source"]
            BY <3>1, ChainType
        <3>4. RestsIn("source", e.line[Len(e.line)])
            BY <3>3 DEF MigrationInv, LedgersAreClosed, Ledger
        <3> QED
            BY <1>2, <1>3, <3>2, <3>4, NotRevisions DEF RestsIn
    <2>2. PICK a : a = "ERR_MIGRATION_CLOSURE_INCOMPLETE"
        OBVIOUS
    <2>3. ExportReply(a)
        BY <1>3, <2>2 DEF FindRevision
    <2>4. a \in ExportAnswer
        BY <2>2 DEF ExportAnswer
    <2>5. a # "ok" /\ a \notin Broken
        BY <2>2 DEF Broken
    <2> QED
        BY <1>1, <2>1, <2>3, <2>4, <2>5, ExportReplyKeeps
<1>4. CASE e.current \in revs["source"]
    <2> DEFINE t == Append(e.line, e.current)
    <2>1. /\ t \in Seq(Revision) /\ Len(t) = Len(e.line) + 1 /\ t[Len(t)] = e.current
          /\ \A j \in 1..Len(e.line) : t[j] = e.line[j]
        BY <1>2, AppendProperties
    <2>2. IsChain(t, e.root, Revision)
        <3>1. CASE e.line = <<>>
            <4>1. t # <<>> /\ Len(t) = 1 /\ t[1] = e.root
                BY <1>1, <2>1, <3>1 DEF LineIsSound
            <4> QED
                BY <2>1, <4>1 DEF IsChain
        <3>2. CASE e.line # <<>>
            <4>1. IsChain(e.line, e.root, Revision)
                  /\ e.current = RevisionNode[e.line[Len(e.line)]].parent
                BY <1>1, <3>2 DEF LineIsSound
            <4> QED
                BY <1>2, <4>1, ChainGrows
        <3> QED
            BY <3>1, <3>2
    <2> HIDE DEF t
\* A revision is never met again.
    <2>3. e.current \notin ToSet(e.line)
        <3> SUFFICES ASSUME e.current \in ToSet(e.line) PROVE FALSE
            OBVIOUS
        <3>1. PICK j \in 1..Len(e.line) : e.current = e.line[j]
            BY <1>2 DEF ToSet
        <3>2. t[j] = t[Len(t)] /\ j # Len(t) /\ j \in 1..Len(t) /\ Len(t) \in 1..Len(t)
            BY <1>2, <2>1, <3>1
        <3> QED
            BY <2>2, <3>2, ChainIsDistinct
    <2>4. PICK q : q = [e EXCEPT !.pc = "findArtifact", !.i = 1, !.line = t]
        OBVIOUS
    <2>5. exporter' = q
        BY <1>4, <2>3, <2>4 DEF FindRevision, t
    <2>6. q = [pc |-> "findArtifact", root |-> e.root, current |-> e.current, line |-> t,
               i |-> 1, found |-> e.found, pending |-> e.pending, whole |-> e.whole,
               answer |-> e.answer]
        BY <1>1, <2>4 DEF Exporter
    <2>7. q \in Exporter
        BY <1>1, <2>1, <2>6 DEF Exporter
    <2>8. DOMAIN RevisionNode[e.current].artifacts = 1..Len(RevisionNode[e.current].artifacts)
          /\ Len(RevisionNode[e.current].artifacts) \in Nat \ {0}
        BY <1>2, NodeType, LenProperties, EmptySeq
    <2>9. ToSet(t) \subseteq revs["source"]
        <3>1. ASSUME NEW j \in 1..Len(t) PROVE t[j] \in revs["source"]
            <4>1. CASE j = Len(t)
                BY <1>4, <2>1, <4>1
            <4>2. CASE j # Len(t)
                <5>1. j \in 1..Len(e.line) /\ e.line # <<>>
                    BY <1>2, <2>1, <4>2
                <5>2. e.line[j] \in ToSet(e.line)
                    BY <1>2, <5>1 DEF ToSet
                <5> QED
                    BY <1>1, <2>1, <5>1, <5>2 DEF LineIsSound
            <4> QED
                BY <4>1, <4>2
        <3> QED
            BY <2>2, <3>1, ChainType
    <2>10. LineIsSound(q)
        BY <1>2, <2>1, <2>2, <2>6, <2>8, <2>9 DEF LineIsSound
    <2>11. ClosureIsSound(q)
        <3>1. ASSUME NEW n \in e.found PROVE FoundInSource(q, n)
            <4>1. FoundInSource(e, n)
                BY <1>1 DEF ClosureIsSound
            <4>2. DOMAIN q.line = 1..Len(t)
                BY <2>1, <2>6
            <4>3. \A j \in DOMAIN e.line : j \in DOMAIN q.line /\ q.line[j] = e.line[j]
                BY <1>2, <2>1, <2>6, <4>2
            <4> QED
                BY <4>1, <4>3 DEF FoundInSource
        <3>2. ASSUME NEW j \in DOMAIN q.line, NEW i \in DOMAIN RevisionNode[q.line[j]].artifacts,
                     IsRead(q, j, i)
              PROVE  Content[RevisionNode[q.line[j]].artifacts[i]].normal \in q.found
            <4>0. j \in 1..Len(t)
                BY <2>1, <2>6
            <4>1. j < Len(t)
                <5> SUFFICES ASSUME j = Len(t) PROVE FALSE
                    BY <2>1, <1>2, <4>0
                <5>1. i \in DOMAIN RevisionNode[e.current].artifacts
                    BY <2>1, <2>6
                <5>2. i >= 1
                    BY <2>8, <5>1
                <5> QED
                    BY <2>6, <3>2, <5>2, <1>2, <2>1, <2>8, <5>1 DEF IsRead
            <4>2. j \in DOMAIN e.line /\ q.line[j] = e.line[j]
                BY <1>2, <2>1, <2>6, <4>0, <4>1
            <4>3. IsRead(e, j, i)
                BY <1>1 DEF IsRead
            <4> QED
                BY <1>1, <2>6, <4>2, <4>3 DEF ClosureIsSound
        <3> QED
            BY <1>1, <2>6, <3>1, <3>2 DEF ClosureIsSound
    <2> QED
        BY <1>1, <2>5, <2>6, <2>7, <2>10, <2>11, ExportGoesOn
<1> QED
    BY <1>3, <1>4


\* What a document becomes when it is normalised is normal.
LEMMA NormalOf ==
    ASSUME NEW b \in Bundle
    PROVE  LET n == Content[b].normal IN
           /\ n \in Bundle /\ Content[n].normal = n
           /\ Content[n].references \in Seq(Bundle)
<1>1. Content[b].normal \in Bundle
    BY ContentType
<1>2. PICK n : n = Content[b].normal
    OBVIOUS
<1>3. Content[n] = [Content[b] EXCEPT !.references = Content[n].references]
    BY <1>2, NormalIsNormal
<1>4. Content[n].normal = Content[b].normal
    BY <1>3, ContentType
<1>5. Content[n].references \in Seq(Bundle)
    BY <1>1, <1>2, ContentType
<1> QED
    BY <1>1, <1>2, <1>4, <1>5

\* A document that was read is in the closure under its normalised hash, and
\* its references are in it or are to be looked up.
LEMMA GatheredType ==
    ASSUME NEW e \in Exporter, NEW b \in Bundle
    PROVE  LET q == Gathered(e, b)
               n == Content[b].normal
           IN  /\ q \in Exporter
               /\ q.pc = e.pc /\ q.root = e.root /\ q.current = e.current /\ q.line = e.line
               /\ q.i = e.i /\ q.whole = e.whole /\ q.answer = e.answer
               /\ q.found = e.found \cup {n}
               /\ ToSet(e.pending) \subseteq ToSet(q.pending)
               /\ ToSet(q.pending) \subseteq ToSet(e.pending) \cup ToSet(Content[n].references)
               /\ n \in e.found \/ ToSet(Content[n].references) \subseteq ToSet(q.pending)
<1>1. PICK n : n = Content[b].normal
    OBVIOUS
<1>2. n \in Bundle /\ Content[n].references \in Seq(Bundle)
    BY <1>1, NormalOf
<1>3. CASE n \in e.found
    <2>1. Gathered(e, b) = e
        BY <1>1, <1>3 DEF Gathered
    <2> QED
        BY <1>1, <1>3, <2>1
<1>4. CASE n \notin e.found
    <2>1. PICK t : t = e.pending \o Content[n].references
        OBVIOUS
    <2>2. t \in Seq(Bundle) /\ ToSet(t) = ToSet(e.pending) \cup ToSet(Content[n].references)
        <3>1. e.pending \in Seq(Bundle)
            BY DEF Exporter
        <3> QED
            BY <1>2, <2>1, <3>1, ElementsOfConcat
    <2>3. PICK q : q = [e EXCEPT !.found = e.found \cup {n}, !.pending = t]
        OBVIOUS
    <2>4. Gathered(e, b) = q
        BY <1>1, <1>4, <2>1, <2>3 DEF Gathered
    <2>5. q = [pc |-> e.pc, root |-> e.root, current |-> e.current, line |-> e.line,
               i |-> e.i, found |-> e.found \cup {n}, pending |-> t, whole |-> e.whole,
               answer |-> e.answer]
        BY <2>3 DEF Exporter
    <2>6. q \in Exporter
        BY <1>2, <2>2, <2>5 DEF Exporter
    <2> QED
        BY <1>1, <2>2, <2>4, <2>5, <2>6
<1> QED
    BY <1>3, <1>4

\* The closure with an artifact that was read: q differs from the exporter in
\* where it goes on.
LEMMA GatheredIsSound ==
    ASSUME MigrationInv, exporter.pc = "findArtifact", NEW q \in Exporter,
           NEW b \in Bundle, b = RevisionNode[exporter.current].artifacts[exporter.i],
           b \in held["source"],
           q.root = exporter.root, q.line = exporter.line, q.whole = exporter.whole,
           q.found = Gathered(exporter, b).found,
           q.pending = Gathered(exporter, b).pending,
           \A i \in DOMAIN RevisionNode[exporter.current].artifacts :
              IsRead(q, Len(q.line), i) => i = exporter.i \/ i < exporter.i
    PROVE  ClosureIsSound(q)
<1> DEFINE n == Content[b].normal
           e == exporter
<1>1. e \in Exporter /\ LineIsSound(e) /\ ClosureIsSound(e)
    BY DEF MigrationInv, MigrationType, ExporterIsSound
<1>2. n \in Bundle /\ Content[n].normal = n /\ Content[n].references \in Seq(Bundle)
    BY NormalOf
<1>3. /\ q.found = e.found \cup {n}
      /\ ToSet(e.pending) \subseteq ToSet(q.pending)
      /\ ToSet(q.pending) \subseteq ToSet(e.pending) \cup ToSet(Content[n].references)
      /\ n \in e.found \/ ToSet(Content[n].references) \subseteq ToSet(q.pending)
    BY <1>1, GatheredType
<1> HIDE DEF n
<1>4. /\ e.root \in Revision /\ e.line # <<>> /\ IsChain(e.line, e.root, Revision)
      /\ e.current = e.line[Len(e.line)] /\ e.i \in DOMAIN RevisionNode[e.current].artifacts
    BY <1>1 DEF LineIsSound
<1>5. Len(e.line) \in Nat \ {0} /\ DOMAIN e.line = 1..Len(e.line)
      /\ Len(e.line) \in DOMAIN e.line
    BY <1>4, ChainType
<1>6. ASSUME NEW m \in q.found
      PROVE  /\ Content[m].normal = m
             /\ ToSet(Content[m].references) \subseteq q.found \cup ToSet(q.pending)
             /\ FoundInSource(q, m)
    <2>1. CASE m \in e.found
        <3>1. FoundInSource(e, m)
            BY <1>1, <2>1 DEF ClosureIsSound
        <3>2. FoundInSource(q, m)
            BY <3>1 DEF FoundInSource
        <3> QED
            BY <1>1, <1>3, <2>1, <3>2 DEF ClosureIsSound
    <2>2. CASE m = n /\ n \notin e.found
        <3>1. FoundInSource(q, m)
            BY <1>4, <1>5, <2>2 DEF FoundInSource, n
        <3> QED
            BY <1>2, <1>3, <2>2, <3>1
    <2> QED
        BY <1>3, <2>1, <2>2
<1>7. ASSUME NEW j \in DOMAIN q.line, NEW i \in DOMAIN RevisionNode[q.line[j]].artifacts,
             IsRead(q, j, i)
      PROVE  Content[RevisionNode[q.line[j]].artifacts[i]].normal \in q.found
    <2>1. CASE j = Len(e.line) /\ i = e.i
        BY <1>3, <1>4, <2>1 DEF n
    <2>2. CASE ~ (j = Len(e.line) /\ i = e.i)
        <3>1. IsRead(e, j, i)
            BY <1>4, <1>5, <1>7, <2>2 DEF IsRead
        <3> QED
            BY <1>1, <1>3, <3>1 DEF ClosureIsSound
    <2> QED
        BY <2>1, <2>2
<1>8. ASSUME IsPlain(q.root) PROVE q.found \cup ToSet(q.pending) \subseteq RestsOn[q.root]
    <2>1. e.current \in LineOf[e.root]
        <3>1. e.current \in ToSet(e.line)
            BY <1>4, ChainType
        <3>2. ToSet(e.line) \subseteq LineOf[e.root]
            BY <1>4, LineOfIsChain
        <3> QED
            BY <3>1, <3>2
    <2>2. b \in Named(LineOf[e.root])
        <3>1. b \in ToSet(RevisionNode[e.current].artifacts)
            BY <1>4 DEF ToSet
        <3> QED
            BY <2>1, <3>1 DEF Named
    <2>3. b \in RestsOn[e.root]
        BY <1>4, <2>2, RestsOnIsLeast
    <2>4. n = b
        BY <1>8, <2>3 DEF IsPlain, n
    <2>5. ToSet(Content[n].references) \subseteq RestsOn[e.root]
        BY <1>4, <2>3, <2>4, RestsOnIsLeast
    <2>6. e.found \cup ToSet(e.pending) \subseteq RestsOn[e.root]
        BY <1>1, <1>8 DEF ClosureIsSound
    <2> QED
        BY <1>3, <2>3, <2>4, <2>5, <2>6
<1>9. q.whole => RestsOn[q.root] \subseteq held["source"]
    BY <1>1 DEF ClosureIsSound
<1> QED
    BY <1>6, <1>7, <1>8, <1>9 DEF ClosureIsSound

LEMMA FindArtifactKeeps ==
    ASSUME MigrationInv, FindArtifact
    PROVE  MigrationInv'
<1> DEFINE e == exporter
           node == RevisionNode[e.current]
<1>1. /\ e \in Exporter /\ e.pc = "findArtifact" /\ LineIsSound(e) /\ ClosureIsSound(e)
      /\ UNCHANGED <<held, revs, package, importer>>
    BY DEF MigrationInv, MigrationType, ExporterIsSound, FindArtifact
<1>2. /\ e.root \in Revision /\ e.line # <<>> /\ IsChain(e.line, e.root, Revision)
      /\ ToSet(e.line) \subseteq revs["source"]
      /\ e.current = e.line[Len(e.line)] /\ e.i \in DOMAIN node.artifacts
    BY <1>1 DEF LineIsSound
<1>3. e.current \in Revision /\ e.current \in revs["source"]
    BY <1>2, ChainType
<1>4. /\ node.artifacts \in Seq(Bundle) /\ node.parent \in Revision \cup {None}
      /\ Len(node.artifacts) \in Nat /\ DOMAIN node.artifacts = 1..Len(node.artifacts)
    BY <1>3, NodeType, LenProperties
<1> DEFINE b == node.artifacts[e.i]
\* The artifacts of a stored revision are stored.
<1>5. HeldIn("source", node.packageId, b)
    BY <1>2, <1>3 DEF MigrationInv, LedgersAreClosed, Ledger, RestsIn
<1>6. b \in Bundle /\ b \in held["source"]
    BY <1>2, <1>4, <1>5 DEF HeldIn
<1> DEFINE g == Gathered(e, b)
<1>7. /\ g \in Exporter
      /\ g.pc = e.pc /\ g.root = e.root /\ g.current = e.current /\ g.line = e.line
      /\ g.i = e.i /\ g.whole = e.whole /\ g.answer = e.answer
    BY <1>1, <1>6, GatheredType
<1>8. exporter' = IF e.i < Len(node.artifacts) THEN [g EXCEPT !.i = g.i + 1]
                  ELSE IF node.parent = None THEN [g EXCEPT !.pc = "references"]
                  ELSE [g EXCEPT !.pc = "findRevision", !.current = node.parent]
    <2> HIDE DEF g
    <2> QED
        BY <1>5, <1>7 DEF FindArtifact, g
<1> HIDE DEF g
<1>9. PICK q : q = exporter'
    OBVIOUS
<1>10. CASE e.i < Len(node.artifacts)
    <2>1. q = [pc |-> "findArtifact", root |-> e.root, current |-> e.current,
               line |-> e.line, i |-> e.i + 1, found |-> g.found, pending |-> g.pending,
               whole |-> e.whole, answer |-> e.answer]
        BY <1>1, <1>7, <1>8, <1>9, <1>10 DEF Exporter
    <2>2. e.i \in Nat /\ e.i + 1 \in DOMAIN node.artifacts
        BY <1>2, <1>4, <1>10
    <2>3. q \in Exporter
        BY <1>1, <1>7, <2>1, <2>2 DEF Exporter
    <2>4. \A i \in DOMAIN node.artifacts : IsRead(q, Len(q.line), i) => i = e.i \/ i < e.i
        BY <1>4, <2>1, <2>2, <1>2, ChainType DEF IsRead
    <2>5. ClosureIsSound(q)
        BY <1>1, <1>6, <2>1, <2>3, <2>4, GatheredIsSound DEF g
    <2>6. LineIsSound(q)
        BY <1>2, <2>1, <2>2 DEF LineIsSound
    <2> QED
        BY <1>1, <1>9, <2>1, <2>3, <2>5, <2>6, ExportGoesOn
<1>11. CASE ~ (e.i < Len(node.artifacts))
    <2>1. \A i \in DOMAIN node.artifacts : i = e.i \/ i < e.i
        BY <1>2, <1>4, <1>11
    <2>2. CASE node.parent = None
        <3>1. q = [pc |-> "references", root |-> e.root, current |-> e.current,
                   line |-> e.line, i |-> e.i, found |-> g.found, pending |-> g.pending,
                   whole |-> e.whole, answer |-> e.answer]
            BY <1>1, <1>7, <1>8, <1>9, <1>11, <2>2 DEF Exporter
        <3>2. q \in Exporter
            BY <1>1, <1>7, <3>1 DEF Exporter
        <3>3. ClosureIsSound(q)
            BY <1>1, <1>6, <2>1, <3>1, <3>2, GatheredIsSound DEF g
        <3>4. LineIsSound(q)
            BY <1>2, <2>2, <3>1 DEF LineIsSound, Ended
        <3> QED
            BY <1>1, <1>9, <3>1, <3>2, <3>3, <3>4, ExportGoesOn
    <2>3. CASE node.parent # None
        <3>1. q = [pc |-> "findRevision", root |-> e.root, current |-> node.parent,
                   line |-> e.line, i |-> e.i, found |-> g.found, pending |-> g.pending,
                   whole |-> e.whole, answer |-> e.answer]
            BY <1>1, <1>7, <1>8, <1>9, <1>11, <2>3 DEF Exporter
        <3>2. q \in Exporter
            BY <1>1, <1>4, <1>7, <3>1 DEF Exporter
        <3>3. ClosureIsSound(q)
            BY <1>1, <1>6, <2>1, <3>1, <3>2, GatheredIsSound DEF g
        <3>4. LineIsSound(q)
            BY <1>2, <1>4, <2>3, <3>1 DEF LineIsSound
        <3> QED
            BY <1>1, <1>9, <3>1, <3>2, <3>3, <3>4, ExportGoesOn
    <2> QED
        BY <2>2, <2>3
<1> QED
    BY <1>10, <1>11


\* What a queue holds: what comes before its k-th element, that, and the rest.
LEMMA QueueSplits ==
    ASSUME NEW s \in Seq(Bundle), NEW k \in DOMAIN s
    PROVE  LET rest == SubSeq(s, k + 1, Len(s)) IN
           /\ rest \in Seq(Bundle) /\ ToSet(rest) \subseteq ToSet(s)
           /\ ToSet(s) \subseteq {s[j] : j \in 1..(k - 1)} \cup {s[k]} \cup ToSet(rest)
<1>1. Len(s) \in Nat /\ DOMAIN s = 1..Len(s) /\ s \in [1..Len(s) -> Bundle]
    BY LenProperties
<1> DEFINE rest == SubSeq(s, k + 1, Len(s))
           n == Len(s) - k
<1>2. k \in 1..Len(s) /\ n \in Nat
    BY <1>1
<1>3. rest \in Seq(Bundle) /\ DOMAIN rest = 1..n /\ \A j \in 1..n : rest[j] = s[k + j]
    <2>1. rest = [j \in 1..n |-> s[k + j]]
        BY <1>1, <1>2
    <2>2. \A j \in 1..n : k + j \in 1..Len(s)
        BY <1>1, <1>2
    <2> QED
        BY <1>1, <1>2, <2>1, <2>2
<1> HIDE DEF rest
<1>4. ToSet(rest) \subseteq ToSet(s)
    <2>1. ASSUME NEW j \in 1..n PROVE rest[j] \in ToSet(s)
        <3>1. k + j \in DOMAIN s
            BY <1>1, <1>2
        <3> QED
            BY <1>3, <3>1 DEF ToSet
    <2> QED
        BY <1>3, <2>1 DEF ToSet
<1>5. ASSUME NEW j \in DOMAIN s
      PROVE  s[j] \in {s[x] : x \in 1..(k - 1)} \cup {s[k]} \cup ToSet(rest)
    <2>1. CASE j < k
        BY <1>1, <1>2, <2>1
    <2>2. CASE j = k
        BY <2>2
    <2>3. CASE j > k
        <3>1. j - k \in 1..n /\ k + (j - k) = j
            BY <1>1, <1>2, <2>3
        <3>2. rest[j - k] = s[j]
            BY <1>3, <3>1
        <3>3. rest[j - k] \in ToSet(rest)
            BY <1>3, <3>1 DEF ToSet
        <3> QED
            BY <3>2, <3>3
    <2> QED
        BY <1>1, <1>2, <2>1, <2>2, <2>3
<1> QED
    BY <1>3, <1>4, <1>5 DEF rest, ToSet

LEMMA FindReferenceKeeps ==
    ASSUME MigrationInv, NEW k \in DOMAIN exporter.pending, FindReference(k)
    PROVE  MigrationInv'
<1> DEFINE e == exporter
           b == e.pending[k]
           rest == SubSeq(e.pending, k + 1, Len(e.pending))
<1>1. /\ e \in Exporter /\ e.pc = "references" /\ LineIsSound(e) /\ ClosureIsSound(e)
      /\ UNCHANGED <<held, revs, package, importer>>
    BY DEF MigrationInv, MigrationType, ExporterIsSound, FindReference
<1>2. e.pending \in Seq(Bundle) /\ e.found \subseteq Bundle /\ e.root \in Revision
    BY <1>1 DEF Exporter, LineIsSound
<1>3. b \in Bundle /\ b \in ToSet(e.pending)
    BY <1>2, LinesType
<1>4. /\ rest \in Seq(Bundle) /\ ToSet(rest) \subseteq ToSet(e.pending)
      /\ ToSet(e.pending) \subseteq {e.pending[j] : j \in 1..(k - 1)} \cup {b} \cup ToSet(rest)
    BY <1>2, QueueSplits
<1>5. /\ b \notin e.found /\ \A j \in 1..(k - 1) : e.pending[j] \in e.found
    BY DEF FindReference, IsNextLookup
<1>6. IsPlain(e.root) => b \in RestsOn[e.root]
    BY <1>1, <1>3 DEF ClosureIsSound
<1>7. CASE b \notin held["source"]
    <2>1. ~IsPlain(e.root) \/ ~e.whole
        BY <1>1, <1>6, <1>7 DEF ClosureIsSound
    <2>2. PICK a : a = "ERR_MIGRATION_CLOSURE_INCOMPLETE"
        OBVIOUS
    <2>3. ExportReply(a)
        BY <1>7, <2>2 DEF FindReference
    <2>4. a \in ExportAnswer
        BY <2>2 DEF ExportAnswer
    <2>5. a # "ok" /\ a \notin Broken
        BY <2>2 DEF Broken
    <2> QED
        BY <1>1, <2>1, <2>3, <2>4, <2>5, ExportReplyKeeps
<1>8. CASE b \in held["source"] /\ Content[b].normal # b
    <2>1. ~IsPlain(e.root)
        BY <1>6, <1>8 DEF IsPlain
    <2>2. PICK a : a = "ERR_MIGRATION_VERIFY_MISMATCH"
        OBVIOUS
    <2>3. ExportReply(a)
        BY <1>8, <2>2 DEF FindReference
    <2>4. a \in ExportAnswer
        BY <2>2 DEF ExportAnswer, Broken
    <2>5. a # "ok" /\ a # "ERR_MIGRATION_CLOSURE_INCOMPLETE"
        BY <2>2
    <2> QED
        BY <1>1, <2>1, <2>3, <2>4, <2>5, ExportReplyKeeps
<1>9. CASE b \in held["source"] /\ Content[b].normal = b
    <2>1. PICK r : r = [e EXCEPT !.pending = rest]
        OBVIOUS
    <2>2. r = [pc |-> e.pc, root |-> e.root, current |-> e.current, line |-> e.line,
               i |-> e.i, found |-> e.found, pending |-> rest, whole |-> e.whole,
               answer |-> e.answer]
        BY <1>1, <2>1 DEF Exporter
    <2>3. r \in Exporter
        BY <1>1, <1>4, <2>2 DEF Exporter
    <2>4. PICK q : q = Gathered(r, b)
        OBVIOUS
    <2>5. exporter' = q
        BY <1>9, <2>1, <2>4 DEF FindReference
    <2> HIDE DEF rest, b
    <2>6. /\ q \in Exporter
          /\ q.pc = "references" /\ q.root = e.root /\ q.current = e.current
          /\ q.line = e.line /\ q.i = e.i /\ q.whole = e.whole /\ q.answer = e.answer
          /\ q.found = e.found \cup {b}
          /\ ToSet(rest) \subseteq ToSet(q.pending)
          /\ ToSet(q.pending) \subseteq ToSet(rest) \cup ToSet(Content[b].references)
          /\ ToSet(Content[b].references) \subseteq ToSet(q.pending)
        <3>1. /\ q \in Exporter
              /\ q.pc = r.pc /\ q.root = r.root /\ q.current = r.current /\ q.line = r.line
              /\ q.i = r.i /\ q.whole = r.whole /\ q.answer = r.answer
              /\ q.found = r.found \cup {Content[b].normal}
              /\ ToSet(r.pending) \subseteq ToSet(q.pending)
              /\ ToSet(q.pending) \subseteq ToSet(r.pending)
                                            \cup ToSet(Content[Content[b].normal].references)
              /\ \/ Content[b].normal \in r.found
                 \/ ToSet(Content[Content[b].normal].references) \subseteq ToSet(q.pending)
            BY <1>3, <2>3, <2>4, GatheredType
        <3>2. Content[b].normal = b /\ b \notin e.found
            BY <1>5, <1>9
        <3>3. r.pc = "references" /\ r.root = e.root /\ r.current = e.current
              /\ r.line = e.line /\ r.i = e.i /\ r.whole = e.whole /\ r.answer = e.answer
              /\ r.found = e.found /\ r.pending = rest
            BY <1>1, <2>2
        <3> QED
            BY <3>1, <3>2, <3>3
    <2>7. ASSUME NEW m \in q.found
          PROVE  /\ Content[m].normal = m
                 /\ ToSet(Content[m].references) \subseteq q.found \cup ToSet(q.pending)
                 /\ FoundInSource(q, m)
        <3>1. CASE m \in e.found
            <4>1. FoundInSource(e, m)
                BY <1>1, <3>1 DEF ClosureIsSound
            <4>2. FoundInSource(q, m)
                BY <2>6, <4>1 DEF FoundInSource
            <4>3. ToSet(Content[m].references) \subseteq e.found \cup ToSet(e.pending)
                BY <1>1, <3>1 DEF ClosureIsSound
            <4>4. ToSet(e.pending) \subseteq q.found \cup ToSet(q.pending)
                BY <1>4, <1>5, <2>6 DEF b
            <4> QED
                BY <1>1, <2>6, <3>1, <4>2, <4>3, <4>4 DEF ClosureIsSound
        <3>2. CASE m = b
            BY <1>9, <2>6, <3>2 DEF FoundInSource
        <3> QED
            BY <2>6, <3>1, <3>2
    <2>8. ASSUME NEW j \in DOMAIN q.line, NEW i \in DOMAIN RevisionNode[q.line[j]].artifacts
          PROVE  Content[RevisionNode[q.line[j]].artifacts[i]].normal \in q.found
        <3>1. IsRead(e, j, i)
            BY <1>1 DEF IsRead
        <3> QED
            BY <1>1, <2>6, <3>1 DEF ClosureIsSound
    <2>9. ASSUME IsPlain(q.root) PROVE q.found \cup ToSet(q.pending) \subseteq RestsOn[q.root]
        <3>1. ToSet(Content[b].references) \subseteq RestsOn[e.root]
            BY <1>2, <1>6, <2>6, <2>9, RestsOnIsLeast
        <3>2. e.found \cup ToSet(e.pending) \subseteq RestsOn[e.root]
            BY <1>1, <2>6, <2>9 DEF ClosureIsSound
        <3> QED
            BY <1>4, <1>6, <2>6, <2>9, <3>1, <3>2
    <2>10. ClosureIsSound(q)
        <3>1. q.whole => RestsOn[q.root] \subseteq held["source"]
            BY <1>1, <2>6 DEF ClosureIsSound
        <3> QED
            BY <2>7, <2>8, <2>9, <3>1 DEF ClosureIsSound
    <2>11. LineIsSound(q)
        BY <1>1, <2>6 DEF LineIsSound
    <2> QED
        BY <1>1, <2>5, <2>6, <2>10, <2>11, ExportGoesOn
<1> QED
    BY <1>7, <1>8, <1>9


\* The carrier of a revision.
LEMMA CarrierOf ==
    ASSUME NEW r \in Revision
    PROVE  /\ Carrier[r] \in Bundle /\ Content[Carrier[r]].carries = r
           /\ ToSet(Content[Carrier[r]].references) = {}
           /\ Content[Carrier[r]].packageId = RevisionNode[r].packageId
           /\ Content[Carrier[r]].normal = Carrier[r]
           /\ r # None /\ r \notin Broken
<1>1. Carrier[r] \in Bundle /\ r # None /\ r \notin Broken
    BY CarrierContent, NotRevisions
<1>2. PICK c : c = Content[Carrier[r]]
    OBVIOUS
<1>3. c = [packageId |-> RevisionNode[r].packageId, references |-> <<>>,
           normal |-> Carrier[r], carries |-> r]
    BY <1>2, CarrierContent
<1>4. /\ c.carries = r /\ c.packageId = RevisionNode[r].packageId /\ c.normal = Carrier[r]
      /\ c.references = <<>>
    BY <1>3
<1>5. ToSet(c.references) = {}
    BY <1>4 DEF ToSet
<1> QED
    BY <1>1, <1>2, <1>4, <1>5

\* The lines of a package: the closure, then a carrier for each revision.
LinesFor(found, line) == SetToSeq(found) \o [i \in DOMAIN line |-> Carrier[line[i]]]

LEMMA LinesForType ==
    ASSUME NEW found \in SUBSET Bundle, NEW line, NEW root, IsChain(line, root, Revision)
    PROVE  LET lines == LinesFor(found, line)
               carriers == {Carrier[r] : r \in ToSet(line)}
           IN  /\ lines \in Seq(Bundle) /\ Len(lines) \in Nat
               /\ ToSet(lines) = found \cup carriers
               /\ (\A i, j \in DOMAIN lines : lines[i] = lines[j] => i = j)
                    <=> found \cap carriers = {}
<1> DEFINE s == SetToSeq(found)
           c == [i \in DOMAIN line |-> Carrier[line[i]]]
           N == Len(s)
           M == Len(line)
           lines == s \o c
<1>1. /\ s \in Seq(found) /\ ToSet(s) = found
      /\ \A i, j \in 1..N : s[i] = s[j] => i = j
    <2>1. IsFiniteSet(found)
        BY HashesAreFinite, FS_Subset
    <2> QED
        BY <2>1, SetToSeqProperties
<1>2. /\ M \in Nat \ {0} /\ DOMAIN line = 1..M /\ \A i \in 1..M : line[i] \in Revision
      /\ ToSet(line) = {line[i] : i \in 1..M}
    BY ChainType
<1>3. \A r \in Revision : Carrier[r] \in Bundle /\ Content[Carrier[r]].carries = r
    BY CarrierOf
<1>4. /\ c \in Seq(Bundle) /\ Len(c) = M /\ DOMAIN c = 1..M
      /\ \A i \in 1..M : c[i] = Carrier[line[i]]
    <2>1. c = [i \in 1..M |-> Carrier[line[i]]]
        BY <1>2
    <2> QED
        BY <1>2, <1>3, <2>1
<1> HIDE DEF s, c
<1>5. s \in Seq(Bundle) /\ N \in Nat /\ DOMAIN s = 1..N
    BY <1>1, LenProperties
<1> HIDE DEF N, M
<1>6. /\ lines \in Seq(Bundle) /\ Len(lines) = N + M /\ DOMAIN lines = 1..(N + M)
      /\ ToSet(lines) = ToSet(s) \cup ToSet(c)
      /\ \A i \in 1..(N + M) : lines[i] = IF i <= N THEN s[i] ELSE c[i - N]
    <2>1. lines \in Seq(Bundle) /\ ToSet(lines) = ToSet(s) \cup ToSet(c)
        BY <1>4, <1>5, ElementsOfConcat
    <2>2. Len(lines) = N + M
          /\ \A i \in 1..(N + M) : lines[i] = IF i <= N THEN s[i] ELSE c[i - N]
        BY <1>4, <1>5, ConcatProperties DEF N
    <2> HIDE DEF lines
    <2>3. DOMAIN lines = 1..(N + M)
        BY <2>1, <2>2, LenProperties
    <2> QED
        BY <2>1, <2>2, <2>3
<1> HIDE DEF lines
<1>7. ToSet(c) = {Carrier[r] : r \in ToSet(line)}
    BY <1>2, <1>4 DEF ToSet
<1>8. ASSUME \A i, j \in DOMAIN lines : lines[i] = lines[j] => i = j
      PROVE  found \cap ToSet(c) = {}
    <2> SUFFICES ASSUME NEW i \in 1..N, NEW j \in 1..M, s[i] = c[j] PROVE FALSE
        BY <1>1, <1>4, <1>5 DEF ToSet
    <2>1. i \in 1..(N + M) /\ i <= N
        BY <1>2, <1>5
    <2>2. N + j \in 1..(N + M) /\ ~ (N + j <= N) /\ (N + j) - N = j
        BY <1>2, <1>5
    <2>3. lines[i] = s[i] /\ lines[N + j] = c[j]
        BY <1>6, <2>1, <2>2
    <2>4. i = N + j
        BY <1>6, <1>8, <2>1, <2>2, <2>3
    <2> QED
        BY <2>1, <2>2, <2>4
<1>9. ASSUME found \cap ToSet(c) = {},
             NEW i \in 1..(N + M), NEW j \in 1..(N + M), lines[i] = lines[j]
      PROVE  i = j
    <2>1. \A x \in 1..(N + M) : ~ (x <= N) => x - N \in 1..M /\ (x - N) + N = x
        BY <1>2, <1>5
    <2>2. \A x \in 1..(N + M) : x <= N => x \in 1..N
        BY <1>2, <1>5
    <2>3. CASE i <= N /\ j <= N
        BY <1>1, <1>6, <1>9, <2>2, <2>3 DEF N
    <2>4. CASE ~ (i <= N) /\ ~ (j <= N)
        <3>1. c[i - N] = c[j - N]
            BY <1>6, <1>9, <2>4
        <3>2. line[i - N] = line[j - N]
            BY <1>2, <1>3, <1>4, <2>1, <2>4, <3>1
        <3>3. i - N = j - N
            BY <2>1, <2>4, <3>2, ChainIsDistinct DEF M
        <3> QED
            BY <2>1, <2>4, <3>3
    <2>5. ASSUME NEW x \in 1..(N + M), NEW y \in 1..(N + M), x <= N, ~ (y <= N),
                 lines[x] = lines[y]
          PROVE  FALSE
        <3>1. lines[x] \in found
            BY <1>1, <1>5, <1>6, <2>2, <2>5 DEF ToSet
        <3>2. lines[y] \in ToSet(c)
            BY <1>4, <1>6, <2>1, <2>5 DEF ToSet
        <3> QED
            BY <1>9, <2>5, <3>1, <3>2
    <2> QED
        BY <1>9, <2>3, <2>4, <2>5
<1>10. (\A i, j \in DOMAIN lines : lines[i] = lines[j] => i = j) <=> found \cap ToSet(c) = {}
    BY <1>6, <1>8, <1>9
<1>11. LinesFor(found, line) = lines
    BY DEF LinesFor, lines, s, c
<1>12. Len(lines) \in Nat
    BY <1>2, <1>5, <1>6
<1> QED
    BY <1>1, <1>6, <1>7, <1>10, <1>11, <1>12

\* The package of a plain revision is in order.
LEMMA PlainPackageIsGood ==
    ASSUME NEW p \in PackageFile, NEW found \in SUBSET Bundle, NEW line,
           IsChain(line, p.root, Revision), Ended(line),
           p.lines = LinesFor(found, line), p.artifactCount = Len(p.lines),
           p.revisionCount = Len(line),
           IsPlain(p.root), found \subseteq RestsOn[p.root],
           \A b \in found : ToSet(Content[b].references) \subseteq found,
           \A j \in DOMAIN line : \A i \in DOMAIN RevisionNode[line[j]].artifacts :
              Content[RevisionNode[line[j]].artifacts[i]].normal \in found
    PROVE  Verdict(p) = "ok"
<1> DEFINE carriers == {Carrier[r] : r \in ToSet(line)}
           lines == p.lines
<1>1. /\ lines \in Seq(Bundle) /\ ToSet(lines) = found \cup carriers
      /\ (\A i, j \in DOMAIN lines : lines[i] = lines[j] => i = j)
           <=> found \cap carriers = {}
    <2>1. LET ls == LinesFor(found, line) IN
          /\ ls \in Seq(Bundle) /\ ToSet(ls) = found \cup carriers
          /\ (\A i, j \in DOMAIN ls : ls[i] = ls[j] => i = j)
               <=> found \cap carriers = {}
        BY LinesForType
    <2> QED
        BY <2>1
<1>2. /\ ToSet(line) \in SUBSET Revision /\ ToSet(line) = {line[i] : i \in 1..Len(line)}
      /\ Len(line) \in Nat \ {0} /\ DOMAIN line = 1..Len(line)
      /\ p.root \in ToSet(line) /\ Last(line) = line[Len(line)] /\ line \in Seq(Revision)
    BY ChainType DEF IsChain
<1>3. p.root \in Revision
    BY <1>2
<1>4. \A r \in Revision : /\ Carrier[r] \in Bundle /\ Content[Carrier[r]].carries = r
                          /\ ToSet(Content[Carrier[r]].references) = {}
                          /\ Content[Carrier[r]].packageId = RevisionNode[r].packageId
                          /\ r # None /\ r \notin Broken
    BY CarrierOf
<1>5. \A b \in found : Content[b].carries = None
    BY DEF IsPlain, Carries
<1>6. found \cap carriers = {}
    BY <1>2, <1>4, <1>5
<1>7. \A i, j \in DOMAIN lines : lines[i] = lines[j] => i = j
    BY <1>1, <1>6
<1> HIDE DEF lines, carriers
<1>8. ASSUME NEW b \in ToSet(lines)
      PROVE  \/ Content[b].carries = None /\ b \in found
             \/ \E r \in ToSet(line) : b = Carrier[r]
    BY <1>1, <1>5 DEF carriers
<1>9. ASSUME NEW i \in DOMAIN lines PROVE LineFault(lines, i) = "ok"
    <2>1. Len(lines) \in Nat /\ DOMAIN lines = 1..Len(lines) /\ lines[i] \in ToSet(lines)
        BY <1>1, LinesType
    <2>2. ~ \E j \in 1..(i - 1) : lines[j] = lines[i]
        BY <1>7, <2>1
    <2>3. CASE Content[lines[i]].carries = None
        BY <2>2, <2>3, NotRevisions DEF LineFault
    <2>4. CASE \E r \in ToSet(line) : lines[i] = Carrier[r]
        BY <1>2, <1>4, <2>2, <2>4 DEF LineFault
    <2> QED
        BY <1>8, <2>1, <2>3, <2>4
<1>10. FirstFault(lines) = "ok"
    BY <1>1, <1>9, FirstFaultIsFirst
<1>11. CarriedBy(lines) = ToSet(line)
    <2>1. \A b \in ToSet(lines) : Carries(b) => Content[b].carries \in ToSet(line)
        BY <1>2, <1>4, <1>8 DEF Carries
    <2>2. \A r \in ToSet(line) : /\ Carrier[r] \in ToSet(lines) /\ Carries(Carrier[r])
                                 /\ Content[Carrier[r]].carries = r
        BY <1>1, <1>2, <1>4 DEF carriers, Carries
    <2> QED
        BY <2>1, <2>2 DEF CarriedBy
<1>12. ReferencesAreInside(lines)
    <2>1. ASSUME NEW b \in ToSet(lines) PROVE ToSet(Content[b].references) \subseteq ToSet(lines)
        <3>1. CASE b \in found
            BY <1>1, <3>1
        <3>2. CASE \E r \in ToSet(line) : b = Carrier[r]
            <4>1. ToSet(Content[b].references) = {}
                BY <1>2, <1>4, <3>2
            <4> QED
                BY <4>1
        <3> QED
            BY <1>8, <2>1, <3>1, <3>2
    <2> QED
        BY <2>1 DEF ReferencesAreInside
<1>13. LineIsComplete(p.root, ToSet(line))
    <2>1. IsChain(line, p.root, ToSet(line))
        <3>1. \A i \in 1..(Len(line) - 1) : i + 1 \in 1..Len(line)
            BY <1>2
        <3>2. \A i \in 1..(Len(line) - 1) : line[i + 1] \in ToSet(line)
            BY <1>2, <3>1
        <3> QED
            BY <3>2 DEF IsChain
    <2>2. ChainFrom(p.root, ToSet(line)) = line
        BY <1>2, <1>3, <2>1, LineOfIsChain
    <2> QED
        BY <1>2, <2>2 DEF LineIsComplete, Ended
<1>14. ArtifactsAreInside(lines)
    <2>1. ASSUME NEW r \in ToSet(line), NEW a \in ToSet(RevisionNode[r].artifacts)
          PROVE  a \in ToSet(lines)
        <3>1. PICK j \in DOMAIN line : r = line[j]
            BY <1>2
        <3>2. PICK i \in DOMAIN RevisionNode[r].artifacts : a = RevisionNode[r].artifacts[i]
            BY <2>1 DEF ToSet
        <3>3. Content[a].normal \in found
            BY <3>1, <3>2
        <3>4. LineOf[p.root] = ToSet(line)
            BY <1>3, LineOfIsChain
        <3>5. a \in RestsOn[p.root]
            <4>1. a \in Named(LineOf[p.root])
                BY <2>1, <3>4 DEF Named
            <4> QED
                BY <1>3, <4>1, RestsOnIsLeast
        <3>6. Content[a].normal = a
            BY <3>5 DEF IsPlain
        <3> QED
            BY <1>1, <3>3, <3>6
    <2> QED
        BY <1>11, <2>1 DEF ArtifactsAreInside
<1>15. Cardinality(CarriedBy(lines)) = p.revisionCount
    <2>1. Cardinality(ToSet(line)) = Len(line)
        BY <1>2, ChainIsDistinct, LengthOfDistinct
    <2> QED
        BY <1>11, <2>1
<1> QED
    BY <1>10, <1>11, <1>12, <1>13, <1>14, <1>15 DEF Verdict, lines


LEMMA WritePackageKeeps ==
    ASSUME MigrationInv, WritePackage
    PROVE  MigrationInv'
<1> DEFINE e == exporter
           p == package'
           carriers == {Carrier[r] : r \in ToSet(e.line)}
<1>1. /\ e \in Exporter /\ e.pc = "references" /\ LineIsSound(e) /\ ClosureIsSound(e)
      /\ UNCHANGED <<held, revs, importer>> /\ ToSet(e.pending) \subseteq e.found
    BY DEF MigrationInv, MigrationType, ExporterIsSound, WritePackage, NoLookupIsLeft
<1>2. /\ e.root \in Revision /\ IsChain(e.line, e.root, Revision) /\ Ended(e.line)
      /\ ToSet(e.line) \subseteq revs["source"] /\ e.found \in SUBSET Bundle
    BY <1>1 DEF LineIsSound, Exporter
<1>3. /\ LinesFor(e.found, e.line) \in Seq(Bundle) /\ Len(LinesFor(e.found, e.line)) \in Nat
      /\ ToSet(LinesFor(e.found, e.line)) = e.found \cup carriers
      /\ (\A i, j \in DOMAIN LinesFor(e.found, e.line) :
             LinesFor(e.found, e.line)[i] = LinesFor(e.found, e.line)[j] => i = j)
           <=> e.found \cap carriers = {}
    BY <1>2, LinesForType
<1>4. /\ Len(e.line) \in Nat /\ ToSet(e.line) \in SUBSET Revision /\ e.root \in ToSet(e.line)
      /\ DOMAIN e.line = 1..Len(e.line) /\ \A i \in DOMAIN e.line : e.line[i] \in ToSet(e.line)
    BY <1>2, ChainType DEF IsChain
<1>5. /\ p = [root |-> e.root, lines |-> LinesFor(e.found, e.line),
              artifactCount |-> Len(LinesFor(e.found, e.line)),
              revisionCount |-> Len(e.line), repacked |-> FALSE]
      /\ ExportReply(Verdict(p))
    BY DEF WritePackage, LinesFor
<1> HIDE DEF p, carriers
<1>6. p \in PackageFile
    BY <1>2, <1>3, <1>4, <1>5 DEF PackageFile
<1>7. /\ p.root = e.root /\ p.lines = LinesFor(e.found, e.line)
      /\ p.artifactCount = Len(p.lines) /\ p.revisionCount = Len(e.line)
    BY <1>5
<1>8. PICK v : v = Verdict(p)
    OBVIOUS
<1>9. v \in {"ok", "ERR_MIGRATION_CLOSURE_INCOMPLETE"} \cup Broken
    BY <1>6, <1>8, VerdictType
<1>10. v \in ExportAnswer
    BY <1>9 DEF ExportAnswer
<1>11. /\ exporter' \in Exporter /\ exporter'.pc = "done" /\ exporter'.answer = v
       /\ exporter'.root = e.root /\ exporter'.line = e.line /\ exporter'.whole = e.whole
    BY <1>1, <1>5, <1>8, <1>10, ExportReplies
\* Every reference of the closure is in it, and every artifact normalised.
<1>12. \A b \in e.found : ToSet(Content[b].references) \subseteq e.found
    BY <1>1 DEF ClosureIsSound
<1>13. \A j \in DOMAIN e.line : \A i \in DOMAIN RevisionNode[e.line[j]].artifacts :
          Content[RevisionNode[e.line[j]].artifacts[i]].normal \in e.found
    <2>1. \A j, i : IsRead(e, j, i)
        BY <1>1 DEF IsRead
    <2> QED
        BY <1>1, <2>1 DEF ClosureIsSound
<1>14. LineOf[e.root] = ToSet(e.line)
    BY <1>2, LineOfIsChain
<1>15. v # "ok" => ~IsPlain(e.root)
    <2> SUFFICES ASSUME IsPlain(e.root) PROVE v = "ok"
        OBVIOUS
    <2>1. e.found \subseteq RestsOn[e.root]
        BY <1>1 DEF ClosureIsSound
    <2> QED
        BY <1>2, <1>6, <1>7, <1>8, <1>12, <1>13, <2>1, PlainPackageIsGood
<1>16. ASSUME v = "ok", NEW b \in RestsOn[e.root]
       PROVE  /\ b \in held["source"] /\ b \in ToSet(p.lines) /\ Content[b].normal = b
              /\ Carries(b) => Retells(b, e.root)
    <2>1. /\ \A i, j \in DOMAIN p.lines : p.lines[i] = p.lines[j] => i = j
          /\ \A x \in ToSet(p.lines) : Carries(x) =>
                /\ Content[x].carries \in Revision
                /\ Content[x].packageId = RevisionNode[Content[x].carries].packageId
          /\ CarriedBy(p.lines) = LineOf[p.root]
          /\ RestsOn[p.root] \subseteq ToSet(p.lines)
        BY <1>6, <1>8, <1>16, GoodPackage
    <2>2. e.found \cap carriers = {}
        BY <1>3, <1>7, <2>1
\* An artifact of the line is a carrier only if the closure holds it as well.
    <2>3. ASSUME NEW r \in ToSet(e.line), NEW a \in ToSet(RevisionNode[r].artifacts)
          PROVE  a \in e.found
        <3>1. PICK j \in DOMAIN e.line : r = e.line[j]
            BY DEF ToSet
        <3>2. PICK i \in DOMAIN RevisionNode[r].artifacts : a = RevisionNode[r].artifacts[i]
            BY <2>3 DEF ToSet
        <3>3. Content[a].normal \in e.found
            BY <1>13, <3>1, <3>2
        <3>4. a \in RestsOn[e.root]
            <4>1. a \in Named(LineOf[e.root])
                BY <1>14, <2>3 DEF Named
            <4> QED
                BY <1>2, <4>1, RestsOnIsLeast
        <3>5. a \in e.found \cup carriers
            BY <1>3, <1>7, <2>1, <3>4
        <3>6. a \in carriers => Content[a].normal = a
            BY <1>4, CarrierOf DEF carriers
        <3> QED
            BY <3>3, <3>5, <3>6
    <2>4. Named(LineOf[e.root]) \subseteq e.found
        BY <1>14, <2>3 DEF Named
    <2>5. b \in e.found
        BY <1>2, <1>12, <2>4, RestsOnIsLeast
    <2>6. Content[b].normal = b /\ FoundInSource(e, b)
        BY <1>1, <2>5 DEF ClosureIsSound
    <2>7. b \in held["source"]
        <3> SUFFICES ASSUME NEW j \in DOMAIN e.line,
                            NEW i \in DOMAIN RevisionNode[e.line[j]].artifacts,
                            NEW a, a = RevisionNode[e.line[j]].artifacts[i],
                            a # b, Content[a].normal = b
                     PROVE  FALSE
            BY <2>6 DEF FoundInSource
        <3>1. a \in ToSet(RevisionNode[e.line[j]].artifacts)
            BY DEF ToSet
        <3>2. a \in e.found
            BY <1>4, <2>3, <3>1
        <3>3. Content[a].normal = a
            BY <1>1, <3>2 DEF ClosureIsSound
        <3> QED
            BY <3>3
    <2>8. b \in ToSet(p.lines)
        BY <1>3, <1>7, <2>5
    <2>9. ASSUME Carries(b) PROVE Retells(b, e.root)
        <3>1. Content[b].carries \in Revision
              /\ Content[b].packageId = RevisionNode[Content[b].carries].packageId
            BY <2>1, <2>8, <2>9
        <3>2. Content[b].carries \in CarriedBy(p.lines)
            BY <2>8, <2>9 DEF CarriedBy
        <3>3. Content[b].carries \in LineOf[e.root]
            BY <1>7, <2>1, <3>2
        <3>4. Carrier[Content[b].carries] \in carriers
            BY <1>14, <3>3 DEF carriers
        <3>5. b # Carrier[Content[b].carries]
            BY <2>2, <2>5, <3>4
        <3> QED
            BY <3>1, <3>3, <3>5 DEF Retells
    <2> QED
        BY <2>6, <2>7, <2>8, <2>9
<1>17. ExporterIsSound'
    BY <1>11 DEF ExporterIsSound
<1>18. ExportVerdictIsExact'
    <2>1. v = "ok" =>
            \A b \in RestsOn[e.root] :
               /\ b \in held'["source"]
               /\ p.repacked \/ b \in ToSet(p.lines)
               /\ Content[b].normal = b
               /\ Carries(b) => Retells(b, e.root)
        BY <1>1, <1>16
    <2> QED
        BY <1>11, <1>15, <2>1 DEF ExportVerdictIsExact, p, Broken
<1>19. PackageIsOfSource'
    <2>1. p.root \in revs'["source"]
        BY <1>1, <1>2, <1>4, <1>7
    <2> QED
        BY <2>1 DEF PackageIsOfSource, p
<1> QED
    BY <1>1, <1>6, <1>11, <1>17, <1>18, <1>19, ExportFrame DEF p

LEMMA InterruptExportKeeps ==
    ASSUME MigrationInv, InterruptExport
    PROVE  MigrationInv'
<1>1. PICK a : a = "interrupted"
    OBVIOUS
<1>2. a \in ExportAnswer
    BY <1>1 DEF ExportAnswer
<1>3. a # "ok" /\ a \notin Broken /\ a # "ERR_MIGRATION_CLOSURE_INCOMPLETE"
    BY <1>1 DEF Broken
<1>4. ExportReply(a) /\ UNCHANGED <<held, revs, package, importer>>
    BY <1>1 DEF InterruptExport
<1> QED
    BY <1>2, <1>3, <1>4, ExportReplyKeeps

LEMMA ReceiveExportKeeps ==
    ASSUME MigrationInv, ReceiveExport
    PROVE  MigrationInv'
<1>1. exporter' = IdleExporter /\ UNCHANGED <<held, revs, package, importer>>
    BY DEF ReceiveExport
<1>2. exporter' \in Exporter
    <2>1. <<>> \in Seq(Revision) /\ <<>> \in Seq(Bundle)
        OBVIOUS
    <2> QED
        BY <1>1, <2>1 DEF Exporter, IdleExporter, ExportAnswer, NoAnswer
<1>3. exporter'.pc = "idle" /\ exporter'.answer = NoAnswer
    BY <1>1 DEF IdleExporter
<1>4. ExporterIsSound'
    BY <1>3 DEF ExporterIsSound
<1>5. ExportVerdictIsExact'
    BY <1>3 DEF ExportVerdictIsExact, NoAnswer, Broken
<1>6. PackageIsOfSource' /\ package' \in PackageFile
    BY <1>1 DEF MigrationInv, MigrationType, PackageIsOfSource
<1> QED
    BY <1>1, <1>2, <1>4, <1>5, <1>6, ExportFrame

LEMMA RepackKeeps ==
    ASSUME MigrationInv, NEW i \in DOMAIN package.lines, Repack(i)
    PROVE  MigrationInv'
<1> DEFINE lines == RemoveAt(package.lines, i)
<1>1. package \in PackageFile /\ package.lines \in Seq(Bundle)
      /\ UNCHANGED <<held, revs, exporter, importer>>
    BY DEF MigrationInv, MigrationType, PackageFile, Repack
<1>2. lines \in Seq(Bundle)
    <2>1. /\ Len(package.lines) \in Nat /\ i \in 1..Len(package.lines)
          /\ package.lines \in [1..Len(package.lines) -> Bundle]
        BY <1>1, LenProperties
    <2>2. SubSeq(package.lines, 1, i - 1) \in Seq(Bundle)
          /\ SubSeq(package.lines, i + 1, Len(package.lines)) \in Seq(Bundle)
        BY <1>1, <2>1
    <2> QED
        BY <2>2, ElementsOfConcat DEF RemoveAt
<1> HIDE DEF lines
<1>3. Len(lines) \in Nat /\ Cardinality(CarriedBy(lines)) \in Nat
    BY <1>2, LinesType
<1>4. PICK p : p = package'
    OBVIOUS
<1>5. p = [root |-> package.root, lines |-> lines, artifactCount |-> Len(lines),
           revisionCount |-> Cardinality(CarriedBy(lines)), repacked |-> TRUE]
    BY <1>1, <1>4 DEF Repack, PackageFile, lines
<1>6. p \in PackageFile /\ p.root = package.root /\ p.repacked = TRUE
    BY <1>1, <1>2, <1>3, <1>5 DEF PackageFile
\* Only a package that was written can be packed again.
<1>7. package # NoPackage
    <2>1. DOMAIN NoPackage.lines = {}
        BY DEF NoPackage
    <2> QED
        BY <2>1
<1>8. PackageIsOfSource'
    BY <1>1, <1>4, <1>6, <1>7 DEF MigrationInv, PackageIsOfSource
<1>9. ExporterIsSound'
    BY <1>1, <1>7 DEF MigrationInv, ExporterIsSound
<1>10. ExportVerdictIsExact'
    BY <1>1, <1>4, <1>6 DEF MigrationInv, ExportVerdictIsExact
<1>11. exporter' \in Exporter
    BY <1>1 DEF MigrationInv, MigrationType
<1> QED
    BY <1>1, <1>4, <1>6, <1>8, <1>9, <1>10, <1>11, ExportFrame


-----------------------------------------------------------------------------
(* The import *)

\* A chain from the other end.
LEMMA ReversedChain ==
    ASSUME NEW s, NEW root, NEW set, IsChain(s, root, set)
    PROVE  LET t == Reverse(s) IN
           /\ t \in Seq(Revision) /\ t # <<>> /\ Len(t) = Len(s) /\ ToSet(t) = ToSet(s)
           /\ t[Len(t)] = root /\ t[1] = s[Len(s)]
           /\ \A j \in 1..(Len(t) - 1) : RevisionNode[t[j + 1]].parent = t[j]
<1> DEFINE t == Reverse(s)
           n == Len(s)
<1>1. /\ n \in Nat \ {0} /\ DOMAIN s = 1..n /\ \A i \in 1..n : s[i] \in Revision
      /\ ToSet(s) = {s[i] : i \in 1..n}
    BY ChainType
<1>2. t = [i \in 1..n |-> s[(n - i) + 1]]
    BY DEF Reverse
<1> HIDE DEF t, n
<1>3. \A i \in 1..n : (n - i) + 1 \in 1..n
    BY <1>1
<1>4. t \in Seq(Revision) /\ Len(t) = n /\ DOMAIN t = 1..n
    BY <1>1, <1>2, <1>3
<1>5. ToSet(t) = ToSet(s)
    <2>1. \A i \in 1..n : t[i] \in ToSet(s)
        BY <1>1, <1>2, <1>3
    <2>2. \A i \in 1..n : s[i] = t[(n - i) + 1]
        <3>1. \A i \in 1..n : (n - ((n - i) + 1)) + 1 = i
            BY <1>1
        <3> QED
            BY <1>2, <1>3, <3>1
    <2>3. \A i \in 1..n : s[i] \in ToSet(t)
        BY <1>3, <1>4, <2>2 DEF ToSet
    <2> QED
        BY <1>1, <1>4, <2>1, <2>3 DEF ToSet
<1>6. t[n] = root /\ t[1] = s[n]
    <2>1. (n - n) + 1 = 1 /\ (n - 1) + 1 = n /\ 1 \in 1..n /\ n \in 1..n
        BY <1>1
    <2> QED
        BY <1>2, <2>1 DEF IsChain
<1>7. ASSUME NEW j \in 1..(n - 1) PROVE RevisionNode[t[j + 1]].parent = t[j]
    <2>1. /\ n - j \in 1..(n - 1) /\ (n - (j + 1)) + 1 = n - j
          /\ j \in 1..n /\ j + 1 \in 1..n
        BY <1>1
    <2>2. t[j + 1] = s[n - j] /\ t[j] = s[(n - j) + 1]
        BY <1>2, <2>1
    <2>3. s[(n - j) + 1] = RevisionNode[s[n - j]].parent
        BY <2>1 DEF IsChain, n
    <2> QED
        BY <2>2, <2>3
<1>8. t # <<>>
    BY <1>1, <1>4
<1> QED
    BY <1>4, <1>5, <1>6, <1>7, <1>8 DEF t, n

LEMMA BeginImportKeeps ==
    ASSUME MigrationInv, BeginImport
    PROVE  MigrationInv'
<1> DEFINE p == package
           v == Verdict(p)
           lines == ToSet(p.lines)
           plain == SetToSeq({b \in lines : ~Carries(b)})
           carrying == SetToSeq({b \in lines : Carries(b)})
           bundles == plain \o carrying
           c == ChainFrom(p.root, CarriedBy(p.lines))
<1>1. p \in PackageFile /\ p # NoPackage /\ UNCHANGED <<held, revs, exporter, package>>
    BY DEF MigrationInv, MigrationType, BeginImport
<1>2. v \in {"ok", "ERR_MIGRATION_CLOSURE_INCOMPLETE"} \cup Broken
    BY <1>1, VerdictType
<1>3. Grows
    BY <1>1 DEF MigrationInv, MigrationType, Grows
<1> PICK m : m = importer'
    OBVIOUS
<1>4. ASSUME m \in Importer, ImporterIsSound' PROVE MigrationInv'
    BY <1>1, <1>3, <1>4, ImportFrame
<1>5. CASE v # "ok"
    <2>1. m = [pc |-> "done", root |-> None, bundles |-> <<>>, chain |-> <<>>, i |-> 0,
               answer |-> v]
        BY <1>5 DEF BeginImport, IdleImporter
    <2> HIDE DEF v
    <2>2. m \in Importer
        <3>1. <<>> \in Seq(Revision) /\ <<>> \in Seq(Bundle)
            OBVIOUS
        <3> QED
            BY <1>2, <2>1, <3>1 DEF Importer, ExportAnswer
    <2>3. m.pc = "done" /\ m.bundles = <<>> /\ m.answer = v
        BY <2>1
    <2>4. ImporterIsSound'
        BY <1>5, <2>3 DEF ImporterIsSound, AcceptedImportCompletes
    <2> QED
        BY <1>4, <2>2, <2>4
<1>6. CASE v = "ok"
    <2>1. m = [pc |-> "storeBundle", root |-> p.root, bundles |-> bundles,
               chain |-> Reverse(c), i |-> 1, answer |-> NoAnswer]
        BY <1>6 DEF BeginImport, IdleImporter
    <2>2. /\ \A b \in lines : Carries(b) => Content[b].carries \in Revision
          /\ p.root \in Revision
          /\ IsChain(c, p.root, Revision) /\ Ended(c) /\ ToSet(c) = LineOf[p.root]
          /\ CarriedBy(p.lines) = LineOf[p.root]
          /\ RestsOn[p.root] \subseteq lines
        BY <1>1, <1>6, GoodPackage
    <2>3. p.lines \in Seq(Bundle) /\ lines \in SUBSET Bundle
        BY <1>1, LinesType DEF PackageFile
    <2>4. bundles \in Seq(Bundle) /\ ToSet(bundles) = lines
        <3> DEFINE P == {b \in lines : ~Carries(b)}
                   C == {b \in lines : Carries(b)}
        <3>1. IsFiniteSet(P) /\ IsFiniteSet(C)
            BY <2>3, HashesAreFinite, FS_Subset
        <3>2. P \cup C = lines
            OBVIOUS
        <3> HIDE DEF P, C
        <3>3. /\ SetToSeq(P) \in Seq(P) /\ ToSet(SetToSeq(P)) = P
              /\ SetToSeq(C) \in Seq(C) /\ ToSet(SetToSeq(C)) = C
            BY <3>1, SetToSeqProperties
        <3>4. SetToSeq(P) \in Seq(lines) /\ SetToSeq(C) \in Seq(lines)
            BY <3>2, <3>3
        <3>5. SetToSeq(P) \o SetToSeq(C) \in Seq(lines)
              /\ ToSet(SetToSeq(P) \o SetToSeq(C)) = P \cup C
            BY <3>3, <3>4, ElementsOfConcat
        <3>6. bundles = SetToSeq(P) \o SetToSeq(C)
            BY DEF P, C
        <3>7. Seq(lines) \subseteq Seq(Bundle)
            <4> HIDE DEF lines
            <4> QED
                BY <2>3
        <3> HIDE DEF bundles, lines
        <3> QED
            BY <3>2, <3>5, <3>6, <3>7
    <2>5. /\ Reverse(c) \in Seq(Revision) /\ Reverse(c) # <<>>
          /\ ToSet(Reverse(c)) = ToSet(c)
          /\ Reverse(c)[Len(Reverse(c))] = p.root
          /\ Reverse(c)[1] = c[Len(c)]
          /\ \A j \in 1..(Len(Reverse(c)) - 1) :
                RevisionNode[Reverse(c)[j + 1]].parent = Reverse(c)[j]
        BY <2>2, ReversedChain
    <2>6. p.root \in ToSet(c)
        BY <2>2, ChainType DEF IsChain
    <2>7. ToSet(c) \subseteq {Content[b].carries : b \in lines}
        BY <2>2 DEF CarriedBy
    <2>8. ToSet(c) \subseteq revs["source"]
        <3>1. p.root \in revs["source"]
            BY <1>1 DEF MigrationInv, PackageIsOfSource
        <3>2. \A r \in revs["source"] :
                 RevisionNode[r].parent # None => RevisionNode[r].parent \in revs["source"]
            BY DEF MigrationInv, LedgersAreClosed, RestsIn, Ledger
        <3> QED
            BY <2>2, <3>1, <3>2, ChainIsStored, NotRevisions
    <2> HIDE DEF bundles, c, lines, p
    <2>9. bundles # <<>>
        <3>1. lines # {}
            BY <2>6, <2>7
        <3>2. ToSet(<<>>) = {}
            BY DEF ToSet
        <3> QED
            BY <2>4, <3>1, <3>2
    <2>10. m \in Importer
        BY <2>1, <2>2, <2>4, <2>5 DEF Importer, ExportAnswer, NoAnswer
    <2>11. PlanIsSound(m)'
        <3>1. /\ m.root = p.root /\ m.bundles = bundles /\ m.chain = Reverse(c)
            BY <2>1
        <3>2. RevisionNode[Reverse(c)[1]].parent = None
            BY <2>2, <2>5 DEF Ended
        <3>3. revs' = revs
            BY <1>1
        <3> QED
            BY <2>2, <2>4, <2>5, <2>7, <2>8, <2>9, <3>1, <3>2, <3>3 DEF PlanIsSound
    <2>12. 1 \in DOMAIN bundles
        BY <2>4, <2>9, LenProperties, EmptySeq
    <2>13. m.pc = "storeBundle" /\ m.answer = NoAnswer /\ m.i = 1 /\ m.bundles = bundles
        BY <2>1
    <2>14. ImporterIsSound'
        BY <2>11, <2>12, <2>13 DEF ImporterIsSound, AcceptedImportCompletes, NoAnswer
    <2> QED
        BY <1>4, <2>10, <2>14
<1> QED
    BY <1>5, <1>6


\* A step of the import that keeps its plan.
LEMMA ImportGoesOn ==
    ASSUME MigrationInv, Grows, UNCHANGED <<exporter, package>>,
           \A l \in Ledger : \A r \in revs'[l] : r \in revs[l] \/ RestsIn(l, r),
           importer.bundles # <<>>, NEW m \in Importer, importer' = m,
           m.root = importer.root, m.bundles = importer.bundles, m.chain = importer.chain,
           m.pc = "storeBundle" =>
              m.i \in DOMAIN m.bundles
              /\ \A j \in 1..(m.i - 1) : m.bundles[j] \in held'["target"],
           m.pc # "idle", m.pc # "storeBundle" => BundlesAreStored(m)' \/ m.answer = "interrupted",
           m.pc \in {"findStored", "insertRevision"} =>
              m.i \in DOMAIN m.chain
              /\ \A j \in 1..(m.i - 1) : m.chain[j] \in revs'["target"],
           m.pc = "done" => m.answer \in {"ok", "interrupted", "P2002"},
           m.pc # "done" => m.answer = NoAnswer,
           m.answer = "ok" => ToSet(m.chain) \subseteq revs'["target"]
    PROVE  MigrationInv'
<1>1. revs["source"] \subseteq revs'["source"]
    BY DEF Grows, Ledger
<1>2. PlanIsSound(importer)
    BY DEF MigrationInv, ImporterIsSound
<1>3. PlanIsSound(m)'
    BY <1>1, <1>2 DEF PlanIsSound
<1>4. "ok" # "interrupted" /\ NoAnswer # "interrupted" /\ NoAnswer # "ok"
    BY DEF NoAnswer
<1>5. m.pc \in {"findStored", "insertRevision"} => BundlesAreStored(m)'
    BY <1>4
<1>6. m.answer = "ok" => BundlesAreStored(m)'
    BY <1>4
<1>7. ImporterIsSound'
    BY <1>3, <1>5, <1>6 DEF ImporterIsSound, AcceptedImportCompletes
<1> QED
    BY <1>7, ImportFrame

\* What the import knows of itself while it is under way.
LEMMA ImportUnderWay ==
    ASSUME MigrationInv, importer.pc \notin {"idle", "done"}
    PROVE  /\ importer \in Importer /\ importer.bundles # <<>> /\ PlanIsSound(importer)
           /\ importer.answer = NoAnswer /\ importer.i \in Nat \ {0}
           /\ Len(importer.bundles) \in Nat /\ Len(importer.chain) \in Nat
           /\ DOMAIN importer.bundles = 1..Len(importer.bundles)
           /\ DOMAIN importer.chain = 1..Len(importer.chain)
           /\ \A j \in DOMAIN importer.bundles : importer.bundles[j] \in Bundle
           /\ \A j \in DOMAIN importer.chain : importer.chain[j] \in Revision
<1>1. importer \in Importer /\ ImporterIsSound
    BY DEF MigrationInv, MigrationType
<1>2. importer.bundles \in Seq(Bundle) /\ importer.chain \in Seq(Revision)
      /\ importer.pc \in {"storeBundle", "findStored", "insertRevision"}
    BY <1>1 DEF Importer
<1>3. /\ Len(importer.bundles) \in Nat /\ Len(importer.chain) \in Nat
      /\ DOMAIN importer.bundles = 1..Len(importer.bundles)
      /\ DOMAIN importer.chain = 1..Len(importer.chain)
      /\ \A j \in DOMAIN importer.bundles : importer.bundles[j] \in Bundle
      /\ \A j \in DOMAIN importer.chain : importer.chain[j] \in Revision
    BY <1>2, LenProperties
<1>4. DOMAIN <<>> = {}
    OBVIOUS
<1>5. importer.bundles # <<>>
    BY <1>1, <1>2, <1>4 DEF ImporterIsSound
<1>6. importer.i \in Nat \ {0}
    BY <1>1, <1>2, <1>3 DEF ImporterIsSound
<1> QED
    BY <1>1, <1>2, <1>3, <1>5, <1>6 DEF ImporterIsSound

\* A reply of the import.
LEMMA ImportReplies ==
    ASSUME importer \in Importer, NEW a \in ExportAnswer \cup {"P2002"}, ImportReply(a)
    PROVE  /\ importer' \in Importer
           /\ importer'.pc = "done" /\ importer'.answer = a
           /\ importer'.root = importer.root /\ importer'.bundles = importer.bundles
           /\ importer'.chain = importer.chain
<1>1. importer' = [pc |-> "done", root |-> importer.root, bundles |-> importer.bundles,
                   chain |-> importer.chain, i |-> importer.i, answer |-> a]
    BY DEF ImportReply, Importer
<1> QED
    BY <1>1 DEF Importer

LEMMA StoreBundleKeeps ==
    ASSUME MigrationInv, StoreBundle
    PROVE  MigrationInv'
<1> DEFINE e == importer
           b == e.bundles[e.i]
<1>1. e.pc = "storeBundle" /\ UNCHANGED <<revs, exporter, package>>
    BY DEF StoreBundle
<1>2. /\ e \in Importer /\ e.bundles # <<>> /\ PlanIsSound(e)
      /\ e.answer = NoAnswer /\ e.i \in Nat \ {0}
      /\ Len(e.bundles) \in Nat /\ Len(e.chain) \in Nat
      /\ DOMAIN e.bundles = 1..Len(e.bundles) /\ DOMAIN e.chain = 1..Len(e.chain)
      /\ \A j \in DOMAIN e.bundles : e.bundles[j] \in Bundle
    BY <1>1, ImportUnderWay
<1>3. e.i \in DOMAIN e.bundles /\ \A j \in 1..(e.i - 1) : e.bundles[j] \in held["target"]
    BY <1>1 DEF MigrationInv, ImporterIsSound
<1>4. b \in Bundle
    BY <1>2, <1>3
<1>5. Grows /\ held'["target"] = held["target"] \cup {b}
    BY <1>1, <1>4 DEF MigrationInv, MigrationType, StoreBundle, Grows, Ledger
<1>6. \A j \in 1..e.i : e.bundles[j] \in held'["target"]
    BY <1>2, <1>3, <1>5
<1>7. \A l \in Ledger : \A r \in revs'[l] : r \in revs[l] \/ RestsIn(l, r)
    BY <1>1
<1> PICK m : m = importer'
    OBVIOUS
<1>8. CASE e.i < Len(e.bundles)
    <2>1. m = [pc |-> "storeBundle", root |-> e.root, bundles |-> e.bundles,
               chain |-> e.chain, i |-> e.i + 1, answer |-> NoAnswer]
        BY <1>1, <1>2, <1>8 DEF StoreBundle, Importer
    <2>2. e.i + 1 \in DOMAIN e.bundles /\ (e.i + 1) - 1 = e.i /\ e.i + 1 \in Nat
        BY <1>2, <1>3, <1>8
    <2>3. m \in Importer
        BY <1>2, <2>1, <2>2 DEF Importer
    <2>4. /\ m.pc = "storeBundle" /\ m.root = e.root /\ m.bundles = e.bundles
          /\ m.chain = e.chain /\ m.i = e.i + 1 /\ m.answer = NoAnswer /\ m.answer # "ok"
        BY <2>1 DEF NoAnswer
    <2> QED
        BY <1>1, <1>2, <1>5, <1>6, <1>7, <2>2, <2>3, <2>4, ImportGoesOn
<1>9. CASE ~ (e.i < Len(e.bundles))
    <2>1. m = [pc |-> "findStored", root |-> e.root, bundles |-> e.bundles,
               chain |-> e.chain, i |-> 1, answer |-> NoAnswer]
        BY <1>1, <1>2, <1>9 DEF StoreBundle, Importer
    <2>2. m \in Importer
        BY <1>2, <2>1 DEF Importer
    <2>3. /\ m.pc = "findStored" /\ m.root = e.root /\ m.bundles = e.bundles
          /\ m.chain = e.chain /\ m.i = 1 /\ m.answer = NoAnswer /\ m.answer # "ok"
        BY <2>1 DEF NoAnswer
    <2>4. BundlesAreStored(m)'
        <3>1. \A j \in DOMAIN e.bundles : j \in 1..e.i
            BY <1>2, <1>3, <1>9
        <3>2. \A j \in DOMAIN e.bundles : e.bundles[j] \in held'["target"]
            BY <1>6, <3>1
        <3> QED
            BY <2>3, <3>2 DEF BundlesAreStored, ToSet
    <2>5. 1 \in DOMAIN e.chain
        BY <1>2, EmptySeq DEF PlanIsSound, Importer
    <2> QED
        BY <1>1, <1>2, <1>5, <1>7, <2>2, <2>3, <2>4, <2>5, ImportGoesOn
<1> QED
    BY <1>8, <1>9

\* Nothing is missing that the next revision of an accepted import needs.
LEMMA NextRests ==
    ASSUME MigrationInv, importer.pc \in {"findStored", "insertRevision"}
    PROVE  /\ importer.i \in DOMAIN importer.chain
           /\ importer.chain[importer.i] \in Revision
           /\ BundlesAreStored(importer)
           /\ \A j \in 1..(importer.i - 1) : importer.chain[j] \in revs["target"]
           /\ RestsIn("target", importer.chain[importer.i])
<1> DEFINE e == importer
           r == e.chain[e.i]
           node == RevisionNode[r]
<1>1. /\ e \in Importer /\ PlanIsSound(e) /\ e.i \in Nat \ {0}
      /\ Len(e.chain) \in Nat /\ DOMAIN e.chain = 1..Len(e.chain)
      /\ \A j \in DOMAIN e.chain : e.chain[j] \in Revision
    BY ImportUnderWay
<1>2. /\ e.i \in DOMAIN e.chain /\ BundlesAreStored(e)
      /\ \A j \in 1..(e.i - 1) : e.chain[j] \in revs["target"]
    BY DEF MigrationInv, ImporterIsSound
<1>3. r \in ToSet(e.chain) /\ r \in Revision
    BY <1>1, <1>2 DEF ToSet
<1>4. RestsIn("source", r)
    BY <1>1, <1>3 DEF PlanIsSound, MigrationInv, LedgersAreClosed, Ledger
<1>5. ASSUME node.parent # None PROVE node.parent \in revs["target"]
    <2>1. e.i # 1
        BY <1>1, <1>5 DEF PlanIsSound
    <2>2. e.i - 1 \in 1..(e.i - 1) /\ e.i - 1 \in 1..(Len(e.chain) - 1) /\ (e.i - 1) + 1 = e.i
        BY <1>1, <1>2, <2>1
    <2>3. node.parent = e.chain[e.i - 1]
        BY <1>1, <2>2 DEF PlanIsSound
    <2> QED
        BY <1>2, <2>2, <2>3
<1>6. ASSUME NEW i \in DOMAIN node.artifacts
      PROVE  HeldIn("target", node.packageId, node.artifacts[i])
    <2>1. e.root \in Revision /\ r \in LineOf[e.root]
        BY <1>1, <1>3 DEF PlanIsSound
    <2>2. node.artifacts[i] \in ToSet(node.artifacts)
        BY DEF ToSet
    <2>3. node.artifacts[i] \in Named(LineOf[e.root])
        BY <2>1, <2>2 DEF Named
    <2>4. node.artifacts[i] \in RestsOn[e.root]
        BY <2>1, <2>3, RestsOnIsLeast
    <2>5. node.artifacts[i] \in held["target"]
        BY <1>1, <1>2, <2>4 DEF PlanIsSound, BundlesAreStored
    <2>6. Content[node.artifacts[i]].packageId = node.packageId
        BY <1>4 DEF RestsIn, HeldIn
    <2> QED
        BY <2>5, <2>6 DEF HeldIn
<1> QED
    BY <1>2, <1>3, <1>4, <1>5, <1>6 DEF RestsIn

\* The loop goes on, or all of the chain is stored.
LEMMA NextRevisionKeeps ==
    ASSUME MigrationInv, Grows, UNCHANGED <<exporter, package>>,
           \A l \in Ledger : \A r \in revs'[l] : r \in revs[l] \/ RestsIn(l, r),
           importer.pc \in {"findStored", "insertRevision"},
           importer.chain[importer.i] \in revs'["target"], NextRevision
    PROVE  MigrationInv'
<1> DEFINE e == importer
<1>1. /\ e \in Importer /\ e.bundles # <<>> /\ e.i \in Nat \ {0} /\ e.answer = NoAnswer
      /\ Len(e.chain) \in Nat /\ DOMAIN e.chain = 1..Len(e.chain)
    BY ImportUnderWay
<1>2. /\ e.i \in DOMAIN e.chain /\ BundlesAreStored(e)
      /\ \A j \in 1..(e.i - 1) : e.chain[j] \in revs["target"]
    BY NextRests
<1>3. /\ held["target"] \subseteq held'["target"] /\ revs["target"] \subseteq revs'["target"]
    BY DEF Grows, Ledger
<1>4. \A j \in 1..e.i : e.chain[j] \in revs'["target"]
    BY <1>1, <1>2, <1>3
<1> PICK m : m = importer'
    OBVIOUS
<1>5. CASE e.i < Len(e.chain)
    <2>1. m = [pc |-> "findStored", root |-> e.root, bundles |-> e.bundles,
               chain |-> e.chain, i |-> e.i + 1, answer |-> NoAnswer]
        BY <1>1, <1>5 DEF NextRevision, Importer
    <2>2. e.i + 1 \in DOMAIN e.chain /\ (e.i + 1) - 1 = e.i /\ e.i + 1 \in Nat
        BY <1>1, <1>2, <1>5
    <2>3. m \in Importer
        BY <1>1, <2>1, <2>2 DEF Importer
    <2>4. /\ m.pc = "findStored" /\ m.root = e.root /\ m.bundles = e.bundles
          /\ m.chain = e.chain /\ m.i = e.i + 1 /\ m.answer = NoAnswer /\ m.answer # "ok"
        BY <2>1 DEF NoAnswer
    <2>5. BundlesAreStored(m)'
        BY <1>2, <1>3, <2>4 DEF BundlesAreStored
    <2> QED
        BY <1>1, <1>4, <2>2, <2>3, <2>4, <2>5, ImportGoesOn
<1>6. CASE ~ (e.i < Len(e.chain))
    <2>1. PICK a : a = "ok"
        OBVIOUS
    <2>2. ImportReply(a)
        BY <1>6, <2>1 DEF NextRevision
    <2>3. a \in ExportAnswer \cup {"P2002"}
        BY <2>1 DEF ExportAnswer
    <2>4. /\ m \in Importer /\ m.pc = "done" /\ m.answer = "ok" /\ m.root = e.root
          /\ m.bundles = e.bundles /\ m.chain = e.chain
        BY <1>1, <2>1, <2>2, <2>3, ImportReplies
    <2>5. BundlesAreStored(m)'
        BY <1>2, <1>3, <2>4 DEF BundlesAreStored
    <2>6. ToSet(m.chain) \subseteq revs'["target"]
        <3>1. \A j \in DOMAIN e.chain : j \in 1..e.i
            BY <1>1, <1>2, <1>6
        <3>2. \A j \in DOMAIN e.chain : e.chain[j] \in revs'["target"]
            BY <1>4, <3>1
        <3> QED
            BY <2>4, <3>2 DEF ToSet
    <2> QED
        BY <1>1, <2>4, <2>5, <2>6, ImportGoesOn
<1> QED
    BY <1>5, <1>6


\* A reply that the import cannot help.
LEMMA ImportReplyKeeps ==
    ASSUME MigrationInv, UNCHANGED <<held, revs, exporter, package>>,
           importer.pc \notin {"idle", "done"}, NEW a \in {"interrupted", "P2002"},
           a = "P2002" => BundlesAreStored(importer), ImportReply(a)
    PROVE  MigrationInv'
<1>1. importer \in Importer /\ importer.bundles # <<>> /\ PlanIsSound(importer)
    BY ImportUnderWay
<1>2. a \in ExportAnswer \cup {"P2002"}
    BY DEF ExportAnswer
<1> PICK m : m = importer'
    OBVIOUS
<1>3. /\ m \in Importer /\ m.pc = "done" /\ m.answer = a /\ m.root = importer.root
      /\ m.bundles = importer.bundles /\ m.chain = importer.chain
    BY <1>1, <1>2, ImportReplies
<1>4. Grows /\ \A l \in Ledger : \A r \in revs'[l] : r \in revs[l] \/ RestsIn(l, r)
    BY DEF MigrationInv, MigrationType, Grows
<1>5. BundlesAreStored(m)' \/ m.answer = "interrupted"
    BY <1>3 DEF BundlesAreStored
<1>6. m.answer \in {"ok", "interrupted", "P2002"} /\ m.answer # "ok"
    BY <1>3
<1> QED
    BY <1>1, <1>3, <1>4, <1>5, <1>6, ImportGoesOn

LEMMA FindStoredKeeps ==
    ASSUME MigrationInv, FindStored
    PROVE  MigrationInv'
<1> DEFINE e == importer
           r == e.chain[e.i]
           node == RevisionNode[r]
<1>1. e.pc = "findStored" /\ UNCHANGED <<held, revs, exporter, package>>
    BY DEF FindStored
<1>2. /\ e.i \in DOMAIN e.chain /\ BundlesAreStored(e) /\ RestsIn("target", r)
      /\ \A j \in 1..(e.i - 1) : e.chain[j] \in revs["target"]
    BY <1>1, NextRests
<1>3. Grows /\ \A l \in Ledger : \A x \in revs'[l] : x \in revs[l] \/ RestsIn(l, x)
    BY <1>1 DEF MigrationInv, MigrationType, Grows
<1>4. IF r \in revs["target"] THEN NextRevision
      ELSE importer' = [importer EXCEPT !.pc = "insertRevision"]
    BY <1>2 DEF FindStored, RestsIn
<1>5. CASE r \in revs["target"]
    BY <1>1, <1>3, <1>4, <1>5, NextRevisionKeeps
<1>6. CASE r \notin revs["target"]
    <2>1. e \in Importer /\ e.bundles # <<>> /\ e.answer = NoAnswer
        BY <1>1, ImportUnderWay
    <2> PICK m : m = importer'
        OBVIOUS
    <2>2. m = [pc |-> "insertRevision", root |-> e.root, bundles |-> e.bundles,
               chain |-> e.chain, i |-> e.i, answer |-> NoAnswer]
        BY <1>4, <1>6, <2>1 DEF Importer
    <2>3. m \in Importer
        BY <2>1, <2>2 DEF Importer
    <2>4. /\ m.pc = "insertRevision" /\ m.root = e.root /\ m.bundles = e.bundles
          /\ m.chain = e.chain /\ m.i = e.i /\ m.answer = NoAnswer /\ m.answer # "ok"
        BY <2>2 DEF NoAnswer
    <2>5. BundlesAreStored(m)'
        BY <1>1, <1>2, <2>4 DEF BundlesAreStored
    <2>6. \A j \in 1..(m.i - 1) : m.chain[j] \in revs'["target"]
        BY <1>1, <1>2, <2>4
    <2> QED
        BY <1>1, <1>2, <1>3, <2>1, <2>3, <2>4, <2>5, <2>6, ImportGoesOn
<1> QED
    BY <1>5, <1>6

LEMMA InsertRevisionKeeps ==
    ASSUME MigrationInv, InsertRevision
    PROVE  MigrationInv'
<1> DEFINE r == importer.chain[importer.i]
<1>1. importer.pc = "insertRevision" /\ UNCHANGED <<held, exporter, package>>
    BY DEF InsertRevision
<1>2. r \in Revision /\ RestsIn("target", r) /\ BundlesAreStored(importer)
    BY <1>1, NextRests
<1>3. CASE r \in revs["target"]
    <2>1. PICK a \in {"interrupted", "P2002"} : a = "P2002"
        OBVIOUS
    <2>2. ImportReply(a) /\ revs' = revs
        BY <1>3, <2>1 DEF InsertRevision
    <2>3. importer.pc \notin {"idle", "done"}
        BY <1>1
    <2> QED
        BY <1>1, <1>2, <2>2, <2>3, ImportReplyKeeps
<1>4. CASE r \notin revs["target"]
    <2>1. NextRevision /\ revs' = [revs EXCEPT !["target"] = @ \cup {r}]
        BY <1>4 DEF InsertRevision
    <2>2. Grows /\ r \in revs'["target"]
        BY <1>1, <1>2, <2>1 DEF MigrationInv, MigrationType, Grows, Ledger
    <2>3. \A l \in Ledger : \A x \in revs'[l] : x \in revs[l] \/ RestsIn(l, x)
        BY <1>2, <2>1 DEF MigrationInv, MigrationType, Ledger
    <2> QED
        BY <1>1, <2>1, <2>2, <2>3, NextRevisionKeeps
<1> QED
    BY <1>3, <1>4

LEMMA InterruptImportKeeps ==
    ASSUME MigrationInv, InterruptImport
    PROVE  MigrationInv'
<1>1. PICK a \in {"interrupted", "P2002"} : a = "interrupted"
    OBVIOUS
<1>2. ImportReply(a) /\ UNCHANGED <<held, revs, exporter, package>>
      /\ importer.pc \notin {"idle", "done"} /\ a # "P2002"
    BY <1>1 DEF InterruptImport
<1> QED
    BY <1>2, ImportReplyKeeps

LEMMA ReceiveImportKeeps ==
    ASSUME MigrationInv, ReceiveImport
    PROVE  MigrationInv'
<1>1. importer' = IdleImporter /\ UNCHANGED <<held, revs, exporter, package>>
    BY DEF ReceiveImport
<1>2. Grows /\ \A l \in Ledger : \A x \in revs'[l] : x \in revs[l] \/ RestsIn(l, x)
    BY <1>1 DEF MigrationInv, MigrationType, Grows
<1>3. importer' \in Importer
    <2>1. <<>> \in Seq(Revision) /\ <<>> \in Seq(Bundle)
        OBVIOUS
    <2> QED
        BY <1>1, <2>1 DEF Importer, IdleImporter, ExportAnswer, NoAnswer
<1>4. importer'.pc = "idle" /\ importer'.answer = NoAnswer /\ importer'.bundles = <<>>
    BY <1>1 DEF IdleImporter
<1>5. ImporterIsSound'
    BY <1>4 DEF ImporterIsSound, AcceptedImportCompletes, NoAnswer
<1> QED
    BY <1>1, <1>2, <1>3, <1>5, ImportFrame

-----------------------------------------------------------------------------
(* The theorems *)

LEMMA InitHolds == Init => MigrationInv
<1> SUFFICES ASSUME Init PROVE MigrationInv
    OBVIOUS
<1>1. <<>> \in Seq(Revision) /\ <<>> \in Seq(Bundle)
    OBVIOUS
<1>2. exporter \in Exporter
    BY <1>1 DEF Init, Exporter, IdleExporter, ExportAnswer, NoAnswer
<1>3. package \in PackageFile
    BY <1>1 DEF Init, PackageFile, NoPackage
<1>4. importer \in Importer
    BY <1>1 DEF Init, Importer, IdleImporter, ExportAnswer, NoAnswer
<1>5. MigrationType
    BY <1>2, <1>3, <1>4 DEF Init, MigrationType
<1>6. LedgersAreClosed /\ PackageIsOfSource
    BY DEF Init, LedgersAreClosed, PackageIsOfSource
<1>7. exporter.pc = "idle" /\ exporter.answer = NoAnswer
      /\ importer.pc = "idle" /\ importer.answer = NoAnswer /\ importer.bundles = <<>>
    BY DEF Init, IdleExporter, IdleImporter
<1>8. ExporterIsSound /\ ExportVerdictIsExact
    BY <1>7 DEF ExporterIsSound, ExportVerdictIsExact, NoAnswer, Broken
<1>9. ImporterIsSound
    BY <1>7 DEF ImporterIsSound, AcceptedImportCompletes, NoAnswer
<1> QED
    BY <1>5, <1>6, <1>8, <1>9 DEF MigrationInv

LEMMA NextKeeps == MigrationInv /\ [Next]_vars => MigrationInv'
<1> SUFFICES ASSUME MigrationInv, [Next]_vars PROVE MigrationInv'
    OBVIOUS
<1>1. CASE UNCHANGED vars
    <2>1. Grows /\ UNCHANGED <<exporter, package, importer>>
          /\ \A l \in Ledger : \A r \in revs'[l] : r \in revs[l] \/ RestsIn(l, r)
        BY <1>1 DEF MigrationInv, MigrationType, Grows, vars
    <2> QED
        BY <2>1, LedgerFrame
<1>2. CASE Next
    BY <1>2, StoreArtifactKeeps, StoreRevisionKeeps, BeginExportKeeps, FindRevisionKeeps,
       FindArtifactKeeps, FindReferenceKeeps, WritePackageKeeps, InterruptExportKeeps,
       ReceiveExportKeeps, RepackKeeps, BeginImportKeeps, StoreBundleKeeps,
       FindStoredKeeps, InsertRevisionKeeps, InterruptImportKeeps, ReceiveImportKeeps
    DEF Next
<1> QED
    BY <1>1, <1>2

\* The inductive invariant of both migrations: what a package, a closure under
\* construction and an accepted import hold (MigrationService.computeClosure,
\* validateParsedPackage, importMigrationPackage).
THEOREM MigrationInvariant == Spec => []MigrationInv
<1>1. Init => MigrationInv
    BY InitHolds
<1>2. MigrationInv /\ [Next]_vars => MigrationInv'
    BY NextKeeps
<1> QED
    BY <1>1, <1>2, PTL DEF Spec

\* An export succeeds only with all that the revision rests on in the package,
\* and fails only for what was wrong with the revision or missing when it
\* began (exportMigrationPackage and the controller's verification).
THEOREM ExportStaysExact == Spec => []ExportVerdictIsExact
<1>1. MigrationInv => ExportVerdictIsExact
    BY DEF MigrationInv
<1> QED
    BY <1>1, MigrationInvariant, PTL

\* An import that is answered "ok" has stored the root's line, its carriers and
\* all it rests on (importMigrationPackage).
THEOREM ImportedStaysWhole == Spec => []ImportedIsWhole
<1>1. MigrationInv => ImportedIsWhole
    <2> SUFFICES ASSUME MigrationInv, importer.answer = "ok" PROVE ImportedIsWhole
        BY DEF ImportedIsWhole
    <2>1. /\ PlanIsSound(importer) /\ BundlesAreStored(importer)
          /\ ToSet(importer.chain) \subseteq revs["target"]
        BY DEF MigrationInv, ImporterIsSound
    <2> QED
        BY <2>1 DEF ImportedIsWhole, PlanIsSound, BundlesAreStored
<1> QED
    BY <1>1, MigrationInvariant, PTL

\* createRevision never refuses a revision of an accepted package: it finds the
\* parent and the artifacts (importMigrationPackage, revision.service.ts).
THEOREM AcceptedStaysAccepted == Spec => []AcceptedImportCompletes
<1>1. MigrationInv => AcceptedImportCompletes
    BY DEF MigrationInv, ImporterIsSound
<1> QED
    BY <1>1, MigrationInvariant, PTL

-----------------------------------------------------------------------------
(* The target is the ledger of ClosedDag *)

\* An artifact row of the target.
Row(k) == IF HeldIn("target", k[1], k[2]) THEN Document(k[2]) ELSE None

\* The target with a bundle more.
LEMMA TargetStoresArtifact ==
    ASSUME MigrationInv, NEW b \in Bundle, b \notin held["target"],
           held'["target"] = held["target"] \cup {b}, revs'["target"] = revs["target"]
    PROVE  Target!Next
<1> DEFINE d == Document(b)
           before == [k \in Package \X Bundle |-> Row(k)]
           after == [k \in Package \X Bundle |-> Row(k)']
<1>1. d.packageId = Content[b].packageId /\ d.bundleHash = b
    BY DEF Document
<1>2. Target!KeyOf(d) = <<Content[b].packageId, b>>
    BY <1>1 DEF Target!KeyOf
<1>3. <<Content[b].packageId, b>> \in Package \X Bundle
    BY ContentType
<1>4. before[Target!KeyOf(d)] = None
    BY <1>2, <1>3 DEF Row, HeldIn
<1>5. after = [before EXCEPT ![Target!KeyOf(d)] = d]
    <2>1. ASSUME NEW k \in Package \X Bundle
          PROVE  Row(k)' = IF k = <<Content[b].packageId, b>> THEN d ELSE Row(k)
        <3>1. CASE k[2] = b /\ k[1] = Content[b].packageId
            BY <3>1 DEF Row, HeldIn
        <3>2. CASE k[2] # b
            BY <3>2 DEF Row, HeldIn
        <3>3. CASE k[2] = b /\ k[1] # Content[b].packageId
            BY <3>3 DEF Row, HeldIn
        <3> QED
            BY <3>1, <3>2, <3>3
    <2> QED
        BY <1>2, <2>1
<1>6. Target!StoreArtifact(d)
    BY <1>4, <1>5 DEF Target!StoreArtifact, Row
<1> QED
    BY <1>6 DEF Target!Next


\* The target with a revision more that rests in it.
LEMMA TargetStoresRevision ==
    ASSUME MigrationInv, NEW r \in Revision, r \notin revs["target"], RestsIn("target", r),
           held'["target"] = held["target"], revs'["target"] = revs["target"] \cup {r}
    PROVE  Target!Next
<1> DEFINE node == RevisionNode[r]
           before == [k \in Package \X Bundle |-> Row(k)]
           after == [k \in Package \X Bundle |-> Row(k)']
<1>1. node.packageId \in Package /\ node.artifacts \in Seq(Bundle)
    BY NodeType
<1>2. ASSUME NEW i \in 1..Len(node.artifacts)
      PROVE  before[<<node.packageId, node.artifacts[i]>>] # None
    <2>1. node.artifacts[i] \in Bundle /\ i \in DOMAIN node.artifacts
        BY <1>1, LenProperties
    <2>2. HeldIn("target", node.packageId, node.artifacts[i])
        BY <2>1 DEF RestsIn
    <2>3. <<node.packageId, node.artifacts[i]>> \in Package \X Bundle
        BY <1>1, <2>1
    <2> QED
        BY <2>1, <2>2, <2>3, NoneIsNoDocument DEF Row
<1>3. Target!AllStored(node.packageId, node.artifacts)
    BY <1>2 DEF Target!AllStored, Row
<1>4. Target!RevisionClosed(r)
    BY <1>3 DEF Target!RevisionClosed, RestsIn
<1>5. after = before
    <2>1. \A k \in Package \X Bundle : Row(k)' = Row(k)
        BY DEF Row, HeldIn
    <2> QED
        BY <2>1
<1>6. Target!StoreRevision(r)
    BY <1>4, <1>5 DEF Target!StoreRevision, Row
<1> QED
    BY <1>6 DEF Target!Next

\* A step that does not change the target.
LEMMA TargetStutters ==
    ASSUME held'["target"] = held["target"], revs'["target"] = revs["target"]
    PROVE  UNCHANGED Target!vars
<1>1. \A k \in Package \X Bundle : Row(k)' = Row(k)
    BY DEF Row, HeldIn
<1> QED
    BY <1>1 DEF Target!vars, Row

LEMMA TargetInit == Init => Target!Init
<1> SUFFICES ASSUME Init PROVE Target!Init
    OBVIOUS
<1>1. held["target"] = {} /\ revs["target"] = {}
    BY DEF Init, Ledger
<1>2. [k \in Package \X Bundle |-> Row(k)] = [k \in Package \X Bundle |-> None]
    BY <1>1 DEF Row, HeldIn
<1>3. <<>> = [e \in {} |-> None]
    OBVIOUS
<1> QED
    BY <1>1, <1>2, <1>3 DEF Target!Init, Target!ArtifactKey, Row

LEMMA TargetStep == MigrationInv /\ [Next]_vars => [Target!Next]_(Target!vars)
<1> SUFFICES ASSUME MigrationInv, [Next]_vars
             PROVE  Target!Next \/ UNCHANGED Target!vars
    OBVIOUS
<1>0. /\ "target" \in Ledger /\ "source" \in Ledger
      /\ held \in [Ledger -> SUBSET Bundle] /\ revs \in [Ledger -> SUBSET Revision]
    BY DEF Ledger, MigrationInv, MigrationType
<1>1. CASE UNCHANGED <<held, revs>>
    BY <1>1, TargetStutters
<1>2. ASSUME NEW l \in Ledger, NEW b \in Bundle, StoreArtifact(l, b)
      PROVE  Target!Next \/ UNCHANGED Target!vars
    <2>1. CASE l = "target"
        <3>1. b \notin held["target"] /\ held'["target"] = held["target"] \cup {b}
              /\ revs'["target"] = revs["target"]
            BY <1>0, <1>2, <2>1 DEF StoreArtifact
        <3> QED
            BY <3>1, TargetStoresArtifact
    <2>2. CASE l # "target"
        <3>1. held'["target"] = held["target"] /\ revs'["target"] = revs["target"]
            BY <1>0, <1>2, <2>2 DEF StoreArtifact
        <3> QED
            BY <3>1, TargetStutters
    <2> QED
        BY <2>1, <2>2
<1>3. ASSUME NEW l \in Ledger, NEW r \in Revision, StoreRevision(l, r)
      PROVE  Target!Next \/ UNCHANGED Target!vars
    <2>1. CASE l = "target"
        <3>1. r \notin revs["target"] /\ revs'["target"] = revs["target"] \cup {r}
              /\ held'["target"] = held["target"] /\ RestsIn("target", r)
            BY <1>0, <1>3, <2>1 DEF StoreRevision, RestsIn
        <3> QED
            BY <3>1, TargetStoresRevision
    <2>2. CASE l # "target"
        <3>1. held'["target"] = held["target"] /\ revs'["target"] = revs["target"]
            BY <1>0, <1>3, <2>2 DEF StoreRevision
        <3> QED
            BY <3>1, TargetStutters
    <2> QED
        BY <2>1, <2>2
\* storeArtifactBundle: there already, or stored now.
<1>4. ASSUME StoreBundle PROVE Target!Next \/ UNCHANGED Target!vars
    <2> DEFINE b == importer.bundles[importer.i]
    <2>1. b \in Bundle
        <3>1. importer.pc = "storeBundle"
            BY <1>4 DEF StoreBundle
        <3>2. importer.i \in DOMAIN importer.bundles
            BY <3>1 DEF MigrationInv, ImporterIsSound
        <3> QED
            BY <3>1, <3>2, ImportUnderWay
    <2>2. held'["target"] = held["target"] \cup {b} /\ revs'["target"] = revs["target"]
        BY <1>0, <1>4 DEF StoreBundle
    <2>3. CASE b \in held["target"]
        <3>1. held'["target"] = held["target"]
            BY <2>2, <2>3
        <3> QED
            BY <2>2, <3>1, TargetStutters
    <2>4. CASE b \notin held["target"]
        BY <2>1, <2>2, <2>4, TargetStoresArtifact
    <2> QED
        BY <2>3, <2>4
\* createRevision: the revision rests in the target, another request's row or
\* none.
<1>5. ASSUME InsertRevision PROVE Target!Next \/ UNCHANGED Target!vars
    <2> DEFINE r == importer.chain[importer.i]
    <2>1. r \in Revision /\ RestsIn("target", r)
        <3>1. importer.pc = "insertRevision"
            BY <1>5 DEF InsertRevision
        <3> QED
            BY <3>1, NextRests
    <2>2. held'["target"] = held["target"]
        BY <1>5 DEF InsertRevision
    <2>3. CASE r \in revs["target"]
        <3>1. revs' = revs
            BY <1>5, <2>3 DEF InsertRevision
        <3> QED
            BY <2>2, <3>1, TargetStutters
    <2>4. CASE r \notin revs["target"]
        <3>1. revs'["target"] = revs["target"] \cup {r}
            BY <1>0, <1>5, <2>4 DEF InsertRevision
        <3> QED
            BY <2>1, <2>2, <2>4, <3>1, TargetStoresRevision
    <2> QED
        BY <2>3, <2>4
<1>6. \/ UNCHANGED <<held, revs>> \/ StoreBundle \/ InsertRevision
      \/ \E l \in Ledger, b \in Bundle : StoreArtifact(l, b)
      \/ \E l \in Ledger, r \in Revision : StoreRevision(l, r)
    BY DEF Next, vars, BeginExport, FindRevision, FindArtifact, FindReference, WritePackage,
       InterruptExport, ReceiveExport, Repack, BeginImport, FindStored, InterruptImport,
       ReceiveImport
<1> QED
    BY <1>1, <1>2, <1>3, <1>4, <1>5, <1>6

\* Imports and ordinary requests together keep the promise of ClosedDag: a
\* record is stored in one step, when all it names is there, and stays.
THEOREM TargetStaysClosedDag == Spec => TargetIsClosedDag
<1>1. Init => Target!Init
    BY TargetInit
<1>2. MigrationInv /\ [Next]_vars => [Target!Next]_(Target!vars)
    BY TargetStep
<1> QED
    BY <1>1, <1>2, MigrationInvariant, PTL DEF Spec, TargetIsClosedDag, Target!Spec
=============================================================================
