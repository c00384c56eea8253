------------------------------- MODULE NetDelta -------------------------------
(***************************************************************************)
(* The net delta between two revisions of a task package: the deltas along *)
(* the path from an ancestor, composed one after the other, or, across      *)
(* branches, the difference of the two revisions. It exists to be applied   *)
(* to the first revision, to reach the second.                              *)
(*                                                                         *)
(* Revisions are numbered as in TaskPackages, where LineageDescends shows   *)
(* that a parent is an earlier revision of the package: the errors of this  *)
(* code for unknown parents and for cycles cannot occur.                    *)
(***************************************************************************)
EXTENDS StateAlgebra

CONSTANTS
    Contents,      \* the units of the domain that a payload may hold
    MaxRevisions   \* bound on the revisions

ASSUME ContentsType == Contents \subseteq Seq(Unit)

VARIABLE revisions  \* TaskPackageRevision: parent and units, in order of creation

Id == 1..MaxRevisions

-----------------------------------------------------------------------------
\* The path from the root of its tree to each revision.
Line ==
    LET line[r \in DOMAIN revisions] ==
            LET parent == revisions[r].parent IN
            IF parent = None THEN <<r>> ELSE Append(line[parent], r)
    IN line

IsAncestor(from, to) == from \in ToSet(Line[to])

\* buildAncestorPath, from an ancestor to a revision, both included.
AncestorPath(from, to) ==
    LET line == Line[to] IN
    SubSeq(line, CHOOSE i \in DOMAIN line : line[i] = from, Len(line))

\* findLowestCommonAncestor: the first revision on the way up from `to` that
\* is on the way up from `from` as well.
CommonAncestors(from, to) == ToSet(Line[from]) \cap ToSet(Line[to])

LowestCommonAncestor(from, to) ==
    CHOOSE r \in CommonAncestors(from, to) :
        \A a \in CommonAncestors(from, to) : IsAncestor(a, r)

DiffRevisions(from, to) == Diff(revisions[from].units, revisions[to].units)

\* Mutant of Compressed: every step of the path starts at its first revision.
CompressedFromFirst(path) ==
    LET step(i) == DiffRevisions(path[1], path[i + 1])
        composed[i \in 1..(Len(path) - 1)] ==
            IF i = 1 THEN step(1) ELSE Compose(composed[i - 1], step(i))
    IN
    IF Len(path) < 2 THEN Empty ELSE composed[Len(path) - 1]

\* compressRevisionChain: the differences of neighbours, composed from the left.
Compressed(path) ==
    LET step(i) == DiffRevisions(path[i], path[i + 1])
        composed[i \in 1..(Len(path) - 1)] ==
            IF i = 1 THEN step(1) ELSE Compose(composed[i - 1], step(i))
    IN
    IF Len(path) < 2 THEN Empty ELSE composed[Len(path) - 1]

\* Mutant of CrossBranchNetDelta: across branches, the way back to the common
\* ancestor is left out.
CrossBranchNetDeltaFromCommon(from, to) ==
    IF IsAncestor(from, to) THEN Compressed(AncestorPath(from, to))
    ELSE Compressed(AncestorPath(LowestCommonAncestor(from, to), to))

\* computeCrossBranchNetDelta: deltaFromTo.
CrossBranchNetDelta(from, to) ==
    IF IsAncestor(from, to) THEN Compressed(AncestorPath(from, to))
    ELSE DiffRevisions(from, to)

Related(from, to) == CommonAncestors(from, to) # {}

-----------------------------------------------------------------------------
CreateRevision(parent, units) ==
    /\ Len(revisions) < MaxRevisions
    /\ parent \in DOMAIN revisions \cup {None}
    /\ revisions' = Append(revisions, [parent |-> parent, units |-> units])

TreeInit == revisions = <<>>

TreeNext == \E parent \in Id \cup {None}, units \in Contents : CreateRevision(parent, units)

TreeSpec == TreeInit /\ [][TreeNext]_revisions

-----------------------------------------------------------------------------
(* What a net delta must do *)

NoDuplicates(value) ==
    IsArray(value) => IsInjective(value)

\* Keys are unique and no array has equal elements.
Plain(units) ==
    /\ KeysUnique(units)
    /\ \A i \in DOMAIN units : NoDuplicates(units[i].value)

\* The units of a domain as the differ sees them: their order, and the order
\* within arrays, do not matter.
Seen(value) == IF IsArray(value) THEN <<ToSet(value)>> ELSE value
Content(units) == {<<units[i].key, Seen(units[i].value)>> : i \in DOMAIN units}

\* The delta meets no conflict of its own: those that the application lists are
\* the ones that the target has by itself.
Leads(delta, from, to) ==
    LET result == Apply(revisions[from].units, delta) IN
    /\ result.conflicts = DetectConflicts(revisions[to].units)
    /\ Content(result.units) = Content(revisions[to].units)

\* The fields of a unit along a path, Absent where there is no unit.
Has(r, k) == UnitsOf(revisions[r].units, k) # {}
ValueAt(r, k) == Selected(revisions[r].units, k)

\* A unit is removed and comes back later on the path.
UnitReturns(path, k) ==
    \E i, j, l \in DOMAIN path :
        i < j /\ j < l /\ Has(path[i], k) /\ ~Has(path[j], k) /\ Has(path[l], k)

\* What the composition of changes gets wrong: an element of an array is removed
\* and comes back, or an array changes after it replaced something else.
ElementReturns(path, k) ==
    \E i, j, l \in DOMAIN path :
        /\ i < j /\ j < l
        /\ \A r \in {path[i], path[j], path[l]} : Has(r, k) /\ IsArray(ValueAt(r, k))
        /\ \E e \in Element :
              /\ e \in ToSet(ValueAt(path[i], k))
              /\ e \notin ToSet(ValueAt(path[j], k))
              /\ e \in ToSet(ValueAt(path[l], k))

ArrayReplaces(path, k) ==
    \E i \in 1..(Len(path) - 2) :
        /\ Has(path[i], k) /\ Has(path[i + 1], k)
        /\ ~IsArray(ValueAt(path[i], k)) /\ IsArray(ValueAt(path[i + 1], k))
        /\ \E j \in (i + 2)..Len(path) :
              /\ Has(path[j], k)
              /\ Seen(ValueAt(path[j], k)) # Seen(ValueAt(path[i + 1], k))

NothingReturns(path) ==
    \A k \in Key :
        ~UnitReturns(path, k) /\ ~ElementReturns(path, k) /\ ~ArrayReplaces(path, k)

\* The revision that was created last. What is only about earlier ones was true
\* or false when the last of those was created, and has not changed since.
Newest == {r \in DOMAIN revisions : r = Len(revisions)}

AllPlain == \A r \in DOMAIN revisions : Plain(revisions[r].units)

\* Along a path on which nothing that was removed comes back, and no array that
\* replaced a scalar changes again, the net delta of the ancestor leads to the
\* descendant, with no conflicts but those of the descendant itself.
PathNetIsExact ==
    AllPlain =>
        \A to \in Newest : \A from \in ToSet(Line[to]) :
            LET path == AncestorPath(from, to) IN
            NothingReturns(path) => Leads(CrossBranchNetDelta(from, to), from, to)

\* Between related revisions of which the first is no ancestor of the second,
\* siblings or back to an ancestor, the net delta always leads there, with no
\* conflicts but those of the revision that is reached.
CrossBranchIsExact ==
    AllPlain =>
        \A from, to \in DOMAIN revisions :
            Related(from, to) /\ ~IsAncestor(from, to) /\ {from, to} \cap Newest # {} =>
                Leads(CrossBranchNetDelta(from, to), from, to)

\* The entries of a net delta that the revision it starts from refuses are the
\* additions of units that were there, were removed and came back. The other
\* conflicts that the application lists are those of the state it reaches.
OnlyReturnsConflict ==
    AllPlain =>
        \A to \in Newest : \A from \in ToSet(Line[to]) :
            LET result == Apply(revisions[from].units, CrossBranchNetDelta(from, to))
                path == AncestorPath(from, to)
            IN
            result.conflicts =
                DetectConflicts(result.units) \cup
                {<<"E_ADD_EXISTS", k>> : k \in {x \in Key :
                    Has(from, x) /\ Has(to, x) /\ UnitReturns(path, x)}}

IsNormal(delta) == Compose(delta, Empty) = delta /\ Compose(Empty, delta) = delta

\* A composed delta is in normal form: composing it with the empty delta, on
\* either side, changes nothing.
ComposedIsNormal ==
    \A to \in Newest : \A from \in ToSet(Line[to]) :
        Len(AncestorPath(from, to)) > 2 => IsNormal(CrossBranchNetDelta(from, to))

\* Whatever revision a net delta is applied to, keys that are unique stay unique.
KeysStayUnique ==
    \A from, to \in DOMAIN revisions :
        Related(from, to) =>
            LET net == CrossBranchNetDelta(from, to) IN
            \A r \in DOMAIN revisions :
                {from, to, r} \cap Newest # {} /\ KeysUnique(revisions[r].units) =>
                    KeysUnique(Apply(revisions[r].units, net).units)

-----------------------------------------------------------------------------
(* What the documentation says and the code does not do *)

\* STATE_ALGEBRA.md, Law 3: composition is associative. It is not, for the
\* deltas of a unit that is removed, added and removed again.
Associative ==
    \A r \in DOMAIN revisions :
        LET path == Line[r]
            step(i) == DiffRevisions(path[i], path[i + 1])
        IN
        Len(path) = 4 =>
            Compose(Compose(step(1), step(2)), step(3)) =
            Compose(step(1), Compose(step(2), step(3)))

\* STATE_ALGEBRA.md, Law 5: when d1 and then d2 apply without a conflict, their
\* composition leads to the same state. It does not, when d1 replaces a scalar
\* by an array and d2 changes the array: the replacement is lost.
Homomorphic ==
    \A r \in DOMAIN revisions :
        LET path == Line[r]
            first == Apply(revisions[path[1]].units, DiffRevisions(path[1], path[2]))
            second == Apply(first.units, DiffRevisions(path[2], path[3]))
            composed == Apply(revisions[path[1]].units, Compressed(path))
        IN
        Len(path) = 3 /\ first.conflicts = {} /\ second.conflicts = {} =>
            Content(composed.units) = Content(second.units)
=============================================================================
