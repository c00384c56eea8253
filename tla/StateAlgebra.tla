----------------------------- MODULE StateAlgebra -----------------------------
(***************************************************************************)
(* The semantic state algebra: states, deltas between them, how a delta is *)
(* applied and how two are composed. Keys are those of all domains (facts, *)
(* decisions, ...), which meet in the conflicts of a state only. A unit    *)
(* has a key, the hash of its signature, and one whitelisted field, which  *)
(* may be absent, a scalar or an array: changes are applied and composed   *)
(* field by field. A unit without an id is named by its field, and a       *)
(* modification of that field may change its key.                          *)
(***************************************************************************)
EXTENDS Integers, SequencesExt

CONSTANTS
    Key,      \* unit keys, ordered as their hashes sort
    Element,  \* elements of arrays, ordered as their hashes sort
    Scalar,   \* field values that are no arrays
    Absent,   \* the field is undefined
    None,     \* nothing: no revision, no delta, no report
    Own,      \* keys of units with an id
    NameOf,   \* the keys that field values give to units without one
    FinalDecision, Ruled, Constraint, Risk,  \* keys of units that conditions are about
    Text,     \* scalars that are texts, not blank
    Answer,   \* scalars that answer a decision: texts, numbers, booleans
    Level     \* asLevel of the scalars that have one

ASSUME Ordered == Key \subseteq Int /\ Element \subseteq Int

\* A key is the hash of a signature and has 64 hexadecimal digits.
ASSUME KeysAreFinite == IsFiniteSet(Key)

\* The signature of a unit without an id is built from its field, whose text may
\* be that of another value: NameOf need not be injective.
ASSUME NamesAreKeys ==
    /\ Own \subseteq Key
    /\ \A v \in DOMAIN NameOf : NameOf[v] \in Key \ Own
    /\ Own = Key \/ Scalar \cup {Absent} \subseteq DOMAIN NameOf

ASSUME Conditions ==
    /\ FinalDecision \cup Ruled \cup Constraint \cup Risk \subseteq Key
    /\ Text \cup Answer \cup DOMAIN Level \subseteq Scalar
    /\ \A v \in DOMAIN Level : Level[v] \in Nat

\* No array is a scalar.
ASSUME ArraysAreArrays == \A v \in Scalar \cup {Absent} : v \notin Seq(Element)

\* The elements of a set in their order. (Of SortSeq nothing can be proved.)
Listed(set, Less(_, _)) ==
    [i \in 1..Cardinality(set) |->
        CHOOSE x \in set : Cardinality({y \in set : Less(y, x)}) = i - 1]

IsArray(value) == value \notin Scalar \cup {Absent}

AsArray(value) == IF IsArray(value) THEN value ELSE <<>>

Value == Scalar \cup {Absent} \cup Seq(Element)

\* computeUnitKey of a unit of key k whose field is set to a value. Bound: an array
\* that is not in the domain of NameOf counts as no name, as the empty one does.
KeyOf(k, value) ==
    IF k \in Own THEN k
    ELSE IF value \in DOMAIN NameOf THEN NameOf[value]
    ELSE NameOf[Absent]

\* Units of a revision. Left out: units that an array names.
Unit ==
    {u \in [key: Key, value: Value] :
        u.key \in Own \/ (~IsArray(u.value) /\ KeyOf(u.key, u.value) = u.key)}

\* The units of one key, and the position that the index of applyDelta holds for
\* it: the last one.
UnitsOf(units, k) == {units[i] : i \in {j \in DOMAIN units : units[j].key = k}}

At(units, k) ==
    CHOOSE i \in DOMAIN units :
        /\ units[i].key = k
        /\ \A j \in DOMAIN units : units[j].key = k => j <= i

KeysUnique(units) ==
    \A i, j \in DOMAIN units : units[i].key = units[j].key => i = j

-----------------------------------------------------------------------------
(* Field changes *)

\* A FieldChange is a record of an op and a value, Absent for an unset.
ArrayOp(change) == change.op \in {"append", "remove"}

\* applyFieldChanges: an append or a removal makes an array of anything.
ApplyChange(value, change) ==
    CASE change.op = "set"    -> change.value
      [] change.op = "unset"  -> Absent
      [] change.op = "append" -> Append(AsArray(value), change.value)
      [] change.op = "remove" -> RemoveFirst(AsArray(value), change.value)

ApplyChanges(value, changes) == FoldLeft(ApplyChange, value, changes)

\* applyFieldChangesAtomically, used in compositions only: an append to or a
\* removal from a scalar makes the whole patch fail.
PatchStep(patch, change) ==
    IF ~patch.ok \/ (ArrayOp(change) /\ patch.value \in Scalar)
    THEN [ok |-> FALSE, value |-> patch.value]
    ELSE [ok |-> TRUE, value |-> ApplyChange(patch.value, change)]

Patch(value, changes) ==
    FoldLeft(PatchStep, [ok |-> TRUE, value |-> value], changes)

\* The order in which changes of one field are listed.
OpRank(change) ==
    CASE change.op = "set" -> 0 [] change.op = "unset" -> 1
      [] change.op = "append" -> 2 [] change.op = "remove" -> 3

ChangeBefore(a, b) ==
    \/ OpRank(a) < OpRank(b)
    \/ OpRank(a) = OpRank(b) /\ ArrayOp(a) /\ a.value < b.value

Sorted(changes) == Listed(changes, ChangeBefore)

\* diffFields. Arrays are compared as sets: neither the order nor the number of
\* equal elements makes a change.
DiffValues(before, after) ==
    IF IsArray(before) /\ IsArray(after)
    THEN Sorted({[op |-> "append", value |-> e] : e \in ToSet(after) \ ToSet(before)} \cup
                {[op |-> "remove", value |-> e] : e \in ToSet(before) \ ToSet(after)})
    ELSE IF before = after THEN <<>>
    ELSE IF after = Absent THEN <<[op |-> "unset", value |-> Absent]>>
    ELSE <<[op |-> "set", value |-> after]>>

\* composeFieldChanges keeps, of the changes of one field, the last scalar
\* change or else the last array change for every element. An array change
\* drops the scalar change that came before it.
MergeChange(bucket, change) ==
    IF ArrayOp(change)
    THEN {c \in bucket : ArrayOp(c) /\ c.value # change.value} \cup {change}
    ELSE {change}

ComposeChanges(changes1, changes2) ==
    Sorted(FoldLeft(MergeChange, {}, changes1 \o changes2))

-----------------------------------------------------------------------------
(* Deltas: what happens to each key *)

NoEffect == [kind |-> "none"]
RemoveEffect == [kind |-> "remove"]
AddEffect(value) == [kind |-> "add", value |-> value]
ModifyEffect(before, after, changes) ==
    [kind |-> "modify", before |-> before, after |-> after, changes |-> changes]

Empty == [k \in Key |-> NoEffect]

\* Of units with one key, diffState takes the one whose hash is the least.
Selected(units, k) == (CHOOSE u \in UnitsOf(units, k) : TRUE).value

\* diffState
DiffEffect(base, target, k) ==
    LET inBase == UnitsOf(base, k) # {}
        inTarget == UnitsOf(target, k) # {}
        before == Selected(base, k)
        after == Selected(target, k)
    IN
    CASE ~inBase /\ ~inTarget -> NoEffect
      [] ~inBase /\ inTarget  -> AddEffect(after)
      [] inBase /\ ~inTarget  -> RemoveEffect
      [] inBase /\ inTarget   ->
            IF before = after THEN NoEffect
            ELSE ModifyEffect(before, after, DiffValues(before, after))

Diff(base, target) == [k \in Key |-> DiffEffect(base, target, k)]

-----------------------------------------------------------------------------
(* detectConflicts *)

DuplicateKeys(units) ==
    {k \in Key : \E i, j \in DOMAIN units : i # j /\ units[i].key = k /\ units[j].key = k}

\* The final decisions without an answer, the constraints without a rule, and the
\* risks above the threshold of a constraint.
SemanticConflicts(units) ==
    LET Of(keys) == {u \in ToSet(units) : u.key \in keys}
        levels(keys) == {u \in Of(keys) : u.value \in DOMAIN Level}
    IN
    {<<"E_DECISION_FINAL_NO_ANSWER", u.key>> :
        u \in {x \in Of(FinalDecision) : x.value \notin Answer}} \cup
    {<<"E_CONSTRAINT_RULE_EMPTY", u.key>> :
        u \in {x \in Of(Ruled) : x.value \notin Text}} \cup
    {<<"E_RISK_THRESHOLD_EXCEEDED", r.key>> :
        r \in {x \in levels(Risk) : \E c \in levels(Constraint) :
                                       Level[x.value] > Level[c.value]}}

DetectConflicts(units) ==
    SemanticConflicts(units) \cup {<<"E_DUPLICATE_KEY", k>> : k \in DuplicateKeys(units)}

-----------------------------------------------------------------------------
(* applyDelta, best effort: additions, then removals, then modifications, each
   in the order of the keys; an entry that does not fit is a conflict and is
   left out. Then the conflicts of the state that is reached are added. *)

Conflict(result, code, k) ==
    [result EXCEPT !.conflicts = @ \cup {<<code, k>>}]

\* Mutant of Added: what exists is added again.
AddedAgain(result, k, effect) ==
    [result EXCEPT !.units =
        Append(@, [key |-> KeyOf(k, effect.value), value |-> effect.value])]

\* A unit that has no id is added with the key that its field gives it, whatever
\* the key of the entry.
Added(result, k, effect) ==
    IF UnitsOf(result.units, k) # {} THEN Conflict(result, "E_ADD_EXISTS", k)
    ELSE [result EXCEPT !.units =
             Append(@, [key |-> KeyOf(k, effect.value), value |-> effect.value])]

Removed(result, k) ==
    IF UnitsOf(result.units, k) = {} THEN Conflict(result, "E_REMOVE_MISSING", k)
    ELSE [result EXCEPT !.units = RemoveAt(@, At(@, k))]

Modified(result, k, effect) ==
    IF UnitsOf(result.units, k) = {} THEN Conflict(result, "E_MODIFY_MISSING", k)
    ELSE LET i == At(result.units, k)
             value == ApplyChanges(result.units[i].value, effect.changes)
             l == KeyOf(k, value)
         IN
         IF l # k /\ UnitsOf(result.units, l) # {}
         THEN Conflict(result, "E_MODIFY_KEY_COLLISION", k)
         ELSE [result EXCEPT !.units[i] = [key |-> l, value |-> value]]

\* One entry of a delta.
Entered(result, k, effect) ==
    CASE effect.kind = "add"    -> Added(result, k, effect)
      [] effect.kind = "remove" -> Removed(result, k)
      [] effect.kind = "modify" -> Modified(result, k, effect)

KeysWith(delta, kind) == Listed({k \in Key : delta[k].kind = kind}, <)

EntriesOf(delta) ==
    KeysWith(delta, "add") \o KeysWith(delta, "remove") \o KeysWith(delta, "modify")

Apply(units, delta) ==
    LET done == FoldLeft(LAMBDA r, k : Entered(r, k, delta[k]),
                         [units |-> units, conflicts |-> {}], EntriesOf(delta))
    IN
    [units |-> done.units,
     conflicts |-> done.conflicts \cup DetectConflicts(done.units)]

-----------------------------------------------------------------------------
(* composeDelta *)

\* A modification without changes is none.
Normalize(effect) ==
    IF effect.kind # "modify" THEN effect
    ELSE LET changes == ComposeChanges(<<>>, effect.changes) IN
         IF changes = <<>> THEN NoEffect
         ELSE [effect EXCEPT !.changes = changes]

\* Mutant of AddThenModify: the added unit is not patched.
AddThenModifyUnpatched(left, right) == left

AddThenModify(left, right) ==
    LET modify == Normalize(right)
        patch == Patch(left.value, modify.changes)
    IN
    IF modify = NoEffect THEN left
    ELSE IF patch.ok THEN AddEffect(patch.value)
    ELSE AddEffect(modify.after)

ModifyTwice(left, right) ==
    LET changes == ComposeChanges(left.changes, right.changes) IN
    IF changes = <<>> THEN NoEffect
    ELSE ModifyEffect(left.before, right.after, changes)

\* Mutant of ThenRemove: what was added is removed all the same.
ThenRemoveAlways(left) == RemoveEffect

\* An addition and a removal leave nothing, whatever there was before the two.
ThenRemove(left) == IF left.kind = "add" THEN NoEffect ELSE RemoveEffect

\* Mutant of ComposeEffects: a right operand on its own is taken as it is.
ComposeEffectsRaw(left, right) ==
    IF left = NoEffect THEN right
    ELSE IF right = NoEffect THEN Normalize(left)
    ELSE CASE right.kind = "add"    -> right
           [] right.kind = "remove" -> ThenRemove(left)
           [] right.kind = "modify" ->
                CASE left.kind = "add"    -> AddThenModify(left, right)
                  [] left.kind = "remove" -> RemoveEffect
                  [] left.kind = "modify" -> ModifyTwice(left, right)

\* composeEffects, the table of STATE_ALGEBRA.md.
ComposeEffects(left, right) ==
    IF left = NoEffect THEN Normalize(right)
    ELSE IF right = NoEffect THEN Normalize(left)
    ELSE CASE right.kind = "add"    -> right
           [] right.kind = "remove" -> ThenRemove(left)
           [] right.kind = "modify" ->
                CASE left.kind = "add"    -> AddThenModify(left, right)
                  [] left.kind = "remove" -> RemoveEffect
                  [] left.kind = "modify" -> ModifyTwice(left, right)

\* Every operand is normalised by itself first (composeWithinDelta).
Compose(d1, d2) ==
    [k \in Key |-> ComposeEffects(ComposeEffects(NoEffect, d1[k]),
                                  ComposeEffects(NoEffect, d2[k]))]

-----------------------------------------------------------------------------
\* The effect leaves a unit of key k that key, whatever its field was.
KeepsKey(k, effect) ==
    \/ k \in Own
    \/ effect.kind \in {"none", "remove"}
    \/ effect.kind = "add" /\ KeyOf(k, effect.value) = k
    \/ /\ effect.kind = "modify" /\ KeyOf(k, effect.after) = k
       /\ \A c \in ToSet(effect.changes) :
             c.op \in {"set", "unset"} /\ KeyOf(k, ApplyChange(Absent, c)) = k
=============================================================================
