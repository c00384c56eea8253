----------------------------- MODULE MCClosurePlan -----------------------------
(***************************************************************************)
(* A small instance of ClosurePlan: a fact (1), a final decision (2), a    *)
(* constraint with a threshold (3), a risk (4), and constraints without an *)
(* id, of the rules low (5) and high (6) and of none (7). Every proposal   *)
(* of up to three entries of a pool that holds, for every unit, an         *)
(* addition, a removal and modifications, is tried on states that are      *)
(* clean, that have a unit twice or that violate a threshold. Two entries  *)
(* give a constraint another name.                                         *)
(***************************************************************************)
EXTENDS ClosurePlan

CONSTANTS low, high

MCLevel == (low :> 1) @@ (high :> 3)
MCNameOf == (low :> 5) @@ (high :> 6) @@ (Absent :> 7)

U(k, v) == [key |-> k, value |-> v]

MCBase ==
    { <<>>,
      <<U(1, <<1>>), U(4, high)>>,
      <<U(1, low), U(1, high)>>,
      <<U(2, low), U(3, high), U(4, high)>>,
      <<U(3, low), U(4, high)>>,
      <<U(5, low), U(6, high)>> }

Addition(k, v) == [kind |-> "add", key |-> k, value |-> v]
Removal(k) == [kind |-> "remove", key |-> k]
Modification(k, before, after, changes) ==
    [kind |-> "modify", key |-> k, before |-> before, after |-> after, changes |-> changes]
Set(v) == [op |-> "set", value |-> v]
Array(op, e) == [op |-> op, value |-> e]

Pool ==
    << Addition(1, <<2>>), Removal(1), Addition(2, high), Removal(2), Addition(3, low), Removal(3),
       Modification(1, <<1>>, <<2>>, <<Array("append", 2), Array("remove", 1)>>),
       Modification(1, low, <<2>>, <<Set(high), Array("append", 2)>>),
       Modification(2, low, Absent, <<[op |-> "unset", value |-> Absent]>>),
       Modification(3, high, low, <<Set(low)>>),
       Modification(4, high, low, <<Set(low)>>), Addition(4, high),
       Modification(5, low, high, <<Set(high)>>), Removal(6),
       Modification(5, low, Absent, <<[op |-> "unset", value |-> Absent]>>) >>

UnsafeEntry == Modification(1, low, high, <<Set(high), Unsafe>>)

\* Entries in the order of the pool, by their numbers.
Chosen == {S \in SUBSET DOMAIN Pool : Cardinality(S) <= 3}

Plain == {[i \in 1..Cardinality(S) |-> Pool[SetToSortSeq(S, <)[i]]] : S \in Chosen}

MCProposal == Plain \cup {<<UnsafeEntry>>, <<UnsafeEntry, Removal(2)>>}

AllRules == <<"POST_APPLY_CONFLICT", "MISSING_KEY", "DUP_KEY_ADD", "INVARIANT_BREAK",
              "CROSS_DOMAIN_DEP">>

MCPolicy ==
    { [fieldLevelModify |-> FALSE, rules |-> <<>>],
      [fieldLevelModify |-> TRUE, rules |-> <<>>],
      [fieldLevelModify |-> TRUE,
       rules |-> [i \in 1..5 |-> <<AllRules[i], "L3">>] \o <<<<"INVARIANT_BREAK", "L1">>>>],
      [fieldLevelModify |-> TRUE, rules |-> <<<<"MISSING_KEY", "L1">>>>] }
=============================================================================
