------------------------------ MODULE MCNetDelta ------------------------------
(***************************************************************************)
(* A final decision (1), whose answer is absent, a scalar or an array of   *)
(* up to two elements, in either order, and constraints without an id: of  *)
(* the rule s (2) and without a rule (3). One content has a key twice.     *)
(***************************************************************************)
EXTENDS ApplyPackage

CONSTANT s

U(k, value) == [key |-> k, value |-> value]

MCNameOf == (s :> 2) @@ (Absent :> 3)
MCLevel == (s :> 1)

MCContents ==
    {<<>>, <<U(2, s)>>, <<U(1, s)>>, <<U(1, <<1, 2>>)>>, <<U(1, <<2, 1>>)>>,
     <<U(3, Absent), U(1, <<2>>)>>, <<U(1, Absent), U(1, <<1, 1>>)>>}

\* One unit that every revision has: nothing is added or removed.
MCOneUnit == {<<U(1, s)>>, <<U(1, <<>>)>>, <<U(1, <<1>>)>>, <<U(1, <<1, 2>>)>>}

\* One unit that comes and goes, its field fixed.
MCComesAndGoes == {<<>>, <<U(1, s)>>, <<U(2, s)>>}
=============================================================================
