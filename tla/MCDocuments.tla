----------------------------- MODULE MCDocuments -----------------------------
(***************************************************************************)
(* Two revisions of a package, one the parent of the other, and one of      *)
(* another; bindings that lineage accepts and one that it does not; lists   *)
(* with an entry twice. The next actions 3 and 4 are malformed.             *)
(***************************************************************************)
EXTENDS Documents

CONSTANTS r1, r2, q1, p, q, c, x, e, noon

Flags(closure, report, record) ==
    [closure |-> closure, report |-> report, record |-> record]

MCParentOf == [r \in Revision |-> IF r = r2 THEN r1 ELSE None]
MCMend == [a \in 1..4 |-> IF a = 4 THEN 2 ELSE IF a = 3 THEN 1 ELSE a]
MCPackageOf == [r \in Revision |-> IF r = q1 THEN q ELSE p]
MCIncludes == {Flags(FALSE, FALSE, FALSE), Flags(TRUE, FALSE, TRUE)}
MCGivens == {Flags(c, None, e), Flags(x, None, None)}
MCTrunks == {<<2, 1, 2>>}
MCNextActions == {<<2, 1>>}
=============================================================================
