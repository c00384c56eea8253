----------------------------- MODULE MCMigration -----------------------------
(***************************************************************************)
(* A small instance of Migration: a line of two revisions whose second     *)
(* refers to a bundle of another package, which refers to the first's      *)
(* artifact; a revision that names the carrier of its parent as an         *)
(* artifact; one whose artifact was stored with unsorted references; one   *)
(* with a document that retells its parent, and one with a carrier that is *)
(* malformed.                                                              *)
(***************************************************************************)
EXTENDS Migration, TLC

CONSTANTS p1, p2, a1, a2, b1, a3, k1, k2, k3, k4, k5, k6, x1, x2, r1, r2, r3, r4, r5, r6

Plain(p, x, refs) ==
    [packageId |-> p, references |-> refs, normal |-> x, carries |-> None]

MCContent ==
    (a1 :> Plain(p1, a1, <<>>)) @@
    (a2 :> Plain(p1, a2, <<a1, b1>>)) @@
    (b1 :> Plain(p2, b1, <<a1>>)) @@
    (a3 :> Plain(p1, a2, <<b1, a1>>)) @@
    [k \in {k1, k2, k3, k4, k5, k6, x1, x2} |->
        [packageId |-> p1, references |-> <<>>, normal |-> k,
         carries |-> CASE k \in {k1, x1} -> r1 [] k = k2 -> r2 [] k = k3 -> r3
                       [] k = k4 -> r4 [] k = k5 -> r5 [] k = k6 -> r6
                       [] k = x2 -> "ERR_MIGRATION_INVALID_INPUT"]]

MCRevisionNode ==
    (r1 :> [packageId |-> p1, parent |-> None, artifacts |-> <<a1>>]) @@
    (r2 :> [packageId |-> p1, parent |-> r1, artifacts |-> <<a1, a2>>]) @@
    (r3 :> [packageId |-> p1, parent |-> r1, artifacts |-> <<k1>>]) @@
    (r4 :> [packageId |-> p1, parent |-> None, artifacts |-> <<a3>>]) @@
    (r5 :> [packageId |-> p1, parent |-> r1, artifacts |-> <<x1>>]) @@
    (r6 :> [packageId |-> p1, parent |-> None, artifacts |-> <<x2>>])

\* Bound: the source holds two revisions, and two artifacts beside the first.
SourceIsSmall ==
    Cardinality(held["source"] \ {a1}) <= 2 /\ Cardinality(revs["source"]) <= 2

MCCarrier == (r1 :> k1) @@ (r2 :> k2) @@ (r3 :> k3) @@ (r4 :> k4) @@ (r5 :> k5) @@ (r6 :> k6)
=============================================================================
