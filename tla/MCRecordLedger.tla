---------------------------- MODULE MCRecordLedger ----------------------------
(***************************************************************************)
(* A small instance of RecordLedger: two packages, two documents whose     *)
(* hashes collide, a revision whose parent is in another package, one that *)
(* lists an artifact twice and one that names itself as its parent; a run  *)
(* whose artifacts no revision names, and one that lists an output twice.  *)
(***************************************************************************)
EXTENDS RecordLedger, TLC

CONSTANTS c1, c2, p1, p2, b1, b2, x, y, r1, r2, r3, r4, k1, k2, s1, s2

MCDoc ==
    {[packageId |-> p1, bundleHash |-> b1, payload |-> x],
     [packageId |-> p1, bundleHash |-> b1, payload |-> y],
     [packageId |-> p2, bundleHash |-> b2, payload |-> x]}

Node(p, parent, bundles) ==
    [packageId |-> p, parent |-> parent, artifacts |-> bundles]

MCRevisionNode ==
    (r1 :> Node(p1, None, <<b1>>)) @@
    (r2 :> Node(p2, r1, <<b2>>)) @@
    (r3 :> Node(p1, r1, <<b1, b1>>)) @@
    (r4 :> Node(p1, r4, <<b1>>))

MCRun ==
    {[packageId |-> p2, revision |-> r1, inputs |-> <<>>, outputs |-> <<b2>>,
      call |-> k1, result |-> s1],
     [packageId |-> p1, revision |-> r1, inputs |-> <<b1>>, outputs |-> <<b1, b1>>,
      call |-> k1, result |-> s1]}
=============================================================================
