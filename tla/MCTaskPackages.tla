---------------------------- MODULE MCTaskPackages ----------------------------
(***************************************************************************)
(* Two clients write to one package, a stranger tries to, and a second     *)
(* package offers revisions that are no parents here. Four payloads are     *)
(* what a request needs to lose twice: the first revision's, its own and    *)
(* two that win.                                                           *)
(***************************************************************************)
EXTENDS TaskPackages

CONSTANTS u1, u2, p1, p2, h1, h2, h3, h4

Create(u, p, h, parent, set) ==
    [op |-> "create", user |-> u, packageId |-> p, payload |-> h,
     parent |-> parent, setCurrent |-> set]

SetCurrent(p, r) == [op |-> "set", user |-> u1, packageId |-> p, id |-> r]

Import(u, p, h) == [op |-> "import", user |-> u, packageId |-> p, payload |-> h]

MCRequests ==
    {Create(u1, p1, h, Unset, FALSE) : h \in {h2, h3, h4}} \cup
    {Create(u1, p1, h2, Unset, TRUE),
     Create(u1, p1, h3, 2, FALSE),
     Create(u1, p2, h2, 1, FALSE),
     Create(u2, p1, h2, None, TRUE),
     SetCurrent(p1, 1), SetCurrent(p1, 2),
     Import(u1, p1, h1), Import(u2, p2, h1)}

\* For liveness: two writers that race, by number and by payload, and the pointer.
MCRaceRequests ==
    {Create(u1, p1, h, Unset, FALSE) : h \in {h2, h3}} \cup
    {Create(u1, p1, h2, 1, TRUE), SetCurrent(p1, 1), Import(u1, p1, h1)}
=============================================================================
