--------------------------- MODULE MCConversations ---------------------------
(***************************************************************************)
(* A small instance of Conversations: two users, a language model that     *)
(* finds nothing new or two new notes, and limits that are reached.        *)
(***************************************************************************)
EXTENDS Conversations, TLC

CONSTANTS u1, u2, q1, q2, q3, n1, n2, n3

MCAdditions == {<<>>, <<n2, n3>>}

MCManualNotes == {<<n1>>}

Symmetry == Permutations(Request) \cup Permutations(User)
=============================================================================
