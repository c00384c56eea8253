------------------------------ MODULE MCExtension ------------------------------
(***************************************************************************)
(* A small instance of Extension: one tab, two requests, two device ids    *)
(* that may be generated, and a worker that is stopped once.               *)
(***************************************************************************)
EXTENDS Extension, TLC

CONSTANTS q1, q2, d1, d2
=============================================================================
