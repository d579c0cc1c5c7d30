---------------------------- MODULE MCSessionDesk ----------------------------
(***************************************************************************)
(* A small instance of SessionDesk for TLC.                                *)
(***************************************************************************)
EXTENDS SessionDesk

\* Users are alike.
Symmetry == Permutations(Users)
=============================================================================
