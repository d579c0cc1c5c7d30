--------------------------- MODULE MCFareCheckout ---------------------------
(***************************************************************************)
(* Small instances of FareCheckout for TLC.                                *)
(***************************************************************************)
EXTENDS FareCheckout, TLC

\* Ids are drawn at random and requests are alike: any of them can be renamed.
Symmetry == Permutations(Gids) \cup Permutations(Bookings) \cup Permutations(Workers)
=============================================================================
