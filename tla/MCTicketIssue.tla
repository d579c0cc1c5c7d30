---------------------------- MODULE MCTicketIssue ----------------------------
(***************************************************************************)
(* Small instances of TicketIssue for TLC.                                 *)
(***************************************************************************)
EXTENDS TicketIssue, TLC

\* Requests for one key, and POSTs, are alike.
Symmetry == Permutations(Attempts) \cup Permutations(Posts)
=============================================================================
