------------------------------- MODULE Portal -------------------------------
(***************************************************************************)
(* A page as the portal mounts it, with tighter bounds where it has more   *)
(* in it.                                                                  *)
(***************************************************************************)
EXTENDS Desk

CONSTANTS
    FewOpens,    \* dialogs of a page with many of them
    FewSends     \* requests of a page with many steps in each
=============================================================================
