----------------------------- MODULE MCTillPages -----------------------------
(***************************************************************************)
(* The pages of the network and of what it earns for TLC: routes, stops,   *)
(* the fare chart, the counter, the journal with its salaries, the chart   *)
(* of accounts.                                                            *)
(***************************************************************************)
EXTENDS Pages

CONSTANTS
    a1, a2,      \* places, legs, salaries, accounts of the operator: alike, on pages of their own
    cash         \* an account the program books to itself

\* Two routes that share a stop.
Lines == [north |-> <<"a", "b">>, south |-> <<"b", "c">>]

Symmetry == Permutations({a1, a2})
=============================================================================
