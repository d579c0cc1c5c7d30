---------------------------- MODULE MCOfficePages ----------------------------
(***************************************************************************)
(* The pages of people and buses for TLC: drivers, conductors, vehicles,   *)
(* the day's allocations, the roster of duties, roles.                     *)
(***************************************************************************)
EXTENDS Pages

CONSTANTS
    d1, d2,      \* drivers, vehicles, roles
    c1, c2,      \* conductors
    a1, a2,      \* vehicles of the day, phone numbers, groups, grants: alike, on pages of their own
    v,           \* a group kept in reserve
    w1, w2       \* two of the crew, alike

NoLine == <<>>

Symmetry == Permutations({a1, a2}) \cup Permutations({w1, w2})
=============================================================================
