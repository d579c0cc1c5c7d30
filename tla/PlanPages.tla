------------------------------ MODULE PlanPages ------------------------------
(***************************************************************************)
(* The pages of the office, as instances over the same variables: the      *)
(* roster of duties, routes and their stops, roles.                        *)
(***************************************************************************)
EXTENDS Portal

CONSTANTS
    Rotating, Reserve, Slots, MaxDuties,
    Roles, BuiltIn, Grants,
    Places, MaxAsks, MaxRoutes,
    Length, Hints, MaxStops

Roster == INSTANCE RosterDesk WITH MaxOpens <- FewOpens

RolesPage == INSTANCE RoleDesk WITH Made <- BuiltIn, System <- BuiltIn

Routes == INSTANCE RouteDesk WITH MaxSends <- FewSends

Stops == INSTANCE StopDesk WITH MaxOpens <- FewOpens
=============================================================================
