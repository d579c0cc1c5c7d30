------------------------------ MODULE MoneyPages ------------------------------
(***************************************************************************)
(* The pages of what the network earns, as instances over the same         *)
(* variables: the ticket counter, the fare chart, the chart of accounts.   *)
(***************************************************************************)
EXTENDS Portal

CONSTANTS
    CounterLegs, Types, MaxTickets, MaxPicks,     \* counter
    Line, MaxFares, MaxImports,                   \* fares
    Accounts, System

Counter == INSTANCE CounterDesk WITH Legs <- CounterLegs

Fares == INSTANCE FareDesk WITH MaxRows <- MaxImports

Chart == INSTANCE AccountsDesk
=============================================================================
