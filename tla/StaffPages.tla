----------------------------- MODULE StaffPages -----------------------------
(***************************************************************************)
(* The pages of people and buses, as instances over the same variables:    *)
(* drivers, conductors, vehicles, and the day's allocations of them.       *)
(***************************************************************************)
EXTENDS Portal

CONSTANTS
    Staff, Enrolled,                    \* drivers or vehicles, and those there from the start
    Collectors, Hired, Phones,          \* conductors, those there from the start, their phones
    Partners, MaxStamp,
    Buses, Crew, MaxRows                \* dispatch

\* The sections each page edits, as its handlers tell them apart.
DriverSections == {"license", "salary"}
CollectorSections == {"personal"}
FleetSections == {"insurance", "operational"}

Drivers == INSTANCE DriverDesk WITH Sections <- DriverSections, FileSections <- {"license"}

Conductors == INSTANCE CollectorDesk WITH
    Staff <- Collectors, Enrolled <- Hired, Sections <- CollectorSections, FileSections <- CollectorSections

Fleet == INSTANCE FleetDesk WITH Sections <- FleetSections, FileSections <- {}

Dispatch == INSTANCE DispatchDesk WITH MaxOpens <- FewOpens
=============================================================================
