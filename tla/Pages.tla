-------------------------------- MODULE Pages --------------------------------
(***************************************************************************)
(* The pages of an operator's staff together.  The router (TenantApp.tsx)  *)
(* mounts one page at a time and the rows of each are its own, so a        *)
(* behaviour stays on the page it begins on.  The ledger is taken from the *)
(* module that proves theorems of it, the other pages have theirs beside   *)
(* the modules extended here.                                              *)
(***************************************************************************)
EXTENDS StaffPages, PlanPages, MoneyPages

CONSTANTS
    StartPages,                         \* the pages a behaviour may begin on
    Salaries, MaxEntries                \* ledger

VARIABLE page

Ledger == INSTANCE LedgerDesk_proofs WITH MaxOpens <- FewOpens

\* What the theorems of the pages assume of their constants.
ASSUME PagesAssumption ==
    /\ MaxOpens \in Nat /\ MaxSends \in Nat /\ FewOpens \in Nat
    /\ MaxStamp \in Nat /\ MaxRows \in Nat
    /\ IsFiniteSet(Collectors) /\ Hired \subseteq Collectors /\ "users" \notin Collectors
    /\ None \notin Phones
    /\ MaxTickets \in Nat \ {0} /\ None \notin CounterLegs /\ Types # {}
    /\ \A S \in SUBSET Types : S # {} => \E t \in S : \A u \in S : t <= u
    /\ MaxEntries \in Nat \ {0} /\ None \notin Salaries
    /\ None \notin Accounts /\ System \subseteq Accounts
    /\ Slots \in Nat /\ MaxDuties \in Nat /\ Slots <= MaxDuties
    /\ Rotating \cap Reserve = {} /\ None \notin Rotating \cup Reserve
    /\ None \notin Places /\ MaxRoutes \in Nat /\ MaxRoutes >= 2
    /\ None \notin Roles /\ BuiltIn \subseteq Roles
    /\ Fares!FareAssumption /\ Stops!StopAssumption
    /\ (\A S \in SUBSET Grants : S # None) /\ \A m \in RolesPage!Matrices : m # None

Init ==
    /\ page \in StartPages
    /\ \/ page = "drivers" /\ Drivers!Init
       \/ page = "conductors" /\ Conductors!Init
       \/ page = "fleet" /\ Fleet!Init
       \/ page = "dispatch" /\ Dispatch!Init
       \/ page = "roles" /\ RolesPage!Init
       \/ page = "roster" /\ Roster!Init
       \/ page = "counter" /\ Counter!Init
       \/ page = "fares" /\ Fares!Init
       \/ page = "ledger" /\ Ledger!Init
       \/ page = "accounts" /\ Chart!Init
       \/ page = "routes" /\ Routes!Init
       \/ page = "stops" /\ Stops!Init

Next ==
    /\ \/ page = "drivers" /\ Drivers!Next
       \/ page = "conductors" /\ Conductors!Next
       \/ page = "fleet" /\ Fleet!Next
       \/ page = "dispatch" /\ Dispatch!Next
       \/ page = "roles" /\ RolesPage!Next
       \/ page = "roster" /\ Roster!Next
       \/ page = "counter" /\ Counter!Next
       \/ page = "fares" /\ Fares!Next
       \/ page = "ledger" /\ Ledger!Next
       \/ page = "accounts" /\ Chart!Next
       \/ page = "routes" /\ Routes!Next
       \/ page = "stops" /\ Stops!Next
    /\ UNCHANGED page

vars == <<deskVars, page>>

Spec == Init /\ [][Next]_vars

\* Each page keeps to its types.
TypeOK ==
    /\ page = "drivers" => Drivers!TypeOK
    /\ page = "conductors" => Conductors!TypeOK
    /\ page = "fleet" => Fleet!TypeOK
    /\ page = "dispatch" => Dispatch!TypeOK
    /\ page = "roles" => RolesPage!TypeOK
    /\ page = "roster" => Roster!TypeOK
    /\ page = "counter" => Counter!TypeOK
    /\ page = "fares" => Fares!TypeOK
    /\ page = "ledger" => Ledger!TypeOK
    /\ page = "accounts" => Chart!TypeOK
    /\ page = "routes" => Routes!TypeOK
    /\ page = "stops" => Stops!TypeOK

\* ---- people and buses --------------------------------------------------------

\* Staff pages: an edit of one section does not take another's text back.
SectionKept ==
    [][/\ page = "drivers" => Drivers!SectionKept
       /\ page = "conductors" => Conductors!SectionKept
       /\ page = "fleet" => Fleet!SectionKept]_vars

\* Staff pages: a record's picture is its own, unless a check outlived its dialog.
PhotoBelongs ==
    /\ page = "drivers" => Drivers!PhotoBelongs
    /\ page = "conductors" => Conductors!PhotoBelongs

\* A list at rest has heard of what this page did: it does not show what was
\* removed, and it does show what was made.
RestingListsAreFresh ==
    /\ page = "drivers" => Drivers!RestingListKnowsRemoved
    /\ page = "conductors" => Conductors!RestingListKnowsRemoved
    /\ page = "fleet" => Fleet!RestingListKnowsRemoved
    /\ page = "dispatch" => Dispatch!RestingListKnowsMade

\* Staff pages: two accounts for one driver take two requests that overlapped,
\* and a conductor's account is pointed at by the row it was made for.
LoginsAreSound ==
    /\ page = "drivers" => Drivers!SecondAccountNeedsOverlap
    /\ page = "conductors" => Conductors!NoOrphanAccount

\* Fleet: the toggle of the list does not put a bus back that is in service.
ServiceNotOverridden == [][page = "fleet" => Fleet!ServiceNotOverridden]_vars

\* Dispatch: nobody is on two buses in one day.
OneBusPerDay == page = "dispatch" => Dispatch!OneBusPerDay

\* Dispatch: a cancelled allocation stays cancelled.
CancelledStays == [][page = "dispatch" => Dispatch!CancelledStays]_vars

\* Roles: a role grants what the last save of it ticked.
RolesAreAsTicked == page = "roles" => RolesPage!RolesAreAsTicked

\* Roster: a published chart books no group twice.
PublishedIsClean == page = "roster" => Roster!PublishedIsClean

\* Roster: the rotation leaves a planner's choice alone.
PlannersChoiceStays == [][page = "roster" => Roster!PlannersChoiceStays]_vars

\* Roster: a change of a published chart is on record.
PublishedChangeIsOnRecord == [][page = "roster" => Roster!PublishedChangeIsOnRecord]_vars

\* Roster: a duty read as locked keeps its group.
LockedStays == [][page = "roster" => Roster!LockedStays]_vars

\* ---- the network and what it earns --------------------------------------------

\* Counter: a suggested price is that of the leg and type it is sold for.
SoldAtItsFare == page = "counter" => Counter!SoldAtItsFare

\* Counter: a ticket is boarded on once, or voided, unless two requests crossed.
OneUse == page = "counter" => Counter!OneUse

\* Counter: a voided ticket stays void.
VoidIsForGood == [][page = "counter" => Counter!VoidIsForGood]_vars

\* Fares: a leg is priced twice only by hand, or by writers that had not read
\* each other.
PricedTwiceKnowingly == page = "fares" => Fares!PricedTwiceKnowingly

\* Fares: an import prices legs of its own route.
ImportsFitTheRoute == page = "fares" => Fares!ImportsFitTheRoute

\* Ledger: the cached balance is the sum of the posted lines.
BalanceIsSum == page = "ledger" => Ledger!BalanceIsSum

\* Ledger: a paid salary is booked, and twice only by handlers that overlapped.
SalariesAreBooked == page = "ledger" => Ledger!SalariesAreBooked

\* Ledger: a reversed entry has one reversal.
ReversalsPair == page = "ledger" => Ledger!ReversalsPair

\* Accounts: the tree holds every active account, and its parents are groups.
TreeIsSound == page = "accounts" => Chart!TreeIsSound

\* Accounts: a removed account has no bookings.
RetiredAreEmpty == page = "accounts" => Chart!RetiredAreEmpty

\* Routes: the draft's ends, boxes and road are of a piece.
DraftIsOfAPiece == page = "routes" => Routes!DraftIsOfAPiece

\* Routes: a stored route follows a road between its own ends.
StoredPathFits == page = "routes" => Routes!StoredPathFits

\* Stops: the stops of a route follow its path.
InOrderUnlessStale == page = "stops" => Stops!InOrderUnlessStale

\* Stops: a route drawn without ends starts and ends at its first and last stop.
EndsAreFirstAndLast == page = "stops" => Stops!EndsAreFirstAndLast
=============================================================================
