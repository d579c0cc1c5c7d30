---------------------------- MODULE Pages_proofs ----------------------------
(***************************************************************************)
(* What is proved of a page by itself holds of the pages together.  A      *)
(* behaviour begins on one page and stays there, each of its steps is a    *)
(* step of that page, and a property of another page asks nothing of it.   *)
(* So each proof below rests on a lemma that says so of its page: there the *)
(* theorem of the page's own module applies, elsewhere the property holds  *)
(* of every state.                                                         *)
(***************************************************************************)
EXTENDS Pages, StaffPages_proofs, PlanPages_proofs, MoneyPages_proofs, TLAPS

\* PagesAssumption gives each page's theorems what they assume.
LEMMA Assumed ==
    /\ Drivers!StaffAssumption /\ Conductors!CollectorAssumption /\ Fleet!StaffAssumption
    /\ Counter!CounterAssumption /\ Ledger!LedgerAssumption
    /\ Dispatch!DispatchAssumption /\ Chart!AccountsAssumption /\ Roster!RosterAssumption
    /\ Routes!RouteAssumption /\ RolesPage!RoleAssumption /\ Fares!FareAssumption /\ Stops!StopAssumption
<1>1. Conductors!IsFiniteSet(Collectors)
  BY PagesAssumption, CollectorCounted DEF PagesAssumption
<1> QED
  BY PagesAssumption, <1>1
  DEF PagesAssumption, Drivers!StaffAssumption, Fleet!StaffAssumption,
      Conductors!CollectorAssumption, Conductors!StaffAssumption,
      Counter!CounterAssumption, Ledger!LedgerAssumption,
      Dispatch!DispatchAssumption, Chart!AccountsAssumption, Roster!RosterAssumption,
      Routes!RouteAssumption, RolesPage!RoleAssumption

\* ---- a behaviour stays on its page ----------------------------------------------------

On(p) == page = p

\* A behaviour that begins on a page is one of that page by itself, another
\* never comes to it.

LEMMA DriverAlone == Spec => ([]On("drivers") /\ Drivers!Spec) \/ []~On("drivers")
<1>1. Init => (On("drivers") => Drivers!Init)
  BY DEF Init, On
<1>2. On("drivers") /\ [Next]_vars => [Drivers!Next]_Drivers!deskVars /\ On("drivers")'
  BY DEF Next, vars, deskVars, Drivers!deskVars, On
<1>3. ~On("drivers") /\ [Next]_vars => ~On("drivers")'
  BY DEF Next, vars, On
<1> QED
  BY <1>1, <1>2, <1>3, PTL DEF Spec, Drivers!Spec

LEMMA ConductorAlone == Spec => ([]On("conductors") /\ Conductors!Spec) \/ []~On("conductors")
<1>1. Init => (On("conductors") => Conductors!Init)
  BY DEF Init, On
<1>2. On("conductors") /\ [Next]_vars => [Conductors!Next]_Conductors!deskVars /\ On("conductors")'
  BY DEF Next, vars, deskVars, Conductors!deskVars, On
<1>3. ~On("conductors") /\ [Next]_vars => ~On("conductors")'
  BY DEF Next, vars, On
<1> QED
  BY <1>1, <1>2, <1>3, PTL DEF Spec, Conductors!Spec

LEMMA FleetAlone == Spec => ([]On("fleet") /\ Fleet!Spec) \/ []~On("fleet")
<1>1. Init => (On("fleet") => Fleet!Init)
  BY DEF Init, On
<1>2. On("fleet") /\ [Next]_vars => [Fleet!Next]_Fleet!deskVars /\ On("fleet")'
  BY DEF Next, vars, deskVars, Fleet!deskVars, On
<1>3. ~On("fleet") /\ [Next]_vars => ~On("fleet")'
  BY DEF Next, vars, On
<1> QED
  BY <1>1, <1>2, <1>3, PTL DEF Spec, Fleet!Spec

LEMMA DispatchAlone == Spec => ([]On("dispatch") /\ Dispatch!Spec) \/ []~On("dispatch")
<1>1. Init => (On("dispatch") => Dispatch!Init)
  BY DEF Init, On
<1>2. On("dispatch") /\ [Next]_vars => [Dispatch!Next]_Dispatch!deskVars /\ On("dispatch")'
  BY DEF Next, vars, deskVars, Dispatch!deskVars, On
<1>3. ~On("dispatch") /\ [Next]_vars => ~On("dispatch")'
  BY DEF Next, vars, On
<1> QED
  BY <1>1, <1>2, <1>3, PTL DEF Spec, Dispatch!Spec

LEMMA RosterAlone == Spec => ([]On("roster") /\ Roster!Spec) \/ []~On("roster")
<1>1. Init => (On("roster") => Roster!Init)
  BY DEF Init, On
<1>2. On("roster") /\ [Next]_vars => [Roster!Next]_Roster!deskVars /\ On("roster")'
  BY DEF Next, vars, deskVars, Roster!deskVars, On
<1>3. ~On("roster") /\ [Next]_vars => ~On("roster")'
  BY DEF Next, vars, On
<1> QED
  BY <1>1, <1>2, <1>3, PTL DEF Spec, Roster!Spec

LEMMA RolesAlone == Spec => ([]On("roles") /\ RolesPage!Spec) \/ []~On("roles")
<1>1. Init => (On("roles") => RolesPage!Init)
  BY DEF Init, On
<1>2. On("roles") /\ [Next]_vars => [RolesPage!Next]_RolesPage!deskVars /\ On("roles")'
  BY DEF Next, vars, deskVars, RolesPage!deskVars, On
<1>3. ~On("roles") /\ [Next]_vars => ~On("roles")'
  BY DEF Next, vars, On
<1> QED
  BY <1>1, <1>2, <1>3, PTL DEF Spec, RolesPage!Spec

LEMMA RoutesAlone == Spec => ([]On("routes") /\ Routes!Spec) \/ []~On("routes")
<1>1. Init => (On("routes") => Routes!Init)
  BY DEF Init, On
<1>2. On("routes") /\ [Next]_vars => [Routes!Next]_Routes!deskVars /\ On("routes")'
  BY DEF Next, vars, deskVars, Routes!deskVars, On
<1>3. ~On("routes") /\ [Next]_vars => ~On("routes")'
  BY DEF Next, vars, On
<1> QED
  BY <1>1, <1>2, <1>3, PTL DEF Spec, Routes!Spec

LEMMA ChartAlone == Spec => ([]On("accounts") /\ Chart!Spec) \/ []~On("accounts")
<1>1. Init => (On("accounts") => Chart!Init)
  BY DEF Init, On
<1>2. On("accounts") /\ [Next]_vars => [Chart!Next]_Chart!deskVars /\ On("accounts")'
  BY DEF Next, vars, deskVars, Chart!deskVars, On
<1>3. ~On("accounts") /\ [Next]_vars => ~On("accounts")'
  BY DEF Next, vars, On
<1> QED
  BY <1>1, <1>2, <1>3, PTL DEF Spec, Chart!Spec

LEMMA CounterAlone == Spec => ([]On("counter") /\ Counter!Spec) \/ []~On("counter")
<1>1. Init => (On("counter") => Counter!Init)
  BY DEF Init, On
<1>2. On("counter") /\ [Next]_vars => [Counter!Next]_Counter!deskVars /\ On("counter")'
  BY DEF Next, vars, deskVars, Counter!deskVars, On
<1>3. ~On("counter") /\ [Next]_vars => ~On("counter")'
  BY DEF Next, vars, On
<1> QED
  BY <1>1, <1>2, <1>3, PTL DEF Spec, Counter!Spec

LEMMA LedgerAlone == Spec => ([]On("ledger") /\ Ledger!Spec) \/ []~On("ledger")
<1>1. Init => (On("ledger") => Ledger!Init)
  BY DEF Init, On
<1>2. On("ledger") /\ [Next]_vars => [Ledger!Next]_Ledger!deskVars /\ On("ledger")'
  BY DEF Next, vars, deskVars, Ledger!deskVars, On
<1>3. ~On("ledger") /\ [Next]_vars => ~On("ledger")'
  BY DEF Next, vars, On
<1> QED
  BY <1>1, <1>2, <1>3, PTL DEF Spec, Ledger!Spec

LEMMA FareAlone == Spec => ([]On("fares") /\ Fares!Spec) \/ []~On("fares")
<1>1. Init => (On("fares") => Fares!Init)
  BY DEF Init, On
<1>2. On("fares") /\ [Next]_vars => [Fares!Next]_Fares!deskVars /\ On("fares")'
  BY DEF Next, vars, deskVars, Fares!deskVars, On
<1>3. ~On("fares") /\ [Next]_vars => ~On("fares")'
  BY DEF Next, vars, On
<1> QED
  BY <1>1, <1>2, <1>3, PTL DEF Spec, Fares!Spec

LEMMA StopAlone == Spec => ([]On("stops") /\ Stops!Spec) \/ []~On("stops")
<1>1. Init => (On("stops") => Stops!Init)
  BY DEF Init, On
<1>2. On("stops") /\ [Next]_vars => [Stops!Next]_Stops!deskVars /\ On("stops")'
  BY DEF Next, vars, deskVars, Stops!deskVars, On
<1>3. ~On("stops") /\ [Next]_vars => ~On("stops")'
  BY DEF Next, vars, On
<1> QED
  BY <1>1, <1>2, <1>3, PTL DEF Spec, Stops!Spec

\* ---- the theorems ---------------------------------------------------------------------

\* In the portal a driver or a conductor shows another one's picture only when the
\* check of a picked file ended after the dialog it was picked in was gone.
THEOREM PicturesBelong == Spec => []PhotoBelongs
<1>1. Drivers!Spec => []Drivers!PhotoBelongs
  BY Assumed, DriverPhotosBelong
<1>2. Conductors!Spec => []Conductors!PhotoBelongs
  BY Assumed, CollectorPhotosBelong
<1>3. PhotoBelongs <=> /\ On("drivers") => Drivers!PhotoBelongs
                       /\ On("conductors") => Conductors!PhotoBelongs
  BY DEF PhotoBelongs, On
<1> QED
  BY DriverAlone, ConductorAlone, <1>1, <1>2, <1>3, PTL

\* In the portal a list at rest has heard of what its page removed or made, but for
\* the records a save over a stale row brought back.
THEOREM ListsAreFresh == Spec => []RestingListsAreFresh
<1>1. Drivers!Spec => []Drivers!RestingListKnowsRemoved
  BY Assumed, DriverRestingKnowsRemoved
<1>2. Conductors!Spec => []Conductors!RestingListKnowsRemoved
  BY Assumed, CollectorRestingKnowsRemoved
<1>3. Fleet!Spec => []Fleet!RestingListKnowsRemoved
  BY Assumed, FleetRestingKnowsRemoved
<1>4. Dispatch!Spec => []Dispatch!RestingListKnowsMade
  BY Assumed, DispatchMadeIsListed
<1>5. RestingListsAreFresh <=> /\ On("drivers") => Drivers!RestingListKnowsRemoved
                               /\ On("conductors") => Conductors!RestingListKnowsRemoved
                               /\ On("fleet") => Fleet!RestingListKnowsRemoved
                               /\ On("dispatch") => Dispatch!RestingListKnowsMade
  BY DEF RestingListsAreFresh, On
<1> QED
  BY DriverAlone, ConductorAlone, FleetAlone, DispatchAlone, <1>1, <1>2, <1>3, <1>4, <1>5, PTL

\* In the portal a driver gets a second account only from requests that overlapped,
\* and an account no conductor's row points at is one LoginsAreSound names.
THEOREM LoginsSound == Spec => []LoginsAreSound
<1>1. Drivers!Spec => []Drivers!SecondAccountNeedsOverlap
  BY Assumed, DriverSecondAccounts
<1>2. Conductors!Spec => []Conductors!NoOrphanAccount
  BY Assumed, CollectorNoOrphans
<1>3. LoginsAreSound <=> /\ On("drivers") => Drivers!SecondAccountNeedsOverlap
                         /\ On("conductors") => Conductors!NoOrphanAccount
  BY DEF LoginsAreSound, On
<1> QED
  BY DriverAlone, ConductorAlone, <1>1, <1>2, <1>3, PTL

\* In the portal an edit of one section does not take another section's text back,
\* unless it was saved over a row somebody had written since.
THEOREM SectionsStay == Spec => SectionKept
<1> DEFINE Step == /\ page = "drivers" => Drivers!SectionKept
                   /\ page = "conductors" => Conductors!SectionKept
                   /\ page = "fleet" => Fleet!SectionKept
<1>1. Drivers!Spec => [][Drivers!SectionKept]_Drivers!deskVars
  BY Assumed, DriverSectionsKept DEF Drivers!deskVars, deskVars
<1>2. Conductors!Spec => [][Conductors!SectionKept]_Conductors!deskVars
  BY Assumed, CollectorSectionsKept DEF Conductors!deskVars, deskVars
<1>3. Fleet!Spec => [][Fleet!SectionKept]_Fleet!deskVars
  BY Assumed, FleetSectionsKept DEF Fleet!deskVars, deskVars
<1>4. On("drivers") /\ On("drivers")' /\ [Drivers!SectionKept]_Drivers!deskVars
        => [Step]_vars
  BY DEF vars, deskVars, Drivers!deskVars, On
<1>5. On("conductors") /\ On("conductors")' /\ [Conductors!SectionKept]_Conductors!deskVars
        => [Step]_vars
  BY DEF vars, deskVars, Conductors!deskVars, On
<1>6. On("fleet") /\ On("fleet")' /\ [Fleet!SectionKept]_Fleet!deskVars
        => [Step]_vars
  BY DEF vars, deskVars, Fleet!deskVars, On
<1>7. ~On("drivers") /\ ~On("conductors") /\ ~On("fleet")
        => [Step]_vars
  BY DEF On
<1>8. [Step]_vars <=> [/\ page = "drivers" => Drivers!SectionKept
                       /\ page = "conductors" => Conductors!SectionKept
                       /\ page = "fleet" => Fleet!SectionKept]_vars
  OBVIOUS
<1> HIDE DEF Step
<1> QED
  BY DriverAlone, ConductorAlone, FleetAlone, <1>1, <1>2, <1>3, <1>4, <1>5, <1>6, <1>7, <1>8, PTL DEF SectionKept

\* In the portal the toggle of the fleet list overrides no service it was told of.
THEOREM ServicesStay == Spec => ServiceNotOverridden
<1>1. Fleet!Spec => [][Fleet!ServiceNotOverridden]_Fleet!deskVars
  BY Assumed, FleetServicesKept DEF Fleet!deskVars, deskVars
<1>2. On("fleet") /\ On("fleet")' /\ [Fleet!ServiceNotOverridden]_Fleet!deskVars
        => [page = "fleet" => Fleet!ServiceNotOverridden]_vars
  BY DEF vars, deskVars, Fleet!deskVars, On
<1>3. ~On("fleet")
        => [page = "fleet" => Fleet!ServiceNotOverridden]_vars
  BY DEF On
<1> QED
  BY FleetAlone, <1>1, <1>2, <1>3, PTL DEF ServiceNotOverridden

\* In the portal a suggested price is sold for its own leg and type: the page of
\* the point of sale is the only one that writes what SoldAtItsFare reads.
THEOREM TicketsPriced == Spec => []SoldAtItsFare
<1>1. Counter!Spec => []Counter!SoldAtItsFare
  BY Assumed, CounterPricedAsSuggested
<1>2. SoldAtItsFare <=> (On("counter") => Counter!SoldAtItsFare)
  BY DEF SoldAtItsFare, On
<1> QED
  BY CounterAlone, <1>1, <1>2, PTL

\* In the portal a ticket is boarded on once, or voided, unless two requests
\* crossed on it.
THEOREM TicketsUsedOnce == Spec => []OneUse
<1>1. Counter!Spec => []Counter!OneUse
  BY Assumed, CounterUsedOnce
<1>2. OneUse <=> (On("counter") => Counter!OneUse)
  BY DEF OneUse, On
<1> QED
  BY CounterAlone, <1>1, <1>2, PTL

\* In the portal a leg is priced twice only by hand, or by writers that had not
\* read each other: an import updates the fare it finds, and the formula leaves
\* alone a leg that is priced, in either direction.
THEOREM LegsPricedTwice == Spec => []PricedTwiceKnowingly
<1>1. Fares!Spec => []Fares!PricedTwiceKnowingly
  BY Assumed, FarePricedTwice
<1>2. PricedTwiceKnowingly <=> (On("fares") => Fares!PricedTwiceKnowingly)
  BY DEF PricedTwiceKnowingly, On
<1> QED
  BY FareAlone, <1>1, <1>2, PTL

\* In the portal an import prices legs of its own route, unless it was sent before
\* the stops of the route were there to choose from.
THEOREM ImportsFitRoutes == Spec => []ImportsFitTheRoute
<1>1. Fares!Spec => []Fares!ImportsFitTheRoute
  BY Assumed, FareImportsFit
<1>2. ImportsFitTheRoute <=> (On("fares") => Fares!ImportsFitTheRoute)
  BY DEF ImportsFitTheRoute, On
<1> QED
  BY FareAlone, <1>1, <1>2, PTL

\* In the portal the cached balance of an account is the sum of its posted lines
\* whenever no handler is under way.
THEOREM BalancesSummed == Spec => []BalanceIsSum
<1>1. Ledger!Spec => []Ledger!BalanceIsSum
  BY Assumed, Ledger!BalanceSummed
<1>2. BalanceIsSum <=> (On("ledger") => Ledger!BalanceIsSum)
  BY DEF BalanceIsSum, On
<1> QED
  BY LedgerAlone, <1>1, <1>2, PTL

\* In the portal a paid salary has its journal entry, and a second one only from
\* handlers that overlapped.
THEOREM SalariesBooked == Spec => []SalariesAreBooked
<1>1. Ledger!Spec => []Ledger!SalariesAreBooked
  BY Assumed, Ledger!SalaryBooked
<1>2. SalariesAreBooked <=> (On("ledger") => Ledger!SalariesAreBooked)
  BY DEF SalariesAreBooked, On
<1> QED
  BY LedgerAlone, <1>1, <1>2, PTL

\* In the portal a reversed entry has its one reversal.
THEOREM EntriesReversedOnce == Spec => []ReversalsPair
<1>1. Ledger!Spec => []Ledger!ReversalsPair
  BY Assumed, Ledger!ReversedOnce
<1>2. ReversalsPair <=> (On("ledger") => Ledger!ReversalsPair)
  BY DEF ReversalsPair, On
<1> QED
  BY LedgerAlone, <1>1, <1>2, PTL

\* In the portal no account in use falls out of the chart, and accounts with
\* others below them take no bookings, but for what TreeIsSound names.
THEOREM TreeIsTree == Spec => []TreeIsSound
<1>1. Chart!Spec => []Chart!TreeIsSound
  BY Assumed, ChartTreeSound
<1>2. TreeIsSound <=> (On("accounts") => Chart!TreeIsSound)
  BY DEF TreeIsSound, On
<1> QED
  BY ChartAlone, <1>1, <1>2, PTL

\* In the portal a removed account has no bookings, unless it was removed as they
\* were made or an edit switched it off.
THEOREM BookedAreInUse == Spec => []RetiredAreEmpty
<1>1. Chart!Spec => []Chart!RetiredAreEmpty
  BY Assumed, ChartRetiredEmpty
<1>2. RetiredAreEmpty <=> (On("accounts") => Chart!RetiredAreEmpty)
  BY DEF RetiredAreEmpty, On
<1> QED
  BY ChartAlone, <1>1, <1>2, PTL

\* In the portal nobody is put on two buses in one day but by the crossings that
\* OneBusPerDay names.
THEOREM CrewOnOneBus == Spec => []OneBusPerDay
<1>1. Dispatch!Spec => []Dispatch!OneBusPerDay
  BY Assumed, DispatchOneBus
<1>2. OneBusPerDay <=> (On("dispatch") => Dispatch!OneBusPerDay)
  BY DEF OneBusPerDay, On
<1> QED
  BY DispatchAlone, <1>1, <1>2, PTL

\* In the portal a cancelled allocation is taken up again by nobody but an edit, a
\* new schedule, or a handler that read it before it was cancelled.
THEOREM CancelledStayCancelled == Spec => CancelledStays
<1>1. Dispatch!Spec => [][Dispatch!CancelledStays]_Dispatch!deskVars
  BY Assumed, DispatchCancelledForGood DEF Dispatch!deskVars, deskVars
<1>2. On("dispatch") /\ On("dispatch")' /\ [Dispatch!CancelledStays]_Dispatch!deskVars
        => [page = "dispatch" => Dispatch!CancelledStays]_vars
  BY DEF vars, deskVars, Dispatch!deskVars, On
<1>3. ~On("dispatch")
        => [page = "dispatch" => Dispatch!CancelledStays]_vars
  BY DEF On
<1> QED
  BY DispatchAlone, <1>1, <1>2, <1>3, PTL DEF CancelledStays

\* In the portal a chart that was published books no group twice and no reserve
\* group on a duty of the demand, unless two planners' requests crossed.
THEOREM PublishedChartsClean == Spec => []PublishedIsClean
<1>1. Roster!Spec => []Roster!PublishedIsClean
  BY Assumed, RosterPublishedClean
<1>2. PublishedIsClean <=> (On("roster") => Roster!PublishedIsClean)
  BY DEF PublishedIsClean, On
<1> QED
  BY RosterAlone, <1>1, <1>2, PTL

\* In the portal a rotation leaves alone what a planner set by hand or locked, but for
\* what PlannersChoiceStays names.
THEOREM ChoicesStay == Spec => PlannersChoiceStays
<1>1. Roster!Spec => [][Roster!PlannersChoiceStays]_Roster!deskVars
  BY Assumed, RosterChoiceStays DEF Roster!deskVars, deskVars
<1>2. On("roster") /\ On("roster")' /\ [Roster!PlannersChoiceStays]_Roster!deskVars
        => [page = "roster" => Roster!PlannersChoiceStays]_vars
  BY DEF vars, deskVars, Roster!deskVars, On
<1>3. ~On("roster")
        => [page = "roster" => Roster!PlannersChoiceStays]_vars
  BY DEF On
<1> QED
  BY RosterAlone, <1>1, <1>2, <1>3, PTL DEF PlannersChoiceStays

\* In the portal a change of a published chart is on record, but for one that was under
\* way when the chart was published.
THEOREM ChangesOnRecord == Spec => PublishedChangeIsOnRecord
<1>1. Roster!Spec => [][Roster!PublishedChangeIsOnRecord]_Roster!deskVars
  BY Assumed, RosterOnRecord DEF Roster!deskVars, deskVars
<1>2. On("roster") /\ On("roster")' /\ [Roster!PublishedChangeIsOnRecord]_Roster!deskVars
        => [page = "roster" => Roster!PublishedChangeIsOnRecord]_vars
  BY DEF vars, deskVars, Roster!deskVars, On
<1>3. ~On("roster")
        => [page = "roster" => Roster!PublishedChangeIsOnRecord]_vars
  BY DEF On
<1> QED
  BY RosterAlone, <1>1, <1>2, <1>3, PTL DEF PublishedChangeIsOnRecord

\* In the portal the draft of a route is of a piece: its road leads between the places
\* its boxes show, but for what DraftIsOfAPiece names.
THEOREM DraftsOfAPiece == Spec => []DraftIsOfAPiece
<1>1. Routes!Spec => []Routes!DraftIsOfAPiece
  BY Assumed, RouteDraftOfAPiece
<1>2. DraftIsOfAPiece <=> (On("routes") => Routes!DraftIsOfAPiece)
  BY DEF DraftIsOfAPiece, On
<1> QED
  BY RoutesAlone, <1>1, <1>2, PTL

\* In the portal a stored route follows a road between its own ends, unless a hand drew
\* it or it was sent early.
THEOREM StoredPathsFit == Spec => []StoredPathFits
<1>1. Routes!Spec => []Routes!StoredPathFits
  BY Assumed, RouteStoredFits
<1>2. StoredPathFits <=> (On("routes") => Routes!StoredPathFits)
  BY DEF StoredPathFits, On
<1> QED
  BY RoutesAlone, <1>1, <1>2, PTL

\* On the page of the roles, together with the others: a role no two requests filled at once and
\* none broke off at grants what it was last meant to.
THEOREM GrantsAsTicked == Spec => []RolesAreAsTicked
<1>1. RolesPage!Spec => []RolesPage!RolesAreAsTicked
  BY Assumed, RolesAsTicked
<1>2. RolesAreAsTicked <=> (On("roles") => RolesPage!RolesAreAsTicked)
  BY DEF RolesAreAsTicked, On
<1> QED
  BY RolesAlone, <1>1, <1>2, PTL

\* In the portal the stops of a route follow its path, unless a place was computed from what
\* was out of date when it was used: whatever of add_stop, remove_stop and destroy crosses.
THEOREM StopsAlongPath == Spec => []InOrderUnlessStale
<1>1. Stops!Spec => []Stops!InOrderUnlessStale
  BY Assumed, StopsInOrder
<1>2. InOrderUnlessStale <=> (On("stops") => Stops!InOrderUnlessStale)
  BY DEF InOrderUnlessStale, On
<1> QED
  BY StopAlone, <1>1, <1>2, PTL

\* In the portal a route drawn without ends starts and ends at its first and last stop so
\* long as that is so.
THEOREM EndsFound == Spec => []EndsAreFirstAndLast
<1>1. Stops!Spec => []Stops!EndsAreFirstAndLast
  BY Assumed, StopEnds
<1>2. EndsAreFirstAndLast <=> (On("stops") => Stops!EndsAreFirstAndLast)
  BY DEF EndsAreFirstAndLast, On
<1> QED
  BY StopAlone, <1>1, <1>2, PTL

\* In the portal every page keeps to its types, whatever its handlers and a colleague's do.
THEOREM PagesTyped == Spec => []TypeOK
<1>1. /\ Drivers!Spec => []Drivers!TypeOK
      /\ Conductors!Spec => []Conductors!TypeOK
      /\ Fleet!Spec => []Fleet!TypeOK
      /\ Dispatch!Spec => []Dispatch!TypeOK
  BY Assumed, DriverTypeCorrect, CollectorTypeCorrect, FleetTypeCorrect, DispatchTypeCorrect
<1>2. /\ RolesPage!Spec => []RolesPage!TypeOK
      /\ Roster!Spec => []Roster!TypeOK
      /\ Fares!Spec => []Fares!TypeOK
      /\ Chart!Spec => []Chart!TypeOK
  BY Assumed, RoleTypeCorrect, RosterTypeCorrect, FareTypeCorrect, ChartAccountsTypeCorrect
<1>3. /\ Routes!Spec => []Routes!TypeOK
      /\ Stops!Spec => []Stops!TypeOK
  BY Assumed, RoutesTypeCorrect, StopTypeCorrect
<1>4. /\ Counter!Spec => []Counter!TypeOK
      /\ Ledger!Spec => []Ledger!TypeOK
  BY Assumed, CounterTypeCorrect, Ledger!LedgerTypeCorrect
<1>5. TypeOK <=> /\ On("drivers") => Drivers!TypeOK
                 /\ On("conductors") => Conductors!TypeOK
                 /\ On("fleet") => Fleet!TypeOK
                 /\ On("dispatch") => Dispatch!TypeOK
                 /\ On("roles") => RolesPage!TypeOK
                 /\ On("roster") => Roster!TypeOK
                 /\ On("counter") => Counter!TypeOK
                 /\ On("fares") => Fares!TypeOK
                 /\ On("ledger") => Ledger!TypeOK
                 /\ On("accounts") => Chart!TypeOK
                 /\ On("routes") => Routes!TypeOK
                 /\ On("stops") => Stops!TypeOK
  BY DEF TypeOK, On
<1> QED
  BY DriverAlone, ConductorAlone, FleetAlone, DispatchAlone, RolesAlone, RosterAlone, CounterAlone,
     FareAlone, LedgerAlone, ChartAlone, RoutesAlone, StopAlone, <1>1, <1>2, <1>3, <1>4, <1>5, PTL
=============================================================================
