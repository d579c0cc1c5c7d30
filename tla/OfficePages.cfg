SPECIFICATION Spec
CONSTANTS
    None = None
    MaxOpens = 2
    MaxSends = 2
    FewOpens = 1
    FewSends = 1
    StartPages = {"drivers", "conductors", "fleet", "dispatch", "roles", "roster"}
    d1 = d1
    d2 = d2
    c1 = c1
    c2 = c2
    a1 = a1
    a2 = a2
    v = v
    w1 = w1
    w2 = w2
    Staff = {d1, d2}
    Enrolled = {d1}
    Collectors = {c1, c2}
    Hired = {c1}
    Phones = {a1, a2}
    Partners = {d1}
    MaxStamp = 1
    Buses = {a1, a2}
    Crew = {w1, w2}
    MaxRows = 3
    Rotating = {a1, a2}
    Reserve = {v}
    Slots = 2
    MaxDuties = 3
    Roles = {d1, d2}
    BuiltIn = {d1}
    Grants = {a1, a2}
\* of pages not mounted
    CounterLegs = {}
    Types = {1}
    MaxTickets = 1
    MaxPicks = 0
    Line <- NoLine
    MaxFares = 1
    MaxImports = 1
    Salaries = {}
    MaxEntries = 1
    Accounts = {}
    System = {}
    Places = {}
    MaxAsks = 0
    MaxRoutes = 2
    Length = 1
    Hints = {}
    MaxStops = 2
SYMMETRY Symmetry
INVARIANTS
    TypeOK
    PhotoBelongs
    RestingListsAreFresh
    
    OneBusPerDay
    RolesAreAsTicked
    PublishedIsClean
PROPERTIES
    SectionKept
    
    CancelledStays
    PlannersChoiceStays
    
