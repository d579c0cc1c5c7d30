SPECIFICATION Spec
CONSTANTS
    None = None
    MaxOpens = 2
    MaxSends = 2
    FewOpens = 1
    FewSends = 1
    StartPages = {"counter", "fares", "ledger", "accounts", "routes", "stops"}
    a1 = a1
    a2 = a2
    cash = cash
    CounterLegs = {a1, a2}
    Types = {1, 2}
    MaxTickets = 2
    MaxPicks = 2
    Line <- Lines
    MaxFares = 3
    MaxImports = 2
    Salaries = {a1, a2}
    MaxEntries = 4
    Accounts = {a1, a2, cash}
    System = {cash}
    Places = {a1, a2}
    MaxAsks = 3
    MaxRoutes = 3
    Length = 2
    Hints = {2}
    MaxStops = 4
\* of pages not mounted
    Staff = {}
    Enrolled = {}
    Collectors = {}
    Hired = {}
    Phones = {}
    Partners = {}
    MaxStamp = 0
    Buses = {}
    Crew = {}
    MaxRows = 0
    Rotating = {}
    Reserve = {}
    Slots = 0
    MaxDuties = 0
    Roles = {}
    BuiltIn = {}
    Grants = {}
SYMMETRY Symmetry
PROPERTY VoidIsForGood
