SPECIFICATION Spec
CONSTANTS
    None = None
    Users = {u1, u2}
    MaxTokens = 5
    MaxOpens = 1
    MaxSends = 5
SYMMETRY Symmetry
INVARIANTS
    TypeOK
    NobodyActsForAnother
    FirstExpiryIsSurvived
