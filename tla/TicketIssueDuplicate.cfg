SPECIFICATION Spec
CONSTANTS
    Keys = {k1, k2}
    Groups = {k2}
    Attempts = {a1, a2}
    Posts = {p1, p2, p3}
    None = None
    Faults = {}
INVARIANTS NeverADuplicate
CHECK_DEADLOCK FALSE
