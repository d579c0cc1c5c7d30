SPECIFICATION Spec
CONSTANTS
    Refs = {r1}
    Gids = {g1, g2}
    Bookings = {b1, b2}
    Workers = {w1, w2}
    Amounts = {1, 2}
    None = None
    Crashes = FALSE
SYMMETRY Symmetry
INVARIANT OneSalePerPayment
CHECK_DEADLOCK FALSE
