SPECIFICATION Spec
CONSTANTS
    Refs = {r1, r2}
    Gids = {g1, g2}
    Bookings = {b1, b2}
    Workers = {w1}
    Amounts = {1, 2}
    None = None
    Crashes = FALSE
SYMMETRY Symmetry
INVARIANTS ReceiptMatchesRow
PROPERTIES SoldOnce
CHECK_DEADLOCK FALSE
