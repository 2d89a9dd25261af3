SPECIFICATION Spec
CONSTANTS
    Events = {1, 2}
    Bar <- MCBar
    Deciding = {1, 2}
    Sells = {}
    Expiring = {2}
    Runtimes = {r1, r2}
    NoEvent = NoEvent
SYMMETRY Symmetry
INVARIANT CompletedLeavesNoReservation
