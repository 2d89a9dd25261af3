SPECIFICATION Spec
CONSTANTS
    Events = {1, 2, 3}
    Bar <- MCBar
    Deciding = {2, 3}
    Sells = {3}
    Expiring = {2}
    Runtimes = {r1, r2}
    NoEvent = NoEvent
SYMMETRY Symmetry
INVARIANTS HistoryOnRecord OnlyHeadUnfinished OneOrderPerBar
PROPERTIES SendsAtHead
