SPECIFICATION FairSpec
CONSTANTS
    b1 = b1
    s1 = s1
    p1 = p1
    Orders <- MCOrders
    Callers = {c1, c2}
    Reconcilers = {r1}
    Binance <- MCBinance
    Buys <- MCBuys
    Qty <- MCQty
    Fee = 1
    StartCash = 4
    Modes = {"active", "frozen"}
    MaxOrder = 3
    MaxDaily = 4
    ExitAllowed = TRUE
    NoOrder = NoOrder
INVARIANTS SentOnce BooksMatchVenue RejectedNeverFilled DayRiskWithinLimit OneFillMissing
PROPERTY ExecutedIsAccounted
CHECK_DEADLOCK FALSE
