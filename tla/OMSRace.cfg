SPECIFICATION FairSpec
CONSTANTS
    p = p
    q = q
    None = None
    Buys = {"b1"}
    Sells = {}
    Size = 2
    Worse = {}
    Deployments = {"d1"}
    Later = {}
    Rehearsed = {}
    Shadow = {}
    Capital = 4
    Inventory = 0
    Procs = {p, q}
    Calls = {"submit", "cancel", "query", "reconcile", "crash"}
    MayExpire = {}
    Settlements = {"NOT_REQUIRED"}
    OperatorModes = {}
    Qty <- MCQty
    Extra <- MCExtra
    Dep <- MCDep
INVARIANT ClosedAtVenue
PROPERTY TerminalFinal
PROPERTY UnknownResolved
