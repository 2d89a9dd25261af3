SPECIFICATION Spec
CONSTANTS
    p = p
    None = None
    Buys = {"b1", "b2"}
    Sells = {"s1", "s2"}
    Size = 2
    Worse = {"b2"}
    Deployments = {"d1", "d2", "d3"}
    Later = {"b2"}
    Rehearsed = {"s2"}
    Shadow = {"d3"}
    Capital = 2
    Inventory = 0
    Procs = {p}
    Calls = {"submit", "cancel", "release", "reconcile", "operator", "watchdog"}
    MayExpire = {}
    Settlements = {"NOT_REQUIRED", "REORGED"}
    OperatorModes = {"ACTIVE"}
    Qty <- MCQty
    Extra <- MCExtra
    Dep <- MCDep
INVARIANT BudgetHeld
INVARIANT LedgerMatchesFills
PROPERTY ShortfallHalts
INVARIANT OpenOrdersBelongToHead
INVARIANT ActiveIsHealthy
PROPERTY StopsLatch
