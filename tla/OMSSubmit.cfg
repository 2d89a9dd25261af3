SPECIFICATION Spec
CONSTANTS
    p = p
    q = q
    None = None
    Buys = {"b1", "b2"}
    Sells = {}
    Size = 1
    Worse = {}
    Deployments = {"d1"}
    Later = {}
    Rehearsed = {}
    Shadow = {}
    Capital = 4
    Inventory = 0
    Procs = {p, q}
    Calls = {"submit", "cancel", "crash"}
    MayExpire = {"b1"}
    Settlements = {"NOT_REQUIRED"}
    OperatorModes = {}
    Qty <- MCQty
    Extra <- MCExtra
    Dep <- MCDep
SYMMETRY Symmetry
INVARIANT AtMostOneSend
INVARIANT OneSenderPerAccount
PROPERTY ImplementsOutbox
