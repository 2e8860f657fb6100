SPECIFICATION Spec
CONSTANTS
    Players = {a, b, c}
    None = None
    Leavers = {}
    Costs = {2}
    Amounts = {3}
    StartMoney = 5
    StartItems = 1
    Failing = {"refund", "rollback", "offline", "seller", "buyer", "revoke", "delete"}
    MaxOrders = 1
    MaxBets = 2
    SaveCapacity = 1
    MaxFailures = 2
CHECK_DEADLOCK FALSE
SYMMETRY PlayerSymmetry
INVARIANTS
    TypeOK
    
    HandedOverOnce

    
