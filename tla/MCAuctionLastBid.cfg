SPECIFICATION Spec
CONSTANTS
    Players = {a, b}
    None = None
    Leavers = {}
    Costs = {2}
    Amounts = {3}
    StartMoney = 5
    StartItems = 1
    Failing = {}
    MaxOrders = 1
    MaxBets = 2
    SaveCapacity = 2
    MaxFailures = 0
CHECK_DEADLOCK FALSE
INVARIANT
    LastBidderWins
