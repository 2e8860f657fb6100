SPECIFICATION FairSpec
CONSTANTS
    Players = {a, b}
    None = None
    Leavers = {a}
    Costs = {2}
    Amounts = {3}
    StartMoney = 5
    StartItems = 1
    Failing = {"buyer", "revoke"}
    MaxOrders = 1
    MaxBets = 1
    SaveCapacity = 1
    MaxFailures = 2
CHECK_DEADLOCK FALSE
PROPERTY
    LotsClose
