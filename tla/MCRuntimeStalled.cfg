SPECIFICATION StalledStoreSpec
CONSTANTS
    disconnect = disconnect
    use = use
    save = save
    refund = refund
    remove = remove
    die = die
    pick = pick
    None = None
    Lifecycle = {save}
    Gameplay = {}
    Internal = {refund}
    FollowUps = {}
    Deaths = {}
    Pickups = {pick}
    Durable = {save}
    Tracked = {}
    Delayed = {}
    FollowUp <- MCFollowUp
    IngressCapacity <- MCIngressCapacity
    Budget <- MCBudget
    QueueCapacity = 1
    BatchLimit = 1
    DueCapacity = 1
PROPERTIES
    ClassesIsolated
