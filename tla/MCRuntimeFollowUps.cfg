SPECIFICATION Spec
CONSTANTS
    disconnect = disconnect
    use = use
    save = save
    refund = refund
    remove = remove
    die = die
    pick = pick
    None = None
    Lifecycle = {}
    Gameplay = {use, save}
    Internal = {}
    FollowUps = {remove}
    Deaths = {die}
    Pickups = {}
    Durable = {save}
    Tracked = {save, remove}
    Delayed = {use}
    FollowUp <- MCFollowUp
    IngressCapacity <- MCIngressCapacity
    Budget <- MCBudget
    QueueCapacity = 1
    BatchLimit = 2
    DueCapacity = 1
INVARIANTS
    SaveFifo
    
    WithinCapacity
    FlushAfterDrain
