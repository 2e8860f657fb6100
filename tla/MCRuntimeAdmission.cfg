SPECIFICATION Spec
CONSTANTS
    disconnect = disconnect
    use = use
    save = save
    refund = refund
    remove = remove
    die = die
    pick = pick
    None = None
    Lifecycle = {}
    Gameplay = {save, use}
    Internal = {}
    FollowUps = {}
    Deaths = {}
    Pickups = {pick}
    Durable = {save}
    Tracked = {save}
    Delayed = {}
    FollowUp <- MCFollowUp
    IngressCapacity <- MCIngressCapacity
    Budget <- MCBudget
    QueueCapacity = 1
    BatchLimit = 2
    DueCapacity = 1
INVARIANTS
    TypeOK
    ClassFifo
    NoLostWake
