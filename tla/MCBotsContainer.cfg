CONSTANTS
    b1 = b1
    b2 = b2
    Bots <- MCBots
    ChunkSize = 2
    Width = 3
    Height = 3
    Xs <- MCXs
    Ys <- MCYs
    Queries <- MCQueries
SPECIFICATION Spec
INVARIANTS IndexIsExact
PROPERTIES ImplementsDirectory
