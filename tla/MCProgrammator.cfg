CONSTANTS
    Programs <- MCPrograms
    LineLength <- MCLineLength
    MaxDepth <- MCMaxDepth
    MaxView <- MCMaxView
SPECIFICATION FairSpec
INVARIANTS TypeOK RunBelongsToProgram StoppedIsClean
PROPERTIES TickerOutlivesWellFormed FrameIsolation ProgramGetsTheBot
