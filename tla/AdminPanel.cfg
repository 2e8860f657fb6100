CONSTANTS
    MaxVersion = 1
    MaxLost = 1
SPECIFICATION FairSpec
INVARIANTS FlagTellsRefresh
PROPERTIES StatsNeverGoBack PageCatchesUp
