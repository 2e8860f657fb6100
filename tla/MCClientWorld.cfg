SPECIFICATION FairSpec
CONSTANTS
  b1 = b1
  b2 = b2
  Bots <- MCBots
  FirstBot = b1
  Programmed <- MCProgrammed
  SavedWorlds <- MCSavedWorlds
  Densities <- MCDensities
  Clearing <- MCClearing
  Seeds <- MCSeeds
  StartAt <- MCStartAt
  DropCells <- MCDropCells
  DropIds <- MCDropIds
  MouseCells <- MCMouseCells
  Scatter <- MCScatter
  BrushRadius = 1
  Geology = 1
  MaxEdits = 2
  Width = 2
  Height = 4
  ChunkSize = 2
  GrowthBatch = 2
INVARIANTS TypeOK LayersAgree AlivesAreListed 
PROPERTIES BotsEditInReach BlocksConserved 
CHECK_DEADLOCK FALSE
