SPECIFICATION Spec
CONSTANTS
    sam = sam
    cleo = cleo
    x = x
    y = y
    dirt = dirt
    bedrock = bedrock
    Air = air
    Players <- MCPlayers
    Creative <- MCCreative
    Cells <- MCCells
    Placeable = {dirt}
    Terrains <- MCTerrains
    Blocks <- MCBlocks
    BreakTime <- MCBreakTime
    Orders <- MCOrders
    MaxPackets = 3
    MaxAge = 1
INVARIANTS
    AnsweredOnce
    ClientsAgree
    FluidsHear
    DigSurvives
PROPERTIES
    NoFreeBreak
