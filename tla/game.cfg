\* Eight tiles and racks of three, so that a bag can be smaller than an exchange.
SPECIFICATION FairSpec
CONSTANTS
    Tiles = {1, 2, 3, 4, 5, 6, 7, 8}
    Points <- TilePoints
    RackSize = 3
    ExchangeMinReserve = 1
    NoScoreStreakLength = 3
    MoveScores = {1}
    StreakCap = 4
INVARIANT TilesConserved
INVARIANT ActionReady
PROPERTY OpenedGameEnds
CHECK_DEADLOCK FALSE
