SPECIFICATION Spec
CONSTANTS
    RationalMax = 111
    BoardSize = 6
    Center = 3
    Premium <- MCPremium
    Tokens <- MCTokens
    TilePoints <- MCTilePoints
    Assign <- MCAssign
    RackSize = 3
    BingoBonus = 4
    None = None
    Boards <- MCBoards
    Racks <- MCRacks
    Limits <- MCLimits
    MaxDepth = 2
    MaxTiles = 7
    MaxWord = 5
    LongTokens <- MCLongTokens
    MaxLongWord = 8
    Refused = Refused
    ExchangeMinReserve = 2
    StaticValue <- MCStaticValue
    Hidden <- MCHidden
    Caps <- MCCaps
    Envelopes <- MCEnvelopes
INVARIANT IncConsistent
INVARIANT GeneratesAllButLoneOperators
INVARIANT BoundsAreHonest
INVARIANT LineAgreement
INVARIANT RecoveredIsFull
CHECK_DEADLOCK FALSE
