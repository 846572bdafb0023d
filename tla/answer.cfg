SPECIFICATION Spec
CONSTANTS
    Kinds <- MCKinds
    PointsOf <- MCPoints
    Plays <- MCPlays
    Uses <- MCUses
    Covers <- MCCovers
    Needs <- MCNeeds
    Distribution <- MCDistribution
    RackSize = 2
    NoScoreStreakLength = 2
    Infinity = 1000
    TableSize = 4
    ExactBagMax = 1
    StaticTilesMax = 3
    SimTopK = 2
    SimSamples = 4
    ExchangeMost = 7
    None = None
    MostScore = 9
    Requests <- MCRequests
INVARIANT ProofSound
INVARIANT CommonSamples
INVARIANT TerminalMovesSettled
INVARIANT NothingBetterLeftOut
INVARIANT ReportLeadsWithPlayed
INVARIANT AnswersAreLegal
