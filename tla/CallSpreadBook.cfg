SPECIFICATION BookSpec
CONSTANTS
    None = None
    Strike <- MCStrike
    Markets <- MCMarkets
    Policy <- MCPolicy
    TradeLimit = 2
    MaxFills = 3
    MaxMoves = 1
    MaxPolls = 2
    MaxFaults = 1
    MaxRevokes = 2
INVARIANTS
    PnlIsTheBooks
    RulesAgreeWithScreen
