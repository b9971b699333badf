SPECIFICATION Spec
CONSTANTS
    None = None
    BaseAsset = "ETH"
    Stables = {"USDC"}
    ATokens = {"AETHWETH"}
    DefaultCrossMtm <- ConfiguredCrossMtm
    Actors = {huey, operator}
    Books <- SomeBooks
    Outages <- SomeOutages
    huey = huey
    operator = operator
    MaxCycles = 3
    MaxOutages = 1
    MaxMoves = 1
SYMMETRY Interchangeable
INVARIANTS
    TypeOK
    ShownIsLastAnswer
    StaleIsMarked
    SnapshotIsWorth
    CrossMtmIsLegsProfit
    ReadsNeverInvent
    ScreenAddsUp
