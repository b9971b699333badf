SPECIFICATION FairSpec
CONSTANTS
    Poller = poller
    Workers = {web1}
    Rules = {strike, floor}
    FirstGrades = {"critical"}
    MaxChanges = 2
    MaxCrashes = 1
    Nothing = Nothing
    FlatBook = FlatBook
INVARIANTS TypeOK EachPagesOnce ChannelAgrees
PROPERTIES ChannelCatchesUp
