SPECIFICATION FairSpec
CONSTANTS
    Absent = Absent
    Empty = Empty
    Torn = Torn
    NoSnap = NoSnap
    Unset = Unset
    Nobody = Nobody
    Poller = poller
    Workers = {web1}
    Pools = {{}, {web1}}
    Browsers = {operator}
    Keys = {floor, custody}
    MaxEdits = 2
    MaxRefresh = 1
    MaxCrashes = 1
INVARIANTS TypeOK SaveSurvivesOneWorker NeverRaisesAlone
PROPERTIES ScreenIsKept ScreenSettles
