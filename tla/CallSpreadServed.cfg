SPECIFICATION FairSpec
CONSTANTS
    Absent = Absent
    Empty = Empty
    Torn = Torn
    NoSnap = NoSnap
    Unset = Unset
    Nobody = Nobody
    Poller = poller
    Workers = {web1, web2}
    Pools = {{web1, web2}}
    Browsers = {operator}
    Keys = {floor, custody}
    MaxEdits = 2
    MaxRefresh = 1
    MaxCrashes = 0
PROPERTY ServedSettingsAreSaved
