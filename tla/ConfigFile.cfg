SPECIFICATION FairSpec
CONSTANTS
    Absent = Absent
    Empty = Empty
    Torn = Torn
    NoRequest = NoRequest
    Procs = {poller, web1, web2}
    Values = {v1, v2}
    Default = v1
INVARIANTS TypeOK LiveBoots FailsOnlyIfOvertaken
PROPERTIES BootSettles SavesAreAtomic
