SPECIFICATION Spec
CONSTANTS
    Poller = poller
    Web = web
    Threads = {t1, t2}
    Retention = 1
    MaxTime = 2
    MaxPoints = 3
    MaxKills = 1
    Torn = Torn
    Junk = Junk
INVARIANTS TypeOK AppendsSurvive
PROPERTIES ChartIsWhole
