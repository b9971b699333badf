SPECIFICATION Spec
CONSTANTS
    Torn = Torn
    MaxDays = 2
    MaxRuns = 2
    MaxFaults = 1
INVARIANTS
    TypeOK
    OneSheetADay
    TellsTheTruth
    RulesNeverStack
PROPERTY EveryRunIsTold
