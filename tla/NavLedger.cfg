SPECIFICATION Spec
CONSTANTS
    Consumer = consumer
    Operator = operator
    TicksPerDay = 2
    FinalTick = 0
    Levels = {0, 1}
    InitialValue = 5
    MaxTime = 5
    MaxCommands = 2
    MaxKills = 1
    NoRow = NoRow
INVARIANTS TypeOK Telescopes RowIsLastSnapshot RollingMaxInOrder EveryDayIsFinalized NeverWedged
