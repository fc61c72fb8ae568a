CONSTANTS
    MaxTime = 6
    DayLength = 2
    Unit = 2
    Keep = 1
    Lookback = 3
    Levels = {0, 10, 30}
    Jump = 5
    MinPoints = 2
    MinSpan = 1
    NotTaken = NotTaken
SPECIFICATION Spec
INVARIANTS TypeOK TrendKept
PROPERTY DateMeansFalling
