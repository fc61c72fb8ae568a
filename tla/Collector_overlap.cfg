CONSTANTS
    LastEvent = 4
    LogSize = 3
    Unreadable = {2}
    Runs = {scheduled, manual}
    Scheduled = {scheduled}
    MaxEvents = 2
    MaxFaults = 1
SPECIFICATION FairSpec
PROPERTY EveryEventHandled
INVARIANTS TypeOK JobsOnce CursorCovers
