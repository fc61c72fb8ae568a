CONSTANTS
    LastEvent = 4
    Skipped = {2}
    Poison = {4}
    Malformed = {1}
    Queue <- OneQueue
    Known = {"q1"}
    Agents = {service}
    Service = service
    Handlers = {h1, h2}
    NoHandler = NoHandler
    MaxEvents = 1
    BatchSize = 2
    MaxFaults = 2
    DbErrors = FALSE
SPECIFICATION FairSpec
PROPERTIES FailedWasJudged EveryEventStored
