CONSTANTS
    Jobs = {1, 2, 3}
    Key <- OwnKey
    Invalid = {3}
    Malformed = {1}
    Queue <- OneQueue
    Known = {"q1"}
    Runs = {scheduled}
    Manual = {}
    Handlers = {h1, h2}
    NoHandler = NoHandler
    MaxBatch = 2
    MaxFaults = 2
    DbErrors = FALSE
SPECIFICATION FairSpec
PROPERTIES FailedWasJudged EveryJobStored EveryRowSettles
