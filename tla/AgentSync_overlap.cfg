CONSTANTS
    Jobs = {1, 2, 3}
    Key <- OwnKey
    Invalid = {}
    Malformed = {}
    Queue <- TwoQueues
    Known = {"q1"}
    Runs = {scheduled, manual}
    Manual = {manual}
    Handlers = {h1, h2}
    NoHandler = NoHandler
    MaxBatch = 2
    MaxFaults = 1
    DbErrors = TRUE
SYMMETRY Symmetry
SPECIFICATION Spec
INVARIANTS TypeOK StoredOnce
PROPERTY DeliverySpec
