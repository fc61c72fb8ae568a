CONSTANTS
    LastEvent = 3
    Skipped = {}
    Poison = {}
    Malformed = {}
    Queue <- TwoQueues
    Known = {"q1"}
    Agents = {service, once}
    Service = service
    Handlers = {h1, h2}
    NoHandler = NoHandler
    MaxEvents = 2
    BatchSize = 2
    MaxFaults = 1
    DbErrors = TRUE
SPECIFICATION Spec
SYMMETRY Symmetry
INVARIANTS TypeOK CursorCovers StoredOnce
PROPERTIES DeliverySpec
