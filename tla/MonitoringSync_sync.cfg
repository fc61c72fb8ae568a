CONSTANTS
    d1 = d1
    s1 = s1
    Devices = {d1}
    Samples = {s1}
    Alerts = {1, 2}
    DeviceOf <- TwoAlerts
    Pollers = {p1}
    Runs = {r1}
    NoDevice = NoDevice
    NoSample = NoSample
    MaxBatch = 1
    ReuseIds = FALSE
    MaxPolls = 2
    MaxFaults = 1
SPECIFICATION FairSpec
INVARIANTS TypeOK CursorCovers AlertsCovered
PROPERTIES EverySampleStored EveryResolutionShown
CHECK_DEADLOCK FALSE
