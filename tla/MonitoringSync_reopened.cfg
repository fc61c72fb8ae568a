CONSTANTS
    d1 = d1
    s1 = s1
    Devices = {d1}
    Samples = {}
    Alerts = {1}
    DeviceOf <- Problem
    Pollers = {p1}
    Runs = {r1}
    NoDevice = NoDevice
    NoSample = NoSample
    MaxBatch = 1
    ReuseIds = FALSE
    MaxPolls = 3
    MaxFaults = 0
SPECIFICATION Spec
INVARIANTS OpenIsShown
CHECK_DEADLOCK FALSE
