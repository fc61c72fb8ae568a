CONSTANTS
    Devices = {d1}
    Profiles = {p1}
    ZabbixProblems = {z1, z2}
    SnmpProblems = {hardware_error}
    OfferedSettings <- FourForms
    HasAddress <- Everywhere
    MaxFaults = 1
    None = None
    Missing = Missing
SPECIFICATION FairSpec
INVARIANT TypeOK
PROPERTIES IngestedIsShown AlertsFollow
