CONSTANTS
    q1 = q1
    q2 = q2
    Queues = {q1}
    Listed <- NotListed
    RuleIds = {1, 2}
    OfferedRules <- ThreeForms
    OfferedSettings <- TwoSettings
    Jobs = {1, 2}
    QueueOf <- Printers
    Ahead = 1
    MaxTime = 1
    None = None
    Missing = Missing
SPECIFICATION FairTariffsSpec
INVARIANT TariffsTypeOK
PROPERTIES ChargedAsDocumented SettingsKept EveryJobSettles
