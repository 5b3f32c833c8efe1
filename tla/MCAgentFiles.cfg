CONSTANTS
    c1 = c1
    c2 = c2
    Callers <- MCCallers
    NoCaller = NoCaller
    MaxEntries = 2
    MaxBatches = 3
    MaxFaults = 2
    None = None
    Files = {f1, f2}
    Versions = {1, 2, 3}
    Broken = {3}
    Quotas <- MCQuotas
SPECIFICATION FilesSpec
CHECK_DEADLOCK FALSE
INVARIANTS QueueConsistent Consistent RestoresPrevious
PROPERTIES TornOnlyByPowerLoss ImplementsDurableQueue EveryCallReturns ComesBack
