CONSTANTS
    a1 = a1
    p1 = p1
    p2 = p2
    Agents <- MCAgents
    Printers <- MCPrinters
    Default <- DefaultOf
    Custom <- CustomOf
    SweepThreshold = 1
    SweepSettings <- Either
    Nobody = Nobody
    MaxSilence = 3
    Quotas <- MCQuotas
SPECIFICATION FairSpec
INVARIANT OneAlertPerSilence

PROPERTIES SilentGoesOffline JobAlertsSilent
