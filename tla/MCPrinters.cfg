CONSTANTS
    Width = 4
    Configurations <- MCConfigurations
    LocalNetworks <- MCLocalNetworks
    Inventories <- MCInventories
    MaximumDiscoveryHosts = 4
    DiscoveryConcurrency = 2
    Evidence <- MCEvidence
    None = None
    Requests = {r1, r2}
    Amounts = {1, 2}
    Start = 2
    Kinds <- MCKinds
    Quotas <- MCQuotas
    Levels = {10, 30, 80}
    JumpThreshold = 40
    PrematureLevel = 25
    Forecasters = {f1, f2}
SPECIFICATION PrintersSpec
CHECK_DEADLOCK FALSE
INVARIANTS Consistent FoundIsComplete StockConsistent RowsConsistent DetectionsAreReal
PROPERTY SweepEnds
