CONSTANTS
    None = None
    Creators = {c1, c2}
    Updaters = {u1, u2}
    Technicians = {t1}
    Alerts = {a1}
    Hours = {0, 1}
    Contracts <- TwoContracts
    Warning = 1
    Quotas <- MCQuotas
SPECIFICATION Spec
CHECK_DEADLOCK FALSE
INVARIANT DueAsPromised
