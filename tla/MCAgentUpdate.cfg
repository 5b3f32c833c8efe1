CONSTANTS
    None = None
    Files = {f1, f2}
    Versions = {1, 2, 3}
    Broken = {3}
    Quotas <- MCQuotas
SPECIFICATION Spec
CHECK_DEADLOCK FALSE
INVARIANT UpdateTakesEffect
