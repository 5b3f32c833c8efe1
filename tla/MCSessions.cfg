CONSTANTS
    Calls = {c1, c2}
    None = None
    Kinds <- MCKinds
    Quotas <- MCQuotas
SPECIFICATION Spec
CHECK_DEADLOCK FALSE
INVARIANT SignedInWhileItLasts
