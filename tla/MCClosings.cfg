CONSTANTS
    None = None
    Printers = {p1}
    Generators = {g1, g2}
    Appliers = {a1, a2}
    Readjustments = {r1, r2}
    Tiers <- MCTiers
    Franchises = {0, 1}
    Price = 125
    OveragePrice = 175
    Months = 2
    MonthStart <- MCMonthStart
    Quotas <- MCQuotas
SPECIFICATION Spec
SYMMETRY Symmetry
CHECK_DEADLOCK FALSE
INVARIANTS Consistent NeverOvercharged RaisedOnce
PROPERTY FrozenIsKept
