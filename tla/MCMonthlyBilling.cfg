CONSTANTS
    Months = 2
    MonthStart <- MCMonthStart
    Ticks = 2
    BillingDay = 1
    StartCounter = 1
    MaxPages = 2
    MaxReadings = 3
    MaxResets = 1
    MaxEntries = 3
    MaxEdits = 1
    MaxFaults = 1
    None = None
SPECIFICATION Spec
CHECK_DEADLOCK FALSE
INVARIANTS Consistent OneChargePerMonth
