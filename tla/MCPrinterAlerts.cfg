CONSTANTS
    x1 = x1
    x2 = x2
    x3 = x3
    code1 = code1
    code2 = code2
    Conditions <- MCConditions
    CodeOf <- MCCodeOf
    AlertIds <- MCAlertIds
    None = None
    MaxChanges = 3
    MaxFaults = 1
SPECIFICATION FairSpec
INVARIANTS NoPilingUp OneTonerAlert
PROPERTIES LastingSurfaces ResolvedWhileOthersLast
