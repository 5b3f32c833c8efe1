CONSTANTS
    m1 = m1
    m2 = m2
    r1 = r1
    r2 = r2
    Machines <- TwoMachines
    Requests <- MCRequests
    NoRequest = NoRequest
    MaxTokens = 3
    MaxFaults = 1
SPECIFICATION EnrollFairSpec
INVARIANTS Consistent OneMachineWorks RevokedStaysRevoked
PROPERTY EnrollsUnlessDisturbed
