CONSTANTS
    r1 = r1
    r2 = r2
    Requests <- MCRequests
    NoRequest = NoRequest
    MaxBatches = 3
    MaxEntries = 2
    Devices = 2
    Refused <- First
    Unguarded <- Second
    MaxLosses = 4
    MaxFaults = 1
SPECIFICATION FairSpec
INVARIANTS RecordedOnce NothingLost QueueInOrder
PROPERTIES UsesDurableQueue ImplementsDelivery EventuallyRecorded
