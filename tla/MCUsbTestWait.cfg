\* Queued control requests.
SPECIFICATION Spec
CONSTANTS
    Devices <- MCDevices
    Seen <- MCSeen
    Cases <- MCControl
    FzKinds = {}
    MaxQueue = 3
    MaxIter = 2
    UMax = 16
    NumSubcases = 16
INVARIANT WaitsForLast
