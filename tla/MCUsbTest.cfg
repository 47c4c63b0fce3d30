\* All kinds of tests, from both kinds of calls.
SPECIFICATION FairSpec
CONSTANTS
    Devices <- MCDevices
    Seen <- MCSeen
    Cases <- MCCases
    FzKinds <- MCFzKinds
    MaxQueue = 4
    MaxIter = 2
    UMax = 16
    NumSubcases = 3
INVARIANTS TypeOK AllIterationsRun OrderErrorIsReal
PROPERTIES OwnsItsUrbs NothingAfterError TimedTestReturns
