\* All lengths, limits and flags up to the bounds.
SPECIFICATION FairSpec
CONSTANTS
    NumReq = 2
    MaxLen = 3
    MaxPkt = 2
    MaxRequeue = 1
INVARIANTS TypeOK InBounds UrbEnd ReqEnd
PROPERTIES Returns InOrder
CHECK_DEADLOCK FALSE
