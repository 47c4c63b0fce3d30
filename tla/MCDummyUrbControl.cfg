\* Two control URBs on endpoint 0, every interleaving, fair timer.
SPECIFICATION FairSpec
CONSTANTS
    CtlUrbs = {c1, c2}
    DataUrbs = {}
    MaxFaults = 9
    Urbs <- MCUrbs
    EpOf <- MCEpOf
    Reqs = {r1}
    Fifo = fifo
    DataEps = {}
    InEps = {}
    FrameUnits = 2
    NULL = null
PROPERTIES SetupOnce UnlinkedReturned
