\* One USB 2 root hub: safety and the termination of dummy_udc_stop().
SPECIFICATION FairSpec
CONSTANTS
    Hcds = {"hs"}
    HubThreads = {hub}
    RhThreads = {}
    TimerThreads = {tm}
    FnThreads = {fn}
    Udc = udc
    NumEps = 1
    MaxReq = 1
INVARIANTS TypeOK CallbackCount CallbackHasDriver ActiveLinkIsUp PortStatusLegal
PROPERTIES ConnectChangeReported UdcStopReturns
