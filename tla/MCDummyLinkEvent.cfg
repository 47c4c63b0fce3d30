\* A disconnect or reset callback racing dummy_udc_stop().
SPECIFICATION Spec
CONSTANTS
    Hcds = {"hs"}
    HubThreads = {hub}
    RhThreads = {}
    TimerThreads = {tm}
    FnThreads = {fn}
    Udc = udc
    NumEps = 1
    MaxReq = 1
INVARIANT EventHasDriver
