\* Both root hubs of a SuperSpeed-capable controller, sharing one gadget.
SPECIFICATION Spec
CONSTANTS
    Hcds = {"hs","ss"}
    HubThreads = {hub}
    RhThreads = {rh}
    TimerThreads = {}
    FnThreads = {}
    Udc = udc
    NumEps = 1
    MaxReq = 1
INVARIANTS ActiveLinkIsUp
CONSTRAINT FewChanges
