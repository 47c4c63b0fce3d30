\* A control and a bulk URB, endpoint 0 and a bulk IN endpoint.
SPECIFICATION Spec
CONSTANTS
    CtlUrbs = {c1}
    DataUrbs = {d1}
    MaxFaults = 2
    Urbs <- MCUrbs
    EpOf <- MCEpOf
    Reqs = {r1}
    Fifo = fifo
    DataEps = {1}
    InEps = {1}
    FrameUnits = 1
    NULL = null
INVARIANTS TypeOK CursorListed NextFrameAhead UdevHeld TimerArmed DataAfterSetup OneQueue
CONSTRAINT FewFaults
