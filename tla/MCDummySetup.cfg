\* Module load, failures and unload with gadget drivers and streams.
SPECIFICATION Spec
CONSTANTS
    Nums <- MCNums
    Eps <- MCEps
    MaxStreams <- MCMaxStreams
    Requests <- MCRequests
INVARIANTS TypeOK AllOrNothing GadgetHasController LatestGrantValid
