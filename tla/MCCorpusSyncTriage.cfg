\* A VM that connects while another one triages the last candidates.
SPECIFICATION Spec
CONSTANTS
    Fuzzers = {f1, f2}
    f1 = f1
    Procs = {p1}
    progA = progA
    progB = progB
    progD = progD
    progX = progX
    sig1 = sig1
    sig2 = sig2
    Progs = {progA, progB}
    Disabled = {}
    Broken = {}
    Elems = {sig1, sig2}
    Shows <- MCShows
    BatchSize = 4
    InitialBatch = 2
    SplitSize = 1
    NULL = NULL
PROPERTY DroppedAfterTriage
CHECK_DEADLOCK FALSE
