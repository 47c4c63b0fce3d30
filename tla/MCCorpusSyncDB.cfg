\* One VM with two procs, whose restarts minimize the corpus; progD is a disabled program,
\* progX is one that cannot be parsed.
SPECIFICATION Spec
CONSTANTS
    Fuzzers = {f1}
    f1 = f1
    Procs = {p1, p2}
    progA = progA
    progB = progB
    progD = progD
    progX = progX
    sig1 = sig1
    sig2 = sig2
    Progs = {progA, progB, progD, progX}
    Disabled = {progD}
    Broken = {progX}
    Elems = {sig1, sig2}
    Shows <- MCShows
    BatchSize = 1
    InitialBatch = 2
    SplitSize = 1
    NULL = NULL
SYMMETRY ProcSymmetry
INVARIANTS CorpusSignalBacked CorpusPersisted
PROPERTIES DroppedAfterHandout
CONSTRAINT MinimizationFindsNothing
CHECK_DEADLOCK FALSE
