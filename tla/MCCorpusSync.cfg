\* Two VMs with one proc each, and batches of one: two inputs, of the two elements of signal
\* that a program shows by turns, wait for the other VM.
SPECIFICATION FairSpec
CONSTANTS
    Fuzzers = {f1, f2}
    f1 = f1
    Procs = {p1}
    progA = progA
    progB = progB
    progD = progD
    progX = progX
    sig1 = sig1
    sig2 = sig2
    Progs = {progA}
    Disabled = {}
    Broken = {}
    Elems = {sig1, sig2}
    Shows <- MCShowsOne
    BatchSize = 1
    InitialBatch = 1
    SplitSize = 1
    NULL = NULL
INVARIANTS TypeOK MaxSignalShared
PROPERTIES LoadedOnce InputsDelivered
CONSTRAINT OneFinder
CHECK_DEADLOCK FALSE
