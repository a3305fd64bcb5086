SPECIFICATION Spec
CONSTANTS
    f1 = f1
    f2 = f2
    f3 = f3
    k1 = k1
    k2 = k2
    NoDump = NoDump
    Files <- MCFiles
    Kod <- MCKod
    MaxWorkers = 2
    Dump <- MCSoundDump
    Runners = {scheduler, manual}
    MaxMonth = 3
    MaxFallback = 2
    MaxFaults = 2
    NetMayFail = TRUE
    Overlap = TRUE
    CrashSteps <- MCAllSteps
SYMMETRY RunnerSymmetry
INVARIANTS
    LiveUnique
PROPERTIES
    LiveStays
