SPECIFICATION Spec
CONSTANTS
    f1 = f1
    f2 = f2
    f3 = f3
    k1 = k1
    k2 = k2
    NoDump = NoDump
    Files <- MCFiles
    Kod <- MCKod
    MaxWorkers = 2
    Dump <- MCDump
    Runners = {scheduler}
    MaxMonth = 5
    MaxFallback = 2
    MaxFaults = 3
    NetMayFail = TRUE
    Overlap = FALSE
    CrashSteps = {}
PROPERTIES
    NeverOlder
