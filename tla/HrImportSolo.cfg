SPECIFICATION FairSpec
CONSTANTS
    a = a
    b = b
    c = c
    x = x
    y = y
    NoPackage = NoPackage
    Ids <- MCIds
    Nameless <- MCNameless
    Packages <- MCPackages
    Runners = {scheduler}
    MinRows = 2
    MaxUnits = 3
    MaxFaults = 3
    Overlap = FALSE
    CrashSteps <- MCSafeSteps
INVARIANTS
    TypeOK
    LiveReady
    LiveValidated
PROPERTIES
    KeepsPromise
    Recovers
