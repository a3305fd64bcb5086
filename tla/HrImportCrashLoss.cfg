SPECIFICATION Spec
CONSTANTS
    a = a
    b = b
    c = c
    x = x
    y = y
    NoPackage = NoPackage
    Ids <- MCIds
    Nameless <- MCNameless
    Packages <- MCPackages
    Runners = {scheduler}
    MinRows = 2
    MaxUnits = 2
    MaxFaults = 3
    Overlap = FALSE
    CrashSteps <- MCAllSteps
INVARIANTS
    LiveValidated
