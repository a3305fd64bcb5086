SPECIFICATION Spec
CONSTANTS
    a = a
    b = b
    c = c
    x = x
    y = y
    NoPackage = NoPackage
    Ids <- MCIds
    Nameless <- MCNameless
    Packages <- MCFewPackages
    Runners = {scheduler, manual}
    MinRows = 2
    MaxUnits = 1
    MaxFaults = 2
    Overlap = TRUE
    CrashSteps <- MCAllSteps
SYMMETRY RunnerSymmetry
INVARIANTS
    LiveSearchable
    LiveUnique
PROPERTIES
    LiveStays
