SPECIFICATION Spec
CONSTANTS
    Requests = {r1, r2, r3}
    PoolMax = 2
    Rungs = 2
    Plans <- MCPlans
    MaxGen = 2
    MaxCrashes = 1
SYMMETRY RequestSymmetry
INVARIANTS
    TypeOK
    Snapshot
    FirstSatisfied
    NeverStuck
