SPECIFICATION FairSpec
CONSTANTS
    Requests = {r1, r2, r3}
    PoolMax = 2
    Rungs = 2
    Plans <- MCFewPlans
    MaxGen = 2
    MaxCrashes = 0
PROPERTIES
    Answered
    SwapsHappen
