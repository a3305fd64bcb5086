SPECIFICATION FairSpec
CONSTANTS
    Month = 8
    Slot = 3
    RunOnStart = {TRUE, FALSE}
    MaxJump = 1
    MaxSets = 2
    MaxKills = 2
INVARIANTS
    TypeOK
    NeverTwice
    Joined
PROPERTIES
    MonthServed
    JobsGoOn
