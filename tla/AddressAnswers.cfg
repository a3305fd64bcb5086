SPECIFICATION Spec
CONSTANTS
    Null = Null
    CzRows <- MCCzRows
    HrRows <- MCHrRows
    Items <- MCItems
    Lookups <- MCLookups
    MaxItems = 2
INVARIANTS
    TypeOK
    Accounted
    FoundAgain
PROPERTIES
    RoundTrip
