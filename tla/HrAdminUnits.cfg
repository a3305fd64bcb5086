SPECIFICATION FairSpec
CONSTANTS
    Runners = {scheduler, manual}
    county = county
    town = town
    village = village
    port = port
    hamlet = hamlet
    gone = gone
    c1 = c1
    t1 = t1
    v1 = v1
    p1 = p1
    h1 = h1
    NoCode = NoCode
    NoExtract = NoExtract
    UnitIds <- MCUnitIds
    Codes <- MCCodes
    Extracts <- MCExtracts
    MinSettlements = 2
    MaxFaults = 3
    PgMayCrash = TRUE
INVARIANTS
    TypeOK
    NeverHalf
PROPERTIES
    LiveStays
    KeepsPromise
    Recovers
