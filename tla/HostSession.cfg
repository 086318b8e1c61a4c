SPECIFICATION FairSpec
CONSTANTS
    NoMember = NoMember  NoJob = NoJob
    r1 = r1  r2 = r2
    Host = h
    Member = {h}
    Route = {r1, r2}
    MaxEpoch = 2
    Bounds <- AllBounds
    MaxRevision = 2
    MaxAssigned = 1
    MaxQueue = 2
    MayUnload = FALSE
INVARIANTS NoFalseAbsence ReportsOfTheirTerm
PROPERTIES HostConverges
