SPECIFICATION ControllerSpec
CONSTANTS
    NoMember = NoMember
    Route = {r1}
    Member = {m1, m2}
    MaxEpoch = 2
    FirstMayMiss = FALSE
    MaxFault = 2
SYMMETRY Symmetry
INVARIANTS ControllerTypeOK WithdrawnStays LaunchesKept OnlyEndedStopped
PROPERTIES ImplementsServedView
