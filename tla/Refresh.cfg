SPECIFICATION FairSpec
CONSTANTS
    Worker = {w1, w2}
    Operator = {o1, sweep}
    Sweeper = sweep
    NoRow = NoRow  NoWorker = NoWorker
    Automatic = {w1}  Explicit = {w2}  Cleaning = {w2}
    MayLoseLock = {w1}
    MaxAttempt = 2
    MaxChange = 2
    MaxFault = 1
INVARIANTS GrantStored
PROPERTIES GrantNotReused TombstoneFinal RefreshesDecided TombstonesRemoved
CHECK_DEADLOCK FALSE
