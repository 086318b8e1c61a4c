SPECIFICATION Spec
CONSTANTS
    NoTask = NoTask
    Launch = {l1, l2}
    Recovery = {}
    Replica = {g1, g2}
    MayFail = {l1, l2, g1, g2}
    MayLoseReply = {}
    MayWithdraw = {g1, g2}
    MayEnd = TRUE
SYMMETRY Symmetry
INVARIANTS TypeOK MaterialOwned
PROPERTIES KeptMaterial PublishedStays
CHECK_DEADLOCK FALSE
