SPECIFICATION Spec
CONSTANTS
    NoTask = NoTask
    Launch = {l1, l2}
    Recovery = {}
    Replica = {g1}
    MayFail = {}
    MayLoseReply = {}
    MayWithdraw = {}
    MayEnd = TRUE
SYMMETRY Symmetry
INVARIANTS MaterialCollected
CHECK_DEADLOCK FALSE
