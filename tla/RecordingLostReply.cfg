SPECIFICATION Spec
CONSTANTS
    NoTask = NoTask
    Launch = {l1}
    Recovery = {}
    Replica = {g1}
    MayFail = {}
    MayLoseReply = {l1}
    MayWithdraw = {}
    MayEnd = TRUE
SYMMETRY Symmetry
PROPERTIES KeptMaterial
CHECK_DEADLOCK FALSE
