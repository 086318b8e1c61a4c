SPECIFICATION FairSpec
CONSTANTS
    NoTask = NoTask
    Launch = {l1}
    Recovery = {v1}
    Replica = {g1}
    MayFail = {l1, v1}
    MayLoseReply = {l1, v1}
    MayWithdraw = {g1}
    MayEnd = TRUE
PROPERTIES EndedInstancesRemoved CandidatesSettled
CHECK_DEADLOCK FALSE
