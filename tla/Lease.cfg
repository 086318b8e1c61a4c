SPECIFICATION FairSpec
CONSTANTS
    NoReplica = NoReplica
    Replica = {g1, g2, g3}
    MayShutdown = {g1}
    MayFail = {g1}
    MaxCrash = 2
    MaxVersion = 4
INVARIANTS TypeOK GuardsOwnLease
PROPERTIES LostLeaseNoticed ExpiredLeaseTaken
