SPECIFICATION FairSpec
CONSTANTS
    g1 = g1  g2 = g2  a = a  b = b
    Replica = {g1, g2}
    Instance = {a, b}
    NoReplica = NoReplica
    PublishAttempts = 2
    MaxSession = 2
    MaxTerm = 2
    MaxVersion = 2
    MaxFault = 1
    MayConnect <- Connections
    MayFail = {1}
    MayShutdown = {g1}
INVARIANTS OwnedIsReady
PROPERTIES OnlyOwnRecord LaterTermKept ReadinessSettles
