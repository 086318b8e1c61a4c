SPECIFICATION FairSpec
CONSTANTS
    s1 = s1  s2 = s2  r1 = r1  r2 = r2
    NoRoute = NoRoute  NoMember = NoMember  NoWriter = NoWriter
    Member = {m1}
    Replica = {g1, g2}
    Launch = {}
    Route = {r1}
    Sandbox = {s1}
    SandboxOf <- OneRoute
    MaxAssigned = 1
    MaxProcess = 1
    MayLeave = {}
    MayQuiesce = {s1}
    MayWithdraw = {}
    MaxEpoch = 3
    MaxIntent = 2
    MayFail = {g1}
PROPERTIES PassedTermsReplaced
