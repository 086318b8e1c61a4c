SPECIFICATION Spec
CONSTANTS
    s1 = s1  s2 = s2  r1 = r1  r2 = r2
    NoRoute = NoRoute  NoMember = NoMember  NoWriter = NoWriter
    Member = {m1}
    Replica = {g1}
    Launch = {}
    Route = {r1, r2}
    Sandbox = {s1}
    SandboxOf <- TwoGenerations
    MaxAssigned = 1
    MaxProcess = 2
    MayLeave = {m1}
    MayQuiesce = {s1}
    MayWithdraw = {g1}
    MaxEpoch = 3
    MaxIntent = 2
    MayFail = {}
SYMMETRY Symmetry
PROPERTIES ImplementsFencedTerms
