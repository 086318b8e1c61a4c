SPECIFICATION Spec
CONSTANTS
    s1 = s1  s2 = s2  r1 = r1  r2 = r2
    NoRoute = NoRoute  NoMember = NoMember  NoWriter = NoWriter
    Member = {m1, m2}
    Replica = {g1}
    Launch = {l1}
    Route = {r1, r2}
    Sandbox = {s1, s2}
    SandboxOf <- TwoSandboxes
    MaxAssigned = 1
    MaxProcess = 1
    MayLeave = {}
    MayQuiesce = {}
    MayWithdraw = {}
    MaxEpoch = 2
    MaxIntent = 2
    MayFail = {}
SYMMETRY Symmetry
INVARIANTS TypeOK CapacityBounded ChargedExactly OwnersPublished
