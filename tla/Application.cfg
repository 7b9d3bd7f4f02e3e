SPECIFICATION Spec
CONSTANTS
    Servers = {s1, s2}
    Payloads = {pa, pb}
    MaxGeneration = 2
    MaxMaterial = 3
    MaxStarts = 2
    MaxEdits = 2
    MaxFaults = 2
    Launchers = {l1, l2}
    Paths = {p1, p2}
    Hosts = {h1, h2}
    MaxPids = 3
    MaxSessions = 2
    MaxChanges = 2
    Sites = {a}
    MaxEpochs = 2
    MaxPolicies = 1
    MaxTries = 1
    MaxProbes = 4
    MaxQuestions = 1
    Purchases = {t1, t2}
    NoPurchase = NoPurchase
    VpnKeyOf <- RenewedKey
    NoKey = NoKey
    MaxProxies = 1
    MaxEntries = 2
    MaxNested = 3
    MaxFlows = 3
    MaxLaunches = 2
    MaxSetbacks = 2
CHECK_DEADLOCK FALSE
INVARIANTS ServersSurvive ReleasesMoveForward OneAuthority AnswersAreTrue VerdictsAreTrue PurchasesAreKept
