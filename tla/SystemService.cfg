\* The privileged service: split tunnel, Windows kill switch and exclusions,
\* Linux tunnel, privileged processes.
CONSTANTS
    Apps = {a, b, c}
    Convertible = {a, b}
    MaxHelpers = 2
    MaxLives = 2
    Peers = {p, q}
    Bypass = {r}
    MaxFaults = 2
    MaxRefs = 2
    MaxRestarts = 1
    Callers = {x, y}
    Servers = {s, t}
    Excludable = {d}
    MaxDepth = 2
    MaxUses = 2
    MaxErrors = 1
    Capabilities = {c1, c2}
    Users = {u, v}
    Programs = {g, h}
    MaxGlobal = 2
    MaxUnclaimed = 1
    MaxPerUser = 1
    MaxRejected = 2
SPECIFICATION Spec
SYMMETRY CallerSymmetry
CHECK_DEADLOCK FALSE
INVARIANTS AcceptedRulesOnly WindowsPolicyHolds ConfirmedCleanup ProcessesAttended
