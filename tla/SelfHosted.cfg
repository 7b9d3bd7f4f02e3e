SPECIFICATION Spec
CONSTANTS
    Publishers = {p1, p2}
    Payloads <- Lists
    HasTunnel = TRUE
    MaxAttempts = 2
    MaxEdits = 3
    MaxMishaps = 1
    MaxReboots = 1
    Contents = {c1}
    MaxJobs = 1
    MaxDrops = 1
    MaxCancels = 1
    Admins = {a1}
    Protocols = {"wireguard", "openvpn", "xray"}
    FirstAddress = 253
    MaxClients = 5
    MaxTasks = 3
    MaxFaults = 1
SYMMETRY Symmetric
CHECK_DEADLOCK FALSE
INVARIANTS PublicationIsTrue AnsweredIsDone AccessIsAsAnswered
PROPERTY RestoredIsBefore
