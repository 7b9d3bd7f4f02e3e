\* A coordinator with one profile that updates itself, another to be imported
\* and two power failures; or one client and the control service, with two
\* generations; or the backend's five profiles with three failures.
SPECIFICATION Spec
CONSTANTS
    Profiles = {a, b}
    AutoAtStart = {a}
    MaxPids = 7
    MaxCrashes = 2
    MaxGenerations = 2
    MaxGrants = 3
    LiveGrants = 2
    MaxEdits = 1
    MaxRestarts = 1
    MaxActivations = 3
    MaxFailures = 1
    Tunnels = {"w", "a", "b", "o", "x"}
    NoTunnel = "none"
    ProtocolOf <- BackendProtocols
    Managed = {"a", "w"}
    FullTunnel = {"b", "x"}
    MaxTroubles = 3
    MaxCalls = 4
CHECK_DEADLOCK FALSE
INVARIANTS RollbackIsHeld MigrationIsProved TunnelsAreOwned
