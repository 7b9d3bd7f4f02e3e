SPECIFICATION Spec
CONSTANTS
    Files = {1, 2}
    DaemonFile = 1
    Versions = {1, 2}
    InitialVersion = 1
    DirIds = {d1, d2, d3, d4, d5}
    NoDir = NoDir
    MaxFaults = 2
    MaxCrashes = 1
SYMMETRY Symmetry
INVARIANTS StepsPrepared EvidenceIntact AcknowledgedMeansInstalled MixedPairRepairable EvidenceWithoutFaults
PROPERTY DurableAuthority
