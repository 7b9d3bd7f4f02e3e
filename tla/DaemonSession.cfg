SPECIFICATION FairSpec
CONSTANTS
    Profiles = {p1, p2}
    None = None
    AutoProfile = p1
    ServerRules = {p1}
    AllExcept = {p1}
    Candidates = {p1}
    MaxDepth = 2
INVARIANTS NothingLeaks StatusIsHonest
PROPERTY Progresses
