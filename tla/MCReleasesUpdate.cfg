SPECIFICATION Spec
CONSTANTS
    None = None
    u1 = u1
    u2 = u2
    s1 = s1
    s2 = s2
    c1 = c1
    Versions = {1, 2, 3}
    MajorOf <- TwoMajors
    Updaters = {u1}
    SetupVersions = {3}
    Supervisors = {}
    Collectors = {}
    MaxGeneration = 3
INVARIANTS
    TypeOK
    FallbackDiffers
    FallbackWasDesired
PROPERTIES
    MajorNeedsApproval
