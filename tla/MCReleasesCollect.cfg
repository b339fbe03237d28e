SPECIFICATION Spec
CONSTANTS
    None = None
    u1 = u1
    u2 = u2
    s1 = s1
    s2 = s2
    c1 = c1
    Versions = {1, 2, 3}
    MajorOf <- OneMajor
    Updaters = {u1}
    SetupVersions = {}
    Supervisors = {s1}
    Collectors = {c1}
    MaxGeneration = 2
INVARIANTS
    RetainedUnlessRaced
    LeasesUnlessRaced
