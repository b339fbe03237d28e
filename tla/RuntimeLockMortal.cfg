SPECIFICATION FairSpec
CONSTANTS
    p1 = p1
    p2 = p2
    p3 = p3
    Procs = {p1, p2, p3}
    NoFile = NoFile
    Mortal = {p1, p2}
    MaxTries = 1
INVARIANTS
    TypeOK
    ExclusionWhileAllLive
PROPERTIES
    NoLostRelease
    CallsReturn
    StaleLockRecovered
