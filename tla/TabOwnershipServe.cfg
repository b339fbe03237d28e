SPECIFICATION Spec
CONSTANTS
    Sessions = {s1, s2}
    Tabs = {t1, t2}
    UserTabs = {t1}
    Calls = {c1, c2}
    Mortal = {s1}
    None = None
    MaxCalls = 2
    MaxRestarts = 1
INVARIANTS
    OneOwnerUnlessEarly
    GrantedUnlessEarly
    StorageCatchesUp
    SettledUnlessEarly
CHECK_DEADLOCK FALSE
