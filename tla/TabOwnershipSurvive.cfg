SPECIFICATION Spec
CONSTANTS
    Sessions = {s1, s2}
    Tabs = {t1, t2}
    UserTabs = {t1}
    Calls = {c1}
    Mortal = {}
    None = None
    MaxCalls = 3
    MaxRestarts = 1
INVARIANTS
    SurvivesUnlessEarly
CHECK_DEADLOCK FALSE
