SPECIFICATION Spec
CONSTANTS
    Calls = {c1, c2}
    Agents = {a1, a2}
    Caller <- AnyAgentSecond
    MaxSockets = 2
    MaxWorkers = 2
    Error = Error
INVARIANTS TypeOK ExecutedOnce MixedUpOnlyByRestart
PROPERTIES CallsReturn RelayDrains KeepsPromise
CHECK_DEADLOCK FALSE
