SPECIFICATION Spec
CONSTANTS
    RelayCalls = {"c", "d"}
    Workers = {"w1", "w2", "w3"}
    NoWorker = "none"
    MemoryRows = {"k", "l"}
    Models = {"m", "n"}
    NoModel = "none"
    Capacity = 2
    BatchSize = 2
    MaxAttempts = 2
    MaxChanges = 2
INVARIANTS LeaseCountsWork NothingForgotten SessionsSound StoreSound
PROPERTIES CallsAnswered EmbeddedOrLost
CHECK_DEADLOCK FALSE
