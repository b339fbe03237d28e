SPECIFICATION FairSpec
CONSTANTS
    None = None
    hello = hello
    r1 = r1
    r2 = r2
    Releases <- AllReleases
    Contracts <- ContractsOf
    Manifests <- Update
    ExtContract = 1
    Requests = {hello, r1}
    Hello = hello
    MaxWorkers = 4
    MaxAsks = 1
    MaxCrashes = 1
    MaxClients = 1
INVARIANTS
    NoOrphanRequest
    OneWorker
PROPERTIES
    IdleBrokerAdopts
CHECK_DEADLOCK FALSE
