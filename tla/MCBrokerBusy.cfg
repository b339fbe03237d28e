SPECIFICATION Spec
CONSTANTS
    None = None
    hello = hello
    r1 = r1
    Releases <- AllReleases
    Contracts <- ContractsOf
    Manifests <- Update
    ExtContract = 1
    Requests = {hello, r1}
    Hello = hello
    MaxWorkers = 4
    MaxAsks = 1
    MaxCrashes = 0
    MaxClients = 1
PROPERTIES
    BusyWorkerDrains
CHECK_DEADLOCK FALSE
