SPECIFICATION Spec
CONSTANTS
    Plans <- SmallPlans
    MaxRuns = 2
    Commands = {"a", "b"}
    Detachers = {"x"}
    NoCommand = "none"
    Sessions = {"s"}
    NoSession = "none"
    MaxEvents = 1
    Searches = {"a", "b"}
    Hosts = {"h"}
    HostOf <- OneHost
    Tokens = 2
    ImageLimit = 1
    MinutesADay = 2
    MaxMinute = 1
    MaxSettings = 1
    UploadCalls = {"u", "v"}
    DragCalls = {"v"}
    UploadTabs = {1, 2}
    TabOf <- TwoTabs
    QuestionLimit = 1
    MaxChanges = 2
    DomainCalls = {"c", "d"}
    Domains = {"P", "N"}
    WantedBy <- OneOrBoth
    MaxDetaches = 2
    EnvCalls = {"c", "d", "r"}
    Fields = {"network", "script"}
    Preloads = {"script"}
    FieldsOf <- TwoAndReset
    MaxFailures = 1
    Profiles = {"A", "B"}
    CreateCalls = {"c", "d"}
    TabIds = {"t", "u"}
    NoTab = "none"
    NoBrowser = "noBrowser"
    Expired = {"expired"}
    MaxTurns = 2
    FoxTabs = {"t", "u"}
    MaxSessions = 3
    MaxFaults = 3
    MouseMoves = {"m", "n"}
    Gestures = {"g"}
    NoMove = "noMove"
    MaxHappenings = 1
    InputCalls = {"fill", "clear", "append", "type", "chord", "drag"}
    KindOf <- KindOfInput
    TargetOf <- FieldOfInput
    Editables = {"f", "g"}
    NoEditable = "none"
    NoInput = "noInput"
    MaxCalls = 2
    MaxInputTurns = 1
    Elements = {1, 2}
    Dialogs = {2}
    InSelector = {1, 2}
    PageCalls = {"se", "sh", "ma", "in", "cl", "fr", "pr", "po", "sl"}
    CallKind <- KindOfPageCall
    PagePlans <- FewPageCalls
    MaxPageTurns = 2
    SearchModels = {"p", "q"}
    DeepModels = {"q"}
    ModelCalls = {"a", "b", "c"}
    ModelOf <- TwoModels
    RequestKind <- UseOrDelete
    MaxLoads = 3
    ProfileLabels = {"work"}
    NoLabel = "none"
    MaxConnections = 2
    MaxVersions = 2
    MaxStatusSteps = 2
    Refreshers = {"p", "q"}
    MaxCodexFaults = 1
INVARIANTS RunIsHonest TabCommandsSound CommandsSound RecordsAreSo
INVARIANTS UploadsSound AnswersSound TabStateTracked
PROPERTIES SentUnderConsent
CHECK_DEADLOCK FALSE
