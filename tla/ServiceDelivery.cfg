SPECIFICATION SuiteSpec
CONSTANTS
    Components = {"service", "network", "cookies", "device"}
    None = None
    x1 = x1
    x2 = x2
    x3 = x3
    Op = {x3}
    Actor = {"a"}
    ActorOf <- OneActor
    Bot = {"b"}
    BotOf <- OneBot
    MaxAttempts = 2
    RetryDelay = 0
    MaxPendingGlobal = 1
    MaxPendingActor = 1
    MaxActiveActor = 1
    MaxArtifacts = 3
    MaxUnit = 2
    ExpireLimit = 1
    NoOp = NoOp
    NoBot = NoBot
    Worker = {x1, x2}
    OurBot = "b"
    Plans <- TwoUnits
    MaxFaults = 1
    Jobs = {"j1"}
    ProxyUrls = {"p1"}
    MaxContents = 2
    MaxChanges = 1
    MaxMoments = 1
    Operations = {x1, x2, x3}
    CacheKeyOf <- OneKey
    SourceOf <- TwoSources
    ClearsOf <- TwoClears
    MaxHandledClears = 2
    CookieMessages <- ThreeMessages
    UrlSlots = 1
    Tokens = {x3}
    Lookups = {x1, x2}
    MaxWebWrites = 1
    DeviceSessions = {x1, x2}
    Polls = {"p1", "p2"}
    SessionCap = 1
    DeviceLife = 1
    PollSlots = 2
    Budget = 2
    Retention = 2
    MaxTime = 4
    Pages = {1, 2}
    PageKinds <- TwoPages
    PageHandlers = {x1, x2}
    SystemProxy = FALSE
    MaxInstants = 2
    MaxWritings = 2
    Moderators = {"m1"}
    Judged = {"d1"}
    DomainRules = {"www.x.org", " x.org", "sub.x.org"}
    KeywordRules = {"k", "  "}
    RuleLimit = 1
    MaxRuleEdits = 2
    MaxPolicyMoves = 1
    MessageKinds = {"link", "ranged", "playlist", "cut", "cutAt", "time", "cancel"}
    MaxMessage = 3
    MaxClips = 2
    MaxRevision = 3
    QualityChoices = {"best", "audio"}
    Audio = "audio"
SYMMETRY PairSymmetry
INVARIANTS NoResend RowsAreSound JournalAgrees RecordsMatchChat RunsAsFrozen CredentialsAreKept
PROPERTIES KeepsContract DecisionsAreFinal
\* The service rests when the operation has ended and the workers have stopped, the
\* other components at their bounds.
CHECK_DEADLOCK FALSE
