SPECIFICATION SuiteSpec
CONSTANTS
    Components = {"admission", "accounts", "polling", "publication"}
    Never = Never
    x1 = x1
    x2 = x2
    x3 = x3
    Handler = {x3}
    Message = {1, 2, 3, 4}
    Kind <- QuotaKinds
    Mode = {"video", "audio", "image"}
    NoMode = NoMode
    Chat = {"private", "group"}
    Window = {"minute", "hour"}
    Duration <- QuotaDuration
    LimitChoices <- QuotaChoices
    IsOwner = FALSE
    MaxPendingActor = 5
    MaxTries = 2
    Second = 2
    MaxTime = 3
    Token = {x1, x2}
    Identity = {i1, i2}
    Dispatcher = {d1, d2, d3}
    NoToken = NoToken
    NoIdentity = NoIdentity
    People = {"o", "a"}
    ConfiguredOwner = "o"
    Requests = {"r1"}
    Topics = {0, 1}
    FeatureRole = 4
    MaxCommits = 2
    Updates = {1, 2, 3, 4}
    ChatOf <- TwoChats
    Dropped = {4}
    Concurrent = {3}
    BatchLimit = 2
    MaxPollFaults = 2
    MaxLives = 3
    Configurations <- Servers
    MaxWork = 1
    MaxStarted = 3
    Publishers = {"p1", "p2", "p3"}
    PublisherKind <- OneOfEach
    Runtimes = {"o1", "o2"}
    MayCreate = {"o1"}
    Creates <- TwoMigrations
    Tables = {"table"}
    MaxSourceMoves = 1
    MaxLaunches = 3
    Users = {"u1"}
    MaxEvents = 3
    MaxDeletions = 1
    Keys = {"k"}
    Calls = {x1, x2}
    Admins = {"a"}
    ScopeSets <- FourScopeSets
    MaxKeyClock = 2
INVARIANTS
    QuotasHold
    ConfirmedIsObserved
PROPERTIES
    AuthorityHolds
    PublishesWholeFiles
CHECK_DEADLOCK FALSE
