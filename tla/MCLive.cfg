SPECIFICATION SuiteSpec
CONSTANTS
    Components = {"service", "inbox", "exec", "jobs", "saves", "resaves", "repeats",
                  "menus", "progress"}
    NoToken = NoToken
    NoIdentity = NoIdentity
    Runs = {"r"}
    MaxFrames = 2
    Items = {"i"}
    RuleStatus = {"archived", "classified", "pending"}
    MaxJobs = 3
    MaxJobAttempts = 2
    MaxRestarts = 2
    Messages = {"m1", "m2", "m3"}
    LinkOf <- OneLink
    Deliveries = {"d1", "d2"}
    TargetOrder <- OneMember
    ChatOf <- OneGroup
    MaxDecisions = 1
    MaxMoves = 2
    MaxTroubles = 1
    Replies = {"r1", "r2"}
    MaxOpRetries = 1
    MaxNoticeFaults = 2
INVARIANT WorkIsOwned
PROPERTIES
    EverySettles
    InboxSettles
    EveryRunEnds
    EveryJobEnds
    MenusConverge
    OutcomeIsShown
\* Every component comes to rest at its bounds.
CHECK_DEADLOCK FALSE
