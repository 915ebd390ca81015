SPECIFICATION SuiteSpec
CONSTANTS
    Components = {"inbox", "ledger", "lists", "clients", "quota",
                  "stream", "oauth", "byok", "ingestion", "names", "search", "analytics",
                  "commands", "imports"}
    Token <- NoteToken
    Identity <- Note
    NoToken = NoToken
    NoIdentity = NoIdentity
    Dispatcher = {x1, x2}
    Item = {i1}
    Deletable = {i1}
    MaxNotes = 2
    MaxSends = 2
    MaxCrashes = 1
    MaxGenerations = 2
    Disconnects = {x1, x2}
    Requests = {x1, x2}
    SummaryLimit = 2
    TldrLimit = 1
    MaxDays = 1
    MaxRoutes = 1
    MaxDbFaults = 1
    Handlers = {x1, x2}
    Intents = {1, 2}
    Folders = {1, 2}
    Lists = {1, 2}
    MutationKinds = {"create", "remove"}
    MaxForeign = 1
    MaxFaults = 1
    Readers = {x1, x2}
    MaxUpdates = 2
    MaxRenames = 1
    MaxSeconds = 2
    MessageIds = {1, 2}
    MaxWrites = 2
    MaxMishaps = 2
    Uploads = {x1, x2, x3}
    MaxImports = 2
    x1 = x1
    x2 = x2
    x3 = x3
SYMMETRY PairSymmetry
INVARIANTS
    NotificationsAreSound
    MutationsAreSound
    SpendingIsAgreed
    AnswersAreWhole
    StatisticsAgree
PROPERTY NoTokenReturns
\* Every component comes to rest at its bounds.
CHECK_DEADLOCK FALSE
