SPECIFICATION LedgerSpec
CONSTANTS
    Handlers = {h1}
    Intents = {1, 2}
    Folders = {1, 2, 3}
    Lists = {1, 2}
    MutationKinds = {"create", "rename"}
    MaxForeign = 0
    MaxFaults = 0
PROPERTY LinkSurvives
CHECK_DEADLOCK FALSE
