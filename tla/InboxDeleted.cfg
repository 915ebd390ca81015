SPECIFICATION FairInbox
CONSTANTS
    Token <- NoteToken
    Identity <- Note
    NoToken = NoToken
    NoIdentity = NoIdentity
    Dispatcher = {d1}
    Item = {i1}
    Deletable = {i1}
    MaxNotes = 1
    MaxSends = 1
    MaxCrashes = 1
PROPERTY ConfirmedIsRecorded
