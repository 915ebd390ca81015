SPECIFICATION IngestionSpec
CONSTANTS
    Readers = {s1}
    MaxUpdates = 2
    MaxRenames = 0
    MaxSeconds = 2
INVARIANT RosterConverges
CHECK_DEADLOCK FALSE
