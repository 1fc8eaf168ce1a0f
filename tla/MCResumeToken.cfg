\* A resume token outlives the documents it stands for.
SPECIFICATION SyncSpec
CONSTANTS
    NumDocs = 2
    Own = {2}
    MaxActive = 1
    MaxBreaks = 1
    MaxRestarts = 1
INVARIANTS TokenMeansKnown
CHECK_DEADLOCK FALSE
