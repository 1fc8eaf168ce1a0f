\* One document and three writes: a set, a patch and a delete of it overlap, with
\* changes by other devices and restarts of the app in between.
CONSTANTS
    Shared = {1}
    NumDocs = 1
    MaxWrites = 3
    MaxChannel = 1
SPECIFICATION StoreSpec
INVARIANTS
    StoreTypeOK
    StreamFresh
    DeletedWhenTold
PROPERTIES
    HeardBeforeReverted
    ImplementsOrderedReplies
