\* "Do you really want to delete the task?": another one may be deleted.
CONSTANTS
    NumDocs = 2
    MaxChannel = 1
    Shared = {1}
    MaxFlows = 2
    MaxFlushes = 0
SPECIFICATION ListSpec
INVARIANTS
    TappedTaskIsDeleted
