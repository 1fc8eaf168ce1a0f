\* Two calls from the list while another device changes one of two tasks.
CONSTANTS
    NumDocs = 2
    MaxChannel = 1
    Shared = {1}
    MaxFlows = 2
    MaxFlushes = 0
SPECIFICATION ListSpec
INVARIANTS
    CheckBoxesSettle
    ListFollowsSnapshots
