\* The deletion of the last task does not reach the list.
CONSTANTS
    NumDocs = 2
    MaxChannel = 1
    Shared = {}
    MaxFlows = 1
    MaxFlushes = 0
SPECIFICATION OneTaskSpec
INVARIANTS
    EmptiedListIsShown
