\* Two calls of any kind, with the form; no other device writes.
CONSTANTS
    NumDocs = 2
    MaxChannel = 1
    Shared = {}
    MaxFlows = 2
    MaxFlushes = 1
SPECIFICATION OneTaskSpec
INVARIANTS
    AppTypeOK
    EveryAwaitHasItsCall
    BusyHasAReason
PROPERTIES
    DeletedOnOwnYes
