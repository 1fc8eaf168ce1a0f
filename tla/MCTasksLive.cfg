\* From any cache, with fairness: two calls overlap on one document, which the form
\* may create, the list complete and a delete remove.  No other device writes.
CONSTANTS
    NumDocs = 1
    MaxChannel = 1
    Shared = {}
    MaxFlows = 2
    MaxFlushes = 0
SPECIFICATION AppSpec
PROPERTIES
    WritesAreAnswered
    SavesAreAnnounced
