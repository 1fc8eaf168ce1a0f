\* Three writes and a pipeline of two, so that it is refilled; network or app restart
\* twice, streams break without bound.
SPECIFICATION RemoteSpec
CONSTANTS
    MaxWrites = 3
    MaxPending = 2
    MaxRestarts = 2
INVARIANTS RemoteTypeOK PipelineIsPrefix StreamCarriesPipeline AnsweredWasCommitted
    StoppedOnlyWhenIdle TokenOnlyWhenStarting
    TimerRunsWhileUnknown FailuresMeanOffline
PROPERTIES ImplementsOrderedReplies WritesReachTheServer WaitingEnds
