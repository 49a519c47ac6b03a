SPECIFICATION Spec
CONSTANTS
    MaxSinks = 2
    Depth = 2
    MaxChunks = 3
    Sizes = {3}
    Channels = {tcp, term}
    Feeders = {f1}
    Others = {relay}
INVARIANTS TypeOK MonitorHasOperator OnlyTailsAreLost CalledOnce StopReleasesPort
PROPERTIES FeedEnds ShellFreed
CHECK_DEADLOCK FALSE
