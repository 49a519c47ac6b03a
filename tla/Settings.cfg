SPECIFICATION Spec
CONSTANTS
    NumFields = 3
    Choice <- MCChoice
    Refused <- MCRefused
    Settable = {1, 2}
    Booted <- MCBooted
    Updates <- MCUpdates
    Workers = {w1, w2}
    MaxMatches = 1
INVARIANTS TypeOK UartFollowsSession ReplyMeansSet UpdateReachesListed
CHECK_DEADLOCK FALSE
