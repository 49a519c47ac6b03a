SPECIFICATION FairSpec
CONSTANTS
    NumPorts = 1
    MaxSessions = 1
    Handles = {h1, h2}
    Ctxs = {c1}
    Admins = {a1}
    MaxMatches = 8
    PeersReset = TRUE
    None = None
PROPERTIES ResetSessionEnds
