SPECIFICATION FairSpec
CONSTANTS
    NumPorts = 1
    MaxSessions = 1
    Handles = {h1, h2, h3}
    Ctxs = {c1}
    Admins = {a1}
    MaxMatches = 8
    PeersReset = FALSE
    None = None
PROPERTIES EndedSessionIsReleased DisableReturns
