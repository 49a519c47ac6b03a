SPECIFICATION Spec
CONSTANTS
    NumPorts = 1
    MaxSessions = 2
    Handles = {h1, h2, h3}
    Ctxs = {c1, c2}
    Admins = {a1}
    MaxMatches = 8
    PeersReset = TRUE
    None = None
SYMMETRY Addresses
INVARIANTS TypeOK OneOwner TableMatchesWorkers RegisterFindsSlot
PROPERTIES SlotClearedByOwner ImplementsService
