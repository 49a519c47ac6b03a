SPECIFICATION Spec
CONSTANTS
    MaxPorts = 2
    Ids = {1, 2}
    Workers = {w1, w2}
    MaxActive = 2
    Final = {"moved", "starved"}
INVARIANTS HandleNamesItsPort
CHECK_DEADLOCK FALSE
