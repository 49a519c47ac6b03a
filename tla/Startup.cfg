SPECIFICATION Spec
CONSTANTS
    MaxPorts = 2
    TcpPorts = {4000, 4001}
    MaxItems = 3
    MaxSessions = 2
    Workers = {w1, w2, w3, w4}
INVARIANTS TypeOK StopReturnsSlots ListenersFollowConfig ListenerHasWhatItUses ShellHasListeners
SYMMETRY WorkerSymmetry
CHECK_DEADLOCK FALSE
