SPECIFICATION Spec
CONSTANTS
    MaxPorts = 2
    MaxId = 2
    Tcps = {1, 2}
    Modes = {telnet}
    Admins = {a1, sh}
    Shell = sh
    None = None
    Gone = Gone
INVARIANTS TypeOK RegistriesAgree InterfacesMatch
PROPERTIES FailedAddUndone ImplementsPortSet
CHECK_DEADLOCK FALSE
