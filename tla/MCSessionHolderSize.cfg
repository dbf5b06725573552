CONSTANTS
    Client = {c1, c2}
    None = None
    Sizes = {1, 2}
    StartSize = 2
    Queue = 2
    MaxTraffic = 0
SYMMETRY Symmetry
SPECIFICATION Spec
INVARIANTS TerminalFitsClient
CHECK_DEADLOCK FALSE
