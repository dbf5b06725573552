SPECIFICATION Spec
CONSTANTS
    Workspace = {w1, w2}
    Profile = {p1}
    None = None
    Command = {c1}
    MaxPID = 2
    Interrupts = {"wait"}
SYMMETRY Symmetry
INVARIANTS RunningIsKnown
CHECK_DEADLOCK FALSE
