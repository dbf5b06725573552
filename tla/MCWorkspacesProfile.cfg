SPECIFICATION Spec
CONSTANTS
    Workspace = {w1, w2}
    Profile = {p1}
    None = None
    Command = {c1, c2}
    MaxPID = 2
    Interrupts = {}
SYMMETRY Symmetry
INVARIANTS ProfileExclusive
CHECK_DEADLOCK FALSE
