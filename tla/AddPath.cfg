SPECIFICATION Spec
CONSTANTS
    Proc = {p1}
    MaxCommands = 1
    None = None
    Missing = Missing
    Torn = Torn
INVARIANTS AddedIsLoadable
CHECK_DEADLOCK FALSE
