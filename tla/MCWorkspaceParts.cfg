SPECIFICATION MCSpec
CONSTANTS
    None = None
    Reloader = {r1, r2}  v1 = v1  v2 = v2
    Version <- MCVersion
    Count <- MCCount
    Settings <- MCSettings
    Proc = {t1, t2}
    MaxCommands = 2
    Missing = Missing
    Torn = Torn
    AgentID = 1000  HostID = 501  OtherID = 1001
    MaxTyped = 3
    MaxOutput = 4
    AltMode = alt
    Mode = {}
    Untracked = other
    Cursor = cursor
    MaxKitty = 3
    MaxPid = 4
    Cap = 3
SYMMETRY Symmetry
INVARIANTS MCTypeOK
       NoAddLost 
     ScreenIsAgents    
CHECK_DEADLOCK FALSE
