CONSTANTS
    Client = {c1, c2}
    None = None
    Sizes = {2}
    StartSize = 2
    Queue = 2
    MaxTraffic = 2
SPECIFICATION FairSpec
INVARIANTS TypeOK SessionFaithful AtMostOneLateFrame
 
CHECK_DEADLOCK FALSE
