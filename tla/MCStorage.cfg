SPECIFICATION MCSpec
CONSTANTS
    Proc = {p1, p2}
    Account = {a1, a2}
    TTLs = {1}
    IndexExpiryMargin = 2
    IndexRetryTTL = 1
    Rounding = 1
    MaxTime = 3
    MaxGen = 1
    None = None
    Corrupt = Corrupt
    p1 = p1  p2 = p2  i1 = i1  i2 = i2  w1 = w1  w2 = w2  data1 = data1  data2 = data2
    Workspace = {w1, w2}
    Volume = {data1, data2}
    Owner <- TwoOwners
    MaxRuns = 2
    Image = {i1, i2}
    Profile = {q1}
    Command = {c1}
    MaxPID = 2
    Interrupts = {"check", "claim", "record", "build", "start", "spec", "fork", "deliver", "redeliver", "mark", "reload", "respec", "down", "stop", "stopWait", "release", "purge"}
    Delivery = {p1, p2}
    Name = {a1, a2}
    MaxEdits = 1
SYMMETRY Symmetry
INVARIANTS MCTypeOK CachedIsListed EvictedStaysGone MigrationSafe 
    ProfileExclusive FilesFaithful 
PROPERTIES SupervisorsImplementLifecycle
CHECK_DEADLOCK FALSE
