SPECIFICATION MCSpec
CONSTANTS
    o1 = o1  o2 = o2  n1 = n1  l1 = l1  d1 = d1
    Proc = {o1, o2, n1, l1}
    Mode <- MCMode
    Want <- MCWant
    Id = {i1, i2, i3}
    None = None
    Settings <- MCSettings
INVARIANTS MCTypeOK CleanBoot SessionsAccounted
PROPERTIES SupervisorEnds ImplementsLifecycle OpenReturns
CHECK_DEADLOCK FALSE
