SPECIFICATION Spec
CONSTANTS
    Reloader = {r1, r2}
    v1 = v1
    v2 = v2
    Version <- MCVersion
    Count <- MCCount
    None = None
    Settings <- GuestFails
INVARIANTS BoundIsStaged
