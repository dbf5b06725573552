SPECIFICATION MCSpec
CONSTANTS
    Conn = {k1, k2, k3}
    MaxFlows = 2
    MaxRoutes = 2
    Name <- MCName
    Policies <- MCPolicies
    Query = {q1, q2}
    MaxQueries = 1
    MaxConns = 1
    NIC = {v1, v2}
    MaxReloads = 1
    MaxSize = 2
    MaxEvents = 5
    Ranges = {r1}
    Elsewhere = Elsewhere
    MaxExceptions = 1
INVARIANTS MCTypeOK SlotsExact FreshRoute OnePolicyFilters StatusAlternates FollowerInOrder OnlyOutside
PROPERTIES Revoked 
CHECK_DEADLOCK FALSE
