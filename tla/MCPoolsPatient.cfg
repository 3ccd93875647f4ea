SPECIFICATION PatientSpec
CONSTANTS
    n1 = n1
    n2 = n2
    e1 = e1
    e2 = e2
    k1 = k1
    Pool = {p1, p2, p3}
    Network = {n1, n2}
    ENI = {e1, e2}
    Address = {1, 2, 3}
    IPv4 = {1, 2}
    Key = {k1}
    NoKey = NoKey
    Writer = {w1, w2}
    Submitted <- Specs
    NoPool = NoPool
    Idle = Idle
INVARIANTS PatientInv PoolsDisjoint PoolsDetermined
