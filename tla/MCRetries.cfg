SPECIFICATION LastingSpec
CONSTANTS
    e1 = e1
    e2 = e2
    vpc = vpc
    vpc2 = vpc2
    k1 = k1
    ENI = {e1, e2}
    Machine = {m1}
    Request = {r1, r2}
    Pool = {p1}
    Network = {vpc, vpc2}
    Key = {k1}
    NoKey = NoKey
    KeyOf <- KeyedE2
    Address <- AddressInOrder
    PoolChoices <- OnePool
    NetworkOf <- OneNetwork
    Unresolved = Unresolved
    NoClaim = NoClaim
    NoPool = NoPool
    Absent = Absent
    Dynamic = Dynamic
    Idle = Idle
SYMMETRY Symmetry
INVARIANT IInv
PROPERTY ImplementsReservation
