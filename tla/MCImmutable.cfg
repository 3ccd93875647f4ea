SPECIFICATION FairStaticSpec
CONSTANTS
    e1 = e1
    e2 = e2
    m2 = m2
    vpc = vpc
    ENI = {e1}
    Machine = {m1, m2}
    Later = {m1, m2}
    Request = {}
    Pool = {p1}
    Network = {vpc}
    Key = {}
    NoKey = NoKey
    KeyOf <- NoKeys
    KeyWanted <- AnyKey
    SpecMutable = FALSE
    Address <- AddressInOrder
    PoolChoices <- WaitPool
    NetworkOf <- OneNetwork
    Unresolved = Unresolved
    NoClaim = NoClaim
    NoPool = NoPool
    Absent = Absent
    Dynamic = Dynamic
    Idle = Idle
PROPERTY NotStuckForever
