SPECIFICATION Spec
CONSTANTS
    ENI = {e1, e2}
    Machine = {m1}
    Available = Available
    Unlisted = Unlisted
    NoPool = NoPool
    Idle = Idle
    MaxGeneration = 3
INVARIANTS StatusInv StatusIsOfItsGeneration PoolNotForgotten
PROPERTY InventoryConverges
