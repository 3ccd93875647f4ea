--------------------------- MODULE PoolController ---------------------------
(***************************************************************************)
(* The ENIPool reconciler (src/internal/controller/enipool_controller.go): *)
(* it writes the inventory of a pool, which interface is claimed by which  *)
(* AWSMachine, to the pool's status, and sets a gauge to the number of     *)
(* available ones.  Pools do not interact here: this is one of them.       *)
(*                                                                         *)
(* The reconciler reads the pool and the claims from two informers and     *)
(* watches only the pools: a change of a claim queues nothing, and the     *)
(* inventory follows it because every reconciliation is repeated after     *)
(* five minutes.                                                           *)
(***************************************************************************)
EXTENDS Naturals, FiniteSets

CONSTANTS
    ENI, Machine,
    Available,      \* the state of an interface without a claim
    Unlisted,       \* an interface that the inventory does not list
    NoPool, Idle,
    MaxGeneration   \* bound: how often operators write the pool's spec

ASSUME GenerationAssumption == MaxGeneration \in Nat
ASSUME ENIAssumption == IsFiniteSet(ENI)
ASSUME UnlistedAssumption == Unlisted \notin Machine \cup {Available}

(* Status: the generation it is of, and what it says of each interface. *)
Status == [observed: 0 .. MaxGeneration,
           state: [ENI -> Machine \cup {Available, Unlisted}]]

(***************************************************************************)
(* An ENIPool.  generation numbers the specs that operators wrote; a pool  *)
(* that is deleted and made again goes on counting, which stands for its   *)
(* new UID.                                                                *)
(***************************************************************************)
PoolObject == [generation: 1 .. MaxGeneration, interfaces: SUBSET ENI \ {{}},
               status: Status]

(* A reconciliation: the pool it read, and the status it will write. *)
Work == [old: PoolObject, status: Status]

ASSUME NoPoolAssumption == NoPool \notin PoolObject
ASSUME IdleAssumption == Idle \notin Work

VARIABLES
    pool,           \* the API server's ENIPool
    poolCache,      \* the informer's copy
    holder,         \* the API server's claims: the AWSMachine of each ENI
    holderCache,    \* the informer's copy
    worker,         \* the reconciliation in progress
    queued,         \* the pool's key will be reconciled
    gauge,          \* eni_pool_available_interfaces
    generation      \* the last generation given out

environment == <<pool, holder, generation>>
vars == <<environment, poolCache, holderCache, worker, queued, gauge>>

TypeOK ==
    /\ pool \in PoolObject \cup {NoPool}
    /\ poolCache \in PoolObject \cup {NoPool}
    /\ holder \in [ENI -> Machine \cup {Available}]
    /\ holderCache \in [ENI -> Machine \cup {Available}]
    /\ worker \in Work \cup {Idle}
    /\ queued \in BOOLEAN
    /\ gauge \in Nat
    /\ generation \in 0 .. MaxGeneration

NoStatus == [observed |-> 0, state |-> [e \in ENI |-> Unlisted]]

Init ==
    /\ pool = NoPool /\ poolCache = NoPool
    /\ holder = [e \in ENI |-> Available] /\ holderCache = holder
    /\ worker = Idle /\ queued = FALSE
    /\ gauge = 0 /\ generation = 0

-----------------------------------------------------------------------------
(* The inventory of a pool: the state of each interface it configures. *)
Inventory(interfaces, claimed) ==
    [e \in ENI |-> IF e \in interfaces THEN claimed[e] ELSE Unlisted]

AvailableIn(state) == Cardinality({e \in ENI : state[e] = Available})

(***************************************************************************)
(* Reconcile reads the pool and the claims and sets the gauge.  No pool:   *)
(* nothing to do, and the gauge stays as it is.                            *)
(***************************************************************************)
Begin ==
    /\ worker = Idle /\ queued
    /\ queued' = FALSE
    /\ \/ /\ poolCache = NoPool
          /\ UNCHANGED <<worker, gauge>>
       \/ /\ poolCache # NoPool
          /\ LET state == Inventory(poolCache.interfaces, holderCache) IN
               /\ worker' = [old |-> poolCache,
                             status |-> [observed |-> poolCache.generation,
                                         state |-> state]]
               /\ gauge' = AvailableIn(state)
    /\ UNCHANGED <<environment, poolCache, holderCache>>

(* Mutant of UpdateStatus: the result of Reconcile asks for no repetition. *)
UpdateStatusOnce ==
    /\ worker # Idle
    /\ pool' = IF pool = worker.old
               THEN [pool EXCEPT !.status = worker.status] ELSE pool
    /\ worker' = Idle
    /\ UNCHANGED <<poolCache, holder, holderCache, gauge, generation, queued>>

(* Mutant of UpdateStatus: the status is applied to whatever pool is there. *)
UpdateStatusByPatch ==
    /\ worker # Idle
    /\ pool' = IF pool # NoPool
               THEN [pool EXCEPT !.status = [worker.status EXCEPT
                                                !.observed = pool.generation]]
               ELSE pool
    /\ worker' = Idle
    /\ queued' = TRUE
    /\ UNCHANGED <<poolCache, holder, holderCache, gauge, generation>>

(***************************************************************************)
(* The status is written with the resource version of the cached pool.  A  *)
(* conflict is dropped, any other error (here NotFound) is not; either way *)
(* the key comes back, after five minutes or after the backoff.            *)
(***************************************************************************)
UpdateStatus ==
    /\ worker # Idle
    /\ pool' = IF pool = worker.old
               THEN [pool EXCEPT !.status = worker.status] ELSE pool
    /\ worker' = Idle
    /\ queued' = TRUE
    /\ UNCHANGED <<poolCache, holder, holderCache, gauge, generation>>

(* The write fails, or the manager is restarted: the key comes back. *)
Interrupted ==
    /\ worker # Idle
    /\ worker' = Idle
    /\ queued' = TRUE
    /\ UNCHANGED <<environment, poolCache, holderCache, gauge>>

(* The ENIPool informer catches up, and its event queues the key. *)
SyncPools ==
    /\ poolCache # pool
    /\ poolCache' = pool
    /\ queued' = TRUE
    /\ UNCHANGED <<environment, holderCache, worker, gauge>>

(* The ENIClaim informer catches up.  Nobody watches it here. *)
SyncClaims ==
    /\ holderCache # holder
    /\ holderCache' = holder
    /\ UNCHANGED <<environment, poolCache, worker, queued, gauge>>

-----------------------------------------------------------------------------
(* Operators create the pool, change its interfaces, or delete it. *)
OperatorWrites ==
    /\ generation < MaxGeneration
    /\ generation' = generation + 1
    /\ \E interfaces \in SUBSET ENI \ {{}} :
          pool' = [generation |-> generation', interfaces |-> interfaces,
                   status |-> IF pool = NoPool THEN NoStatus ELSE pool.status]
    /\ UNCHANGED <<holder, poolCache, holderCache, worker, queued, gauge>>

OperatorDeletes ==
    /\ pool # NoPool
    /\ pool' = NoPool
    /\ UNCHANGED <<holder, generation, poolCache, holderCache, worker, queued,
                   gauge>>

(* The allocator claims an interface, or releases it (ENIAllocator). *)
Allocates(e) ==
    /\ \/ holder[e] = Available /\ \E m \in Machine : holder' = [holder EXCEPT ![e] = m]
       \/ holder[e] # Available /\ holder' = [holder EXCEPT ![e] = Available]
    /\ UNCHANGED <<pool, generation, poolCache, holderCache, worker, queued, gauge>>

EnvironmentNext ==
    OperatorWrites \/ OperatorDeletes \/ \E e \in ENI : Allocates(e)

Next ==
    Begin \/ UpdateStatus \/ Interrupted \/ SyncPools \/ SyncClaims
    \/ EnvironmentNext

(***************************************************************************)
(* The key is taken up again and again, a write that is tried for ever     *)
(* gets through, and the informers catch up.                               *)
(***************************************************************************)
Fairness ==
    /\ WF_vars(Begin) /\ SF_vars(UpdateStatus)
    /\ WF_vars(SyncPools) /\ WF_vars(SyncClaims)

Spec == Init /\ [][Next]_vars /\ Fairness

-----------------------------------------------------------------------------
Listed(state) == {e \in ENI : state[e] # Unlisted}

(* A status that claims to be of the pool's present spec lists exactly     *)
(* that spec's interfaces, although the spec may change between the read   *)
(* and the write (ObservedGeneration is what a client goes by).            *)
StatusIsOfItsGeneration ==
    pool # NoPool /\ pool.status.observed = pool.generation =>
        Listed(pool.status.state) = pool.interfaces

(* Why: no status is of a generation not given out yet, and the worker's   *)
(* status is of the pool that it read.                                     *)
StatusInv ==
    /\ TypeOK
    /\ StatusIsOfItsGeneration
    /\ pool # NoPool => /\ pool.generation =< generation
                        /\ pool.status.observed =< pool.generation
    /\ worker # Idle =>
          /\ worker.status.observed = worker.old.generation
          /\ Listed(worker.status.state) = worker.old.interfaces

(* The pool is never lost sight of: it is queued or being reconciled, or   *)
(* its event is to come.  No change of a claim has an event here, so the   *)
(* inventory would stay as it is for ever.                                 *)
PoolNotForgotten ==
    pool # NoPool => queued \/ worker # Idle \/ poolCache # pool

(* Why: what operators write is never what the informer shows already.     *)
PoolWakeInv ==
    /\ PoolNotForgotten
    /\ poolCache # NoPool => poolCache.generation =< generation

Truthful ==
    pool # NoPool =>
        LET state == Inventory(pool.interfaces, holder) IN
        /\ pool.status = [observed |-> pool.generation, state |-> state]
        /\ gauge = AvailableIn(state)

(* When pools and claims stop changing, the inventory and the gauge become *)
(* and stay true: neither the missing watch on claims nor a dropped        *)
(* conflict leaves them wrong (docs/design.md: the inventory status is     *)
(* updated from the list of claims).                                       *)
InventoryConverges == []<><<EnvironmentNext>>_vars \/ <>[]Truthful
=============================================================================
