------------------------ MODULE PoolControllerProofs ------------------------
(***************************************************************************)
(* A pool's status is never taken for the status of another spec.          *)
(***************************************************************************)
EXTENDS PoolController, FiniteSetTheorems, TLAPS

(* An inventory lists the interfaces it is made for, with their claims. *)
LEMMA InventoryLists ==
    ASSUME NEW S \in SUBSET ENI, NEW h \in [ENI -> Machine \cup {Available}]
    PROVE  /\ Inventory(S, h) \in [ENI -> Machine \cup {Available, Unlisted}]
           /\ Listed(Inventory(S, h)) = S
  BY UnlistedAssumption DEF Inventory, Listed

(* The gauge is a number. *)
LEMMA GaugeType == \A state : AvailableIn(state) \in Nat
  BY ENIAssumption, FS_Subset, FS_CardinalityType DEF AvailableIn

(* The invariant holds at first. *)
LEMMA StatusInit == Init => StatusInv
<1> SUFFICES ASSUME Init PROVE StatusInv
  OBVIOUS
<1>1. TypeOK
  <2>1. generation \in 0 .. MaxGeneration /\ gauge \in Nat
    BY GenerationAssumption DEF Init
  <2>2. queued \in BOOLEAN /\ worker = Idle
    BY DEF Init
  <2>3. holder \in [ENI -> Machine \cup {Available}] /\ holderCache = holder
    BY DEF Init
  <2> QED
    BY <2>1, <2>2, <2>3 DEF Init, TypeOK
<1>2. StatusIsOfItsGeneration
  BY DEF Init, StatusIsOfItsGeneration
<1> QED
  BY <1>1, <1>2 DEF Init, StatusInv

(* The status that a reconciliation of a pool will write is of that pool. *)
LEMMA BeginsWork ==
    ASSUME StatusInv, Begin, poolCache # NoPool
    PROVE  /\ worker' \in Work /\ gauge' \in Nat
           /\ worker'.status.observed = worker'.old.generation
           /\ Listed(worker'.status.state) = worker'.old.interfaces
<1> USE DEF StatusInv, TypeOK
<1> DEFINE state == Inventory(poolCache.interfaces, holderCache)
<1>1. poolCache \in PoolObject /\ poolCache.interfaces \in SUBSET ENI
  BY DEF PoolObject
<1>2. /\ state \in [ENI -> Machine \cup {Available, Unlisted}]
      /\ Listed(state) = poolCache.interfaces
  BY <1>1, InventoryLists
<1> HIDE DEF state
<1>3. /\ worker' = [old |-> poolCache,
                    status |-> [observed |-> poolCache.generation,
                                state |-> state]]
      /\ gauge' = AvailableIn(state)
  BY DEF Begin, state
<1>4. worker' \in Work /\ gauge' \in Nat
  BY <1>1, <1>2, <1>3, GaugeType DEF Work, PoolObject, Status
<1> QED
  BY <1>2, <1>3, <1>4

(* What operators write is a pool, with a status of an earlier spec. *)
LEMMA OperatorsWritePools ==
    ASSUME StatusInv, OperatorWrites
    PROVE  /\ pool' \in PoolObject
           /\ pool'.generation = generation'
           /\ pool'.status.observed =< generation
           /\ pool'.status.observed # pool'.generation
<1> USE GenerationAssumption DEF StatusInv, TypeOK
<1> DEFINE status == IF pool = NoPool THEN NoStatus ELSE pool.status
<1>1. PICK S \in SUBSET ENI \ {{}} :
        pool' = [generation |-> generation + 1, interfaces |-> S,
                 status |-> status]
  BY DEF OperatorWrites
<1>2. status \in Status /\ status.observed =< generation
  <2>1. CASE pool = NoPool
    BY <2>1 DEF NoStatus, Status
  <2>2. CASE pool # NoPool
    <3>1. pool \in PoolObject
      BY <2>2
    <3>2. pool.status \in Status /\ pool.generation \in Nat
      BY <3>1 DEF PoolObject
    <3>3. pool.status.observed \in Nat
      BY <3>2 DEF Status
    <3> QED
      BY <2>2, <3>2, <3>3
  <2> QED
    BY <2>1, <2>2
<1> HIDE DEF status
<1>3. generation' = generation + 1 /\ generation + 1 \in 1 .. MaxGeneration
  BY DEF OperatorWrites
<1>4. pool' \in PoolObject
  BY <1>1, <1>2, <1>3 DEF PoolObject
<1>5. status.observed \in Nat
  BY <1>2 DEF Status
<1> QED
  BY <1>1, <1>2, <1>3, <1>4, <1>5

(* Every step of the reconciler and of its environment preserves it. *)
LEMMA StatusNext == StatusInv /\ [Next]_vars => StatusInv'
<1> SUFFICES ASSUME StatusInv, [Next]_vars PROVE StatusInv'
  OBVIOUS
<1> USE GenerationAssumption DEF StatusInv, TypeOK
<1>1. CASE Begin
  <2>1. CASE poolCache = NoPool
    BY <1>1, <2>1 DEF Begin, environment, StatusIsOfItsGeneration
  <2>2. CASE poolCache # NoPool
    <3>1. UNCHANGED <<environment, poolCache, holderCache>> /\ queued' = FALSE
      BY <1>1 DEF Begin
    <3> QED
      BY <1>1, <2>2, <3>1, BeginsWork DEF environment, StatusIsOfItsGeneration
  <2> QED
    BY <2>1, <2>2
<1>2. CASE UpdateStatus
  <2>1. worker \in Work
    BY <1>2 DEF UpdateStatus
  <2>2. CASE pool = worker.old
    <3>1. pool \in PoolObject /\ pool # NoPool
      BY <2>1, <2>2, NoPoolAssumption DEF Work
    <3>2. pool' = [pool EXCEPT !.status = worker.status] /\ worker.status \in Status
      BY <1>2, <2>1, <2>2 DEF UpdateStatus, Work
    <3>3. /\ pool' \in PoolObject
          /\ pool'.generation = pool.generation
          /\ pool'.interfaces = pool.interfaces
          /\ pool'.status = worker.status
      BY <3>1, <3>2 DEF PoolObject
    <3>4. /\ worker.status.observed = pool.generation
          /\ Listed(worker.status.state) = pool.interfaces
      BY <1>2, <2>2 DEF UpdateStatus
    <3>5. pool.generation \in Nat
      BY <3>1 DEF PoolObject
    <3> QED
      BY <1>2, <3>1, <3>3, <3>4, <3>5 DEF UpdateStatus, StatusIsOfItsGeneration
  <2>3. CASE pool # worker.old
    BY <1>2, <2>3 DEF UpdateStatus, StatusIsOfItsGeneration
  <2> QED
    BY <2>2, <2>3
<1>3. CASE Interrupted
  BY <1>3 DEF Interrupted, environment, StatusIsOfItsGeneration
<1>4. CASE SyncPools
  BY <1>4 DEF SyncPools, environment, StatusIsOfItsGeneration
<1>5. CASE SyncClaims
  BY <1>5 DEF SyncClaims, environment, StatusIsOfItsGeneration
<1>6. CASE OperatorWrites
  <2>1. /\ generation' = generation + 1 /\ generation + 1 \in 1 .. MaxGeneration
        /\ UNCHANGED <<holder, poolCache, holderCache, worker, queued, gauge>>
    BY <1>6 DEF OperatorWrites
  <2>2. pool'.status.observed \in Nat
    BY <1>6, OperatorsWritePools DEF PoolObject, Status
  <2> QED
    BY <1>6, <2>1, <2>2, OperatorsWritePools DEF StatusIsOfItsGeneration
<1>7. CASE OperatorDeletes
  BY <1>7 DEF OperatorDeletes, StatusIsOfItsGeneration
<1>8. ASSUME NEW e \in ENI, Allocates(e) PROVE StatusInv'
  BY <1>8 DEF Allocates, StatusIsOfItsGeneration
<1>9. CASE UNCHANGED vars
  BY <1>9 DEF vars, environment, StatusIsOfItsGeneration
<1> QED
  BY <1>1, <1>2, <1>3, <1>4, <1>5, <1>6, <1>7, <1>8, <1>9
     DEF Next, EnvironmentNext

(* The status that the reconciler is about to write is of the pool that it *)
(* read, and no status is of a generation that was not given out yet.      *)
THEOREM StatusSafety == Spec => []StatusInv
  BY StatusInit, StatusNext, PTL DEF Spec

(* For every number of interfaces, machines and writes of the spec: a      *)
(* status whose ObservedGeneration is the pool's generation lists exactly  *)
(* the interfaces of the pool's spec, whenever operators write the spec    *)
(* and whatever the informers show.                                        *)
THEOREM StatusCorrect == Spec => []StatusIsOfItsGeneration
<1>1. StatusInv => StatusIsOfItsGeneration
  BY DEF StatusInv
<1> QED
  BY <1>1, StatusSafety, PTL

(***************************************************************************)
(* The pool is never lost sight of.                                        *)
(***************************************************************************)
LEMMA WakeNext == StatusInv /\ PoolWakeInv /\ [Next]_vars => PoolWakeInv'
<1> SUFFICES ASSUME StatusInv, PoolWakeInv, [Next]_vars PROVE PoolWakeInv'
  OBVIOUS
<1> USE DEF PoolWakeInv, PoolNotForgotten
<1>1. CASE Begin
  <2>1. UNCHANGED <<pool, poolCache, generation>>
    BY <1>1 DEF Begin, environment
  <2>2. CASE poolCache = NoPool
    BY <2>1, <2>2
  <2>3. CASE poolCache # NoPool
    <3>1. worker' # Idle
      BY <1>1, <2>3, BeginsWork, IdleAssumption
    <3> QED
      BY <2>1, <3>1
  <2> QED
    BY <2>2, <2>3
<1>2. CASE UpdateStatus \/ Interrupted
  BY <1>2 DEF UpdateStatus, Interrupted, environment
<1>3. CASE SyncPools
  BY <1>3 DEF SyncPools, environment, StatusInv
<1>4. CASE SyncClaims
  BY <1>4 DEF SyncClaims, environment
<1>5. CASE OperatorWrites
  <2>1. /\ UNCHANGED poolCache /\ generation' = generation + 1
        /\ pool'.generation = generation + 1
    BY <1>5 DEF OperatorWrites
  <2>2. generation \in Nat
    BY GenerationAssumption DEF StatusInv, TypeOK
  <2>3. poolCache # NoPool => poolCache.generation \in Nat
    BY DEF StatusInv, TypeOK, PoolObject
  <2>4. poolCache # pool'
    <3>1. CASE poolCache = NoPool
      BY <1>5, <3>1, OperatorsWritePools, NoPoolAssumption
    <3>2. CASE poolCache # NoPool
      BY <2>1, <2>2, <2>3, <3>2
    <3> QED
      BY <3>1, <3>2
  <2> QED
    BY <2>1, <2>2, <2>3, <2>4
<1>6. CASE OperatorDeletes
  BY <1>6 DEF OperatorDeletes
<1>7. ASSUME NEW e \in ENI, Allocates(e) PROVE PoolWakeInv'
  BY <1>7 DEF Allocates
<1>8. CASE UNCHANGED vars
  BY <1>8 DEF vars, environment
<1> QED
  BY <1>1, <1>2, <1>3, <1>4, <1>5, <1>6, <1>7, <1>8 DEF Next, EnvironmentNext

(* The pool is queued, being reconciled, or has an event to come, whatever *)
(* conflicts and failures its writes meet: its inventory is written again, *)
(* although no claim's change is an event.                                 *)
THEOREM PoolIsNotForgotten == Spec => []PoolNotForgotten
<1>1. Init => PoolWakeInv
  BY DEF Init, PoolWakeInv, PoolNotForgotten
<1>2. PoolWakeInv => PoolNotForgotten
  BY DEF PoolWakeInv
<1> QED
  BY <1>1, <1>2, WakeNext, StatusSafety, PTL DEF Spec
=============================================================================
