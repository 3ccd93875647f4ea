--------------------------- MODULE ManagerProofs ---------------------------
(***************************************************************************)
(* Proofs that the webhook, the ENIClaim reconciler and the AWSMachine     *)
(* reconciler of one manager do not disturb each other, for every set of   *)
(* interfaces, AWSMachines, pools and requests.                            *)
(***************************************************************************)
EXTENDS Manager, ENIAllocatorProofs

(***************************************************************************)
(* The fields of a reconciliation of the AWSMachine reconciler.            *)
(***************************************************************************)
LEMMA AllocationFields ==
    ASSUME AllocatorTypeOK
    PROVE  /\ allocation # Idle => allocation.machine \in Machine
           /\ Allocating("claim") => /\ allocation.pool \in Pool
                                     /\ allocation.policy \in Policy
                                     /\ allocation.todo \in SUBSET ENI
           /\ Allocating("attach") => allocation.eni \in ENI
  BY DEF AllocatorTypeOK, Allocation, Allocating

(***************************************************************************)
(* To the objects, the informers, the requests and the ENIClaim            *)
(* reconciler, a step of the manager is one of the allocator's, or it is   *)
(* one of the two things that the AWSMachine reconciler does.              *)
(***************************************************************************)
Reserves(e) ==
    /\ Allocating("claim")
    /\ claims[e] = NoClaim
    /\ Store(e, NewClaim(allocation.machine, allocation.pool))
    /\ UNCHANGED <<machines, claimCache, machineCache, pools, requests,
                   controllerVars>>

Attaches ==
    /\ Allocating("attach")
    /\ machines[allocation.machine] # Absent
    /\ machines' = [machines EXCEPT ![allocation.machine] = allocation.eni]
    /\ UNCHANGED <<claims, claimCache, unseen, machineCache, pools, requests,
                   controllerVars>>

LEMMA AllocatorSteps ==
    ASSUME AllocatorTypeOK, CallFails \/ AllocatorNext,
           UNCHANGED <<requests, controllerVars>>
    PROVE  \/ UNCHANGED vars
           \/ SyncMachines
           \/ \E e \in ENI : Reserves(e)
           \/ Attaches
  <1>1. CASE CallFails
    BY <1>1, AllocationFields
       DEF CallFails, Reserves, Lowest, vars, clusterVars
  <1>2. CASE ClaimInterface
    BY <1>2, AllocationFields
       DEF ClaimInterface, Reserves, Lowest, vars, clusterVars
  <1>3. CASE Attach
    BY <1>3 DEF Attach, Attaches, vars, clusterVars
  <1>4. CASE SyncMachineInformer
    BY <1>4 DEF SyncMachineInformer, SyncMachines, vars, clusterVars
  <1>5. CASE \/ \E m \in Machine : Allocate(m)
             \/ PoolExhausted \/ DynamicFallback \/ MarkFailed
    BY <1>5 DEF Allocate, PoolExhausted, DynamicFallback, MarkFailed, vars
  <1> QED
    BY <1>1, <1>2, <1>3, <1>4, <1>5 DEF AllocatorNext

LEMMA Steps ==
    ASSUME AllocatorTypeOK, [ManagerNext]_managerVars
    PROVE  [Next]_vars \/ (\E e \in ENI : Reserves(e)) \/ Attaches
  <1>1. CASE UNCHANGED managerVars
    BY <1>1 DEF managerVars
  <1>2. CASE LifeNext
    <2>1. ASSUME NEW m \in Later, CreatePaused(m) PROVE [Next]_vars
      <3>1. Bypass(m) /\ UNCHANGED controllerVars
        BY <2>1 DEF CreatePaused, Bypass
      <3> QED
        BY <3>1, LaterAssumption DEF Next, SystemNext, WebhookNext
    <2>2. ASSUME NEW m \in Later, Remove(m) PROVE [Next]_vars
      BY <2>2, LaterAssumption DEF Remove, Next, SystemNext
    <2>3. ASSUME NEW m \in Later, Leave(m) PROVE [Next]_vars
      BY <2>3 DEF Leave
    <2> QED
      BY <1>2, <2>1, <2>2, <2>3 DEF LifeNext, Next, SystemNext
  <1>3. CASE ProcessNext
    <2>1. CASE Allocates(AllocatorNext)
      BY <2>1, AllocatorSteps DEF Allocates, Next, SystemNext
    <2>2. CASE AdmissionNext /\ UNCHANGED controllerVars
      BY <2>2 DEF AdmissionNext, Next, SystemNext, WebhookNext
    <2>3. CASE ControllerNext /\ UNCHANGED requests
      BY <2>3 DEF Next, SystemNext
    <2> QED
      BY <1>3, <2>1, <2>2, <2>3 DEF ProcessNext
  <1>4. CASE ManagerFaultNext
    <2>1. CASE Allocates(CallFails)
      BY <2>1, AllocatorSteps DEF Allocates, Next, SystemNext
    <2>2. CASE ManagerRestart
      BY <2>2 DEF ManagerRestart, Next, FaultNext
    <2> QED
      BY <1>4, <2>1, <2>2 DEF ManagerFaultNext, Next, FaultNext
  <1>5. CASE \/ \E e \in ENI : GraceExpires(e)
             \/ PoolNext
    BY <1>5 DEF Next, SystemNext, OperatorNext
  <1> QED
    BY <1>1, <1>2, <1>3, <1>4, <1>5 DEF ManagerNext, StaticNext

-----------------------------------------------------------------------------
(***************************************************************************)
(* The allocator's invariant holds of the manager too.                     *)
(***************************************************************************)
LEMMA ReservesSafe ==
    ASSUME IInv, AllocatorTypeOK, NEW e \in ENI, Reserves(e)
    PROVE  IInv'
  <1> DEFINE c == NewClaim(allocation.machine, allocation.pool)
  <1>1. c \in Claim /\ ~c.deleting /\ ~c.aged
    BY AllocationFields, NewClaimTypes DEF Reserves, NewClaim, Allocating
  <1>2. claims' = [claims EXCEPT ![e] = c]
    BY DEF Reserves, Store
  <1> HIDE DEF c
  <1>3. TypeOK'
    BY <1>1, <1>2 DEF IInv, Safe, TypeOK, ClusterTypeOK, WebhookTypeOK,
       ControllerTypeOK, controllerVars, Reserves, Store
  <1>4. Safe'
    BY <1>1, <1>2, <1>3, NewClaimSafe DEF IInv, Reserves, Answered
  <1>5. CacheIsComplete'
    BY <1>2 DEF IInv, Safe, TypeOK, ClusterTypeOK, CacheIsComplete, Reserves,
       Store
  <1> QED
    BY <1>4, <1>5 DEF IInv

(***************************************************************************)
(* The AWSMachine reconciler attaches an interface that is claimed for the *)
(* AWSMachine; nobody else uses it or is about to take it away.            *)
(***************************************************************************)
LEMMA AttachesSafe ==
    ASSUME ManagerInv, Attaches
    PROVE  IInv'
  <1> DEFINE m == allocation.machine
             e == allocation.eni
  <1> USE DEF ManagerInv, IInv, Safe
  <1>1. /\ m \in Later /\ m \in Machine /\ e \in ENI
        /\ machines[m] # Absent
        /\ claims[e] # NoClaim /\ claims[e].machine = m
        /\ ~claims[e].deleting
    BY AllocationFields, LaterAssumption
       DEF Attaches, Allocating, Apart, AttachesOwn, ClaimsServe
  <1>2. m \in machineCache
    BY <1>1 DEF Attaches, Allocating, SeenBeforeClaimed, Untouched
  <1>3. /\ machines' = [machines EXCEPT ![m] = e]
        /\ UNCHANGED <<claims, claimCache, unseen, machineCache, pools,
                       requests, worker, queue>>
    BY DEF Attaches, controllerVars
  <1> HIDE DEF m, e
  <1>4. machines \in [Machine -> Attachment \cup {Absent}]
    BY DEF TypeOK, ClusterTypeOK
  <1>5. TypeOK'
    BY <1>1, <1>3 DEF TypeOK, ClusterTypeOK, WebhookTypeOK, ControllerTypeOK,
       Attachment
  <1>6. MachineHoldsClaim' /\ UserIsSeen'
    BY <1>1, <1>2, <1>3, <1>4 DEF MachineHoldsClaim, UserIsSeen
  <1>7. \A f \in ENI : Attached(f)' => f = e \/ Attached(f)
    BY <1>1, <1>3, <1>4 DEF Attached
  <1>8. \A r \in Request : Answered(r) => requests[r].grant # e
    BY <1>1 DEF Apart, Answered, GrantHoldsClaim
  <1>9. GrantHoldsClaim' /\ GrantIsFresh'
    BY <1>3, <1>7, <1>8 DEF GrantHoldsClaim, GrantIsFresh, Answered
  <1>10. At("delete") => worker.eni # e
    BY <1>1 DEF ClaimsServe, WorkerIsCurrent, DeletesUnused, IsCopy
  <1>11. /\ CacheIsCurrent' /\ WorkerIsCurrent' /\ StripsDisposable'
         /\ CacheIsComplete'
    BY <1>3 DEF CacheIsCurrent, WorkerIsCurrent, StripsDisposable,
       CacheIsComplete, IsCopy, At, Disposable
  <1>12. DeletesUnused'
    BY <1>3, <1>7, <1>10, WorkerFields
       DEF DeletesUnused, At, TypeOK
  <1> QED
    BY <1>5, <1>6, <1>9, <1>11, <1>12

LEMMA AllocatorInvNext ==
    ASSUME ManagerInv, [ManagerNext]_managerVars PROVE IInv'
  <1>1. CASE [Next]_vars
    BY <1>1, SafeNext, CompleteNext DEF ManagerInv, IInv, Safe
  <1> QED
    BY <1>1, Steps, ReservesSafe, AttachesSafe DEF ManagerInv

-----------------------------------------------------------------------------
(***************************************************************************)
(* The AWSMachine reconciler's own variables keep their types.             *)
(***************************************************************************)
LEMMA NowType ==
    ASSUME AllocatorTypeOK, TypeOK
    PROVE  Now \in [machines: [Machine -> Attachment \cup {Absent}],
                    paused: SUBSET Machine, failed: SUBSET Machine,
                    leaving: SUBSET Machine]
  BY DEF Now, AllocatorTypeOK, TypeOK, ClusterTypeOK

(* The steps of a reconciliation of machine m. *)
StepsFor(m) == {a \in Allocation : a.machine = m}

(* What a reconciliation of machine m may begin with. *)
LEMMA Beginnings ==
    ASSUME TypeOK, NEW m \in Machine
    PROVE  /\ [step |-> "fallback", machine |-> m] \in StepsFor(m)
           /\ \A e \in ENI :
                 [step |-> "attach", machine |-> m, eni |-> e] \in StepsFor(m)
           /\ \A p \in Pool : Matches(NetworkOf[m]) = {p} =>
                 [step |-> "claim", machine |-> m, pool |-> p,
                  policy |-> pools[p].policy,
                  todo |-> Candidates(pools[p], KeyWanted[m])] \in StepsFor(m)
  <1>1. ASSUME NEW p \in Pool, Matches(NetworkOf[m]) = {p}
        PROVE  [step |-> "claim", machine |-> m, pool |-> p,
                policy |-> pools[p].policy,
                todo |-> Candidates(pools[p], KeyWanted[m])] \in StepsFor(m)
    <2>1. pools[p] \in PoolSpec
      BY <1>1 DEF Matches, TypeOK, ClusterTypeOK
    <2>2. /\ pools[p].policy \in Policy
          /\ Candidates(pools[p], KeyWanted[m]) \in SUBSET ENI
      BY <2>1 DEF PoolSpec, Candidates
    <2> QED
      BY <2>2 DEF Allocation, StepsFor
  <1> QED
    BY <1>1 DEF Allocation, StepsFor

(* The reconciler begins with machine m, leaves it queued, or is done.     *)
LEMMA AllocateBegins ==
    ASSUME TypeOK, NEW m \in Machine, Allocate(m)
    PROVE  \/ /\ m \notin Waiting
              /\ backlog' = backlog \ {m} /\ UNCHANGED allocation
           \/ UNCHANGED <<allocation, backlog>>
           \/ backlog' = backlog \ {m} /\ allocation' \in StepsFor(m)
  BY Beginnings, Zenon DEF Allocate, Held

LEMMA AllocateType ==
    ASSUME AllocatorTypeOK, TypeOK, NEW m \in Machine, Allocate(m)
    PROVE  allocation' \in Allocation \cup {Idle} /\ backlog' \in SUBSET Machine
  BY AllocateBegins DEF AllocatorTypeOK, StepsFor

LEMMA AllocatorTypeNext ==
    ASSUME AllocatorTypeOK, TypeOK, [ManagerNext]_managerVars
    PROVE  AllocatorTypeOK'
  <1>1. Existing \in SUBSET Machine
    BY DEF Existing
  <1>2. Later \subseteq Machine
    BY LaterAssumption
  <1>3. CASE UNCHANGED allocatorVars
    BY <1>3 DEF AllocatorTypeOK, allocatorVars
  <1>4. ASSUME NEW m \in Later, CreatePaused(m) \/ Leave(m) \/ Remove(m)
        PROVE  AllocatorTypeOK'
    BY <1>2, <1>4 DEF CreatePaused, Leave, Remove, AllocatorTypeOK
  <1>5. CASE Allocates(CallFails)
    BY <1>5, AllocationFields
       DEF Allocates, CallFails, Retry, AllocatorTypeOK
  <1>6. CASE ManagerRestart
    BY <1>1, <1>6, NowType DEF ManagerRestart, AllocatorTypeOK
  <1>7. CASE Allocates(AllocatorNext)
    <2>1. ASSUME NEW m \in Machine, Allocate(m) PROVE AllocatorTypeOK'
      BY <2>1, AllocateType DEF Allocate, AllocatorTypeOK
    <2>2. CASE ClaimInterface
      <3>1. allocation # Idle /\ allocation \in Allocation
        BY <2>2 DEF ClaimInterface, Allocating, AllocatorTypeOK
      <3>2. PICK e \in Lowest(allocation.todo) :
               \/ allocation' = [step |-> "attach",
                                 machine |-> allocation.machine, eni |-> e]
               \/ allocation' = [allocation EXCEPT !.todo = @ \ {e}]
        BY <2>2 DEF ClaimInterface
      <3>3. allocation.step = "claim" /\ e \in ENI
        BY <2>2, AllocationFields DEF ClaimInterface, Allocating, Lowest
      <3>4. [step |-> "attach", machine |-> allocation.machine, eni |-> e]
               \in Allocation
        BY <3>1, <3>3 DEF Allocation
      <3>5. \A t : t \subseteq ENI =>
               [allocation EXCEPT !.todo = t] \in Allocation
        BY <3>1, <3>3 DEF Allocation
      <3>6. allocation.todo \ {e} \subseteq ENI
        BY <3>1, <3>3 DEF Allocation
      <3>7. allocation' \in Allocation
        BY <3>2, <3>4, <3>5, <3>6
      <3> QED
        BY <2>2, <3>7 DEF ClaimInterface, AllocatorTypeOK
    <2>3. CASE PoolExhausted
      <3>1. allocation # Idle /\ allocation.machine \in Machine
        BY <2>3, AllocationFields DEF PoolExhausted, Allocating
      <3>2. \A s \in {"fail", "fallback"} :
               [step |-> s, machine |-> allocation.machine] \in Allocation
        BY <3>1 DEF Allocation
      <3> QED
        BY <2>3, <3>1, <3>2
           DEF PoolExhausted, TryLater, Retry, AllocatorTypeOK
    <2>4. CASE Attach \/ DynamicFallback \/ MarkFailed
      <3>1. allocation.machine \in Machine
        BY <2>4, AllocationFields
           DEF Attach, DynamicFallback, MarkFailed, Allocating
      <3>2. CASE Attach
        BY <3>1, <3>2 DEF Attach, Finish, Retry, AllocatorTypeOK
      <3>3. CASE DynamicFallback
        BY <3>1, <3>3 DEF DynamicFallback, Finish, Retry, AllocatorTypeOK
      <3>4. CASE MarkFailed
        BY <3>1, <3>4 DEF MarkFailed, Finish, Retry, AllocatorTypeOK
      <3> QED
        BY <2>4, <3>2, <3>3, <3>4
    <2>5. CASE SyncMachineInformer
      BY <2>5, NowType DEF SyncMachineInformer, Outdated, AllocatorTypeOK
    <2> QED
      BY <1>7, <2>1, <2>2, <2>3, <2>4, <2>5 DEF Allocates, AllocatorNext
  <1>8. CASE LifeNext
    BY <1>3, <1>4, <1>8 DEF LifeNext
  <1>9. CASE ProcessNext \/ ManagerFaultNext
    BY <1>3, <1>5, <1>6, <1>7, <1>9 DEF ProcessNext, ManagerFaultNext
  <1> QED
    BY <1>3, <1>8, <1>9 DEF ManagerNext, StaticNext, managerVars

-----------------------------------------------------------------------------
(***************************************************************************)
(* What a step does to claim e: nothing that matters, or it is created,    *)
(* by a request or by the AWSMachine reconciler, or it is deleted by the   *)
(* ENIClaim reconciler, or it was being deleted and is gone.               *)
(***************************************************************************)
Stays(e) == /\ claims[e] = NoClaim <=> claims'[e] = NoClaim
            /\ claims[e] # NoClaim =>
                  /\ claims'[e].machine = claims[e].machine
                  /\ claims'[e].deleting = claims[e].deleting

Appears(e) == /\ claims[e] = NoClaim
              /\ claims'[e] # NoClaim /\ ~claims'[e].deleting
              /\ \/ claims'[e].machine \notin Later
                 \/ /\ allocation # Idle
                    /\ claims'[e].machine = allocation.machine

Goes(e) == /\ claims[e] # NoClaim
           /\ claims'[e] # NoClaim => claims'[e].machine = claims[e].machine
           /\ \/ claims[e].deleting
              \/ At("delete") /\ worker.claim.machine = claims[e].machine

LEMMA ControllerEffects ==
    ASSUME IInv, ControllerNext, NEW e \in ENI
    PROVE  Stays(e) \/ Goes(e)
  <1> USE DEF IInv, Safe, TypeOK, ClusterTypeOK
  <1>0. worker # Idle => /\ worker \in Work
                         /\ worker.eni \in ENI /\ worker.claim \in Claim
                         /\ worker.phase \in {"Bound", "Failed"}
    BY DEF ControllerTypeOK, Work
  <1>1. CASE UNCHANGED claims
    BY <1>1 DEF Stays
  <1>2. ASSUME worker # Idle, NEW d, claims' = [claims EXCEPT ![worker.eni] = d],
               /\ claims[worker.eni] = NoClaim <=> d = NoClaim
               /\ claims[worker.eni] # NoClaim =>
                     /\ d.machine = claims[worker.eni].machine
                     /\ d.deleting = claims[worker.eni].deleting
        PROVE  Stays(e)
    BY <1>0, <1>2 DEF Stays
  <1>3. CASE Finalize
    <2>1. worker # Idle
      BY <1>3 DEF Finalize, At
    <2>2. CASE TakesFinalizer(claims[worker.eni])
      <3> DEFINE d == [claims[worker.eni] EXCEPT !.finalizer = TRUE]
      <3>1. /\ claims[worker.eni] \in Claim /\ claims[worker.eni] # NoClaim
        BY <1>0, <2>1, <2>2 DEF TakesFinalizer
      <3>2. /\ d \in Claim /\ d.machine = claims[worker.eni].machine
            /\ d.deleting = claims[worker.eni].deleting
        BY <3>1 DEF Claim
      <3>3. claims' = [claims EXCEPT ![worker.eni] = d]
        BY <1>3, <2>2 DEF Finalize, Store
      <3> HIDE DEF d
      <3> QED
        BY <1>2, <2>1, <3>1, <3>2, <3>3, ClaimAssumption
    <2> QED
      BY <1>1, <1>3, <2>2 DEF Finalize
  <1>4. CASE UpdateStatus
    <2>1. worker # Idle
      BY <1>4 DEF UpdateStatus, At
    <2>2. CASE claims[worker.eni] = worker.claim
      <3> DEFINE d == [worker.claim EXCEPT !.status = worker.phase]
      <3>1. /\ d \in Claim /\ d.machine = claims[worker.eni].machine
            /\ d.deleting = claims[worker.eni].deleting
        BY <1>0, <2>1, <2>2 DEF Claim
      <3>2. claims' = [claims EXCEPT ![worker.eni] = d]
        BY <1>4, <2>2 DEF UpdateStatus, Store
      <3> HIDE DEF d
      <3> QED
        BY <1>0, <1>2, <2>1, <2>2, <3>1, <3>2, ClaimAssumption
    <2> QED
      BY <1>1, <1>4, <2>2 DEF UpdateStatus
  <1>5. CASE Delete
    <2>1. /\ worker # Idle /\ At("delete")
          /\ claims[worker.eni] # NoClaim
          /\ worker.claim.machine = claims[worker.eni].machine
      BY <1>5 DEF Delete, At, WorkerIsCurrent, DeletesUnused, IsCopy
    <2> DEFINE d == AfterDelete(claims[worker.eni])
    <2>2. claims' = [claims EXCEPT ![worker.eni] = d]
      BY <1>5 DEF Delete, Store
    <2>3. d # NoClaim => d.machine = claims[worker.eni].machine
      BY <1>0, <2>1 DEF AfterDelete, Claim
    <2> HIDE DEF d
    <2> QED
      BY <1>0, <2>1, <2>2, <2>3 DEF Stays, Goes
  <1>6. CASE Unfinalize
    <2>1. worker # Idle
      BY <1>6 DEF Unfinalize, At
    <2> DEFINE d == AfterUnfinalize(claims[worker.eni])
    <2>2. claims' = [claims EXCEPT ![worker.eni] = d]
      BY <1>6 DEF Unfinalize, Store
    <2>3. CASE claims[worker.eni] = NoClaim
      BY <1>2, <2>1, <2>2, <2>3 DEF AfterUnfinalize
    <2>4. CASE claims[worker.eni] # NoClaim /\ ~claims[worker.eni].deleting
      <3>1. claims[worker.eni] \in Claim
        BY <1>0, <2>1, <2>4
      <3>2. d = [claims[worker.eni] EXCEPT !.finalizer = FALSE]
        BY <2>4 DEF AfterUnfinalize
      <3>3. /\ d \in Claim /\ d.machine = claims[worker.eni].machine
            /\ d.deleting = claims[worker.eni].deleting
        BY <3>1, <3>2 DEF Claim
      <3> HIDE DEF d
      <3> QED
        BY <1>2, <2>1, <2>2, <2>4, <3>3, ClaimAssumption
    <2>5. CASE claims[worker.eni] # NoClaim /\ claims[worker.eni].deleting
      BY <1>0, <2>1, <2>2, <2>5 DEF AfterUnfinalize, Stays, Goes
    <2> QED
      BY <2>3, <2>4, <2>5
  <1>7. CASE Check \/ SyncClaims \/ \E f \in ENI : Begin(f)
    BY <1>1, <1>7 DEF Check, SyncClaims, Begin, clusterVars
  <1> QED
    BY <1>3, <1>4, <1>5, <1>6, <1>7 DEF ControllerNext

(***************************************************************************)
(* A claim that is created, by whoever is not about a name of Later or is  *)
(* the AWSMachine reconciler itself.                                       *)
(***************************************************************************)
LEMMA StoreAppears ==
    ASSUME IInv, NEW f \in ENI, NEW m \in Machine, NEW p \in Pool,
           claims[f] = NoClaim, Store(f, NewClaim(m, p)),
           m \in Later => allocation # Idle /\ m = allocation.machine,
           NEW e \in ENI
    PROVE  Stays(e) \/ Appears(e)
  <1> DEFINE c == NewClaim(m, p)
  <1>1. c \in Claim /\ c.machine = m /\ ~c.deleting
    BY NewClaimTypes DEF NewClaim
  <1>2. claims' = [claims EXCEPT ![f] = c]
    BY DEF Store
  <1> HIDE DEF c
  <1> QED
    BY <1>1, <1>2, ClaimAssumption
       DEF IInv, Safe, TypeOK, ClusterTypeOK, Stays, Appears

LEMMA ClaimEffects ==
    ASSUME ManagerInv, [ManagerNext]_managerVars, NEW e \in ENI
    PROVE  Stays(e) \/ Appears(e) \/ Goes(e)
  <1> USE DEF ManagerInv
  <1>0. WebhookTypeOK
    BY DEF IInv, Safe, TypeOK
  <1>1. UNCHANGED claims => Stays(e)
    BY DEF Stays
  <1>2. ASSUME NEW r \in Request, RequestNext(r) \/ CreateFails(r)
        PROVE  Stays(e) \/ Appears(e)
    <2>1. CASE ~UNCHANGED claims
      <3>1. PICK f \in Lowest(requests[r].todo) :
               /\ Claiming(r)
               /\ claims[f] = NoClaim
               /\ Store(f, NewClaim(requests[r].machine, requests[r].pool))
        BY <1>2, <2>1 DEF RequestNext, ClaimNext, AlreadyExists, Exhausted,
           Persist, Abort, CreateFails, clusterVars
      <3>2. /\ requests[r].machine \in Machine
            /\ requests[r].machine \notin Later
            /\ requests[r].pool \in Pool
            /\ f \in ENI
        BY <1>0, <3>1, RequestFields DEF Apart, Claiming, Lowest
      <3> QED
        BY <3>1, <3>2, StoreAppears
    <2> QED
      BY <1>1, <2>1
  <1>3. CASE Allocates(CallFails) \/ Allocates(AllocatorNext)
    <2>1. ASSUME NEW f \in ENI, Reserves(f) PROVE Stays(e) \/ Appears(e)
      BY <2>1, AllocationFields, StoreAppears DEF Reserves, Allocating
    <2>2. \/ UNCHANGED vars \/ SyncMachines \/ Attaches
          \/ \E f \in ENI : Reserves(f)
      BY <1>3, AllocatorSteps DEF Allocates
    <2> QED
      BY <1>1, <2>1, <2>2 DEF vars, clusterVars, SyncMachines, Attaches
  <1>4. ASSUME NEW f \in ENI, GraceExpires(f) PROVE Stays(e)
    <2> DEFINE d == [claims[f] EXCEPT !.aged = TRUE]
    <2>1. /\ claims[f] \in Claim
          /\ claims' = [claims EXCEPT ![f] = d]
      BY <1>4 DEF GraceExpires, IInv, Safe, TypeOK, ClusterTypeOK
    <2>2. /\ d \in Claim /\ d.machine = claims[f].machine
          /\ d.deleting = claims[f].deleting
      BY <2>1 DEF Claim
    <2> HIDE DEF d
    <2> QED
      BY <2>1, <2>2, ClaimAssumption
         DEF Stays, IInv, Safe, TypeOK, ClusterTypeOK
  <1>5. CASE ControllerNext
    BY <1>5, ControllerEffects
  <1>6. CASE \/ UNCHANGED managerVars \/ LifeNext \/ PoolNext
             \/ ManagerRestart \/ WriteFails
             \/ \E m \in Machine \ Later : Bypass(m)
             \/ \E r \in Request, m \in Machine \ Later : Admit(r, m)
    <2>1. UNCHANGED claims
      BY <1>6 DEF managerVars, vars, clusterVars, LifeNext, CreatePaused,
         Leave, Remove, MachineGone, PoolNext, OperatorEditsPool,
         ManagerRestart, Restart, WriteFails, Bypass, Admit
    <2> QED
      BY <1>1, <2>1
  <1> QED
    BY <1>2, <1>3, <1>4, <1>5, <1>6
       DEF ManagerNext, StaticNext, ProcessNext, AdmissionNext,
       ManagerFaultNext

(***************************************************************************)
(* The informers show what they showed, or what is there now.              *)
(***************************************************************************)
LEMMA CacheEffects ==
    ASSUME ManagerInv, [ManagerNext]_managerVars
    PROVE  /\ \A e \in ENI : claimCache'[e] \in {claimCache[e], claims'[e]}
           /\ \/ UNCHANGED machineCache
              \/ UNCHANGED machines /\ machineCache' = Existing
  <1>1. CASE UNCHANGED <<claimCache, machineCache>>
    BY <1>1
  <1>2. ASSUME NEW r \in Request,
               \/ RequestNext(r) \/ CreateFails(r)
               \/ \E m \in Machine \ Later : Admit(r, m)
        PROVE  UNCHANGED <<claimCache, machineCache>>
    BY <1>2 DEF RequestNext, ClaimNext, AlreadyExists, Exhausted, Persist,
       Abort, CreateFails, Admit, clusterVars
  <1>3. CASE Allocates(CallFails) \/ Allocates(AllocatorNext)
    <2>1. \/ UNCHANGED vars \/ SyncMachines \/ Attaches
          \/ \E f \in ENI : Reserves(f)
      BY <1>3, AllocatorSteps DEF ManagerInv, Allocates
    <2> QED
      BY <2>1 DEF vars, clusterVars, SyncMachines, Attaches, Reserves
  <1>4. ASSUME NEW f \in ENI, GraceExpires(f)
        PROVE  /\ \A e \in ENI : claimCache'[e] \in {claimCache[e], claims'[e]}
               /\ UNCHANGED machineCache
    <2>1. claimCache[f] = claims[f]
      BY <1>4 DEF GraceExpires, Settled, ManagerInv, IInv, CacheIsComplete
    <2> QED
      BY <1>4, <2>1
         DEF GraceExpires, ManagerInv, IInv, Safe, TypeOK, ClusterTypeOK
  <1>5. CASE ControllerNext
    BY <1>5 DEF ControllerNext, Begin, Finalize, Check, Delete, UpdateStatus,
       Unfinalize, SyncClaims, clusterVars
  <1>6. CASE ManagerRestart
    BY <1>6 DEF ManagerRestart, Restart
  <1>7. CASE \/ UNCHANGED managerVars \/ LifeNext \/ PoolNext \/ WriteFails
             \/ \E m \in Machine \ Later : Bypass(m)
    BY <1>7 DEF managerVars, vars, clusterVars, LifeNext, CreatePaused,
       Leave, Remove, MachineGone, PoolNext, OperatorEditsPool, WriteFails,
       Bypass
  <1> QED
    BY <1>2, <1>3, <1>4, <1>5, <1>6, <1>7
       DEF ManagerNext, StaticNext, ProcessNext, AdmissionNext,
       ManagerFaultNext

(***************************************************************************)
(* The ENIClaim reconciler works for the AWSMachine of a claim that is     *)
(* there or in the informer, and turns to deletion only when the informer  *)
(* does not show the AWSMachine.                                           *)
(***************************************************************************)
WorksFor(m) == worker # Idle /\ worker.claim.machine = m

LEMMA WorkerEffects ==
    ASSUME ManagerInv, [ManagerNext]_managerVars, NEW m \in Machine,
           WorksFor(m)'
    PROVE  /\ \/ WorksFor(m)
              \/ \E e \in ENI : claims[e] # NoClaim /\ claims[e].machine = m
              \/ \E e \in ENI : /\ claimCache[e] # NoClaim
                                /\ claimCache[e].machine = m
           /\ At("delete")' =>
                 WorksFor(m) /\ (At("delete") \/ m \notin machineCache)
  <1> USE DEF WorksFor
  <1>0. /\ ControllerTypeOK
        /\ claims \in [ENI -> Claim \cup {NoClaim}]
        /\ worker # Idle => worker \in Work
    BY DEF ManagerInv, IInv, Safe, TypeOK, ControllerTypeOK, ClusterTypeOK
  <1>1. CASE UNCHANGED worker
    BY <1>1 DEF At
  <1>2. CASE worker' = Idle
    BY <1>2
  <1>3. ASSUME NEW e \in ENI, Begin(e)
        PROVE  /\ \/ UNCHANGED worker
                  \/ claimCache[e] # NoClaim /\ claimCache[e].machine = m
               /\ At("delete")' => UNCHANGED worker
    BY <1>3 DEF Begin, At, controllerVars
  <1>4. CASE Finalize /\ worker' # Idle
    <2>1. /\ worker \in Work /\ TakesFinalizer(claims[worker.eni])
          /\ claims' = [claims EXCEPT ![worker.eni].finalizer = TRUE]
          /\ worker' = [worker EXCEPT !.step = "check",
                                      !.claim = claims'[worker.eni]]
      BY <1>0, <1>4 DEF Finalize, Store, Requeue, At
    <2>2. claims[worker.eni] \in Claim /\ worker.eni \in ENI
      BY <1>0, <2>1 DEF TakesFinalizer, Work
    <2>3. /\ worker'.step = "check"
          /\ worker'.claim = [claims[worker.eni] EXCEPT !.finalizer = TRUE]
      BY <1>0, <2>1, <2>2 DEF Work
    <2>4. worker'.claim.machine = claims[worker.eni].machine
      BY <2>2, <2>3 DEF Claim
    <2> QED
      BY <2>2, <2>3, <2>4, ClaimAssumption DEF At
  <1>5. CASE Check /\ worker' # Idle
    <2>1. /\ worker # Idle /\ worker \in Work
          /\ \/ /\ worker' = [worker EXCEPT !.step = "delete"]
                /\ worker.claim.machine \notin machineCache
             \/ worker' = [worker EXCEPT !.step = "status"]
      BY <1>0, <1>5 DEF Check, MachineNotFound, Recheck, Resync, Requeue, At
    <2> QED
      BY <2>1 DEF At, Work
  <1>6. CASE ControllerNext
    <2>1. CASE Delete \/ UpdateStatus \/ Unfinalize
      BY <1>2, <2>1 DEF Delete, UpdateStatus, Unfinalize, Done, Requeue
    <2>2. CASE SyncClaims
      BY <1>1, <2>2 DEF SyncClaims
    <2> QED
      BY <1>1, <1>2, <1>3, <1>4, <1>5, <1>6, <2>1, <2>2 DEF ControllerNext
  <1>7. CASE ManagerRestart \/ WriteFails
    BY <1>2, <1>7 DEF ManagerRestart, Restart, WriteFails, Requeue
  <1>8. ASSUME NEW e \in ENI, GraceExpires(e)
        PROVE  WorksFor(m) /\ (At("delete")' => At("delete"))
    <2>1. TypeOK
      BY DEF ManagerInv, IInv, Safe
    <2>2. CASE Working(e)
      BY <1>8, <2>1, <2>2, WorkerAges DEF Working, At
    <2>3. CASE ~Working(e)
      BY <1>8, <2>1, <2>3, WorkerAges DEF At
    <2> QED
      BY <2>2, <2>3
  <1>9. CASE ~(\/ ControllerNext \/ ManagerRestart \/ WriteFails
               \/ \E e \in ENI : GraceExpires(e))
    <2>1. UNCHANGED controllerVars
      BY <1>9 DEF ManagerNext, StaticNext, LifeNext, CreatePaused, Leave,
         Remove, ProcessNext, Allocates, ManagerFaultNext,
         PoolNext, managerVars, vars
    <2> QED
      BY <1>1, <2>1 DEF controllerVars
  <1> QED
    BY <1>6, <1>7, <1>8, <1>9

(* An AWSMachine of Later appears only under a name that is forgotten. *)
LEMMA LifeEffects ==
    ASSUME ManagerInv, [ManagerNext]_managerVars, NEW m \in Later,
           machines'[m] # Absent
    PROVE  machines[m] # Absent \/ Forgotten(m)
  <1>0. /\ m \in Machine /\ AllocatorTypeOK /\ WebhookTypeOK
        /\ machines \in [Machine -> Attachment \cup {Absent}]
    BY LaterAssumption
       DEF ManagerInv, IInv, Safe, TypeOK, ClusterTypeOK
  <1>1. CASE UNCHANGED machines
    BY <1>1
  <1>2. CASE LifeNext
    BY <1>0, <1>2, LaterAssumption DEF LifeNext, CreatePaused, Leave, Remove, MachineGone,
       vars, clusterVars
  <1>3. CASE ControllerNext 
    BY <1>1, <1>3 DEF ControllerNext, Begin, Finalize, Check, Delete,
       UpdateStatus, Unfinalize, SyncClaims, clusterVars
  <1>4. CASE AdmissionNext
    <2>1. ASSUME NEW r \in Request, Persist(r) PROVE machines'[m] = machines[m]
      BY <1>0, <2>1 DEF Persist, Answered, ManagerInv, Apart
    <2>2. ASSUME NEW n \in Machine \ Later, Bypass(n)
          PROVE  machines'[m] = machines[m]
      BY <1>0, <2>2 DEF Bypass
    <2>3. CASE \/ \E r \in Request, n \in Machine \ Later : Admit(r, n)
               \/ \E r \in Request : \/ ClaimNext(r) \/ AlreadyExists(r)
                                     \/ Exhausted(r) \/ Abort(r)
      BY <1>1, <1>4, <2>3
         DEF Admit, ClaimNext, AlreadyExists, Exhausted, Abort, clusterVars
    <2> QED
      BY <1>4, <2>1, <2>2, <2>3 DEF AdmissionNext, RequestNext
  <1>5. CASE Allocates(CallFails) \/ Allocates(AllocatorNext)
    <2>1. \/ UNCHANGED vars \/ SyncMachines \/ Attaches
          \/ \E e \in ENI : Reserves(e)
      BY <1>0, <1>5, AllocatorSteps DEF Allocates
    <2>2. CASE Attaches
      BY <1>0, <1>5, <2>2 DEF Allocates, Attaches
    <2> QED
      BY <1>1, <1>5, <2>1, <2>2
         DEF Allocates, vars, clusterVars, SyncMachines, Reserves
  <1>6. CASE \/ UNCHANGED managerVars
             \/ ManagerFaultNext /\ ~Allocates(CallFails)
             \/ PoolNext \/ \E e \in ENI : GraceExpires(e)
    BY <1>1, <1>6 DEF managerVars, vars, clusterVars, ManagerFaultNext,
       ManagerRestart, Restart, CreateFails, WriteFails, GraceExpires,
       PoolNext, OperatorEditsPool
  <1> QED
    BY <1>2, <1>3, <1>4, <1>5, <1>6 DEF ManagerNext, StaticNext, ProcessNext

(* What the reconciliation of an AWSMachine was begun with. *)
LEMMA AllocationEffects ==
    ASSUME ManagerInv, [ManagerNext]_managerVars, allocation' # Idle
    PROVE  /\ \/ /\ allocation # Idle
                 /\ allocation'.machine = allocation.machine
              \/ /\ allocation'.machine \in Later
                 /\ allocation'.machine \in machineCache
           /\ Allocating("attach")' =>
                 LET e == allocation'.eni
                     m == allocation'.machine
                 IN  \/ UNCHANGED allocation
                     \/ /\ e \in ENI /\ claimCache[e] # NoClaim
                        /\ claimCache[e].machine = m
                        /\ UNCHANGED claims
                     \/ /\ e \in ENI /\ claims'[e] # NoClaim
                        /\ claims'[e].machine = m
  <1>0. /\ AllocatorTypeOK /\ Later \subseteq Machine
        /\ claims \in [ENI -> Claim \cup {NoClaim}]
    BY LaterAssumption
       DEF ManagerInv, IInv, Safe, TypeOK, ClusterTypeOK
  <1>1. CASE UNCHANGED allocation
    BY <1>1
  <1>2. ASSUME NEW m \in Machine, Allocate(m), ~UNCHANGED allocation
        PROVE  /\ allocation'.machine \in Later
               /\ allocation'.machine \in machineCache
               /\ Allocating("attach")' =>
                     \E e \in ENI : /\ allocation'.eni = e
                                    /\ claimCache[e] # NoClaim
                                    /\ claimCache[e].machine = m
                                    /\ allocation'.machine = m
                                    /\ UNCHANGED claims
    <2>1. m \in Waiting /\ allocation'.machine = m
      BY <1>2 DEF Allocate
    <2>2. m \in Later /\ m \in machineCache
      BY <2>1, MachineAssumption DEF Waiting, ManagerInv, Apart, Attachment
    <2>3. Allocating("attach")' =>
             \E e \in Held(m) : allocation'.eni = e
      BY <1>2 DEF Allocate, Allocating
    <2> QED
      BY <1>2, <2>1, <2>2, <2>3 DEF Held, Allocate, clusterVars
  <1>3. CASE ClaimInterface
    <2>1. PICK e \in Lowest(allocation.todo) :
             \/ /\ claims[e] = NoClaim
                /\ Store(e, NewClaim(allocation.machine, allocation.pool))
                /\ allocation' = [step |-> "attach",
                                  machine |-> allocation.machine, eni |-> e]
             \/ allocation' = [allocation EXCEPT !.todo = @ \ {e}]
      BY <1>3 DEF ClaimInterface
    <2>2. /\ allocation # Idle /\ allocation.step = "claim" /\ e \in ENI
          /\ allocation \in Allocation
          /\ allocation.machine \in Machine /\ allocation.pool \in Pool
      BY <1>0, <1>3, AllocationFields
         DEF ClaimInterface, Allocating, Lowest, AllocatorTypeOK
    <2>3. CASE allocation' = [allocation EXCEPT !.todo = @ \ {e}]
      BY <2>2, <2>3 DEF Allocation, Allocating
    <2>4. CASE /\ Store(e, NewClaim(allocation.machine, allocation.pool))
               /\ allocation' = [step |-> "attach",
                                 machine |-> allocation.machine, eni |-> e]
      <3>1. claims'[e] = NewClaim(allocation.machine, allocation.pool)
        BY <1>0, <2>2, <2>4 DEF Store
      <3>2. claims'[e] # NoClaim
        BY <2>2, <3>1, NewClaimTypes, ClaimAssumption
      <3>3. claims'[e].machine = allocation.machine
        BY <3>1 DEF NewClaim
      <3> QED
        BY <2>2, <2>4, <3>2, <3>3
    <2> QED
      BY <2>1, <2>3, <2>4
  <1>4. CASE PoolExhausted
    BY <1>4 DEF PoolExhausted, TryLater, Retry, Allocating
  <1>5. CASE Attach \/ DynamicFallback \/ MarkFailed \/ CallFails
    BY <1>1, <1>5
       DEF Attach, DynamicFallback, MarkFailed, CallFails, Finish, Retry
  <1>6. CASE SyncMachineInformer
    BY <1>1, <1>6 DEF SyncMachineInformer
  <1>7. CASE Allocates(AllocatorNext)
    BY <1>1, <1>2, <1>3, <1>4, <1>5, <1>6, <1>7 DEF Allocates, AllocatorNext
  <1>8. CASE ~(Allocates(AllocatorNext) \/ Allocates(CallFails))
    <2>1. UNCHANGED allocation \/ allocation' = Idle
      BY <1>8 DEF ManagerNext, StaticNext, LifeNext, CreatePaused, Leave,
         Remove, ProcessNext, ManagerFaultNext, ManagerRestart,
         allocatorVars, managerVars
    <2> QED
      BY <1>1, <2>1
  <1> QED
    BY <1>5, <1>7, <1>8 DEF Allocates

-----------------------------------------------------------------------------
(***************************************************************************)
(* An AWSMachine that the informer does not show stays untouched.          *)
(***************************************************************************)
LEMMA UntouchedNext ==
    ASSUME ManagerInv, [ManagerNext]_managerVars,
           NEW m \in Later, m \notin machineCache, Untouched(m)
    PROVE  Untouched(m)'
  <1>1. \A e \in ENI : claims'[e] # NoClaim => claims'[e].machine # m
    BY ClaimEffects DEF Stays, Appears, Goes, Untouched
  <1>2. \A e \in ENI : claimCache'[e] # NoClaim => claimCache'[e].machine # m
    BY <1>1, CacheEffects DEF Untouched
  <1>3. worker' # Idle => worker'.claim.machine # m
    BY WorkerEffects, LaterAssumption DEF WorksFor, Untouched
  <1>4. allocation' # Idle => allocation'.machine # m
    BY AllocationEffects DEF Untouched
  <1> QED
    BY <1>1, <1>2, <1>3, <1>4 DEF Untouched

(* A new AWSMachine, or one that the informer does not show, is untouched. *)
LEMMA Unseen ==
    ASSUME ManagerInv, [ManagerNext]_managerVars, NEW m \in Later,
           machines'[m] # Absent,
           machines[m] = Absent \/ m \notin machineCache
    PROVE  m \notin machineCache /\ Untouched(m) /\ Untouched(m)'
  <1>1. m \notin machineCache /\ Untouched(m)
    BY LifeEffects DEF ManagerInv, SeenBeforeClaimed, Forgotten
  <1> QED
    BY <1>1, UntouchedNext

LEMMA SeenNext ==
    ASSUME ManagerInv, [ManagerNext]_managerVars
    PROVE  SeenBeforeClaimed'
  <1> SUFFICES ASSUME NEW m \in Later, machines'[m] # Absent
               PROVE  m \in machineCache' \/ Untouched(m)'
    BY DEF SeenBeforeClaimed
  <1>1. CASE m \in machineCache
    BY <1>1, CacheEffects, LaterAssumption DEF Existing
  <1>2. CASE m \notin machineCache
    BY <1>2, Unseen
  <1> QED
    BY <1>1, <1>2

(***************************************************************************)
(* A claim of an AWSMachine of Later stays as long as the AWSMachine is    *)
(* there: nobody is about to delete it, and it is not being deleted.       *)
(***************************************************************************)
LEMMA ServedStays ==
    ASSUME ManagerInv, [ManagerNext]_managerVars,
           NEW e \in ENI, NEW m \in Later, machines[m] # Absent,
           claims[e] # NoClaim, claims[e].machine = m
    PROVE  /\ claims'[e] # NoClaim /\ claims'[e].machine = m
           /\ ~claims'[e].deleting
  BY ClaimEffects DEF Stays, Appears, Goes, ManagerInv, ClaimsServe

LEMMA ServeNext ==
    ASSUME ManagerInv, [ManagerNext]_managerVars
    PROVE  ClaimsServe'
  <1> SUFFICES
        ASSUME NEW m \in Later, machines'[m] # Absent
        PROVE  /\ At("delete")' => worker'.claim.machine # m
               /\ \A e \in ENI :
                     /\ claims'[e] # NoClaim /\ claims'[e].machine = m =>
                           ~claims'[e].deleting
                     /\ claimCache'[e] # NoClaim /\ claimCache'[e].machine = m
                           => /\ claims'[e] # NoClaim
                              /\ claims'[e].machine = m
                              /\ ~claimCache'[e].deleting
    BY DEF ClaimsServe
  <1>1. CASE machines[m] = Absent
    <2>1. Untouched(m)'
      BY <1>1, Unseen
    <2> QED
      BY <2>1 DEF Untouched, At
  <1>2. CASE machines[m] # Absent
    <2>1. At("delete")' => worker'.claim.machine # m
      <3> SUFFICES ASSUME At("delete")', worker'.claim.machine = m
                   PROVE  FALSE
        OBVIOUS
      <3>1. WorksFor(m) /\ (At("delete") \/ m \notin machineCache)
        BY WorkerEffects, LaterAssumption DEF WorksFor, At
      <3> QED
        BY <1>2, <3>1 DEF ManagerInv, ClaimsServe, SeenBeforeClaimed,
           Untouched, WorksFor
    <2>2. ASSUME NEW e \in ENI, claims'[e] # NoClaim, claims'[e].machine = m
          PROVE  ~claims'[e].deleting
      BY <1>2, <2>2, ClaimEffects
         DEF Stays, Appears, Goes, ManagerInv, ClaimsServe
    <2>3. ASSUME NEW e \in ENI,
                 claimCache'[e] # NoClaim, claimCache'[e].machine = m
          PROVE  /\ claims'[e] # NoClaim /\ claims'[e].machine = m
                 /\ ~claimCache'[e].deleting
      <3>1. CASE claimCache'[e] = claims'[e]
        BY <2>2, <2>3, <3>1
      <3>2. CASE claimCache'[e] = claimCache[e]
        BY <1>2, <2>3, <3>2, ServedStays DEF ManagerInv, ClaimsServe
      <3> QED
        BY <3>1, <3>2, CacheEffects
    <2> QED
      BY <2>1, <2>2, <2>3
  <1> QED
    BY <1>1, <1>2

LEMMA AttachesNext ==
    ASSUME ManagerInv, [ManagerNext]_managerVars
    PROVE  AttachesOwn'
  <1> DEFINE m == allocation'.machine
             e == allocation'.eni
  <1> SUFFICES ASSUME Allocating("attach")', machines'[m] # Absent
               PROVE  claims'[e] # NoClaim /\ claims'[e].machine = m
    BY DEF AttachesOwn
  <1>1. m \in Later /\ e \in ENI /\ allocation' # Idle
    <2>1. AllocatorTypeOK'
      BY AllocatorTypeNext DEF ManagerInv, IInv, Safe
    <2>2. allocation' # Idle /\ e \in ENI
      BY <2>1 DEF AllocatorTypeOK, Allocation, Allocating
    <2> QED
      BY <2>2, AllocationEffects DEF ManagerInv, Apart
  <1>2. machines[m] # Absent
    BY <1>1, Unseen DEF Untouched
  <1>3. CASE UNCHANGED allocation
    BY <1>1, <1>2, <1>3, ServedStays DEF ManagerInv, AttachesOwn, Allocating
  <1>4. CASE claimCache[e] # NoClaim /\ claimCache[e].machine = m
    BY <1>1, <1>2, <1>4, ServedStays DEF ManagerInv, ClaimsServe
  <1> QED
    BY <1>1, <1>3, <1>4, AllocationEffects

(***************************************************************************)
(* Each way keeps to its AWSMachines.                                      *)
(***************************************************************************)
LEMMA RequestsApart ==
    ASSUME ManagerInv, [ManagerNext]_managerVars,
           NEW r \in Request, requests'[r] # Idle
    PROVE  requests'[r].machine \notin Later
  <1>0. /\ \A s \in Request : requests[s] # Idle =>
                                requests[s].machine \notin Later
        /\ requests \in [Request -> Admission \cup {Idle}]
    BY DEF ManagerInv, Apart, IInv, Safe, TypeOK, WebhookTypeOK
  <1>1. CASE UNCHANGED requests
    BY <1>0, <1>1
  <1>2. ASSUME NEW s \in Request, NEW q, requests' = [requests EXCEPT ![s] = q],
               q = Idle \/ q.machine \notin Later
        PROVE  requests'[r].machine \notin Later
    BY <1>0, <1>2
  <1>3. ASSUME NEW s \in Request, requests[s] # Idle,
               RequestNext(s) \/ CreateFails(s)
        PROVE  requests'[r].machine \notin Later
    <2>1. CASE Claiming(s) /\ \E grant : Answer(s, grant)
      BY <1>0, <1>2, <2>1, <1>3 DEF Answer
    <2>2. CASE requests' = [requests EXCEPT ![s] = Idle]
      BY <1>2, <2>2
    <2>3. ASSUME Claiming(s),
                 \/ \E t : requests' = [requests EXCEPT ![s].todo = t]
                 \/ requests' = [requests EXCEPT ![s].live = FALSE]
          PROVE  requests'[r].machine \notin Later
      <3>1. /\ requests[s] \in Admission /\ requests[s].step = "claiming"
            /\ requests[s].machine \notin Later
        BY <1>0, <2>3 DEF Claiming
      <3>2. /\ \A t : [requests[s] EXCEPT !.todo = t].machine =
                          requests[s].machine
            /\ [requests[s] EXCEPT !.live = FALSE].machine =
                  requests[s].machine
        BY <3>1 DEF Admission
      <3>3. ASSUME NEW t, requests' = [requests EXCEPT ![s].todo = t]
            PROVE  requests'[r].machine \notin Later
        <4>1. requests' = [requests EXCEPT ![s] = [requests[s] EXCEPT !.todo = t]]
          BY <3>3
        <4> QED
          BY <1>2, <3>1, <3>2, <4>1
      <3>4. ASSUME requests' = [requests EXCEPT ![s].live = FALSE]
            PROVE  requests'[r].machine \notin Later
        <4>1. requests' = [requests EXCEPT ![s] =
                              [requests[s] EXCEPT !.live = FALSE]]
          BY <3>4
        <4> QED
          BY <1>2, <3>1, <3>2, <4>1
      <3> QED
        BY <2>3, <3>3, <3>4
    <2> QED
      BY <1>3, <2>1, <2>2, <2>3 DEF RequestNext, ClaimNext, AlreadyExists,
         Exhausted, Persist, Abort, CreateFails
  <1>4. ASSUME NEW s \in Request, NEW m \in Machine \ Later, Admit(s, m)
        PROVE  requests'[r].machine \notin Later
    BY <1>2, <1>4 DEF Admit
  <1>5. ASSUME NEW s \in Request, RequestNext(s) \/ CreateFails(s)
        PROVE  requests[s] # Idle
    BY <1>5 DEF RequestNext, ClaimNext, AlreadyExists, Exhausted, Persist,
       Abort, CreateFails, Claiming, Answered
  <1>6. CASE ManagerRestart
    BY <1>0, <1>6 DEF ManagerRestart, Restart
  <1>7. ASSUME NEW m \in Machine \ Later, Bypass(m)
        PROVE  UNCHANGED requests
    BY <1>7 DEF Bypass
  <1>8. CASE ~(\/ AdmissionNext \/ ManagerRestart
               \/ \E s \in Request : CreateFails(s))
    <2>1. UNCHANGED requests
      BY <1>8 DEF ManagerNext, StaticNext, LifeNext, CreatePaused, Leave,
         Remove, ProcessNext, Allocates, ManagerFaultNext, GraceExpires,
         PoolNext, managerVars, vars
    <2> QED
      BY <1>1, <2>1
  <1> QED
    BY <1>1, <1>3, <1>4, <1>5, <1>6, <1>7, <1>8 DEF AdmissionNext

(* The informer's two views of the AWSMachines agree; only names of Later  *)
(* are paused for the allocator.                                           *)
LEMMA SeenApart ==
    ASSUME ManagerInv, [ManagerNext]_managerVars
    PROVE  /\ paused' \subseteq Later /\ seen'.paused \subseteq Later
           /\ machineCache' = {m \in Machine : seen'.machines[m] # Absent}
  <1>0. /\ paused \subseteq Later /\ seen.paused \subseteq Later
        /\ machineCache = {m \in Machine : seen.machines[m] # Absent}
    BY DEF ManagerInv, Apart
  <1>1. CASE UNCHANGED <<seen, machineCache>> /\ paused' \subseteq Later
    BY <1>0, <1>1
  <1>2. CASE /\ seen' = Now /\ machineCache' = Existing
             /\ UNCHANGED <<machines, paused>>
    BY <1>0, <1>2 DEF Now, Existing
  <1>3. CASE LifeNext
    BY <1>0, <1>1, <1>3 DEF LifeNext, CreatePaused, Leave, Remove, MachineGone,
       vars, clusterVars, allocatorVars
  <1>4. CASE Allocates(CallFails) \/ Allocates(AllocatorNext)
    <2>1. CASE SyncMachineInformer
      BY <1>2, <2>1 DEF SyncMachineInformer
    <2>2. CASE \/ \E m \in Machine : Allocate(m)
               \/ ClaimInterface \/ PoolExhausted \/ CallFails
               \/ Attach \/ DynamicFallback \/ MarkFailed
      BY <1>0, <1>1, <2>2 DEF Allocate, ClaimInterface, PoolExhausted, Attach,
         DynamicFallback, MarkFailed, CallFails, clusterVars
    <2> QED
      BY <1>4, <2>1, <2>2 DEF Allocates, AllocatorNext
  <1>5. CASE ManagerRestart
    BY <1>2, <1>5 DEF ManagerRestart, Restart
  <1>6. CASE ~(\/ LifeNext \/ ManagerRestart
               \/ Allocates(CallFails) \/ Allocates(AllocatorNext))
    <2>1. UNCHANGED allocatorVars
      BY <1>6 DEF ManagerNext, StaticNext, ProcessNext, ManagerFaultNext,
         managerVars
    <2>2. UNCHANGED machineCache
      <3>1. CASE ControllerNext \/ WriteFails
        BY <3>1 DEF ControllerNext, Begin, Finalize, Check, Delete,
           UpdateStatus, Unfinalize, SyncClaims, WriteFails, clusterVars
      <3>2. CASE AdmissionNext \/ \E r \in Request : CreateFails(r)
        BY <3>2 DEF AdmissionNext, Bypass, Admit, RequestNext, ClaimNext,
           AlreadyExists, Exhausted, Persist, Abort, CreateFails, clusterVars
      <3>3. CASE \/ \E e \in ENI : GraceExpires(e)
                 \/ PoolNext \/ UNCHANGED managerVars
        BY <3>3 DEF GraceExpires, PoolNext, OperatorEditsPool, managerVars,
           vars, clusterVars
      <3> QED
        BY <1>6, <3>1, <3>2, <3>3
           DEF ManagerNext, StaticNext, ProcessNext, ManagerFaultNext
    <2> QED
      BY <1>0, <1>1, <2>1, <2>2 DEF allocatorVars
  <1> QED
    BY <1>3, <1>4, <1>5, <1>6

LEMMA ApartNext ==
    ASSUME ManagerInv, [ManagerNext]_managerVars
    PROVE  Apart'
  <1>1. allocation' # Idle => allocation'.machine \in Later
    BY AllocationEffects DEF ManagerInv, Apart
  <1> QED
    BY <1>1, RequestsApart, SeenApart DEF Apart

-----------------------------------------------------------------------------
LEMMA ManagerInvInit == ManagerInit => ManagerInv
  <1> SUFFICES ASSUME ManagerInit PROVE ManagerInv
    OBVIOUS
  <1>1. IInv
    BY SafeInit
       DEF ManagerInit, IInv, CacheIsComplete, Init, ClusterInit
  <1>2. /\ \A e \in ENI : claims[e] = NoClaim /\ claimCache[e] = NoClaim
        /\ \A m \in Machine : machines[m] = Absent
        /\ \A r \in Request : requests[r] = Idle
        /\ machineCache = {} /\ worker = Idle /\ allocation = Idle
        /\ paused = {} /\ seen = Now
        /\ failed = {} /\ leaving = {} /\ backlog = {}
    BY DEF ManagerInit, Init, ClusterInit, WebhookInit, ControllerInit,
       AllocatorInit
  <1>3. TypeOK
    BY <1>1 DEF IInv, Safe
  <1>4. AllocatorTypeOK
    BY <1>2, <1>3 DEF AllocatorTypeOK, Now, TypeOK, ClusterTypeOK
  <1>5. \A m \in Later : m \in Machine /\ Untouched(m)
    BY <1>2, LaterAssumption DEF Untouched
  <1>6. SeenBeforeClaimed /\ ClaimsServe /\ AttachesOwn
    BY <1>2, <1>5 DEF SeenBeforeClaimed, ClaimsServe, AttachesOwn, Allocating
  <1>7. Apart
    BY <1>2 DEF Apart, Now
  <1> QED
    BY <1>1, <1>2, <1>4, <1>6, <1>7 DEF ManagerInv

LEMMA ManagerInvNext ==
    ManagerInv /\ [ManagerNext]_managerVars => ManagerInv'
  <1> SUFFICES ASSUME ManagerInv, [ManagerNext]_managerVars
               PROVE  ManagerInv'
    OBVIOUS
  <1>1. TypeOK
    BY DEF ManagerInv, IInv, Safe
  <1>2. AllocatorTypeOK'
    BY <1>1, AllocatorTypeNext DEF ManagerInv
  <1> QED
    BY <1>2, AllocatorInvNext, SeenNext, ServeNext, AttachesNext,
       ApartNext DEF ManagerInv

(***************************************************************************)
(* THE INVARIANT of the manager: its webhook and its two reconcilers, over *)
(* all their interleavings, faults, restarts and changes of pools.         *)
(***************************************************************************)
THEOREM ManagerSafety == ManagerSpec => []ManagerInv
  BY ManagerInvInit, ManagerInvNext, PTL DEF ManagerSpec

(***************************************************************************)
(* THE TYPES.  Every object, request and reconciliation of the manager     *)
(* always has its shape.                                                   *)
(***************************************************************************)
THEOREM ManagerTypeCorrect == ManagerSpec => []ManagerTypeOK
  <1>1. ManagerInv => ManagerTypeOK
    BY DEF ManagerInv, ManagerTypeOK, IInv, Safe
  <1> QED
    BY <1>1, ManagerSafety, PTL

(***************************************************************************)
(* An interface that the AWSMachine reconciler claimed for an AWSMachine   *)
(* stays claimed for it as long as the AWSMachine exists, whatever the     *)
(* informers of the two reconcilers show and whenever its patch arrives.   *)
(***************************************************************************)
THEOREM ClaimsAreKept == ManagerSpec => ClaimsKept
  <1>1. ManagerInv /\ [ManagerNext]_managerVars =>
          [\A e \in ENI, m \in Later :
              /\ claims[e] # NoClaim /\ claims[e].machine = m
              /\ machines[m] # Absent /\ machines'[m] # Absent
              => /\ claims'[e] # NoClaim /\ claims'[e].machine = m
                 /\ ~claims'[e].deleting]_managerVars
    BY ServedStays
  <1> QED
    BY <1>1, ManagerSafety, PTL DEF ManagerSpec, ClaimsKept

(***************************************************************************)
(* No two AWSMachines are ever given the same interface, although two      *)
(* processes, each with its own copy of the candidates' loop, hand the     *)
(* interfaces out.                                                         *)
(***************************************************************************)
THEOREM ManagersShareNoInterface == ManagerSpec => []Exclusive
  <1>1. ManagerInv => Exclusive
    BY DEF ManagerInv, IInv, Safe, MachineHoldsClaim, Exclusive
  <1> QED
    BY <1>1, ManagerSafety, PTL

-----------------------------------------------------------------------------
(***************************************************************************)
(* Every step of the manager is a step of ENIReservation, or leaves it     *)
(* alone: those of the AWSMachine reconciler reserve and attach.           *)
(***************************************************************************)
LEMMA ReservesRefines ==
    ASSUME IInv, AllocatorTypeOK, NEW e \in ENI, Reserves(e)
    PROVE  Reservation!Next
  <1>1. NewClaim(allocation.machine, allocation.pool) \in Claim
    BY AllocationFields, NewClaimTypes DEF Reserves, Allocating
  <1> QED
    BY <1>1, ClaimReserves
       DEF Reserves, Store, IInv, Safe, TypeOK, ClusterTypeOK

LEMMA AttachesRefines ==
    ASSUME ManagerInv, Attaches
    PROVE  Reservation!Next
  <1> DEFINE m == allocation.machine
             e == allocation.eni
  <1>1. /\ m \in Machine /\ e \in ENI /\ machines[m] # Absent
        /\ claims[e] # NoClaim /\ claims[e].machine = m
    BY AllocationFields
       DEF ManagerInv, Attaches, Allocating, AttachesOwn
  <1>2. Reservation!Attach(m, e)
    BY <1>1 DEF Attaches, Reservation!Attach
  <1> QED
    BY <1>1, <1>2 DEF Reservation!Next

LEMMA ManagerStepRefines ==
    ManagerInv /\ [ManagerNext]_managerVars =>
        [Reservation!Next]_(Reservation!vars)
  <1> SUFFICES ASSUME ManagerInv, [ManagerNext]_managerVars
               PROVE  [Reservation!Next]_(Reservation!vars)
    OBVIOUS
  <1>1. CASE [Next]_vars
    BY <1>1, StepRefines DEF ManagerInv
  <1> QED
    BY <1>1, Steps, ReservesRefines, AttachesRefines DEF ManagerInv

(***************************************************************************)
(* THE REFINEMENT.  The manager implements ENIReservation: an AWSMachine   *)
(* gets an interface, from the webhook as it is created or from the        *)
(* AWSMachine reconciler later, only after it was reserved for it.         *)
(***************************************************************************)
THEOREM ManagerRefinement == ManagerSpec => ImplementsReservation
  <1>1. ManagerInit => Reservation!Init
    BY InitRefines DEF ManagerInit
  <1> QED
    BY <1>1, ManagerStepRefines, ManagerSafety, PTL
       DEF ManagerSpec, ImplementsReservation, Reservation!Spec

-----------------------------------------------------------------------------
(***************************************************************************)
(* The pool's policy: nobody changes pools.                                *)
(***************************************************************************)
LEMMA PoolsStatic == [StaticNext]_managerVars => UNCHANGED pools
  <1> SUFFICES ASSUME [StaticNext]_managerVars PROVE UNCHANGED pools
    OBVIOUS
  <1>1. CASE LifeNext
    BY <1>1 DEF LifeNext, CreatePaused, Leave, Remove, MachineGone, vars,
       clusterVars
  <1>2. CASE ControllerNext \/ WriteFails
    BY <1>2 DEF ControllerNext, Begin, Finalize, Check, Delete, UpdateStatus,
       Unfinalize, SyncClaims, WriteFails, clusterVars
  <1>3. CASE AdmissionNext \/ \E r \in Request : CreateFails(r)
    BY <1>3 DEF AdmissionNext, Bypass, Admit, RequestNext, ClaimNext,
       AlreadyExists, Exhausted, Persist, Abort, CreateFails, clusterVars
  <1>4. CASE AllocatorNext \/ CallFails
    BY <1>4 DEF AllocatorNext, Allocate, ClaimInterface, PoolExhausted,
       Attach, DynamicFallback, MarkFailed, SyncMachineInformer, CallFails,
       clusterVars
  <1>5. CASE \/ ManagerRestart \/ UNCHANGED managerVars
             \/ \E e \in ENI : GraceExpires(e)
    BY <1>5 DEF ManagerRestart, Restart, GraceExpires, managerVars, vars,
       clusterVars
  <1> QED
    BY <1>1, <1>2, <1>3, <1>4, <1>5
       DEF StaticNext, ProcessNext, Allocates, ManagerFaultNext

(* Only the fallback releases an AWSMachine that shows no interface. *)
LEMMA PausedEffects ==
    ASSUME ManagerInv, [ManagerNext]_managerVars, NEW m \in Later,
           machines'[m] = Dynamic, m \notin paused'
    PROVE  \/ machines[m] = Dynamic /\ m \notin paused
           \/ Allocating("fallback") /\ m = allocation.machine
  <1>0. /\ m \in Machine /\ AllocatorTypeOK
        /\ machines \in [Machine -> Attachment \cup {Absent}]
        /\ Dynamic # Absent /\ Dynamic \notin ENI
    BY LaterAssumption, MachineAssumption
       DEF ManagerInv, IInv, Safe, TypeOK, ClusterTypeOK, Attachment
  <1>1. CASE UNCHANGED <<machines, paused>>
    BY <1>1
  <1>2. CASE LifeNext
    BY <1>0, <1>2 DEF LifeNext, CreatePaused, Leave, Remove, MachineGone,
       vars, clusterVars, allocatorVars
  <1>3. CASE ControllerNext /\ UNCHANGED allocatorVars
    BY <1>1, <1>3 DEF ControllerNext, Begin, Finalize, Check, Delete,
       UpdateStatus, Unfinalize, SyncClaims, clusterVars, allocatorVars
  <1>4. CASE AdmissionNext /\ UNCHANGED allocatorVars
    <2>1. ASSUME NEW r \in Request, Persist(r) PROVE machines'[m] = machines[m]
      BY <1>0, <2>1 DEF Persist, Answered, ManagerInv, Apart
    <2>2. ASSUME NEW n \in Machine \ Later, Bypass(n)
          PROVE  machines'[m] = machines[m]
      BY <1>0, <2>2 DEF Bypass
    <2>3. CASE \/ \E r \in Request, n \in Machine \ Later : Admit(r, n)
               \/ \E r \in Request : \/ ClaimNext(r) \/ AlreadyExists(r)
                                     \/ Exhausted(r) \/ Abort(r)
      BY <1>1, <1>4, <2>3 DEF Admit, ClaimNext, AlreadyExists, Exhausted,
         Abort, clusterVars, allocatorVars
    <2> QED
      BY <1>4, <2>1, <2>2, <2>3 DEF AdmissionNext, RequestNext, allocatorVars
  <1>5. CASE Allocates(CallFails) \/ Allocates(AllocatorNext)
    <2>1. CASE Attach
      BY <1>0, <2>1, AllocationFields DEF Attach, Allocating
    <2>2. CASE DynamicFallback
      BY <2>2 DEF DynamicFallback, clusterVars
    <2>3. CASE \/ \E n \in Machine : Allocate(n)
               \/ ClaimInterface \/ PoolExhausted \/ CallFails
               \/ MarkFailed \/ SyncMachineInformer
      BY <1>1, <2>3 DEF Allocate, ClaimInterface, PoolExhausted, MarkFailed,
         SyncMachineInformer, CallFails, clusterVars
    <2> QED
      BY <1>5, <2>1, <2>2, <2>3 DEF Allocates, AllocatorNext
  <1>6. CASE \/ UNCHANGED managerVars
             \/ ManagerFaultNext /\ ~Allocates(CallFails)
             \/ \E e \in ENI : GraceExpires(e) /\ UNCHANGED allocatorVars
             \/ PoolNext /\ UNCHANGED allocatorVars
    BY <1>1, <1>6 DEF managerVars, vars, clusterVars, allocatorVars,
       ManagerFaultNext, ManagerRestart, Restart, CreateFails, WriteFails,
       GraceExpires, PoolNext, OperatorEditsPool
  <1> QED
    BY <1>2, <1>3, <1>4, <1>5, <1>6 DEF ManagerNext, StaticNext, ProcessNext

(* What a reconciliation that tries candidates, or falls back, goes by. *)
LEMMA DecisionEffects ==
    ASSUME ManagerInv, PolicyInv, [StaticNext]_managerVars
    PROVE  /\ Allocating("claim")' =>
                 /\ Matches(NetworkOf[allocation'.machine]) = {allocation'.pool}
                 /\ pools[allocation'.pool].policy = allocation'.policy
           /\ Allocating("fallback")' => MayGo(allocation'.machine)
  <1>0. /\ AllocatorTypeOK
        /\ allocation # Idle => allocation \in Allocation
    BY DEF ManagerInv, AllocatorTypeOK
  <1> USE DEF PolicyInv
  <1>1. CASE UNCHANGED allocation \/ allocation' = Idle
    BY <1>1 DEF Allocating
  <1>2. ASSUME NEW m \in Machine, Allocate(m), ~UNCHANGED allocation
        PROVE  /\ Allocating("claim")' =>
                     /\ Matches(NetworkOf[allocation'.machine]) =
                           {allocation'.pool}
                     /\ pools[allocation'.pool].policy = allocation'.policy
               /\ Allocating("fallback")' =>
                     Matches(NetworkOf[allocation'.machine]) = {}
    BY <1>2 DEF Allocate, Allocating
  <1>3. CASE ClaimInterface
    <2>1. PICK e : \/ allocation' = [step |-> "attach",
                          machine |-> allocation.machine, eni |-> e]
                   \/ allocation' = [allocation EXCEPT !.todo = @ \ {e}]
      BY <1>3 DEF ClaimInterface
    <2>2. allocation \in Allocation /\ allocation.step = "claim"
      BY <1>0, <1>3 DEF ClaimInterface, Allocating
    <2>3. CASE allocation' = [allocation EXCEPT !.todo = @ \ {e}]
      <3>1. /\ allocation'.step = "claim"
            /\ allocation'.machine = allocation.machine
            /\ allocation'.pool = allocation.pool
            /\ allocation'.policy = allocation.policy
        BY <2>2, <2>3 DEF Allocation
      <3> QED
        BY <1>3, <3>1 DEF ClaimInterface, Allocating
    <2> QED
      BY <2>1, <2>3 DEF Allocating
  <1>4. CASE PoolExhausted /\ ~UNCHANGED allocation
    <2>1. /\ Matches(NetworkOf[allocation.machine]) = {allocation.pool}
          /\ pools[allocation.pool].policy = allocation.policy
          /\ allocation.policy \in Policy
      BY <1>0, <1>4, AllocationFields DEF PoolExhausted
    <2>2. CASE allocation' = [step |-> "fallback",
                              machine |-> allocation.machine]
               /\ allocation.policy \notin {"Fail", "Wait"}
      BY <2>1, <2>2 DEF Allocating, MayGo, Policy
    <2>3. CASE allocation' = [step |-> "fail", machine |-> allocation.machine]
      BY <2>3 DEF Allocating
    <2> QED
      BY <1>1, <1>4, <2>2, <2>3 DEF PoolExhausted, Waits, TryLater, Retry
  <1>5. CASE Attach \/ DynamicFallback \/ MarkFailed \/ CallFails
    BY <1>1, <1>5
       DEF Attach, DynamicFallback, MarkFailed, CallFails, Finish, Retry
  <1>6. CASE SyncMachineInformer
    BY <1>1, <1>6 DEF SyncMachineInformer
  <1>7. CASE Allocates(AllocatorNext)
    BY <1>1, <1>2, <1>3, <1>4, <1>5, <1>6, <1>7
       DEF Allocates, AllocatorNext, MayGo
  <1>8. CASE ~(Allocates(AllocatorNext) \/ Allocates(CallFails))
    <2>1. UNCHANGED allocation \/ allocation' = Idle
      BY <1>8 DEF StaticNext, LifeNext, CreatePaused, Leave, Remove,
         ProcessNext, ManagerFaultNext, ManagerRestart, allocatorVars,
         managerVars
    <2> QED
      BY <1>1, <2>1
  <1> QED
    BY <1>5, <1>7, <1>8 DEF Allocates

LEMMA PolicyNext ==
    ManagerInv /\ PolicyInv /\ [StaticNext]_managerVars => PolicyInv'
  <1> SUFFICES ASSUME ManagerInv, PolicyInv, [StaticNext]_managerVars
               PROVE  PolicyInv'
    OBVIOUS
  <1>1. UNCHANGED pools /\ [ManagerNext]_managerVars
    BY PoolsStatic DEF ManagerNext
  <1>2. \A n : Matches(n)' = Matches(n)
    BY <1>1 DEF Matches
  <1>3. \A m : MayGo(m)' <=> MayGo(m)
    BY <1>1, <1>2 DEF MayGo
  <1>4. ASSUME NEW m \in Later, machines'[m] = Dynamic, m \notin paused'
        PROVE  MayGo(m)
    BY <1>1, <1>4, PausedEffects DEF PolicyInv
  <1> QED
    BY <1>1, <1>2, <1>3, <1>4, DecisionEffects DEF PolicyInv, Allocating

(***************************************************************************)
(* As long as nobody changes pools, a reconciliation goes by what its      *)
(* network's pool says now, however long ago it read the pool, and the     *)
(* AWSMachines that show no interface were released by such a one.         *)
(***************************************************************************)
THEOREM PolicySafety == StaticSpec => [](ManagerInv /\ PolicyInv)
  <1>1. ManagerInit => ManagerInv /\ PolicyInv
    <2>1. ManagerInit => PolicyInv
      BY MachineAssumption, LaterAssumption
         DEF ManagerInit, Init, ClusterInit, AllocatorInit, PolicyInv,
         Allocating, Attachment
    <2> QED
      BY <2>1, ManagerInvInit
  <1>2. ManagerInv /\ [StaticNext]_managerVars => ManagerInv'
    BY ManagerInvNext DEF ManagerNext
  <1> QED
    BY <1>1, <1>2, PolicyNext, PTL DEF StaticSpec

(***************************************************************************)
(* As long as nobody changes pools, an AWSMachine that its pool's policy   *)
(* keeps waiting, or calls failed, is never released to CAPA without an    *)
(* interface, whatever calls fail and whatever the informers show.         *)
(***************************************************************************)
THEOREM PolicyIsKept == StaticSpec => []PolicyKept
  <1>1. PolicyInv => PolicyKept
    BY DEF PolicyInv, PolicyKept, MayGo
  <1> QED
    BY <1>1, PolicySafety, PTL

-----------------------------------------------------------------------------
(***************************************************************************)
(* No claim is lost sight of in the manager either.                        *)
(***************************************************************************)
LEMMA ManagerWakeNext ==
    ASSUME ManagerInv, WakeInv, [ManagerNext]_managerVars
    PROVE  WakeInv'
  <1>0. TypeOK /\ ClusterTypeOK /\ CacheIsComplete /\ AllocatorTypeOK
    BY DEF ManagerInv, IInv, Safe, TypeOK
  <1>1. CASE [Next]_vars
    BY <1>0, <1>1, WakeNext
  <1>2. ASSUME NEW e \in ENI, Reserves(e) PROVE WakeInv'
    <2>1. Sound(NewClaim(allocation.machine, allocation.pool))
      BY DEF Sound, NewClaim
    <2> QED
      BY <1>0, <1>2, <2>1, StoreWakes DEF Reserves
  <1>3. CASE Attaches
    BY <1>3, WakeKept
       DEF Attaches, Unaffected, WorksOn, Working, At, Due, controllerVars
  <1> QED
    BY <1>0, <1>1, <1>2, <1>3, Steps

(***************************************************************************)
(* The reconciler hears again of every claim that exists, those of the     *)
(* AWSMachine reconciler included, or it is at it.                         *)
(***************************************************************************)
THEOREM ManagerForgetsNoClaim == ManagerSpec => []NoClaimForgotten
  <1>1. ManagerInit => WakeInv
    BY WakeInit DEF ManagerInit
  <1>2. WakeInv => NoClaimForgotten
    BY DEF WakeInv
  <1> QED
    BY <1>1, <1>2, ManagerWakeNext, ManagerSafety, PTL DEF ManagerSpec

-----------------------------------------------------------------------------
(***************************************************************************)
(* Nor does the AWSMachine reconciler lose sight of an AWSMachine that     *)
(* waits for its interface.                                                *)
(***************************************************************************)
Seeks(m) == /\ machines[m] = Dynamic
            /\ m \in paused /\ m \notin leaving /\ m \notin failed

InHand(m) == allocation # Idle /\ allocation.machine = m

(* A step that is not about machine m. *)
LEMMA OthersWake ==
    ASSUME NoMachineForgotten, NEW m \in Machine, Seeks(m)',
           machines'[m] = machines[m],
           m \in paused' <=> m \in paused,
           m \in failed' <=> m \in failed,
           m \in leaving' <=> m \in leaving,
           UNCHANGED seen,
           m \in backlog => m \in backlog' \/ InHand(m)',
           InHand(m) => m \in backlog' \/ InHand(m)'
    PROVE  m \in Outdated' \cup backlog' \/ InHand(m)'
  <1>1. m \in Outdated \cup backlog \/ InHand(m)
    BY DEF NoMachineForgotten, Seeks, InHand
  <1>2. m \in Outdated => m \in Outdated'
    BY DEF Outdated
  <1> QED
    BY <1>1, <1>2

(* What the reconciler does with the AWSMachine that it takes up. *)
LEMMA AllocateWakes ==
    ASSUME TypeOK, NoMachineForgotten, NEW m \in Machine, Seeks(m)',
           NEW n \in Machine, Allocate(n)
    PROVE  m \in Outdated' \cup backlog' \/ InHand(m)'
  <1>0. /\ UNCHANGED <<machines, paused, failed, leaving, seen>>
        /\ allocation = Idle
    BY DEF Allocate, clusterVars
  <1>1. \/ n \notin Waiting /\ backlog' = backlog \ {n}
        \/ UNCHANGED <<allocation, backlog>>
        \/ /\ InHand(n)'
           /\ backlog' = backlog \ {n}
    BY AllocateBegins, AllocationAssumption DEF InHand, StepsFor
  <1>2. CASE n # m
    BY <1>0, <1>1, <1>2, OthersWake DEF InHand
  <1>3. CASE n = m /\ n \notin Waiting
    BY <1>0, <1>3 DEF Waiting, Seeks, Outdated
  <1>4. CASE n = m /\ n \in Waiting
    BY <1>0, <1>1, <1>4, OthersWake DEF InHand
  <1> QED
    BY <1>2, <1>3, <1>4

(* What becomes of its reconciliation. *)
LEMMA AllocatorWakes ==
    ASSUME ManagerInv, NoMachineForgotten, NEW m \in Machine, Seeks(m)',
           CallFails \/ AllocatorNext
    PROVE  m \in Outdated' \cup backlog' \/ InHand(m)'
  <1>0. /\ AllocatorTypeOK
        /\ machines \in [Machine -> Attachment \cup {Absent}]
        /\ Dynamic \notin ENI
    BY MachineAssumption
       DEF ManagerInv, IInv, Safe, TypeOK, ClusterTypeOK
  <1>1. ASSUME UNCHANGED <<machines, paused, failed, leaving, seen>>,
               Retry
        PROVE  m \in Outdated' \cup backlog' \/ InHand(m)'
    BY <1>1, OthersWake DEF Retry, InHand
  <1>2. ASSUME NEW n \in Machine, Allocate(n)
        PROVE  m \in Outdated' \cup backlog' \/ InHand(m)'
    BY <1>2, AllocateWakes DEF ManagerInv, IInv, Safe
  <1>3. CASE ClaimInterface
    <2>1. /\ UNCHANGED <<machines, paused, failed, leaving, seen, backlog>>
          /\ allocation # Idle
      BY <1>3 DEF ClaimInterface, Allocating
    <2>2. allocation' # Idle /\ allocation'.machine = allocation.machine
      <3>1. allocation \in Allocation /\ allocation.step = "claim"
        BY <1>0, <1>3 DEF ClaimInterface, Allocating, AllocatorTypeOK
      <3>2. allocation.todo \subseteq ENI
        BY <3>1 DEF Allocation
      <3>3. PICK e \in ENI :
               \/ allocation' = [step |-> "attach",
                                 machine |-> allocation.machine, eni |-> e]
               \/ allocation' = [allocation EXCEPT !.todo = @ \ {e}]
        BY <1>3, <3>2 DEF ClaimInterface, Lowest
      <3>4. allocation' \in Allocation
        BY <3>1, <3>2, <3>3 DEF Allocation
      <3>5. allocation'.machine = allocation.machine
        BY <3>1, <3>3 DEF Allocation
      <3> QED
        BY <3>4, <3>5, AllocationAssumption
    <2> QED
      BY <2>1, <2>2, OthersWake DEF InHand
  <1>4. CASE PoolExhausted
    <2>1. /\ UNCHANGED <<machines, paused, failed, leaving, seen>>
          /\ allocation # Idle /\ allocation \in Allocation
      BY <1>0, <1>4
         DEF PoolExhausted, Allocating, clusterVars, AllocatorTypeOK
    <2>2. CASE Retry
      BY <1>1, <2>1, <2>2
    <2>3. ASSUME NEW s \in {"fail", "fallback"}, UNCHANGED backlog,
                 allocation' = [step |-> s, machine |-> allocation.machine]
          PROVE  m \in Outdated' \cup backlog' \/ InHand(m)'
      <3>1. allocation.machine \in Machine
        BY <2>1 DEF Allocation
      <3>2. allocation' # Idle
        BY <2>3, <3>1, AllocationAssumption DEF Allocation
      <3> QED
        BY <2>1, <2>3, <3>2, OthersWake DEF InHand
    <2> QED
      BY <1>4, <2>2, <2>3 DEF PoolExhausted, TryLater
  <1>5. CASE Attach
    <2>1. CASE Retry /\ UNCHANGED <<machines, paused, failed>>
      BY <1>1, <1>5, <2>1 DEF Attach
    <2>2. CASE /\ machines' = [machines EXCEPT ![allocation.machine] =
                                                   allocation.eni]
               /\ paused' = paused \ {allocation.machine}
               /\ failed' = failed \ {allocation.machine}
               /\ Finish \/ Retry
      <3>1. m # allocation.machine
        BY <2>2 DEF Seeks
      <3> QED
        BY <1>0, <1>5, <2>2, <3>1, OthersWake
           DEF Attach, Finish, Retry, InHand
    <2> QED
      BY <1>5, <2>1, <2>2 DEF Attach
  <1>6. CASE DynamicFallback
    <2>1. CASE Retry /\ UNCHANGED <<paused, failed>>
      BY <1>1, <1>6, <2>1 DEF DynamicFallback, clusterVars
    <2>2. CASE /\ paused' = paused \ {allocation.machine}
               /\ failed' = failed \ {allocation.machine}
               /\ Finish \/ Retry
      <3>1. m # allocation.machine
        BY <2>2 DEF Seeks
      <3> QED
        BY <1>6, <2>2, <3>1, OthersWake
           DEF DynamicFallback, Finish, Retry, InHand, clusterVars
    <2> QED
      BY <1>6, <2>1, <2>2 DEF DynamicFallback
  <1>7. CASE MarkFailed
    <2>1. CASE Retry /\ UNCHANGED failed
      BY <1>1, <1>7, <2>1 DEF MarkFailed, clusterVars
    <2>2. CASE /\ failed' = failed \cup {allocation.machine}
               /\ Finish \/ Retry
      <3>1. m # allocation.machine
        BY <2>2 DEF Seeks
      <3> QED
        BY <1>7, <2>2, <3>1, OthersWake
           DEF MarkFailed, Finish, Retry, InHand, clusterVars
    <2> QED
      BY <1>7, <2>1, <2>2 DEF MarkFailed
  <1>8. CASE SyncMachineInformer
    BY <1>8 DEF SyncMachineInformer, NoMachineForgotten, Seeks, InHand
  <1>9. CASE CallFails
    BY <1>1, <1>9 DEF CallFails
  <1> QED
    BY <1>2, <1>3, <1>4, <1>5, <1>6, <1>7, <1>8, <1>9 DEF AllocatorNext

(* The life of the AWSMachines. *)
LEMMA LifeWakes ==
    ASSUME ManagerInv, NoMachineForgotten, NEW m \in Later, Seeks(m)',
           LifeNext
    PROVE  m \in Outdated' \cup backlog' \/ InHand(m)'
  <1>0. /\ m \in Machine
        /\ machines \in [Machine -> Attachment \cup {Absent}]
        /\ Dynamic # Absent
        /\ m \notin machineCache => seen.machines[m] = Absent
    BY LaterAssumption, MachineAssumption
       DEF ManagerInv, IInv, Safe, TypeOK, ClusterTypeOK, Apart, Attachment
  <1>1. ASSUME NEW n \in Later, Forgotten(n), CreatePaused(n)
        PROVE  m \in Outdated' \cup backlog' \/ InHand(m)'
    <2>1. CASE n = m
      BY <1>0, <1>1, <2>1 DEF CreatePaused, Forgotten, Outdated, Seeks
    <2>2. CASE n # m
      BY <1>0, <1>1, <2>2, OthersWake DEF CreatePaused, InHand
    <2> QED
      BY <2>1, <2>2
  <1>2. ASSUME NEW n \in Later, Leave(n)
        PROVE  m \in Outdated' \cup backlog' \/ InHand(m)'
    <2>1. n # m
      BY <1>2 DEF Leave, Seeks
    <2> QED
      BY <1>0, <1>2, <2>1, OthersWake
         DEF Leave, InHand, vars, clusterVars
  <1>3. ASSUME NEW n \in Later, Remove(n)
        PROVE  m \in Outdated' \cup backlog' \/ InHand(m)'
    <2>1. n # m
      BY <1>3 DEF Remove, Seeks
    <2> QED
      BY <1>0, <1>3, <2>1, OthersWake DEF Remove, MachineGone, InHand
  <1>4. ASSUME NEW n \in Machine \ Later, MachineGone(n),
               UNCHANGED allocatorVars
        PROVE  m \in Outdated' \cup backlog' \/ InHand(m)'
    BY <1>0, <1>4, OthersWake DEF MachineGone, InHand, allocatorVars
  <1> QED
    BY <1>1, <1>2, <1>3, <1>4 DEF LifeNext

(* The other processes leave the AWSMachines of Later alone. *)
LEMMA OthersLeaveLater ==
    ASSUME ManagerInv, [ManagerNext]_managerVars, NEW m \in Later,
           ~(\/ LifeNext \/ ManagerRestart
             \/ Allocates(CallFails) \/ Allocates(AllocatorNext))
    PROVE  UNCHANGED allocatorVars /\ machines'[m] = machines[m]
  <1>1. UNCHANGED allocatorVars
    BY DEF ManagerNext, StaticNext, ProcessNext, ManagerFaultNext, managerVars
  <1>2. CASE ControllerNext \/ WriteFails
    BY <1>1, <1>2 DEF ControllerNext, Begin, Finalize, Check, Delete,
       UpdateStatus, Unfinalize, SyncClaims, WriteFails, clusterVars
  <1>3. CASE AdmissionNext
    <2>0. /\ m \in Machine /\ WebhookTypeOK
          /\ machines \in [Machine -> Attachment \cup {Absent}]
      BY LaterAssumption
         DEF ManagerInv, IInv, Safe, TypeOK, ClusterTypeOK
    <2>1. ASSUME NEW r \in Request, Persist(r) PROVE machines'[m] = machines[m]
      BY <2>0, <2>1 DEF Persist, Answered, ManagerInv, Apart
    <2>2. ASSUME NEW n \in Machine \ Later, Bypass(n)
          PROVE  machines'[m] = machines[m]
      BY <2>0, <2>2 DEF Bypass
    <2>3. CASE \/ \E r \in Request, n \in Machine \ Later : Admit(r, n)
               \/ \E r \in Request : \/ ClaimNext(r) \/ AlreadyExists(r)
                                     \/ Exhausted(r) \/ Abort(r)
      BY <1>1, <2>3 DEF Admit, ClaimNext, AlreadyExists, Exhausted, Abort,
         clusterVars
    <2> QED
      BY <1>1, <1>3, <2>1, <2>2, <2>3 DEF AdmissionNext, RequestNext
  <1>4. CASE \/ UNCHANGED managerVars \/ PoolNext
             \/ \E r \in Request : CreateFails(r)
             \/ \E e \in ENI : GraceExpires(e)
    BY <1>1, <1>4 DEF managerVars, vars, clusterVars, CreateFails,
       GraceExpires, PoolNext, OperatorEditsPool
  <1> QED
    BY <1>2, <1>3, <1>4
       DEF ManagerNext, StaticNext, ProcessNext, ManagerFaultNext

LEMMA MachineWakeNext ==
    ASSUME ManagerInv, NoMachineForgotten, [ManagerNext]_managerVars
    PROVE  NoMachineForgotten'
  <1> SUFFICES ASSUME NEW m \in Later, Seeks(m)'
               PROVE  m \in Outdated' \cup backlog' \/ InHand(m)'
    BY SeenApart DEF NoMachineForgotten, Seeks, InHand
  <1>0. m \in Machine /\ Dynamic # Absent
    BY LaterAssumption, MachineAssumption DEF Attachment
  <1>1. CASE LifeNext
    BY <1>1, LifeWakes
  <1>2. CASE Allocates(CallFails) \/ Allocates(AllocatorNext)
    BY <1>0, <1>2, AllocatorWakes DEF Allocates
  <1>3. CASE ManagerRestart
    <2>1. backlog' = Existing /\ machines' = machines
      BY <1>3 DEF ManagerRestart, Restart
    <2> QED
      BY <1>0, <2>1 DEF Existing, Seeks
  <1>4. CASE ~(\/ LifeNext \/ ManagerRestart
               \/ Allocates(CallFails) \/ Allocates(AllocatorNext))
    <2>1. UNCHANGED allocatorVars /\ machines'[m] = machines[m]
      BY <1>4, OthersLeaveLater
    <2> QED
      BY <1>0, <2>1, OthersWake DEF allocatorVars, InHand
  <1> QED
    BY <1>1, <1>2, <1>3, <1>4

(***************************************************************************)
(* An AWSMachine that waits for an interface, and was not marked failed,   *)
(* is never lost sight of: neither a failed call, a lost reply, a restart, *)
(* stale informers nor the policy Wait ends its reconciliation for good.   *)
(***************************************************************************)
THEOREM NoMachineIsForgotten == ManagerSpec => []NoMachineForgotten
  <1>1. ManagerInit => NoMachineForgotten
    BY DEF ManagerInit, AllocatorInit, NoMachineForgotten
  <1> QED
    BY <1>1, MachineWakeNext, ManagerSafety, PTL DEF ManagerSpec

-----------------------------------------------------------------------------
(***************************************************************************)
(* Where no AWSMachine is paused, the AWSMachine reconciler has no part in *)
(* it: such a manager is the allocator of ENIAllocator, and whatever is    *)
(* proved of the one holds of the other.                                   *)
(***************************************************************************)
THEOREM WebhookAlone ==
    ASSUME Later = {}
    PROVE  ManagerSpec => Spec
  <1>1. ManagerInit => Init
    BY DEF ManagerInit
  <1>2. ManagerInv /\ [ManagerNext]_managerVars => [Next]_vars
    BY Steps DEF ManagerInv, Apart, Reserves, Attaches, Allocating
  <1> QED
    BY <1>1, <1>2, ManagerSafety, PTL DEF ManagerSpec, Spec
=============================================================================
