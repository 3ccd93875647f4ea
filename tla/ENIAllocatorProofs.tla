------------------------- MODULE ENIAllocatorProofs -------------------------
(***************************************************************************)
(* Proofs that the allocator is safe for every set of interfaces,          *)
(* AWSMachines, pools and requests.                                        *)
(***************************************************************************)
EXTENDS ENIAllocator, TLAPS

(***************************************************************************)
(* What the API server's operations and the webhook's constructor yield.   *)
(***************************************************************************)
LEMMA RemovalTypes ==
    ASSUME NEW c \in Claim \cup {NoClaim}
    PROVE  /\ AfterDelete(c) \in Claim \cup {NoClaim}
           /\ AfterUnfinalize(c) \in Claim \cup {NoClaim}
  BY DEF AfterDelete, AfterUnfinalize, Claim

(* A new claim is a claim, with or without the finalizer. *)
LEMMA NewClaimTypes ==
    ASSUME NEW m \in Machine, NEW p \in Pool
    PROVE  /\ NewClaim(m, p) \in Claim
           /\ [NewClaim(m, p) EXCEPT !.finalizer = FALSE] \in Claim
  BY DEF NewClaim, Claim

(***************************************************************************)
(* The fields of a request, by its step.                                   *)
(***************************************************************************)
LEMMA RequestFields ==
    ASSUME WebhookTypeOK, NEW r \in Request
    PROVE  /\ Claiming(r) => /\ requests[r].machine \in Machine
                             /\ requests[r].pool \in Pool
                             /\ requests[r].todo \in SUBSET ENI
                             /\ ~Answered(r)
           /\ Answered(r) => /\ requests[r].machine \in Machine
                             /\ requests[r].grant \in Attachment
           /\ requests[r] # Idle => Claiming(r) \/ Answered(r)
  BY DEF WebhookTypeOK, Admission, Claiming, Answered

(***************************************************************************)
(* Every variable keeps its type.                                          *)
(***************************************************************************)
LEMMA TypeInit == Init => TypeOK
  BY PoolAssumption DEF Init, ClusterInit, WebhookInit, ControllerInit,
     TypeOK, ClusterTypeOK, WebhookTypeOK, ControllerTypeOK

(* Answering a request keeps the requests' type. *)
LEMMA AnswerType ==
    ASSUME WebhookTypeOK, NEW r \in Request, Claiming(r),
           NEW grant \in Attachment, Answer(r, grant)
    PROVE  WebhookTypeOK'
  <1>1. [step |-> "answered", machine |-> requests[r].machine,
         grant |-> grant] \in Admission
    BY RequestFields DEF Admission
  <1> QED
    BY <1>1 DEF Answer, WebhookTypeOK

(***************************************************************************)
(* Every step keeps every variable's type: the webhook's steps, the        *)
(* reconciler's, and the others.                                           *)
(***************************************************************************)
LEMMA WebhookTypes ==
    ASSUME TypeOK, WebhookNext PROVE ClusterTypeOK' /\ WebhookTypeOK'
  <1> USE DEF TypeOK, ClusterTypeOK
  <1>1. ASSUME NEW m \in Machine, Bypass(m)
        PROVE  ClusterTypeOK' /\ WebhookTypeOK'
    BY <1>1 DEF Bypass, Attachment, WebhookTypeOK
  <1>2. ASSUME NEW r \in Request, NEW m \in Machine, Admit(r, m)
        PROVE  ClusterTypeOK' /\ WebhookTypeOK'
    <2>1. \A p \in Matches(NetworkOf[m]) : \A key :
             p \in Pool /\ Candidates(pools[p], key) \in SUBSET ENI
      BY DEF Candidates, Matches, PoolSpec
    <2>2. PICK q \in Admission : requests' = [requests EXCEPT ![r] = q]
      BY <1>2, <2>1 DEF Admit, Admission, Attachment
    <2> QED
      BY <1>2, <2>2 DEF Admit, clusterVars, WebhookTypeOK
  <1>3. ASSUME NEW r \in Request, ClaimNext(r)
        PROVE  ClusterTypeOK' /\ WebhookTypeOK'
    <2>1. Claiming(r)
      BY <1>3 DEF ClaimNext, Store
    <2>2. PICK e \in ENI :
             /\ Store(e, NewClaim(requests[r].machine, requests[r].pool))
             /\ Answer(r, e)
      BY <1>3, <2>1, RequestFields DEF ClaimNext, Store, Lowest
    <2>3. WebhookTypeOK'
      BY <2>1, <2>2, AnswerType DEF Attachment
    <2>4. NewClaim(requests[r].machine, requests[r].pool) \in Claim
      BY <2>1, RequestFields, NewClaimTypes
    <2> QED
      BY <1>3, <2>2, <2>3, <2>4 DEF ClaimNext, Store
  <1>4. ASSUME NEW r \in Request, AlreadyExists(r)
        PROVE  ClusterTypeOK' /\ WebhookTypeOK'
    <2>1. PICK e : requests' = [requests EXCEPT ![r].todo = @ \ {e}]
      BY <1>4 DEF AlreadyExists
    <2>2. requests[r] \in Admission /\ requests[r].step = "claiming"
      BY <1>4 DEF AlreadyExists, Claiming, WebhookTypeOK
    <2>3. [requests[r] EXCEPT !.todo = @ \ {e}] \in Admission
      BY <2>2 DEF Admission
    <2> QED
      BY <1>4, <2>1, <2>3 DEF AlreadyExists, clusterVars, WebhookTypeOK
  <1>5. ASSUME NEW r \in Request, Exhausted(r)
        PROVE  ClusterTypeOK' /\ WebhookTypeOK'
    BY <1>5, AnswerType DEF Exhausted, clusterVars, Attachment
  <1>6. ASSUME NEW r \in Request, Persist(r)
        PROVE  ClusterTypeOK' /\ WebhookTypeOK'
    BY <1>6, RequestFields DEF Persist, WebhookTypeOK
  <1>7. ASSUME NEW r \in Request, Abort(r)
        PROVE  ClusterTypeOK' /\ WebhookTypeOK'
    <2>1. CASE requests' = [requests EXCEPT ![r] = Idle]
      BY <1>7, <2>1 DEF Abort, clusterVars, WebhookTypeOK
    <2>2. CASE Claiming(r) /\ requests' = [requests EXCEPT ![r].live = FALSE]
      <3>1. [requests[r] EXCEPT !.live = FALSE] \in Admission
        BY <2>2 DEF Claiming, WebhookTypeOK, Admission
      <3> QED
        BY <1>7, <2>2, <3>1 DEF Abort, clusterVars, WebhookTypeOK
    <2> QED
      BY <1>7, <2>1, <2>2 DEF Abort
  <1> QED
    BY <1>1, <1>2, <1>3, <1>4, <1>5, <1>6, <1>7 DEF WebhookNext, RequestNext

(* Every step of the ENIClaim reconciler keeps the types. *)
LEMMA ControllerTypes ==
    ASSUME TypeOK, ControllerNext PROVE ClusterTypeOK' /\ ControllerTypeOK'
  <1> USE DEF TypeOK, ClusterTypeOK, ControllerTypeOK
  <1>0. worker # Idle => /\ worker \in Work
                         /\ worker.eni \in ENI /\ worker.claim \in Claim
                         /\ worker.phase \in {"Bound", "Failed"}
    BY DEF Work
  <1>1. ASSUME NEW e \in ENI, Begin(e)
        PROVE  ClusterTypeOK' /\ ControllerTypeOK'
    <2>1. claimCache[e] \in Claim \cup {NoClaim}
      OBVIOUS
    <2>2. \A step \in {"finalize", "check", "unfinalize"},
             phase \in {"Bound", "Failed"} : claimCache[e] # NoClaim =>
             [step |-> step, eni |-> e, claim |-> claimCache[e],
              phase |-> phase] \in Work
      BY <2>1 DEF Work
    <2>3. \A spec : PhaseIn(spec, e) \in {"Bound", "Failed"}
      BY DEF PhaseIn
    <2> QED
      BY <1>1, <2>2, <2>3 DEF Begin, clusterVars, controllerVars
  <1>2. CASE Finalize
    <2>1. worker # Idle /\ claims[worker.eni] \in Claim \cup {NoClaim}
      BY <1>0, <1>2 DEF Finalize, Store, At
    <2>2. CASE ~TakesFinalizer(claims[worker.eni]) /\ Requeue
               /\ UNCHANGED claims
      BY <1>0, <1>2, <2>1, <2>2 DEF Finalize, Store, Requeue
    <2>3. CASE /\ TakesFinalizer(claims[worker.eni])
               /\ claims' = [claims EXCEPT ![worker.eni].finalizer = TRUE]
               /\ \/ /\ worker' = [worker EXCEPT !.step = "check",
                                      !.claim = claims'[worker.eni]]
                     /\ UNCHANGED queue
                  \/ Requeue
      <3>1. [claims[worker.eni] EXCEPT !.finalizer = TRUE] \in Claim
        BY <2>1, <2>3 DEF TakesFinalizer, Claim
      <3>2. /\ claims' \in [ENI -> Claim \cup {NoClaim}]
            /\ claims'[worker.eni] \in Claim
        BY <1>0, <2>1, <2>3, <3>1
      <3>3. [worker EXCEPT !.step = "check", !.claim = claims'[worker.eni]]
               \in Work
        BY <1>0, <2>1, <3>2 DEF Work
      <3> QED
        BY <1>0, <1>2, <2>1, <2>3, <3>2, <3>3 DEF Finalize, Store, Requeue
    <2> QED
      BY <1>2, <2>2, <2>3 DEF Finalize, Store
  <1>3. CASE Check
    <2>1. worker # Idle
      BY <1>3 DEF Check, At
    <2>2. \A step \in {"delete", "status"} :
             [worker EXCEPT !.step = step] \in Work
      BY <1>0, <2>1 DEF Work
    <2> QED
      BY <1>0, <1>3, <2>1, <2>2 DEF Check, Recheck, Resync, Requeue, clusterVars
  <1>4. CASE Delete
    BY <1>0, <1>4, RemovalTypes DEF Delete, Store, At, Done, Requeue
  <1>5. CASE UpdateStatus
    <2>1. worker # Idle
      BY <1>5 DEF UpdateStatus, Store, At
    <2>2. claims[worker.eni] = worker.claim =>
             [claims[worker.eni] EXCEPT !.status = worker.phase] \in Claim
      BY <1>0, <2>1 DEF Claim
    <2> QED
      BY <1>0, <1>5, <2>1, <2>2 DEF UpdateStatus, Store, Requeue
  <1>6. CASE Unfinalize
    BY <1>0, <1>6, RemovalTypes DEF Unfinalize, Store, At, Done, Requeue
  <1>7. CASE SyncClaims
    BY <1>7 DEF SyncClaims
  <1> QED
    BY <1>1, <1>2, <1>3, <1>4, <1>5, <1>6, <1>7 DEF ControllerNext

(* An operator's update leaves a claim what it is, but for its finalizer. *)
LEMMA UpdatedClaim ==
    ASSUME ClusterTypeOK, NEW e \in ENI, NEW m \in Machine, NEW p \in Pool,
           OperatorUpdates(e, m, p)
    PROVE  \E d \in Claim : /\ claims' = [claims EXCEPT ![e] = d]
                            /\ claims[e] \in Claim
                            /\ d.machine = claims[e].machine
                            /\ d.deleting = claims[e].deleting
                            /\ d.aged = claims[e].aged
                            /\ claims[e].finalizer => d.finalizer
  <1>1. claims[e] \in Claim
    BY DEF ClusterTypeOK, OperatorUpdates
  <1>2. PICK finalizer \in {claims[e].finalizer, TRUE} :
           Store(e, [claims[e] EXCEPT !.machine = m, !.pool = p,
                                      !.finalizer = finalizer])
           /\ m = claims[e].machine
    BY <1>1 DEF OperatorUpdates, ValidateUpdate, Claim
  <1> DEFINE d == [claims[e] EXCEPT !.machine = m, !.pool = p,
                                    !.finalizer = finalizer]
  <1>3. /\ d \in Claim /\ d.machine = m /\ d.deleting = claims[e].deleting
        /\ d.aged = claims[e].aged /\ d.finalizer = finalizer
    BY <1>1 DEF Claim
  <1> HIDE DEF d
  <1> QED
    BY <1>1, <1>2, <1>3 DEF Store, d

(* When claim e ages, so does the copy that a reconciliation of e is at,   *)
(* which is of the claim as it is; other reconciliations stay as they are. *)
LEMMA WorkerAges ==
    ASSUME TypeOK, NEW e \in ENI, GraceExpires(e)
    PROVE  /\ worker' \in Work \cup {Idle}
           /\ worker' # Idle <=> worker # Idle
           /\ ~Working(e) => UNCHANGED worker
           /\ Working(e) =>
                 /\ worker'.step = worker.step /\ worker'.eni = e
                 /\ worker.claim = claims[e] /\ worker'.claim = claims'[e]
                 /\ worker'.claim.machine = worker.claim.machine
  <1> USE DEF TypeOK, ClusterTypeOK, ControllerTypeOK
  <1>1. CASE ~Working(e)
    BY <1>1 DEF GraceExpires
  <1>2. CASE Working(e)
    <2>1. /\ worker \in Work /\ worker.eni = e /\ worker.claim = claims[e]
          /\ claims' = [claims EXCEPT ![e].aged = TRUE]
          /\ worker' = [worker EXCEPT !.claim.aged = TRUE]
      BY <1>2 DEF GraceExpires, Settled, Working
    <2>2. worker.claim \in Claim /\ claims[e] \in Claim
      BY <2>1 DEF Work
    <2> DEFINE d == [worker.claim EXCEPT !.aged = TRUE]
    <2>3. d \in Claim /\ claims'[e] = d /\ d.machine = worker.claim.machine
      BY <2>1, <2>2 DEF Claim
    <2>4. worker' = [worker EXCEPT !.claim = d]
      BY <2>1, <2>2 DEF Work
    <2> HIDE DEF d
    <2>5. /\ worker' \in Work /\ worker'.claim = d
          /\ worker'.step = worker.step /\ worker'.eni = e
      BY <2>1, <2>3, <2>4 DEF Work
    <2> QED
      BY <1>2, <2>1, <2>3, <2>5, WorkerAssumption DEF Working
  <1> QED
    BY <1>1, <1>2

(* Every step of the system keeps the types. *)
LEMMA TypeNext == TypeOK /\ CacheIsComplete /\ [Next]_vars => TypeOK'
  <1> SUFFICES ASSUME TypeOK, CacheIsComplete, [Next]_vars PROVE TypeOK'
    OBVIOUS
  <1>1. CASE UNCHANGED vars
    BY <1>1 DEF vars, clusterVars, controllerVars, TypeOK, ClusterTypeOK,
       WebhookTypeOK, ControllerTypeOK
  <1>2. CASE WebhookNext /\ UNCHANGED controllerVars
    BY <1>2, WebhookTypes DEF controllerVars, TypeOK, ControllerTypeOK
  <1>3. CASE ControllerNext /\ UNCHANGED requests
    BY <1>3, ControllerTypes DEF TypeOK, WebhookTypeOK
  <1> USE DEF TypeOK, ClusterTypeOK, WebhookTypeOK, ControllerTypeOK,
              controllerVars
  <1>4. ASSUME NEW m \in Machine, MachineGone(m), UNCHANGED requests,
               UNCHANGED controllerVars
        PROVE  TypeOK'
    BY <1>4 DEF MachineGone
  <1>5. CASE SyncMachines /\ UNCHANGED <<requests, controllerVars>>
    BY <1>5 DEF SyncMachines, Existing
  <1>6. ASSUME NEW e \in ENI, GraceExpires(e) PROVE TypeOK'
    <2>1. claims[e] \in Claim /\ claimCache[e] = claims[e]
      BY <1>6 DEF GraceExpires, Settled, CacheIsComplete
    <2>2. [claims[e] EXCEPT !.aged = TRUE] \in Claim
      BY <2>1 DEF Claim
    <2>3. worker' \in Work \cup {Idle}
      BY <1>6, WorkerAges
    <2> QED
      BY <1>6, <2>1, <2>2, <2>3 DEF GraceExpires
  <1>7. ASSUME NEW r \in Request, CreateFails(r), UNCHANGED controllerVars
        PROVE  TypeOK'
    <2>1. NewClaim(requests[r].machine, requests[r].pool) \in Claim
      BY <1>7, RequestFields, NewClaimTypes DEF CreateFails
    <2>2. Lowest(requests[r].todo) \subseteq ENI
      BY <1>7, RequestFields DEF CreateFails, Lowest
    <2> QED
      BY <1>7, <2>1, <2>2 DEF CreateFails, Store
  <1>8. CASE WriteFails /\ UNCHANGED requests
    BY <1>8 DEF WriteFails, Requeue, Work, clusterVars
  <1>9. CASE Restart
    BY <1>9 DEF Restart, Existing
  <1>10. ASSUME NEW p \in Pool, OperatorEditsPool(p), UNCHANGED requests,
                UNCHANGED controllerVars
         PROVE  TypeOK'
    BY <1>10, PoolAssumption DEF OperatorEditsPool
  <1>11. ASSUME NEW e \in ENI, NEW m \in Machine, NEW p \in Pool,
                OperatorClaims(e, m, p)
         PROVE  TypeOK'
    BY <1>11, NewClaimTypes DEF OperatorClaims, Store
  <1>12. ASSUME NEW e \in ENI, OperatorReleases(e) PROVE TypeOK'
    BY <1>12, RemovalTypes DEF OperatorReleases, Store
  <1>13. ASSUME NEW e \in ENI, NEW m \in Machine, NEW p \in Pool,
                OperatorUpdates(e, m, p)
         PROVE  TypeOK'
    <2>1. PICK d \in Claim : claims' = [claims EXCEPT ![e] = d]
      BY <1>13, UpdatedClaim
    <2> QED
      BY <1>13, <2>1 DEF OperatorUpdates, Store
  <1> QED
    BY <1>1, <1>2, <1>3, <1>4, <1>5, <1>6, <1>7, <1>8, <1>9, <1>10, <1>11,
       <1>12, <1>13 DEF Next, SystemNext, FaultNext, OperatorNext, PoolNext

-----------------------------------------------------------------------------
(***************************************************************************)
(* What the inductive invariant says of the worker: the claim that it is   *)
(* about to delete serves no AWSMachine and no request in progress.        *)
(***************************************************************************)
LEMMA WorkerFields ==
    ASSUME ControllerTypeOK, worker # Idle
    PROVE  worker.eni \in ENI /\ worker.claim \in Claim
  BY DEF ControllerTypeOK, Work

(* The claim that the worker is about to delete is granted to no request. *)
LEMMA DeletesUngranted ==
    ASSUME Safe, At("delete") PROVE ~Granted(worker.eni)
  <1>1. worker.eni \in ENI /\ IsCopy(worker.claim, worker.eni)
    BY WorkerFields DEF Safe, TypeOK, At, WorkerIsCurrent, DeletesUnused
  <1> QED
    BY <1>1 DEF Safe, GrantIsFresh, Granted, IsCopy

(***************************************************************************)
(* A step that leaves the objects, the machine informer and the worker     *)
(* alone, and grants no interface that was not granted, keeps all.         *)
(***************************************************************************)
LEMMA NoNewGrant ==
    ASSUME Safe, TypeOK', UNCHANGED <<clusterVars, controllerVars>>,
           \A s \in Request : Answered(s)' =>
               \/ Answered(s) /\ requests'[s] = requests[s]
               \/ requests'[s].grant = Dynamic
    PROVE  Safe'
  BY MachineAssumption
     DEF Safe, clusterVars, controllerVars, MachineHoldsClaim,
     GrantHoldsClaim, GrantIsFresh, UserIsSeen, CacheIsCurrent,
     WorkerIsCurrent, DeletesUnused, StripsDisposable, Attached, At, IsCopy,
     Disposable

(***************************************************************************)
(* A claim that changes in its status only, or gets its finalizer, is the  *)
(* same claim to everything but the worker.                                *)
(***************************************************************************)
Alike(c, d) == /\ c = NoClaim <=> d = NoClaim
               /\ c # NoClaim => /\ d.machine = c.machine
                                 /\ d.deleting = c.deleting
                                 /\ d.aged = c.aged
                                 /\ c.finalizer => d.finalizer

(* Claims that change in nothing but status, or gain a finalizer, keep all. *)
LEMMA AlikeClaims ==
    ASSUME Safe, \A e \in ENI : Alike(claims[e], claims'[e]),
           UNCHANGED <<machines, claimCache, machineCache, requests>>
    PROVE  /\ MachineHoldsClaim' /\ GrantHoldsClaim' /\ GrantIsFresh'
           /\ UserIsSeen' /\ CacheIsCurrent'
           /\ \A e \in ENI : Disposable(claims[e]) => Disposable(claims'[e])
           /\ \A e \in ENI : \A c : IsCopy(c, e) => IsCopy(c, e)'
  BY DEF Safe, Alike, MachineHoldsClaim, GrantHoldsClaim, GrantIsFresh,
     UserIsSeen, CacheIsCurrent, Attached, Answered, IsCopy, Disposable

(* The invariant holds at first. *)
LEMMA SafeInit == Init => Safe
  <1> SUFFICES ASSUME Init PROVE Safe
    OBVIOUS
  <1>1. /\ \A r \in Request : requests[r] = Idle
        /\ \A m \in Machine : machines[m] = Absent
        /\ \A e \in ENI : claims[e] = NoClaim /\ claimCache[e] = NoClaim
        /\ worker = Idle
    BY DEF Init, ClusterInit, WebhookInit, ControllerInit
  <1>2. MachineHoldsClaim /\ UserIsSeen
    BY <1>1, MachineAssumption DEF MachineHoldsClaim, UserIsSeen, Attachment
  <1>3. GrantHoldsClaim /\ GrantIsFresh
    BY <1>1 DEF GrantHoldsClaim, GrantIsFresh, Answered
  <1>4. /\ CacheIsCurrent /\ WorkerIsCurrent /\ DeletesUnused
        /\ StripsDisposable
    BY <1>1 DEF CacheIsCurrent, WorkerIsCurrent, DeletesUnused,
       StripsDisposable, At
  <1> QED
    BY <1>2, <1>3, <1>4, TypeInit DEF Safe

(* Every step of an admission preserves the invariant. *)
LEMMA WebhookSafe ==
    ASSUME Safe, TypeOK', WebhookNext, UNCHANGED controllerVars PROVE Safe'
  <1> TypeOK
    BY DEF Safe
  <1>0. worker # Idle => worker.eni \in ENI
    BY WorkerFields DEF TypeOK
  <1>1. ASSUME NEW r \in Request, NEW m \in Machine, Admit(r, m)
        PROVE  Safe'
    <2>1. \A s \in Request : Answered(s)' =>
             \/ Answered(s) /\ requests'[s] = requests[s]
             \/ requests'[s].grant = Dynamic
      BY <1>1 DEF Admit, Answered, TypeOK, WebhookTypeOK
    <2> QED
      BY <1>1, <2>1, NoNewGrant DEF Admit
  <1>2. ASSUME NEW r \in Request, AlreadyExists(r) \/ Abort(r)
        PROVE  Safe'
    <2>1. \A s \in Request : Answered(s)' =>
             Answered(s) /\ requests'[s] = requests[s]
      BY <1>2 DEF AlreadyExists, Abort, Answered, Claiming, Admission,
         TypeOK, WebhookTypeOK
    <2> QED
      BY <1>2, <2>1, NoNewGrant DEF AlreadyExists, Abort
  <1>3. ASSUME NEW r \in Request, Exhausted(r)
        PROVE  Safe'
    <2>1. \A s \in Request : Answered(s)' =>
             \/ Answered(s) /\ requests'[s] = requests[s]
             \/ requests'[s].grant = Dynamic
      BY <1>3 DEF Exhausted, Answered, Answer, TypeOK, WebhookTypeOK
    <2> QED
      BY <1>3, <2>1, NoNewGrant DEF Exhausted
  <1> USE DEF Safe, TypeOK, ClusterTypeOK, WebhookTypeOK
  <1>4. ASSUME NEW m \in Machine, Bypass(m)
        PROVE  Safe'
    <2>1. /\ MachineHoldsClaim' /\ UserIsSeen'
          /\ \A e \in ENI : Attached(e)' => Attached(e)
      BY <1>4, MachineAssumption
         DEF Bypass, MachineHoldsClaim, UserIsSeen, Attached
    <2>2. GrantHoldsClaim' /\ GrantIsFresh'
      BY <1>4, <2>1 DEF Bypass, GrantHoldsClaim, GrantIsFresh, Answered
    <2>3. CacheIsCurrent' /\ WorkerIsCurrent' /\ StripsDisposable'
      BY <1>4 DEF Bypass, controllerVars, CacheIsCurrent, WorkerIsCurrent,
         StripsDisposable, At, IsCopy, Disposable
    <2>4. DeletesUnused'
      BY <1>0, <2>1 DEF controllerVars, DeletesUnused, At
    <2> QED
      BY <2>1, <2>2, <2>3, <2>4
  <1>5. ASSUME NEW r \in Request, ClaimNext(r)
        PROVE  Safe'
    <2>1. Claiming(r)
      BY <1>5 DEF ClaimNext, Store
    <2>2. PICK e \in ENI :
             /\ claims[e] = NoClaim
             /\ claims' = [claims EXCEPT ![e] =
                     NewClaim(requests[r].machine, requests[r].pool)]
             /\ Answer(r, e)
      BY <1>5, <2>1, RequestFields DEF ClaimNext, Store, Lowest
    <2> DEFINE c == NewClaim(requests[r].machine, requests[r].pool)
    <2>21. c \in Claim
      BY <2>1, RequestFields, NewClaimTypes
    <2>22. c.machine = requests[r].machine /\ ~c.deleting /\ ~c.aged
      BY DEF NewClaim
    <2>23. claims' = [claims EXCEPT ![e] = c]
      BY <2>2
    <2> HIDE DEF c
    <2>3. /\ claims'[e] = c /\ c # NoClaim
          /\ c.machine = requests[r].machine /\ ~c.deleting /\ ~c.aged
          /\ \A f \in ENI : f # e => claims'[f] = claims[f]
      BY <2>21, <2>22, <2>23, ClaimAssumption
    <2>4. \A s \in Request : Answered(s)' =>
             \/ Answered(s) /\ requests'[s] = requests[s] /\ s # r
             \/ /\ s = r /\ requests'[s].grant = e
                /\ requests'[s].machine = requests[r].machine
      BY <2>1, <2>2 DEF Answer, Answered, Claiming
    <2>5. ~Attached(e)
      BY <2>2 DEF MachineHoldsClaim, Attached
    <2>6. \A s \in Request : Answered(s) => requests[s].grant # e
      BY <2>2 DEF GrantHoldsClaim
    <2>7. MachineHoldsClaim' /\ UserIsSeen'
      BY <1>5, <2>3, <2>5
         DEF ClaimNext, Store, MachineHoldsClaim, UserIsSeen, Attached
    <2>8. GrantIsFresh'
      BY <2>3, <2>4 DEF GrantIsFresh
    <2>9. GrantHoldsClaim'
      <3> SUFFICES ASSUME NEW s \in Request, Answered(s)',
                          NEW f \in ENI, requests'[s].grant = f
                   PROVE  /\ claims'[f] # NoClaim
                          /\ claims'[f].machine = requests'[s].machine
                          /\ ~claims'[f].deleting
                          /\ ~Attached(f)'
                          /\ \A t \in Request : Answered(t)' /\
                                requests'[t].grant = f => t = s
        BY DEF GrantHoldsClaim
      <3>1. Attached(f)' <=> Attached(f)
        BY <1>5 DEF ClaimNext, Store, Attached
      <3>2. CASE s = r
        BY <2>1, <2>3, <2>4, <2>5, <2>6, <3>1, <3>2 DEF Answered, Claiming
      <3>3. CASE s # r
        BY <2>3, <2>4, <2>6, <3>1, <3>3 DEF GrantHoldsClaim
      <3> QED
        BY <3>2, <3>3
    <2>10. CacheIsCurrent' /\ WorkerIsCurrent' /\ DeletesUnused'
      BY <1>0, <1>5, <2>2, <2>3
         DEF ClaimNext, Store, controllerVars, CacheIsCurrent, WorkerIsCurrent,
         DeletesUnused, Attached, At, IsCopy
    <2>11. StripsDisposable'
      BY <1>0, <1>5, <2>3
         DEF ClaimNext, Store, controllerVars, StripsDisposable, At, Disposable
    <2> QED
      BY <2>7, <2>8, <2>9, <2>10, <2>11
  <1>6. ASSUME NEW r \in Request, Persist(r)
        PROVE  Safe'
    <2>1. \A s \in Request : Answered(s)' =>
             Answered(s) /\ requests'[s] = requests[s] /\ s # r
      BY <1>6 DEF Persist, Answered
    <2>2. \A n \in Machine :
             \/ machines'[n] = machines[n]
             \/ n = requests[r].machine /\ machines'[n] = requests[r].grant
      BY <1>6 DEF Persist
    <2>3. MachineHoldsClaim' /\ UserIsSeen'
      BY <1>6, <2>2 DEF Persist, MachineHoldsClaim, UserIsSeen,
         GrantHoldsClaim, GrantIsFresh
    <2>4. GrantHoldsClaim' /\ GrantIsFresh'
      BY <1>6, <2>1, <2>2
         DEF Persist, GrantHoldsClaim, GrantIsFresh, Attached
    <2>5. CacheIsCurrent' /\ WorkerIsCurrent' /\ StripsDisposable'
      BY <1>6 DEF Persist, controllerVars, CacheIsCurrent, WorkerIsCurrent,
         StripsDisposable, At, IsCopy, Disposable
    <2>6. DeletesUnused'
      BY <1>6, <2>2, DeletesUngranted
         DEF Persist, controllerVars, DeletesUnused, At, Attached, Granted
    <2> QED
      BY <2>3, <2>4, <2>5, <2>6
  <1> QED
    BY <1>1, <1>2, <1>3, <1>4, <1>5, <1>6 DEF WebhookNext, RequestNext

(* Every step of the ENIClaim reconciler preserves the invariant. *)
LEMMA ControllerSafe ==
    ASSUME Safe, TypeOK', ControllerNext, UNCHANGED requests PROVE Safe'
  <1> TypeOK
    BY DEF Safe
  <1>0. worker # Idle => worker.eni \in ENI /\ worker.claim \in Claim
    BY WorkerFields DEF TypeOK
  <1> USE DEF Safe, TypeOK, ClusterTypeOK, ControllerTypeOK
  <1>a. ASSUME UNCHANGED <<claims, machines, requests>>
        PROVE  MachineHoldsClaim' /\ GrantHoldsClaim' /\ GrantIsFresh'
    BY <1>a DEF MachineHoldsClaim, GrantHoldsClaim, GrantIsFresh, Attached,
       Answered
  <1>1. ASSUME NEW e \in ENI, Begin(e)
        PROVE  Safe'
    <2>1. /\ MachineHoldsClaim' /\ GrantHoldsClaim' /\ GrantIsFresh'
          /\ UserIsSeen' /\ CacheIsCurrent'
      BY <1>1, <1>a DEF Begin, clusterVars, UserIsSeen, CacheIsCurrent, IsCopy
    <2>2. /\ ~At("delete")'
          /\ At("check")' => /\ worker'.claim = claimCache[e]
                             /\ worker'.eni = e
                             /\ claimCache[e] # NoClaim
                             /\ worker'.claim.finalizer
                             /\ ~worker'.claim.deleting
          /\ At("unfinalize")' => /\ worker'.eni = e
                                  /\ worker'.claim = claimCache[e]
                                  /\ claimCache[e] # NoClaim
                                  /\ claimCache[e].deleting
      BY <1>1 DEF Begin, At, controllerVars
    <2>3. WorkerIsCurrent' /\ DeletesUnused'
      BY <1>1, <2>2 DEF Begin, clusterVars, WorkerIsCurrent, DeletesUnused,
         CacheIsCurrent, IsCopy
    <2>4. StripsDisposable'
      BY <1>1, <2>2 DEF Begin, clusterVars, StripsDisposable, Disposable
    <2> QED
      BY <2>1, <2>3, <2>4
  <1>2. CASE Finalize
    <2>1. worker # Idle /\ worker.eni \in ENI
      BY <1>0, <1>2 DEF Finalize, Store, At
    <2>2. \A e \in ENI : Alike(claims[e], claims'[e])
      <3>1. CASE UNCHANGED claims
        BY <3>1 DEF Alike
      <3>2. CASE /\ TakesFinalizer(claims[worker.eni])
                 /\ claims' = [claims EXCEPT ![worker.eni].finalizer = TRUE]
        <4>1. /\ claims[worker.eni] \in Claim /\ claims[worker.eni] # NoClaim
              /\ claims'[worker.eni] \in Claim
              /\ claims'[worker.eni] =
                    [claims[worker.eni] EXCEPT !.finalizer = TRUE]
          <5>1. claims[worker.eni] \in Claim
            BY <2>1, <3>2 DEF TakesFinalizer
          <5>2. [claims[worker.eni] EXCEPT !.finalizer = TRUE] \in Claim
            BY <5>1 DEF Claim
          <5>3. claims'[worker.eni] =
                   [claims[worker.eni] EXCEPT !.finalizer = TRUE]
            BY <2>1, <3>2
          <5>4. claims[worker.eni] # NoClaim
            BY <5>1, ClaimAssumption
          <5> QED
            BY <5>1, <5>2, <5>3, <5>4
        <4>2. Alike(claims[worker.eni], claims'[worker.eni])
          <5>1. claims'[worker.eni] # NoClaim
            BY <4>1, ClaimAssumption
          <5> QED
            BY <4>1, <5>1 DEF Alike, Claim
        <4> QED
          BY <2>1, <3>2, <4>2 DEF Alike
      <3> QED
        BY <1>2, <3>1, <3>2 DEF Finalize, Store
    <2>3. /\ MachineHoldsClaim' /\ GrantHoldsClaim' /\ GrantIsFresh'
          /\ UserIsSeen' /\ CacheIsCurrent'
          /\ \A e \in ENI : Disposable(claims[e]) => Disposable(claims'[e])
      BY <1>2, <2>2, AlikeClaims DEF Finalize, Store
    <2>4. \/ worker' = Idle
          \/ /\ worker' = [worker EXCEPT !.step = "check",
                                         !.claim = claims'[worker.eni]]
             /\ claims'[worker.eni] # NoClaim
             /\ claims'[worker.eni].finalizer
      <3>1. CASE worker' = Idle
        BY <3>1
      <3>2. CASE /\ TakesFinalizer(claims[worker.eni])
                 /\ claims' = [claims EXCEPT ![worker.eni].finalizer = TRUE]
                 /\ worker' = [worker EXCEPT !.step = "check",
                                             !.claim = claims'[worker.eni]]
        <4>1. claims[worker.eni] \in Claim
          BY <2>1, <3>2 DEF TakesFinalizer
        <4>2. [claims[worker.eni] EXCEPT !.finalizer = TRUE].finalizer
          BY <4>1 DEF Claim
        <4>3. claims'[worker.eni] =
                 [claims[worker.eni] EXCEPT !.finalizer = TRUE]
          BY <2>1, <3>2
        <4>4. claims'[worker.eni] \in Claim
          BY <4>1, <4>3 DEF Claim
        <4> QED
          BY <3>2, <4>2, <4>3, <4>4, ClaimAssumption
      <3> QED
        BY <1>2, <3>1, <3>2 DEF Finalize, Store, Requeue
    <2>5. worker' # Idle => /\ worker'.step = "check"
                            /\ worker'.claim = claims'[worker.eni]
                            /\ worker'.eni = worker.eni
      BY <2>1, <2>4 DEF Work
    <2>6. WorkerIsCurrent' /\ DeletesUnused' /\ StripsDisposable'
      BY <1>2, <2>1, <2>3, <2>4, <2>5
         DEF Finalize, Store, WorkerIsCurrent, DeletesUnused, StripsDisposable, At,
         IsCopy
    <2> QED
      BY <2>3, <2>6
  <1>3. CASE Check
    <2>1. worker # Idle /\ worker \in Work
      BY <1>3 DEF Check, At
    <2>2. /\ MachineHoldsClaim' /\ GrantHoldsClaim' /\ GrantIsFresh'
          /\ UserIsSeen' /\ CacheIsCurrent'
      BY <1>3, <1>a DEF Check, clusterVars, UserIsSeen, CacheIsCurrent, IsCopy
    <2>3. CASE worker' = Idle \/ worker' = [worker EXCEPT !.step = "status"]
      <3>1. ~At("check")' /\ ~At("delete")' /\ ~At("unfinalize")'
        BY <2>1, <2>3 DEF At, Work
      <3>2. WorkerIsCurrent' /\ DeletesUnused' /\ StripsDisposable'
        BY <1>3, <3>1 DEF Check, clusterVars, WorkerIsCurrent, DeletesUnused,
           StripsDisposable, Disposable
      <3> QED
        BY <2>2, <3>2
    <2>4. CASE /\ worker.claim.machine \notin machineCache
               /\ worker.claim.aged
               /\ worker' = [worker EXCEPT !.step = "delete"]
      <3>1. /\ worker'.step = "delete" /\ worker'.eni = worker.eni
            /\ worker'.claim = worker.claim
        BY <2>1, <2>4 DEF Work
      <3>2. worker.claim.finalizer /\ IsCopy(worker.claim, worker.eni)
        BY <1>3, <2>4 DEF Check, WorkerIsCurrent
      <3>3. ~Attached(worker.eni)
        BY <1>0, <2>1, <2>4, <3>2
           DEF Attached, MachineHoldsClaim, UserIsSeen, IsCopy
      <3>4. WorkerIsCurrent' /\ DeletesUnused' /\ StripsDisposable'
        BY <1>3, <2>4, <3>1, <3>2, <3>3
           DEF Check, clusterVars, WorkerIsCurrent, DeletesUnused,
           StripsDisposable, Disposable, Attached, At, IsCopy
      <3> QED
        BY <2>2, <3>4
    <2> QED
      BY <1>3, <2>3, <2>4
         DEF Check, MachineNotFound, Expired, Recheck, Resync, Requeue
  <1>4. CASE Delete
    <2>1. /\ worker # Idle /\ worker.eni \in ENI
          /\ IsCopy(worker.claim, worker.eni)
      BY <1>0, <1>4 DEF Delete, Store, At, WorkerIsCurrent, DeletesUnused
    <2>2. ~Attached(worker.eni) /\ ~Granted(worker.eni)
      BY <1>4, DeletesUngranted DEF Delete, Store, DeletesUnused
    <2> DEFINE d == [claims[worker.eni] EXCEPT !.deleting = TRUE]
    <2>3. /\ claims[worker.eni] \in Claim
          /\ d \in Claim /\ d.deleting /\ d.finalizer /\ d.aged
          /\ d.machine = claims[worker.eni].machine
      <3>1. /\ claims[worker.eni] \in Claim
            /\ claims[worker.eni].finalizer /\ claims[worker.eni].aged
        BY <2>1 DEF IsCopy
      <3> QED
        BY <3>1 DEF Claim
    <2>4. claims' = [claims EXCEPT ![worker.eni] = d]
      BY <1>4, <2>1 DEF Delete, Store, AfterDelete, IsCopy
    <2> HIDE DEF d
    <2>5. /\ claims'[worker.eni] = d /\ d # NoClaim
          /\ \A e \in ENI : e # worker.eni => claims'[e] = claims[e]
      BY <2>1, <2>3, <2>4, ClaimAssumption
    <2>6. MachineHoldsClaim' /\ UserIsSeen'
      BY <1>4, <2>2, <2>5
         DEF Delete, Store, MachineHoldsClaim, UserIsSeen, Attached
    <2>7. GrantHoldsClaim' /\ GrantIsFresh'
      BY <1>4, <2>2, <2>5
         DEF Delete, Store, GrantHoldsClaim, GrantIsFresh, Attached, Granted, Answered
    <2>8. CacheIsCurrent'
      BY <1>4, <2>1, <2>3, <2>5 DEF Delete, Store, CacheIsCurrent, IsCopy
    <2>9. worker' = Idle
      BY <1>4 DEF Delete, Store, Done, Requeue
    <2>10. WorkerIsCurrent' /\ DeletesUnused' /\ StripsDisposable'
      BY <1>4, <2>3, <2>5, <2>9 DEF Delete, Store, WorkerIsCurrent, DeletesUnused,
         StripsDisposable, At, Disposable
    <2> QED
      BY <2>6, <2>7, <2>8, <2>10
  <1>5. CASE UpdateStatus
    <2>1. \A e \in ENI : Alike(claims[e], claims'[e])
      <3>1. CASE UNCHANGED claims
        BY <3>1 DEF Alike
      <3>2. CASE /\ worker # Idle /\ claims[worker.eni] = worker.claim
                 /\ claims' = [claims EXCEPT ![worker.eni].status =
                                                 worker.phase]
        <4>1. worker \in Work
          BY <3>2
        <4>2. /\ claims[worker.eni] \in Claim
              /\ worker.eni \in ENI /\ worker.phase \in {"Bound", "Failed"}
          BY <1>0, <3>2, <4>1 DEF Work
        <4>3. Alike(claims[worker.eni],
                    [claims[worker.eni] EXCEPT !.status = worker.phase])
          <5>1. [claims[worker.eni] EXCEPT !.status = worker.phase] \in Claim
            BY <4>2 DEF Claim
          <5> QED
            BY <4>2, <5>1, ClaimAssumption DEF Alike, Claim
        <4> QED
          BY <3>2, <4>2, <4>3 DEF Alike
      <3> QED
        BY <1>5, <3>1, <3>2 DEF UpdateStatus, Store, At
    <2>2. worker' = Idle
      BY <1>5 DEF UpdateStatus, Store, Requeue
    <2>3. /\ MachineHoldsClaim' /\ GrantHoldsClaim' /\ GrantIsFresh'
          /\ UserIsSeen' /\ CacheIsCurrent'
          /\ \A e \in ENI : Disposable(claims[e]) => Disposable(claims'[e])
      BY <1>5, <2>1, AlikeClaims DEF UpdateStatus, Store
    <2>4. WorkerIsCurrent' /\ DeletesUnused' /\ StripsDisposable'
      BY <1>5, <2>2, <2>3 DEF UpdateStatus, Store, WorkerIsCurrent, DeletesUnused,
         StripsDisposable, At
    <2> QED
      BY <2>3, <2>4
  <1>6. CASE Unfinalize
    <2>1. /\ worker # Idle /\ worker.eni \in ENI
          /\ Disposable(claims[worker.eni])
          /\ Disposable(claimCache[worker.eni])
      BY <1>0, <1>6 DEF Unfinalize, Store, At, StripsDisposable
    <2> DEFINE d == AfterUnfinalize(claims[worker.eni])
    <2>2. /\ claims' = [claims EXCEPT ![worker.eni] = d]
          /\ d \in Claim \cup {NoClaim}
      BY <1>6, <2>1, RemovalTypes DEF Unfinalize, Store
    <2>3. \/ d = NoClaim /\ claims[worker.eni] = NoClaim
          \/ /\ d = NoClaim /\ claims[worker.eni] # NoClaim
             /\ claims[worker.eni].deleting
          \/ /\ d # NoClaim /\ claims[worker.eni] # NoClaim
             /\ d.machine = claims[worker.eni].machine
             /\ ~d.deleting /\ ~d.aged
      <3>1. CASE claims[worker.eni] = NoClaim
        BY <3>1 DEF AfterUnfinalize
      <3>2. CASE claims[worker.eni] # NoClaim
        <4>1. claims[worker.eni] \in Claim
          BY <2>1, <3>2
        <4>2. CASE claims[worker.eni].deleting
          BY <3>2, <4>2 DEF AfterUnfinalize
        <4>3. CASE ~claims[worker.eni].deleting
          <5>1. /\ d = [claims[worker.eni] EXCEPT !.finalizer = FALSE]
                /\ ~claims[worker.eni].aged
            BY <2>1, <3>2, <4>3 DEF AfterUnfinalize, Disposable
          <5>2. /\ d \in Claim /\ d.machine = claims[worker.eni].machine
                /\ ~d.deleting /\ ~d.aged
            BY <4>1, <4>3, <5>1 DEF Claim
          <5> QED
            BY <3>2, <5>2, ClaimAssumption
        <4> QED
          BY <4>2, <4>3
      <3> QED
        BY <3>1, <3>2
    <2> HIDE DEF d
    <2>4. /\ claims'[worker.eni] = d
          /\ \A e \in ENI : e # worker.eni => claims'[e] = claims[e]
      BY <2>1, <2>2
    <2>5. MachineHoldsClaim' /\ UserIsSeen'
      BY <1>6, <2>3, <2>4 DEF Unfinalize, Store, MachineHoldsClaim, UserIsSeen
    <2>6. GrantHoldsClaim' /\ GrantIsFresh'
      BY <1>6, <2>3, <2>4
         DEF Unfinalize, Store, GrantHoldsClaim, GrantIsFresh, Attached, Answered
    <2>7. CacheIsCurrent'
      BY <1>6, <2>1, <2>4
         DEF Unfinalize, Store, CacheIsCurrent, IsCopy, Disposable
    <2>8. worker' = Idle
      BY <1>6 DEF Unfinalize, Store, Done, Requeue
    <2>9. WorkerIsCurrent' /\ DeletesUnused' /\ StripsDisposable'
      BY <1>6, <2>3, <2>4, <2>8 DEF Unfinalize, Store, WorkerIsCurrent,
         DeletesUnused, StripsDisposable, At, Disposable
    <2> QED
      BY <2>5, <2>6, <2>7, <2>9
  <1>7. CASE SyncClaims
    BY <1>0, <1>7, <1>a
       DEF SyncClaims, UserIsSeen, CacheIsCurrent, WorkerIsCurrent,
       DeletesUnused, StripsDisposable, Attached, At, IsCopy, Disposable
  <1> QED
    BY <1>1, <1>2, <1>3, <1>4, <1>5, <1>6, <1>7 DEF ControllerNext

(***************************************************************************)
(* A claim that is created while no answer is given disturbs nothing.      *)
(***************************************************************************)
LEMMA NewClaimSafe ==
    ASSUME Safe, TypeOK', NEW e \in ENI, NEW c \in Claim, claims[e] = NoClaim,
           ~c.deleting, ~c.aged, claims' = [claims EXCEPT ![e] = c],
           UNCHANGED <<machines, claimCache, machineCache, controllerVars>>,
           \A r \in Request : Answered(r)' =>
               Answered(r) /\ requests'[r] = requests[r]
    PROVE  Safe'
  <1> USE DEF Safe, TypeOK, ClusterTypeOK
  <1>0. worker # Idle => worker.eni \in ENI
    BY WorkerFields
  <1>1. /\ claims'[e] = c /\ c # NoClaim
        /\ \A f \in ENI : f # e => claims'[f] = claims[f]
    BY ClaimAssumption
  <1>2. MachineHoldsClaim' /\ UserIsSeen'
    BY <1>1 DEF MachineHoldsClaim, UserIsSeen
  <1>3. GrantHoldsClaim' /\ GrantIsFresh'
    BY <1>1 DEF GrantHoldsClaim, GrantIsFresh, Attached
  <1>4. CacheIsCurrent' /\ WorkerIsCurrent' /\ DeletesUnused'
    BY <1>0, <1>1 DEF controllerVars, CacheIsCurrent,
       WorkerIsCurrent, DeletesUnused, Attached, At, IsCopy
  <1>5. StripsDisposable'
    BY <1>0, <1>1 DEF controllerVars, StripsDisposable, At, Disposable
  <1> QED
    BY <1>2, <1>3, <1>4, <1>5

(* Every step of the system preserves the invariant. *)
LEMMA SafeNext == Safe /\ CacheIsComplete /\ [Next]_vars => Safe'
  <1> SUFFICES ASSUME Safe, CacheIsComplete, [Next]_vars PROVE Safe'
    OBVIOUS
  <1> TypeOK /\ TypeOK'
    BY TypeNext DEF Safe
  <1>0. worker # Idle => worker.eni \in ENI
    BY WorkerFields DEF TypeOK
  <1>1. CASE UNCHANGED vars
    BY <1>1, NoNewGrant DEF vars, Answered
  <1>2. CASE WebhookNext /\ UNCHANGED controllerVars
    BY <1>2, WebhookSafe
  <1>3. CASE ControllerNext /\ UNCHANGED requests
    BY <1>3, ControllerSafe
  <1> USE DEF Safe, TypeOK, ClusterTypeOK
  <1>4. ASSUME NEW m \in Machine, MachineGone(m),
               UNCHANGED <<requests, controllerVars>>
        PROVE  Safe'
    <2>1. \A n \in Machine, e \in ENI :
             machines'[n] = e => machines[n] = e
      BY <1>4, MachineAssumption DEF MachineGone, Attachment
    <2>2. MachineHoldsClaim' /\ UserIsSeen'
      BY <1>4, <2>1 DEF MachineGone, MachineHoldsClaim, UserIsSeen
    <2>3. \A e \in ENI : Attached(e)' => Attached(e)
      BY <2>1 DEF Attached
    <2>4. GrantHoldsClaim' /\ GrantIsFresh'
      BY <1>4, <2>3 DEF MachineGone, GrantHoldsClaim, GrantIsFresh, Answered
    <2>5. CacheIsCurrent' /\ WorkerIsCurrent' /\ StripsDisposable'
      BY <1>4 DEF MachineGone, controllerVars, CacheIsCurrent,
         WorkerIsCurrent, StripsDisposable, At, IsCopy, Disposable
    <2>6. DeletesUnused'
      BY <1>0, <1>4, <2>3 DEF controllerVars, DeletesUnused, At
    <2> QED
      BY <2>2, <2>4, <2>5, <2>6
  <1>5. CASE SyncMachines /\ UNCHANGED <<requests, controllerVars>>
    <2>1. UserIsSeen'
      BY <1>5, MachineAssumption DEF SyncMachines, UserIsSeen, Existing,
         Attachment
    <2>2. MachineHoldsClaim' /\ GrantHoldsClaim' /\ GrantIsFresh'
      BY <1>5 DEF SyncMachines, MachineHoldsClaim, GrantHoldsClaim,
         GrantIsFresh, Attached, Answered
    <2>3. /\ CacheIsCurrent' /\ WorkerIsCurrent' /\ DeletesUnused'
          /\ StripsDisposable'
      BY <1>5 DEF SyncMachines, controllerVars, CacheIsCurrent,
         WorkerIsCurrent, DeletesUnused, StripsDisposable, Attached, At,
         IsCopy, Disposable
    <2> QED
      BY <2>1, <2>2, <2>3
  <1>6. ASSUME NEW e \in ENI, GraceExpires(e)
        PROVE  Safe'
    <2>1. /\ claims[e] \in Claim /\ claims[e] # NoClaim
          /\ claimCache[e] = claims[e] /\ ~claims[e].aged /\ ~Granted(e)
          /\ \A m \in Machine : machines[m] = e => m \in machineCache
      BY <1>6 DEF GraceExpires, Settled, CacheIsComplete
    <2> DEFINE d == [claims[e] EXCEPT !.aged = TRUE]
    <2>2. /\ d \in Claim /\ d.machine = claims[e].machine /\ d.aged
          /\ d.deleting = claims[e].deleting
          /\ d.finalizer = claims[e].finalizer
      BY <2>1 DEF Claim
    <2>3. /\ claims' = [claims EXCEPT ![e] = d]
          /\ claimCache' = [claimCache EXCEPT ![e] = d]
      BY <1>6, <2>1 DEF GraceExpires
    <2> HIDE DEF d
    <2>4. /\ claims'[e] = d /\ claimCache'[e] = d /\ d # NoClaim
          /\ \A f \in ENI : f # e => /\ claims'[f] = claims[f]
                                     /\ claimCache'[f] = claimCache[f]
      BY <2>2, <2>3, ClaimAssumption
    <2>5. MachineHoldsClaim' /\ UserIsSeen'
      <3>1. UNCHANGED <<machines, machineCache>>
        BY <1>6 DEF GraceExpires
      <3>2. MachineHoldsClaim'
        BY <2>2, <2>4, <3>1 DEF MachineHoldsClaim
      <3>3. UserIsSeen'
        BY <2>1, <2>4, <3>1 DEF UserIsSeen
      <3> QED
        BY <3>2, <3>3
    <2>6. GrantHoldsClaim' /\ GrantIsFresh'
      BY <1>6, <2>1, <2>2, <2>4 DEF GraceExpires, GrantHoldsClaim,
         GrantIsFresh, Granted, Attached, Answered
    <2>7. CacheIsCurrent'
      BY <2>2, <2>4 DEF CacheIsCurrent, IsCopy
    <2>8. /\ worker' # Idle <=> worker # Idle
          /\ ~Working(e) => UNCHANGED worker
          /\ Working(e) =>
                /\ worker'.step = worker.step /\ worker'.eni = e
                /\ worker.claim = claims[e] /\ worker'.claim = d
      BY <1>6, <2>4, WorkerAges DEF Safe
    <2>9. UNCHANGED machines
      BY <1>6 DEF GraceExpires
    <2>10. WorkerIsCurrent' /\ DeletesUnused' /\ StripsDisposable'
      <3>1. CASE ~Working(e)
        <4>1. WorkerIsCurrent' /\ DeletesUnused'
          BY <1>0, <2>4, <2>8, <2>9, <3>1
             DEF Working, WorkerIsCurrent, DeletesUnused, Attached, At, IsCopy
        <4>2. StripsDisposable'
          BY <1>0, <2>1, <2>2, <2>4, <2>8, <3>1
             DEF Working, StripsDisposable, At, Disposable
        <4> QED
          BY <4>1, <4>2
      <3>2. CASE Working(e)
        <4>1. /\ worker.eni = e
              /\ \A step : At(step)' <=> At(step)
          BY <2>8, <3>2 DEF Working, At
        <4>2. WorkerIsCurrent'
          BY <2>1, <2>2, <2>4, <2>8, <3>2, <4>1 DEF WorkerIsCurrent, IsCopy
        <4>3. DeletesUnused'
          BY <2>1, <2>8, <3>2, <4>1 DEF DeletesUnused
        <4>4. StripsDisposable'
          BY <2>1, <2>2, <2>4, <2>8, <3>2, <4>1
             DEF StripsDisposable, Disposable
        <4> QED
          BY <4>2, <4>3, <4>4
      <3> QED
        BY <3>1, <3>2
    <2> QED
      BY <2>5, <2>6, <2>7, <2>10
  <1>8. ASSUME NEW r \in Request, CreateFails(r), UNCHANGED controllerVars
        PROVE  Safe'
    <2>1. \A s \in Request : Answered(s)' =>
             Answered(s) /\ requests'[s] = requests[s]
      BY <1>8 DEF CreateFails, Store, Answered, WebhookTypeOK
    <2>2. CASE UNCHANGED claims
      BY <1>8, <2>1, <2>2, NoNewGrant DEF CreateFails, Store, clusterVars
    <2>3. ASSUME NEW e \in Lowest(requests[r].todo), claims[e] = NoClaim,
                 claims' = [claims EXCEPT ![e] =
                     NewClaim(requests[r].machine, requests[r].pool)]
          PROVE  Safe'
      <3>1. /\ e \in ENI
            /\ NewClaim(requests[r].machine, requests[r].pool) \in Claim
        BY <1>8, RequestFields, NewClaimTypes DEF CreateFails, Store, Lowest
      <3>2. /\ ~NewClaim(requests[r].machine, requests[r].pool).deleting
            /\ ~NewClaim(requests[r].machine, requests[r].pool).aged
        BY DEF NewClaim
      <3> QED
        BY <1>8, <2>1, <2>3, <3>1, <3>2, NewClaimSafe DEF CreateFails, Store
    <2> QED
      BY <1>8, <2>2, <2>3 DEF CreateFails, Store
  <1>9. ASSUME NEW e \in ENI, NEW m \in Machine, NEW p \in Pool,
               OperatorClaims(e, m, p)
        PROVE  Safe'
    <2> DEFINE c == [NewClaim(m, p) EXCEPT !.finalizer = FALSE]
    <2>1. c \in Claim /\ ~c.deleting /\ ~c.aged
      BY NewClaimTypes DEF NewClaim
    <2>2. claims[e] = NoClaim /\ claims' = [claims EXCEPT ![e] = c]
      BY <1>9 DEF OperatorClaims, Store
    <2> HIDE DEF c
    <2> QED
      BY <1>9, <2>1, <2>2, NewClaimSafe DEF OperatorClaims, Store, Answered
  <1>10. CASE WriteFails /\ UNCHANGED requests
    <2>1. worker' = Idle
      BY <1>10 DEF WriteFails, Requeue
    <2>2. /\ MachineHoldsClaim' /\ GrantHoldsClaim' /\ GrantIsFresh'
          /\ UserIsSeen' /\ CacheIsCurrent'
      BY <1>10 DEF WriteFails, clusterVars, MachineHoldsClaim,
         GrantHoldsClaim, GrantIsFresh, UserIsSeen, CacheIsCurrent, Attached,
         Answered, IsCopy
    <2>3. WorkerIsCurrent' /\ DeletesUnused' /\ StripsDisposable'
      BY <1>10, <2>1 DEF WriteFails, clusterVars, WorkerIsCurrent,
         DeletesUnused, StripsDisposable, At, Disposable
    <2> QED
      BY <2>2, <2>3
  <1>11. CASE Restart
    <2>1. \A s \in Request : Answered(s)' =>
             Answered(s) /\ requests'[s] = requests[s]
      BY <1>11 DEF Restart, Answered
    <2>2. MachineHoldsClaim' /\ GrantHoldsClaim' /\ GrantIsFresh'
      BY <1>11, <2>1 DEF Restart, MachineHoldsClaim, GrantHoldsClaim,
         GrantIsFresh, Attached
    <2>3. UserIsSeen'
      BY <1>11, MachineAssumption
         DEF Restart, UserIsSeen, Existing, Attachment
    <2>4. CacheIsCurrent' /\ WorkerIsCurrent' /\ DeletesUnused'
          /\ StripsDisposable'
      BY <1>11 DEF Restart, CacheIsCurrent, WorkerIsCurrent, DeletesUnused,
         StripsDisposable, At, IsCopy, Disposable
    <2> QED
      BY <2>2, <2>3, <2>4
  <1>12. ASSUME NEW p \in Pool, OperatorEditsPool(p),
                UNCHANGED <<requests, controllerVars>>
         PROVE  Safe'
    BY <1>12 DEF OperatorEditsPool, controllerVars, MachineHoldsClaim,
       GrantHoldsClaim, GrantIsFresh, UserIsSeen, CacheIsCurrent,
       WorkerIsCurrent, DeletesUnused, StripsDisposable, Attached, Answered,
       At, IsCopy, Disposable
  <1>13. ASSUME NEW e \in ENI, OperatorReleases(e)
         PROVE  Safe'
    <2> DEFINE d == AfterDelete(claims[e])
    <2>1. /\ claims[e] \in Claim /\ ~Granted(e) /\ ~Attached(e)
          /\ claims' = [claims EXCEPT ![e] = d]
      BY <1>13 DEF OperatorReleases, Store
    <2>2. \/ d = NoClaim /\ ~claims[e].finalizer
          \/ /\ d # NoClaim /\ d.machine = claims[e].machine
             /\ d.deleting /\ d.aged = claims[e].aged /\ d.finalizer
      <3>1. [claims[e] EXCEPT !.deleting = TRUE] \in Claim
        BY <2>1 DEF Claim
      <3> QED
        BY <2>1, <3>1, ClaimAssumption DEF AfterDelete, Claim
    <2> HIDE DEF d
    <2>3. /\ claims'[e] = d
          /\ \A f \in ENI : f # e => claims'[f] = claims[f]
      BY <2>1
    <2>4. MachineHoldsClaim' /\ UserIsSeen'
      BY <1>13, <2>1, <2>3
         DEF OperatorReleases, Store, MachineHoldsClaim, UserIsSeen, Attached
    <2>5. GrantHoldsClaim' /\ GrantIsFresh'
      BY <1>13, <2>1, <2>3 DEF OperatorReleases, Store, GrantHoldsClaim,
         GrantIsFresh, Granted, Attached, Answered
    <2>6. CacheIsCurrent' /\ WorkerIsCurrent' /\ DeletesUnused'
      BY <1>0, <1>13, <2>2, <2>3 DEF OperatorReleases, Store, controllerVars,
         CacheIsCurrent, WorkerIsCurrent, DeletesUnused, Attached, At, IsCopy
    <2>7. StripsDisposable'
      BY <1>0, <1>13, <2>2, <2>3 DEF OperatorReleases, Store, controllerVars,
         StripsDisposable, At, Disposable
    <2> QED
      BY <2>4, <2>5, <2>6, <2>7
  <1>14. ASSUME NEW e \in ENI, NEW m \in Machine, NEW p \in Pool,
                OperatorUpdates(e, m, p)
         PROVE  Safe'
    <2>1. \A f \in ENI : Alike(claims[f], claims'[f])
      BY <1>14, UpdatedClaim, ClaimAssumption DEF Alike
    <2>2. UNCHANGED <<machines, claimCache, machineCache, requests, worker>>
      BY <1>14 DEF OperatorUpdates, controllerVars
    <2>3. /\ MachineHoldsClaim' /\ GrantHoldsClaim' /\ GrantIsFresh'
          /\ UserIsSeen' /\ CacheIsCurrent'
          /\ \A f \in ENI : Disposable(claims[f]) => Disposable(claims'[f])
          /\ \A f \in ENI : \A c : IsCopy(c, f) => IsCopy(c, f)'
      BY <2>1, <2>2, AlikeClaims
    <2>4. WorkerIsCurrent' /\ DeletesUnused' /\ StripsDisposable'
      BY <1>0, <2>2, <2>3 DEF WorkerIsCurrent, DeletesUnused,
         StripsDisposable, At, Attached, Disposable
    <2> QED
      BY <2>3, <2>4
  <1> QED
    BY <1>1, <1>2, <1>3, <1>4, <1>5, <1>6, <1>8, <1>9, <1>10, <1>11, <1>12,
       <1>13, <1>14 DEF Next, SystemNext, FaultNext, OperatorNext, PoolNext

(***************************************************************************)
(* The informer misses no change: every write is an event.                 *)
(***************************************************************************)
LEMMA CompleteNext ==
    TypeOK /\ CacheIsComplete /\ [Next]_vars => CacheIsComplete'
  <1> SUFFICES ASSUME TypeOK, CacheIsComplete, [Next]_vars
               PROVE  CacheIsComplete'
    OBVIOUS
  <1> USE DEF TypeOK, ClusterTypeOK, CacheIsComplete
  <1>1. ASSUME UNCHANGED <<claims, claimCache, unseen>>
        PROVE  CacheIsComplete'
    BY <1>1
  <1>2. ASSUME NEW e, NEW c, Store(e, c), UNCHANGED claimCache
        PROVE  CacheIsComplete'
    BY <1>2 DEF Store
  <1>3. ASSUME claimCache' = claims, UNCHANGED claims
        PROVE  CacheIsComplete'
    BY <1>3
  <1>4. CASE WebhookNext
    BY <1>1, <1>2, <1>4 DEF WebhookNext, RequestNext, Bypass, Admit, ClaimNext,
       AlreadyExists, Exhausted, Persist, Abort, clusterVars
  <1>5. CASE ControllerNext
    <2>1. CASE \E e \in ENI : Begin(e)
      BY <1>1, <2>1 DEF Begin, clusterVars
    <2>2. CASE Finalize
      BY <1>1, <1>2, <2>2 DEF Finalize
    <2>3. CASE Check
      BY <1>1, <2>3 DEF Check, clusterVars
    <2>4. CASE Delete
      BY <1>2, <2>4 DEF Delete
    <2>5. CASE UpdateStatus
      BY <1>1, <1>2, <2>5 DEF UpdateStatus
    <2>6. CASE Unfinalize
      BY <1>2, <2>6 DEF Unfinalize
    <2>7. CASE SyncClaims
      BY <1>3, <2>7 DEF SyncClaims
    <2> QED
      BY <1>5, <2>1, <2>2, <2>3, <2>4, <2>5, <2>6, <2>7 DEF ControllerNext
  <1>6. ASSUME NEW e \in ENI, GraceExpires(e)
        PROVE  CacheIsComplete'
    BY <1>6 DEF GraceExpires, Settled
  <1>7. CASE FaultNext
    BY <1>1, <1>2, <1>3, <1>7
       DEF FaultNext, CreateFails, WriteFails, Restart, clusterVars
  <1>8. CASE OperatorNext
    BY <1>1, <1>2, <1>8 DEF OperatorNext, PoolNext, OperatorEditsPool,
       OperatorClaims, OperatorUpdates, OperatorReleases
  <1>9. CASE \/ UNCHANGED vars \/ SyncMachines
             \/ \E m \in Machine : MachineGone(m)
    BY <1>1, <1>9 DEF vars, clusterVars, SyncMachines, MachineGone
  <1> QED
    BY <1>4, <1>5, <1>6, <1>7, <1>8, <1>9 DEF Next, SystemNext

(***************************************************************************)
(* THE TYPES.  Every object, request and reconciliation always has its     *)
(* shape, whatever fails.                                                  *)
(***************************************************************************)
THEOREM TypeCorrect == Spec => []TypeOK
  <1>1. Init => TypeOK /\ CacheIsComplete
    BY TypeInit DEF CacheIsComplete, Init, ClusterInit
  <1> QED
    BY <1>1, TypeNext, CompleteNext, PTL DEF Spec

(***************************************************************************)
(* THE INVARIANT of the allocator, over all its interleavings, faults,     *)
(* restarts and operators.                                                 *)
(***************************************************************************)
THEOREM Safety == Spec => []IInv
  <1>1. Init => IInv
    BY SafeInit DEF IInv, CacheIsComplete, Init, ClusterInit
  <1>2. IInv /\ [Next]_vars => IInv'
    BY SafeNext, CompleteNext DEF IInv, Safe
  <1> QED
    BY <1>1, <1>2, PTL DEF Spec

(***************************************************************************)
(* The interface of an AWSMachine stays claimed for it until the           *)
(* AWSMachine is gone: neither a reconciliation from stale caches nor a    *)
(* lost answer takes it away.                                              *)
(***************************************************************************)
THEOREM MachinesHoldTheirClaims == Spec => []MachineHoldsClaim
  <1>1. IInv => MachineHoldsClaim
    BY DEF IInv, Safe
  <1> QED
    BY <1>1, Safety, PTL

(***************************************************************************)
(* An interface promised to a request in progress is claimed for it alone. *)
(***************************************************************************)
THEOREM GrantsHoldTheirClaims == Spec => []GrantHoldsClaim
  <1>1. IInv => GrantHoldsClaim
    BY DEF IInv, Safe
  <1> QED
    BY <1>1, Safety, PTL

(***************************************************************************)
(* No two AWSMachines are ever given the same interface.                   *)
(***************************************************************************)
THEOREM NoSharedInterface == Spec => []Exclusive
  <1>1. IInv => Exclusive
    BY DEF IInv, Safe, MachineHoldsClaim, Exclusive
  <1> QED
    BY <1>1, Safety, PTL

-----------------------------------------------------------------------------
(***************************************************************************)
(* Nothing is forgotten.  A claim that is stored is sound: if it is being  *)
(* deleted, it has its finalizer.                                          *)
(***************************************************************************)
Sound(c) == c # NoClaim /\ c.deleting => c.finalizer

LEMMA StoredSound ==
    ASSUME NEW c \in Claim \cup {NoClaim}
    PROVE  /\ Sound(AfterDelete(c)) /\ Sound(AfterUnfinalize(c))
           /\ \A m, p : /\ Sound(NewClaim(m, p))
                        /\ Sound([NewClaim(m, p) EXCEPT !.finalizer = FALSE])
           /\ c # NoClaim => Sound([c EXCEPT !.finalizer = TRUE])
           /\ \A s : c # NoClaim /\ Sound(c) => Sound([c EXCEPT !.status = s])
  <1>1. CASE c = NoClaim
    BY <1>1 DEF AfterDelete, AfterUnfinalize, Sound, NewClaim
  <1>2. CASE c \in Claim
    <2>1. Sound(AfterDelete(c)) /\ Sound(AfterUnfinalize(c))
      BY <1>2 DEF AfterDelete, AfterUnfinalize, Sound, Claim
    <2>2. /\ \A m, p : /\ Sound(NewClaim(m, p))
                       /\ Sound([NewClaim(m, p) EXCEPT !.finalizer = FALSE])
          /\ Sound([c EXCEPT !.finalizer = TRUE])
      BY <1>2 DEF Sound, NewClaim, Claim
    <2>3. \A s : Sound(c) => Sound([c EXCEPT !.status = s])
      BY <1>2, ClaimAssumption DEF Sound, Claim
    <2> QED
      BY <2>1, <2>2, <2>3
  <1> QED
    BY <1>1, <1>2

(***************************************************************************)
(* A step forgets nothing if what is due stays due, a claim that changes   *)
(* becomes due, and the worker goes on with what it does or leaves its     *)
(* claim due.                                                              *)
(***************************************************************************)
Unaffected(e) == /\ claims[e] = NoClaim <=> claims'[e] = NoClaim
                 /\ claims[e] # NoClaim =>
                       /\ claims'[e].deleting = claims[e].deleting
                       /\ claims'[e].finalizer = claims[e].finalizer

WorksOn(e) == Working(e)' /\ (At("unfinalize")' <=> At("unfinalize"))

LEMMA WakeKept ==
    ASSUME WakeInv,
           \A e \in ENI : claims'[e] # NoClaim /\ Due(e) => Due(e)',
           \A e \in ENI : Unaffected(e) \/ (Due(e)' /\ Sound(claims'[e])),
           \A e \in ENI : Working(e)' => Working(e),
           \A e \in ENI : Working(e) /\ claims'[e] # NoClaim =>
               Due(e)' \/ WorksOn(e)
    PROVE  WakeInv'
  <1> USE DEF WakeInv
  <1>1. NoClaimForgotten'
    BY DEF NoClaimForgotten, Unaffected, WorksOn
  <1>2. ASSUME NEW e \in ENI, claims'[e] # NoClaim, claims'[e].deleting
        PROVE  claims'[e].finalizer
    BY <1>2 DEF Unaffected, Sound
  <1>3. ASSUME NEW e \in ENI, claims'[e] # NoClaim, Working(e)'
        PROVE  Due(e)' \/ (claims'[e].deleting <=> At("unfinalize")')
    BY <1>3 DEF Unaffected, WorksOn
  <1> QED
    BY <1>1, <1>2, <1>3

(* A step that stores claim f, or nothing, and leaves the worker alone. *)
LEMMA StoreWakes ==
    ASSUME ClusterTypeOK, WakeInv, NEW f \in ENI, NEW c, Sound(c),
           Store(f, c), UNCHANGED controllerVars
    PROVE  WakeInv'
  <1>1. \A e \in ENI : Due(e) => Due(e)'
    BY DEF Due, Store, controllerVars
  <1>2. ASSUME NEW e \in ENI
        PROVE  Unaffected(e) \/ (Due(e)' /\ Sound(claims'[e]))
    <2>1. CASE claims'[e] = claims[e]
      BY <2>1 DEF Unaffected
    <2>2. CASE claims'[e] # claims[e]
      BY <2>2 DEF ClusterTypeOK, Store, Due
    <2> QED
      BY <2>1, <2>2
  <1>3. \A e \in ENI : Working(e) => WorksOn(e)
    BY DEF WorksOn, Working, At, controllerVars
  <1>4. \A e \in ENI : Working(e)' => Working(e)
    BY DEF Working, controllerVars
  <1> QED
    BY <1>1, <1>2, <1>3, <1>4, WakeKept

(***************************************************************************)
(* A write of the worker, after which it goes on, or gives up its claim,   *)
(* which is gone or due.                                                   *)
(***************************************************************************)
LEMMA WorkerWakes ==
    ASSUME ClusterTypeOK, ControllerTypeOK, WakeInv, worker # Idle,
           queue \subseteq queue',
           \/ UNCHANGED <<claims, unseen>>
           \/ \E c : Sound(c) /\ Store(worker.eni, c),
           \/ /\ worker' # Idle /\ worker'.eni = worker.eni
              /\ At("unfinalize")' <=> At("unfinalize")
           \/ /\ worker' = Idle
              /\ claims'[worker.eni] # NoClaim =>
                    worker.eni \in unseen' \cup queue'
    PROVE  WakeInv'
  <1>0. worker.eni \in ENI
    BY WorkerFields
  <1>1. \A e \in ENI : Due(e) => Due(e)'
    BY DEF Due, Store
  <1>2. ASSUME NEW e \in ENI
        PROVE  Unaffected(e) \/ (Due(e)' /\ Sound(claims'[e]))
    <2>1. CASE claims'[e] = claims[e]
      BY <2>1 DEF Unaffected
    <2>2. CASE claims'[e] # claims[e]
      BY <1>0, <2>2 DEF ClusterTypeOK, Store, Due
    <2> QED
      BY <2>1, <2>2
  <1>3. \A e \in ENI : Working(e) /\ claims'[e] # NoClaim =>
                          Due(e)' \/ WorksOn(e)
    BY DEF WorksOn, Working, Due
  <1>4. \A e \in ENI : Working(e)' => Working(e)
    BY DEF Working
  <1> QED
    BY <1>1, <1>2, <1>3, <1>4, WakeKept

(* What the reconciler begins with is work. *)
LEMMA BeginIsWork ==
    ASSUME TypeOK, NEW f \in ENI, claimCache[f] # NoClaim
    PROVE  \A step \in {"finalize", "check", "unfinalize"},
              phase \in {"Bound", "Failed"} :
              [step |-> step, eni |-> f, claim |-> claimCache[f],
               phase |-> phase] # Idle
  BY WorkerAssumption DEF TypeOK, ClusterTypeOK, Work

(***************************************************************************)
(* Every step of the ENIClaim reconciler forgets nothing.                  *)
(***************************************************************************)
LEMMA ControllerWakes ==
    ASSUME TypeOK, CacheIsComplete, WakeInv, ControllerNext
    PROVE  WakeInv'
  <1>0. /\ ClusterTypeOK /\ ControllerTypeOK
        /\ claims \in [ENI -> Claim \cup {NoClaim}]
        /\ worker # Idle => /\ worker \in Work /\ worker.eni \in ENI
                            /\ claims[worker.eni] \in Claim \cup {NoClaim}
    BY WorkerFields DEF TypeOK, ClusterTypeOK, ControllerTypeOK
  <1>1. ASSUME NEW f \in ENI, Begin(f)
        PROVE  WakeInv'
    <2>1. /\ UNCHANGED <<claims, claimCache, unseen>>
          /\ worker = Idle
          /\ queue \ {f} \subseteq queue'
      BY <1>1 DEF Begin, clusterVars, controllerVars
    <2>2. ASSUME f \notin unseen, f \notin queue', claims[f] # NoClaim
          PROVE  /\ Working(f)'
                 /\ claims[f].deleting <=> At("unfinalize")'
      <3>1. claimCache[f] = claims[f]
        BY <2>2 DEF CacheIsComplete
      <3>2. claims[f].deleting => claims[f].finalizer
        BY <2>2 DEF WakeInv
      <3>3. \/ /\ worker' # Idle /\ worker'.eni = f
               /\ worker'.step = "unfinalize"
               /\ claims[f].deleting
            \/ /\ worker' # Idle /\ worker'.eni = f
               /\ worker'.step \in {"check", "finalize"}
               /\ ~claims[f].deleting
        <4>1. \A spec : PhaseIn(spec, f) \in {"Bound", "Failed"}
          BY DEF PhaseIn
        <4>2. PICK step \in {"check", "finalize", "unfinalize"},
                   phase \in {"Bound", "Failed"} :
                 /\ worker' = [step |-> step, eni |-> f,
                               claim |-> claimCache[f], phase |-> phase]
                 /\ claims[f].deleting <=> step = "unfinalize"
          BY <1>1, <2>2, <3>1, <3>2, <4>1 DEF Begin, controllerVars
        <4>3. worker' # Idle
          BY <2>2, <3>1, <4>2, BeginIsWork
        <4> QED
          BY <4>2, <4>3
      <3> QED
        BY <3>3 DEF Working, At
    <2>3. \A e \in ENI : Working(e)' => e = f
      BY <1>1, <2>1 DEF Begin, Working, controllerVars
    <2>4. \A e \in ENI \ {f} : Due(e) => Due(e)'
      BY <2>1 DEF Due
    <2>5. \A e \in ENI : ~Working(e)
      BY <2>1 DEF Working
    <2>6. NoClaimForgotten'
      BY <2>1, <2>2, <2>4, <2>5 DEF WakeInv, NoClaimForgotten, Due
    <2>7. \A e \in ENI : claims[e] # NoClaim /\ Working(e)' =>
             Due(e)' \/ (claims[e].deleting <=> At("unfinalize")')
      BY <2>1, <2>2, <2>3 DEF Due
    <2> QED
      BY <2>1, <2>6, <2>7 DEF WakeInv
  <1>2. CASE Finalize
    <2>1. worker # Idle /\ worker.step = "finalize"
      BY <1>2 DEF Finalize, At
    <2>2. \/ UNCHANGED <<claims, unseen>>
          \/ \E c : Sound(c) /\ Store(worker.eni, c)
      BY <1>0, <1>2, <2>1, StoredSound DEF Finalize, TakesFinalizer
    <2>3. \/ /\ worker' = [worker EXCEPT !.step = "check",
                                         !.claim = claims'[worker.eni]]
             /\ TakesFinalizer(claims[worker.eni])
             /\ claims'[worker.eni] =
                   [claims[worker.eni] EXCEPT !.finalizer = TRUE]
             /\ UNCHANGED queue
          \/ Requeue
      BY <1>0, <1>2, <2>1 DEF Finalize, Store
    <2>4. CASE Requeue
      BY <1>0, <2>1, <2>2, <2>4, WorkerWakes DEF Requeue
    <2>5. CASE ~Requeue
      <3>1. claims'[worker.eni] \in Claim
        BY <1>0, <2>1, <2>3, <2>5 DEF TakesFinalizer, Claim
      <3>2. /\ worker' \in Work
            /\ worker'.eni = worker.eni /\ worker'.step = "check"
        BY <1>0, <2>1, <2>3, <2>5, <3>1 DEF Work
      <3> QED
        BY <1>0, <2>1, <2>2, <2>3, <2>5, <3>2, WorkerWakes, WorkerAssumption
           DEF At
    <2> QED
      BY <2>3, <2>4, <2>5
  <1>3. CASE Check
    <2>1. worker # Idle /\ worker.step = "check" /\ UNCHANGED <<claims, unseen>>
      BY <1>3 DEF Check, At, clusterVars
    <2>2. CASE Requeue
      BY <1>0, <2>1, <2>2, WorkerWakes DEF Requeue
    <2>3. ASSUME NEW s \in {"delete", "status"},
                 worker' = [worker EXCEPT !.step = s], UNCHANGED queue
          PROVE  WakeInv'
      <3>1. worker' \in Work /\ worker'.eni = worker.eni /\ worker'.step = s
        BY <1>0, <2>1, <2>3 DEF Work
      <3> QED
        BY <1>0, <2>1, <2>3, <3>1, WorkerWakes, WorkerAssumption DEF At
    <2> QED
      BY <1>3, <2>2, <2>3 DEF Check, Recheck, Resync
  <1>4. CASE Delete
    <2>1. /\ worker # Idle /\ ~At("unfinalize")
          /\ Store(worker.eni, AfterDelete(claims[worker.eni]))
          /\ Done \/ Requeue
      BY <1>4 DEF Delete, At
    <2>2. Sound(AfterDelete(claims[worker.eni]))
      BY <1>0, <2>1, StoredSound
    <2>3. /\ claims'[worker.eni] = AfterDelete(claims[worker.eni])
          /\ claims'[worker.eni] # claims[worker.eni] =>
                worker.eni \in unseen'
          /\ unseen \subseteq unseen' /\ queue \subseteq queue'
      BY <1>0, <2>1 DEF Store, Done, Requeue
    <2>4. ASSUME claims'[worker.eni] = claims[worker.eni],
                 claims[worker.eni] # NoClaim
          PROVE  worker.eni \in unseen' \cup queue'
      <3>1. claims[worker.eni].deleting
        BY <1>0, <2>1, <2>3, <2>4 DEF AfterDelete, Claim
      <3> QED
        BY <1>0, <2>1, <2>3, <2>4, <3>1 DEF WakeInv, Working, Due
    <2> QED
      BY <1>0, <2>1, <2>2, <2>3, <2>4, WorkerWakes DEF Done, Requeue
  <1>5. CASE UpdateStatus
    <2>1. worker # Idle /\ Requeue
      BY <1>5 DEF UpdateStatus, At
    <2>2. CASE /\ claims[worker.eni] = worker.claim
               /\ Store(worker.eni, [worker.claim EXCEPT !.status = worker.phase])
      <3>1. worker.claim \in Claim /\ Sound(worker.claim)
        BY <1>0, <2>1, <2>2, WorkerFields DEF WakeInv, Sound
      <3>2. Sound([worker.claim EXCEPT !.status = worker.phase])
        BY <3>1, StoredSound, ClaimAssumption
      <3> QED
        BY <1>0, <2>1, <2>2, <3>2, WorkerWakes DEF Requeue
    <2>3. CASE UNCHANGED <<claims, unseen>>
      BY <1>0, <2>1, <2>3, WorkerWakes DEF Requeue
    <2> QED
      BY <1>5, <2>2, <2>3 DEF UpdateStatus
  <1>6. CASE Unfinalize
    <2>1. /\ worker # Idle /\ At("unfinalize")
          /\ Store(worker.eni, AfterUnfinalize(claims[worker.eni]))
          /\ Done \/ Requeue
      BY <1>6 DEF Unfinalize, At
    <2>2. Sound(AfterUnfinalize(claims[worker.eni]))
      BY <1>0, <2>1, StoredSound
    <2>3. /\ claims'[worker.eni] = AfterUnfinalize(claims[worker.eni])
          /\ claims'[worker.eni] # claims[worker.eni] =>
                worker.eni \in unseen'
          /\ unseen \subseteq unseen' /\ queue \subseteq queue'
      BY <1>0, <2>1 DEF Store, Done, Requeue
    <2>4. ASSUME claims'[worker.eni] = claims[worker.eni],
                 claims[worker.eni] # NoClaim
          PROVE  worker.eni \in unseen' \cup queue'
      <3>1. ~claims[worker.eni].deleting
        BY <2>3, <2>4 DEF AfterUnfinalize
      <3> QED
        BY <1>0, <2>1, <2>3, <2>4, <3>1 DEF WakeInv, Working, Due
    <2> QED
      BY <1>0, <2>1, <2>2, <2>3, <2>4, WorkerWakes DEF Done, Requeue
  <1>7. CASE SyncClaims
    <2>1. /\ UNCHANGED <<worker, claims>>
          /\ \A e \in ENI : Due(e) => Due(e)'
      BY <1>7 DEF SyncClaims, Due
    <2> QED
      BY <2>1, WakeKept DEF Unaffected, WorksOn, Working, At
  <1> QED
    BY <1>1, <1>2, <1>3, <1>4, <1>5, <1>6, <1>7 DEF ControllerNext

(* Neither does any other step of the system. *)
LEMMA WakeNext ==
    ASSUME TypeOK, CacheIsComplete, WakeInv, [Next]_vars
    PROVE  WakeInv'
  <1>0. ClusterTypeOK /\ WebhookTypeOK /\ ControllerTypeOK
    BY DEF TypeOK
  <1>1. ASSUME UNCHANGED <<claims, unseen>>, UNCHANGED controllerVars
        PROVE  WakeInv'
    BY <1>1, WakeKept
       DEF Unaffected, WorksOn, Working, At, Due, controllerVars
  <1>2. CASE ControllerNext
    BY <1>2, ControllerWakes
  <1>3. ASSUME NEW r \in Request, RequestNext(r) \/ CreateFails(r),
               UNCHANGED controllerVars
        PROVE  WakeInv'
    <2>1. ASSUME Claiming(r), NEW e \in Lowest(requests[r].todo),
                 Store(e, NewClaim(requests[r].machine, requests[r].pool))
          PROVE  WakeInv'
      <3>1. e \in ENI
        BY <1>0, <2>1, RequestFields DEF Lowest
      <3>2. Sound(NewClaim(requests[r].machine, requests[r].pool))
        BY DEF Sound, NewClaim
      <3> QED
        BY <1>0, <1>3, <2>1, <3>1, <3>2, StoreWakes
    <2> QED
      BY <1>1, <1>3, <2>1 DEF RequestNext, ClaimNext, AlreadyExists, Exhausted,
         Persist, Abort, CreateFails, clusterVars
  <1>4. ASSUME NEW f \in ENI, GraceExpires(f)
        PROVE  WakeInv'
    <2>1. /\ claims[f] \in Claim
          /\ claims' = [claims EXCEPT ![f].aged = TRUE]
          /\ UNCHANGED <<unseen, queue>>
      BY <1>0, <1>4 DEF GraceExpires, ClusterTypeOK
    <2> DEFINE d == [claims[f] EXCEPT !.aged = TRUE]
    <2>2. /\ d \in Claim /\ d.deleting = claims[f].deleting
          /\ d.finalizer = claims[f].finalizer
      BY <2>1 DEF Claim
    <2>3. claims' = [claims EXCEPT ![f] = d]
      BY <2>1
    <2> HIDE DEF d
    <2>4. \A e \in ENI : Unaffected(e)
      BY <1>0, <2>1, <2>2, <2>3, ClaimAssumption DEF ClusterTypeOK, Unaffected
    <2>5. \A e \in ENI : /\ Working(e)' <=> Working(e)
                         /\ Working(e) => WorksOn(e)
      <3>1. CASE ~Working(f)
        BY <1>4, <3>1, WorkerAges DEF WorksOn, Working, At
      <3>2. CASE Working(f)
        BY <1>4, <3>2, WorkerAges DEF WorksOn, Working, At
      <3> QED
        BY <3>1, <3>2
    <2>6. \A e \in ENI : Due(e) => Due(e)'
      BY <2>1 DEF Due
    <2> QED
      BY <2>4, <2>5, <2>6, WakeKept
  <1>5. CASE WriteFails
    BY <1>0, <1>5, WorkerWakes DEF WriteFails, Requeue, clusterVars
  <1>6. CASE Restart
    <2>1. /\ UNCHANGED claims /\ worker' = Idle
          /\ \A e \in ENI : claims'[e] # NoClaim => Due(e)'
      BY <1>6 DEF Restart, Due
    <2> QED
      BY <2>1, WakeKept DEF Unaffected, Working
  <1>7. ASSUME NEW e \in ENI, NEW m \in Machine, NEW p \in Pool,
               OperatorClaims(e, m, p)
        PROVE  WakeInv'
    <2>1. Sound([NewClaim(m, p) EXCEPT !.finalizer = FALSE])
      BY DEF Sound, NewClaim
    <2> QED
      BY <1>0, <1>7, <2>1, StoreWakes DEF OperatorClaims
  <1>8. ASSUME NEW e \in ENI, NEW m \in Machine, NEW p \in Pool,
               OperatorUpdates(e, m, p)
        PROVE  WakeInv'
    <2>1. PICK d \in Claim : /\ claims' = [claims EXCEPT ![e] = d]
                             /\ claims[e] \in Claim
                             /\ d.deleting = claims[e].deleting
                             /\ claims[e].finalizer => d.finalizer
      BY <1>0, <1>8, UpdatedClaim
    <2>2. PICK c : Store(e, c) /\ UNCHANGED controllerVars
      BY <1>8 DEF OperatorUpdates
    <2>3. c = d
      BY <1>0, <2>1, <2>2 DEF Store, ClusterTypeOK
    <2>4. Sound(d)
      BY <2>1, ClaimAssumption DEF WakeInv, Sound
    <2> QED
      BY <1>0, <2>2, <2>3, <2>4, StoreWakes
  <1>9. ASSUME NEW e \in ENI, OperatorReleases(e)
        PROVE  WakeInv'
    <2>1. Sound(AfterDelete(claims[e]))
      BY <1>0, StoredSound DEF ClusterTypeOK
    <2> QED
      BY <1>0, <1>9, <2>1, StoreWakes DEF OperatorReleases
  <1>10. ASSUME NEW m \in Machine, Bypass(m) \/ MachineGone(m),
                UNCHANGED controllerVars
         PROVE  WakeInv'
    BY <1>1, <1>10 DEF Bypass, MachineGone
  <1>11. ASSUME NEW r \in Request, NEW m \in Machine, Admit(r, m),
                UNCHANGED controllerVars
         PROVE  WakeInv'
    BY <1>1, <1>11 DEF Admit, clusterVars
  <1>12. ASSUME SyncMachines \/ (\E p \in Pool : OperatorEditsPool(p)),
                UNCHANGED controllerVars
         PROVE  WakeInv'
    BY <1>1, <1>12 DEF SyncMachines, OperatorEditsPool
  <1>13. CASE UNCHANGED vars
    BY <1>1, <1>13 DEF vars, clusterVars
  <1> QED
    BY <1>2, <1>3, <1>4, <1>5, <1>6, <1>7, <1>8, <1>9, <1>10, <1>11, <1>12,
       <1>13 DEF Next, SystemNext, FaultNext, OperatorNext, PoolNext, WebhookNext

(* Nothing is there to forget at first. *)
LEMMA WakeInit == Init => WakeInv
  BY DEF Init, ClusterInit, WakeInv, NoClaimForgotten

(***************************************************************************)
(* No claim is ever lost sight of, whatever fails, whatever replies are    *)
(* lost and however often the manager restarts: the reconciler will hear   *)
(* of it again, or is at it.  This is what the runs' fairness acts on when *)
(* they show that every claim goes or is bound in the end.                 *)
(***************************************************************************)
THEOREM NoClaimIsForgotten == Spec => []NoClaimForgotten
  <1>1. Init => WakeInv
    BY WakeInit
  <1>2. IInv /\ WakeInv /\ [Next]_vars => WakeInv'
    BY WakeNext DEF IInv, Safe
  <1>3. WakeInv => NoClaimForgotten
    BY DEF WakeInv
  <1> QED
    BY <1>1, <1>2, <1>3, Safety, PTL DEF Spec

-----------------------------------------------------------------------------
(***************************************************************************)
(* Every step of the allocator is a step of ENIReservation, or leaves it   *)
(* alone.                                                                  *)
(***************************************************************************)
LEMMA InitRefines == Init => Reservation!Init
  BY DEF Init, ClusterInit, Reservation!Init

(* While the claims keep their AWSMachines, the reservations are unchanged. *)
LEMMA HoldersKept ==
    ASSUME UNCHANGED machines,
           \A e \in ENI : /\ claims'[e] = NoClaim <=> claims[e] = NoClaim
                          /\ claims[e] # NoClaim =>
                                claims'[e].machine = claims[e].machine
    PROVE  UNCHANGED Reservation!vars
  BY DEF Reservation!vars

(* A claim that is created is a reservation. *)
LEMMA ClaimReserves ==
    ASSUME NEW e \in ENI, NEW c \in Claim, UNCHANGED machines,
           claims \in [ENI -> Claim \cup {NoClaim}],
           claims[e] = NoClaim, claims' = [claims EXCEPT ![e] = c]
    PROVE  Reservation!Next
  <1>1. c # NoClaim /\ c.machine \in Machine
    BY ClaimAssumption DEF Claim
  <1>2. Reservation!Reserve(e, c.machine)
    BY <1>1 DEF Reservation!Reserve
  <1> QED
    BY <1>1, <1>2 DEF Reservation!Next

(* A claim that goes while nothing uses its interface is a release. *)
LEMMA UnclaimReleases ==
    ASSUME NEW e \in ENI, NEW d \in Claim \cup {NoClaim}, UNCHANGED machines,
           claims \in [ENI -> Claim \cup {NoClaim}],
           claims' = [claims EXCEPT ![e] = d],
           d # NoClaim =>
               claims[e] # NoClaim /\ d.machine = claims[e].machine,
           d = NoClaim => ~Attached(e)
    PROVE  [Reservation!Next]_(Reservation!vars)
  <1>1. CASE d = NoClaim /\ claims[e] # NoClaim
    <2>1. claims[e].machine # NoClaim
      BY <1>1, ClaimAssumption DEF Claim
    <2>2. Reservation!Release(e)
      BY <1>1, <2>1 DEF Reservation!Release, Attached
    <2> QED
      BY <2>2 DEF Reservation!Next
  <1>2. CASE ~(d = NoClaim /\ claims[e] # NoClaim)
    BY <1>2, HoldersKept
  <1> QED
    BY <1>1, <1>2

(* Every step of the allocator is a step of ENIReservation or a stutter. *)
LEMMA StepRefines ==
    IInv /\ [Next]_vars => [Reservation!Next]_(Reservation!vars)
  <1> SUFFICES ASSUME IInv, [Next]_vars
               PROVE  [Reservation!Next]_(Reservation!vars)
    OBVIOUS
  <1> USE DEF IInv, Safe, TypeOK, ClusterTypeOK
  <1>0. worker # Idle => worker.eni \in ENI
    BY WorkerFields
  <1>1. ASSUME UNCHANGED <<claims, machines>>
        PROVE  [Reservation!Next]_(Reservation!vars)
    BY <1>1, HoldersKept
  <1>2. ASSUME NEW m \in Machine, NEW a \in Attachment, UNCHANGED claims,
               machines[m] = Absent, machines' = [machines EXCEPT ![m] = a],
               a \in ENI => claims[a] # NoClaim /\ claims[a].machine = m
        PROVE  Reservation!Next
    <2>1. Reservation!Create(m, a)
      BY <1>2 DEF Reservation!Create
    <2> QED
      BY <2>1 DEF Reservation!Next, Attachment
  <1>3. ASSUME NEW e \in ENI, NEW m \in Machine, NEW p \in Pool,
               claims[e] = NoClaim, UNCHANGED machines,
               \/ claims' = [claims EXCEPT ![e] = NewClaim(m, p)]
               \/ claims' = [claims EXCEPT ![e] =
                                [NewClaim(m, p) EXCEPT !.finalizer = FALSE]]
        PROVE  Reservation!Next
    BY <1>3, NewClaimTypes, ClaimReserves
  <1>4. CASE WebhookNext
    <2>1. ASSUME NEW m \in Machine, Bypass(m) PROVE Reservation!Next
      BY <1>2, <2>1, MachineAssumption DEF Bypass, Attachment
    <2>2. ASSUME NEW r \in Request, ClaimNext(r) PROVE Reservation!Next
      <3>1. PICK e \in ENI :
               /\ claims[e] = NoClaim
               /\ claims' = [claims EXCEPT ![e] =
                       NewClaim(requests[r].machine, requests[r].pool)]
        BY <2>2, RequestFields DEF ClaimNext, Store, Lowest
      <3> QED
        BY <1>3, <2>2, <3>1, RequestFields DEF ClaimNext, Store
    <2>3. ASSUME NEW r \in Request, Persist(r)
          PROVE  [Reservation!Next]_(Reservation!vars)
      <3>1. /\ requests[r].machine \in Machine
            /\ requests[r].grant \in Attachment
            /\ requests[r].grant \in ENI =>
                  /\ claims[requests[r].grant] # NoClaim
                  /\ claims[requests[r].grant].machine = requests[r].machine
        BY <2>3, RequestFields DEF Persist, GrantHoldsClaim
      <3> QED
        BY <1>1, <1>2, <2>3, <3>1 DEF Persist
    <2>4. ASSUME NEW r \in Request,
                 \/ \E m \in Machine : Admit(r, m)
                 \/ AlreadyExists(r) \/ Exhausted(r) \/ Abort(r)
          PROVE  [Reservation!Next]_(Reservation!vars)
      BY <1>1, <2>4 DEF Admit, AlreadyExists, Exhausted, Abort, clusterVars
    <2> QED
      BY <1>4, <2>1, <2>2, <2>3, <2>4 DEF WebhookNext, RequestNext
  <1>5. CASE ControllerNext
    <2>1. CASE Delete
      <3>1. ~Attached(worker.eni) /\ worker.eni \in ENI
        BY <1>0, <2>1 DEF Delete, Store, DeletesUnused, At
      <3>2. LET d == AfterDelete(claims[worker.eni]) IN
            d # NoClaim => /\ claims[worker.eni] # NoClaim
                           /\ d.machine = claims[worker.eni].machine
        BY <3>1 DEF AfterDelete, Claim
      <3> QED
        BY <2>1, <3>1, <3>2, RemovalTypes, UnclaimReleases DEF Delete, Store
    <2>2. CASE Unfinalize
      <3>1. worker.eni \in ENI
        BY <1>0, <2>2 DEF Unfinalize, Store, At
      <3>2. LET d == AfterUnfinalize(claims[worker.eni]) IN
            /\ d # NoClaim => /\ claims[worker.eni] # NoClaim
                              /\ d.machine = claims[worker.eni].machine
            /\ d = NoClaim => ~Attached(worker.eni)
        <4>1. ASSUME Attached(worker.eni)
              PROVE  /\ claims[worker.eni] # NoClaim
                     /\ ~claims[worker.eni].deleting
          BY <3>1, <4>1 DEF Attached, MachineHoldsClaim
        <4>2. ASSUME claims[worker.eni] \in Claim,
                     ~claims[worker.eni].deleting
              PROVE  /\ AfterUnfinalize(claims[worker.eni]) \in Claim
                     /\ AfterUnfinalize(claims[worker.eni]).machine =
                           claims[worker.eni].machine
          BY <4>2, ClaimAssumption DEF AfterUnfinalize, Claim
        <4>3. CASE /\ claims[worker.eni] \in Claim
                   /\ ~claims[worker.eni].deleting
          BY <4>2, <4>3, ClaimAssumption
        <4>4. CASE \/ claims[worker.eni] = NoClaim
                   \/ claims[worker.eni].deleting
          BY <4>1, <4>4 DEF AfterUnfinalize
        <4> QED
          BY <3>1, <4>3, <4>4
      <3> QED
        BY <2>2, <3>1, <3>2, RemovalTypes, UnclaimReleases DEF Unfinalize, Store
    <2>3. CASE Finalize \/ UpdateStatus
      <3>1. /\ worker # Idle /\ worker.eni \in ENI
            /\ worker.phase \in {"Bound", "Failed"}
        BY <2>3 DEF Finalize, Store, UpdateStatus, Store, At, ControllerTypeOK, Work
      <3>2. CASE UNCHANGED claims
        BY <1>1, <2>3, <3>2 DEF Finalize, Store, UpdateStatus, Store
      <3>3. CASE /\ claims[worker.eni] \in Claim
                 /\ \/ claims' = [claims EXCEPT
                                     ![worker.eni].finalizer = TRUE]
                    \/ claims' = [claims EXCEPT
                                     ![worker.eni].status = worker.phase]
        <4>1. PICK d \in Claim :
                 /\ claims' = [claims EXCEPT ![worker.eni] = d]
                 /\ d.machine = claims[worker.eni].machine
          <5>1. /\ [claims[worker.eni] EXCEPT !.finalizer = TRUE] \in Claim
                /\ [claims[worker.eni] EXCEPT !.status = worker.phase]
                      \in Claim
            BY <3>1, <3>3 DEF Claim
          <5>2. /\ [claims[worker.eni] EXCEPT !.finalizer = TRUE].machine =
                      claims[worker.eni].machine
                /\ [claims[worker.eni] EXCEPT !.status = worker.phase].machine
                      = claims[worker.eni].machine
            BY <3>3 DEF Claim
          <5> QED
            BY <3>3, <5>1, <5>2
        <4> QED
          BY <2>3, <3>1, <3>3, <4>1, ClaimAssumption, UnclaimReleases
             DEF Finalize, Store, UpdateStatus, Store
      <3> QED
        BY <2>3, <3>1, <3>2, <3>3 DEF Finalize, Store, UpdateStatus, Store, TakesFinalizer,
           ControllerTypeOK, Work
    <2>4. CASE Check \/ SyncClaims \/ \E e \in ENI : Begin(e)
      BY <1>1, <2>4 DEF Check, SyncClaims, Begin, clusterVars
    <2> QED
      BY <1>5, <2>1, <2>2, <2>3, <2>4 DEF ControllerNext
  <1>6. ASSUME NEW m \in Machine, MachineGone(m)
        PROVE  Reservation!Next
    <2>1. Reservation!Remove(m)
      BY <1>6 DEF MachineGone, Reservation!Remove
    <2> QED
      BY <2>1 DEF Reservation!Next
  <1>7. ASSUME NEW e \in ENI, GraceExpires(e)
        PROVE  [Reservation!Next]_(Reservation!vars)
    <2>1. /\ claims[e] \in Claim
          /\ [claims[e] EXCEPT !.aged = TRUE] \in Claim
          /\ [claims[e] EXCEPT !.aged = TRUE].machine = claims[e].machine
      BY <1>7 DEF GraceExpires, Claim
    <2>2. PICK d \in Claim : /\ claims' = [claims EXCEPT ![e] = d]
                             /\ d.machine = claims[e].machine
      BY <1>7, <2>1 DEF GraceExpires
    <2> QED
      BY <1>7, <2>1, <2>2, ClaimAssumption, UnclaimReleases DEF GraceExpires
  <1>8. ASSUME NEW r \in Request, CreateFails(r)
        PROVE  [Reservation!Next]_(Reservation!vars)
    <2>1. CASE UNCHANGED claims
      BY <1>1, <1>8, <2>1 DEF CreateFails, Store
    <2>2. ASSUME NEW e \in Lowest(requests[r].todo), claims[e] = NoClaim,
                 claims' = [claims EXCEPT ![e] =
                     NewClaim(requests[r].machine, requests[r].pool)]
          PROVE  Reservation!Next
      BY <1>3, <1>8, <2>2, RequestFields DEF CreateFails, Store, Lowest
    <2> QED
      BY <1>8, <2>1, <2>2 DEF CreateFails, Store
  <1>9. ASSUME NEW e \in ENI, NEW m \in Machine, NEW p \in Pool,
               OperatorClaims(e, m, p)
        PROVE  Reservation!Next
    BY <1>3, <1>9 DEF OperatorClaims, Store
  <1>10. ASSUME NEW e \in ENI, OperatorReleases(e)
         PROVE  [Reservation!Next]_(Reservation!vars)
    <2>1. LET d == AfterDelete(claims[e]) IN
          /\ d \in Claim \cup {NoClaim}
          /\ d # NoClaim => /\ claims[e] # NoClaim
                            /\ d.machine = claims[e].machine
      BY <1>10, RemovalTypes DEF AfterDelete, Claim
    <2> QED
      BY <1>10, <2>1, UnclaimReleases DEF OperatorReleases, Store
  <1>11. CASE \/ UNCHANGED vars \/ SyncMachines \/ WriteFails \/ Restart
              \/ \E p \in Pool : OperatorEditsPool(p)
    BY <1>1, <1>11 DEF vars, clusterVars, SyncMachines, WriteFails, Restart,
       OperatorEditsPool
  <1>12. ASSUME NEW e \in ENI, NEW m \in Machine, NEW p \in Pool,
                OperatorUpdates(e, m, p)
         PROVE  [Reservation!Next]_(Reservation!vars)
    <2>1. PICK d \in Claim : /\ claims' = [claims EXCEPT ![e] = d]
                             /\ claims[e] \in Claim
                             /\ d.machine = claims[e].machine
      BY <1>12, UpdatedClaim
    <2> QED
      BY <1>12, <2>1, ClaimAssumption, UnclaimReleases DEF OperatorUpdates
  <1> QED
    BY <1>4, <1>5, <1>6, <1>7, <1>8, <1>9, <1>10, <1>11, <1>12
       DEF Next, SystemNext, FaultNext, OperatorNext, PoolNext

(***************************************************************************)
(* THE REFINEMENT.  The allocator implements ENIReservation: whatever the  *)
(* caches show, an interface is reserved before it is attached and         *)
(* released only when no AWSMachine has it.                                *)
(***************************************************************************)
THEOREM Refinement == Spec => ImplementsReservation
  BY InitRefines, StepRefines, Safety, PTL
     DEF Spec, ImplementsReservation, Reservation!Spec
=============================================================================
