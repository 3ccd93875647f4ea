---------------------------- MODULE ENIAllocator ----------------------------
(***************************************************************************)
(* The allocator as deployed: the admission webhook and the ENIClaim       *)
(* reconciler of one manager (cmd/main.go), the API server, the operators, *)
(* and time.                                                               *)
(***************************************************************************)
EXTENDS AdmissionWebhook, ClaimController

vars == <<clusterVars, requests, controllerVars>>

TypeOK == ClusterTypeOK /\ WebhookTypeOK /\ ControllerTypeOK

Init == ClusterInit /\ WebhookInit /\ ControllerInit

(* A request was answered with interface e and its object is not stored.   *)
Granted(e) == \E r \in Request : Answered(r) /\ requests[r].grant = e

(* An AWSMachine has interface e. *)
Attached(e) == \E m \in Machine : machines[m] = e

-----------------------------------------------------------------------------
(* Time.                                                                   *)

(***************************************************************************)
(* What the grace period is for: everything that belongs to the creation   *)
(* of claim e is over.  The request it was created for has stored its      *)
(* object or has ended, the informers have seen the claim and the          *)
(* AWSMachine, and a reconciliation that is running works on the claim as  *)
(* it is, not on an earlier one of that name.                              *)
(***************************************************************************)
Settled(e) ==
    /\ e \notin unseen
    /\ Working(e) => worker.claim = claims[e]
    /\ ~Granted(e)
    /\ \A m \in Machine : machines[m] = e => m \in machineCache

(***************************************************************************)
(* Claim e becomes older than 30 seconds.  The age is read off a clock, so *)
(* that of a copy, which a reconciliation may be at, is the claim's.       *)
(***************************************************************************)
GraceExpires(e) ==
    /\ claims[e] # NoClaim
    /\ ~claims[e].aged
    /\ Settled(e)
    /\ claims' = [claims EXCEPT ![e].aged = TRUE]
    /\ claimCache' = [claimCache EXCEPT ![e].aged = TRUE]
    /\ worker' = IF Working(e) THEN [worker EXCEPT !.claim.aged = TRUE]
                               ELSE worker
    /\ UNCHANGED <<machines, unseen, machineCache, pools, requests, queue>>

-----------------------------------------------------------------------------
(* Operators and the life of the process.                                  *)

(* An operator creates a claim by hand; it carries no finalizer. *)
OperatorClaims(e, m, p) ==
    /\ claims[e] = NoClaim
    /\ Store(e, [NewClaim(m, p) EXCEPT !.finalizer = FALSE])
    /\ UNCHANGED <<machines, claimCache, machineCache, pools,
                   requests, controllerVars>>

(* Mutant of ValidateUpdate: every update is accepted. *)
ValidateUpdateAlways(old, new) == TRUE

(* The ENIClaim webhook: the spec of a claim is immutable. *)
ValidateUpdate(old, new) == new.machine = old.machine /\ new.pool = old.pool

(***************************************************************************)
(* An operator applies a claim that exists, with any spec, and with the    *)
(* finalizer or with what it has.                                          *)
(***************************************************************************)
OperatorUpdates(e, m, p) ==
    /\ claims[e] # NoClaim
    /\ \E finalizer \in {claims[e].finalizer, TRUE} :
          LET new == [claims[e] EXCEPT !.machine = m, !.pool = p,
                                       !.finalizer = finalizer]
          IN  /\ finalizer # claims[e].finalizer => TakesFinalizer(claims[e])
              /\ ValidateUpdate(claims[e], new)
              /\ Store(e, new)
    /\ UNCHANGED <<machines, claimCache, machineCache, pools,
                   requests, controllerVars>>

(* An operator deletes a claim that nobody uses. *)
OperatorReleases(e) ==
    /\ claims[e] # NoClaim
    /\ ~Granted(e) /\ ~Attached(e)
    /\ Store(e, AfterDelete(claims[e]))
    /\ UNCHANGED <<machines, claimCache, machineCache, pools,
                   requests, controllerVars>>

(***************************************************************************)
(* The manager stops and starts again, here or on another node as the new  *)
(* leader.  Handlers are lost, and the API server answers their requests   *)
(* with an error (failurePolicy: Fail); an answer already given is not.    *)
(* The informers list afresh, and every claim is queued.                   *)
(***************************************************************************)
Restart ==
    /\ requests' = [r \in Request |-> IF Claiming(r) THEN Idle ELSE requests[r]]
    /\ claimCache' = claims
    /\ unseen' = {}
    /\ machineCache' = Existing
    /\ worker' = Idle
    /\ queue' = {e \in ENI : claims[e] # NoClaim}
    /\ UNCHANGED <<claims, machines, pools>>

-----------------------------------------------------------------------------
(* The system on its own: its processes, CAPA, and time. *)
SystemNext ==
    \/ WebhookNext /\ UNCHANGED controllerVars
    \/ ControllerNext /\ UNCHANGED requests
    \/ \E m \in Machine : MachineGone(m) /\ UNCHANGED <<requests, controllerVars>>
    \/ SyncMachines /\ UNCHANGED <<requests, controllerVars>>
    \/ \E e \in ENI : GraceExpires(e)

(* Calls that fail, and the manager's end. *)
FaultNext ==
    \/ \E r \in Request : CreateFails(r) /\ UNCHANGED controllerVars
    \/ WriteFails /\ UNCHANGED requests
    \/ Restart

PoolNext ==
    \E p \in Pool : OperatorEditsPool(p) /\ UNCHANGED <<requests, controllerVars>>

OperatorNext ==
    \/ PoolNext
    \/ \E e \in ENI, m \in Machine, p \in Pool :
          OperatorClaims(e, m, p) \/ OperatorUpdates(e, m, p)
    \/ \E e \in ENI : OperatorReleases(e)

Next == SystemNext \/ FaultNext \/ OperatorNext

Spec == Init /\ [][Next]_vars

(* The system without faults and operators. *)
SystemSpec == Init /\ [][SystemNext]_vars

(***************************************************************************)
(* What the runtime owes the reconciler, for each key.  The workqueue is   *)
(* first in, first out, so a queued key is not passed over for ever; a     *)
(* step that is tried for ever is not cut off by a failed call or a        *)
(* restart every time, and a call's reply is not lost every time; the      *)
(* informers catch up; and time goes on.  Nothing is asked of the          *)
(* webhook's requests, of CAPA or of the operators.                        *)
(***************************************************************************)
FairnessFor(e) ==
    /\ SF_vars(Begin(e) /\ UNCHANGED requests)
    /\ SF_vars(Finalize /\ Working(e) /\ UNCHANGED requests)
    /\ SF_vars(Check /\ Working(e) /\ UNCHANGED requests)
    /\ SF_vars(Delete /\ Working(e) /\ UNCHANGED requests)
    /\ SF_vars(UpdateStatus /\ Working(e) /\ UNCHANGED requests)
    /\ SF_vars(Unfinalize /\ Working(e) /\ UNCHANGED requests)
    /\ SF_vars(GraceExpires(e))
    /\ WF_vars(SyncClaims /\ UNCHANGED requests)
    /\ WF_vars(SyncMachines /\ UNCHANGED <<requests, controllerVars>>)

Fairness == \A e \in ENI : FairnessFor(e)

(* Without faults, and with operators who only change pools. *)
FairSystemSpec == Init /\ [][SystemNext \/ PoolNext]_vars /\ Fairness

-----------------------------------------------------------------------------
(* Safety.                                                                 *)

(* No two AWSMachines have the same interface (README.md: each AWSMachine  *)
(* safely gets a different ENI).                                           *)
Exclusive ==
    \A m, n \in Machine :
        machines[m] \in ENI /\ machines[m] = machines[n] => m = n

(* The interface of an AWSMachine stays claimed, for that AWSMachine, and  *)
(* its claim is not being deleted, until the AWSMachine is completely gone *)
(* (docs/design.md, release).                                              *)
MachineHoldsClaim ==
    \A m \in Machine : machines[m] \in ENI =>
        /\ claims[machines[m]] # NoClaim
        /\ claims[machines[m]].machine = m
        /\ ~claims[machines[m]].deleting

(* An interface promised by an answer to a request that is still in        *)
(* progress is claimed for its AWSMachine, by no other request, and is not *)
(* attached to an AWSMachine yet.                                          *)
GrantHoldsClaim ==
    \A r \in Request : Answered(r) /\ requests[r].grant \in ENI =>
        LET e == requests[r].grant IN
        /\ claims[e] # NoClaim
        /\ claims[e].machine = requests[r].machine
        /\ ~claims[e].deleting
        /\ ~Attached(e)
        /\ \A s \in Request : Answered(s) /\ requests[s].grant = e => s = r

-----------------------------------------------------------------------------
(* Liveness.                                                               *)

(***************************************************************************)
(* Claim e is for machine m, which neither exists nor is being created.    *)
(***************************************************************************)
Orphan(e, m) ==
    /\ claims[e] # NoClaim
    /\ claims[e].machine = m
    /\ machines[m] = Absent
    /\ \A r \in Request : requests[r] # Idle => requests[r].machine # m

HasPool(e) == claims[e] # NoClaim /\ pools[claims[e].pool] # NoPool

(* Claim e does not stay when admission left it behind or its AWSMachine   *)
(* is gone, although nothing tells the reconciler of AWSMachines: its      *)
(* interface becomes free again, while the claim's pool exists.            *)
Reclaimed(e) ==
    \A m \in Machine :
        Orphan(e, m) /\ HasPool(e) ~> ~(Orphan(e, m) /\ HasPool(e))

(* Claim e goes when it is being deleted, with or without its pool: the    *)
(* finalizer never blocks the deletion for ever.                           *)
Released(e) == LET Going == claims[e] # NoClaim /\ claims[e].deleting
               IN  Going ~> ~Going

(* Claim e is in use and does not say what its pool says of it. *)
Unbound(e) ==
    /\ HasPool(e)
    /\ ~claims[e].deleting
    /\ machines[claims[e].machine] # Absent
    /\ \/ ~claims[e].finalizer
       \/ claims[e].status # PhaseIn(pools[claims[e].pool], e)

(* Claim e gets its finalizer and the status that its pool gives it while  *)
(* its AWSMachine exists, whatever conflicts its updates meet, also when   *)
(* the pool changes later.                                                 *)
Bound(e) == Unbound(e) ~> ~Unbound(e)

-----------------------------------------------------------------------------
(* Why it is safe.                                                         *)

(* A promised interface's claim is within its grace period. *)
GrantIsFresh ==
    \A r \in Request : Answered(r) /\ requests[r].grant \in ENI =>
        ~claims[requests[r].grant].aged

(* Once a claim has outlived its grace period, the informer has its        *)
(* AWSMachine.                                                             *)
UserIsSeen ==
    \A m \in Machine : machines[m] \in ENI /\ claims[machines[m]].aged =>
        m \in machineCache

(* The claim of e at the API server is the one that c is an old copy of.   *)
IsCopy(c, e) ==
    /\ claims[e] # NoClaim
    /\ claims[e].machine = c.machine
    /\ claims[e].aged /\ claims[e].finalizer

(* The informer misses nothing but what it is about to see.                *)
CacheIsComplete == \A e \in ENI \ unseen : claimCache[e] = claims[e]

(* A cached claim that is old, finalized and not being deleted is there.   *)
CacheIsCurrent ==
    \A e \in ENI :
        LET c == claimCache[e] IN
        c # NoClaim /\ c.aged /\ c.finalizer /\ ~c.deleting => IsCopy(c, e)

(* So is an old claim that the worker is about to judge or to delete.      *)
WorkerIsCurrent ==
    At("check") \/ At("delete") =>
        /\ worker.claim.finalizer
        /\ worker.claim.aged => IsCopy(worker.claim, worker.eni)

(* The claim that the worker is about to delete serves nobody.             *)
DeletesUnused == At("delete") => worker.claim.aged /\ ~Attached(worker.eni)

(* A claim that is not an old one in use: its finalizer may go.            *)
Disposable(c) == c # NoClaim => c.deleting \/ ~c.aged

(* A cached deletion stands for a claim that is gone, going, or replaced   *)
(* by a fresh one; so does the deletion that the worker carries out.       *)
StripsDisposable ==
    /\ \A e \in ENI : claimCache[e] # NoClaim /\ claimCache[e].deleting =>
            Disposable(claims[e])
    /\ At("unfinalize") => /\ worker.claim.deleting
                           /\ Disposable(claims[worker.eni])
                           /\ Disposable(claimCache[worker.eni])

Safe == /\ TypeOK
        /\ MachineHoldsClaim /\ GrantHoldsClaim /\ GrantIsFresh /\ UserIsSeen
        /\ CacheIsCurrent /\ WorkerIsCurrent /\ DeletesUnused
        /\ StripsDisposable

(* The inductive invariant. *)
IInv == Safe /\ CacheIsComplete

-----------------------------------------------------------------------------
(* Nothing is forgotten.                                                   *)

(* The reconciler will hear of claim e. *)
Due(e) == e \in unseen \cup queue

(* No claim is lost sight of, whatever fails and however often the manager *)
(* restarts: each has an event to come, or is queued, or is being          *)
(* reconciled.  Without this no claim would be sure to go or to be bound.  *)
NoClaimForgotten ==
    \A e \in ENI : claims[e] # NoClaim => Due(e) \/ Working(e)

(* Why: a claim being deleted has its finalizer, so that its end is the    *)
(* reconciler's doing; and a reconciliation that may be the key's last     *)
(* works on what is the case: the worker removes the finalizer if and only *)
(* if the claim is being deleted.                                          *)
WakeInv ==
    /\ NoClaimForgotten
    /\ \A e \in ENI : claims[e] # NoClaim /\ claims[e].deleting =>
            claims[e].finalizer
    /\ \A e \in ENI : claims[e] # NoClaim /\ Working(e) =>
            Due(e) \/ (claims[e].deleting <=> At("unfinalize"))

-----------------------------------------------------------------------------
(***************************************************************************)
(* The allocator implements ENIReservation: a claim is a reservation.      *)
(***************************************************************************)
Reservation == INSTANCE ENIReservation WITH
    Free <- NoClaim,
    holder <- [e \in ENI |-> IF claims[e] = NoClaim THEN NoClaim
                                                    ELSE claims[e].machine],
    attached <- machines

ImplementsReservation == Reservation!Spec
=============================================================================
