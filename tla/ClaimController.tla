--------------------------- MODULE ClaimController ---------------------------
(***************************************************************************)
(* The ENIClaim reconciler                                                 *)
(* (src/internal/controller/eniclaim_controller.go): it puts the finalizer *)
(* on a claim, binds the claim while its AWSMachine exists, deletes it     *)
(* when the machine is gone, and lets a deleted claim go.                  *)
(*                                                                         *)
(* One worker reconciles one key at a time.  Reads come from the informers *)
(* and are local; each write is a call to the API server and an action of  *)
(* its own, with everything else free to happen between two of them.  A    *)
(* write can fail, and it can succeed while its reply is lost: both return *)
(* an error, and the key is queued again.                                  *)
(*                                                                         *)
(* queue holds the keys that the workqueue will hand out: those it holds   *)
(* now and those that RequeueAfter or the error backoff will add.  A delay *)
(* is not modelled beyond that: a queued key may start at any time.        *)
(***************************************************************************)
EXTENDS Cluster

(***************************************************************************)
(* A reconciliation.  claim: the local copy that the code works on.        *)
(* phase: what the pool it read makes of the claim's status.               *)
(***************************************************************************)
Work == [step: {"finalize", "check", "delete", "status", "unfinalize"},
         eni: ENI, claim: Claim, phase: {"Bound", "Failed"}]

ASSUME WorkerAssumption == Idle \notin Work

VARIABLES
    worker,     \* the reconciliation in progress
    queue       \* the keys to be reconciled

controllerVars == <<worker, queue>>

ControllerTypeOK == worker \in Work \cup {Idle} /\ queue \in SUBSET ENI

ControllerInit == worker = Idle /\ queue = {}

At(step)   == worker # Idle /\ worker.step = step
Working(e) == worker # Idle /\ worker.eni = e

(* The status a pool gives a claim: Bound if the pool configures its ENI.  *)
PhaseIn(spec, e) == IF e \in spec.interfaces THEN "Bound" ELSE "Failed"

(* Reconcile returns: with an error or a RequeueAfter, or with neither.    *)
Requeue == worker' = Idle /\ queue' = queue \cup {worker.eni}
Done    == worker' = Idle /\ UNCHANGED queue

-----------------------------------------------------------------------------
(***************************************************************************)
(* Reconcile starts: it reads the claim and its pool.  No claim: nothing   *)
(* to do.  A claim being deleted loses its finalizer, pool or no pool.     *)
(* Without its pool any other claim is an error that is tried again.       *)
(***************************************************************************)
Begin(e) ==
    LET claim == claimCache[e]
        known == claim # NoClaim /\ pools[claim.pool] # NoPool
        go(step, phase) ==
            /\ worker' = [step |-> step, eni |-> e, claim |-> claim,
                          phase |-> phase]
            /\ queue' = queue \ {e}
    IN  /\ worker = Idle
        /\ e \in queue
        /\ \/ /\ claim = NoClaim
              /\ queue' = queue \ {e}
              /\ UNCHANGED worker
           \/ /\ claim # NoClaim /\ claim.deleting
              /\ IF claim.finalizer
                 THEN go("unfinalize", "Failed")
                 ELSE queue' = queue \ {e} /\ UNCHANGED worker
           \/ /\ claim # NoClaim /\ ~claim.deleting /\ ~known
              /\ UNCHANGED controllerVars
           \/ /\ known /\ ~claim.deleting
              /\ go(IF claim.finalizer THEN "check" ELSE "finalize",
                    PhaseIn(pools[claim.pool], e))
        /\ UNCHANGED clusterVars

(***************************************************************************)
(* The finalizer is patched in by name.  The local copy becomes the object *)
(* that the server returns.                                                *)
(***************************************************************************)
Finalize ==
    /\ At("finalize")
    /\ LET claim == claims[worker.eni] IN
         \/ /\ ~TakesFinalizer(claim)
            /\ Requeue
            /\ UNCHANGED <<claims, unseen>>
         \/ /\ TakesFinalizer(claim)
            /\ Store(worker.eni, [claim EXCEPT !.finalizer = TRUE])
            /\ \/ /\ worker' = [worker EXCEPT !.step = "check",
                                              !.claim = claims'[worker.eni]]
                  /\ UNCHANGED queue
               \/ Requeue
    /\ UNCHANGED <<machines, claimCache, machineCache, pools>>

(* Mutant of MachineNotFound: an AWSMachine without the interface counts   *)
(* as gone.                                                                *)
MachineWithout ==
    \/ worker.claim.machine \notin machineCache
    \/ machines[worker.claim.machine] # worker.eni

(* The informer has no AWSMachine of the name in the claim. *)
MachineNotFound == worker.claim.machine \notin machineCache

(* Mutant of Expired: no grace period. *)
ExpiredAtOnce(claim) == TRUE

(* The claim is older than the grace period of 30 seconds. *)
Expired(claim) == claim.aged

(* Mutant of Recheck: the reconciliation is not repeated. *)
RecheckNever == Done

(* RequeueAfter, 5 seconds: an AWSMachine that is about to appear. *)
Recheck == Requeue

(* Mutant of Resync: the reconciliation is not repeated. *)
ResyncNever == Done

(* RequeueAfter, 5 minutes: a claim that is as it should be. *)
Resync == Requeue

(***************************************************************************)
(* The AWSMachine is read.  If it is missing, the claim is deleted, but    *)
(* not within the grace period; if it is there, a status that differs is   *)
(* written.                                                                *)
(***************************************************************************)
Check ==
    /\ At("check")
    /\ \/ /\ MachineNotFound
          /\ \/ ~Expired(worker.claim) /\ Recheck
             \/ /\ Expired(worker.claim)
                /\ worker' = [worker EXCEPT !.step = "delete"]
                /\ UNCHANGED queue
       \/ /\ ~MachineNotFound
          /\ \/ worker.claim.status = worker.phase /\ Resync
             \/ /\ worker.claim.status # worker.phase
                /\ worker' = [worker EXCEPT !.step = "status"]
                /\ UNCHANGED queue
    /\ UNCHANGED clusterVars

(* The claim is deleted by name; NotFound is as good as success.           *)
Delete ==
    /\ At("delete")
    /\ Store(worker.eni, AfterDelete(claims[worker.eni]))
    /\ Done \/ Requeue
    /\ UNCHANGED <<machines, claimCache, machineCache, pools>>

(***************************************************************************)
(* The status is written with the resource version of the local copy: a    *)
(* claim changed since then is a conflict.  The key comes back either way, *)
(* after five minutes or after the backoff.                                *)
(***************************************************************************)
UpdateStatus ==
    /\ At("status")
    /\ \/ /\ claims[worker.eni] = worker.claim
          /\ Store(worker.eni, [worker.claim EXCEPT !.status = worker.phase])
       \/ /\ claims[worker.eni] # worker.claim
          /\ UNCHANGED <<claims, unseen>>
    /\ Requeue
    /\ UNCHANGED <<machines, claimCache, machineCache, pools>>

(***************************************************************************)
(* The finalizer is patched out by name.  NotFound is an error here.       *)
(***************************************************************************)
Unfinalize ==
    /\ At("unfinalize")
    /\ Store(worker.eni, AfterUnfinalize(claims[worker.eni]))
    /\ \/ Done /\ claims[worker.eni] # NoClaim
       \/ Requeue
    /\ UNCHANGED <<machines, claimCache, machineCache, pools>>

(* Mutant of WriteFails: the error is logged and dropped. *)
WriteFailsForgotten ==
    /\ worker # Idle /\ worker.step # "check"
    /\ Done
    /\ UNCHANGED clusterVars

(* A write fails and nothing is written. *)
WriteFails ==
    /\ worker # Idle /\ worker.step # "check"
    /\ Requeue
    /\ UNCHANGED clusterVars

(***************************************************************************)
(* The ENIClaim informer catches up.  Its events queue every key whose     *)
(* object changed.                                                         *)
(***************************************************************************)
SyncClaims ==
    /\ unseen # {}
    /\ claimCache' = claims
    /\ unseen' = {}
    /\ queue' = queue \cup unseen
    /\ UNCHANGED <<worker, claims, machines, machineCache, pools>>

ControllerNext ==
    \/ \E e \in ENI : Begin(e)
    \/ Finalize \/ Check \/ Delete \/ UpdateStatus \/ Unfinalize
    \/ SyncClaims
=============================================================================
