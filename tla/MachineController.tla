-------------------------- MODULE MachineController --------------------------
(***************************************************************************)
(* The AWSMachine reconciler                                               *)
(* (src/internal/controller/awsmachine_controller.go): it gives an         *)
(* interface to an AWSMachine that exists already and is paused on the     *)
(* allocator's behalf (the allocator-paused annotation).  The webhook      *)
(* leaves such AWSMachines alone, because they are paused.                 *)
(*                                                                         *)
(* machines[m] is Dynamic while spec.networkInterfaces is empty.  One      *)
(* worker reconciles one AWSMachine at a time; each call to the API server *)
(* is an action.                                                           *)
(***************************************************************************)
EXTENDS Cluster

CONSTANTS
    KeyWanted,  \* the interface key that each AWSMachine asks for
    SpecMutable \* CAPA accepts a change of spec.networkInterfaces; the code
                \* expects it to, while CAPA v2.13, which go.mod requires,
                \* lets no AWSMachine's spec change (README.md)

ASSUME MutableAssumption == SpecMutable \in BOOLEAN
ASSUME KeyWantedAssumption == KeyWanted \in [Machine -> Key \cup {NoKey}]

(***************************************************************************)
(* A reconciliation: trying candidates (todo), or about to patch the       *)
(* AWSMachine with interface eni, with the release to CAPA, or with the    *)
(* failure.                                                                *)
(***************************************************************************)
Allocation ==
    [step: {"claim"}, machine: Machine, pool: Pool, policy: Policy,
     todo: SUBSET ENI]
    \cup [step: {"attach"}, machine: Machine, eni: ENI]
    \cup [step: {"fallback", "fail"}, machine: Machine]

ASSUME AllocationAssumption == Idle \notin Allocation

VARIABLES
    paused,         \* AWSMachines with the allocator-paused annotation
    failed,         \* AWSMachines whose allocation-result is Failed
    leaving,        \* AWSMachines with a DeletionTimestamp
    seen,           \* the informer's copy of all that
    allocation,     \* the reconciliation in progress
    backlog         \* the AWSMachines to be reconciled

allocatorVars == <<paused, failed, leaving, seen, allocation, backlog>>

Now == [machines |-> machines, paused |-> paused, failed |-> failed,
        leaving |-> leaving]

AllocatorTypeOK ==
    /\ paused \in SUBSET Machine
    /\ failed \in SUBSET Machine
    /\ leaving \in SUBSET Machine
    /\ seen \in [machines: [Machine -> Attachment \cup {Absent}],
                 paused: SUBSET Machine, failed: SUBSET Machine,
                 leaving: SUBSET Machine]
    /\ allocation \in Allocation \cup {Idle}
    /\ backlog \in SUBSET Machine

AllocatorInit ==
    /\ paused = {} /\ failed = {} /\ leaving = {}
    /\ seen = Now
    /\ allocation = Idle /\ backlog = {}

Allocating(step) == allocation # Idle /\ allocation.step = step

(* Reconcile returns: with an error or a RequeueAfter, or with neither.    *)
Retry  == allocation' = Idle /\ backlog' = backlog \cup {allocation.machine}
Finish == allocation' = Idle /\ UNCHANGED backlog

-----------------------------------------------------------------------------
(* The claims that the informer has for machine m. *)
Held(m) == {e \in ENI : claimCache[e] # NoClaim /\ claimCache[e].machine = m}

(* The AWSMachines that the informer shows to wait for an interface. *)
Waiting == {m \in seen.paused \ seen.leaving : seen.machines[m] = Dynamic}

(***************************************************************************)
(* The reconciler takes up machine m.  One that does not wait for it is    *)
(* left alone.  One whose network is not known, has several pools, or      *)
(* whose key no interface has, comes back.  A claim that the informer      *)
(* shows for m is adopted, whatever its state.                             *)
(***************************************************************************)
Allocate(m) ==
    LET matches == Matches(NetworkOf[m])
        known   == m \in Waiting /\ NetworkOf[m] # Unresolved
        go(a)   == allocation' = a /\ backlog' = backlog \ {m}
        again   == UNCHANGED <<allocation, backlog>>
    IN  /\ allocation = Idle
        /\ m \in backlog
        /\ \/ /\ m \notin Waiting
              /\ backlog' = backlog \ {m}
              /\ UNCHANGED allocation
           \/ /\ m \in Waiting
              /\ NetworkOf[m] = Unresolved \/ Cardinality(matches) > 1
              /\ again
           \/ /\ known /\ matches = {}
              /\ go([step |-> "fallback", machine |-> m])
           \/ /\ known
              /\ \E p \in Pool :
                    /\ matches = {p}
                    /\ LET todo == Candidates(pools[p], KeyWanted[m]) IN
                       \/ \E e \in Held(m) :
                             go([step |-> "attach", machine |-> m, eni |-> e])
                       \/ Held(m) = {} /\ todo = {} /\ again
                       \/ /\ Held(m) = {} /\ todo # {}
                          /\ go([step |-> "claim", machine |-> m, pool |-> p,
                                 policy |-> pools[p].policy, todo |-> todo])
        /\ UNCHANGED <<clusterVars, paused, failed, leaving, seen>>

(* Mutant of ClaimInterface: AlreadyExists is as good as success. *)
ClaimInterfaceAnyway ==
    /\ Allocating("claim")
    /\ \E e \in Lowest(allocation.todo) :
          /\ \/ /\ claims[e] = NoClaim
                /\ Store(e, NewClaim(allocation.machine, allocation.pool))
             \/ /\ claims[e] # NoClaim
                /\ UNCHANGED <<claims, unseen>>
          /\ allocation' = [step |-> "attach",
                            machine |-> allocation.machine, eni |-> e]
    /\ UNCHANGED <<machines, claimCache, machineCache, pools,
                   paused, failed, leaving, seen, backlog>>

(***************************************************************************)
(* Create succeeds on the next candidate, or finds its name taken.         *)
(***************************************************************************)
ClaimInterface ==
    /\ Allocating("claim")
    /\ \E e \in Lowest(allocation.todo) :
          \/ /\ claims[e] = NoClaim
             /\ Store(e, NewClaim(allocation.machine, allocation.pool))
             /\ allocation' = [step |-> "attach",
                               machine |-> allocation.machine, eni |-> e]
          \/ /\ claims[e] # NoClaim
             /\ allocation' = [allocation EXCEPT !.todo = @ \ {e}]
             /\ UNCHANGED <<claims, unseen>>
    /\ UNCHANGED <<machines, claimCache, machineCache, pools,
                   paused, failed, leaving, seen, backlog>>

(* Mutant of Waits: Wait is treated like the other policies. *)
WaitsNever(policy) == FALSE

Waits(policy) == policy = "Wait"

(* Mutant of TryLater: Wait returns without a RequeueAfter. *)
TryLaterNever == Finish

(* RequeueAfter, 30 seconds: an interface may have become free. *)
TryLater == Retry

(* No candidate is left: the pool's policy decides. *)
PoolExhausted ==
    /\ Allocating("claim")
    /\ allocation.todo = {}
    /\ \/ Waits(allocation.policy) /\ TryLater
       \/ /\ ~Waits(allocation.policy)
          /\ allocation' =
                [step |-> IF allocation.policy = "Fail" THEN "fail"
                                                        ELSE "fallback",
                 machine |-> allocation.machine]
          /\ UNCHANGED backlog
    /\ UNCHANGED <<clusterVars, paused, failed, leaving, seen>>

(***************************************************************************)
(* The AWSMachine is patched by name; NotFound and a refusal are errors.   *)
(* The changes of the annotations and the interface are one patch.         *)
(***************************************************************************)
Attach ==
    /\ Allocating("attach")
    /\ LET m == allocation.machine IN
         \/ /\ machines[m] = Absent \/ ~SpecMutable
            /\ Retry
            /\ UNCHANGED <<machines, paused, failed>>
         \/ /\ machines[m] # Absent /\ SpecMutable
            /\ machines' = [machines EXCEPT ![m] = allocation.eni]
            /\ paused' = paused \ {m}
            /\ failed' = failed \ {m}
            /\ Finish \/ Retry
    /\ UNCHANGED <<claims, claimCache, unseen, machineCache, pools, leaving, seen>>

(* dynamicFallback: the AWSMachine is released to CAPA as it is. *)
DynamicFallback ==
    /\ Allocating("fallback")
    /\ \/ /\ machines[allocation.machine] = Absent
          /\ Retry
          /\ UNCHANGED <<paused, failed>>
       \/ /\ machines[allocation.machine] # Absent
          /\ paused' = paused \ {allocation.machine}
          /\ failed' = failed \ {allocation.machine}
          /\ Finish \/ Retry
    /\ UNCHANGED <<clusterVars, leaving, seen>>

(* markFailed: the AWSMachine stays paused. *)
MarkFailed ==
    /\ Allocating("fail")
    /\ \/ machines[allocation.machine] = Absent /\ Retry /\ UNCHANGED failed
       \/ /\ machines[allocation.machine] # Absent
          /\ failed' = failed \cup {allocation.machine}
          /\ Finish \/ Retry
    /\ UNCHANGED <<clusterVars, paused, leaving, seen>>

(***************************************************************************)
(* A call fails; a claim may have been created nevertheless.  A patch that *)
(* is applied although its caller sees an error is above.                  *)
(***************************************************************************)
CallFails ==
    /\ allocation # Idle
    /\ Allocating("claim") => allocation.todo # {}
    /\ \/ UNCHANGED <<claims, unseen>>
       \/ /\ Allocating("claim")
          /\ \E e \in Lowest(allocation.todo) :
                /\ claims[e] = NoClaim
                /\ Store(e, NewClaim(allocation.machine, allocation.pool))
    /\ Retry
    /\ UNCHANGED <<machines, claimCache, machineCache, pools,
                   paused, failed, leaving, seen>>

(* The AWSMachines of which the informer has an event to come. *)
Outdated ==
    {m \in Machine : \/ seen.machines[m] # machines[m]
                     \/ (m \in seen.paused) # (m \in paused)
                     \/ (m \in seen.failed) # (m \in failed)
                     \/ (m \in seen.leaving) # (m \in leaving)}

(***************************************************************************)
(* The AWSMachine informer catches up; this reconciler watches it.         *)
(***************************************************************************)
SyncMachineInformer ==
    /\ seen # Now
    /\ seen' = Now
    /\ machineCache' = Existing
    /\ backlog' = backlog \cup Outdated
    /\ UNCHANGED <<claims, machines, claimCache, unseen, pools,
                   paused, failed, leaving, allocation>>

AllocatorNext ==
    \/ \E m \in Machine : Allocate(m)
    \/ ClaimInterface \/ PoolExhausted
    \/ Attach \/ DynamicFallback \/ MarkFailed
    \/ SyncMachineInformer
=============================================================================
