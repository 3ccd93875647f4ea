------------------------------ MODULE Manager ------------------------------
(***************************************************************************)
(* Everything that one manager runs over the same claims (cmd/main.go):    *)
(* the admission webhook, the ENIClaim reconciler and the AWSMachine       *)
(* reconciler, with the API server, CAPA, operators who change pools,      *)
(* time, faults and restarts around them.                                  *)
(*                                                                         *)
(* An AWSMachine gets its interface in one of two ways.  Those of Later    *)
(* are created paused for the allocator, so that the webhook lets them     *)
(* pass and the AWSMachine reconciler serves them; the webhook serves the  *)
(* others.  Both ways compete for the interfaces.                          *)
(***************************************************************************)
EXTENDS ENIAllocator, MachineController

CONSTANT Later  \* the AWSMachines that are created paused

ASSUME LaterAssumption == Later \subseteq Machine

managerVars == <<vars, allocatorVars>>

ManagerTypeOK == TypeOK /\ AllocatorTypeOK

ManagerInit == Init /\ AllocatorInit

-----------------------------------------------------------------------------
(* The life of the AWSMachines.                                            *)

(* Nothing is claimed for machine m, or being done about it. *)
Untouched(m) ==
    /\ \A e \in ENI :
          /\ claims[e] # NoClaim => claims[e].machine # m
          /\ claimCache[e] # NoClaim => claimCache[e].machine # m
    /\ worker # Idle => worker.claim.machine # m
    /\ allocation # Idle => allocation.machine # m

(***************************************************************************)
(* A user creates an AWSMachine that is paused for the allocator.  The API *)
(* server asks only that no other has its name.                            *)
(***************************************************************************)
CreatePaused(m) ==
    /\ machines[m] = Absent
    /\ machines' = [machines EXCEPT ![m] = Dynamic]
    /\ paused' = paused \cup {m}
    /\ UNCHANGED <<claims, claimCache, unseen, machineCache, pools, requests,
                   controllerVars, failed, leaving, seen, allocation, backlog>>

(* An AWSMachine is deleted: it gets a DeletionTimestamp, and goes later.  *)
Leave(m) ==
    /\ machines[m] # Absent /\ m \notin leaving
    /\ leaving' = leaving \cup {m}
    /\ UNCHANGED <<vars, paused, failed, seen, allocation, backlog>>

Remove(m) ==
    /\ m \in leaving
    /\ MachineGone(m)
    /\ paused' = paused \ {m}
    /\ failed' = failed \ {m}
    /\ leaving' = leaving \ {m}
    /\ UNCHANGED <<requests, controllerVars, seen, allocation, backlog>>

(***************************************************************************)
(* What the code needs of its users, though nothing asks it of them: a     *)
(* name is given only if it is new, or if nothing is left of the earlier   *)
(* AWSMachine of that name, its claims included.                           *)
(***************************************************************************)
Forgotten(m) == machines[m] = Absent /\ m \notin machineCache /\ Untouched(m)

LifeNext ==
    \/ \E m \in Later : \/ Forgotten(m) /\ CreatePaused(m)
                       \/ Leave(m) \/ Remove(m)
    \/ /\ \E m \in Machine \ Later : MachineGone(m)
       /\ UNCHANGED <<requests, controllerVars, allocatorVars>>

-----------------------------------------------------------------------------
(* The manager's processes, in the order of cmd/main.go.                   *)

(* The webhook's requests are for the other AWSMachines. *)
AdmissionNext ==
    \/ \E m \in Machine \ Later : Bypass(m)
    \/ \E r \in Request, m \in Machine \ Later : Admit(r, m)
    \/ \E r \in Request : RequestNext(r)

(* A step of the AWSMachine reconciler. *)
Allocates(A) == A /\ UNCHANGED <<requests, controllerVars>>

ProcessNext ==
    \/ ControllerNext /\ UNCHANGED <<requests, allocatorVars>>
    \/ AdmissionNext /\ UNCHANGED <<controllerVars, allocatorVars>>
    \/ Allocates(AllocatorNext)

(***************************************************************************)
(* The manager stops and starts again.  A reconciliation is lost, and      *)
(* every AWSMachine is queued.                                             *)
(***************************************************************************)
ManagerRestart ==
    /\ Restart
    /\ seen' = Now
    /\ allocation' = Idle
    /\ backlog' = Existing
    /\ UNCHANGED <<paused, failed, leaving>>

ManagerFaultNext ==
    \/ /\ \/ \E r \in Request : CreateFails(r) /\ UNCHANGED controllerVars
          \/ WriteFails /\ UNCHANGED requests
       /\ UNCHANGED allocatorVars
    \/ Allocates(CallFails)
    \/ ManagerRestart

(* Nobody changes pools. *)
StaticNext ==
    \/ LifeNext
    \/ ProcessNext
    \/ ManagerFaultNext
    \/ \E e \in ENI : GraceExpires(e) /\ UNCHANGED allocatorVars

ManagerNext ==
    \/ StaticNext
    \/ PoolNext /\ UNCHANGED allocatorVars

ManagerSpec == ManagerInit /\ [][ManagerNext]_managerVars

StaticSpec == ManagerInit /\ [][StaticNext]_managerVars

(***************************************************************************)
(* The workqueue hands out every AWSMachine, the informers deliver, and a  *)
(* call that is tried again and again succeeds in the end.                 *)
(***************************************************************************)
ManagerFairness ==
    /\ \A m \in Machine :
          /\ SF_managerVars(Allocates(Allocate(m)))
          /\ SF_managerVars(Allocates(/\ Attach \/ DynamicFallback \/ MarkFailed
                                      /\ allocation.machine = m))
          /\ \A e \in ENI :
                SF_managerVars(Allocates(/\ ClaimInterface
                                         /\ allocation.machine = m
                                         /\ e \in Lowest(allocation.todo)))
    /\ SF_managerVars(Allocates(PoolExhausted))
    /\ WF_managerVars(Allocates(SyncMachineInformer))
    /\ WF_managerVars(SyncClaims /\ UNCHANGED <<requests, allocatorVars>>)

FairStaticSpec == StaticSpec /\ ManagerFairness

-----------------------------------------------------------------------------
(* An interface that was claimed for an AWSMachine by the AWSMachine       *)
(* reconciler stays claimed for it as long as the AWSMachine exists: not   *)
(* only the one that the AWSMachine shows, also one that a reconciliation  *)
(* from stale informers replaced while CAPA may have used it already, or   *)
(* one whose patch is still to come, however late.                         *)
ClaimsKept ==
    [][\A e \in ENI, m \in Later :
          /\ claims[e] # NoClaim /\ claims[e].machine = m
          /\ machines[m] # Absent /\ machines'[m] # Absent
          => /\ claims'[e] # NoClaim /\ claims'[e].machine = m
             /\ ~claims'[e].deleting]_managerVars

(* An AWSMachine is released to CAPA without an interface only if its pool *)
(* says Dynamic, or there is no pool; Wait and Fail keep it paused.        *)
PolicyKept ==
    \A m \in Later, p \in Pool :
        /\ machines[m] = Dynamic /\ m \notin paused
        /\ Matches(NetworkOf[m]) = {p}
        => pools[p].policy = "Dynamic"

(* Why: machine m may be released without an interface unless its network  *)
(* has one pool, with another policy.                                      *)
MayGo(m) ==
    \A p \in Pool : Matches(NetworkOf[m]) = {p} => pools[p].policy = "Dynamic"

(* A reconciliation works with what its network's pool says now, though it *)
(* read the pool before its API calls, and turns to the fallback only if   *)
(* that pool, or the lack of one, lets its AWSMachine go.                  *)
PolicyInv ==
    /\ \A m \in Later :
          machines[m] = Dynamic /\ m \notin paused => MayGo(m)
    /\ Allocating("claim") =>
          /\ Matches(NetworkOf[allocation.machine]) = {allocation.pool}
          /\ pools[allocation.pool].policy = allocation.policy
    /\ Allocating("fallback") => MayGo(allocation.machine)

(* Machine m waits although an interface that it may have is free or       *)
(* claimed for it, or although its pool lets it go without one.            *)
Stuck(m) ==
    /\ m \in paused \ leaving
    /\ NetworkOf[m] # Unresolved
    /\ \A p \in Matches(NetworkOf[m]) :
          \/ pools[p].policy = "Dynamic"
          \/ /\ pools[p].policy = "Wait"
             /\ \E e \in Candidates(pools[p], KeyWanted[m]) :
                   claims[e] = NoClaim \/ claims[e].machine = m

(* Wait leaves an AWSMachine paused until an interface is available        *)
(* (api/v1alpha1/enipool_types.go), and no longer: none is stuck for ever, *)
(* also when the interface became free without any event for it.           *)
NotStuckForever == \A m \in Machine : []<>~Stuck(m)

(* An AWSMachine that waits for an interface is never lost sight of: an    *)
(* event of it is to come, or it is queued, or being reconciled.  One that *)
(* was marked failed may be: nothing repeats its reconciliation.           *)
NoMachineForgotten ==
    \A m \in paused \ (leaving \cup failed) :
        machines[m] = Dynamic =>
            \/ m \in Outdated \cup backlog
            \/ allocation # Idle /\ allocation.machine = m

-----------------------------------------------------------------------------
(* Why the two ways do not disturb each other.                             *)

(* The informer has shown an AWSMachine before anything is claimed for it  *)
(* or done about it, and shows it until it is gone.                        *)
SeenBeforeClaimed ==
    \A m \in Later : machines[m] # Absent =>
        m \in machineCache \/ Untouched(m)

(* A claim of such an AWSMachine, in the API server or in the informer, is *)
(* there, and nobody is about to delete it.                                *)
ClaimsServe ==
    \A m \in Later : machines[m] # Absent =>
        /\ At("delete") => worker.claim.machine # m
        /\ \A e \in ENI :
              /\ claims[e] # NoClaim /\ claims[e].machine = m =>
                    ~claims[e].deleting
              /\ claimCache[e] # NoClaim /\ claimCache[e].machine = m =>
                    /\ claims[e] # NoClaim /\ claims[e].machine = m
                    /\ ~claimCache[e].deleting

(* So the patch to come gives the AWSMachine an interface of its own.      *)
AttachesOwn ==
    Allocating("attach") /\ machines[allocation.machine] # Absent =>
        /\ claims[allocation.eni] # NoClaim
        /\ claims[allocation.eni].machine = allocation.machine

(* Each way keeps to its AWSMachines. *)
Apart ==
    /\ allocation # Idle => allocation.machine \in Later
    /\ paused \subseteq Later /\ seen.paused \subseteq Later
    /\ \A r \in Request : requests[r] # Idle => requests[r].machine \notin Later
    /\ machineCache = {m \in Machine : seen.machines[m] # Absent}

ManagerInv == /\ IInv /\ AllocatorTypeOK
              /\ SeenBeforeClaimed /\ ClaimsServe /\ AttachesOwn /\ Apart
=============================================================================
