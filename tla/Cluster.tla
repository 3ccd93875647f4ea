------------------------------ MODULE Cluster ------------------------------
(***************************************************************************)
(* The Kubernetes objects that the ENI allocator works on, and the copies  *)
(* of them that its processes read.                                        *)
(*                                                                         *)
(* cmd/main.go gives the webhook and every reconciler one manager client:  *)
(* writes go to the API server, reads of ENIClaim, ENIPool and AWSMachine  *)
(* come from the manager's informers.  The two are separate variables      *)
(* here: claims and machines are the API server's objects, claimCache and  *)
(* machineCache what the informers last saw (of an AWSMachine, only        *)
(* whether it exists).  An informer shows one past state of its type, and  *)
(* moves forward only.  pools is the informer's view: no code under src/   *)
(* writes an ENIPool's spec, so the API server's copy is never observed.   *)
(***************************************************************************)
EXTENDS Naturals, FiniteSets

CONSTANTS
    ENI,        \* network interfaces, each also the name of its one ENIClaim
    Machine,    \* namespaced names of AWSMachines
    Pool,       \* names of ENIPools
    Network,    \* (region, VPC) pairs
    Key,        \* interface keys
    NoKey,      \* an interface, or a request, without a key
    KeyOf,      \* the key of each interface
    Address,    \* the private IPv4 address of each interface, as a number
    PoolChoices,\* the specs that operators give to pools
    NetworkOf,  \* the network of the AWSCluster that each AWSMachine is of
    Unresolved, \* an AWSCluster whose region or VPC is still empty
    NoClaim, NoPool,    \* no object of that name
    Absent,     \* no AWSMachine of that name
    Dynamic,    \* an AWSMachine that CAPA gives a network interface itself
    Idle        \* a process with nothing to do

Policy == {"Dynamic", "Wait", "Fail"}

PoolSpec == [network: Network, interfaces: SUBSET ENI \ {{}}, policy: Policy]

(***************************************************************************)
(* An ENIClaim.  finalizer: it carries the ClaimFinalizer.                  *)
(* deleting: its DeletionTimestamp is set.  aged: it is older than the     *)
(* grace period of 30 seconds.  status: Status.Phase, "None" while it is   *)
(* empty.                                                                  *)
(***************************************************************************)
Claim == [machine: Machine, pool: Pool, finalizer: BOOLEAN,
          deleting: BOOLEAN, aged: BOOLEAN,
          status: {"None", "Bound", "Failed"}]

(***************************************************************************)
(* Of an AWSMachine the allocator uses spec.networkInterfaces[0].          *)
(***************************************************************************)
Attachment == ENI \cup {Dynamic}

ASSUME AddressAssumption == Address \in [ENI -> Nat]
ASSUME KeyAssumption == KeyOf \in [ENI -> Key \cup {NoKey}] /\ NoKey \notin Key
ASSUME PoolAssumption == PoolChoices \subseteq PoolSpec /\ NoPool \notin PoolSpec
ASSUME NetworkAssumption ==
    NetworkOf \in [Machine -> Network \cup {Unresolved}]
ASSUME ClaimAssumption == NoClaim \notin Claim \cup Machine
ASSUME MachineAssumption == Absent \notin Attachment /\ Dynamic \notin ENI

VARIABLES
    claims,         \* the API server's ENIClaim of each name
    machines,       \* the API server's AWSMachine of each name
    claimCache,     \* the informer's copy of claims
    unseen,         \* claims that changed since the informer caught up
    machineCache,   \* the AWSMachines that the informer has
    pools           \* the informer's copy of the ENIPools

(* The AWSMachines that exist. *)
Existing == {m \in Machine : machines[m] # Absent}

clusterVars == <<claims, machines, claimCache, unseen, machineCache, pools>>

ClusterTypeOK ==
    /\ claims \in [ENI -> Claim \cup {NoClaim}]
    /\ claimCache \in [ENI -> Claim \cup {NoClaim}]
    /\ machines \in [Machine -> Attachment \cup {Absent}]
    /\ unseen \in SUBSET ENI
    /\ machineCache \in SUBSET Machine
    /\ pools \in [Pool -> PoolSpec \cup {NoPool}]

ClusterInit ==
    /\ claims = [e \in ENI |-> NoClaim]
    /\ machines = [m \in Machine |-> Absent]
    /\ claimCache = claims
    /\ unseen = {}
    /\ machineCache = {}
    /\ pools \in [Pool -> PoolChoices \cup {NoPool}]

-----------------------------------------------------------------------------
(* What the API server does with a claim.                                  *)

(* It stores c as claim e; a change is an event for the informer. *)
Store(e, c) ==
    /\ claims' = [claims EXCEPT ![e] = c]
    /\ unseen' = IF claims[e] = c THEN unseen ELSE unseen \cup {e}

(***************************************************************************)
(* DELETE by name: an object with a finalizer is marked, one without goes. *)
(***************************************************************************)
AfterDelete(c) == IF c # NoClaim /\ c.finalizer
                  THEN [c EXCEPT !.deleting = TRUE] ELSE NoClaim

(***************************************************************************)
(* A merge patch by name that empties metadata.finalizers: an object being *)
(* deleted goes, another one stays without the finalizer.                  *)
(***************************************************************************)
AfterUnfinalize(c) == IF c = NoClaim \/ c.deleting
                      THEN NoClaim ELSE [c EXCEPT !.finalizer = FALSE]

(***************************************************************************)
(* A merge patch by name that sets metadata.finalizers: an object being    *)
(* deleted accepts no finalizer that it does not have.                     *)
(***************************************************************************)
TakesFinalizer(c) == c # NoClaim /\ (c.deleting => c.finalizer)

-----------------------------------------------------------------------------
(* How the webhook and the AWSMachine reconciler choose an interface: each *)
(* has its own copy of this code.                                          *)

(***************************************************************************)
(* findPool: the pools of a network.  More than one is an error.           *)
(***************************************************************************)
Matches(network) ==
    {p \in Pool : pools[p] # NoPool /\ pools[p].network = network}

(***************************************************************************)
(* The interfaces of a pool that a request with this key may have.  None   *)
(* is an error.                                                            *)
(***************************************************************************)
Candidates(spec, key) ==
    IF key = NoKey THEN spec.interfaces
                   ELSE {e \in spec.interfaces : KeyOf[e] = key}

(* The candidates to try next: those with the lowest address.              *)
Lowest(todo) == {e \in todo : \A f \in todo : Address[e] =< Address[f]}

(* Mutant of NewClaim: the claim starts as Pending, a phase that the API   *)
(* has (eniclaim_types.go:47), but that no code writes.                    *)
NewClaimPending(m, p) ==
    [machine |-> m, pool |-> p, finalizer |-> TRUE,
     deleting |-> FALSE, aged |-> FALSE, status |-> "Pending"]

(* The claim that is created for a machine. *)
NewClaim(m, p) == [machine |-> m, pool |-> p, finalizer |-> TRUE,
                   deleting |-> FALSE, aged |-> FALSE, status |-> "None"]

-----------------------------------------------------------------------------
(* The environment.                                                        *)

(***************************************************************************)
(* CAPA removes its finalizer from a deleted AWSMachine, and it is gone.   *)
(***************************************************************************)
MachineGone(m) ==
    /\ machines[m] # Absent
    /\ machines' = [machines EXCEPT ![m] = Absent]
    /\ UNCHANGED <<claims, claimCache, unseen, machineCache, pools>>

(***************************************************************************)
(* An operator creates, changes or deletes a pool.  Which specs are        *)
(* admitted is PoolWebhook's subject; here any of PoolChoices is.          *)
(***************************************************************************)
OperatorEditsPool(p) ==
    /\ \E spec \in PoolChoices \cup {NoPool} :
          /\ spec # pools[p]
          /\ pools' = [pools EXCEPT ![p] = spec]
    /\ UNCHANGED <<claims, machines, claimCache, unseen, machineCache>>

(***************************************************************************)
(* The AWSMachine informer catches up.  No reconciler of claims watches    *)
(* AWSMachines: nothing is queued.                                         *)
(***************************************************************************)
SyncMachines ==
    /\ machineCache # Existing
    /\ machineCache' = Existing
    /\ UNCHANGED <<claims, machines, claimCache, unseen, pools>>
=============================================================================
