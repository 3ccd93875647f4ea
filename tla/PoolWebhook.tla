----------------------------- MODULE PoolWebhook -----------------------------
(***************************************************************************)
(* The admission of ENIPools                                               *)
(* (src/internal/webhook/v1alpha1/enipool_webhook.go): the defaulter, the  *)
(* validator, and the API server's part of the same request, which stores  *)
(* the object after the validator has answered.                            *)
(*                                                                         *)
(* The validator compares a pool with the other pools that the manager's   *)
(* informer has.  It sees neither a pool that the informer has not         *)
(* received nor one that another request, validated as well, is about to   *)
(* store.                                                                  *)
(***************************************************************************)
EXTENDS Naturals, Sequences

CONSTANTS
    Pool, Network, ENI,
    Address,    \* private addresses, as written
    IPv4,       \* those that parse as IPv4
    Key, NoKey, \* interface keys; none
    Writer,     \* slots for the write requests in progress
    Submitted,  \* the specs that operators submit
    NoPool, Idle

(* An ENIReference. *)
Reference == [id: ENI, ip: Address, key: Key \cup {NoKey}]

(* The specs that the CRD's schema accepts; policy "" is an omitted one.   *)
PoolSpec == [network: Network, interfaces: Seq(Reference) \ {<<>>},
             policy: {"", "Dynamic", "Wait", "Fail"}]

(* A write: base is the object that it replaces. *)
Write == [pool: Pool, spec: PoolSpec, base: PoolSpec \cup {NoPool}]

ASSUME SubmittedAssumption == Submitted \subseteq PoolSpec
ASSUME NoPoolAssumption == NoPool \notin PoolSpec
ASSUME NoWriteAssumption == Idle \notin Write
ASSUME NoKeyAssumption == NoKey \notin Key

VARIABLES
    pools,      \* the API server's ENIPools
    poolCache,  \* the informer's copy
    writes      \* validated requests whose object is not stored yet

vars == <<pools, poolCache, writes>>

TypeOK ==
    /\ pools \in [Pool -> PoolSpec \cup {NoPool}]
    /\ poolCache \in [Pool -> PoolSpec \cup {NoPool}]
    /\ writes \in [Writer -> Write \cup {Idle}]

Init ==
    /\ pools = [p \in Pool |-> NoPool]
    /\ poolCache = pools
    /\ writes = [w \in Writer |-> Idle]

-----------------------------------------------------------------------------
(* Default: an omitted policy is Dynamic. *)
Default(spec) ==
    IF spec.policy = "" THEN [spec EXCEPT !.policy = "Dynamic"] ELSE spec

(* Mutant of WellFormed: two interfaces may have the same key. *)
WellFormedWithoutKeys(spec) ==
    \A i \in DOMAIN spec.interfaces :
        /\ spec.interfaces[i].ip \in IPv4
        /\ \A j \in DOMAIN spec.interfaces \ {i} :
              /\ spec.interfaces[i].id # spec.interfaces[j].id
              /\ spec.interfaces[i].ip # spec.interfaces[j].ip

(***************************************************************************)
(* validate, of the spec alone: ids, addresses and keys are unique, and    *)
(* the addresses are IPv4.                                                 *)
(***************************************************************************)
WellFormed(spec) ==
    \A i \in DOMAIN spec.interfaces :
        LET x == spec.interfaces[i] IN
        /\ x.ip \in IPv4
        /\ \A j \in DOMAIN spec.interfaces \ {i} :
              LET y == spec.interfaces[j] IN
              /\ x.id # y.id
              /\ x.ip # y.ip
              /\ x.key # NoKey => x.key # y.key

Offers(spec) == {spec.interfaces[i].id : i \in DOMAIN spec.interfaces}

(* Mutant of Conflict: interfaces are not compared. *)
ConflictOfNetworks(one, other) == one.network = other.network

(* validate, of two pools: the same network, or an interface in common.    *)
Conflict(one, other) ==
    \/ one.network = other.network
    \/ Offers(one) \cap Offers(other) # {}

(* ValidateCreate and ValidateUpdate, against the informer's pools. *)
Valid(p, spec) ==
    /\ WellFormed(spec)
    /\ \A q \in Pool \ {p} :
          poolCache[q] # NoPool => ~Conflict(spec, poolCache[q])

(***************************************************************************)
(* A CREATE or UPDATE is admitted.  One that is refused leaves no trace.   *)
(***************************************************************************)
Admit(w, p, spec) ==
    /\ writes[w] = Idle
    /\ Valid(p, Default(spec))
    /\ writes' = [writes EXCEPT ![w] =
                     [pool |-> p, spec |-> Default(spec), base |-> pools[p]]]
    /\ UNCHANGED <<pools, poolCache>>

(***************************************************************************)
(* The API server stores the object, unless it changed since the request   *)
(* read it.                                                                *)
(***************************************************************************)
Store(w) ==
    /\ writes[w] # Idle
    /\ pools' = IF pools[writes[w].pool] = writes[w].base
                THEN [pools EXCEPT ![writes[w].pool] = writes[w].spec]
                ELSE pools
    /\ writes' = [writes EXCEPT ![w] = Idle]
    /\ UNCHANGED poolCache

(* The request ends before the object is stored. *)
Abort(w) ==
    /\ writes[w] # Idle
    /\ writes' = [writes EXCEPT ![w] = Idle]
    /\ UNCHANGED <<pools, poolCache>>

(* A pool is deleted; ValidateDelete accepts every deletion. *)
Remove(p) ==
    /\ pools[p] # NoPool
    /\ pools' = [pools EXCEPT ![p] = NoPool]
    /\ UNCHANGED <<poolCache, writes>>

(* The informer catches up. *)
Sync ==
    /\ poolCache # pools
    /\ poolCache' = pools
    /\ UNCHANGED <<pools, writes>>

Next ==
    \/ \E w \in Writer, p \in Pool, spec \in Submitted : Admit(w, p, spec)
    \/ \E w \in Writer : Store(w) \/ Abort(w)
    \/ \E p \in Pool : Remove(p)
    \/ Sync

Spec == Init /\ [][Next]_vars

(***************************************************************************)
(* Operators who write one pool at a time, and wait until the informer has *)
(* it.                                                                     *)
(***************************************************************************)
Quiet == poolCache = pools /\ \A w \in Writer : writes[w] = Idle

PatientNext ==
    \/ /\ Quiet
       /\ \E w \in Writer, p \in Pool, spec \in Submitted : Admit(w, p, spec)
    \/ \E w \in Writer : Store(w) \/ Abort(w)
    \/ \E p \in Pool : Remove(p)
    \/ Sync

PatientSpec == Init /\ [][PatientNext]_vars

-----------------------------------------------------------------------------
(* No two pools own the same network or the same interface.                *)
(* docs/design.md: the validating webhook allows only one pool per region  *)
(* and VPC.  Operators must be patient for this.                           *)
PoolsDisjoint ==
    \A p, q \in Pool :
        pools[p] # NoPool /\ pools[q] # NoPool /\ p # q =>
            /\ pools[p].network # pools[q].network
            /\ Offers(pools[p]) \cap Offers(pools[q]) = {}

(* Its keys and its addresses each name one interface; its policy is set.  *)
Determined(spec) ==
    LET offered == spec.interfaces IN
    /\ \A k \in Key :
          \A i, j \in DOMAIN offered :
              offered[i].key = k /\ offered[j].key = k => i = j
    /\ \A i, j \in DOMAIN offered : offered[i].ip = offered[j].ip => i = j
    /\ spec.policy # ""

(* Whatever races the writes run, an interface key names at most one       *)
(* interface of a stored pool and the candidates of a pool have distinct   *)
(* addresses, so that the order in which they are tried is determined; and *)
(* no stored pool leaves its policy open.                                  *)
PoolsDetermined == \A p \in Pool : pools[p] # NoPool => Determined(pools[p])

(* Why: what is about to be stored is determined as well.                  *)
DeterminedInv ==
    /\ TypeOK
    /\ PoolsDetermined
    /\ \A w \in Writer : writes[w] # Idle => Determined(writes[w].spec)

(* Why patience is enough: the one write in progress agrees with the pools *)
(* that are stored, although some that it was compared with may be gone.   *)
PatientInv ==
    /\ TypeOK
    /\ PoolsDisjoint
    /\ \A w \in Writer : writes[w] # Idle =>
          /\ \A v \in Writer \ {w} : writes[v] = Idle
          /\ \A q \in Pool \ {writes[w].pool} :
                pools[q] # NoPool => ~Conflict(writes[w].spec, pools[q])
=============================================================================
