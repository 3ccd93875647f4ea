------------------------- MODULE PoolWebhookProofs -------------------------
(***************************************************************************)
(* One write at a time, after the informer has caught up, is enough to     *)
(* keep the pools apart; each pool is determined whatever the writes do.   *)
(***************************************************************************)
EXTENDS PoolWebhook, TLAPS

(* The defaulter changes a spec's policy and nothing else. *)
LEMMA DefaultKeeps ==
    ASSUME NEW spec \in PoolSpec
    PROVE  /\ Default(spec) \in PoolSpec
           /\ Default(spec).network = spec.network
           /\ Default(spec).interfaces = spec.interfaces
  BY DEF Default, PoolSpec

(* The invariant holds at first. *)
LEMMA PatientInit == Init => PatientInv
  BY DEF Init, PatientInv, TypeOK, PoolsDisjoint

(* Every step of patient operators preserves it. *)
LEMMA PatientStep == PatientInv /\ [PatientNext]_vars => PatientInv'
<1> SUFFICES ASSUME PatientInv, [PatientNext]_vars PROVE PatientInv'
  OBVIOUS
<1> USE DEF PatientInv, TypeOK
<1>1. ASSUME Quiet,
             NEW w \in Writer, NEW p \in Pool, NEW spec \in Submitted,
             Admit(w, p, spec)
      PROVE  PatientInv'
  <2> DEFINE new == [pool |-> p, spec |-> Default(spec), base |-> pools[p]]
  <2>1. Default(spec) \in PoolSpec
    BY SubmittedAssumption, DefaultKeeps
  <2>2. new \in Write /\ new.pool = p /\ new.spec = Default(spec)
    BY <2>1 DEF Write
  <2>3. \A q \in Pool \ {p} : pools[q] # NoPool => ~Conflict(Default(spec), pools[q])
    BY <1>1 DEF Admit, Valid, Quiet
  <2> HIDE DEF new
  <2>4. writes' = [writes EXCEPT ![w] = new] /\ UNCHANGED <<pools, poolCache>>
    BY <1>1 DEF Admit, new
  <2>5. \A v \in Writer \ {w} : writes'[v] = Idle
    BY <1>1, <2>4 DEF Quiet
  <2>6. \A v \in Writer : writes'[v] # Idle => v = w /\ writes'[v] = new
    BY <2>4, <2>5
  <2>7. writes' \in [Writer -> Write \cup {Idle}]
    BY <2>2, <2>4
  <2>8. PoolsDisjoint'
    BY <2>4 DEF PoolsDisjoint
  <2>9. \A v \in Writer : writes'[v] # Idle =>
          /\ \A u \in Writer \ {v} : writes'[u] = Idle
          /\ \A q \in Pool \ {writes'[v].pool} :
                pools'[q] # NoPool => ~Conflict(writes'[v].spec, pools'[q])
    BY <2>2, <2>3, <2>4, <2>5, <2>6
  <2> QED
    BY <2>4, <2>7, <2>8, <2>9
<1>2. ASSUME NEW w \in Writer, Store(w) PROVE PatientInv'
  <2>1. /\ writes[w] \in Write
        /\ writes' = [writes EXCEPT ![w] = Idle] /\ UNCHANGED poolCache
    BY <1>2 DEF Store
  <2>2. \A v \in Writer : writes'[v] = Idle
    BY <1>2, <2>1 DEF Store
  <2>3. writes' \in [Writer -> Write \cup {Idle}]
    BY <2>1
  <2> DEFINE p == writes[w].pool
             spec == writes[w].spec
  <2>4. p \in Pool /\ spec \in PoolSpec
    BY <2>1 DEF Write
  <2>5. \A q \in Pool \ {p} : pools[q] # NoPool =>
          /\ spec.network # pools[q].network
          /\ Offers(spec) \cap Offers(pools[q]) = {}
    BY <1>2 DEF Store, Conflict
  <2> HIDE DEF p, spec
  <2>6. pools' = pools \/ pools' = [pools EXCEPT ![p] = spec]
    BY <1>2 DEF Store, p, spec
  <2>7. pools' \in [Pool -> PoolSpec \cup {NoPool}]
    BY <2>4, <2>6
  <2>8. PoolsDisjoint'
    <3>1. CASE pools' = pools
      BY <3>1 DEF PoolsDisjoint
    <3>2. CASE pools' = [pools EXCEPT ![p] = spec]
      <4> SUFFICES ASSUME NEW q \in Pool, NEW r \in Pool,
                          pools'[q] # NoPool, pools'[r] # NoPool, q # r
                   PROVE  /\ pools'[q].network # pools'[r].network
                          /\ Offers(pools'[q]) \cap Offers(pools'[r]) = {}
        BY DEF PoolsDisjoint, Offers
      <4>1. CASE q = p
        BY <2>4, <2>5, <3>2, <4>1
      <4>2. CASE r = p
        BY <2>4, <2>5, <3>2, <4>2
      <4>3. CASE q # p /\ r # p
        BY <3>2, <4>3 DEF PoolsDisjoint
      <4> QED
        BY <4>1, <4>2, <4>3
    <3> QED
      BY <2>6, <3>1, <3>2
  <2> QED
    BY <2>1, <2>2, <2>3, <2>7, <2>8
<1>3. ASSUME NEW w \in Writer, Abort(w) PROVE PatientInv'
  <2>1. /\ writes' = [writes EXCEPT ![w] = Idle] /\ UNCHANGED <<pools, poolCache>>
    BY <1>3 DEF Abort
  <2>2. \A v \in Writer : writes'[v] = Idle
    BY <1>3, <2>1 DEF Abort
  <2>3. PoolsDisjoint'
    BY <2>1 DEF PoolsDisjoint
  <2> QED
    BY <2>1, <2>2, <2>3
<1>4. ASSUME NEW p \in Pool, Remove(p) PROVE PatientInv'
  <2>1. /\ pools' = [pools EXCEPT ![p] = NoPool] /\ UNCHANGED <<poolCache, writes>>
        /\ \A q \in Pool : pools'[q] # NoPool => pools'[q] = pools[q]
    BY <1>4 DEF Remove
  <2>2. PoolsDisjoint'
    BY <2>1 DEF PoolsDisjoint
  <2>3. \A w \in Writer : writes'[w] # Idle =>
          \A q \in Pool \ {writes'[w].pool} :
                pools'[q] # NoPool => ~Conflict(writes'[w].spec, pools'[q])
    BY <2>1
  <2> QED
    BY <2>1, <2>2, <2>3
<1>5. CASE Sync
  BY <1>5 DEF Sync, PoolsDisjoint
<1>6. CASE UNCHANGED vars
  BY <1>6 DEF vars, PoolsDisjoint
<1> QED
  BY <1>1, <1>2, <1>3, <1>4, <1>5, <1>6 DEF PatientNext

(* At most one write is in progress, it agrees with every other pool that  *)
(* is stored, and when it ends the pools are still apart: the comparison   *)
(* with the informer's copies, made when the write began, still holds when *)
(* the API server stores the pool.                                         *)
THEOREM PatientSafety == PatientSpec => []PatientInv
  BY PatientInit, PatientStep, PTL DEF PatientSpec

(* If every pool is written alone and after the informer has received all  *)
(* others, the validator keeps the networks and the interfaces of any      *)
(* number of pools apart, whichever of them are deleted meanwhile.         *)
THEOREM PatienceKeepsPoolsDisjoint == PatientSpec => []PoolsDisjoint
<1>1. PatientInv => PoolsDisjoint
  BY DEF PatientInv
<1> QED
  BY <1>1, PatientSafety, PTL

-----------------------------------------------------------------------------
(* What the defaulter sets and the validator accepts is determined. *)
LEMMA ValidIsDetermined ==
    ASSUME NEW spec \in PoolSpec, WellFormed(Default(spec))
    PROVE  Determined(Default(spec))
<1> DEFINE new == Default(spec)
<1>1. new.policy # ""
  BY DEF Default, PoolSpec
<1>2. new \in PoolSpec
  BY DefaultKeeps
<1> HIDE DEF new
<1>3. ASSUME NEW k \in Key, NEW i \in DOMAIN new.interfaces,
             NEW j \in DOMAIN new.interfaces,
             new.interfaces[i].key = k, new.interfaces[j].key = k
      PROVE  i = j
  BY <1>3, NoKeyAssumption DEF WellFormed, new
<1>4. ASSUME NEW i \in DOMAIN new.interfaces, NEW j \in DOMAIN new.interfaces,
             new.interfaces[i].ip = new.interfaces[j].ip
      PROVE  i = j
  BY <1>4 DEF WellFormed, new
<1> QED
  BY <1>1, <1>3, <1>4 DEF Determined, new

(* Every step, of patient and of impatient operators, keeps pools and      *)
(* writes determined.                                                      *)
LEMMA DeterminedStep == DeterminedInv /\ [Next]_vars => DeterminedInv'
<1> SUFFICES ASSUME DeterminedInv, [Next]_vars PROVE DeterminedInv'
  OBVIOUS
<1> USE DEF DeterminedInv, TypeOK, PoolsDetermined
<1>1. ASSUME NEW w \in Writer, NEW p \in Pool, NEW spec \in Submitted,
             Admit(w, p, spec)
      PROVE  DeterminedInv'
  <2> DEFINE new == [pool |-> p, spec |-> Default(spec), base |-> pools[p]]
  <2>1. Default(spec) \in PoolSpec /\ Determined(Default(spec))
    BY <1>1, SubmittedAssumption, DefaultKeeps, ValidIsDetermined
       DEF Admit, Valid
  <2>2. new \in Write /\ Determined(new.spec)
    BY <2>1 DEF Write
  <2> HIDE DEF new
  <2>3. writes' = [writes EXCEPT ![w] = new] /\ UNCHANGED <<pools, poolCache>>
    BY <1>1 DEF Admit, new
  <2> QED
    BY <2>2, <2>3
<1>2. ASSUME NEW w \in Writer, Store(w) PROVE DeterminedInv'
  <2>1. /\ writes[w] \in Write
        /\ Determined(writes[w].spec)
        /\ writes' = [writes EXCEPT ![w] = Idle] /\ UNCHANGED poolCache
    BY <1>2 DEF Store
  <2>2. \/ pools' = pools
        \/ pools' = [pools EXCEPT ![writes[w].pool] = writes[w].spec]
    BY <1>2 DEF Store
  <2>3. writes[w].pool \in Pool /\ writes[w].spec \in PoolSpec
    BY <2>1 DEF Write
  <2> QED
    BY <2>1, <2>2, <2>3
<1>3. ASSUME NEW w \in Writer, Abort(w) PROVE DeterminedInv'
  BY <1>3 DEF Abort
<1>4. ASSUME NEW p \in Pool, Remove(p) PROVE DeterminedInv'
  BY <1>4 DEF Remove
<1>5. CASE Sync
  BY <1>5 DEF Sync
<1>6. CASE UNCHANGED vars
  BY <1>6 DEF vars
<1> QED
  BY <1>1, <1>2, <1>3, <1>4, <1>5, <1>6 DEF Next

(* However operators race each other and the informer, a key of a stored   *)
(* pool names one interface, its addresses order its interfaces, and its   *)
(* policy is set: what the allocators rely on.                             *)
THEOREM PoolsAreDetermined == Spec => []PoolsDetermined
<1>1. Init => DeterminedInv
  BY DEF Init, DeterminedInv, TypeOK, PoolsDetermined
<1>2. DeterminedInv => PoolsDetermined
  BY DEF DeterminedInv
<1> QED
  BY <1>1, <1>2, DeterminedStep, PTL DEF Spec
=============================================================================
