--------------------------- MODULE MCENIAllocator ---------------------------
(***************************************************************************)
(* Small instances of ENIAllocator for TLC.                                *)
(***************************************************************************)
EXTENDS ENIAllocator, TLC

CONSTANTS e1, e2, vpc, vpc2, k1

(* e1 has the lower address; only e2 can be asked for by key. *)
AddressInOrder == [e \in ENI |-> IF e = e1 THEN 1 ELSE 2]
KeyedE2 == [e \in ENI |-> IF e = e2 THEN k1 ELSE NoKey]

OneNetwork == [m \in Machine |-> vpc]

Offering(interfaces, policy) ==
    [network |-> vpc, interfaces |-> interfaces, policy |-> policy]

OnePool   == {Offering(ENI, "Dynamic")}

Symmetry == Permutations(Machine) \cup Permutations(Request)

(* For contention: everything happens, but the pool stays as it is.        *)
StillSpec == Init /\ [][Next /\ UNCHANGED pools]_vars

(* For retries: an AWSMachine that was created stays. *)
LastingNext == SystemNext /\ Existing \subseteq {m \in Machine : machines'[m] # Absent}

LastingSpec == Init /\ [][LastingNext]_vars

(***************************************************************************)
(* For liveness.  e2 is there only to be in the pool when e1 is not: the   *)
(* pool is of another network then, and e2 is never claimed.  Operators    *)
(* change the pool and leave the claims alone.                             *)
(***************************************************************************)
MovingPool == {Offering({e1}, "Dynamic"),
               [network |-> vpc2, interfaces |-> {e2}, policy |-> "Dynamic"]}

LiveNext == /\ SystemNext \/ FaultNext \/ PoolNext
            /\ claims'[e2] = NoClaim

LiveSpec == Init /\ [][LiveNext]_vars /\ FairnessFor(e1)

(* A claim that admission left behind, or whose AWSMachine is gone, does   *)
(* not stay (docs/operation-flow.md: an orphan claim is deleted after the  *)
(* grace period).                                                          *)
OrphansReclaimed == Reclaimed(e1)

(* A claim being deleted goes, also when its pool is gone.                 *)
DeletedClaimsGo == Released(e1)

(* The claim of an existing AWSMachine becomes what its pool makes of it,  *)
(* and again when the pool drops the interface or takes it back, although  *)
(* no event of a pool reaches the reconciler of claims.                    *)
ClaimsBound == Bound(e1)
=============================================================================
