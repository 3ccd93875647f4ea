--------------------------- MODULE ClusterProofs ---------------------------
(***************************************************************************)
(* The choice of a candidate, which the webhook and the AWSMachine         *)
(* reconciler both make: for the pools that the validator accepts the next *)
(* candidate is the only one, and a conflict takes it off the list.        *)
(***************************************************************************)
EXTENDS Cluster, FiniteSetTheorems, WellFoundedInduction, TLAPS

LEMMA LessThan ==
    ASSUME NEW i \in Nat, NEW j \in Nat
    PROVE  <<i, j>> \in OpToRel(<, Nat) <=> i < j
  BY Zenon DEF OpToRel

(* A set of numbers has a smallest one. *)
LEMMA SmallestExists ==
    ASSUME NEW T, T \subseteq Nat, T # {}
    PROVE  \E i \in T : \A j \in T : i =< j
<1>1. PICK i \in T : \A j \in T : ~(<<j, i>> \in OpToRel(<, Nat))
  BY NatLessThanWellFounded, WFMin, Zenon
<1>2. \A j \in T : ~(j < i)
  BY <1>1, LessThan
<1> QED
  BY <1>2

(* Sorting by address (awsmachine_webhook.go:179) puts some candidate      *)
(* first: as long as there are candidates, the loop can go on.             *)
LEMMA LowestExists ==
    ASSUME NEW todo \in SUBSET ENI, todo # {}
    PROVE  Lowest(todo) # {}
<1> DEFINE T == {Address[e] : e \in todo}
<1>1. T \subseteq Nat /\ T # {}
  BY AddressAssumption
<1>2. PICK i \in T : \A j \in T : i =< j
  BY <1>1, SmallestExists
<1>3. PICK e \in todo : Address[e] = i
  BY <1>2
<1>4. e \in Lowest(todo)
  BY <1>2, <1>3 DEF Lowest
<1> QED
  BY <1>4

(* Where addresses differ, as the validator demands of a pool, the         *)
(* candidates left are tried in one order only, and the same by the        *)
(* webhook and by the reconciler.                                          *)
THEOREM LowestIsOne ==
    ASSUME NEW todo \in SUBSET ENI, todo # {},
           \A e, f \in todo : Address[e] = Address[f] => e = f
    PROVE  \E e \in todo : Lowest(todo) = {e}
<1>1. PICK e \in Lowest(todo) : TRUE
  BY LowestExists
<1>2. e \in todo /\ Lowest(todo) \subseteq todo
  BY <1>1 DEF Lowest
<1>3. ASSUME NEW f \in Lowest(todo) PROVE f = e
  <2>1. Address[e] =< Address[f] /\ Address[f] =< Address[e]
    BY <1>1, <1>2, <1>3 DEF Lowest
  <2>2. Address[e] \in Nat /\ Address[f] \in Nat
    BY <1>2, <1>3, AddressAssumption
  <2> QED
    BY <1>2, <1>3, <2>1, <2>2
<1> QED
  BY <1>1, <1>2, <1>3

(* A conflict takes one candidate off the list and no other, so a loop     *)
(* over n candidates asks the API server for at most n claims.             *)
THEOREM CandidatesRunOut ==
    ASSUME NEW todo \in SUBSET ENI, IsFiniteSet(todo), NEW e \in Lowest(todo)
    PROVE  /\ IsFiniteSet(todo \ {e})
           /\ Cardinality(todo \ {e}) = Cardinality(todo) - 1
           /\ \A f \in todo \ {e} : Address[e] =< Address[f]
  BY FS_RemoveElement DEF Lowest
=============================================================================
