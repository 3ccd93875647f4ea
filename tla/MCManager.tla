----------------------------- MODULE MCManager -----------------------------
(***************************************************************************)
(* Small instances of Manager for TLC.                                     *)
(***************************************************************************)
EXTENDS Manager, TLC

CONSTANTS e1, e2, m2, vpc

AddressInOrder == [e \in ENI |-> IF e = e1 THEN 1 ELSE 2]
NoKeys     == [e \in ENI |-> NoKey]
AnyKey     == [m \in Machine |-> NoKey]
OneNetwork == [m \in Machine |-> vpc]

Offering(interfaces, policy) ==
    [network |-> vpc, interfaces |-> interfaces, policy |-> policy]

OnePool  == {Offering(ENI, "Dynamic")}
WaitPool == {Offering(ENI, "Wait")}

(* e1 under every policy, or both interfaces. *)
EveryPolicy == WaitPool \cup {Offering({e1}, p) : p \in Policy}

(* Two AWSMachines compete for e1, or one after the other comes, when the  *)
(* one before is forgotten, and may be given both.                         *)
PairNext ==
    /\ StaticNext
    /\ (\E p \in Pool : pools[p] # NoPool /\ e2 \in pools[p].interfaces) =>
          Cardinality({m \in Machine : ~Forgotten(m)'}) =< 1

PairSpec == ManagerInit /\ [][PairNext]_managerVars

Symmetry == Permutations(Later)

(* An AWSMachine without an interface competes for none: those that the    *)
(* webhook admits without one are there only while nothing is claimed.     *)
CompetingNext ==
    /\ StaticNext
    /\ (\E m \in Machine \ Later : machines'[m] = Dynamic) =>
          \A e \in ENI : claims'[e] = NoClaim

CompetingSpec == ManagerInit /\ [][CompetingNext]_managerVars

(* The other AWSMachines may be deleted; m2 waits until it is served. *)
WaitSpec == /\ ManagerInit /\ [][StaticNext /\ m2 \notin leaving']_managerVars
            /\ ManagerFairness
=============================================================================
