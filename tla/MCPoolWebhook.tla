--------------------------- MODULE MCPoolWebhook ---------------------------
(***************************************************************************)
(* Small instances of PoolWebhook for TLC: two pools and specs that agree, *)
(* overlap in their network or their interfaces, or are malformed.         *)
(***************************************************************************)
EXTENDS PoolWebhook, TLC

CONSTANTS n1, n2, e1, e2, k1

Ref(e, address, key) == [id |-> e, ip |-> address, key |-> key]

Offering(network, policy, interfaces) ==
    [network |-> network, policy |-> policy, interfaces |-> interfaces]

Specs == {
    Offering(n1, "",     <<Ref(e1, 1, k1)>>),
    Offering(n2, "Wait", <<Ref(e2, 2, NoKey)>>),
    Offering(n2, "",     <<Ref(e1, 1, NoKey)>>),
    Offering(n1, "Fail", <<Ref(e1, 1, k1), Ref(e2, 2, NoKey)>>),
    Offering(n1, "",     <<Ref(e1, 1, k1), Ref(e2, 2, k1)>>),
    Offering(n2, "",     <<Ref(e1, 1, NoKey), Ref(e2, 1, NoKey)>>),
    Offering(n2, "",     <<Ref(e2, 3, NoKey)>>)}

Symmetry == Permutations(Pool) \cup Permutations(Writer)
=============================================================================
