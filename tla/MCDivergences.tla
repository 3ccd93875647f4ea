--------------------------- MODULE MCDivergences ---------------------------
(***************************************************************************)
(* Where the code does not do what the repository's documents say: each    *)
(* property is a sentence of a document, and a run finds a behaviour of    *)
(* the code that breaks it.                                                *)
(***************************************************************************)
EXTENDS MCENIAllocator

(***************************************************************************)
(* Claim e becomes older than 30 seconds at any time.  The reconciler      *)
(* compares wall-clock times only: neither it nor the webhook bounds how   *)
(* long a request takes after its claim, or how far the informers lag.     *)
(***************************************************************************)
AgesAnytime(e) ==
    /\ claims[e] # NoClaim
    /\ claims' = [claims EXCEPT ![e].aged = TRUE]
    /\ claimCache' = IF claimCache[e] = NoClaim THEN claimCache
                     ELSE [claimCache EXCEPT ![e].aged = TRUE]
    /\ worker' = IF Working(e) THEN [worker EXCEPT !.claim.aged = TRUE]
                               ELSE worker
    /\ UNCHANGED <<machines, unseen, machineCache, pools, requests, queue>>

SlowSpec ==
    Init /\ [][SystemNext \/ \E e \in ENI : AgesAnytime(e)]_vars

(* The claim of a deleted AWSMachine is kept until the AWSMachine is       *)
(* completely gone from the API (docs/design.md, step 1 of release).       *)
ClaimKeptUntilGone ==
    \A m \in Machine : machines[m] \in ENI =>
        /\ claims[machines[m]] # NoClaim
        /\ claims[machines[m]].machine = m

(* spec.networkInterfaces[0] of an AWSMachine equals spec.eniID of its     *)
(* claims that are Bound (docs/operation-flow.md, core invariant 2).       *)
ClaimMatchesMachine ==
    \A e \in ENI :
        claims[e] # NoClaim /\ claims[e].status = "Bound" =>
            machines[claims[e].machine] \in {e, Absent}

(* An orphan claim is deleted automatically after the grace period         *)
(* (docs/operation-flow.md), here also when its pool is gone.              *)
EveryOrphanReclaimed ==
    \A e \in ENI, m \in Machine : Orphan(e, m) ~> ~Orphan(e, m)
=============================================================================
