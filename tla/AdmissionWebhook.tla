-------------------------- MODULE AdmissionWebhook --------------------------
(***************************************************************************)
(* The mutating webhook that gives an AWSMachine its network interface     *)
(* while it is being created                                               *)
(* (src/internal/webhook/v1beta2/awsmachine_webhook.go), and the API       *)
(* server's part of the same CREATE request: it waits for the handler's    *)
(* answer and then persists the object.  Several requests run at once,     *)
(* also for the same AWSMachine.                                           *)
(*                                                                         *)
(* The handler resolves the cluster, the pool and the interface key from   *)
(* the informers and then tries to create an ENIClaim for one candidate    *)
(* after the other.  Each try is a call to the API server, so each is an   *)
(* action; everything before the first one is Admit.                       *)
(***************************************************************************)
EXTENDS Cluster

CONSTANT Request    \* slots for the CREATE requests in progress

(***************************************************************************)
(* A CREATE request.  While the handler is claiming: the pool found, the   *)
(* candidates not tried yet, and whether the API server still waits (live).*)
(* Once it has answered, until the object is persisted: the interface that *)
(* the answer sets.                                                        *)
(***************************************************************************)
Admission ==
    [step: {"claiming"}, live: BOOLEAN, machine: Machine, pool: Pool,
     todo: SUBSET ENI]
    \cup [step: {"answered"}, machine: Machine, grant: Attachment]

ASSUME IdleAssumption == Idle \notin Admission

VARIABLE requests

WebhookTypeOK == requests \in [Request -> Admission \cup {Idle}]

WebhookInit == requests = [r \in Request |-> Idle]

Claiming(r) == requests[r] # Idle /\ requests[r].step = "claiming"
Answered(r) == requests[r] # Idle /\ requests[r].step = "answered"

-----------------------------------------------------------------------------
(***************************************************************************)
(* A CREATE that the handler admits without looking at pools: not opted    *)
(* in, networkInterfaces preset, or paused by its user.  (A dry run        *)
(* changes nothing and is not an action.)                                  *)
(***************************************************************************)
Bypass(m) ==
    /\ machines[m] = Absent
    /\ machines' = [machines EXCEPT ![m] = Dynamic]
    /\ UNCHANGED <<requests, claims, claimCache, unseen, machineCache, pools>>

(***************************************************************************)
(* The handler starts.  A network without a pool is admitted unchanged; a  *)
(* network with several, or a key no interface has, is rejected, which     *)
(* leaves no trace.                                                        *)
(***************************************************************************)
Admit(r, m) ==
    /\ requests[r] = Idle
    /\ \/ /\ Matches(NetworkOf[m]) = {}
          /\ requests' = [requests EXCEPT ![r] =
                [step |-> "answered", machine |-> m, grant |-> Dynamic]]
       \/ \E p \in Matches(NetworkOf[m]), key \in Key \cup {NoKey} :
             /\ Matches(NetworkOf[m]) = {p}
             /\ Candidates(pools[p], key) # {}
             /\ requests' = [requests EXCEPT ![r] =
                   [step |-> "claiming", live |-> TRUE, machine |-> m,
                    pool |-> p, todo |-> Candidates(pools[p], key)]]
    /\ UNCHANGED clusterVars

(***************************************************************************)
(* The handler's answer.  Nobody receives it when the API server has given *)
(* the request up.                                                         *)
(***************************************************************************)
Answer(r, grant) ==
    requests' = [requests EXCEPT ![r] =
        IF requests[r].live
        THEN [step |-> "answered", machine |-> requests[r].machine,
              grant |-> grant]
        ELSE Idle]

(* Mutant of ClaimNext: the claim is applied, not created. *)
ClaimNextByApply(r) ==
    /\ Claiming(r)
    /\ \E e \in Lowest(requests[r].todo) :
          /\ Store(e, NewClaim(requests[r].machine, requests[r].pool))
          /\ Answer(r, e)
    /\ UNCHANGED <<machines, claimCache, machineCache, pools>>

(* Create succeeds on the next candidate: the request has its interface.   *)
ClaimNext(r) ==
    /\ Claiming(r)
    /\ \E e \in Lowest(requests[r].todo) :
          /\ claims[e] = NoClaim
          /\ Store(e, NewClaim(requests[r].machine, requests[r].pool))
          /\ Answer(r, e)
    /\ UNCHANGED <<machines, claimCache, machineCache, pools>>

(* Mutant of AlreadyExists: a claim that exists is as good as a new one. *)
AlreadyExistsAccepted(r) ==
    /\ Claiming(r)
    /\ \E e \in Lowest(requests[r].todo) :
          /\ claims[e] # NoClaim
          /\ Answer(r, e)
    /\ UNCHANGED clusterVars

(* Create finds the claim's name taken: the loop continues.                *)
AlreadyExists(r) ==
    /\ Claiming(r)
    /\ \E e \in Lowest(requests[r].todo) :
          /\ claims[e] # NoClaim
          /\ requests' = [requests EXCEPT ![r].todo = @ \ {e}]
    /\ UNCHANGED clusterVars

(***************************************************************************)
(* No candidate is left: claimInterface returns nil, and Default admits    *)
(* the object unchanged, whatever the pool's ExhaustionPolicy.             *)
(***************************************************************************)
Exhausted(r) ==
    /\ Claiming(r)
    /\ requests[r].todo = {}
    /\ Answer(r, Dynamic)
    /\ UNCHANGED clusterVars

(***************************************************************************)
(* Create fails with another error and the request is rejected.  The claim *)
(* is there nevertheless when only the reply was lost.                     *)
(***************************************************************************)
CreateFails(r) ==
    /\ Claiming(r)
    /\ \E e \in Lowest(requests[r].todo) :
          \/ UNCHANGED <<claims, unseen>>
          \/ /\ claims[e] = NoClaim
             /\ Store(e, NewClaim(requests[r].machine, requests[r].pool))
    /\ requests' = [requests EXCEPT ![r] = Idle]
    /\ UNCHANGED <<machines, claimCache, machineCache, pools>>

(***************************************************************************)
(* The API server persists the admitted object; an AWSMachine of that name *)
(* may exist already.                                                      *)
(***************************************************************************)
Persist(r) ==
    /\ Answered(r)
    /\ machines' = IF machines[requests[r].machine] = Absent
                   THEN [machines EXCEPT ![requests[r].machine] =
                                              requests[r].grant]
                   ELSE machines
    /\ requests' = [requests EXCEPT ![r] = Idle]
    /\ UNCHANGED <<claims, claimCache, unseen, machineCache, pools>>

(***************************************************************************)
(* The API server gives a request up: a timeout, a disconnect, or a        *)
(* rejection by a later admission step.  A handler that is still claiming  *)
(* does not notice.                                                        *)
(***************************************************************************)
Abort(r) ==
    /\ \/ /\ Claiming(r)
          /\ requests[r].live
          /\ requests' = [requests EXCEPT ![r].live = FALSE]
       \/ /\ Answered(r)
          /\ requests' = [requests EXCEPT ![r] = Idle]
    /\ UNCHANGED clusterVars

(* What becomes of a request once the handler has begun with it. *)
RequestNext(r) == \/ ClaimNext(r) \/ AlreadyExists(r) \/ Exhausted(r)
                  \/ Persist(r) \/ Abort(r)

WebhookNext ==
    \/ \E m \in Machine : Bypass(m)
    \/ \E r \in Request, m \in Machine : Admit(r, m)
    \/ \E r \in Request : RequestNext(r)
=============================================================================
