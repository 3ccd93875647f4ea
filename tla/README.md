# A TLA+ model of the CAPA ENI controller

The CAPA ENI controller hands prepared AWS network interfaces (ENIs) to the
`AWSMachine`s of Cluster API.  It calls no AWS API: whether an ENI is in use is
decided by Kubernetes objects alone, the cluster-scoped `ENIClaim`s, whose name
is the ENI id.  That makes the controller a concurrent program over a shared
store with stale reads, lost replies, restarts and a time-out, and this
directory holds its model: modules for its parts, TLC configurations for small
instances, and TLAPS proofs for all sizes.

`PROJECT.json` lists the components, the runs, the mutants, the source lines of
every definition, the findings, the hazards and the theorems.

To run a model: `tlc -workers 2 -config MCContention.cfg MCENIAllocator` (the
module of each run is in `PROJECT.json`).  To check the proofs:
`tlapm ENIAllocatorProofs.tla`, and the same for `ManagerProofs`,
`PoolWebhookProofs`, `PoolControllerProofs`, `ENIReservationProofs` and
`ClusterProofs`.

## 1. The system

### Parts, their state and their operations

| Part | Source | State | Operations |
|---|---|---|---|
| AWSMachine admission webhook | `internal/webhook/v1beta2/awsmachine_webhook.go` | a CREATE request in progress: pool, candidates left | resolve network, pool and key; create an `ENIClaim` for the first free candidate; set `spec.networkInterfaces` |
| ENIClaim reconciler | `internal/controller/eniclaim_controller.go` | workqueue, one reconciliation | add the finalizer; delete the claim when its AWSMachine is missing for more than 30 s; write Bound/Failed; remove the finalizer of a deleted claim |
| AWSMachine reconciler | `internal/controller/awsmachine_controller.go` | workqueue, one reconciliation | for AWSMachines paused on the allocator's behalf: adopt or create a claim, patch the interface in and the pause out; fall back, wait or fail by policy |
| ENIPool reconciler | `internal/controller/enipool_controller.go` | workqueue, one reconciliation, a gauge | write the inventory to the pool's status |
| ENIPool webhook | `internal/webhook/v1alpha1/enipool_webhook.go` | a write in progress | default the policy; validate the spec alone and against the other pools |
| ENIClaim webhook | `internal/webhook/v1alpha1/eniclaim_webhook.go` | none | name equals ENI id; the spec never changes |
| Manager | `cmd/main.go` | informers | wiring, leader election, restarts |
| outside | API server, CAPA, operators | the objects | stores, deletes, finalizers, events |

### How they interact

All processes share one manager client: **writes go to the API server, reads
come from informers** that lag behind it.  The webhook and the AWSMachine
reconciler compete for claims by CREATE, which the API server makes atomic per
name.  The ENIClaim reconciler sees claims by events, but AWSMachines only when
it looks, in another informer; it deletes and patches **by name**, so what it
decided about one claim can hit the next claim of that name.  Reconciliations
are repeated after an error or a `RequeueAfter`; that repetition is what stands
in for the watches that are missing (claims → AWSMachines, pools → claims,
AWSMachines → claims).

### What is hard, and what makes each part correct

* **Allocation** must never give an ENI to two AWSMachines, and a claim must
  last as long as its AWSMachine, although requests race, time out after
  claiming, and lose replies: `Exclusive`, `MachineHoldsClaim`,
  `GrantHoldsClaim`, and the abstract specification `ENIReservation`.
* **Release** must not hit a living AWSMachine on the strength of stale caches,
  and must happen although nothing announces it: the inductive invariant
  `IInv`, `OrphansReclaimed`, `DeletedClaimsGo`, `ClaimsBound`, and what they
  rest on, that no claim drops out of the reconciler's sight
  (`NoClaimForgotten`).
* **The grace period** separates the two, and holds only while creations and
  informers are faster than it.
* **The paused path** must keep the policy of the pool, keep what it claimed for
  an AWSMachine whatever it does twice or late, and let nobody wait for ever:
  `PolicyKept`, `ClaimsKept`, `NotStuckForever`, `NoMachineForgotten`.
* **Both ways together** must not take each other's claims or adopt each other's
  AWSMachines: `ManagerInv`, and `ENIReservation` again.
* **Pools** must be disjoint and unambiguous: `PoolsDisjoint`,
  `PoolsDetermined`.  **Inventories** must be of the spec they claim to be of,
  and become true: `StatusIsOfItsGeneration`, `InventoryConverges`,
  `PoolNotForgotten`.

## 2. The modules

```
Cluster ─┬─ AdmissionWebhook ──┬─ ENIAllocator ─┬─ MCENIAllocator ── MCDivergences
         ├─ ClaimController ───┘       │        └─ ENIAllocatorProofs ─┐
         │                             ├─ Manager ─┬─ MCManager        │
         ├─ MachineController ─────────┘           └─ ManagerProofs ───┘
         └─ ClusterProofs
PoolWebhook ─┬─ MCPoolWebhook        PoolController ── PoolControllerProofs
             └─ PoolWebhookProofs    ENIReservation ── ENIReservationProofs
```

ENIAllocator refines ENIReservation (by INSTANCE), and so does Manager.

**Cluster** has the API server's objects (`claims`, `machines`), the informers'
copies (`claimCache`, `machineCache`, `pools`), what the API server does with
finalizers, and the choice of candidates that the webhook and the AWSMachine
reconciler each have a copy of.  `claims[e]` is the claim named `e`, so
"name = ENI id" (the ENIClaim webhook's `ValidateCreate`) is built in.

**AdmissionWebhook** is `Default` with `findPool`, `resolveInterfaceKey` and
`claimInterface`, and the API server's half of the same CREATE request.
Everything up to the first write is `Admit`; each try to create a claim is an
action (`ClaimNext`, `AlreadyExists`, `CreateFails`, `Exhausted`); `Persist`
and `Abort` are the API server's.  A handler whose request was given up goes on
(`live = FALSE`) and may still create a claim.

**ClaimController** is `Reconcile` of the ENIClaims: `Begin` (reads of claim and
pool), `Finalize`, `Check` (the read of the AWSMachine and the grace period),
`Delete`, `UpdateStatus`, `Unfinalize`, one per API call, and `WriteFails`.
`Finalize`, `Delete` and `Unfinalize` may also succeed with a lost reply.

**ENIAllocator** composes the two with time (`GraceExpires`), restarts, and
operators, whose updates of claims the ENIClaim webhook decides
(`ValidateUpdate`).  **ENIReservation** is what it promises: an ENI is reserved
for one AWSMachine before the AWSMachine gets it and until it is gone.

**MachineController** is `Reconcile` of paused AWSMachines: `Allocate` (all
reads), `ClaimInterface` for each candidate, `PoolExhausted`, and the patches
`Attach`, `DynamicFallback` and `MarkFailed`, any of which may fail, or succeed
with a lost reply.

**Manager** is the whole process of `cmd/main.go` over the claims: ENIAllocator
and MachineController together.  The AWSMachines of `Later` are created paused,
so that the webhook lets them pass; the others go through the webhook; one
informer of AWSMachines serves both reconcilers, and a restart ends everything
at once.  `ManagerInv` is the invariant behind its properties: a paused
AWSMachine is in the informer before anything is claimed for it, so the ENIClaim
reconciler never takes its claim for an orphan, however old it is.

**PoolWebhook** is the defaulter and validator of ENIPools with the store that
follows them; **PoolController** is the ENIPool reconciler for one pool.

**MCDivergences** states sentences of the repository's documents that the code
does not keep.

### Abstractions

* A message, a name or an address is a model value; `Address` keeps the order of
  the IPv4 addresses, which decides what is tried first.  Events, logs,
  conditions and the private IP in a claim's status are left out.
* An informer catches up in one step and so shows a past state of its type;
  different types catch up independently.  `unseen` are the claims whose events
  are on their way; the step delivers one event per changed key, as the
  workqueue merges them.
* Equality of the object stands for equality of the resource version.  Where an
  object changes and changes back in between, the model accepts an update that
  the API server would refuse, and the update writes the same.
* `queue` and `backlog` hold keys that are due now or later; no delay is
  modelled, so a key may start at any time.  What a delay is long enough for is
  said only by `Settled` below.
* A request that the webhook refuses before its first write leaves no trace and
  is not an action.  A dry run changes nothing.  `Bypass` is every AWSMachine
  that the webhook leaves alone; one whose user presets `networkInterfaces`
  with an ENI of a pool is outside the model: the trust mode of the code does not
  protect it.
* Operators create claims by hand (`OperatorClaims`), apply claims that exist
  with any spec (`OperatorUpdates`), and delete those that nobody uses
  (`OperatorReleases`).  `ValidateDelete` accepts every deletion, so
  the code does not enforce the second half; `MachineHoldsClaim` is about
  operators who respect it.
* `CreatePaused` asks what the API server asks, that the name is free.  `LifeNext`
  adds an **assumption about the users** that nothing in the code enforces: a name
  of `Later` is given again only when it is forgotten (`Forgotten`), that is, no
  claim of the earlier AWSMachine is left, in the API server or in the informer,
  and nothing is being done about it.  MachineSets make up a new name each time,
  which is the case of a name never used; the observation on `Held` says what
  happens otherwise.  In Manager operators change pools but touch no claims.  DeletionTimestamp is `leaving`; a patch of a
  leaving AWSMachine is still accepted.
* A restart, or a failover to another node, ends the calls in progress with it.
  A write of the old leader that the API server applies after the new one has
  started is not modelled.

### Time

The only time that the code measures is the age of a claim.  `aged` says that a
claim is older than the 30 seconds of grace, and **`Settled` is the assumption
the code makes with that number**: when a claim becomes that old, its CREATE
request has ended, the informers have shown the claim and the AWSMachine, and a
reconciliation that is running works on the claim as it is, not on an earlier
claim of that name.  The claim may well pass that age in the middle of its own
reconciliation, whose copy ages with it: the age is read off a clock.  The
`slow_admission` run drops the assumption and shows what happens then; the safety
runs and theorems about claims rest on it and say nothing of that case.  About a
paused AWSMachine `Settled` assumes less: the claim's informer and
reconciliation are not that late, but the patch of the AWSMachine may come at
any time, because the AWSMachine exists before its claim.

## 3. The runs

| Run | Instance | Shows |
|---|---|---|
| `contention` | 1 ENI, 2 machines, 2 requests, 1 pool that stays as it is; all faults, operators of claims | `TypeOK`, `IInv`, `Exclusive`, `MachineHoldsClaim`, `GrantHoldsClaim`, `NoClaimForgotten`, and the refinement of `ENIReservation`, which an accepted change of a claim's spec would break |
| `retries` | 2 ENIs (one with a key), 1 machine that stays once created, 2 requests; no faults, no operators | `IInv` and the refinement of `ENIReservation` while requests for one name overlap and the one worker serves two claims |
| `liveness` | 1 ENI, 1 machine, 1 request, a pool that offers the ENI or not; all faults, operators of the pool | orphans are reclaimed, deleted claims go, a claim's status follows the pool, which nothing watches |
| `manager` | 1 ENI, 1 machine by the webhook and 1 paused, 1 request, 1 pool that stays as it is, faults | `ManagerTypeOK`, `ManagerInv`, `ClaimsKept`, the refinement of `ENIReservation` |
| `paused` | 2 paused machines and 1 ENI under every policy, or 1 paused machine at a time and 2 ENIs; names given again; faults | `ManagerInv`, `ClaimsKept`, `PolicyInv`, `PolicyKept`, `NoMachineForgotten` |
| `waiting` | 1 ENI, 2 paused machines of which one stays, policy Wait, faults | `NotStuckForever` |
| `pools_patient` | 3 pools, 2 writers, 7 specs that agree, overlap or are malformed | `PatientInv`, `PoolsDisjoint`, `PoolsDetermined` |
| `pool_inventory` | 2 ENIs, 1 machine, `MaxGeneration` spec writes | `StatusInv`, `StatusIsOfItsGeneration`, `PoolNotForgotten`, `InventoryConverges` |

The bounds: two machines and one ENI are the smallest contention, and the one
ENI makes every deletion and every creation hit the same name, which is where
stale copies do harm; two ENIs and one machine are the smallest instance in
which a loop over candidates continues, a second claim is left behind, and the
worker is busy with another key.  Two requests suffice for a race between any
two of their steps.

The MC modules name what a run leaves out of the specification.  `StillSpec` and
the specifications of the manager's runs keep the pool; `LastingSpec` keeps the
AWSMachine and has neither faults nor operators, which `contention` has;
`CompetingSpec` has an AWSMachine without an interface only while nothing is
claimed, since such a one competes for none; `PairSpec` gives both ENIs to one
AWSMachine at a time, or one ENI to two; in `WaitSpec` it is `m2` that waits,
and nobody deletes it; in `LiveSpec` a second ENI exists only for the pool to
offer instead of the first and is never claimed, and operators leave claims
alone.  Each cut keeps a run to a minute.  For every safety property of these
runs the theorems of section 4 are about the uncut specification (`PolicyInv`
and `PolicyKept` need pools that stay) and instances of any size; for the three
liveness runs the cut instance is all there is.  Symmetry is used for machines
and requests in safety runs, never with liveness.

### Findings

Four runs end in a violation, each of a sentence in the repository.

* `slow_admission` (`ClaimKeptUntilGone`, docs/design.md:228).  If a CREATE, or
  the AWSMachine informer, takes longer than 30 s, the reconciler's cached read
  does not find the AWSMachine and it deletes the claim of one that exists.  The
  ENI can then be given away a second time.
* `leftover_claim` (`ClaimMatchesMachine`, docs/operation-flow.md:242).  A
  repeated CREATE claims another ENI.  The reconciler asks only whether an
  AWSMachine of that name exists, so the first claim is marked Bound and kept
  while the AWSMachine lives, though it has another ENI.
* `deleted_pool` (`EveryOrphanReclaimed`, docs/operation-flow.md:213).  The
  missing pool is an error before the AWSMachine is looked at: an orphan claim
  of a deleted pool is never reclaimed.
* `immutable` (`NotStuckForever`, README.md:113 and enipool_types.go:72).  The
  AWSMachine reconciler patches `spec.networkInterfaces`, which CAPA v2.13
  refuses: the AWSMachine stays paused with a claim of its own.  The passing
  runs of this path have `SpecMutable = TRUE`, what the code is written for.

### Observations without a run

* `Exhausted`: the webhook never reads `exhaustionPolicy`; an exhausted pool
  admits the AWSMachine without an ENI also when it says Wait or Fail
  (README.md:92-93 and enipool_types.go:72 say otherwise).
* `Admit`: the webhook's `resolveClusterNetwork` returns an empty region or VPC
  id without an error; the AWSMachine is admitted without an ENI
  (docs/design.md:140-142 wants it refused).
* `PoolWebhook!Spec`: two pools validated at the same time, or before the
  informer has the other, are both stored, and every opted-in CREATE of their
  network is then refused (docs/design.md:160-161: only one can exist).
  `PoolsDisjoint` needs `PatientSpec`.
* `Held`: the AWSMachine reconciler adopts any claim that the informer has for the
  name (awsmachine_controller.go:199-204), and asks neither whether the claim is
  being deleted nor whether it was made for another AWSMachine of that name.  If
  `LifeNext` does not ask that the name is `Forgotten`, but only that no
  AWSMachine has it in the API server or in the informer and that none is being
  reconciled, TLC finds two AWSMachines with one ENI (`Exclusive`), without any
  fault: the ENIClaim reconciler deletes the old claim of a name that is given
  again, the later AWSMachine adopts it before it is gone, and a third AWSMachine
  claims the interface next.
* `Attach`: after a patch whose reply was lost, with both informers behind, the
  reconciler claims a second ENI and replaces the first in an AWSMachine that
  CAPA already works on.  The first stays claimed for it (`ClaimsKept`).
* `ClaimInterface`: an AWSMachine's own claim, not in the informer yet, counts as
  taken.  In a pool of one ENI with policy Dynamic the AWSMachine is then
  released without the ENI that is claimed for it.
* The gauge of a deleted pool is never removed (enipool_controller.go:57-58
  returns first).
* `MarkFailed` leaves every condition for allocation in place: a later event
  allocates after all, though the failure is called terminal
  (enipool_types.go:74).

### Fairness

`ENIAllocator!Fairness`: strong fairness of each step of the reconciler for each
key, because the workqueue hands out keys in order, a failed key comes back with
a bounded backoff, and the manager, restarted or not, gets through a
reconciliation in the end; weak fairness of the informers; strong fairness of the
grace period's end, since time goes on.  No CREATE request, no removal by CAPA
and no operator is assumed to do anything.  `LiveSpec` asks it of one key.
`ManagerFairness` asks the same of the AWSMachine reconciler, for each
AWSMachine and each candidate, and nothing of the ENIClaim reconciler but its
informer; `PoolController` asks for its key, its status update and its informers.

The instances of ENIAllocator and Manager never deadlock, because a
restart is always possible; in the other runs the environment can always act.

## 4. The proofs

`ENIAllocatorProofs` holds for every set of ENIs, machines, pools, requests and
keys, from the assumptions named in the modules (the constants are of their
types, the "nothing here" values differ from real ones).

* `TypeCorrect`: `Spec => []TypeOK`.
* `Safety`: `Spec => []IInv`.  `MachineHoldsClaim` alone is not inductive: a
  worker that has decided to delete a claim acts on a copy read long ago.  The
  argument is about copies.  A fresh claim (not `aged`) is never deleted by the
  reconciler, and a request in progress has a fresh one (`GrantIsFresh`).  When a
  claim in use ages, the informer has its AWSMachine (`UserIsSeen`).  An aged,
  finalized copy in the cache or in the worker is still the claim at the API
  server (`CacheIsCurrent`, `WorkerIsCurrent`): a claim ends only through its
  deletion, and while it is replaced by a fresh one of the same name no aged copy
  survives, because the informer must see the new claim before it ages.  So
  what is about to be deleted serves nobody (`DeletesUnused`), and a finalizer is
  removed only from a claim that is going or fresh (`StripsDisposable`).  The
  same parts say why a claim may age while it is reconciled (`WorkerAges`): the
  copy at hand is then the claim itself, not about to be deleted, because that
  takes an aged copy, and about to lose its finalizer only if it is going.
  `CacheIsComplete` says that the informer misses nothing but `unseen`.
* `MachinesHoldTheirClaims`, `GrantsHoldTheirClaims`, `NoSharedInterface`
  follow.
* `Refinement`: `Spec => ImplementsReservation`: under `IInv` each step is a
  `Reserve`, `Create`, `Remove` or `Release` of ENIReservation or changes
  neither reservations nor attachments (`Attach` is the AWSMachine
  reconciler's).  An operator's update changes neither because
  `ValidateUpdate` keeps the spec (`UpdatedClaim`).

`ManagerProofs` holds for the whole manager, with pools changing, calls failing
and restarts, and for every choice of `Later`.

* `ManagerSafety`: `ManagerSpec => []ManagerInv`.  The proof is compositional.
  `Steps` says that, to the variables of ENIAllocator, a step of the manager is a
  step of ENIAllocator, or the AWSMachine reconciler creates a claim
  (`Reserves`) or patches an interface in (`Attaches`).  The first kind keeps
  `IInv` by the lemmas of ENIAllocatorProofs; a created claim is fresh, so it is
  safe whatever the copies show (`ReservesSafe`).  `AttachesSafe` is the hard
  one: the AWSMachine gains a claim that may be old, which is safe only if the
  informer has the AWSMachine and no worker is about to delete the claim.  Both
  come from the rest of `ManagerInv`: nothing is claimed for an AWSMachine of
  `Later` before the informer shows it (`SeenBeforeClaimed`), from then on
  nobody deletes its claim (`ClaimsServe`), so the patch to come finds it
  (`AttachesOwn`), and requests and reconciliations keep to their AWSMachines
  (`Apart`).  One part is there for
  induction's sake: a worker that has decided to delete has not decided about an
  AWSMachine that is there (the first conjunct of `ClaimsServe`).  That a name
  starts without a claim, a copy or a decision is the assumption `Forgotten` of
  `LifeNext`, so the invariant covers names that are given again, once nothing of
  the earlier AWSMachine is left.  The lemmas named
  `...Effects` say once, for each group of variables, what any step may do to
  it, and the parts of the invariant follow from them.
* `ClaimsAreKept`: `ClaimsKept` as an action property, from `ServedStays`.
* `ManagersShareNoInterface`, `ManagerTypeCorrect` follow.
* `ManagerRefinement`: the manager implements ENIReservation.  `Reserves` is a
  `Reserve`, `Attaches` is an `Attach` because of `AttachesOwn`, and all other
  steps are simulated as in `Refinement`.
* `PolicySafety`, `PolicyIsKept`: `StaticSpec => [](ManagerInv /\ PolicyInv)`.
  `PolicyInv` carries the policy through a reconciliation: what was read with
  the pool is what the pool says, and a fallback was allowed.  It needs that only
  the reconciler releases an AWSMachine of `Later`, which is `Apart`.  With
  pools that change, `PolicyKept` is false and the code does not promise it.
* `WebhookAlone`: with `Later = {}` the manager is ENIAllocator.

**Nothing is forgotten.**  What the liveness properties need of the code, besides
fairness, is a safety property: whatever fails, every object that waits for a
reconciler has an event to come, is queued, or is being worked on.  One return
without a requeue and one unlucky order would break it for good.

* `NoClaimIsForgotten` (ENIAllocatorProofs) and `ManagerForgetsNoClaim`
  (ManagerProofs): `[]NoClaimForgotten`, by `WakeInv`.  A reconciliation ends
  without a requeue only when it deletes the claim, which is an event, when it
  removes a finalizer, or when it finds nothing to do.  Alone,
  `NoClaimForgotten` is not inductive: a patch that removes the finalizer of a
  claim that is not being deleted would leave a claim that nobody hears of
  again.  `WakeInv` adds that a claim being deleted still has its
  finalizer, and that a worker whose key is not due again is removing the
  finalizer if and only if its claim is being deleted: a worker that acts on an
  older copy has the newer one's event to come.  TLC checked `WakeInv` on the
  `contention` instance before it was proved.
* `NoMachineIsForgotten` (ManagerProofs): `[]NoMachineForgotten`, under
  `ManagerInv`.  It is inductive: what the reconciler drops from its backlog is
  not waiting, or differs from what the informer has shown (`AllocateWakes`).
  The property leaves out what `MarkFailed` marked: no repetition is asked for.
* `PoolIsNotForgotten` (PoolControllerProofs): `[]PoolNotForgotten`, by
  `PoolWakeInv`: the informer's pool is not of a later generation than the last
  one, so what operators write differs from it and brings an event.

`ENIReservationProofs` says what the abstract specification is worth:
`ReservationSafety`, an AWSMachine has only what is reserved for it, and
`ReservationsExclude`, no interface has two AWSMachines.

`ClusterProofs` is about the choice of candidates that both loops share:
`LowestIsOne` (the next candidate is determined where addresses differ, as
`PoolsAreDetermined` has it) and `CandidatesRunOut` (a conflict takes one off
the list).

`PoolWebhookProofs`: `PatientSafety`, `PatientSpec => []PatientInv` (the one
write in progress agrees with all stored pools, also when some of those it was
compared with are gone), and from it `PatienceKeepsPoolsDisjoint`;
`PoolsAreDetermined`, for any races, by `DeterminedInv` (what is about to be
stored is determined as well).

`PoolControllerProofs`: `StatusSafety`, `Spec => []StatusInv` (the worker's
status is of the pool that it read, and no status is of a generation not given
out yet), and from it `StatusCorrect`.

Model-checked only: the liveness properties `OrphansReclaimed`,
`DeletedClaimsGo`, `ClaimsBound`, `NotStuckForever` and `InventoryConverges`.
They follow from fairness, hence from what is ENABLED when, which the provers do
not handle; the safety half of the argument, that nothing is forgotten, is
proved.  Every invariant, action property and refinement of the passing runs
is the subject of a theorem.

## 5. Not modelled

* `zz_generated.deepcopy.go`, `groupversion_info.go`: generated or registration
  code.
* `cmd/main.go` beyond Manager: flags, TLS, certificates, health checks.
* Claims deleted by hand while their AWSMachine exists: `ValidateDelete` accepts
  them, and nothing restores the claim.
* Writes of an old leader that arrive after a failover.
* The fallback counter and the events of the AWSMachine reconciler, recorded
  before a patch that may fail.
* The resolution of owner Machine, Cluster and AWSCluster: its result is
  `NetworkOf`, or `Unresolved`.

## 6. Plan

Done: the modules of section 2, their runs, and the theorems of section 4, which
state every safety property that the runs check.

Next, in this order:

1. Whether `Settled` can be said of the objects alone: it still asks that the
   worker's copy equals the claim, where a copy of an older version of the same
   claim should do, which needs the claim's UID in the model.
2. Names of paused AWSMachines that are given again before they are forgotten:
   which claims of the earlier AWSMachine the later one may adopt safely.

No bound is to be expected on the interfaces that one paused AWSMachine takes: with
replies lost and informers behind, each reconciliation may claim another one,
until the pool is empty.  What holds is that none of them goes to anyone else
while the AWSMachine exists (`ClaimsKept`).
