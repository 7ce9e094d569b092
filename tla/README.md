# NLB pool operator: models and proofs

TLA+ models of the Kubernetes operator in `src/`, which keeps pools of Alibaba
Cloud network load balancers (NLBs) warm and gives every game-server Pod a slot
on them. The modules follow the Go code of the two controllers; TLC checks them
on small instances and TLAPS proves theorems about all but one of them
(`TwoManagers`) for all instances.
File names below are relative to `src/`; *PAC* is
`pkg/controller/portallocation_controller.go`, *POOL* is
`pkg/controller/nlbpool_controller.go`.

## 1. The system

| Component | State | Operations | Interacts by |
|---|---|---|---|
| NLBPool controller (POOL) | `NLBPool` status: phase, slot counters, recorded cloud ids; finalizer | size the pool (EIPs, NLBs, one PortAllocation per slot), delete it in three phases behind two safety gates | creates and deletes child objects; reads the PAs' phases from a cached list; asks the cloud whether NLBs exist |
| PortAllocation (PA) controller: provisioning and deletion (PAC 58-860) | PA status arrays: one entry per server group (SG) and per listener; endpoints in the spec; finalizer | create and poll SGs and listeners, promote to `Available`; on deletion wait for the listeners, delete the SGs | cloud calls with client tokens; JSON patches of one array element; CAS updates |
| PA controller: binding (PAC 861-1590) | PA spec `boundPod`, `boundPodIP`; phase; server status of each SG; claim annotation on the Pod | claim a Pod by a compare-and-swap (CAS) on the PA and one on the Pod, add the address to every SG, disable, re-enable, release | up to 100 workers, all reading one informer cache, writing with optimistic locking or with patches that carry no resource version |
| Pod event routing (PAC 1765-1823, POOL 197-228) | the work queue, the phase label | wake PAs or pools | watches; the results of the handlers |
| Manager (`main.go`) | informer caches, workers | runs both controllers; several managers at a time unless leader election is switched on | shares objects and cloud with its replicas |
| Provider (`pkg/provider`) | token buckets | cloud calls, local rate limits | every write of the cloud is accepted as a job that takes effect later |
| NLB and EIP operators, the cloud, the API server | external | | child objects and their status |

What is hard about it:

* **Interleaving.** Many PAs compete for one Pod, each through a read of a
  cache that may lag, with two CAS that must both succeed and a roll back.
* **Lost and late effects.** Cloud calls are accepted first and executed later
  or not at all, nobody polls the jobs; each patch that records an outcome may
  be lost after the cloud has acted.
* **Crash recovery.** There is no memory but the objects: a reconcile that died
  anywhere is resumed from PA, Pod and SG contents.
* **Identity.** A Pod or a PA may be deleted and created again under its name;
  client tokens and ports may lead back to resources of the predecessor.
* **Ordering of deletion.** Listeners block the deletion of SGs, NLBs delete
  listeners, objects vanish before cloud resources do.
* **Stale accounting.** The pool grows by counters of a lagging list, and its lists
  of NLBs and EIPs may miss what it has just created.
* **Half-made groups.** The PAs of an NLB are created one by one, in a loop that the
  first failing call ends, and each takes its ports from the spec of that day.
* **Wake-ups.** Some handlers end without a requeue; then only the right event,
  routed by the annotations of the moment, continues the work.
* **Layout by the spec of the day.** The NLB and ports of a slot are computed
  from a spec that users edit while slots are in use.

What makes each component correct:

* *Binding*: one PA per Pod, no binding on half a reservation, only granted
  addresses in the cloud, `Bound` means registered, an `Available` PA has no
  backend left, releases end, a wanted Pod is finally bound and served; a deletion
  in between breaks nobody's claim and the Pod finds another PA.
* *Provisioning and deletion*: an `Available` PA is served by its own SGs
  through running listeners; a deleted PA leaves nothing it recorded behind;
  both ends are reached.
* *Pool*: it never grows beyond what its load calls for, yet restores its
  headroom; nothing is torn down before approval; PAs outlive the recorded NLBs
  and the pool outlives its infrastructure; a deletion that is approved ends.
* *Layout*: a slot is served by its own listeners, at the addresses it publishes,
  whatever the spec says at the moment its parts are made.

## 2. The modules

| Module | Models | Lines |
|---|---|---|
| `PortAllocation` | the binding life cycle, all PAs and Pods | PAC 861-1590 with the dispatch of `Reconcile` |
| `PortAllocationProofs` | `TypeOK`, `GrantedOnly`, `ReservationComplete` as theorems | |
| `PortAllocationLockProofs` | `NoDoubleBound`, `LiveClaimKept`, `OwnClaimCleared` as theorems | |
| `PortAllocationCloudProofs` | `AvailableIsEmpty`, `BoundIsRegistered` as theorems | |
| `PADeletion` | extends `PortAllocation`: a PA is deleted at any point of it | PAC 58-72, 169-289 |
| `PodRouting` | extends `PortAllocation`: the work queue, watch events, results of the handlers, restart | PAC 1765-1823 and the returns of the handlers |
| `TwoManagers` | two instances of `PortAllocation` with caches and workers of their own on the same objects and cloud | `main.go` 57, 104, 198-202 |
| `PAProvisioning` | provisioning and deletion of one PA | PAC 58-289, 366-859; POOL 726-744 |
| `SlotPorts` | layout of the slots on NLBs and ports, adoption of listeners, edits of the spec | PAC 107-149, 386-403, 510-592, 711-752; POOL 700-753, 764-778 |
| `NLBPool` | sizing and deletion of one pool | POOL 47-195, 234-252, 412-816 |
| `PASlot` | abstract specification: what a slot promises | implemented by `PAProvisioning` and by each slot of `NLBPool` |
| `MC...` | instances for TLC | |
| `PodRoutingProofs` | `NoLostWakeup` as a theorem | |
| `PADeletionProofs` | `LetGoIsEmpty`, and the claim properties under deletion, as theorems | |
| `PAProvisioningProofs` | `TypeOK`, `ListenerHasOwner`, `RecordedSGDeleted`, `PromotedIsServed`, `SlotPromise` as theorems | |
| `SlotPortsProofs` | `TypeOK`, `OwnListener`, `EndpointsServed` as theorems | |
| `NLBPoolProofs` | `TypeOK`, `NoOverExpansion`, `PoolGoneLast`, `SlotsKeepPromise`, `ApprovedFirst`, `PAsOutliveCollected` as theorems | |

How the modules compose:

* `PADeletion` and `PodRouting` extend `PortAllocation`: their steps are its
  steps with a conjunct on the new variables, plus actions of their own.
  `PADeletion` takes over where the code of a deletion differs (the phase of the
  in-memory copy tells), and gives the last writes of the base model the
  conflict that only a deletion makes possible. `PodRouting` lets a reconcile
  start for queued PAs only, and takes away the resync.
* `TwoManagers` instantiates `PortAllocation` twice, `WITH` the caches, synced
  flags and workers of each manager. A step of one makes the other's copies of
  what it wrote old (`FirstObserves`, `SecondObserves`).
* `PASlot` ties the two controllers together. A slot is `none`, `new` or
  `serving`, on the NLBs (`live`) of its lanes. It is created only while every lane
  has a live NLB and comes into service once; a slot in service leaves only when
  it is deleted and none of its NLBs is live; and under a slot NLBs only ever
  become fewer. `PAProvisioning` implements it with
  `slot` read off the endpoints of the PA (`SlotPromise`), and the PAs that
  `NLBPool` sees only as phases implement it too (`SlotsKeepPromise`): what the
  pool takes for granted of a PA is what a PA does, and what a PA takes for
  granted of its NLBs is what the pool does. `PASlot`'s liveness, that a deleted
  slot whose NLBs are gone leaves (`EventuallyLeaves`), is `EventuallyGone` of
  `PAProvisioning` and the fairness (`PAOwes`) that `NLBPool` assumes.
* `SlotPorts` refines what `PAProvisioning` calls "the listener on port k of an
  NLB": which port, and of which NLB.

Otherwise each module treats its neighbours as an environment that may act at
any time, so no module relies on an order between two controllers that the code
does not enforce.

### How state and actions correspond to the code

* *One worker per object.* controller-runtime never runs one key twice at a
  time, and one manager is active, except in `TwoManagers`. A worker is a record with a program counter
  (`pc`), the in-memory copy of its object (`mem`) and the loop index. A
  reconcile may start at any time, which includes every order of watch events,
  except in `PodRouting`.
* *Writes.* A resource version is only ever compared with the current one, so
  it is the Boolean "this copy is current" (`memOK`, `podOK`, `poolSynced`,
  `paSynced`). A CAS on an old copy changes nothing and ends the reconcile or,
  where the code drops the error, goes on. A patch has no resource version: it
  always succeeds and its response refreshes the copy (`Decode` in
  `PortAllocation` keeps a field that the response omits, as JSON decoding
  does).
* *Caches.* An informer cache holds some earlier version and is brought up to
  date by a `Sync` action. `CacheLag` names the reads that may lag; a read that
  may not lag waits until the cache is current.
* *Steps.* Every write of an object and every cloud call that changes something
  is a step of its own, except where the header of a module says why two can be
  merged. A read is merged with the write it leads to unless the code uses the
  value after something else could have changed it and that matters
  (`clearPodClaim`: Get and Patch are two steps).
* *Cloud.* In `PortAllocation` an accepted call is a job that takes effect
  later or, with a fault, never (`CloudAsync = TRUE`), or takes effect at once.
  In `PAProvisioning` SGs and listeners become ready later, the job of a
  listener may fail, an SG may vanish, client tokens are remembered and forgotten. In `NLBPool`
  an NLB exists in the cloud before its id is recorded and may outlive its
  object.
* *Faults.* `Abort` is a crash or a failed write that ends the reconcile;
  further fault actions are failing jobs, throttled calls and ignored errors.
  `MaxFaults` bounds their number. A call that is throttled where nothing was
  done before it is the absence of a step.
* *History variables* (`granted`, `recorded`, `collected`) are written by the
  actions and read by no guard.

Handlers of `PortAllocation`, for orientation: `handleAvailable` is
`HandleAvailable`, `ClaimPod`, `ClaimPodFails`, `RollBack`, `SetBinding`;
`availableResumeBind` is `ResumeConfirmed`, `ResumeClaim`, `ResumeClear`,
`SetPodIP`; `handleBinding` is `HandleBinding`, `AbortBinding`, `PollAdding`,
`AddServers`, `FinishBinding`; `handleBound` and `handleDisable` are the
`Bound...` actions, `HandleBound`, `HandleDisable`, `PollRemoving`,
`RemoveServer`, `FinishDisable`; `handleDisabled` is `DisabledPodGone`,
`ReEnable`; `handleReleasing` with `resetToAvailable` is `HandleReleasing`,
`ListAndRemove`, `FinishReleasing`, `ClearPodClaim`, `RemoveServers`,
`ClearPodClaimAgain`, `ClearSpec`, `SetAvailable`. In the other two modules the
actions stand in the order of the code. `PROJECT.json` maps every definition to
its lines.

## 3. What TLC checks

Run `tlc -config <run>.cfg <MC module>`. Definitions named `Mutant...` are
plausible bugs in the definition that follows them: with the bug put in, the run
violates the property it is listed with, so no property holds by the shape of
the model. They take no part in the runs.

| Run | Instance | Shows |
|---|---|---|
| `pa_deletion` | 2 PAs, 1 Pod, current caches, 1 fault, users disable, one PA is deleted | `LetGoIsEmpty`, `NoDoubleBound`, `OwnClaimCleared`, `LiveClaimKept`, `EventuallyRebound` |
| `pa_double_bound` | 2 PAs, 1 Pod, the reads of the other PA and of the Pod lag, 1 fault | `TypeOK`, `DoubleBoundResolved` |
| `pa_released_empty` | 1 PA, 2 SGs, Pod created twice, every cache lags, users edit, 1 fault | `AvailableIsEmpty`, where cloud calls take effect at once; `ReservationComplete` |
| `pa_progress` | 1 PA, late jobs, 2 faults, Pod created twice | `GrantedOnly`, `BoundIsRegistered`, `EventuallyReleased`, `EventuallyServed` |
| `routing_progress` | 2 PAs, 1 Pod, late jobs, 1 fault (a restart, say), users disable, no resync | `NoLostWakeup`, `EventuallyBound` |
| `managers_rolling` | 1 PA, 1 Pod, two managers with current caches, the old one stops | `EventuallyServed` |
| `prov_life_cycle` | 1 SG, 1 listener, PA created twice, 1 fault (an SG that vanishes, say) | `TypeOK`, `PromotedIsServed`, `RecordedSGDeleted`, `ListenerHasOwner`, `EventuallyAvailable`, `EventuallyGone`, `SlotPromise` |
| `slots_settled` | 4 slots on NLBs of 2, created one by one, 2 ports each, the port range moves once, while the pool is at rest | `TypeOK`, `OwnListener`, `EndpointsServed` |
| `pool_life_cycle` | 1 lane, up to 3 groups of 1 slot, the pool's cache lags, 1 fault or 1 PA that a user deletes, users disable | `TypeOK`, `NoOverExpansion`, `PoolGoneLast`, `SlotsKeepPromise`, `ServesOrLeaves` |
| `pool_stale_list` | 2 lanes, up to 2 groups of 2 slots, lagging lists of PAs, NLBs and EIPs, no Pods, 1 fault | `NoOverExpansion`, `ApprovedFirst`, `PAsOutliveCollected` |
| `pa_async_job` | 1 PA, late jobs | *violated*: `AvailableIsEmpty` |
| `pa_reenable` | 1 PA, late jobs, users disable | *violated*: `EventuallyServed` |

What these say of the hard parts:

* *The dual CAS* (`pa_deletion`, `pa_released_empty`, `pa_double_bound`). With
  current caches and no lost write a Pod has one PA, whatever is deleted when.
  With lag two PAs may both be Bound, and the one that lost the claim gives the
  Pod back.
* *Deletion of a bound PA* (`pa_deletion`). Its first step is three best-effort
  writes that are never repeated. If all calls succeed no backend stays
  (`LetGoIsEmpty`), and whatever fails, the Pod gets a PA that is not being
  deleted (`EventuallyRebound`).
* *Wake-ups* (`routing_progress`). A PA that is not queued, idle and without an
  event under way is `Disabled`, and its Pod is disabled (`NoLostWakeup`). This
  holds although the phase label, by which events of unclaimed Pods are routed,
  may say anything: `handleAvailable` looks again after five seconds.
* *Two managers* (`managers_rolling`). Optimistic locking is enough for the
  remaining manager to repair every binding that the two have disturbed, if its
  reads are current when a reconcile starts.
* *Slots* (`slots_settled`, and the `Slot...` properties). See `PASlot` above.
  `OwnListener`: no PA records or adopts another PA's listener;
  `EndpointsServed`: what an `Available` PA publishes is listened on. The PAs of an
  NLB are created one by one, and any of them may wait, half provisioned, for the
  next one to be created. Both properties assume that the spec is edited only while
  the pool is at rest (`Settled`, `AtRest`: every PA is `Available`, and no NLB has
  only some of its slots), and that `slotsPerNLB`, ports and lanes stay
  (`MoveRange`).
* *Stale lists of the pool* (`pool_stale_list`). The lists of PAs, NLBs and EIPs are
  snapshots of some earlier moment, each for itself. A list that misses objects never
  makes the pool grow too far, because the names of what is to be created are
  computed and an object that is already there is passed over; and no PA goes before
  the recorded NLBs have left the cloud, because that is asked of the cloud.

### What the violations say

* `pa_async_job`: `handleReleasing` takes an empty list of backends for a
  confirmation, but an `AddServers` accepted before may still be running, and
  no controller calls `GetJobStatus` although `nlb_api_client.go:21` says
  callers must. The counterexample ends with the PA `Available` and the add still
  pending; when it takes effect, the SG holds the address of a Pod that is gone.
* `pa_reenable`: the network is enabled again when `handleDisable` has removed
  the Pod from some SGs only. The PA never left `Bound`, `handleBound` thinks
  "binding is stable", and the Pod is never registered again.

### What does not hold beyond the conditions of the passing runs

The instances and the guards of the passing runs are chosen with care, because
some properties hold only under their conditions. Each of these was found by TLC
with the instance named.

Binding and deletion:

* `NoDoubleBound`, `LiveClaimKept` and `OwnClaimCleared` need current caches: a
  lagging cache makes a live claim look stale (PAC 898). (`CacheLag = {"ownPA"}`
  is enough.)
* Where PAs are deleted `OwnClaimCleared` needs Pod names that are used once, and
  `NoDoubleBound` falls with it. The patch
  of `clearPodClaim` (PAC 1671-1673) names the Pod and says nothing of its version or
  uid: between the Get and the Patch the Pod may be replaced by another of the same
  name, as a StatefulSet does, and claimed by another PA, and that claim is removed.
  (`pa_deletion` with `MaxIncarnations = 2`, without a fault or an edit.) A third PA
  then claims the Pod and is Bound to it, while the one whose claim was removed still
  is. (The same with three PAs, one of them deleted: 35 steps.) There is no other way:
  `NoDoubleBound` holds wherever `OwnClaimCleared` does, and `LiveClaimKept` with any
  Pod names (section 4).
* If users edit the pool annotation, `NoDoubleBound` and `OwnClaimCleared` also need
  Pod names that are used once: the PA of a Pod that left the pool is released
  while the Pod runs, and a Pod recreated between the Get and the Patch of
  `clearPodClaim` loses a claim that is not the worker's. (`UserEdits = {"pool"}`,
  `MaxIncarnations = 2`.) And `LiveClaimKept` needs the patches of
  `clearPodClaim`: with both lost, the claim stays behind a PA that is Available,
  may be taken over, and the PA may be `Binding` to the Pod again by then.
  (`UserEdits = {"pool"}`, `MaxFaults = 2`.)
* A lost write of the phase `Deleting` also lets two PAs show the same Pod
  (`PADeletion`).
* `AvailableIsEmpty` needs cloud calls that take effect at once, and at most one
  fault (hence `faults <= 1`). One is made good: a backend that the status does
  not show, because the worker crashed after `AddServers`, is removed by
  `resetToAvailable`. But that call is tried once (PAC 1487), and if it is
  refused as well the backend stays. (`MaxFaults = 2` and the premise
  `faults <= 2`.)
* `LetGoIsEmpty` needs calls that succeed: the removal is tried once (PAC 190),
  and a backend that it left stays as long as the SG.
* `BoundIsRegistered` fails when users disable the Pod, because
  `handleDisable` patches the status after the removal. `EventuallyServed`
  fails then, as `pa_reenable` shows.
* With late cloud calls `BoundIsRegistered` needs current caches of the Pods, and users
  who leave the pool annotation alone or at most one fault. Otherwise a PA can be
  released while its Pod lives and be bound to it again while the remove is still under
  way, which then takes the address out behind a status of `Bound`. (`pa_progress` with
  `CacheLag = {"pod"}`; or with two PAs, where two patches of `clearPodClaim` are lost and
  the claim is found again.) With calls that take effect at once neither matters.

Routing:

* `NoLostWakeup` needs a Pod that stays in the pool and names that are used
  once. `podToPortAllocation` drops the events of a Pod without the pool
  annotation before it looks at the claim (PAC 1792), so a disabled Pod that is
  taken out of the pool leaves its PA `Disabled`; and `handleBound` looks at the
  disabled annotation (PAC 1198) before the claim (PAC 1207), so a Pod recreated
  disabled, without the claim, sends its old PA to `Disabled`, where no event of
  the Pod reaches it. Only the informers' resync ends that. (`UserEdits` with
  `"pool"`, or `MaxIncarnations = 2`, in `routing_progress`.)
* It needs current caches as well. With any of them lagging (`CacheLag` with
  `"ownPA"`, `"otherPA"` or `"pod"`) two PAs may come to hold one Pod. If the Pod is
  disabled, so is the PA that lost the claim, and then events of the Pod are routed
  to the other one only: this one is not told when the Pod is enabled or deleted.

Two managers:

* With a lagging cache of Pods (`CacheLag = {"pod"}` in `managers_rolling`), or a
  Pod name used twice, `EventuallyServed` fails: one manager aborts the binding
  and empties the SG, a status patch of the other refreshes the resource version
  of its copy (PAC 787), and its CAS to `Bound` succeeds. `ReservationComplete`,
  `AvailableIsEmpty` and `BoundIsRegistered` fail too. The lock of PAC 41 is "among
  multiple reconcile workers" of one process.

Provisioning:

* An SG that disappears is polled for ever (PAC 483), or a listener for it is
  tried for ever: `EventuallyAvailable` excuses that (`SGLost`), and nothing
  else.
* `RecordedSGDeleted` is about SGs whose id was recorded; an SG created right
  before a crash is leaked when the PA is deleted before the call is repeated
  (PAC 246), because its client token contains the uid of the PA.
* A PA deleted while its NLB is live waits for its listeners as long as the NLB
  is there (PAC 235): that is `Leave` of `PASlot`.
* The client token of an SG is taken to be remembered for good. If the cloud forgot
  it between a lost patch and the repeated call, that call would make a second SG and
  the first would be leaked, like the one before.
* With two failing listener jobs in a row the second is noticed only when the cloud
  forgets the token: the token of a re-creation does not depend on the attempt (PAC
  649), so the cloud repeats the id that is gone. `prov_life_cycle` has one fault.

Layout:

* With `slotsPerNLB` edited (`Specs` with two values of it), a new slot is laid out on
  the NLB and port of an old one and adopts its listener (PAC 564): `OwnListener`
  fails. With the port range edited while a PA is being provisioned, the PA publishes
  ports on which nothing listens, because the listener's port is that of the first
  reconcile and the endpoint's that of the promotion (PAC 531, 729): `EndpointsServed`
  fails. (`Settled = FALSE`.)
* It is not enough that no PA is being provisioned. `ensureSlotResources` creates the
  PAs of an NLB one by one and returns at the first error (POOL 727-750). If the port
  range is edited between two of them, when the first is already `Available`, the
  second computes ports that overlap those of the first and adopts its listener:
  `OwnListener` and then `EndpointsServed` fail. (`slots_settled` with the first
  conjunct of `AtRest` only.) Such a half-made group may stay for long: the number of
  groups is computed by dividing down (POOL 240), and with enough headroom the fast
  path of `ensureSlotResources` leaves it as it is.

Pool:

* `README.md:273` says "When available slots fall below
  `minAvailableNLBs × slotsPerNLB`, new NLB groups are created".
  `computeDesiredNLBs` compares `availableSlots` with the headroom (243) but
  sizes the pool by `boundSlots` (246): slots in `Disabled` are in neither, so a
  pool whose only slot is disabled does not grow. And slots are numbered from the
  number of PAs upwards (707), so the slot of a PA that a user deletes is never
  filled. `ServesOrLeaves` counts `Disabled` slots and excuses holes; without the
  one or the other it fails.
* `PAsOutliveCollected` is about NLBs whose id was recorded, and needs a pool
  that is read as it is: with a stale pool the ids may be missing.
* `PoolGoneLast` needs current lists of NLBs and EIPs. `hasChildResources` (POOL
  573-598) lists them through the caching client of the manager (`main.go:169`): if the
  reconcile that created the first EIP of a pool dies and the pool is deleted, the list
  may not show that EIP yet, there is nothing to collect, to delete or to wait for, and
  the finalizer goes while the EIP exists. (`pool_life_cycle` with `"infra"` in
  `CacheLag`: 14 steps.) Owner references leave the object to Kubernetes' garbage
  collection. The same holds of PAs and `hasPortAllocations` (POOL 435), which
  `PoolGoneLast` is not about.

### Bounds, and why they are enough

* Two PAs and one Pod make every race of the claim protocol: a claim involves
  one Pod, its claimant and one rival. More PAs add rivals that behave like
  the second. Several Pods compete for one PA only at the first CAS, which picks
  any candidate.
* Two SGs where the order of the loop matters (partial disable, partial
  release); one elsewhere, because the SGs of a PA are handled one by one with
  the same code.
* A name used twice (`MaxIncarnations`, `MaxPAs`) shows a successor meeting what
  its predecessor left; a third adds nothing to compare with.
* One fault cuts one reconcile anywhere; two faults in `pa_progress` also cut
  the recovery from the first.
* In `pool_life_cycle` groups of one slot and Pods for one slot make two groups the
  right size and a third the over-expansion; `MaxGroups = 3` leaves room for it, which
  the type invariant checks (`desired` within `0..MaxGroups`). In `pool_stale_list`,
  without Pods, one group is the right size and the second the over-expansion; groups of
  two slots bring in the rounding of slots to groups, and two lanes the NLBs that stand
  or fall together.
* One fault in `prov_life_cycle`: a crash, a lost write, a listener job that fails or an
  SG that vanishes. Two of them, and so the replay of a token after a second failed job,
  were explored for the invariants only (half a million states, no violation).
* `Deletable` names one of the two PAs: they are alike until one is deleted.
* One PA suffices for two managers, which compete for every object; four slots
  make two NLBs with two slots each, the least that shows both divisions of the
  layout.
* Larger instances were explored with the same result: `PAProvisioning` with two
  ports, and with two lanes (`SlotPromise`, 1.6 million states); `NLBPool` with
  two lanes, both caches lagging, users that delete PAs and two faults, for one
  group (`SlotsKeepPromise`, 0.5 million states); `PortAllocation` with two PAs
  and every cache lagging (`ReservationComplete`).

### Fairness

`FairSpec` adds to each specification:

* fairness of the worker of each object. Every handler that has not finished
  returns a requeue or an error, a handler that has is woken by watch events and
  by the informers' periodic resync (`SetupWithManager`, PAC 1765-1775, POOL
  197-208). It is strong for the binding workers, because in instances without
  lag a reconcile waits for the cache and so is disabled, for a moment, by every
  edit; weak elsewhere.
* weak fairness of the informers, of the cloud's jobs, of a Pod getting its
  address, of the expiry of client tokens, and of the NLB and EIP operators and
  the PA controller as seen by the pool.

`PodRouting` has no resync: there a worker is only owed a step while its PA is
queued, and events are owed to whoever they are routed to. In `TwoManagers` the
manager that stays owes what a manager owes elsewhere, the other one only that it
stops. In `PADeletion` nothing says that the listeners of a deleted PA ever go.
`NLBPool` owes the steps of the PA controller that `PASlot` promises (`PAOwes`).

Users, workloads and faults owe nothing. Deadlock is not checked, because a
system whose Pods, PAs or pool are gone comes to rest.

## 4. What is proved

Each theorem is about the specification of its module without fairness (`Spec`,
`RoutingSpec`, `DeletionSpec`), for all values of the constants that satisfy the
module's assumptions: any number of PAs, Pods, ports, lanes, slots, incarnations
and faults, and any lag of the caches unless a row of the table says otherwise.

| Module | Theorem | States | Under |
|---|---|---|---|
| `PortAllocationProofs` | `TypeCorrect` | `TypeOK` | |
| | `RegisteredWasGranted` | `GrantedOnly` | |
| | `ReservationsComplete` | `ReservationComplete` | |
| `PortAllocationLockProofs` | `NeverDoubleBound` | `NoDoubleBound` | `CurrentCaches`, `NamesUsedOnce` |
| | `NeverDoubleBoundFaults` | `OneBound`: the same without its premise `faults = 0` | `CurrentCaches`, users leave the pool annotation alone |
| | `LiveClaimsKept` | `LiveClaimKept` | `CurrentCaches`, `NamesUsedOnce`, `WritesKept` |
| | `OnlyOwnClaimCleared` | `OwnClaimCleared` | `CurrentCaches`, `NamesUsedOnce`, `WritesKept` |
| `PortAllocationCloudProofs` | `ReleasedIsEmpty` | `AvailableIsEmpty` | `CloudAsync = FALSE` |
| | `BoundIsServed` | `BoundIsRegistered` | `CloudAsync = FALSE`, users disable no Pod |
| | `BoundIsServedLate` | `BoundIsRegistered` | `CurrentCaches`, users edit no annotation |
| `PodRoutingProofs` | `NoWakeupLost` | `NoLostWakeup` | `CurrentCaches`, `PodsStay` |
| `PADeletionProofs` | `LetGoLeavesNothing` | `LetGoIsEmpty` | `CloudAsync = FALSE` |
| | `DeletionSparesLiveClaims` | `LiveClaimKept` | `CurrentCaches`, `PoolKept` |
| | `DeletedNeverDoubleBound` | `NoDoubleBound` | `CurrentCaches`, `PoolKept`, along behaviours that satisfy `OwnClaimCleared` |
| | `DeletionClearsOwnClaims` | `OwnClaimCleared` | `CurrentCaches`, `PoolKept`, `PodsOnce` |
| `PAProvisioningProofs` | `TypeCorrect` | `TypeOK` | |
| | `EveryListenerHasOwner` | `ListenerHasOwner` | |
| | `NoRecordedSGLeaks` | `RecordedSGDeleted` | |
| | `EveryPromotedIsServed` | `PromotedIsServed` | |
| | `ImplementsSlot` | `SlotPromise`: `PAProvisioning` implements `PASlot` | |
| `SlotPortsProofs` | `TypeCorrect` | `TypeOK` | |
| | `AdoptsItsOwn` | `OwnListener` | `SameSlots`, `Settled` |
| | `PublishesWhatIsServed` | `EndpointsServed` | `SameSlots`, `Settled` |
| `NLBPoolProofs` | `TypeCorrect` | `TypeOK` | |
| | `NeverOverExpands` | `NoOverExpansion` | |
| | `InfrastructureGoesFirst` | `PoolGoneLast` | the lists of NLBs and EIPs are current |
| | `KeepsSlotPromise` | `SlotsKeepPromise`: every slot of `NLBPool` implements `PASlot` | |
| | `NothingBeforeApproval` | `ApprovedFirst` | users delete no PA |
| | `PAsGoAfterCloud` | `PAsOutliveCollected` | users delete no PA, the pool is read as it is |

The hypotheses of the last column, all satisfied by runs of section 3, and why they
are there:

* `CurrentCaches` (no cached read lags), `NamesUsedOnce` (a Pod name is used once
  if users edit the pool annotation) and `WritesKept` (nor is a write lost then):
  without any of them TLC finds counterexamples (section 3). Where users do not
  edit the pool annotation the last two say nothing: names may be used again, and
  everything may fail.
* `PodsStay` (users do not edit the pool annotation, and a Pod name is used once), and
  `CurrentCaches` with it: `NoLostWakeup` is violated without either (section 3,
  Routing).
* `PoolKept` (users leave the pool annotation alone), for the claim properties of
  `PADeletion`: without it `LiveClaimKept` is violated as it is without deletions, and a
  Pod that is not in the pool is released while it runs (section 3).
* `PodsOnce` (a Pod name is used once), for `OwnClaimCleared` alone, which is violated
  without it (section 3). `LiveClaimKept` is proved for Pods recreated under their names,
  as a StatefulSet does. `NoDoubleBound` is violated with them, and the theorem says how:
  it holds along every behaviour in which `clearPodClaim` removes no claim but its own,
  with names used once or again. With `PodsOnce` every behaviour is one of those, by
  `DeletionClearsOwnClaims`.
* `CloudAsync = FALSE` (a cloud call takes effect before it returns): without it
  `AvailableIsEmpty` is violated, as `pa_async_job` shows. `BoundIsRegistered` needs
  either that, or the lock: current caches and a pool annotation that users leave alone
  (section 3 says what happens with neither). Users that disable Pods break it
  in any case. All theorems about `PADeletion` have it as a premise: the module has no
  step in which a job takes effect, so calls always take effect at once there.
* `SameSlots` (`slotsPerNLB` is never edited) and `Settled` (the spec is edited only
  while every PA is in service and no NLB has only some of its slots): without either,
  or with half of the second, TLC finds the property violated (section 3).
* `InfrastructureGoesFirst` needs current lists of NLBs and EIPs (section 3); the other
  theorems about `NLBPool` hold however far these lag.
* A user may delete a PA at any time whatever the annotation on the pool says, so
  approval and order of deletion are about the operator only. With a stale copy of
  the pool the worker may miss recorded ids, and the PAs of such an NLB go before
  it does.

The assumptions on the constants, each named in the module that declares them and
evaluated by TLC in every run: ranges (`ConstantsAssumption`,
`SlotPortsAssumption`); that the null value is none of the values it stands in for
(`NullIsNoAddress`, `NullIsNoRecord`, `NullIsNothing`), which `nil` is not either;
and, in `NLBPool`, that the bound `MaxGroups` has room for the `EnoughGroups`
groups that the workload can call for (`RoomAssumption`). The last is what makes
`MaxGroups` a bound of the instance only: `NeverOverExpands` shows that the code
would not go beyond, so cutting it off there loses no behaviour.

Every inductive invariant was checked by TLC on the runs' instances before it was
proved. In the following, why each is needed.

### The binding life cycle

* `TypeCorrect`: `TypeOK` is inductive once its conjuncts are split: `TypeInv` is
  the conjunction of `PAInv`, `PodInv`, `WorkerInv` and `CloudInv`, and `PodInv`
  adds that a Pod's incarnation never exceeds the count of its creations. The
  lemmas go by kind of update first (`WritePAType`, `OvertakenType`,
  `CloudAddType`, ...), then by handler.
* `RegisteredWasGranted`, "the CAS on the Pod comes before AddServers".
  `GrantedOnly` alone is not inductive: `handleBinding` registers whatever address
  its cached PA holds. `GrantInv` adds
  * `PAsBacked`: an address that no claim backs is in a PA only between the first
    CAS and the second or the roll back; all that time the PA and its cached copy
    are `Available`, so no handler of another phase runs; a worker in the loop of
    `handleBinding` holds a granted address; a worker about to claim holds the
    address the PA has;
  * `ClaimsGranted`: every claim on a Pod, in the API server or in the cache, was
    granted.

  It holds although every cache may be arbitrarily old, because the address is
  granted to the PA for good: what is proved is about the order of the two CAS
  and `AddServers`, not about the claim still being there.
* `ReservationsComplete`: what a stale worker can do. A status patch carries no
  resource version and its response replaces the worker's copy, so the
  compare-and-swap that ends a loop may succeed although the loop was entered on an
  old PA (`memOK`). `ReservedInv` relates the PA, its cached copy and its worker:
  * `Shaped`: the PA and its cached copy have a Pod and an address of it, or
    neither; an `Available` one has no server status left;
  * `Behind`: which phases the PA may have reached since the cached version, and
    that a version `Binding` or `Bound` names the Pod that the PA names;
  * `Checked`: `handleBinding` has seen the claim before the first status is
    written, so whoever looks for the claim of a PA with such a status finds it as
    long as it is there (`Seen`), and a PA that gave up after that will never be
    found claimed again (`Lost`);
  * `Binds`: a worker in the loop of `handleBinding` whose PA is already `Releasing`
    is at the first SG with nothing registered there, unless it has given up
    `Bound` already: the status it sets there makes it poll again (`GivesUp`); `Disables`, `Releases` and `Claims` say where
    the workers of the other handlers may be.

* `NeverDoubleBound` and its three companions: the claim is a lock. What is
  promised compares two PAs, but the only thing that ties them is the annotation,
  so `LockInv` relates each PA to the Pods:
  * `Locked`: a claim is only ever on the Pod that its PA names; which phases and
    which steps of a release or a roll back have given theirs up (`Unclaimed`); a
    worker about to win the CAS on a Pod finds it unclaimed, because its copy would
    be out of date otherwise; a worker between the Get and the Patch of
    `clearPodClaim` finds its own claim, or a Pod that is gone for good. `Stage`
    ties the worker to the phase: with current caches a handler runs in its phase;
  * `HolderClaims`: a PA that is Binding, Bound or Disabled, or about to bind, holds
    the claim of a running Pod whose address it has;
  * `OneHolder`: an address has one holder, although its Pod may be gone and the
    claim with it. A new holder needs a running Pod without a claim, or with a
    claim that is stale, and the address of a new Pod has never been held (`Born`).

  Where users edit the pool annotation this holds until the first fault
  (`Undisturbed`): a release while the Pod runs that loses the patch of the claim
  leaves a claim without a holder.
* `ReleasedIsEmpty` and `BoundIsServed`: what a status says of an SG. Many copies of
  the statuses are about (in the PA, in its cached version, in the worker), each
  handler trusts the one it has, and the last CAS of a loop writes one of them back.
  Steps of other PAs do not matter, so each step is first reduced to what it does to
  one PA, its copies and its SGs (`Moves`), and the invariants are proved of that:
  * `Held`, up to the first fault: the SGs hold no address but the one the PA names,
    a release uses that address, and behind the `RemoveServers` of
    `resetToAvailable` they are empty. That step is the only one that ignores an
    error. It may be the one fault only if the loop before it has emptied the SGs,
    hence
  * `Track`, before any fault: an SG that is not empty has a status (`Tracked`), a
    status that says so is true while the PA is made Bound (`Promises`), and an empty
    status is true in every copy by which a loop may skip an SG (`Complete`,
    `BoundCopy`, `Removes`, `CycleCopy`); a release that has begun is the only one
    (`Cycle`), so the statuses that it resets are those it started from;
  * `Registers`, whatever fails: while a PA serves a Pod, no copy of its status says
    Bound of an SG that its address is not in.
* `BoundIsServedLate`: with late calls a release leaves removes behind that take effect
  when they like, so `Registers` needs to know that none of them is for an address the PA
  holds (`RemovesLate`). A PA that is released has lost its claim (`Unclaimed`, from the
  lock), a Pod keeps the claim it was granted as long as it lives (`GrantsClaimed`), and
  `GrantedOnly` says that the address was granted: so its Pod is gone, and gone for good
  (`GoneForGood`), because a Pod created later has another address. Whoever comes to
  hold an address has just seen its Pod (`NewHolder`).

### Routing and deletion

* `NoWakeupLost`. A PA out of the queue and idle, with no event of its own under way,
  was put to sleep by a handler that ended without a requeue, and the only one is that
  of a `Disabled` PA which finds its Pod disabled. `QueueInv` says what wakes it: the
  cached Pod is in the pool and carries the PA's claim (`Waits`), and `PodEvent` routes
  the old version and the new one, so the next event of the Pod reaches the PA even if
  it is the deletion. That the claim is there is the lock invariant of
  `NeverDoubleBound`, which holds of this specification because its steps are those of
  `PortAllocation` and the restart of the manager (`RestartLock`).
* `LetGoLeavesNothing`. Every step is reduced to what it does to its own PA (`Acts`) and
  what it leaves alone (`Spares`), so that `OneByOne` needs to look at one PA only. Of
  that `Cleared` says, until a call fails, that the SGs hold no address but the one the
  PA names, that the steps up to the last `RemoveServers`, of a release or of a
  deletion, use that address, and that behind it the SGs are empty. The cache may be
  any age: what has to be shown is that a worker that starts with a `Binding` copy
  registers only the address that the PA still names, because a PA is not `Available`
  again while the cache says `Binding`, and is taken over by a deletion only when the
  deletion is in the cache too.
* `DeletionSparesLiveClaims`, `DeletionClearsOwnClaims`, `DeletedNeverDoubleBound`. The
  lock invariant does not carry over: a deletion may clear the reservation while the
  patch of the claim has failed, and then the claim stays on the Pod of a PA that names
  none (`LetGo`). `ClaimInv` says that these are the only claims without a reservation,
  so a claim that is stale (`Free`) belongs to nobody that keeps a Pod:
  * `Placed` ties a worker to its PA: its handler to the phase, its copy to the
    reservation, a copy in phase `Deleting` to a deletion that the cache has seen;
  * `Keyed`: a PA claims the Pod that it names, or has let it go; a worker that has a
    current copy of a Pod before its claim may take that Pod (`Setting`, `Free`); one
    about to drop a claim has it, or the Pod is gone for good (`Clearing`), which is the
    one place where `PodsOnce` is needed;
  * `Counted` and `PodsCounted`: no PA knows the address of a Pod that is yet to come,
    so a successor of a Pod is nobody's.

  `LiveClaimKept` and `OwnClaimCleared` follow. `HolderInv`, for `NoDoubleBound`, is the
  lock proper, up to the first fault: a PA that is Binding, Bound or Disabled, or about
  to be, with the address of a running Pod has the claim on it (`HoldersClaim`), and an
  address has one holder, running or gone (`OneHolder`). A step keeps it unless it
  clears the claim of another PA (`ClearsOwn`): that is what `OwnClaimCleared`, as an
  assumption on the behaviour, provides.

  Most steps write no Pod; they only have to be `Lawful` (`LawfulKeeps`). Workloads and
  users, a worker that sets a claim and one that drops it are done one by one
  (`PodWriters`).

### Provisioning and deletion of a PA

* `TypeCorrect`: a patch needs a PA to write to and a cloud call the id of an SG,
  so `TypeOK` is not inductive. `BaseInv` says that what a worker goes by, cached or
  in memory, is an earlier version (`Follows`) of the PA that there is, and that
  only the worker removes a PA with the finalizer.
* `EveryListenerHasOwner` and `NoRecordedSGLeaks`: `OwnershipInv` says that every
  listener forwards to a recorded SG of the present incarnation (`OwnerInv`), that
  an SG once recorded is recorded until it is deleted (`RecordedInv`), and that an
  element missing from the arrays of a worker in `handleDeletion` whose copy is
  current stands for nothing that is still there (`SGWorkerInv`): so the CAS that
  removes the finalizer succeeds only when all is gone.
* `EveryPromotedIsServed`: the hard case is a worker with an old copy that repeats
  a `CreateListener` under a remembered client token and gets the id of a listener
  that has failed and been replaced. `ServedInv` shows why it never records it: a
  copy that does not show a listener which is known to run shows something else,
  before that listener, which makes the worker patch the PA (and the response
  refreshes the copy) or stop (`CacheInv`, `RefreshInv`, `Before`).
* `ImplementsSlot`: each step maps to a step of `PASlot` or a stutter; `Enter` and
  `Leave` need `ServedInv` and `OwnershipInv`.

### The layout

The slots of an NLB are created one by one, so `SlotsInv` looks at the NLB: as long as
one of its slots is not in service, or not even created (`InProgress`), the spec has not
been edited since the first of them got its ports (`Settled`, `AtRest`). All its slots
that have ports then have those of the current spec (`LaidOut`), so the ports that the
next one computes are distinct from them (`Distinct`, by the lemmas on division), and a
listener that is already there is the slot's own (`ListenersInv`). `RecordsInv` then carries the
agreement of recorded ids, ports and endpoints. `PortBound`, a constant, is at least
the highest port that a spec in `Specs` leads to: the code itself never looks at
`PortRange.Max`.

### The pool

* `TypeCorrect` and `NeverOverExpands` are one invariant: the number of groups that
  the worker computes has a type because it has a bound, and it has a bound because
  the PAs it counts lie in slots of low numbers and at most `MaxPods` of them are
  taken, whichever moment the list is from (`InRoom` of the PAs and of their
  cache); `SyncInv` ties the cache to the pool.
* `FlagsInv` (`PoolInv`, `DeletionInv`): finalizer, deletion and approval only ever
  go one way, so a worker acting on an old pool acts on flags that still hold.
  `InfraInv` on top: nothing is torn down, or left over, while somebody may size
  the pool (`InCharge`), and what an old list of NLBs shows is still so (`KnownInv`).
  `PAsInv`: every PA stands on NLBs that are live while somebody is in charge and that
  nobody replaces afterwards. `KeepsSlotPromise` follows.
* `InfrastructureGoesFirst`: objects come into being only with the finalizer
  (`ObjectsStep`), and with current lists the finalizer is removed only when there are
  none (`OwnedInv`).
* `PAsGoAfterCloud`: `CollectedInv` follows a recorded NLB through the phases of
  the deletion. Its id stays recorded until the NLB is gone from the cloud, and the
  worker gets past `wait` only with all of them gone.

### Only model-checked

* Liveness (`EventuallyBound`, `EventuallyReleased`, `EventuallyServed`,
  `EventuallyRebound`, `DoubleBoundResolved`, `EventuallyAvailable`,
  `EventuallyGone`, `ServesOrLeaves`): fairness and `ENABLED` are out of the
  prover's reach. The refinements are proved for the safety part of `PASlot`.
* `BoundIsRegistered` with late jobs where users edit the pool annotation (`pa_progress`,
  one PA, two faults): with a second PA and two faults it is false (section 3).
* The properties of `TwoManagers`, which are about liveness.
* That a lookup of a listener by port which fails (PAC 632) changes nothing. The code
  goes on to `CreateListener` although the port may be taken: the answer is a conflict,
  which ends the reconcile, or, under a remembered token, an old id. `RecreateListener`
  leaves this out because the old id is that of the listener on the port, so the step is
  that of a lookup that succeeds: so TLC finds with one listener and seven faults, and
  with two listeners and three faults.

## 5. What is not modelled, and why

* Throttling beyond its effect on the control flow; events, messages, aggregates,
  labels other than the phase label.
* Delays of requeues: `PodRouting` takes a delayed requeue for a queued PA.
* External addresses and object names; the builders. Ports only in `SlotPorts`.
* Panics: `slotsPerNLB = 0`, or ports and lanes removed from the spec while a PA
  is being provisioned, are out of range (PAC 386, 515) and end the manager, which
  restarts and meets them again.
* The rate limiter of `rate_limiter.go`, a wrapper that refuses a call before it
  is made. (The comment in `main.go` says that only adding and removing servers
  is limited; by the defaults of the flags those two are unlimited and the other
  calls limited.)
* Validation of the lanes, the drift of zone mappings, legacy Listener and
  ServerGroup objects of the pool.
* A call that takes effect although its error is returned: only as far as
  `Abort` after the call covers it.
* Dead code: `cleanupOrphanListeners`, `acquireNLBSlot`, `releaseNLBSlot`,
  `deleteAllChildren`, the builders of ServerGroup and Listener objects.
* Pure I/O and generated code: flags and wiring in `main.go`, the Alibaba SDK wrapper beyond what
  the controllers observe, deep copies, manifests, image builds.

## 6. Plan

Done: the core (`PortAllocation`) and its extensions `PADeletion`, `PodRouting` and
`TwoManagers`; `PAProvisioning`, `SlotPorts` and `NLBPool`; every safety invariant that
a run checks as a theorem of the module that states it; the abstract slot `PASlot` that ties the
controllers together, and the proof that both implement it.

Every safety property of a passing run is proved of the module that the run checks, but
for the premises named in section 4.

Modelling, if the code moves: an abstract lock of a Pod (free, claimed, served)
that `PortAllocation` implements with current caches; the pool controller under
two managers.
