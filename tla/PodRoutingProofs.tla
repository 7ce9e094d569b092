-------------------------- MODULE PodRoutingProofs --------------------------
(***************************************************************************)
(* No wake-up is lost, where the caches are current, Pods stay in the pool  *)
(* and Pod names are used once.                                             *)
(*                                                                          *)
(* A PA is out of the queue and idle for one of two reasons.  It has just   *)
(* been written, so its own event is under way.  Or its Pod was disabled    *)
(* when a worker looked; then the cached Pod carries the claim, and the     *)
(* next event of the Pod, which routes the cached version as well as the    *)
(* new one, finds the PA (Waits).  That the claim is there is what the lock *)
(* invariant says of a PA that is Disabled.                                 *)
(*                                                                          *)
(* The lock invariant is inductive for the steps of PortAllocation; the     *)
(* restart of the manager is the one step that is added here.               *)
(***************************************************************************)
EXTENDS PodRouting, PortAllocationLockProofs

\* PA p, asleep, waits for its Pod, which the cache shows disabled and claimed by p.
Waits(p) ==
    LET d == pa[p].pod
    IN  /\ pa[p].phase = "Disabled" /\ d \in Pods
        /\ podCache[d] # Null
        /\ podCache[d].disabled /\ podCache[d].inPool /\ podCache[d].claim = p

\* A PA that nothing is going to look at.
Asleep(p) == p \notin queued /\ worker[p].pc = "idle" /\ paSynced[p]

QueueInv == \A p \in PAs : Asleep(p) => Waits(p)

\* Pods stay in the pool, and names are used once.
PodsStay == "pool" \notin UserEdits /\ MaxIncarnations = 1

RoutingInv == ClaimInv /\ QueueInv

-----------------------------------------------------------------------------
(* The restart of the manager.                                              *)

\* Every worker is idle and every cache is current.
LEMMA RestartFields ==
  ASSUME TypeInv, Restart
  PROVE  /\ pa' = pa /\ pod' = pod /\ incarnation' = incarnation /\ granted' = granted
         /\ backends' = backends /\ jobs' = jobs
         /\ paCache' = pa /\ podCache' = pod /\ queued' = PAs
         /\ \A p \in PAs : worker'[p] = Idle
         /\ Idle.pc = "idle" /\ Idle.podOK = FALSE
BY DEF Restart, cloudVars, Idle

\* It has the declared types.
LEMMA RestartType ==
  ASSUME TypeInv, Restart
  PROVE  TypeInv'
<1>1. PAInv' /\ PodInv'
  BY DEF Restart, TypeInv, PAInv, PodInv
<1>2. WorkerInv'
  <2>1. \A p \in PAs : Consistent(Idle, pod)
    BY WorkerSteps
  <2> QED
    BY <2>1, IdleWorker DEF Restart, WorkerInv, Consistent
<1>3. CloudInv' /\ faults' \in 0..MaxFaults
  BY FaultType DEF Restart, TypeInv, CloudInv, cloudVars
<1> QED
  BY <1>1, <1>2, <1>3 DEF TypeInv

\* Whatever was granted stays granted.
LEMMA RestartGrant ==
  ASSUME TypeInv, GrantInv, Restart
  PROVE  GrantInv'
<1>1. ASSUME NEW p \in PAs PROVE Backed(p, pa[p], paCache[p], worker[p])'
  <2>1. pa'[p] = pa[p] /\ paCache'[p] = pa[p] /\ worker'[p] = Idle /\ granted' = granted
    BY RestartFields
  <2>2. ~Granted(p, pa[p].ip) => pa[p].phase = "Available"
    BY DEF GrantInv, PAsBacked, Backed
  <2> QED
    BY <2>1, <2>2, RestartFields DEF Backed, Granted
<1>2. ClaimsGranted'
  BY RestartFields DEF GrantInv, ClaimsGranted
<1>3. GrantedOnly'
  BY RestartFields DEF GrantInv, GrantedOnly
<1> QED
  BY <1>1, <1>2, <1>3 DEF GrantInv, PAsBacked

\* The new caches have seen every claim that there is.
LEMMA RestartReserved ==
  ASSUME TypeInv, ReservedInv, Restart
  PROVE  ReservedInv'
<1> SUFFICES ASSUME NEW p \in PAs PROVE Reserved(p)'
  BY DEF ReservedInv
<1>1. pa'[p] = pa[p] /\ paCache'[p] = pa[p] /\ worker'[p] = Idle /\ podCache' = pod'
  BY RestartFields
<1>2. Shaped(pa[p]) /\ pa[p].phase \in Phases
  BY DEF ReservedInv, Reserved, Copied, TypeInv, PAInv, PARecords
<1>3. Behind(pa[p], pa[p])
  BY <1>2 DEF Behind, Shaped, Phases
<1>4. Checked(p, pa[p], paCache[p])'
  BY <1>1 DEF Checked, Seen, HasClaim
<1>5. Copied(p, pa[p], paCache[p])'
  <2>1. (Shaped(pa[p]) /\ Shaped(paCache[p]))'
    BY <1>1, <1>2 DEF Shaped, Whole, Clean
  <2>2. Behind(pa[p], paCache[p])'
    <3>1. Behind(pa'[p], paCache'[p])
      BY <1>1, <1>3
    <3> QED
      BY <3>1 DEF Behind, Clean
  <2> QED
    BY <1>4, <2>1, <2>2 DEF Copied
<1>6. Working(p, pa[p], paCache[p], worker[p])'
  BY <1>1, RestartFields DEF Working, Claims, Binds, Disables, Releases, Closing
<1> QED
  BY <1>5, <1>6 DEF Reserved

\* No claim is given up, and nobody is about to take one.
LEMMA RestartLock ==
  ASSUME TypeInv, LockInv, Restart
  PROVE  LockInv'
<1>1. ASSUME NEW p \in PAs
      PROVE  (Stage(pa[p], worker[p]) /\ Lock(p, pa[p], worker[p]))'
  <2>1. Lock(p, pa[p], worker[p])
    BY DEF LockInv, Locked
  <2> QED
    BY <2>1, RestartFields DEF Stage, Lock, Unclaimed, HasClaim, Closing
<1>2. ASSUME NEW p \in PAs, NEW ip, Holds(pa'[p], worker'[p], ip)
      PROVE  Holds(pa[p], worker[p], ip)
  BY <1>2, RestartFields DEF Holds
<1>3. HolderClaims'
  BY <1>2, RestartFields DEF LockInv, HolderClaims, HasClaim
<1>4. OneHolder'
  BY <1>2 DEF LockInv, OneHolder
<1> QED
  BY <1>1, <1>3, <1>4 DEF LockInv, Locked

\* The invariants of PortAllocation.
LEMMA RestartClaim ==
  ASSUME ClaimInv, PodsStay, Restart
  PROVE  ClaimInv'
<1>1. Born'
  BY RestartFields DEF ClaimInv, Born
<1>2. LockInv
  BY DEF ClaimInv, Undisturbed, PodsStay
<1> QED
  BY <1>1, <1>2, RestartType, RestartGrant, RestartReserved, RestartLock DEF ClaimInv

\* Every other step is one of PortAllocation.
LEMMA RoutingSteps ==
  ASSUME [RoutingNext]_routingVars
  PROVE  [Next]_vars \/ Restart
BY DEF RoutingNext, routingVars, QueuedStep, QueuedFault, IdleDisabled, PAEvent, PodEvent,
       Next, WorkerFails

\* All that holds of a state of PortAllocation holds here.
LEMMA RoutingClaim ==
  ASSUME ClaimInv, CurrentCaches, PodsStay, [RoutingNext]_routingVars
  PROVE  ClaimInv'
<1>1. LockInv /\ Undisturbed' /\ NamesUsedOnce
  BY DEF ClaimInv, Undisturbed, PodsStay, NamesUsedOnce
<1>2. CASE [Next]_vars
  BY <1>1, <1>2, TypeStep, GrantStep, ReservedStep, BornStep, LockStep DEF ClaimInv
<1> QED
  BY <1>2, RoutingSteps, RestartClaim

-----------------------------------------------------------------------------
(* The queue.                                                               *)

\* So the others stay as they are.
LEMMA OthersSleepOn ==
  ASSUME TypeInv, NEW p \in PAs, OwnOnly(p), NEW q \in PAs \ {p}
  PROVE  /\ pa'[q] = pa[q] /\ paSynced'[q] = paSynced[q]
         /\ worker'[q].pc = worker[q].pc
<1>1. pa'[q] = pa[q] /\ paSynced'[q] = paSynced[q]
  BY DEF OwnOnly, WritePA, paVars, TypeInv, PAInv
<1>2. worker'[q] \in {worker[q], [worker[q] EXCEPT !.podOK = FALSE]}
  <2>1. CASE \E d, r, w : worker' = [Overtaken(d, r) EXCEPT ![p] = w]
    <3>1. PICK d, r, w : worker' = [Overtaken(d, r) EXCEPT ![p] = w]
      BY <2>1
    <3>2. worker'[q] = Overtaken(d, r)[q]
      BY <3>1 DEF Overtaken
    <3> QED
      BY <3>2 DEF Overtaken
  <2>2. CASE UNCHANGED worker \/ \E w : Goto(p, w)
    BY <2>2 DEF Goto, TypeInv, WorkerInv
  <2> QED
    BY <2>1, <2>2 DEF OwnOnly
<1> QED
  BY <1>1, <1>2, WorkerSteps DEF Workers

\* A PA that was changed has an event under way.
LEMMA ChangedIsOld ==
  ASSUME TypeInv, NEW p \in PAs, OwnOnly(p), pa'[p] # pa[p]
  PROVE  ~paSynced'[p]
BY DEF OwnOnly, WritePA, paVars, TypeInv, PAInv

\* The handlers that end with an empty result have changed their PA.
LEMMA EmptyResultChanges ==
  ASSUME TypeInv, LockInv, NEW p \in PAs, EmptyResult(p)
  PROVE  pa'[p] # pa[p]
<1>1. pa[p] \in PARecords
  BY DEF TypeInv, PAInv
<1>2. CASE ResumeClear(p) \/ ResumeClaimFails(p)
  <2>1. pa[p].pod # Null
    BY <1>2 DEF ResumeClear, ResumeClaimFails, Resume, TypeInv, PAInv
  <2>2. pa'[p] = Unreserved(p)
    BY <1>2 DEF ResumeClear, ResumeClaimFails, WritePA, TypeInv, PAInv
  <2>3. Unreserved(p).pod = Null
    BY <1>1 DEF Unreserved, PARecords
  <2> QED
    BY <2>1, <2>2, <2>3
<1>3. CASE SetAvailable(p)
  <2>1. pa[p].phase = "Releasing"
    BY <1>3 DEF SetAvailable, At, LockInv, Locked, Stage, Closing
  <2>2. PICK r : r = [pa[p] EXCEPT !.phase = "Available", !.ss = [i \in SGs |-> ""]]
    OBVIOUS
  <2>3. r.phase = "Available"
    BY <1>1, <2>2 DEF PARecords
  <2>4. pa'[p] = r
    BY <1>3, <2>2 DEF SetAvailable, WritePA, TypeInv, PAInv
  <2> QED
    BY <2>1, <2>3, <2>4
<1> QED
  BY <1>2, <1>3 DEF EmptyResult

\* A reconcile that ends with a write and an empty result leaves an event behind, one
\* that ends otherwise leaves the PA in the queue.
LEMMA WorkerQueue ==
  ASSUME TypeInv, LockInv, QueueInv, NEW p \in PAs, QueuedStep(p) \/ QueuedFault(p)
  PROVE  QueueInv'
<1>1. OwnOnly(p)
  BY OwnWrites DEF QueuedStep, QueuedFault, WorkerFails
<1>2. Requeue(p)
  BY DEF QueuedStep, QueuedFault
<1>3. ~Asleep(p)'
  <2> SUFFICES ASSUME worker'[p].pc = "idle", paSynced'[p] PROVE p \in queued'
    BY DEF Asleep
  <2>1. ~EmptyResult(p)
    BY <1>1, EmptyResultChanges, ChangedIsOld
  <2> QED
    BY <1>2, <2>1 DEF Requeue
<1>4. ASSUME NEW q \in PAs, q # p, Asleep(q)' PROVE Waits(q)'
  <2>1. /\ pa'[q] = pa[q] /\ paSynced'[q] = paSynced[q]
        /\ worker'[q].pc = worker[q].pc
    BY <1>1, <1>4, OthersSleepOn
  <2>2. q \in queued => q \in queued'
    BY <1>2, <1>4 DEF Requeue, Taken
  <2>3. podCache' = podCache
    BY <1>1 DEF OwnOnly, cacheVars
  <2> QED
    BY <1>4, <2>1, <2>2, <2>3 DEF QueueInv, Asleep, Waits
<1> QED
  BY <1>3, <1>4 DEF QueueInv

\* The one handler that drops its PA has seen the Pod disabled, and claimed.
LEMMA IdleQueue ==
  ASSUME ClaimInv, LockInv, QueueInv, CurrentCaches, PodsStay, NEW p \in PAs, IdleDisabled(p)
  PROVE  QueueInv'
<1> USE DEF ClaimInv
<1> DEFINE d == pa[p].pod
<1>1. Reconcile(p, "Disabled") /\ CachedPod(p) # Null /\ CachedPod(p).disabled
  BY DEF IdleDisabled
<1>2. /\ pa[p].phase = "Disabled" /\ d \in Pods
      /\ podCache[d] = pod[d] /\ pod[d] # Null /\ pod[d].disabled
  BY <1>1, ReadsCurrent DEF Reconcile, TypeInv, PAInv, PARecords
<1>3. pa[p].ip = <<d, pod[d].uid>>
  <2>1. pa[p].ip \in {d} \X (1..1)
    BY <1>2, ConstantsAssumption DEF ReservedInv, Reserved, Copied, Shaped, Whole, PodsStay
  <2>2. pod[d].uid \in 1..1
    BY <1>2 DEF TypeInv, PodInv, PodRecords, PodsStay
  <2> QED
    BY <2>1, <2>2
<1>4. pod[d].claim = p
  BY <1>2, <1>3 DEF LockInv, HolderClaims, Holds, HasClaim
<1>5. pod[d].inPool = TRUE
  BY <1>2 DEF Born, PodsStay
<1>6. Waits(p)'
  BY <1>2, <1>4, <1>5 DEF IdleDisabled, vars, Waits
<1>7. ASSUME NEW q \in PAs, q # p, Asleep(q)' PROVE Waits(q)'
  BY <1>7 DEF IdleDisabled, vars, QueueInv, Asleep, Waits
<1> QED
  BY <1>6, <1>7 DEF QueueInv

\* An event of a Pod finds the PA that waits for it.
LEMMA EventQueue ==
  ASSUME TypeInv, QueueInv, NEW d \in Pods, PodEvent(d)
  PROVE  QueueInv'
<1> SUFFICES ASSUME NEW p \in PAs, Asleep(p)' PROVE Waits(p)'
  BY DEF QueueInv
<1>1. PICK old \in PodToPortAllocation(podCache[d]), new \in PodToPortAllocation(pod[d]) :
        queued' = queued \cup old \cup new
  BY DEF PodEvent
<1>2. UNCHANGED <<pa, paSynced, worker>> /\ podCache' = [podCache EXCEPT ![d] = pod[d]]
  BY DEF PodEvent, SyncPod, paVars
<1>3. Waits(p)
  BY <1>1, <1>2 DEF QueueInv, Asleep
<1>4. pa[p].pod # d
  <2> SUFFICES ASSUME pa[p].pod = d PROVE FALSE
    OBVIOUS
  <2>1. podCache[d] # Null /\ podCache[d].inPool /\ podCache[d].claim = p /\ p # Null
    BY <1>3, ConstantsAssumption DEF Waits
  <2>2. PodToPortAllocation(podCache[d]) = {{p}}
    BY <2>1 DEF PodToPortAllocation
  <2> QED
    BY <1>1, <2>2 DEF Asleep
<1>5. podCache'[pa[p].pod] = podCache[pa[p].pod]
  BY <1>2, <1>3, <1>4 DEF Waits, TypeInv, PodInv
<1> QED
  BY <1>2, <1>3, <1>5 DEF Waits

\* The steps of the environment that queue nothing.
LEMMA StillQueue ==
  ASSUME TypeInv, QueueInv, UNCHANGED <<pa, paSynced, podCache, queued>>,
         \A p \in PAs : worker'[p].pc = worker[p].pc
  PROVE  QueueInv'
BY DEF QueueInv, Asleep, Waits

\* Every step.
LEMMA QueueStep ==
  ASSUME RoutingInv, CurrentCaches, PodsStay, [RoutingNext]_routingVars
  PROVE  QueueInv'
<1>1. TypeInv /\ LockInv /\ QueueInv /\ ClaimInv
  BY DEF RoutingInv, ClaimInv, Undisturbed, PodsStay
<1>2. ASSUME NEW p \in PAs, PAEvent(p) PROVE QueueInv'
  BY <1>1, <1>2 DEF PAEvent, SyncPA, TypeInv, PAInv, QueueInv, Asleep, Waits
<1>3. ASSUME NEW p \in PAs, CloudStep(p) \/ CloudFails(p), UNCHANGED queued PROVE QueueInv'
  <2>1. UNCHANGED <<pa, paSynced, podCache, worker>>
    BY <1>3 DEF CloudStep, CloudFails, JobDone, JobFails, paVars, cacheVars
  <2> QED
    BY <1>1, <1>3, <2>1, StillQueue
<1>4. ASSUME NEW d \in Pods, PodStep(d), UNCHANGED queued PROVE QueueInv'
  <2>1. PICK r : /\ worker' = Overtaken(d, r) /\ UNCHANGED <<pa, paSynced, podCache>>
    BY <1>4 DEF PodStep, PodCreate, PodGetsIP, PodDelete, EditDisabled, EditPool, PodChange,
                paVars, cacheVars
  <2>2. ASSUME NEW p \in PAs PROVE worker'[p].pc = worker[p].pc
    <3>1. worker'[p] \in {worker[p], [worker[p] EXCEPT !.podOK = FALSE]}
      BY <2>1 DEF Overtaken
    <3> QED
      BY <1>1, <3>1, WorkerSteps DEF Workers
  <2> QED
    BY <1>1, <1>4, <2>1, <2>2, StillQueue
<1>5. CASE Restart
  BY <1>5 DEF Restart, QueueInv, Asleep
<1>6. CASE UNCHANGED routingVars
  BY <1>1, <1>6, StillQueue DEF routingVars, vars
<1> QED
  BY <1>1, <1>2, <1>3, <1>4, <1>5, <1>6, WorkerQueue, IdleQueue, EventQueue DEF RoutingNext

-----------------------------------------------------------------------------
(* The theorem.                                                             *)

\* A PA that is not queued, idle and without an event under way is Disabled, and so is
\* its Pod: no wake-up is ever lost, although nothing is resynced, over crashes,
\* restarts, late jobs, lost writes and phase labels that say anything.
THEOREM NoWakeupLost ==
  ASSUME CurrentCaches, PodsStay
  PROVE  RoutingSpec => []NoLostWakeup
<1>1. RoutingInit => RoutingInv
  <2>1. RoutingInit => QueueInv
    BY DEF RoutingInit, QueueInv, Asleep
  <2> QED
    BY <2>1, InitType, InitGrant, InitReserved, InitLock
    DEF RoutingInit, RoutingInv, ClaimInv
<1>2. RoutingInv /\ [RoutingNext]_routingVars => RoutingInv'
  BY RoutingClaim, QueueStep DEF RoutingInv
<1>3. RoutingInv => NoLostWakeup
  <2> SUFFICES ASSUME RoutingInv, NEW p \in PAs, p \notin queued, At(p, "idle"), paSynced[p],
                      \A d \in Pods : podSynced[d]
               PROVE  pa[p].phase = "Disabled" /\ PodIsDisabled(p)
    BY DEF NoLostWakeup
  <2>1. Waits(p)
    BY DEF RoutingInv, QueueInv, Asleep, At
  <2>2. pod[pa[p].pod] = podCache[pa[p].pod]
    BY <2>1 DEF Waits, RoutingInv, ClaimInv, TypeInv, PodInv
  <2> QED
    BY <2>1, <2>2, ConstantsAssumption DEF Waits, PodIsDisabled
<1> QED
  BY <1>1, <1>2, <1>3, PTL DEF RoutingSpec
=============================================================================
