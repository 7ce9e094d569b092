------------------------------ MODULE NLBPool ------------------------------
(***************************************************************************)
(* The NLBPool controller: how the worker of one pool sizes it (one NLB and *)
(* its EIPs for every lane of every group, one PortAllocation (PA) for      *)
(* every slot), and how it takes the pool down in three phases: the NLB and *)
(* EIP objects first, then a wait until the NLBs have disappeared from the  *)
(* cloud, then the PAs.                                                     *)
(*                                                                          *)
(* The environment is external or modelled elsewhere: the NLB and EIP       *)
(* operators, which create and delete cloud resources for the objects of    *)
(* this pool; the PA controller (modules PAProvisioning and PortAllocation),*)
(* of which only the phases of the PAs are seen here; users.                *)
(*                                                                          *)
(* How the control flow is cut into actions.                                *)
(*  - Each write to the pool, a compare-and-swap (CAS), is a step, and so   *)
(*    is each loop that creates or deletes objects.  Such a loop may stop   *)
(*    in the middle, with a fault.                                          *)
(*  - The pool and the lists of its PAs, NLBs and EIPs are read from caches *)
(*    that may lag (CacheLag), each for itself; a list is a snapshot of     *)
(*    some earlier moment.                                                  *)
(*                                                                          *)
(* What is abstracted.                                                      *)
(*  - The EIPs of one NLB (one per zone) are one; a PA without a phase is   *)
(*    Provisioning, and one that is deleted is in phase Deleting at once.   *)
(*  - The annotations for deletion protection and for a dry run have the    *)
(*    same effect on the deletion: blocked stands for either.               *)
(*  - Names, events, the drift of zone mappings, which allocates nothing,   *)
(*    and the legacy Listener and ServerGroup objects.                      *)
(***************************************************************************)
EXTENDS Integers, FiniteSets

CONSTANTS
    Null,              \* the pool is gone
    Lanes,             \* lanes of the pool
    SlotsPerNLB,
    MinAvailableNLBs,
    MaxGroups,         \* bound: groups for which this instance has room
    MaxPods,           \* bound: PAs that Pods take at the same time
    MaxFaults,         \* bound: crashes, writes and creations that fail, PAs that
                       \* users delete
    CacheLag,          \* what is read from a cache that lags: {"pool", "pa", "infra"},
                       \* the last for the NLB and EIP objects
    UserEdits          \* what users do beside deleting the pool: they disable the
                       \* network of Pods, delete PAs: {"disable", "deletePA"}

ASSUME ConstantsAssumption ==
    /\ SlotsPerNLB \in Nat \ {0}
    /\ MinAvailableNLBs \in Nat
    /\ MaxGroups \in Nat \ {0}
    /\ MaxPods \in Nat
    /\ MaxFaults \in Nat
    /\ CacheLag \subseteq {"pool", "pa", "infra"}
    /\ UserEdits \subseteq {"disable", "deletePA"}

VARIABLES
    pool,        \* the NLBPool in the API server
    poolCache,   \* the informer cache of the pool
    poolSynced,  \* is the cached pool the current version?
    worker,      \* what the worker holds during a reconcile
    eip,         \* EIP objects, for each NLB
    eipCache,    \* the informer cache of the EIPs
    nlb,         \* NLB objects
    nlbCache,    \* the informer cache of the NLBs
    cloud,       \* cloud: does the NLB exist?
    pa,          \* PA objects, for each slot
    paCache,     \* the informer cache of the PAs
    collected,   \* history: NLBs whose id the pool has recorded
    faults       \* how many faults have happened

poolVars  == <<pool, poolCache, poolSynced>>
infraVars == <<eip, eipCache, nlb, nlbCache, cloud>>
paVars    == <<pa, paCache>>
vars == <<poolVars, infraVars, paVars, worker, collected, faults>>

Groups == 0..(MaxGroups - 1)
NLBs   == Groups \X Lanes
Slots  == 0..(MaxGroups * SlotsPerNLB - 1)

PoolPhases == {"", "Provisioning", "Ready", "Deleting"}
PAPhases   == {"none", "Provisioning", "Available", "Binding", "Bound",
               "Releasing", "Disabled"}

\* ids stands for status.cloudNLBIds.
PoolRecords == [finalizer : BOOLEAN, deleting : BOOLEAN, blocked : BOOLEAN,
                phase : PoolPhases, ids : SUBSET NLBs]

ASSUME NullIsNoRecord == Null \notin PoolRecords

PARecords == [phase : PAPhases, deleting : BOOLEAN]

NoPA  == [phase |-> "none", deleting |-> FALSE]
NewPA == [phase |-> "Provisioning", deleting |-> FALSE]

\* id: the status of the NLB object names the cloud NLB, which is Active.
NoNLB == [object |-> "none", id |-> FALSE]
NLBRecords == [object : {"present", "deleting"}, id : BOOLEAN] \cup {NoNLB}

Labels == {"idle", "infra", "slots", "phase",
           "collect", "deleteNLBs", "wait", "deletePAs", "verify"}

\* In service: total and desired are status.totalSlots and the NLBs per lane that
\* follow from the counters; MaxGroups leaves room for them.  In deletion: mem is the
\* in-memory pool, memOK says whether its resource version is current, and listed are
\* the NLB objects it has listed in order to delete them.
Workers == [pc : Labels, total : 0..Cardinality(Slots), desired : 0..MaxGroups,
            ready : BOOLEAN, mem : PoolRecords, memOK : BOOLEAN, listed : SUBSET NLBs]

EmptyPool == [finalizer |-> FALSE, deleting |-> FALSE, blocked |-> FALSE, phase |-> "",
              ids |-> {}]

Idle == [pc |-> "idle", total |-> 0, desired |-> 0, ready |-> TRUE,
         mem |-> EmptyPool, memOK |-> FALSE, listed |-> {}]

EIPStates == {"none", "created", "allocated", "deleting"}

TypeOK ==
    /\ pool \in PoolRecords \cup {Null}
    /\ poolCache \in PoolRecords \cup {Null}
    /\ poolSynced \in BOOLEAN
    /\ worker \in Workers
    /\ eip \in [NLBs -> EIPStates] /\ eipCache \in [NLBs -> EIPStates]
    /\ nlb \in [NLBs -> NLBRecords] /\ nlbCache \in [NLBs -> NLBRecords]
    /\ cloud \in [NLBs -> BOOLEAN]
    /\ pa \in [Slots -> PARecords]
    /\ paCache \in [Slots -> PARecords]
    /\ collected \in SUBSET NLBs
    /\ faults \in 0..MaxFaults

Init ==
    /\ \E b \in BOOLEAN : pool = [EmptyPool EXCEPT !.blocked = b]
    /\ poolCache = pool /\ poolSynced = TRUE
    /\ worker = Idle
    /\ eip = [n \in NLBs |-> "none"] /\ eipCache = eip
    /\ nlb = [n \in NLBs |-> NoNLB] /\ nlbCache = nlb
    /\ cloud = [n \in NLBs |-> FALSE]
    /\ pa = [s \in Slots |-> NoPA] /\ paCache = pa
    /\ collected = {}
    /\ faults = 0

Fault == faults < MaxFaults /\ faults' = faults + 1

\* Either nothing fails, or something does and it is a fault.
Unless(failure) == IF failure THEN Fault ELSE UNCHANGED faults

At(label) == worker.pc = label

\* A write that changes nothing keeps the resource version.
WritePool(r) ==
    /\ pool' = r
    /\ poolSynced' = (poolSynced /\ r = pool)

\* Where reads do not lag, a reconcile waits for the cache to be current.
PoolReadable == "pool" \in CacheLag \/ poolSynced
ListOfPAs    == IF "pa" \in CacheLag THEN paCache ELSE pa
ListOfEIPs   == IF "infra" \in CacheLag THEN eipCache ELSE eip
ListOfNLBs   == IF "infra" \in CacheLag THEN nlbCache ELSE nlb

SyncPool ==
    /\ ~poolSynced
    /\ poolCache' = pool
    /\ poolSynced' = TRUE
    /\ UNCHANGED <<pool, infraVars, paVars, worker, collected, faults>>

SyncPAs ==
    /\ "pa" \in CacheLag
    /\ paCache # pa
    /\ paCache' = pa
    /\ UNCHANGED <<poolVars, infraVars, pa, worker, collected, faults>>

SyncEIPs ==
    /\ "infra" \in CacheLag
    /\ eipCache # eip
    /\ eipCache' = eip
    /\ UNCHANGED <<poolVars, eip, nlb, nlbCache, cloud, paVars, worker, collected, faults>>

SyncNLBs ==
    /\ "infra" \in CacheLag
    /\ nlbCache # nlb
    /\ nlbCache' = nlb
    /\ UNCHANGED <<poolVars, eip, eipCache, nlb, cloud, paVars, worker, collected, faults>>

-----------------------------------------------------------------------------
(* Users.                                                                   *)

Edit(r) ==
    /\ WritePool(r)
    /\ worker' = [worker EXCEPT !.memOK = FALSE]
    /\ UNCHANGED <<poolCache, infraVars, paVars, collected, faults>>

\* Deleting an object without a finalizer removes it.
DeletePool ==
    /\ pool # Null
    /\ ~pool.deleting
    /\ Edit(IF pool.finalizer THEN [pool EXCEPT !.deleting = TRUE] ELSE Null)

\* The annotations are set from the start; removing them is the approval.
Unblock ==
    /\ pool # Null
    /\ pool.blocked
    /\ Edit([pool EXCEPT !.blocked = FALSE])

-----------------------------------------------------------------------------
(* The NLB and EIP operators, and the cloud.                                *)

Infra(e, n, c) ==
    /\ eip' = e /\ nlb' = n /\ cloud' = c
    /\ UNCHANGED <<poolVars, eipCache, nlbCache, paVars, worker, collected, faults>>

EIPStep(n) ==
    \/ eip[n] = "created"  /\ Infra([eip EXCEPT ![n] = "allocated"], nlb, cloud)
    \/ eip[n] = "deleting" /\ Infra([eip EXCEPT ![n] = "none"], nlb, cloud)

\* The cloud NLB is created, then its id is recorded.
NLBStep(n) ==
    /\ nlb[n].object = "present"
    /\ \/ ~cloud[n] /\ Infra(eip, nlb, [cloud EXCEPT ![n] = TRUE])
       \/ cloud[n] /\ ~nlb[n].id /\ Infra(eip, [nlb EXCEPT ![n].id = TRUE], cloud)

\* The object may be gone before the cloud NLB and its listeners are.
NLBLeaves(n) ==
    \/ nlb[n].object = "deleting" /\ Infra(eip, [nlb EXCEPT ![n] = NoNLB], cloud)
    \/ /\ nlb[n].object # "present"
       /\ cloud[n]
       /\ Infra(eip, nlb, [cloud EXCEPT ![n] = FALSE])

-----------------------------------------------------------------------------
(* The PAs, as their own controller and users move them.                    *)

NLBsOf(s) == {s \div SlotsPerNLB} \X Lanes

SlotsIn(phases) == {s \in Slots : pa[s].phase \in phases /\ ~pa[s].deleting}

Taken == SlotsIn({"Binding", "Bound", "Disabled"})

PAMove(s, from, to) ==
    /\ pa[s].phase = from
    /\ ~pa[s].deleting
    /\ pa' = [pa EXCEPT ![s].phase = to]
    /\ UNCHANGED <<poolVars, infraVars, paCache, worker, collected, faults>>

\* Steps that the PA controller takes in the end.  (It may promote a PA whose NLBs
\* are on their way out.)
PAStep(s) ==
    \/ PAMove(s, "Provisioning", "Available")
    \/ PAMove(s, "Binding", "Bound")
    \/ PAMove(s, "Releasing", "Available")

\* Steps that need a Pod or a user.
PodStep(s) ==
    \/ Cardinality(Taken) < MaxPods /\ PAMove(s, "Available", "Binding")
    \/ PAMove(s, "Bound", "Releasing")
    \/ "disable" \in UserEdits /\ PAMove(s, "Bound", "Disabled")
    \/ PAMove(s, "Disabled", "Binding")

\* A user deletes a single PA.
DeletePA(s) ==
    /\ "deletePA" \in UserEdits
    /\ pa[s].phase # "none"
    /\ ~pa[s].deleting
    /\ Fault
    /\ pa' = [pa EXCEPT ![s].deleting = TRUE]
    /\ UNCHANGED <<poolVars, infraVars, paCache, worker, collected>>

\* NLB n is there and not on its way out.
Live(n) == nlb[n].object = "present" /\ cloud[n]

\* The finalizer of a deleted PA waits for its listeners, which go one by one once
\* the NLBs are deleted.
PALeaves(s) ==
    /\ pa[s].deleting
    /\ pa[s].phase = "Provisioning" \/ \A n \in NLBsOf(s) : ~Live(n)
    /\ pa' = [pa EXCEPT ![s] = NoPA]
    /\ UNCHANGED <<poolVars, infraVars, paCache, worker, collected, faults>>

-----------------------------------------------------------------------------
(* Reconcile of a pool in service.                                          *)

\* The worker dies, or a call fails with an error that ends the reconcile.
Abort ==
    /\ ~At("idle")
    /\ Fault
    /\ worker' = Idle
    /\ UNCHANGED <<poolVars, infraVars, paVars, collected>>

Reconcile ==
    /\ At("idle")
    /\ PoolReadable
    /\ poolCache # Null

AddFinalizer ==
    /\ Reconcile
    /\ ~poolCache.deleting
    /\ ~poolCache.finalizer
    /\ poolSynced
    /\ WritePool([pool EXCEPT !.finalizer = TRUE])
    /\ UNCHANGED <<poolCache, infraVars, paVars, worker, collected, faults>>

Count(list, phase) ==
    Cardinality({s \in Slots : list[s].phase = phase /\ ~list[s].deleting})

AtLeast(m, n) == IF m < n THEN n ELSE m
CeilDiv(m, n) == (m + n - 1) \div n

\* The headroom, and the groups that the busiest moment calls for, which this instance
\* has room for.
MinFree == SlotsPerNLB * MinAvailableNLBs
EnoughGroups == AtLeast(CeilDiv(MaxPods + MinFree, SlotsPerNLB), 1)

ASSUME RoomAssumption == MaxGroups >= EnoughGroups

\* Expansion is triggered when the available slots drop below the headroom.
MutantComputeDesiredNLBs(total, available, bound) ==
    LET minFree == SlotsPerNLB * MinAvailableNLBs
        current == AtLeast(total \div SlotsPerNLB, 1)
    IN  IF available >= minFree
          THEN current
          ELSE AtLeast(CeilDiv(total + minFree, SlotsPerNLB), current)

ComputeDesiredNLBs(total, available, bound) ==
    LET minFree == SlotsPerNLB * MinAvailableNLBs
        current == AtLeast(total \div SlotsPerNLB, 1)
    IN  IF available >= minFree
          THEN current
          ELSE AtLeast(CeilDiv(bound + minFree, SlotsPerNLB), current)

\* A CAS on the status whose error is ignored.  It also writes the counters, which
\* every reconcile counts again before it reads them: rewritten says whether they
\* change.
TryStatus(phase, rewritten) ==
    IF poolSynced /\ pool # Null
      THEN /\ pool' = [pool EXCEPT !.phase = phase]
           /\ poolSynced' = (pool' = pool /\ ~rewritten)
      ELSE UNCHANGED <<pool, poolSynced>>

\* syncPoolStatus counts the PAs; the caller gets the counters whether or not the
\* CAS succeeds.
StartSizing ==
    LET total == Cardinality({s \in Slots : ListOfPAs[s].phase # "none"})
    IN  /\ Reconcile
        /\ ~poolCache.deleting
        /\ poolCache.finalizer
        /\ \E rewritten \in BOOLEAN :
             TryStatus(IF poolCache.phase = "" THEN "Provisioning" ELSE poolCache.phase, rewritten)
        /\ worker' = [Idle EXCEPT !.pc = "infra", !.total = total,
                        !.desired = ComputeDesiredNLBs(total, Count(ListOfPAs, "Available"),
                                                       Count(ListOfPAs, "Bound"))]
        /\ UNCHANGED <<poolCache, infraVars, paVars, collected, faults>>

\* ensureNLBsAndEIPs: an NLB is created once its EIP is allocated.  To create an object
\* that exists, and that the cache does not show, is not a failure.
MutantEnsureNLBsAndEIPs ==
    LET wanted == {n \in NLBs : n[1] < worker.desired}
        noEIP  == {n \in wanted : ListOfEIPs[n] = "none"}
        noNLB  == {n \in wanted : ListOfEIPs[n] = "allocated" /\ ListOfNLBs[n].object = "none"}
        ready  == \A n \in wanted : ListOfEIPs[n] = "allocated" /\ ListOfNLBs[n].id
    IN  /\ At("infra")
        /\ \E failed \in SUBSET (noEIP \cup noNLB) :
             /\ Unless(failed # {})
             /\ eip' = [n \in NLBs |-> IF n \in noEIP \ failed /\ eip[n] = "none"
                                         THEN "created" ELSE eip[n]]
             /\ nlb' = [n \in NLBs |-> IF n \in noNLB \ failed /\ nlb[n].object = "none"
                                         THEN [NoNLB EXCEPT !.object = "present"] ELSE nlb[n]]
             /\ worker' = IF failed # {} THEN Idle
                            ELSE [worker EXCEPT !.pc = "slots",
                                                !.ready = ready]
        /\ UNCHANGED <<eipCache, nlbCache, cloud, poolVars, paVars, collected>>

EnsureNLBsAndEIPs ==
    LET wanted == {n \in NLBs : n[1] < worker.desired}
        noEIP  == {n \in wanted : ListOfEIPs[n] = "none"}
        noNLB  == {n \in wanted : ListOfEIPs[n] = "allocated" /\ ListOfNLBs[n].object = "none"}
        ready  == \A n \in wanted : ListOfEIPs[n] = "allocated" /\ ListOfNLBs[n].id
    IN  /\ At("infra")
        /\ \E failed \in SUBSET (noEIP \cup noNLB) :
             /\ Unless(failed # {})
             /\ eip' = [n \in NLBs |-> IF n \in noEIP \ failed /\ eip[n] = "none"
                                         THEN "created" ELSE eip[n]]
             /\ nlb' = [n \in NLBs |-> IF n \in noNLB \ failed /\ nlb[n].object = "none"
                                         THEN [NoNLB EXCEPT !.object = "present"] ELSE nlb[n]]
             /\ worker' = IF failed # {} THEN Idle
                            ELSE [worker EXCEPT !.pc = IF ready THEN "slots" ELSE "phase",
                                                !.ready = ready]
        /\ UNCHANGED <<eipCache, nlbCache, cloud, poolVars, paVars, collected>>

\* ensureSlotResources when all slots exist: are the PAs provisioned?
CheckSlots ==
    /\ At("slots")
    /\ worker.total >= worker.desired * SlotsPerNLB
    /\ worker' = [worker EXCEPT !.pc = "phase", !.ready = Count(ListOfPAs, "Provisioning") = 0]
    /\ UNCHANGED <<poolVars, infraVars, paVars, collected, faults>>

\* Otherwise PAs are created from slot status.totalSlots on, up to a creation that
\* fails: with a fault, or because the PA exists and the cache does not show it.
MutantCreateSlots ==
    LET range   == {s \in Slots : worker.total < s /\ s < worker.desired * SlotsPerNLB}
        missing == {s \in range : ListOfPAs[s].phase = "none"}
        exists  == {s \in missing : pa[s].phase # "none"}
        before(stops) == {s \in missing : \A t \in stops : s < t}
    IN  /\ At("slots")
        /\ worker.total < worker.desired * SlotsPerNLB
        /\ \E failed \in SUBSET (missing \ exists) :
             /\ Cardinality(failed) <= 1
             /\ Unless(failed # {})
             /\ pa' = [s \in Slots |-> IF s \in before(exists \cup failed) THEN NewPA ELSE pa[s]]
             /\ worker' = IF exists \cup failed # {} THEN Idle
                            ELSE [worker EXCEPT !.pc = "phase", !.ready = FALSE]
        /\ UNCHANGED <<poolVars, infraVars, paCache, collected>>

CreateSlots ==
    LET range   == {s \in Slots : worker.total <= s /\ s < worker.desired * SlotsPerNLB}
        missing == {s \in range : ListOfPAs[s].phase = "none"}
        exists  == {s \in missing : pa[s].phase # "none"}
        before(stops) == {s \in missing : \A t \in stops : s < t}
    IN  /\ At("slots")
        /\ worker.total < worker.desired * SlotsPerNLB
        /\ \E failed \in SUBSET (missing \ exists) :
             /\ Cardinality(failed) <= 1
             /\ Unless(failed # {})
             /\ pa' = [s \in Slots |-> IF s \in before(exists \cup failed) THEN NewPA ELSE pa[s]]
             /\ worker' = IF exists \cup failed # {} THEN Idle
                            ELSE [worker EXCEPT !.pc = "phase", !.ready = FALSE]
        /\ UNCHANGED <<poolVars, infraVars, paCache, collected>>

\* updatePhase, and a last syncPoolStatus.
UpdatePhase ==
    /\ At("phase")
    /\ PoolReadable
    /\ \E rewritten \in BOOLEAN :
         TryStatus(IF worker.ready THEN "Ready" ELSE "Provisioning", rewritten)
    /\ worker' = Idle
    /\ UNCHANGED <<poolCache, infraVars, paVars, collected, faults>>

-----------------------------------------------------------------------------
(* Reconcile of a deleted pool.                                             *)

\* Behind the safety gates, the phase is set by a CAS.
MutantStartDeletion ==
    /\ Reconcile
    /\ poolCache.deleting
    /\ poolCache.finalizer
    /\ poolSynced
    /\ WritePool([pool EXCEPT !.phase = "Deleting"])
    /\ worker' = [Idle EXCEPT !.pc = "collect", !.mem = pool', !.memOK = TRUE]
    /\ UNCHANGED <<poolCache, infraVars, paVars, collected, faults>>

StartDeletion ==
    /\ Reconcile
    /\ poolCache.deleting
    /\ poolCache.finalizer
    /\ ~poolCache.blocked
    /\ poolCache.phase = "Deleting" \/ poolSynced
    /\ LET r == [poolCache EXCEPT !.phase = "Deleting"]
       IN  /\ IF poolSynced THEN WritePool(r) ELSE UNCHANGED <<pool, poolSynced>>
           /\ worker' = [Idle EXCEPT !.pc = "collect", !.mem = r, !.memOK = poolSynced]
    /\ UNCHANGED <<poolCache, infraVars, paVars, collected, faults>>

\* deleteInfrastructure deletes the EIPs and, unless ids were recorded before,
\* records the ids of the cloud NLBs by a CAS.
CollectIds ==
    LET listed == {n \in NLBs : ListOfNLBs[n].object = "present"}
        ids    == {n \in NLBs : ListOfNLBs[n].id}
        r      == [worker.mem EXCEPT !.ids = ids]
        next   == [worker EXCEPT !.pc = "deleteNLBs", !.listed = listed]
    IN  /\ At("collect")
        /\ eip' = [n \in NLBs |-> IF ListOfEIPs[n] # "none" /\ eip[n] # "none"
                                    THEN "deleting" ELSE eip[n]]
        /\ IF worker.mem.ids # {} \/ ids = {}
             THEN /\ worker' = next
                  /\ UNCHANGED <<pool, poolSynced, collected>>
             ELSE IF worker.memOK
               THEN /\ WritePool(r)
                    /\ worker' = [next EXCEPT !.mem = r]
                    /\ collected' = collected \cup ids
               ELSE /\ worker' = Idle
                    /\ UNCHANGED <<pool, poolSynced, collected>>
        /\ UNCHANGED <<poolCache, eipCache, nlb, nlbCache, cloud, paVars, faults>>

\* deleteInfrastructure goes on to delete the NLB objects that it has listed.
DeleteNLBs ==
    /\ At("deleteNLBs")
    /\ \E failed \in SUBSET worker.listed :
         /\ Unless(failed # {})
         /\ nlb' = [n \in NLBs |-> IF n \in worker.listed \ failed /\ nlb[n].object = "present"
                                     THEN [nlb[n] EXCEPT !.object = "deleting"] ELSE nlb[n]]
         /\ worker' = IF failed # {} THEN Idle ELSE [worker EXCEPT !.pc = "wait", !.listed = {}]
    /\ UNCHANGED <<eip, eipCache, nlbCache, cloud, poolVars, paVars, collected>>

\* hasCloudNLBs: are the recorded NLBs gone?  If so, their ids are dropped by an
\* update whose error is ignored.
MutantWaitForCloud ==
    /\ At("wait")
    /\ worker' = [worker EXCEPT !.pc = "deletePAs"]
    /\ UNCHANGED <<poolVars, infraVars, paVars, collected, faults>>

MutantWaitForIds ==
    LET r == [worker.mem EXCEPT !.ids = {}]
    IN  /\ At("wait")
        /\ IF worker.mem.ids # {}
             THEN worker' = Idle /\ UNCHANGED <<pool, poolSynced>>
             ELSE /\ worker' = [worker EXCEPT !.pc = "deletePAs", !.mem = r]
                  /\ IF worker.memOK THEN WritePool(r) ELSE UNCHANGED <<pool, poolSynced>>
        /\ UNCHANGED <<poolCache, infraVars, paVars, collected, faults>>

WaitForCloud ==
    LET r == [worker.mem EXCEPT !.ids = {}]
    IN  /\ At("wait")
        /\ IF \E n \in worker.mem.ids : cloud[n]
             THEN worker' = Idle /\ UNCHANGED <<pool, poolSynced>>
             ELSE /\ worker' = [worker EXCEPT !.pc = "deletePAs", !.mem = r]
                  /\ IF worker.memOK THEN WritePool(r) ELSE UNCHANGED <<pool, poolSynced>>
        /\ UNCHANGED <<poolCache, infraVars, paVars, collected, faults>>

\* deletePortAllocations.
DeletePAs ==
    LET listed == {s \in Slots : ListOfPAs[s].phase # "none" /\ ~ListOfPAs[s].deleting}
    IN  /\ At("deletePAs")
        /\ \E failed \in SUBSET listed :
             /\ Unless(failed # {})
             /\ pa' = [s \in Slots |-> IF s \in listed \ failed /\ pa[s].phase # "none"
                                         THEN [pa[s] EXCEPT !.deleting = TRUE] ELSE pa[s]]
             /\ worker' = IF failed # {} THEN Idle ELSE [worker EXCEPT !.pc = "verify"]
        /\ UNCHANGED <<poolVars, infraVars, paCache, collected>>

\* hasPortAllocations, hasChildResources, and the CAS that removes the finalizer.
HasPortAllocations == \E s \in Slots : ListOfPAs[s].phase # "none"
HasChildResources  ==
    \E n \in NLBs : ListOfNLBs[n].object # "none" \/ ListOfEIPs[n] # "none"

MutantRemoveFinalizer ==
    /\ At("verify")
    /\ worker' = Idle
    /\ IF ~HasPortAllocations /\ worker.memOK
         THEN WritePool(Null)
         ELSE UNCHANGED <<pool, poolSynced>>
    /\ UNCHANGED <<poolCache, infraVars, paVars, collected, faults>>

RemoveFinalizer ==
    /\ At("verify")
    /\ worker' = Idle
    /\ IF ~HasPortAllocations /\ ~HasChildResources /\ worker.memOK
         THEN WritePool(Null)
         ELSE UNCHANGED <<pool, poolSynced>>
    /\ UNCHANGED <<poolCache, infraVars, paVars, collected, faults>>

-----------------------------------------------------------------------------

WorkerStep ==
    \/ AddFinalizer \/ StartSizing \/ EnsureNLBsAndEIPs \/ CheckSlots \/ CreateSlots
    \/ UpdatePhase
    \/ StartDeletion \/ CollectIds \/ DeleteNLBs \/ WaitForCloud \/ DeletePAs
    \/ RemoveFinalizer

\* What the PA controller owes (see PASlot): it promotes a PA whose NLBs stay, and lets
\* go of one that is deleted once its NLBs are gone.
PAOwes(s) ==
    \/ PAStep(s) /\ (pa[s].phase = "Provisioning" => \A n \in NLBsOf(s) : Live(n))
    \/ PALeaves(s) /\ \A n \in NLBsOf(s) : ~cloud[n]

Next ==
    \/ WorkerStep \/ Abort \/ SyncPool \/ SyncPAs \/ SyncEIPs \/ SyncNLBs
    \/ DeletePool \/ Unblock
    \/ \E n \in NLBs : EIPStep(n) \/ NLBStep(n) \/ NLBLeaves(n)
    \/ \E s \in Slots : PAStep(s) \/ PodStep(s) \/ DeletePA(s) \/ PALeaves(s)

Spec == Init /\ [][Next]_vars

\* The pool is requeued for ever, the informers catch up, the NLB and EIP
\* operators and the PA controller finish what they have begun.  Users, Pods and
\* faults owe nothing.
Fairness ==
    /\ WF_vars(WorkerStep)
    /\ WF_vars(SyncPool)
    /\ WF_vars(SyncPAs)
    /\ WF_vars(SyncEIPs) /\ WF_vars(SyncNLBs)
    /\ WF_vars(\E n \in NLBs : EIPStep(n) \/ NLBStep(n) \/ NLBLeaves(n))
    /\ \A s \in Slots : WF_vars(PAOwes(s))

FairSpec == Spec /\ Fairness

-----------------------------------------------------------------------------
(* Safety.                                                                  *)

\* The pool never has more NLB groups than its busiest moment calls for: counters
\* that are behind, and PAs that are still being provisioned, do not make it grow
\* again and again.
NoOverExpansion ==
    \A n \in NLBs : eip[n] # "none" \/ nlb[n].object # "none" =>
        n[1] < EnoughGroups

\* "PAs must NOT be deleted while the cloud cascade is incomplete": as long as an
\* NLB whose id the pool has recorded exists in the cloud, no PA is deleted.  (An NLB
\* without a recorded id is not waited for.)
PAsOutliveCollected ==
    [][(\E s \in Slots : pa'[s].deleting /\ ~pa[s].deleting) =>
          \A n \in collected : ~cloud[n]]_vars

\* Nothing is torn down as long as the pool is in service, or its deletion is
\* blocked by an annotation.
ApprovedFirst ==
    pool # Null /\ (~pool.deleting \/ pool.blocked) =>
        /\ \A n \in NLBs : eip[n] # "deleting" /\ nlb[n].object # "deleting"
        /\ \A s \in Slots : ~pa[s].deleting

\* The finalizer goes last: no infrastructure object outlives the pool.  (Where the
\* cached lists of NLBs and EIPs lag, the worker may overlook one that it has just
\* created.)
PoolGoneLast ==
    pool = Null => \A n \in NLBs : eip[n] = "none" /\ nlb[n].object = "none"

-----------------------------------------------------------------------------
(* Refinement.                                                              *)

Slot(s) == INSTANCE PASlot WITH
    slot     <- IF pa[s].phase = "none" THEN "none"
                ELSE IF pa[s].phase = "Provisioning" THEN "new" ELSE "serving",
    deleting <- pa[s].deleting,
    live     <- {l \in Lanes : Live(<<s \div SlotsPerNLB, l>>)}

\* The pool creates a PA only on NLBs that are live, in every lane, and replaces none
\* of them under a PA, however old the pool it reads and whatever users delete.
SlotsKeepPromise ==
    /\ \A s \in Slots : Slot(s)!Init
    /\ [][\A s \in Slots : [Slot(s)!Next]_(Slot(s)!vars)]_vars

-----------------------------------------------------------------------------
(* Liveness, under FairSpec.                                                *)

InService == pool # Null /\ ~pool.deleting

\* A slot whose PA a user has deleted: the next ones are numbered from the number of
\* PAs upwards, so that nobody fills it.
Hole ==
    \E s \in Slots :
        \/ pa[s].deleting
        \/ pa[s].phase = "none" /\ (\E t \in Slots : t > s /\ pa[t].phase # "none")

\* What computeDesiredNLBs achieves, which counts the Bound PAs but not the Disabled
\* ones: the slots that are Available or Disabled make up the headroom.
Headroom == Cardinality(SlotsIn({"Available", "Disabled"})) >= MinFree

\* A pool does what it is there for, again and again: "when available slots fall
\* below minAvailableNLBs * slotsPerNLB, new NLB groups are created" (unless the
\* slots that are missing are disabled or holes), and once it is deleted and not
\* blocked it goes away, whatever it was doing and whatever failed.
ServesOrLeaves ==
    []<>(IF InService THEN Headroom \/ Hole ELSE pool = Null \/ pool.blocked)
=============================================================================
