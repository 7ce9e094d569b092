---------------------------- MODULE NLBPoolProofs ----------------------------
(***************************************************************************)
(* What a pool promises about its size, its deletion and its slots.         *)
(*                                                                          *)
(* Type correctness and the bound on the size belong together: the number   *)
(* of groups that the worker computes has a type only because it has a      *)
(* bound, and it has a bound because the PAs it counts were created in the  *)
(* slots of earlier numbers, whichever moment the list of PAs is from.      *)
(*                                                                          *)
(* The invariant of the rest has three parts, each resting on the ones      *)
(* before it:                                                               *)
(*  - the flags of the pool, which only ever go one way, so that a worker   *)
(*    which acts on an old pool acts on flags that still hold;              *)
(*  - the infrastructure, which nobody takes down while some worker may     *)
(*    size the pool, and on which every PA therefore finds its NLBs; an NLB *)
(*    that was listed with its id, at whatever moment, has it still;        *)
(*  - the NLBs whose ids were recorded, which stay recorded until they are  *)
(*    gone from the cloud.                                                  *)
(* That the finalizer goes last needs, besides, lists of NLBs and EIPs that *)
(* are current.                                                             *)
(***************************************************************************)
EXTENDS NLBPool, FiniteSetTheorems, TLAPS

-----------------------------------------------------------------------------
(* Types, and the size of the pool.                                          *)

\* What is listed fits into the groups that are enough, and Pods take as many PAs as
\* they ever do at the same time.
TakenIn(list) ==
    {s \in Slots : list[s].phase \in {"Binding", "Bound", "Disabled"} /\ ~list[s].deleting}

InRoom(list) ==
    /\ \A s \in Slots : list[s].phase # "none" => s < EnoughGroups * SlotsPerNLB
    /\ Cardinality(TakenIn(list)) <= MaxPods

\* A synced cache shows the pool there is.
SyncInv == poolSynced => poolCache = pool

\* The invariant, by the variables it is about.
PoolPart ==
    /\ pool \in PoolRecords \cup {Null}
    /\ poolCache \in PoolRecords \cup {Null}
    /\ poolSynced \in BOOLEAN
    /\ SyncInv

WorkerPart == worker \in Workers /\ worker.desired <= EnoughGroups

InfraPart ==
    /\ eip \in [NLBs -> EIPStates] /\ eipCache \in [NLBs -> EIPStates]
    /\ nlb \in [NLBs -> NLBRecords] /\ nlbCache \in [NLBs -> NLBRecords]
    /\ cloud \in [NLBs -> BOOLEAN]
    /\ NoOverExpansion

PAPart ==
    /\ pa \in [Slots -> PARecords] /\ InRoom(pa)
    /\ paCache \in [Slots -> PARecords] /\ InRoom(paCache)

HistoryPart == collected \in SUBSET NLBs /\ faults \in 0..MaxFaults

BaseInv == PoolPart /\ WorkerPart /\ InfraPart /\ PAPart /\ HistoryPart

-----------------------------------------------------------------------------
(* Arithmetic and cardinalities.                                            *)

\* What a quotient bounds, and what bounds it.
LEMMA Quotient ==
  ASSUME NEW a \in Nat, NEW d \in Nat \ {0}
  PROVE  /\ a \div d \in Nat
         /\ \A q \in Nat : a < (q + 1) * d => a \div d <= q
         /\ \A q \in Nat : q * d <= a => q <= a \div d
<1> DEFINE q == a \div d
           m == a % d
<1>1. q \in Int /\ m \in 0..(d - 1) /\ a = q * d + m
  OBVIOUS
<1> HIDE DEF q, m
<1>2. q >= 0
  BY <1>1
<1>3. ASSUME NEW p \in Nat, a < (p + 1) * d PROVE q <= p
  <2> SUFFICES ASSUME q >= p + 1 PROVE FALSE
    BY <1>1
  <2>1. q * d >= (p + 1) * d
    BY <1>1
  <2> QED
    BY <1>1, <1>3, <2>1
<1>4. ASSUME NEW p \in Nat, p * d <= a PROVE p <= q
  <2> SUFFICES ASSUME p >= q + 1 PROVE FALSE
    BY <1>1
  <2>1. p * d >= (q + 1) * d
    BY <1>1, <1>2
  <2> QED
    BY <1>1, <1>4, <2>1
<1> QED
  BY <1>1, <1>2, <1>3, <1>4 DEF q

\* A larger dividend has a quotient that is no smaller.
LEMMA QuotientMonotone ==
  ASSUME NEW a \in Nat, NEW b \in Nat, NEW d \in Nat \ {0}, a <= b
  PROVE  a \div d <= b \div d
<1> DEFINE q == b \div d
           m == b % d
<1>1. q \in Nat /\ m \in 0..(d - 1) /\ b = q * d + m
  BY Quotient
<1> HIDE DEF q, m
<1>2. a < (q + 1) * d
  BY <1>1
<1> QED
  BY <1>1, <1>2, Quotient DEF q

\* What the constants are.
LEMMA Constants ==
  /\ SlotsPerNLB \in Nat \ {0} /\ MaxGroups \in Nat \ {0} /\ MaxPods \in Nat
  /\ MinFree \in Nat
  /\ EnoughGroups \in Nat \ {0} /\ EnoughGroups <= MaxGroups
  /\ EnoughGroups * SlotsPerNLB \in Nat
<1>1. SlotsPerNLB \in Nat \ {0} /\ MaxGroups \in Nat \ {0} /\ MaxPods \in Nat
      /\ MinAvailableNLBs \in Nat
  BY ConstantsAssumption
<1>2. MinFree \in Nat
  BY <1>1 DEF MinFree
<1>3. (MaxPods + MinFree + SlotsPerNLB - 1) \div SlotsPerNLB \in Nat
  BY <1>1, <1>2, Quotient
<1>4. EnoughGroups \in Nat \ {0}
  BY <1>3 DEF EnoughGroups, AtLeast, CeilDiv
<1> QED
  BY <1>1, <1>2, <1>4, RoomAssumption

\* Sets of slots are finite and no larger than the set of all slots.
LEMMA SlotSets ==
  ASSUME NEW T \in SUBSET Slots
  PROVE  IsFiniteSet(T) /\ Cardinality(T) \in 0..Cardinality(Slots)
<1>1. IsFiniteSet(Slots)
  BY Constants, FS_Interval DEF Slots
<1> QED
  BY <1>1, FS_Subset, FS_CardinalityType

\* The PAs that are listed are no more than the slots in the groups that are enough.
LEMMA ListedBound ==
  ASSUME NEW list, InRoom(list)
  PROVE  Cardinality({s \in Slots : list[s].phase # "none"}) <= EnoughGroups * SlotsPerNLB
<1> DEFINE T == {s \in Slots : list[s].phase # "none"}
           n == EnoughGroups * SlotsPerNLB
<1>1. n \in Nat
  BY Constants
<1>2. T \subseteq 0..(n - 1)
  BY Constants DEF InRoom, Slots
<1> HIDE DEF n, T
<1>3. IsFiniteSet(0..(n - 1)) /\ Cardinality(0..(n - 1)) = n
  BY <1>1, FS_Interval
<1>4. Cardinality(T) <= n
  BY <1>2, <1>3, FS_Subset
<1> QED
  BY <1>4 DEF n, T

\* No list of PAs, however old, shows more PAs Bound than there can be Pods.
LEMMA BoundBound ==
  ASSUME NEW list, InRoom(list)
  PROVE  Count(list, "Bound") <= MaxPods
<1> DEFINE T == {s \in Slots : list[s].phase = "Bound" /\ ~list[s].deleting}
<1>1. IsFiniteSet(TakenIn(list)) /\ T \subseteq TakenIn(list)
  BY SlotSets DEF TakenIn
<1>2. /\ Cardinality(T) \in Nat /\ Cardinality(TakenIn(list)) \in Nat
      /\ Cardinality(T) <= Cardinality(TakenIn(list))
  BY <1>1, FS_Subset, FS_CardinalityType
<1> QED
  BY <1>2, Constants DEF InRoom, Count

\* The pool wants no more groups than are enough.
LEMMA DesiredBound ==
  ASSUME NEW total \in Nat, NEW available, NEW bound \in Nat,
         total <= EnoughGroups * SlotsPerNLB, bound <= MaxPods
  PROVE  ComputeDesiredNLBs(total, available, bound) \in 0..EnoughGroups
<1> DEFINE current == AtLeast(total \div SlotsPerNLB, 1)
           wanted == CeilDiv(bound + MinFree, SlotsPerNLB)
<1>1. current \in 0..EnoughGroups
  <2>1. total < (EnoughGroups + 1) * SlotsPerNLB
    BY Constants
  <2>2. total \div SlotsPerNLB \in Nat /\ total \div SlotsPerNLB <= EnoughGroups
    BY <2>1, Constants, Quotient
  <2> QED
    BY <2>2, Constants DEF AtLeast
<1>2. wanted \in 0..EnoughGroups
  <2> DEFINE a == bound + MinFree + SlotsPerNLB - 1
             b == MaxPods + MinFree + SlotsPerNLB - 1
  <2>1. a \in Nat /\ b \in Nat /\ a <= b
    BY Constants
  <2>2. a \div SlotsPerNLB \in Nat /\ b \div SlotsPerNLB \in Nat
        /\ a \div SlotsPerNLB <= b \div SlotsPerNLB
    BY <2>1, Constants, Quotient, QuotientMonotone
  <2>3. wanted = a \div SlotsPerNLB
    BY DEF CeilDiv
  <2>4. b \div SlotsPerNLB <= EnoughGroups
    BY <2>2 DEF EnoughGroups, CeilDiv, AtLeast
  <2> HIDE DEF a, b, wanted
  <2> QED
    BY <2>2, <2>3, <2>4, Constants
<1> HIDE DEF current, wanted
<1>3. ComputeDesiredNLBs(total, available, bound) \in {current, AtLeast(wanted, current)}
  BY DEF ComputeDesiredNLBs, current, wanted, MinFree
<1> QED
  BY <1>1, <1>2, <1>3 DEF AtLeast

-----------------------------------------------------------------------------
(* The parts of the invariant.                                              *)

\* Steps that leave the pool and its cache alone.
LEMMA KeepPool == PoolPart /\ UNCHANGED poolVars => PoolPart'
BY DEF PoolPart, SyncInv, poolVars

\* Steps that leave the NLBs, the EIPs and the cloud alone.
LEMMA KeepInfra == InfraPart /\ UNCHANGED infraVars => InfraPart'
BY DEF InfraPart, NoOverExpansion, infraVars

\* Steps that leave the PAs and their cache alone.
LEMMA KeepPAs == PAPart /\ UNCHANGED paVars => PAPart'
BY DEF PAPart, paVars

\* Steps that leave the worker alone.
LEMMA KeepWorker == WorkerPart /\ UNCHANGED worker => WorkerPart'
BY DEF WorkerPart

\* Steps that leave the collected ids and the count of faults alone.
LEMMA KeepHistory == HistoryPart /\ UNCHANGED <<collected, faults>> => HistoryPart'
BY DEF HistoryPart

\* A fault is counted.
LEMMA FaultHistory == HistoryPart /\ UNCHANGED collected /\ Fault => HistoryPart'
BY ConstantsAssumption DEF HistoryPart, Fault

\* A write to the pool makes a cache that shows something else out of date.
LEMMA WritePart ==
  ASSUME PoolPart, NEW r \in PoolRecords \cup {Null}, WritePool(r), UNCHANGED poolCache
  PROVE  PoolPart'
BY DEF PoolPart, SyncInv, WritePool

\* A status update, whether it succeeds, conflicts or fails, keeps the pool typed.
LEMMA StatusPart ==
  ASSUME PoolPart, NEW phase \in PoolPhases, NEW rewritten \in BOOLEAN,
         TryStatus(phase, rewritten), UNCHANGED poolCache
  PROVE  PoolPart'
<1>1. CASE poolSynced /\ pool # Null
  <2>1. pool' \in PoolRecords
    BY <1>1 DEF TryStatus, PoolPart, PoolRecords
  <2> QED
    BY <1>1, <2>1 DEF TryStatus, PoolPart, SyncInv
<1>2. CASE ~(poolSynced /\ pool # Null)
  BY <1>2 DEF TryStatus, PoolPart, SyncInv
<1> QED
  BY <1>1, <1>2

\* Where the worker may go.
LEMMA IdleWorker == Idle \in Workers /\ Idle.desired <= EnoughGroups
<1>1. EmptyPool \in PoolRecords
  BY DEF EmptyPool, PoolRecords, PoolPhases
<1>2. 0 \in 0..Cardinality(Slots) /\ 0 \in 0..MaxGroups /\ 0 <= EnoughGroups
  BY Constants, SlotSets
<1> QED
  BY <1>1, <1>2 DEF Idle, Workers, Labels

\* The ways in which a worker moves on.
LEMMA MovedWorker ==
  ASSUME WorkerPart, NEW label \in Labels, NEW b \in BOOLEAN, NEW r \in PoolRecords,
         \/ worker' = Idle
         \/ worker' = [worker EXCEPT !.pc = label]
         \/ worker' = [worker EXCEPT !.memOK = b]
         \/ worker' = [worker EXCEPT !.pc = label, !.ready = b]
         \/ worker' = [worker EXCEPT !.pc = label, !.mem = r]
  PROVE  WorkerPart'
<1>1. CASE worker' = Idle
  BY <1>1, IdleWorker DEF WorkerPart
<1>2. ASSUME worker' # Idle PROVE worker' \in Workers
  BY <1>2, Zenon DEF WorkerPart, Workers
<1>3. ASSUME worker' # Idle PROVE worker'.desired = worker.desired
  BY <1>3, Zenon DEF WorkerPart, Workers
<1> QED
  BY <1>1, <1>2, <1>3 DEF WorkerPart

LEMMA ListingWorker ==
  ASSUME WorkerPart, NEW label \in Labels, NEW r \in PoolRecords, NEW list \in SUBSET NLBs,
         \/ worker' = [worker EXCEPT !.pc = label, !.listed = list]
         \/ worker' = [worker EXCEPT !.pc = label, !.listed = list, !.mem = r]
  PROVE  WorkerPart'
<1>1. worker' \in Workers
  BY Zenon DEF WorkerPart, Workers
<1>2. worker'.desired = worker.desired
  BY Zenon DEF WorkerPart, Workers
<1> QED
  BY <1>1, <1>2 DEF WorkerPart

\* The lists, from whichever moment.
LEMMA ListedInfra ==
  InfraPart => ListOfEIPs \in [NLBs -> EIPStates] /\ ListOfNLBs \in [NLBs -> NLBRecords]
BY DEF InfraPart, ListOfEIPs, ListOfNLBs

LEMMA Listed == PAPart => ListOfPAs \in [Slots -> PARecords] /\ InRoom(ListOfPAs)
BY DEF PAPart, ListOfPAs

\* No PA is taken, and none is created beyond the groups that are enough.
LEMMA RoomStays ==
  ASSUME PAPart, UNCHANGED paCache, pa' \in [Slots -> PARecords],
         TakenIn(pa') \subseteq TakenIn(pa),
         \A s \in Slots : pa'[s].phase # "none" =>
            pa[s].phase # "none" \/ s < EnoughGroups * SlotsPerNLB
  PROVE  PAPart'
<1>1. IsFiniteSet(TakenIn(pa)) /\ Cardinality(TakenIn(pa)) \in Nat
  BY SlotSets, FS_CardinalityType DEF TakenIn
<1>2. Cardinality(TakenIn(pa')) <= Cardinality(TakenIn(pa)) /\ Cardinality(TakenIn(pa')) \in Nat
  BY <1>1, FS_Subset, FS_CardinalityType
<1>3. InRoom(pa')
  BY <1>1, <1>2, Constants DEF PAPart, InRoom
<1> QED
  BY <1>3 DEF PAPart

-----------------------------------------------------------------------------
(* The initial states, and steps of everyone but the worker.                *)

\* The initial states.
LEMMA InitBase == Init => BaseInv
<1> SUFFICES ASSUME Init PROVE BaseInv
  OBVIOUS
<1>1. PoolPart
  BY DEF Init, PoolPart, SyncInv, EmptyPool, PoolRecords, PoolPhases
<1>2. WorkerPart
  BY IdleWorker DEF Init, WorkerPart
<1>3. InfraPart
  BY DEF Init, InfraPart, NoOverExpansion, EIPStates, NLBRecords, NoNLB
<1>4. PAPart
  <2>1. pa \in [Slots -> PARecords] /\ TakenIn(pa) = {} /\ paCache = pa
        /\ \A s \in Slots : pa[s].phase = "none"
    BY DEF Init, NoPA, PARecords, PAPhases, TakenIn
  <2>2. Cardinality({}) = 0
    BY FS_EmptySet
  <2> QED
    BY <2>1, <2>2, Constants DEF PAPart, InRoom
<1>5. HistoryPart
  BY ConstantsAssumption DEF Init, HistoryPart
<1> QED
  BY <1>1, <1>2, <1>3, <1>4, <1>5 DEF BaseInv

\* Users edit the pool; the informers catch up.
LEMMA EditBase ==
  ASSUME BaseInv, DeletePool \/ Unblock \/ SyncPool \/ SyncPAs \/ SyncEIPs \/ SyncNLBs
  PROVE  BaseInv'
<1>1. CASE DeletePool \/ Unblock
  <2>1. pool \in PoolRecords
    BY <1>1 DEF DeletePool, Unblock, BaseInv, PoolPart
  <2>2. PICK r \in PoolRecords \cup {Null} : Edit(r)
    <3>1. [pool EXCEPT !.deleting = TRUE] \in PoolRecords
      BY <2>1 DEF PoolRecords
    <3>2. [pool EXCEPT !.blocked = FALSE] \in PoolRecords
      BY <2>1 DEF PoolRecords
    <3> QED
      BY <1>1, <3>1, <3>2 DEF DeletePool, Unblock
  <2>3. PoolPart'
    BY <2>2, WritePart DEF Edit, BaseInv
  <2>4. WorkerPart'
    BY <2>1, <2>2, MovedWorker DEF Edit, BaseInv, Labels
  <2> QED
    BY <2>2, <2>3, <2>4, KeepInfra, KeepPAs, KeepHistory DEF Edit, BaseInv
<1>2. CASE SyncPool
  <2>1. PoolPart'
    BY <1>2 DEF SyncPool, BaseInv, PoolPart, SyncInv
  <2> QED
    BY <1>2, <2>1, KeepInfra, KeepPAs, KeepWorker, KeepHistory DEF SyncPool, BaseInv
<1>3. CASE SyncPAs
  <2>1. PAPart'
    BY <1>3 DEF SyncPAs, BaseInv, PAPart
  <2> QED
    BY <1>3, <2>1, KeepPool, KeepInfra, KeepWorker, KeepHistory DEF SyncPAs, BaseInv
<1>4. CASE SyncEIPs \/ SyncNLBs
  <2>1. InfraPart'
    BY <1>4 DEF SyncEIPs, SyncNLBs, BaseInv, InfraPart, NoOverExpansion
  <2> QED
    BY <1>4, <2>1, KeepPool, KeepPAs, KeepWorker, KeepHistory DEF SyncEIPs, SyncNLBs, BaseInv
<1> QED
  BY <1>1, <1>2, <1>3, <1>4

\* The operators move objects that are there.
LEMMA InfraBase ==
  ASSUME BaseInv, NEW n \in NLBs, EIPStep(n) \/ NLBStep(n) \/ NLBLeaves(n)
  PROVE  BaseInv'
<1>1. PICK e, o, c : Infra(e, o, c)
  BY DEF EIPStep, NLBStep, NLBLeaves
<1>2. /\ eip \in [NLBs -> EIPStates]
      /\ nlb \in [NLBs -> NLBRecords] /\ cloud \in [NLBs -> BOOLEAN]
      /\ NoOverExpansion
      /\ eipCache' \in [NLBs -> EIPStates] /\ nlbCache' \in [NLBs -> NLBRecords]
  BY <1>1 DEF BaseInv, InfraPart, Infra
<1>3. InfraPart'
  <2>1. CASE EIPStep(n)
    BY <1>2, <2>1 DEF EIPStep, Infra, InfraPart, EIPStates, NoOverExpansion
  <2>2. CASE UNCHANGED <<eip, nlb>> /\ \E b \in BOOLEAN : cloud' = [cloud EXCEPT ![n] = b]
    BY <1>2, <2>2 DEF InfraPart, NoOverExpansion
  <2>3. CASE UNCHANGED <<eip, cloud>> /\ nlb' = [nlb EXCEPT ![n] = NoNLB]
    <3>1. NoNLB \in NLBRecords /\ NoNLB.object = "none"
      BY DEF NLBRecords, NoNLB
    <3> QED
      BY <1>2, <2>3, <3>1 DEF InfraPart, NoOverExpansion
  <2>4. CASE /\ UNCHANGED <<eip, cloud>> /\ nlb[n].object = "present"
             /\ nlb' = [nlb EXCEPT ![n].id = TRUE]
    <3> DEFINE r == [nlb[n] EXCEPT !.id = TRUE]
    <3>1. nlb[n] \in [object : {"present", "deleting"}, id : BOOLEAN]
      BY <1>2, <2>4 DEF NLBRecords, NoNLB
    <3>2. r \in NLBRecords /\ r.object = "present"
      BY <2>4, <3>1 DEF NLBRecords
    <3>3. nlb' = [nlb EXCEPT ![n] = r]
      BY <2>4
    <3> HIDE DEF r
    <3> QED
      BY <1>2, <2>4, <3>2, <3>3 DEF InfraPart, NoOverExpansion
  <2> QED
    BY <2>1, <2>2, <2>3, <2>4 DEF EIPStep, NLBStep, NLBLeaves, Infra
<1> QED
  BY <1>1, <1>3, KeepPool, KeepPAs, KeepWorker, KeepHistory DEF Infra, BaseInv

\* The PAs come and go.
LEMMA PAMoveRoom ==
  ASSUME PAPart, NEW s \in Slots, NEW from \in PAPhases \ {"none"}, NEW to \in PAPhases,
         PAMove(s, from, to),
         to \in {"Binding", "Bound", "Disabled"} =>
            \/ from \in {"Binding", "Bound", "Disabled"}
            \/ Cardinality(Taken) < MaxPods
  PROVE  PAPart'
<1>1. pa \in [Slots -> PARecords] /\ pa[s] \in PARecords /\ UNCHANGED paCache
  BY DEF PAMove, PAPart
<1> DEFINE e == [pa[s] EXCEPT !.phase = to]
<1>2. e \in PARecords /\ e.phase = to
  BY <1>1 DEF PARecords
<1>3. pa' = [pa EXCEPT ![s] = e] /\ pa[s].phase = from /\ ~pa[s].deleting
  BY DEF PAMove
<1> HIDE DEF e
<1>4. pa' \in [Slots -> PARecords] /\ \A t \in Slots : pa'[t] = IF t = s THEN e ELSE pa[t]
  BY <1>1, <1>2, <1>3
<1>5. \A t \in Slots : pa'[t].phase # "none" => pa[t].phase # "none"
  BY <1>2, <1>3, <1>4
<1>6. CASE to \in {"Binding", "Bound", "Disabled"} => from \in {"Binding", "Bound", "Disabled"}
  <2>1. TakenIn(pa') \subseteq TakenIn(pa)
    BY <1>2, <1>3, <1>4, <1>6 DEF TakenIn
  <2> QED
    BY <1>1, <1>4, <1>5, <2>1, RoomStays
<1>7. CASE Cardinality(Taken) < MaxPods
  <2>1. Taken = TakenIn(pa)
    BY DEF Taken, SlotsIn, TakenIn
  <2>2. IsFiniteSet(TakenIn(pa)) /\ Cardinality(TakenIn(pa)) \in Nat
    BY SlotSets, FS_CardinalityType DEF TakenIn
  <2>3. /\ IsFiniteSet(TakenIn(pa) \cup {s})
        /\ Cardinality(TakenIn(pa) \cup {s}) <= Cardinality(TakenIn(pa)) + 1
        /\ Cardinality(TakenIn(pa) \cup {s}) \in Nat
    <3> DEFINE T == TakenIn(pa)
    <3> HIDE DEF T
    <3>1. IsFiniteSet(T) /\ Cardinality(T) \in Nat
      BY <2>2 DEF T
    <3>2. IsFiniteSet(T \cup {s})
      BY <3>1, FS_AddElement
    <3>3. Cardinality(T \cup {s}) = IF s \in T THEN Cardinality(T) ELSE Cardinality(T) + 1
      BY <3>1, FS_AddElement
    <3> QED
      BY <3>1, <3>2, <3>3, FS_CardinalityType DEF T
  <2>4. TakenIn(pa') \subseteq TakenIn(pa) \cup {s}
    BY <1>4 DEF TakenIn
  <2>5. /\ Cardinality(TakenIn(pa')) <= Cardinality(TakenIn(pa) \cup {s})
        /\ Cardinality(TakenIn(pa')) \in Nat
    BY <2>3, <2>4, FS_Subset, FS_CardinalityType
  <2>6. Cardinality(TakenIn(pa')) <= MaxPods
    BY <1>7, <2>1, <2>2, <2>3, <2>5, Constants
  <2> QED
    BY <1>1, <1>4, <1>5, <2>6 DEF PAPart, InRoom
<1> QED
  BY <1>6, <1>7

\* The steps of a PA, of its Pods and of users that delete it.
LEMMA PABase ==
  ASSUME BaseInv, NEW s \in Slots, PAStep(s) \/ PodStep(s) \/ DeletePA(s) \/ PALeaves(s)
  PROVE  BaseInv'
<1>1. UNCHANGED <<poolVars, infraVars, worker, collected>>
  BY DEF PAStep, PodStep, PAMove, DeletePA, PALeaves
<1>2. HistoryPart'
  BY KeepHistory, FaultHistory DEF PAStep, PodStep, PAMove, DeletePA, PALeaves, BaseInv
<1>3. PAPart'
  <2> USE DEF PAPhases
  <2>1. CASE PAStep(s) \/ PodStep(s)
    BY <2>1, PAMoveRoom DEF PAStep, PodStep, BaseInv
  <2>2. pa \in [Slots -> PARecords] /\ pa[s] \in PARecords
    BY DEF BaseInv, PAPart
  <2>3. ASSUME NEW e \in PARecords, pa' = [pa EXCEPT ![s] = e], UNCHANGED paCache,
               e.phase # "none" => pa[s].phase = e.phase,
               ~e.deleting => e.phase = "none"
        PROVE  PAPart'
    <3>1. /\ pa' \in [Slots -> PARecords]
          /\ \A t \in Slots : pa'[t] = IF t = s THEN e ELSE pa[t]
      BY <2>2, <2>3
    <3>2. TakenIn(pa') \subseteq TakenIn(pa)
      BY <2>3, <3>1 DEF TakenIn
    <3> QED
      BY <2>3, <3>1, <3>2, RoomStays DEF BaseInv
  <2>4. CASE DeletePA(s)
    <3> DEFINE e == [pa[s] EXCEPT !.deleting = TRUE]
    <3>1. e \in PARecords /\ e.phase = pa[s].phase /\ e.deleting
      BY <2>2 DEF PARecords
    <3>2. pa' = [pa EXCEPT ![s] = e] /\ UNCHANGED paCache
      BY <2>4 DEF DeletePA
    <3> HIDE DEF e
    <3> QED
      BY <2>3, <3>1, <3>2
  <2>5. CASE PALeaves(s)
    BY <2>3, <2>5 DEF PALeaves, NoPA, PARecords
  <2> QED
    BY <2>1, <2>4, <2>5
<1> QED
  BY <1>1, <1>2, <1>3, KeepPool, KeepInfra, KeepWorker DEF BaseInv

-----------------------------------------------------------------------------
(* Steps of the worker.                                                     *)

\* The reconcile of a pool in service.
LEMMA SizingBase ==
  ASSUME BaseInv,
         AddFinalizer \/ StartSizing \/ EnsureNLBsAndEIPs \/ CheckSlots \/ CreateSlots
            \/ UpdatePhase
  PROVE  BaseInv'
<1> USE DEF Labels
<1>1. worker \in Workers /\ worker.desired \in Nat /\ worker.desired <= EnoughGroups
  BY DEF BaseInv, WorkerPart, Workers
<1>2. CASE AddFinalizer
  <2>1. pool \in PoolRecords
    BY <1>2 DEF AddFinalizer, Reconcile, BaseInv, PoolPart, SyncInv
  <2>2. [pool EXCEPT !.finalizer = TRUE] \in PoolRecords
    BY <2>1 DEF PoolRecords
  <2>3. PoolPart'
    BY <1>2, <2>2, WritePart DEF AddFinalizer, BaseInv
  <2> QED
    BY <1>2, <2>3, KeepInfra, KeepPAs, KeepWorker, KeepHistory DEF AddFinalizer, BaseInv
<1>3. CASE StartSizing
  <2> DEFINE total == Cardinality({s \in Slots : ListOfPAs[s].phase # "none"})
             desired == ComputeDesiredNLBs(total, Count(ListOfPAs, "Available"),
                                           Count(ListOfPAs, "Bound"))
  <2>1. PoolPart'
    <3> DEFINE phase == IF poolCache.phase = "" THEN "Provisioning" ELSE poolCache.phase
    <3>1. phase \in PoolPhases
      BY <1>3 DEF StartSizing, Reconcile, BaseInv, PoolPart, PoolRecords, PoolPhases
    <3>2. PICK rewritten \in BOOLEAN : TryStatus(phase, rewritten)
      BY <1>3 DEF StartSizing
    <3> HIDE DEF phase
    <3> QED
      BY <1>3, <3>1, <3>2, StatusPart DEF StartSizing, BaseInv
  <2>2. total \in 0..Cardinality(Slots) /\ total <= EnoughGroups * SlotsPerNLB
    BY SlotSets, Listed, ListedBound DEF BaseInv
  <2>3. Count(ListOfPAs, "Bound") \in Nat /\ Count(ListOfPAs, "Bound") <= MaxPods
    BY SlotSets, Listed, BoundBound DEF BaseInv, Count
  <2>4. desired \in 0..EnoughGroups
    <3>1. total \in Nat
      BY <2>2
    <3> HIDE DEF total
    <3> QED
      BY <2>2, <2>3, <3>1, DesiredBound
  <2>5. worker' = [Idle EXCEPT !.pc = "infra", !.total = total, !.desired = desired]
    BY <1>3 DEF StartSizing
  <2> HIDE DEF total, desired
  <2>6. WorkerPart'
    <3>1. desired \in 0..MaxGroups /\ desired <= EnoughGroups
      BY <2>4, Constants
    <3>2. worker' \in Workers /\ worker'.desired = desired
      BY <2>2, <2>5, <3>1, IdleWorker DEF Workers
    <3> QED
      BY <3>1, <3>2 DEF WorkerPart
  <2> QED
    BY <1>3, <2>1, <2>6, KeepInfra, KeepPAs, KeepHistory DEF StartSizing, BaseInv
<1>4. CASE EnsureNLBsAndEIPs
  <2> DEFINE wanted == {n \in NLBs : n[1] < worker.desired}
             noEIP == {n \in wanted : ListOfEIPs[n] = "none"}
             noNLB == {n \in wanted : ListOfEIPs[n] = "allocated" /\ ListOfNLBs[n].object = "none"}
             ready == \A n \in wanted : ListOfEIPs[n] = "allocated" /\ ListOfNLBs[n].id
             new == [NoNLB EXCEPT !.object = "present"]
  <2>1. PICK failed \in SUBSET (noEIP \cup noNLB) :
          /\ Unless(failed # {})
          /\ eip' = [n \in NLBs |-> IF n \in noEIP \ failed /\ eip[n] = "none"
                                         THEN "created" ELSE eip[n]]
          /\ nlb' = [n \in NLBs |-> IF n \in noNLB \ failed /\ nlb[n].object = "none"
                                         THEN new ELSE nlb[n]]
          /\ worker' = IF failed # {} THEN Idle
                         ELSE [worker EXCEPT !.pc = IF ready THEN "slots" ELSE "phase",
                                             !.ready = ready]
    BY <1>4 DEF EnsureNLBsAndEIPs
  <2>2. UNCHANGED <<eipCache, nlbCache, cloud, poolVars, paVars, collected>>
    BY <1>4 DEF EnsureNLBsAndEIPs
  <2>3. InfraPart'
    <3>1. new \in NLBRecords
      BY DEF NLBRecords, NoNLB
    <3>2. /\ eip \in [NLBs -> EIPStates]
          /\ nlb \in [NLBs -> NLBRecords] /\ NoOverExpansion /\ cloud \in [NLBs -> BOOLEAN]
          /\ eipCache' \in [NLBs -> EIPStates] /\ nlbCache' \in [NLBs -> NLBRecords]
      BY <2>2 DEF BaseInv, InfraPart
    <3>3. \A n \in wanted : n[1] < EnoughGroups
      BY <1>1, Constants DEF NLBs, Groups
    <3> HIDE DEF wanted, new
    <3> QED
      BY <2>1, <2>2, <3>1, <3>2, <3>3 DEF InfraPart, NoOverExpansion, EIPStates
  <2>4. WorkerPart'
    <3>1. ready \in BOOLEAN /\ worker.mem \in PoolRecords
      BY <1>1 DEF Workers
    <3> HIDE DEF ready
    <3> DEFINE label == IF ready THEN "slots" ELSE "phase"
    <3>2. worker' = Idle \/ worker' = [worker EXCEPT !.pc = label, !.ready = ready]
      BY <2>1, Zenon
    <3>3. label \in {"infra", "slots", "phase"}
      OBVIOUS
    <3> HIDE DEF label
    <3> QED
      BY <3>1, <3>2, <3>3, MovedWorker DEF BaseInv
  <2> QED
    BY <2>1, <2>2, <2>3, <2>4, KeepPool, KeepPAs, KeepHistory, FaultHistory DEF Unless, BaseInv
<1>5. CASE CheckSlots
  <2> DEFINE ready == Count(ListOfPAs, "Provisioning") = 0
  <2>1. ready \in BOOLEAN /\ worker.mem \in PoolRecords
    BY <1>1 DEF Workers
  <2>2. worker' = [worker EXCEPT !.pc = "phase", !.ready = ready]
    BY <1>5 DEF CheckSlots
  <2> HIDE DEF ready
  <2>3. WorkerPart'
    BY <2>1, <2>2, MovedWorker DEF BaseInv
  <2> QED
    BY <1>5, <2>3, KeepPool, KeepInfra, KeepPAs, KeepHistory DEF CheckSlots, BaseInv
<1>6. CASE CreateSlots
  <2> DEFINE range   == {s \in Slots : worker.total <= s /\ s < worker.desired * SlotsPerNLB}
             missing == {s \in range : ListOfPAs[s].phase = "none"}
             exists  == {s \in missing : pa[s].phase # "none"}
             before(stops) == {s \in missing : \A t \in stops : s < t}
  <2>1. PICK failed \in SUBSET (missing \ exists) :
          /\ Unless(failed # {})
          /\ pa' = [s \in Slots |-> IF s \in before(exists \cup failed) THEN NewPA ELSE pa[s]]
          /\ worker' = IF exists \cup failed # {} THEN Idle
                         ELSE [worker EXCEPT !.pc = "phase", !.ready = FALSE]
    BY <1>6 DEF CreateSlots
  <2> DEFINE created == before(exists \cup failed)
  <2>2. \A s \in created : s < EnoughGroups * SlotsPerNLB
    <3>1. worker.desired * SlotsPerNLB <= EnoughGroups * SlotsPerNLB
      BY <1>1, Constants
    <3>2. \A s \in created : s < worker.desired * SlotsPerNLB /\ s \in Int
      BY DEF Slots
    <3> HIDE DEF created
    <3> QED
      BY <1>1, <3>1, <3>2, Constants
  <2>3. pa' = [s \in Slots |-> IF s \in created THEN NewPA ELSE pa[s]]
    BY <2>1
  <2> HIDE DEF created
  <2>4. NewPA \in PARecords /\ NewPA.phase = "Provisioning"
    BY DEF NewPA, PARecords, PAPhases
  <2>5. pa \in [Slots -> PARecords] /\ UNCHANGED <<poolVars, infraVars, paCache, collected>>
    BY <1>6 DEF BaseInv, PAPart, CreateSlots
  <2>6. TakenIn(pa') \subseteq TakenIn(pa)
    BY <2>3, <2>4 DEF TakenIn
  <2>7. PAPart'
    BY <2>2, <2>3, <2>4, <2>5, <2>6, RoomStays DEF BaseInv
  <2>8. WorkerPart'
    <3>1. worker.mem \in PoolRecords
      BY <1>1 DEF Workers
    <3> QED
      BY <2>1, <3>1, MovedWorker DEF BaseInv
  <2> QED
    BY <2>1, <2>5, <2>7, <2>8, KeepPool, KeepInfra, KeepHistory, FaultHistory
    DEF Unless, BaseInv
<1>7. CASE UpdatePhase
  <2> DEFINE phase == IF worker.ready THEN "Ready" ELSE "Provisioning"
  <2>1. phase \in PoolPhases
    BY DEF PoolPhases
  <2>2. PICK rewritten \in BOOLEAN : TryStatus(phase, rewritten)
    BY <1>7 DEF UpdatePhase
  <2> HIDE DEF phase
  <2>3. PoolPart'
    BY <1>7, <2>1, <2>2, StatusPart DEF UpdatePhase, BaseInv
  <2>4. WorkerPart'
    BY <1>7, IdleWorker DEF UpdatePhase, WorkerPart
  <2> QED
    BY <1>7, <2>3, <2>4, KeepInfra, KeepPAs, KeepHistory DEF UpdatePhase, BaseInv
<1> QED
  BY <1>2, <1>3, <1>4, <1>5, <1>6, <1>7

\* The reconcile of a deleted pool.
LEMMA DeletionBase ==
  ASSUME BaseInv,
         StartDeletion \/ CollectIds \/ DeleteNLBs \/ WaitForCloud \/ DeletePAs
            \/ RemoveFinalizer
  PROVE  BaseInv'
<1> USE DEF Labels
<1>1. worker \in Workers /\ worker.mem \in PoolRecords /\ worker.memOK \in BOOLEAN
  BY DEF BaseInv, WorkerPart, Workers
<1>2. CASE StartDeletion
  <2> DEFINE r == [poolCache EXCEPT !.phase = "Deleting"]
  <2>1. r \in PoolRecords
    BY <1>2 DEF StartDeletion, Reconcile, BaseInv, PoolPart, PoolRecords, PoolPhases
  <2>2. /\ IF poolSynced THEN WritePool(r) ELSE UNCHANGED <<pool, poolSynced>>
        /\ worker' = [Idle EXCEPT !.pc = "collect", !.mem = r, !.memOK = poolSynced]
    BY <1>2 DEF StartDeletion
  <2> HIDE DEF r
  <2>3. PoolPart'
    BY <1>2, <2>1, <2>2, WritePart, KeepPool DEF StartDeletion, BaseInv, poolVars
  <2>4. WorkerPart'
    <3>1. poolSynced \in BOOLEAN
      BY DEF BaseInv, PoolPart
    <3>2. worker' \in Workers
      BY <2>1, <2>2, <3>1, IdleWorker, Zenon DEF Workers
    <3>3. worker'.desired = Idle.desired
      BY <2>2, Zenon DEF Idle
    <3> QED
      BY <3>2, <3>3, IdleWorker DEF WorkerPart
  <2> QED
    BY <1>2, <2>3, <2>4, KeepInfra, KeepPAs, KeepHistory DEF StartDeletion, BaseInv
<1>3. CASE CollectIds
  <2> DEFINE listed == {n \in NLBs : ListOfNLBs[n].object = "present"}
             ids    == {n \in NLBs : ListOfNLBs[n].id}
             r      == [worker.mem EXCEPT !.ids = ids]
             next   == [worker EXCEPT !.pc = "deleteNLBs", !.listed = listed]
  <2>1. r \in PoolRecords /\ ids \in SUBSET NLBs /\ listed \in SUBSET NLBs
    BY <1>1 DEF PoolRecords
  <2>2. /\ eip' = [n \in NLBs |-> IF ListOfEIPs[n] # "none" /\ eip[n] # "none"
                                    THEN "deleting" ELSE eip[n]]
        /\ UNCHANGED <<poolCache, eipCache, nlb, nlbCache, cloud, paVars, faults>>
        /\ worker' = Idle \/ worker' = next \/ worker' = [next EXCEPT !.mem = r]
        /\ WritePool(r) \/ UNCHANGED <<pool, poolSynced>>
        /\ collected' = collected \/ collected' = collected \cup ids
    BY <1>3 DEF CollectIds
  <2> HIDE DEF ids, r, listed
  <2>3. PoolPart'
    BY <2>1, <2>2, WritePart, KeepPool DEF BaseInv, poolVars
  <2>4. WorkerPart'
    BY <1>1, <2>1, <2>2, MovedWorker, ListingWorker DEF BaseInv
  <2>5. InfraPart'
    BY <2>2 DEF BaseInv, InfraPart, NoOverExpansion, EIPStates
  <2>6. HistoryPart'
    BY <2>1, <2>2 DEF BaseInv, HistoryPart
  <2> QED
    BY <2>2, <2>3, <2>4, <2>5, <2>6, KeepPAs DEF BaseInv
<1>4. CASE DeleteNLBs
  <2>1. PICK failed \in SUBSET worker.listed :
          /\ Unless(failed # {})
          /\ nlb' = [n \in NLBs |-> IF n \in worker.listed \ failed /\ nlb[n].object = "present"
                                      THEN [nlb[n] EXCEPT !.object = "deleting"] ELSE nlb[n]]
          /\ worker' = IF failed # {} THEN Idle
                                     ELSE [worker EXCEPT !.pc = "wait", !.listed = {}]
    BY <1>4 DEF DeleteNLBs
  <2>2. UNCHANGED <<eip, eipCache, nlbCache, cloud, poolVars, paVars, collected>>
    BY <1>4 DEF DeleteNLBs
  <2>3. InfraPart'
    <3>1. nlb \in [NLBs -> NLBRecords] /\ nlbCache' \in [NLBs -> NLBRecords]
      BY <2>2 DEF BaseInv, InfraPart
    <3>2. ASSUME NEW n \in NLBs, nlb[n].object = "present"
          PROVE  [nlb[n] EXCEPT !.object = "deleting"] \in NLBRecords
      <4>1. nlb[n] \in [object : {"present", "deleting"}, id : BOOLEAN]
        BY <3>1, <3>2 DEF NLBRecords, NoNLB
      <4> QED
        BY <4>1 DEF NLBRecords
    <3>3. nlb' \in [NLBs -> NLBRecords]
      BY <2>1, <3>1, <3>2
    <3>4. \A n \in NLBs : nlb'[n].object # "none" => nlb[n].object # "none"
      BY <2>1
    <3> QED
      BY <2>2, <3>3, <3>4 DEF BaseInv, InfraPart, NoOverExpansion
  <2>4. WorkerPart'
    BY <1>1, <2>1, IdleWorker, ListingWorker DEF BaseInv, WorkerPart
  <2> QED
    BY <2>1, <2>2, <2>3, <2>4, KeepPool, KeepPAs, KeepHistory, FaultHistory DEF Unless, BaseInv
<1>5. CASE WaitForCloud
  <2> DEFINE r == [worker.mem EXCEPT !.ids = {}]
  <2>1. r \in PoolRecords
    BY <1>1 DEF PoolRecords
  <2>2. /\ worker' = Idle \/ worker' = [worker EXCEPT !.pc = "deletePAs", !.mem = r]
        /\ WritePool(r) \/ UNCHANGED <<pool, poolSynced>>
        /\ UNCHANGED <<poolCache, infraVars, paVars, collected, faults>>
    BY <1>5 DEF WaitForCloud
  <2> HIDE DEF r
  <2>3. PoolPart'
    BY <2>1, <2>2, WritePart, KeepPool DEF BaseInv, poolVars
  <2>4. WorkerPart'
    BY <1>1, <2>1, <2>2, MovedWorker DEF BaseInv
  <2> QED
    BY <2>2, <2>3, <2>4, KeepInfra, KeepPAs, KeepHistory DEF BaseInv
<1>6. CASE DeletePAs
  <2> DEFINE listed == {s \in Slots : ListOfPAs[s].phase # "none" /\ ~ListOfPAs[s].deleting}
  <2>1. PICK failed \in SUBSET listed :
          /\ Unless(failed # {})
          /\ pa' = [s \in Slots |-> IF s \in listed \ failed /\ pa[s].phase # "none"
                                      THEN [pa[s] EXCEPT !.deleting = TRUE] ELSE pa[s]]
          /\ worker' = IF failed # {} THEN Idle ELSE [worker EXCEPT !.pc = "verify"]
    BY <1>6 DEF DeletePAs
  <2>2. UNCHANGED <<poolVars, infraVars, paCache, collected>>
    BY <1>6 DEF DeletePAs
  <2>3. pa \in [Slots -> PARecords]
    BY DEF BaseInv, PAPart
  <2>4. \A s \in Slots : LET e == [pa[s] EXCEPT !.deleting = TRUE]
                         IN  e \in PARecords /\ e.phase = pa[s].phase /\ e.deleting
    BY <2>3 DEF PARecords
  <2>5. pa' \in [Slots -> PARecords]
    BY <2>1, <2>3, <2>4
  <2>6. ASSUME NEW s \in Slots
        PROVE  /\ pa'[s].phase = pa[s].phase
               /\ pa[s].deleting => pa'[s].deleting
    <3>1. CASE pa'[s] = pa[s]
      BY <3>1
    <3>2. CASE pa'[s] = [pa[s] EXCEPT !.deleting = TRUE]
      BY <2>4, <3>2
    <3> QED
      BY <2>1, <3>1, <3>2
  <2>7. TakenIn(pa') \subseteq TakenIn(pa)
    BY <2>6 DEF TakenIn
  <2>8. PAPart'
    BY <2>2, <2>5, <2>6, <2>7, RoomStays DEF BaseInv
  <2>9. WorkerPart'
    BY <1>1, <2>1, MovedWorker DEF BaseInv
  <2> QED
    BY <2>1, <2>2, <2>8, <2>9, KeepPool, KeepInfra, KeepHistory, FaultHistory
    DEF Unless, BaseInv
<1>7. CASE RemoveFinalizer
  <2>1. PoolPart'
    BY <1>7, WritePart, KeepPool DEF RemoveFinalizer, BaseInv, poolVars
  <2>2. WorkerPart'
    BY <1>7, IdleWorker DEF RemoveFinalizer, WorkerPart
  <2> QED
    BY <1>7, <2>1, <2>2, KeepInfra, KeepPAs, KeepHistory DEF RemoveFinalizer, BaseInv
<1> QED
  BY <1>2, <1>3, <1>4, <1>5, <1>6, <1>7

\* Every step.
LEMMA BaseStep == BaseInv /\ [Next]_vars => BaseInv'
<1> SUFFICES ASSUME BaseInv, [Next]_vars PROVE BaseInv'
  OBVIOUS
<1>1. CASE UNCHANGED vars
  BY <1>1, KeepPool, KeepWorker, KeepInfra, KeepPAs, KeepHistory DEF vars, BaseInv
<1>2. CASE Abort
  <2>1. WorkerPart'
    BY <1>2, IdleWorker DEF Abort, WorkerPart
  <2> QED
    BY <1>2, <2>1, KeepPool, KeepInfra, KeepPAs, FaultHistory DEF Abort, BaseInv
<1> QED
  BY <1>1, <1>2, EditBase, InfraBase, PABase, SizingBase, DeletionBase DEF Next, WorkerStep

\* The types, and the bound on the groups, hold in every reachable state.
LEMMA BaseInvariant == Spec => []BaseInv
BY InitBase, BaseStep, PTL DEF Spec

\* Whatever the worker counts and computes fits into the room there is.
THEOREM TypeCorrect == Spec => []TypeOK
<1>1. BaseInv => TypeOK
  BY DEF BaseInv, PoolPart, WorkerPart, InfraPart, PAPart, HistoryPart, TypeOK
<1> QED
  BY <1>1, BaseInvariant, PTL

\* However far the list of PAs and the pool are behind, and whatever fails, the pool
\* never has more NLB groups than its busiest moment calls for.
THEOREM NeverOverExpands == Spec => []NoOverExpansion
<1>1. BaseInv => NoOverExpansion
  BY DEF BaseInv, InfraPart
<1> QED
  BY <1>1, BaseInvariant, PTL

-----------------------------------------------------------------------------
(* Deletion, and the slots.                                                  *)

Sizing     == worker.pc \in {"infra", "slots", "phase"}
InDeletion == worker.pc \in {"collect", "deleteNLBs", "wait", "deletePAs", "verify"}

\* A pool p that was r before: flags are set, and the block is lifted, for good.
Follows(r, p) ==
    /\ r.finalizer => p.finalizer
    /\ r.deleting => p.deleting
    /\ ~r.blocked => ~p.blocked

\* The finalizer is there whenever somebody relies on it.
PoolInv ==
    /\ pool # Null /\ pool.deleting => pool.finalizer
    /\ poolCache = Null => pool = Null
    /\ poolCache # Null /\ pool # Null => Follows(poolCache, pool)
    /\ poolCache # Null /\ poolCache.finalizer /\ ~poolCache.deleting => pool # Null
    /\ Sizing => pool # Null /\ pool.finalizer

\* A worker in the deletion has an approved deletion before it.
DeletionInv ==
    InDeletion =>
        /\ poolCache = Null \/ poolCache.deleting
        /\ worker.mem.finalizer /\ worker.mem.deleting /\ ~worker.mem.blocked
        /\ pool # Null => pool.deleting /\ ~pool.blocked
        /\ worker.memOK => pool = worker.mem

FlagsInv == PoolInv /\ DeletionInv

-----------------------------------------------------------------------------
(* The flags of the pool.                                                   *)

SameFlags(q, p) ==
    /\ q.finalizer <=> p.finalizer
    /\ q.deleting <=> p.deleting
    /\ q.blocked <=> p.blocked

\* What the writes to a pool do to its flags.
LEMMA Writes ==
  ASSUME NEW p \in PoolRecords
  PROVE  /\ \A phase \in PoolPhases : SameFlags([p EXCEPT !.phase = phase], p)
         /\ \A ids \in SUBSET NLBs : SameFlags([p EXCEPT !.ids = ids], p)
         /\ LET q == [p EXCEPT !.finalizer = TRUE]
            IN  q.finalizer /\ (q.deleting <=> p.deleting) /\ (q.blocked <=> p.blocked)
         /\ LET q == [p EXCEPT !.deleting = TRUE]
            IN  (q.finalizer <=> p.finalizer) /\ q.deleting /\ (q.blocked <=> p.blocked)
         /\ LET q == [p EXCEPT !.blocked = FALSE]
            IN  (q.finalizer <=> p.finalizer) /\ (q.deleting <=> p.deleting) /\ ~q.blocked
BY DEF PoolRecords, SameFlags

\* The initial states.
LEMMA InitFlags == Init => FlagsInv
<1> SUFFICES ASSUME Init PROVE FlagsInv
  OBVIOUS
<1>1. PICK b \in BOOLEAN : pool = [EmptyPool EXCEPT !.blocked = b]
  BY DEF Init
<1>2. pool \in PoolRecords /\ ~pool.deleting /\ ~pool.finalizer
  BY <1>1 DEF EmptyPool, PoolRecords, PoolPhases
<1>3. poolCache = pool /\ worker.pc = "idle"
  BY DEF Init, Idle
<1> QED
  BY <1>2, <1>3, NullIsNoRecord
  DEF FlagsInv, PoolInv, DeletionInv, Follows, Sizing, InDeletion

\* The flags stay, and so does what relies on them.
LEMMA FlagsStay ==
  ASSUME PoolInv, UNCHANGED poolCache, pool' = Null <=> pool = Null,
         pool # Null => SameFlags(pool', pool),
         Sizing' => pool # Null /\ pool.finalizer
  PROVE  PoolInv'
BY DEF PoolInv, Follows, SameFlags

\* A status update touches neither the finalizer nor deletion nor approval.
LEMMA StatusFlags ==
  ASSUME PoolPart, NEW phase \in PoolPhases, NEW rewritten, TryStatus(phase, rewritten)
  PROVE  /\ pool' = Null <=> pool = Null
         /\ pool # Null => SameFlags(pool', pool)
<1>1. CASE pool' = pool
  BY <1>1 DEF SameFlags
<1>2. CASE pool # Null /\ pool' = [pool EXCEPT !.phase = phase]
  <2>1. pool' \in PoolRecords /\ SameFlags(pool', pool)
    BY <1>2, Writes DEF PoolPart, PoolRecords
  <2> QED
    BY <1>2, <2>1, NullIsNoRecord
<1> QED
  BY <1>1, <1>2 DEF TryStatus

\* Users and the cache: the flags of the pool only ever go one way.
LEMMA EditFlags ==
  ASSUME BaseInv, FlagsInv, DeletePool \/ Unblock \/ SyncPool
  PROVE  FlagsInv'
<1>1. PoolPart /\ worker \in Workers
  BY DEF BaseInv, WorkerPart
<1>2. CASE SyncPool
  BY <1>2 DEF SyncPool, FlagsInv, PoolInv, DeletionInv, Follows, Sizing, InDeletion
<1>3. ASSUME DeletePool \/ Unblock
      PROVE  /\ worker'.pc = worker.pc /\ worker'.mem = worker.mem /\ ~worker'.memOK
             /\ UNCHANGED poolCache
             /\ pool \in PoolRecords
  <2>1. pool \in PoolRecords /\ worker' = [worker EXCEPT !.memOK = FALSE] /\ UNCHANGED poolCache
    BY <1>1, <1>3 DEF DeletePool, Unblock, Edit, PoolPart
  <2> QED
    BY <1>1, <2>1, Zenon DEF Workers
<1>4. CASE DeletePool
  <2>1. CASE pool.finalizer
    <3>1. /\ pool' \in PoolRecords /\ pool'.finalizer /\ pool'.deleting
          /\ pool'.blocked <=> pool.blocked
      BY <1>3, <1>4, <2>1, Writes DEF DeletePool, Edit, WritePool, PoolRecords
    <3> QED
      BY <1>3, <1>4, <3>1, <2>1, NullIsNoRecord
      DEF DeletePool, FlagsInv, PoolInv, DeletionInv, Follows, Sizing, InDeletion
  <2>2. CASE ~pool.finalizer
    <3>1. pool' = Null
      BY <1>4, <2>2 DEF DeletePool, Edit, WritePool
    <3> QED
      BY <1>3, <1>4, <2>2, <3>1
      DEF DeletePool, FlagsInv, PoolInv, DeletionInv, Follows, Sizing, InDeletion
  <2> QED
    BY <2>1, <2>2
<1>5. CASE Unblock
  <2>1. /\ pool' \in PoolRecords /\ ~pool'.blocked
        /\ (pool'.finalizer <=> pool.finalizer) /\ (pool'.deleting <=> pool.deleting)
    BY <1>3, <1>5, Writes DEF Unblock, Edit, WritePool, PoolRecords
  <2> QED
    BY <1>3, <1>5, <2>1, NullIsNoRecord
    DEF Unblock, FlagsInv, PoolInv, DeletionInv, Follows, Sizing, InDeletion
<1> QED
  BY <1>2, <1>4, <1>5

\* The steps that size the pool.
LEMMA SizingFlags ==
  ASSUME BaseInv, FlagsInv,
         AddFinalizer \/ StartSizing \/ EnsureNLBsAndEIPs \/ CheckSlots \/ CreateSlots
            \/ UpdatePhase
  PROVE  FlagsInv'
<1>1. PoolPart /\ worker \in Workers /\ PoolInv
  BY DEF BaseInv, WorkerPart, FlagsInv
<1>2. Idle.pc = "idle"
  BY DEF Idle
<1>3. CASE AddFinalizer
  <2>1. pool = poolCache /\ pool \in PoolRecords /\ ~pool.deleting
        /\ UNCHANGED <<poolCache, worker>> /\ At("idle")
    BY <1>1, <1>3 DEF AddFinalizer, Reconcile, PoolPart, SyncInv
  <2>2. /\ pool' \in PoolRecords /\ pool'.finalizer
        /\ (pool'.deleting <=> pool.deleting) /\ (pool'.blocked <=> pool.blocked)
    BY <1>3, <2>1, Writes DEF AddFinalizer, WritePool, PoolRecords
  <2> QED
    BY <2>1, <2>2, NullIsNoRecord
    DEF FlagsInv, PoolInv, DeletionInv, Follows, Sizing, InDeletion, At
<1>4. CASE StartSizing
  <2> DEFINE phase == IF poolCache.phase = "" THEN "Provisioning" ELSE poolCache.phase
  <2>1. phase \in PoolPhases
    BY <1>1, <1>4 DEF StartSizing, Reconcile, PoolPart, PoolRecords, PoolPhases
  <2>2. PICK rewritten \in BOOLEAN : TryStatus(phase, rewritten)
    BY <1>4 DEF StartSizing
  <2> HIDE DEF phase
  <2>3. pool # Null /\ pool.finalizer /\ UNCHANGED poolCache
    BY <1>4 DEF StartSizing, Reconcile, FlagsInv, PoolInv, Follows
  <2>4. PoolInv'
    BY <1>1, <2>1, <2>2, <2>3, StatusFlags, FlagsStay
  <2>5. worker'.pc = "infra"
    BY <1>4, Zenon DEF StartSizing, Idle
  <2> QED
    BY <2>4, <2>5 DEF FlagsInv, DeletionInv, InDeletion
<1>5. CASE EnsureNLBsAndEIPs \/ CheckSlots \/ CreateSlots
  <2>1. Sizing /\ UNCHANGED <<pool, poolCache>>
    BY <1>5 DEF EnsureNLBsAndEIPs, CheckSlots, CreateSlots, At, Sizing, poolVars
  <2>2. worker'.pc \in {"idle", "slots", "phase"}
    <3>1. CASE EnsureNLBsAndEIPs
      BY <1>1, <1>2, <3>1, Zenon DEF EnsureNLBsAndEIPs, Workers
    <3>2. CASE CheckSlots
      BY <1>1, <3>2, Zenon DEF CheckSlots, Workers
    <3>3. CASE CreateSlots
      BY <1>1, <1>2, <3>3, Zenon DEF CreateSlots, Workers
    <3> QED
      BY <1>5, <3>1, <3>2, <3>3
  <2> QED
    BY <2>1, <2>2 DEF FlagsInv, PoolInv, DeletionInv, InDeletion, Follows
<1>6. CASE UpdatePhase
  <2> DEFINE phase == IF worker.ready THEN "Ready" ELSE "Provisioning"
  <2>1. phase \in PoolPhases
    BY DEF PoolPhases
  <2>2. PICK rewritten \in BOOLEAN : TryStatus(phase, rewritten)
    BY <1>6 DEF UpdatePhase
  <2> HIDE DEF phase
  <2>3. worker'.pc = "idle" /\ UNCHANGED poolCache
    BY <1>2, <1>6 DEF UpdatePhase
  <2>4. PoolInv'
    BY <1>1, <2>1, <2>2, <2>3, StatusFlags, FlagsStay DEF Sizing
  <2> QED
    BY <2>3, <2>4 DEF FlagsInv, DeletionInv, InDeletion
<1> QED
  BY <1>3, <1>4, <1>5, <1>6

\* The steps that delete it.
LEMMA DeletionFlags ==
  ASSUME BaseInv, FlagsInv,
         StartDeletion \/ CollectIds \/ DeleteNLBs \/ WaitForCloud \/ DeletePAs
            \/ RemoveFinalizer \/ Abort
  PROVE  FlagsInv'
<1>1. /\ PoolPart /\ worker \in Workers /\ worker.mem \in PoolRecords
      /\ PoolInv /\ DeletionInv
  BY DEF BaseInv, WorkerPart, FlagsInv, Workers
<1>2. Idle.pc = "idle"
  BY DEF Idle
<1>3. CASE StartDeletion
  <2> DEFINE r == [poolCache EXCEPT !.phase = "Deleting"]
  <2>1. poolCache \in PoolRecords /\ poolCache.deleting /\ poolCache.finalizer
        /\ ~poolCache.blocked /\ UNCHANGED poolCache
    BY <1>1, <1>3 DEF StartDeletion, Reconcile, PoolPart
  <2>2. r \in PoolRecords /\ r.finalizer /\ r.deleting /\ ~r.blocked
    BY <2>1, Writes DEF PoolRecords, PoolPhases, SameFlags
  <2>3. /\ IF poolSynced THEN pool' = r ELSE pool' = pool
        /\ worker' = [Idle EXCEPT !.pc = "collect", !.mem = r, !.memOK = poolSynced]
    BY <1>3 DEF StartDeletion, WritePool
  <2> HIDE DEF r
  <2>4. worker'.pc = "collect" /\ worker'.mem = r /\ worker'.memOK = poolSynced
    BY <2>3, Zenon DEF Idle
  <2>5. poolSynced => poolCache = pool
    BY <1>1 DEF PoolPart, SyncInv
  <2>6. pool' # Null => pool'.deleting /\ pool'.finalizer /\ ~pool'.blocked
    BY <1>1, <2>1, <2>2, <2>3 DEF PoolInv, Follows
  <2>7. PoolInv'
    BY <1>1, <2>1, <2>2, <2>3, <2>4, <2>5, <2>6, NullIsNoRecord DEF PoolInv, Follows, Sizing
  <2>8. DeletionInv'
    BY <2>1, <2>2, <2>3, <2>4, <2>5, <2>6 DEF DeletionInv
  <2> QED
    BY <2>7, <2>8 DEF FlagsInv
\* The worker has moved on, and has written its own pool or nothing.
<1>4. ASSUME NEW r \in PoolRecords, SameFlags(r, worker.mem), InDeletion,
             UNCHANGED poolCache,
             pool' = pool \/ (worker.memOK /\ pool' = r),
             \/ worker'.pc = "idle"
             \/ /\ worker'.mem = r /\ worker'.memOK = worker.memOK
                /\ worker'.pc \in {"deleteNLBs", "wait", "deletePAs", "verify"}
                /\ worker.memOK => pool' = r
      PROVE  FlagsInv'
  <2>1. PoolInv'
    BY <1>1, <1>4, NullIsNoRecord
    DEF PoolInv, DeletionInv, SameFlags, Follows, Sizing
  <2>2. DeletionInv'
    BY <1>1, <1>4 DEF DeletionInv, SameFlags, InDeletion
  <2> QED
    BY <2>1, <2>2 DEF FlagsInv
<1>5. SameFlags(worker.mem, worker.mem)
  BY DEF SameFlags
<1>6. CASE CollectIds
  <2> DEFINE listed == {n \in NLBs : ListOfNLBs[n].object = "present"}
             ids    == {n \in NLBs : ListOfNLBs[n].id}
             r      == [worker.mem EXCEPT !.ids = ids]
             next   == [worker EXCEPT !.pc = "deleteNLBs", !.listed = listed]
  <2>1. r \in PoolRecords /\ SameFlags(r, worker.mem)
    <3>1. ids \in SUBSET NLBs
      OBVIOUS
    <3> QED
      BY <1>1, <3>1, Writes DEF PoolRecords
  <2>2. /\ InDeletion /\ UNCHANGED poolCache
        /\ \/ worker' = next /\ pool' = pool
           \/ worker.memOK /\ pool' = r /\ worker' = [next EXCEPT !.mem = r]
           \/ worker' = Idle /\ pool' = pool
    BY <1>6 DEF CollectIds, WritePool, InDeletion, At
  <2> HIDE DEF ids, r, listed
  <2>3. CASE worker' = next /\ pool' = pool
    <3>1. worker'.pc = "deleteNLBs" /\ worker'.mem = worker.mem /\ worker'.memOK = worker.memOK
      BY <1>1, <2>3, Zenon DEF Workers
    <3> QED
      BY <1>1, <1>4, <1>5, <2>2, <2>3, <3>1 DEF DeletionInv
  <2>4. CASE worker.memOK /\ pool' = r /\ worker' = [next EXCEPT !.mem = r]
    <3>1. worker'.pc = "deleteNLBs" /\ worker'.mem = r /\ worker'.memOK = worker.memOK
      BY <1>1, <2>4, Zenon DEF Workers
    <3> QED
      BY <1>4, <2>1, <2>2, <2>4, <3>1
  <2>5. CASE worker' = Idle /\ pool' = pool
    BY <1>1, <1>2, <1>4, <1>5, <2>2, <2>5
  <2> QED
    BY <2>2, <2>3, <2>4, <2>5
<1>7. CASE WaitForCloud
  <2> DEFINE r == [worker.mem EXCEPT !.ids = {}]
  <2>1. r \in PoolRecords /\ SameFlags(r, worker.mem)
    BY <1>1, Writes DEF PoolRecords
  <2>2. /\ InDeletion /\ UNCHANGED poolCache
        /\ \/ worker' = Idle /\ pool' = pool
           \/ /\ worker' = [worker EXCEPT !.pc = "deletePAs", !.mem = r]
              /\ IF worker.memOK THEN pool' = r ELSE pool' = pool
    BY <1>7 DEF WaitForCloud, WritePool, InDeletion, At
  <2> HIDE DEF r
  <2>3. CASE worker' = Idle /\ pool' = pool
    BY <1>1, <1>2, <1>4, <1>5, <2>2, <2>3
  <2>4. CASE /\ worker' = [worker EXCEPT !.pc = "deletePAs", !.mem = r]
             /\ IF worker.memOK THEN pool' = r ELSE pool' = pool
    <3>1. worker'.pc = "deletePAs" /\ worker'.mem = r /\ worker'.memOK = worker.memOK
      BY <1>1, <2>4, Zenon DEF Workers
    <3> QED
      BY <1>4, <2>1, <2>2, <2>4, <3>1
  <2> QED
    BY <2>2, <2>3, <2>4
<1>8. CASE DeleteNLBs \/ DeletePAs
  <2>1. InDeletion /\ UNCHANGED <<pool, poolCache>>
    BY <1>8 DEF DeleteNLBs, DeletePAs, InDeletion, At, poolVars
  <2>2. \/ worker' = Idle
        \/ worker' = [worker EXCEPT !.pc = "wait", !.listed = {}]
        \/ worker' = [worker EXCEPT !.pc = "verify"]
    BY <1>8, Zenon DEF DeleteNLBs, DeletePAs
  <2>3. \/ worker'.pc = "idle"
        \/ /\ worker'.pc \in {"wait", "verify"}
           /\ worker'.mem = worker.mem /\ worker'.memOK = worker.memOK
    BY <1>1, <1>2, <2>2, Zenon DEF Workers
  <2> QED
    BY <1>1, <1>4, <1>5, <2>1, <2>3 DEF DeletionInv
<1>9. CASE RemoveFinalizer
  <2>1. worker'.pc = "idle" /\ UNCHANGED poolCache /\ (pool' = Null \/ pool' = pool)
        /\ InDeletion
    BY <1>2, <1>9 DEF RemoveFinalizer, WritePool, InDeletion, At
  <2> QED
    BY <1>1, <2>1 DEF FlagsInv, PoolInv, DeletionInv, Follows, Sizing, InDeletion
<1>10. CASE Abort
  <2>1. worker'.pc = "idle" /\ UNCHANGED <<pool, poolCache>>
    BY <1>2, <1>10 DEF Abort, poolVars
  <2> QED
    BY <1>1, <2>1 DEF FlagsInv, PoolInv, DeletionInv, Follows, Sizing, InDeletion
<1> QED
  BY <1>3, <1>6, <1>7, <1>8, <1>9, <1>10

\* Steps that leave the pool and the worker alone.
LEMMA KeepFlags == FlagsInv /\ UNCHANGED <<poolVars, worker>> => FlagsInv'
BY DEF FlagsInv, PoolInv, DeletionInv, Follows, Sizing, InDeletion, poolVars

\* Every step.
LEMMA FlagsStep == BaseInv /\ FlagsInv /\ [Next]_vars => FlagsInv'
<1> SUFFICES ASSUME BaseInv, FlagsInv, [Next]_vars PROVE FlagsInv'
  OBVIOUS
<1>1. CASE UNCHANGED vars
  BY <1>1, KeepFlags DEF vars
<1>2. CASE SyncPAs \/ SyncEIPs \/ SyncNLBs
  BY <1>2, KeepFlags DEF SyncPAs, SyncEIPs, SyncNLBs
<1>3. ASSUME NEW n \in NLBs, EIPStep(n) \/ NLBStep(n) \/ NLBLeaves(n) PROVE FlagsInv'
  BY <1>3, KeepFlags DEF EIPStep, NLBStep, NLBLeaves, Infra
<1>4. ASSUME NEW s \in Slots, PAStep(s) \/ PodStep(s) \/ DeletePA(s) \/ PALeaves(s)
      PROVE  FlagsInv'
  BY <1>4, KeepFlags DEF PAStep, PodStep, PAMove, DeletePA, PALeaves
<1> QED
  BY <1>1, <1>2, <1>3, <1>4, EditFlags, SizingFlags, DeletionFlags DEF Next, WorkerStep

\* The pool in the course of a step: it does not come back, its flags go one way, and
\* behind a finalizer it goes only when its last object has gone.
LEMMA PoolStep ==
  ASSUME BaseInv, FlagsInv, [Next]_vars
  PROVE  /\ pool = Null => pool' = Null
         /\ pool # Null /\ pool' # Null => Follows(pool, pool')
         /\ pool # Null /\ pool' = Null =>
            ~pool.finalizer \/ (RemoveFinalizer /\ ~HasChildResources)
<1>1. PoolPart /\ worker.mem \in PoolRecords /\ PoolInv /\ DeletionInv
  BY DEF BaseInv, WorkerPart, FlagsInv, Workers
<1>2. CASE pool' = pool
  BY <1>2 DEF Follows
<1>3. ASSUME pool # Null, SameFlags(pool', pool), pool' # Null
      PROVE  Follows(pool, pool')
  BY <1>3 DEF Follows, SameFlags
<1>4. CASE DeletePool
  <2>1. pool \in PoolRecords
    BY <1>1, <1>4 DEF DeletePool, PoolPart
  <2>2. CASE pool.finalizer
    <3>1. LET q == [pool EXCEPT !.deleting = TRUE]
          IN  pool' = q /\ q \in PoolRecords
      BY <1>4, <2>1, <2>2 DEF DeletePool, Edit, WritePool, PoolRecords
    <3>2. pool'.finalizer /\ pool'.deleting /\ (pool'.blocked <=> pool.blocked)
      BY <2>1, <2>2, <3>1, Writes
    <3> QED
      BY <1>4, <3>1, <3>2, NullIsNoRecord DEF DeletePool, Follows
  <2>3. CASE ~pool.finalizer
    BY <1>4, <2>3 DEF DeletePool, Edit, WritePool
  <2> QED
    BY <2>2, <2>3
<1>5. CASE Unblock
  <2>1. pool \in PoolRecords
    BY <1>1, <1>5 DEF Unblock, PoolPart
  <2>2. LET q == [pool EXCEPT !.blocked = FALSE]
        IN  pool' = q /\ q \in PoolRecords
    BY <1>5, <2>1 DEF Unblock, Edit, WritePool, PoolRecords
  <2>3. /\ (pool'.finalizer <=> pool.finalizer) /\ (pool'.deleting <=> pool.deleting)
        /\ ~pool'.blocked
    BY <2>1, <2>2, Writes
  <2> QED
    BY <1>5, <2>2, <2>3, NullIsNoRecord DEF Unblock, Follows
<1>6. CASE AddFinalizer
  <2>1. pool = poolCache /\ pool \in PoolRecords
    BY <1>1, <1>6 DEF AddFinalizer, Reconcile, PoolPart, SyncInv
  <2>2. [pool EXCEPT !.finalizer = TRUE] \in PoolRecords
    BY <2>1 DEF PoolRecords
  <2> QED
    BY <1>6, <2>1, <2>2, Writes, NullIsNoRecord DEF AddFinalizer, WritePool, Follows
<1>7. ASSUME NEW phase \in PoolPhases, NEW rewritten, TryStatus(phase, rewritten)
      PROVE  /\ pool = Null => pool' = Null
             /\ pool # Null => pool' # Null /\ Follows(pool, pool')
  BY <1>1, <1>3, <1>7, StatusFlags
<1>8. CASE StartSizing
  <2> DEFINE phase == IF poolCache.phase = "" THEN "Provisioning" ELSE poolCache.phase
  <2>1. phase \in PoolPhases
    BY <1>1, <1>8 DEF StartSizing, Reconcile, PoolPart, PoolRecords, PoolPhases
  <2>2. PICK rewritten \in BOOLEAN : TryStatus(phase, rewritten)
    BY <1>8 DEF StartSizing
  <2> HIDE DEF phase
  <2> QED
    BY <1>7, <2>1, <2>2
<1>9. CASE UpdatePhase
  <2> DEFINE phase == IF worker.ready THEN "Ready" ELSE "Provisioning"
  <2>1. phase \in PoolPhases
    BY DEF PoolPhases
  <2>2. PICK rewritten \in BOOLEAN : TryStatus(phase, rewritten)
    BY <1>9 DEF UpdatePhase
  <2> HIDE DEF phase
  <2> QED
    BY <1>7, <2>1, <2>2
<1>10. CASE StartDeletion /\ pool' # pool
  <2> DEFINE r == [poolCache EXCEPT !.phase = "Deleting"]
  <2>1. pool = poolCache /\ pool \in PoolRecords /\ pool' = r
    BY <1>1, <1>10 DEF StartDeletion, Reconcile, WritePool, PoolPart, SyncInv
  <2>2. SameFlags(r, poolCache)
    BY <2>1, Writes DEF PoolPhases
  <2>3. r \in PoolRecords
    BY <2>1 DEF PoolRecords, PoolPhases
  <2> HIDE DEF r
  <2> QED
    BY <1>3, <2>1, <2>2, <2>3, NullIsNoRecord
<1>11. CASE (CollectIds \/ WaitForCloud) /\ pool' # pool
  <2>1. PICK ids \in SUBSET NLBs :
          pool' = [worker.mem EXCEPT !.ids = ids] /\ worker.memOK /\ InDeletion
    <3>1. CASE CollectIds
      <4> DEFINE ids == {n \in NLBs : ListOfNLBs[n].id}
                 r   == [worker.mem EXCEPT !.ids = ids]
      <4>1. At("collect") /\ (pool' = pool \/ (worker.memOK /\ WritePool(r)))
        BY <3>1 DEF CollectIds
      <4> QED
        BY <1>11, <4>1 DEF WritePool, InDeletion, At
    <3>2. CASE WaitForCloud
      <4> DEFINE r == [worker.mem EXCEPT !.ids = {}]
      <4>1. At("wait") /\ (pool' = pool \/ (worker.memOK /\ WritePool(r)))
        BY <3>2 DEF WaitForCloud
      <4> QED
        BY <1>11, <4>1 DEF WritePool, InDeletion, At
    <3> QED
      BY <1>11, <3>1, <3>2
  <2>2. SameFlags(pool', worker.mem) /\ pool' \in PoolRecords /\ pool = worker.mem
    BY <1>1, <2>1, Writes DEF PoolRecords, DeletionInv
  <2> QED
    BY <1>1, <1>3, <2>2, NullIsNoRecord
<1>12. CASE RemoveFinalizer
  BY <1>12 DEF RemoveFinalizer, WritePool, Follows
<1>13. CASE EnsureNLBsAndEIPs \/ CheckSlots \/ CreateSlots \/ DeleteNLBs \/ DeletePAs
            \/ Abort \/ SyncPool \/ SyncPAs \/ SyncEIPs \/ SyncNLBs
  BY <1>2, <1>13
  DEF EnsureNLBsAndEIPs, CheckSlots, CreateSlots, DeleteNLBs, DeletePAs, Abort, SyncPool,
      SyncPAs, SyncEIPs, SyncNLBs, poolVars
<1>14. ASSUME NEW n \in NLBs, EIPStep(n) \/ NLBStep(n) \/ NLBLeaves(n) PROVE pool' = pool
  BY <1>14 DEF EIPStep, NLBStep, NLBLeaves, Infra, poolVars
<1>15. ASSUME NEW s \in Slots, PAStep(s) \/ PodStep(s) \/ DeletePA(s) \/ PALeaves(s)
       PROVE  pool' = pool
  BY <1>15 DEF PAStep, PodStep, PAMove, DeletePA, PALeaves, poolVars
<1>16. CASE UNCHANGED vars
  BY <1>2, <1>16 DEF vars, poolVars
<1> QED
  BY <1>2, <1>4, <1>5, <1>6, <1>8, <1>9, <1>10, <1>11, <1>12, <1>13, <1>14, <1>15, <1>16
  DEF Next, WorkerStep

-----------------------------------------------------------------------------
(* The infrastructure.                                                      *)

\* May somebody size the pool, now or on the word of the cache?
InCharge == Sizing \/ (poolCache # Null /\ ~poolCache.deleting)

\* What is known of NLB n, now or from a list of some earlier moment.
KnownInv(n) ==
    nlbCache[n].id => /\ nlb[n].object = "present" => nlb[n].id
                      /\ InCharge => nlb[n].object = "present" /\ nlb[n].id

\* The parts of NLB n: an NLB with an id is in the cloud, and nothing is torn down, or
\* has been left over, as long as somebody may size the pool.
BuiltInv(n) ==
    /\ nlb[n].object = "present" /\ nlb[n].id => cloud[n]
    /\ InCharge => /\ eip[n] # "deleting"
                   /\ nlb[n].object # "deleting"
                   /\ cloud[n] => nlb[n].object = "present"
    /\ KnownInv(n)

InfraInv ==
    /\ \A n \in NLBs : BuiltInv(n)
    /\ InCharge => collected = {}
    /\ At("slots") => \A n \in NLBs : n[1] < worker.desired => Live(n)

\* An NLB that PAs stand on is live while somebody may size the pool, and nobody
\* replaces it afterwards.
Stands(n) ==
    /\ nlb[n].object = "present" => cloud[n]
    /\ InCharge => Live(n)

PAsInv ==
    \A s \in Slots :
        /\ pa[s].phase = "none" => ~pa[s].deleting
        /\ pa[s].phase # "none" => \A n \in NLBsOf(s) : Stands(n)

\* Once nobody sizes the pool any more, nobody will.
LEMMA ChargeEnds ==
  ASSUME BaseInv, FlagsInv, [Next]_vars, InCharge'
  PROVE  InCharge
<1>1. PoolPart /\ worker \in Workers /\ PoolInv /\ DeletionInv
  BY DEF BaseInv, WorkerPart, FlagsInv
<1>2. Idle.pc = "idle"
  BY DEF Idle
<1>3. SUFFICES ASSUME ~InCharge PROVE FALSE
  OBVIOUS
<1>4. CASE SyncPool
  BY <1>1, <1>3, <1>4 DEF SyncPool, InCharge, Sizing, PoolInv, Follows
<1>5. CASE UNCHANGED poolCache /\ ~Sizing'
  BY <1>3, <1>5 DEF InCharge
<1>6. CASE DeletePool \/ Unblock
  <2>1. worker' = [worker EXCEPT !.memOK = FALSE] /\ UNCHANGED poolCache
    BY <1>6 DEF DeletePool, Unblock, Edit
  <2>2. worker'.pc = worker.pc
    BY <1>1, <2>1, Zenon DEF Workers
  <2> QED
    BY <1>3, <2>1, <2>2 DEF InCharge, Sizing
<1>7. CASE UNCHANGED <<poolCache, worker>>
  BY <1>3, <1>7 DEF InCharge, Sizing
<1>8. CASE AddFinalizer \/ StartSizing
  BY <1>3, <1>8 DEF AddFinalizer, StartSizing, Reconcile, InCharge
<1>9. CASE EnsureNLBsAndEIPs \/ CheckSlots \/ CreateSlots \/ UpdatePhase
  BY <1>3, <1>9
  DEF EnsureNLBsAndEIPs, CheckSlots, CreateSlots, UpdatePhase, At, InCharge, Sizing
<1>10. CASE StartDeletion
  <2>1. worker'.pc = "collect" /\ UNCHANGED poolCache
    BY <1>10, Zenon DEF StartDeletion, Idle
  <2> QED
    BY <1>5, <2>1 DEF Sizing
<1>11. CASE CollectIds \/ DeleteNLBs \/ WaitForCloud \/ DeletePAs \/ RemoveFinalizer
  <2>1. worker'.pc \in {"idle", "deleteNLBs", "wait", "deletePAs", "verify"}
    <3>1. CASE CollectIds
      BY <1>1, <1>2, <3>1, Zenon DEF CollectIds, Workers
    <3>2. CASE DeleteNLBs
      BY <1>1, <1>2, <3>2, Zenon DEF DeleteNLBs, Workers
    <3>3. CASE WaitForCloud \/ DeletePAs \/ RemoveFinalizer
      BY <1>1, <1>2, <3>3, Zenon DEF WaitForCloud, DeletePAs, RemoveFinalizer, Workers
    <3> QED
      BY <1>11, <3>1, <3>2, <3>3
  <2> QED
    BY <1>5, <1>11, <2>1
    DEF Sizing, CollectIds, DeleteNLBs, WaitForCloud, DeletePAs, RemoveFinalizer, poolVars
<1>12. CASE Abort
  BY <1>2, <1>5, <1>12 DEF Abort, Sizing, poolVars
<1>13. CASE SyncPAs \/ SyncEIPs \/ SyncNLBs
  BY <1>7, <1>13 DEF SyncPAs, SyncEIPs, SyncNLBs, poolVars
<1>14. ASSUME NEW n \in NLBs, EIPStep(n) \/ NLBStep(n) \/ NLBLeaves(n) PROVE FALSE
  BY <1>7, <1>14 DEF EIPStep, NLBStep, NLBLeaves, Infra, poolVars
<1>15. ASSUME NEW s \in Slots, PAStep(s) \/ PodStep(s) \/ DeletePA(s) \/ PALeaves(s)
       PROVE  FALSE
  BY <1>7, <1>15 DEF PAStep, PodStep, PAMove, DeletePA, PALeaves, poolVars
<1>16. CASE UNCHANGED vars
  BY <1>7, <1>16 DEF vars, poolVars
<1> QED
  BY <1>4, <1>6, <1>8, <1>9, <1>10, <1>11, <1>12, <1>13, <1>14, <1>15, <1>16
  DEF Next, WorkerStep

\* A worker that deletes is not in charge.
LEMMA NotInCharge ==
  ASSUME FlagsInv,
         StartDeletion \/ CollectIds \/ DeleteNLBs \/ WaitForCloud \/ DeletePAs
            \/ RemoveFinalizer
  PROVE  ~InCharge
BY DEF StartDeletion, Reconcile, CollectIds, DeleteNLBs, WaitForCloud, DeletePAs,
       RemoveFinalizer, At, FlagsInv, DeletionInv, InDeletion, InCharge, Sizing

\* The initial states.
LEMMA InitInfra == Init => InfraInv /\ PAsInv
BY DEF Init, InfraInv, BuiltInv, KnownInv, PAsInv, NoNLB, Idle, At, NoPA

\* An NLB that is listed with an id has one.
LEMMA ListedId ==
  ASSUME BaseInv, InfraInv, NEW n \in NLBs, ListOfNLBs[n].id
  PROVE  /\ nlb[n].object = "present" => nlb[n].id
         /\ InCharge => nlb[n].object = "present" /\ nlb[n].id
BY DEF BaseInv, InfraPart, NLBRecords, NoNLB, InfraInv, BuiltInv, KnownInv, ListOfNLBs

\* Steps that leave the infrastructure alone.
LEMMA InfraStays ==
  ASSUME BaseInv, FlagsInv, InfraInv, [Next]_vars, UNCHANGED <<infraVars, collected>>,
         At("slots")' => At("slots") /\ worker'.desired = worker.desired
  PROVE  InfraInv'
<1>1. InCharge' => InCharge
  BY ChargeEnds
<1>2. \A n \in NLBs : BuiltInv(n)'
  BY <1>1 DEF InfraInv, BuiltInv, KnownInv, infraVars
<1>3. At("slots")' => \A n \in NLBs : n[1] < worker'.desired => Live(n)'
  BY DEF InfraInv, Live, infraVars
<1> QED
  BY <1>1, <1>2, <1>3 DEF InfraInv

\* The informer of the NLBs catches up.
LEMMA SyncInfra ==
  ASSUME BaseInv, InfraInv, SyncEIPs \/ SyncNLBs
  PROVE  /\ InfraInv'
         /\ UNCHANGED <<poolVars, eip, nlb, cloud, worker, collected>>
<1>1. UNCHANGED <<poolVars, eip, nlb, cloud, worker, collected>> /\ UNCHANGED InCharge
  BY DEF SyncEIPs, SyncNLBs, InCharge, Sizing, poolVars
<1>2. nlb \in [NLBs -> NLBRecords] /\ (nlbCache' = nlbCache \/ nlbCache' = nlb)
  BY DEF BaseInv, InfraPart, SyncEIPs, SyncNLBs
<1>3. ASSUME NEW n \in NLBs PROVE BuiltInv(n)'
  BY <1>1, <1>2 DEF InfraInv, BuiltInv, KnownInv, NLBRecords, NoNLB
<1>4. At("slots")' => \A n \in NLBs : n[1] < worker'.desired => Live(n)'
  BY <1>1 DEF InfraInv, Live, At
<1> QED
  BY <1>1, <1>3, <1>4 DEF InfraInv

\* What the operators do to NLB m.
Operated(m) ==
    /\ eip'[m] # "none" => eip[m] # "none"
    /\ eip'[m] = "deleting" => eip[m] = "deleting"
    /\ \/ nlb'[m].object = nlb[m].object
       \/ nlb[m].object = "deleting" /\ nlb'[m].object = "none"
    /\ nlb'[m].object = "present" /\ nlb'[m].id => cloud'[m]
    /\ nlb'[m].object = "present" /\ nlb[m].id => nlb'[m].id
    /\ cloud'[m] => cloud[m] \/ nlb'[m].object = "present"
    /\ cloud[m] => cloud'[m] \/ nlb[m].object # "present"

\* What the operators and the cloud do to an NLB, they do to nothing else.
LEMMA OperatorMoves ==
  ASSUME BaseInv, InfraInv, NEW n \in NLBs, EIPStep(n) \/ NLBStep(n) \/ NLBLeaves(n)
  PROVE  /\ UNCHANGED <<poolVars, eipCache, nlbCache, paVars, worker, collected, faults>>
         /\ \A m \in NLBs : Operated(m)
<1>1. UNCHANGED <<poolVars, eipCache, nlbCache, paVars, worker, collected, faults>>
  BY DEF EIPStep, NLBStep, NLBLeaves, Infra
<1>2. /\ eip \in [NLBs -> EIPStates]
      /\ nlb \in [NLBs -> NLBRecords] /\ cloud \in [NLBs -> BOOLEAN]
      /\ \A m \in NLBs : nlb[m].object = "present" /\ nlb[m].id => cloud[m]
  BY DEF BaseInv, InfraPart, InfraInv, BuiltInv
<1> SUFFICES ASSUME NEW m \in NLBs PROVE Operated(m)
  BY <1>1
<1>3. CASE EIPStep(n)
  BY <1>2, <1>3 DEF EIPStep, Infra, Operated
<1>4. CASE /\ UNCHANGED <<eip, nlb>> /\ nlb[n].object = "present"
           /\ cloud' = [cloud EXCEPT ![n] = TRUE]
  BY <1>2, <1>4 DEF Operated
<1>5. CASE /\ UNCHANGED <<eip, cloud>> /\ nlb[n].object = "present" /\ cloud[n]
           /\ nlb' = [nlb EXCEPT ![n].id = TRUE]
  <2> DEFINE r == [nlb[n] EXCEPT !.id = TRUE]
  <2>1. nlb[n] \in [object : {"present", "deleting"}, id : BOOLEAN]
    BY <1>2, <1>5 DEF NLBRecords, NoNLB
  <2>2. r.object = nlb[n].object /\ r.id
    BY <2>1
  <2>3. nlb' = [nlb EXCEPT ![n] = r]
    BY <1>5
  <2> HIDE DEF r
  <2> QED
    BY <1>2, <1>5, <2>2, <2>3 DEF Operated
<1>6. CASE UNCHANGED <<eip, cloud>> /\ nlb[n].object = "deleting" /\ nlb' = [nlb EXCEPT ![n] = NoNLB]
  BY <1>2, <1>6 DEF Operated, NoNLB
<1>7. CASE /\ UNCHANGED <<eip, nlb>> /\ nlb[n].object # "present"
           /\ cloud' = [cloud EXCEPT ![n] = FALSE]
  BY <1>2, <1>7 DEF Operated
<1> QED
  BY <1>3, <1>4, <1>5, <1>6, <1>7 DEF NLBStep, NLBLeaves, Infra

\* The steps of the operators and the cloud.
LEMMA OperatorInfra ==
  ASSUME BaseInv, InfraInv, NEW n \in NLBs, EIPStep(n) \/ NLBStep(n) \/ NLBLeaves(n)
  PROVE  InfraInv'
<1>1. /\ UNCHANGED <<poolVars, nlbCache, worker, collected>>
      /\ \A m \in NLBs : Operated(m)
  BY OperatorMoves
<1>2. UNCHANGED InCharge
  BY <1>1 DEF InCharge, Sizing, poolVars
<1>3. ASSUME NEW m \in NLBs PROVE BuiltInv(m)'
  BY <1>1, <1>2 DEF InfraInv, BuiltInv, KnownInv, Operated
<1>4. ASSUME At("slots")', NEW m \in NLBs, m[1] < worker'.desired PROVE Live(m)'
  BY <1>1, <1>4 DEF InfraInv, At, Live, Operated
<1> QED
  BY <1>1, <1>2, <1>3, <1>4 DEF InfraInv

\* The worker builds the infrastructure, and goes on to the slots only when every NLB it
\* wants has an id.
LEMMA EnsureInfra ==
  ASSUME BaseInv, FlagsInv, InfraInv, EnsureNLBsAndEIPs
  PROVE  /\ InfraInv'
         /\ \A m \in NLBs : /\ nlb[m].object # "none" => nlb'[m] = nlb[m]
                            /\ nlb'[m].object # "none" /\ nlb[m].object = "none" => ~cloud[m]
<1> DEFINE wanted == {n \in NLBs : n[1] < worker.desired}
           noEIP == {n \in wanted : ListOfEIPs[n] = "none"}
           noNLB == {n \in wanted : ListOfEIPs[n] = "allocated" /\ ListOfNLBs[n].object = "none"}
           ready == \A n \in wanted : ListOfEIPs[n] = "allocated" /\ ListOfNLBs[n].id
           new == [NoNLB EXCEPT !.object = "present"]
<1>1. PICK failed \in SUBSET (noEIP \cup noNLB) :
        /\ Unless(failed # {})
        /\ eip' = [n \in NLBs |-> IF n \in noEIP \ failed /\ eip[n] = "none"
                                       THEN "created" ELSE eip[n]]
        /\ nlb' = [n \in NLBs |-> IF n \in noNLB \ failed /\ nlb[n].object = "none"
                                       THEN new ELSE nlb[n]]
        /\ worker' = IF failed # {} THEN Idle
                       ELSE [worker EXCEPT !.pc = IF ready THEN "slots" ELSE "phase",
                                           !.ready = ready]
  BY DEF EnsureNLBsAndEIPs
<1>2. UNCHANGED <<nlbCache, cloud, poolVars, collected>> /\ Sizing /\ InCharge
  BY DEF EnsureNLBsAndEIPs, At, Sizing, InCharge
<1>3. new.object = "present" /\ ~new.id
  BY DEF NoNLB
<1>4. nlb \in [NLBs -> NLBRecords] /\ worker \in Workers
  BY DEF BaseInv, InfraPart, WorkerPart
<1>5. \A n \in NLBs : nlb[n].object = "none" => ~cloud[n]
  BY <1>2 DEF InfraInv, BuiltInv
<1>6. ASSUME NEW m \in NLBs
      PROVE  /\ nlb[m].object # "none" => nlb'[m] = nlb[m]
             /\ nlb'[m].object # "none" /\ nlb[m].object = "none" => ~cloud[m]
  BY <1>1, <1>5
<1>7. ASSUME NEW m \in NLBs PROVE BuiltInv(m)'
  <2>1. nlb'[m] = nlb[m] \/ (nlb[m].object = "none" /\ nlb'[m] = new)
    BY <1>1
  <2>2. eip'[m] = "deleting" => eip[m] = "deleting"
    BY <1>1
  <2> HIDE DEF new
  <2> QED
    BY <1>2, <1>3, <1>5, <2>1, <2>2 DEF InfraInv, BuiltInv, KnownInv
<1>8. ASSUME At("slots")', NEW m \in NLBs, m[1] < worker'.desired PROVE Live(m)'
  <2>1. Idle.pc = "idle"
    BY DEF Idle
  <2> HIDE DEF ready
  <2>2. ready /\ worker'.desired = worker.desired
    BY <1>1, <1>4, <1>8, <2>1, Zenon DEF Workers, At
  <2>3. ListOfNLBs[m].id
    BY <1>8, <2>2 DEF ready
  <2>4. nlb[m].object = "present" /\ nlb[m].id
    BY <1>2, <2>3, ListedId
  <2>5. cloud[m] /\ nlb'[m] = nlb[m]
    BY <1>6, <2>4 DEF InfraInv, BuiltInv
  <2> QED
    BY <1>2, <2>4, <2>5 DEF Live
<1> HIDE DEF new, wanted, noNLB
<1>9. InCharge => collected' = {}
  BY <1>2 DEF InfraInv
<1> QED
  BY <1>2, <1>6, <1>7, <1>8, <1>9 DEF InfraInv

\* The worker deletes what there is.
LEMMA DeleteInfra ==
  ASSUME BaseInv, FlagsInv, InfraInv, [Next]_vars, CollectIds \/ DeleteNLBs
  PROVE  /\ InfraInv'
         /\ \A m \in NLBs : \/ nlb'[m] = nlb[m]
                            \/ nlb[m].object = "present" /\ nlb'[m].object = "deleting"
<1>1. ~InCharge /\ ~InCharge'
  BY NotInCharge, ChargeEnds
<1>2. nlb \in [NLBs -> NLBRecords] /\ worker \in Workers
  BY DEF BaseInv, InfraPart, WorkerPart
<1>3. UNCHANGED <<nlbCache, cloud>> /\ ~At("slots")'
  BY <1>1 DEF CollectIds, DeleteNLBs, InCharge, Sizing, At
<1>4. ASSUME NEW m \in NLBs
      PROVE  \/ nlb'[m] = nlb[m]
             \/ nlb[m].object = "present" /\ nlb'[m].object = "deleting"
  <2>1. CASE CollectIds
    BY <2>1 DEF CollectIds
  <2>2. CASE DeleteNLBs
    <3>1. \/ nlb'[m] = nlb[m]
          \/ nlb[m].object = "present" /\ nlb'[m] = [nlb[m] EXCEPT !.object = "deleting"]
      BY <2>2 DEF DeleteNLBs
    <3>2. nlb[m] \in [object : {"present", "deleting"}, id : BOOLEAN] \/ nlb[m] = NoNLB
      BY <1>2 DEF NLBRecords
    <3>3. nlb[m].object = "present" => [nlb[m] EXCEPT !.object = "deleting"].object = "deleting"
      BY <3>2 DEF NoNLB
    <3> QED
      BY <2>2, <3>1, <3>3 DEF DeleteNLBs
  <2> QED
    BY <2>1, <2>2
<1>5. ASSUME NEW m \in NLBs PROVE BuiltInv(m)'
  BY <1>1, <1>3, <1>4 DEF InfraInv, BuiltInv, KnownInv
<1> QED
  BY <1>1, <1>3, <1>4, <1>5 DEF InfraInv

\* Every step; an NLB that stands goes on standing, and none comes to life.
LEMMA InfraStep ==
  ASSUME BaseInv, FlagsInv, InfraInv, [Next]_vars
  PROVE  /\ InfraInv'
         /\ \A n \in NLBs : Stands(n) => Stands(n)' /\ (Live(n)' => Live(n))
<1>1. InCharge' => InCharge
  BY ChargeEnds
<1>2. ASSUME UNCHANGED infraVars
      PROVE  \A n \in NLBs : Stands(n) => Stands(n)' /\ (Live(n)' => Live(n))
  BY <1>1, <1>2 DEF Stands, Live, infraVars
<1>3. worker \in Workers
  BY DEF BaseInv, WorkerPart
<1>4. CASE EnsureNLBsAndEIPs
  <2>1. InCharge /\ UNCHANGED cloud
    BY <1>4 DEF EnsureNLBsAndEIPs, At, InCharge, Sizing
  <2> QED
    BY <1>4, <2>1, EnsureInfra DEF Stands, Live
<1>5. CASE CollectIds \/ DeleteNLBs
  <2>1. ~InCharge' /\ UNCHANGED cloud
    BY <1>1, <1>5, NotInCharge DEF CollectIds, DeleteNLBs
  <2> QED
    BY <1>5, <2>1, DeleteInfra DEF Stands, Live
<1>6. ASSUME NEW m \in NLBs, EIPStep(m) \/ NLBStep(m) \/ NLBLeaves(m)
      PROVE  /\ InfraInv'
             /\ \A n \in NLBs : Stands(n) => Stands(n)' /\ (Live(n)' => Live(n))
  BY <1>1, <1>6, OperatorInfra, OperatorMoves DEF Operated, Stands, Live
<1>7. CASE UNCHANGED <<infraVars, collected, worker>>
  BY <1>2, <1>7, InfraStays DEF At
<1>8. CASE SyncPool \/ SyncPAs \/ AddFinalizer
  BY <1>7, <1>8 DEF SyncPool, SyncPAs, AddFinalizer
<1>9. ASSUME NEW s \in Slots, PAStep(s) \/ PodStep(s) \/ DeletePA(s) \/ PALeaves(s)
      PROVE  UNCHANGED <<infraVars, collected, worker>>
  BY <1>9 DEF PAStep, PodStep, PAMove, DeletePA, PALeaves
<1>10. CASE UNCHANGED <<infraVars, collected>> /\ ~At("slots")'
  BY <1>2, <1>10, InfraStays
<1>11. Idle.pc = "idle"
  BY DEF Idle
<1>12. CASE DeletePool \/ Unblock
  <2>1. worker' = [worker EXCEPT !.memOK = FALSE] /\ UNCHANGED <<infraVars, collected>>
    BY <1>12 DEF DeletePool, Unblock, Edit
  <2>2. worker'.pc = worker.pc /\ worker'.desired = worker.desired
    BY <1>3, <2>1, Zenon DEF Workers
  <2> QED
    BY <1>2, <2>1, <2>2, InfraStays DEF At
<1>13. CASE StartSizing
  <2>1. worker'.pc = "infra"
    BY <1>13, Zenon DEF StartSizing, Idle
  <2> QED
    BY <1>10, <1>13, <2>1 DEF StartSizing, At
<1>14. CASE CheckSlots \/ CreateSlots
  <2>1. worker'.pc \in {"idle", "phase"}
    BY <1>3, <1>11, <1>14, Zenon DEF CheckSlots, CreateSlots, Workers
  <2> QED
    BY <1>10, <1>14, <2>1 DEF CheckSlots, CreateSlots, At
<1>15. CASE UpdatePhase \/ RemoveFinalizer \/ Abort
  BY <1>10, <1>11, <1>15 DEF UpdatePhase, RemoveFinalizer, Abort, At
<1>16. CASE StartDeletion \/ WaitForCloud \/ DeletePAs
  BY <1>1, <1>10, <1>16, NotInCharge
  DEF StartDeletion, WaitForCloud, DeletePAs, InCharge, Sizing, At
<1>17. CASE UNCHANGED vars
  BY <1>7, <1>17 DEF vars
<1>18. CASE SyncEIPs \/ SyncNLBs
  BY <1>1, <1>18, SyncInfra DEF Stands, Live
<1> QED
  BY <1>4, <1>5, <1>6, <1>7, <1>8, <1>9, <1>12, <1>13, <1>14, <1>15, <1>16, <1>17, <1>18
  DEF Next, WorkerStep

-----------------------------------------------------------------------------
(* The slots.                                                               *)

\* What happens to the PA of a slot.
Created(s) ==
    /\ pa[s].phase = "none" /\ pa'[s] = NewPA
    /\ \A n \in NLBsOf(s) : Live(n)

Deleted(s) ==
    /\ pa[s].phase # "none" /\ pa'[s].phase = pa[s].phase /\ pa'[s].deleting
    /\ At("deletePAs") \/ "deletePA" \in UserEdits

Moved(s) ==
    /\ pa[s].phase # "none" /\ pa'[s].phase \notin {"none", "Provisioning"}
    /\ pa'[s].deleting = pa[s].deleting

Left(s) ==
    /\ pa[s].deleting /\ pa'[s] = NoPA
    /\ pa[s].phase = "Provisioning" \/ \A n \in NLBsOf(s) : ~Live(n)

\* A slot lies on NLBs of one group.
LEMMA SlotOfNLB ==
  ASSUME NEW s \in Slots
  PROVE  /\ NLBsOf(s) \subseteq NLBs
         /\ \A n \in NLBsOf(s) : n[1] = s \div SlotsPerNLB
         /\ s \div SlotsPerNLB \in Nat
         /\ \A d \in Nat : s < d * SlotsPerNLB => s \div SlotsPerNLB < d
<1>1. s \in Nat /\ s < MaxGroups * SlotsPerNLB
  BY Constants DEF Slots
<1>2. \A d \in Nat : s < d * SlotsPerNLB => s \div SlotsPerNLB < d
  <2> SUFFICES ASSUME NEW d \in Nat, s < d * SlotsPerNLB PROVE s \div SlotsPerNLB < d
    OBVIOUS
  <2>1. d # 0
    BY <1>1, Constants
  <2>2. d - 1 \in Nat /\ s < ((d - 1) + 1) * SlotsPerNLB
    BY <2>1
  <2>3. s \div SlotsPerNLB <= d - 1
    BY <1>1, <2>2, Constants, Quotient
  <2> QED
    BY <1>1, <2>3, Constants, Quotient
<1>3. s \div SlotsPerNLB \in Nat
  BY <1>1, Constants, Quotient
<1>4. s \div SlotsPerNLB < MaxGroups
  BY <1>1, <1>2, Constants
<1> QED
  BY <1>2, <1>3, <1>4, Constants DEF NLBsOf, NLBs, Groups

\* A step changes a PA in one of four ways, and no NLB with it.
LEMMA PAChange ==
  ASSUME BaseInv, InfraInv, [Next]_vars, NEW s \in Slots
  PROVE  \/ pa'[s] = pa[s]
         \/ /\ UNCHANGED infraVars
            /\ Created(s) \/ Deleted(s) \/ Moved(s) \/ Left(s)
<1>1. pa \in [Slots -> PARecords] /\ pa[s] \in PARecords /\ worker \in Workers
  BY DEF BaseInv, PAPart, WorkerPart
<1>2. ASSUME NEW from \in PAPhases \ {"none"},
             NEW to \in PAPhases \ {"none", "Provisioning"}, PAMove(s, from, to)
      PROVE  UNCHANGED infraVars /\ Moved(s)
  <2> DEFINE e == [pa[s] EXCEPT !.phase = to]
  <2>1. e.phase = to /\ e.deleting = pa[s].deleting
    BY <1>1, Zenon DEF PARecords
  <2>2. pa' = [pa EXCEPT ![s] = e] /\ UNCHANGED infraVars /\ pa[s].phase = from
    BY <1>2 DEF PAMove
  <2> HIDE DEF e
  <2> QED
    BY <1>1, <2>1, <2>2 DEF Moved
<1>3. LET e == [pa[s] EXCEPT !.deleting = TRUE]
      IN  e.phase = pa[s].phase /\ e.deleting
  BY <1>1 DEF PARecords
<1>4. CASE PAStep(s) \/ PodStep(s)
  <2> USE DEF PAPhases
  <2> QED
    BY <1>2, <1>4 DEF PAStep, PodStep
<1>5. CASE DeletePA(s)
  <2>1. pa'[s] = [pa[s] EXCEPT !.deleting = TRUE] /\ UNCHANGED infraVars
        /\ pa[s].phase # "none"
    BY <1>1, <1>5 DEF DeletePA
  <2> QED
    BY <1>3, <1>5, <2>1 DEF DeletePA, Deleted
<1>6. CASE PALeaves(s)
  BY <1>1, <1>6 DEF PALeaves, Left
<1>7. ASSUME NEW t \in Slots, t # s, PAStep(t) \/ PodStep(t) \/ DeletePA(t) \/ PALeaves(t)
      PROVE  pa'[s] = pa[s]
  BY <1>1, <1>7 DEF PAStep, PodStep, PAMove, DeletePA, PALeaves
<1>8. CASE CreateSlots
  <2> DEFINE range   == {t \in Slots : worker.total <= t /\ t < worker.desired * SlotsPerNLB}
             missing == {t \in range : ListOfPAs[t].phase = "none"}
             exists  == {t \in missing : pa[t].phase # "none"}
             before(stops) == {t \in missing : \A u \in stops : t < u}
  <2>1. PICK failed \in SUBSET (missing \ exists) :
          pa' = [t \in Slots |-> IF t \in before(exists \cup failed) THEN NewPA ELSE pa[t]]
    BY <1>8 DEF CreateSlots
  <2>2. CASE s \in before(exists \cup failed)
    <3>1. s \in missing /\ s \notin exists
      BY <2>2 DEF Slots
    <3>2. pa[s].phase = "none" /\ s < worker.desired * SlotsPerNLB
      BY <3>1
    <3>3. worker.desired \in Nat
      BY <1>1 DEF Workers
    <3>4. \A n \in NLBsOf(s) : n \in NLBs /\ n[1] < worker.desired
      BY <3>2, <3>3, SlotOfNLB
    <3>5. \A n \in NLBsOf(s) : Live(n)
      BY <1>8, <3>4 DEF CreateSlots, InfraInv
    <3>6. pa'[s] = NewPA
      BY <2>1, <2>2
    <3> QED
      BY <1>8, <3>2, <3>5, <3>6 DEF CreateSlots, Created
  <2>3. CASE s \notin before(exists \cup failed)
    BY <2>1, <2>3
  <2> QED
    BY <2>2, <2>3
<1>9. CASE DeletePAs
  <2>1. \/ pa'[s] = pa[s]
        \/ pa'[s] = [pa[s] EXCEPT !.deleting = TRUE] /\ pa[s].phase # "none"
    BY <1>9 DEF DeletePAs
  <2> QED
    BY <1>3, <1>9, <2>1 DEF DeletePAs, Deleted
<1>10. CASE UNCHANGED pa
  BY <1>10
<1>11. CASE \/ AddFinalizer \/ StartSizing \/ EnsureNLBsAndEIPs \/ CheckSlots \/ UpdatePhase
            \/ StartDeletion \/ CollectIds \/ DeleteNLBs \/ WaitForCloud \/ RemoveFinalizer
  BY <1>10, <1>11
  DEF AddFinalizer, StartSizing, EnsureNLBsAndEIPs, CheckSlots, UpdatePhase, StartDeletion,
      CollectIds, DeleteNLBs, WaitForCloud, RemoveFinalizer, paVars
<1>12. CASE Abort \/ SyncPool \/ SyncPAs \/ SyncEIPs \/ SyncNLBs \/ DeletePool \/ Unblock
  BY <1>10, <1>12
  DEF Abort, SyncPool, SyncPAs, SyncEIPs, SyncNLBs, DeletePool, Unblock, Edit, paVars
<1>13. ASSUME NEW n \in NLBs, EIPStep(n) \/ NLBStep(n) \/ NLBLeaves(n) PROVE UNCHANGED pa
  BY <1>13 DEF EIPStep, NLBStep, NLBLeaves, Infra, paVars
<1>14. CASE UNCHANGED vars
  BY <1>10, <1>14 DEF vars, paVars
<1> QED
  BY <1>4, <1>5, <1>6, <1>7, <1>8, <1>9, <1>10, <1>11, <1>12, <1>13, <1>14
  DEF Next, WorkerStep

\* Every step.
LEMMA PAsStep ==
  ASSUME BaseInv, FlagsInv, InfraInv, PAsInv, [Next]_vars
  PROVE  PAsInv'
<1> SUFFICES ASSUME NEW s \in Slots
             PROVE  /\ pa'[s].phase = "none" => ~pa'[s].deleting
                    /\ pa'[s].phase # "none" => \A n \in NLBsOf(s) : Stands(n)'
  BY DEF PAsInv
<1>1. \A n \in NLBsOf(s) : n \in NLBs /\ (Stands(n) => Stands(n)')
  BY InfraStep, SlotOfNLB
<1>2. /\ pa[s].phase = "none" => ~pa[s].deleting
      /\ pa[s].phase # "none" => \A n \in NLBsOf(s) : Stands(n)
  BY DEF PAsInv
<1>3. CASE pa'[s] = pa[s] \/ Deleted(s) \/ Moved(s)
  BY <1>1, <1>2, <1>3 DEF Deleted, Moved
<1>4. CASE Created(s)
  <2>1. \A n \in NLBsOf(s) : Stands(n)
    BY <1>4 DEF Created, Stands, Live
  <2> QED
    BY <1>1, <1>4, <2>1 DEF Created, NewPA
<1>5. CASE Left(s)
  BY <1>5 DEF Left, NoPA
<1> QED
  BY <1>3, <1>4, <1>5, PAChange

-----------------------------------------------------------------------------
(* Safety, whatever is read and whatever users do.                          *)

ServiceInv == BaseInv /\ FlagsInv /\ InfraInv /\ PAsInv

\* All of it holds in every reachable state.
LEMMA ServiceInvariant == Spec => []ServiceInv
<1>1. Init => ServiceInv
  BY InitBase, InitFlags, InitInfra DEF ServiceInv
<1>2. ServiceInv /\ [Next]_vars => ServiceInv'
  BY BaseStep, FlagsStep, InfraStep, PAsStep DEF ServiceInv
<1> QED
  BY <1>1, <1>2, PTL DEF Spec

\* Every step, as the promise about slot s sees it.
LEMMA SlotStep ==
  ASSUME ServiceInv, [Next]_vars, NEW s \in Slots
  PROVE  [Slot(s)!Next]_(Slot(s)!vars)
<1>1. BaseInv /\ FlagsInv /\ InfraInv /\ PAsInv
  BY DEF ServiceInv
<1> DEFINE live(l) == Live(<<s \div SlotsPerNLB, l>>)
<1>2. NLBsOf(s) = {<<s \div SlotsPerNLB, l>> : l \in Lanes}
  BY DEF NLBsOf
<1>3. CASE pa'[s] = pa[s]
  <2>1. pa[s].phase # "none" => \A l \in Lanes : live(l)' => live(l)
    BY <1>1, <1>2, InfraStep, SlotOfNLB DEF PAsInv
  <2> QED
    BY <1>3, <2>1 DEF Slot!Next, Slot!Infrastructure
<1> DEFINE lives == {l \in Lanes : Live(<<s \div SlotsPerNLB, l>>)}
<1>4. UNCHANGED infraVars => lives' = lives
  BY DEF Live, infraVars
<1>5. CASE UNCHANGED infraVars /\ Created(s)
  <2>1. lives = Lanes
    BY <1>2, <1>5 DEF Created
  <2>2. pa'[s].deleting = FALSE /\ pa'[s].phase = "Provisioning"
    BY <1>5 DEF Created, NewPA
  <2>3. pa[s].deleting = FALSE
    <3>1. pa[s] \in PARecords
      BY <1>1 DEF BaseInv, PAPart
    <3>2. ~pa[s].deleting
      BY <1>1, <1>5 DEF PAsInv, Created
    <3> QED
      BY <3>1, <3>2 DEF PARecords
  <2> QED
    BY <1>4, <1>5, <2>1, <2>2, <2>3 DEF Created, Slot!Next, Slot!Create
<1>6. CASE UNCHANGED infraVars /\ Deleted(s)
  <2>1. pa'[s] \in PARecords
    BY <1>1, BaseStep DEF BaseInv, PAPart
  <2>2. pa'[s].deleting = TRUE
    BY <1>6, <2>1 DEF PARecords, Deleted
  <2> QED
    BY <1>4, <1>6, <2>2 DEF Deleted, Slot!Next, Slot!Delete
<1>7. CASE UNCHANGED infraVars /\ Moved(s)
  BY <1>4, <1>7 DEF Moved, Slot!Next, Slot!Serve, Slot!vars
<1>8. CASE UNCHANGED infraVars /\ Left(s)
  <2>1. pa[s].phase # "none" /\ pa'[s].phase = "none" /\ pa'[s].deleting = FALSE
    BY <1>1, <1>8 DEF PAsInv, Left, NoPA
  <2>2. pa[s].phase = "Provisioning" \/ lives = {}
    BY <1>2, <1>8 DEF Left
  <2> QED
    BY <1>4, <1>8, <2>1, <2>2 DEF Left, Slot!Next, Slot!Leave
<1> QED
  BY <1>1, <1>3, <1>5, <1>6, <1>7, <1>8, PAChange

\* The pool creates a PA only on NLBs that are live, in every lane, and replaces none
\* of them under a PA: to every slot it is what the PA controller relies on (PASlot).
THEOREM KeepsSlotPromise == Spec => SlotsKeepPromise
<1>1. Init => \A s \in Slots : Slot(s)!Init
  BY DEF Init, NoPA, Slot!Init
<1>2. ServiceInv /\ [Next]_vars => \A s \in Slots : [Slot(s)!Next]_(Slot(s)!vars)
  BY SlotStep
<1> QED
  BY <1>1, <1>2, ServiceInvariant, PTL DEF Spec, SlotsKeepPromise

-----------------------------------------------------------------------------
(* Teardown: nothing before the approval, the cloud before the PAs.         *)

\* Who touches the infrastructure.
LEMMA InfraChange ==
  ASSUME [Next]_vars
  PROVE  \/ UNCHANGED infraVars
         \/ EnsureNLBsAndEIPs \/ CollectIds \/ DeleteNLBs
         \/ \E n \in NLBs : EIPStep(n) \/ NLBStep(n) \/ NLBLeaves(n)
         \/ SyncEIPs \/ SyncNLBs
<1>1. CASE \/ AddFinalizer \/ StartSizing \/ CheckSlots \/ CreateSlots \/ UpdatePhase
           \/ StartDeletion \/ WaitForCloud \/ DeletePAs \/ RemoveFinalizer
  BY <1>1
  DEF AddFinalizer, StartSizing, CheckSlots, CreateSlots, UpdatePhase, StartDeletion,
      WaitForCloud, DeletePAs, RemoveFinalizer
<1>2. CASE Abort \/ SyncPool \/ SyncPAs \/ DeletePool \/ Unblock
  BY <1>2 DEF Abort, SyncPool, SyncPAs, DeletePool, Unblock, Edit
<1>3. ASSUME NEW s \in Slots, PAStep(s) \/ PodStep(s) \/ DeletePA(s) \/ PALeaves(s)
      PROVE  UNCHANGED infraVars
  BY <1>3 DEF PAStep, PodStep, PAMove, DeletePA, PALeaves
<1>4. CASE UNCHANGED vars
  BY <1>4 DEF vars
<1> QED
  BY <1>1, <1>2, <1>3, <1>4 DEF Next, WorkerStep

\* Only the deletion tears something down, unless users delete PAs.
LEMMA TearsDown ==
  ASSUME BaseInv, InfraInv, [Next]_vars, ~InDeletion
  PROVE  /\ \A n \in NLBs : /\ eip'[n] = "deleting" => eip[n] = "deleting"
                            /\ nlb'[n].object = "deleting" => nlb[n].object = "deleting"
         /\ "deletePA" \notin UserEdits =>
               \A s \in Slots : pa'[s].deleting => pa[s].deleting
<1>1. ASSUME NEW n \in NLBs
      PROVE  /\ eip'[n] = "deleting" => eip[n] = "deleting"
             /\ nlb'[n].object = "deleting" => nlb[n].object = "deleting"
  <2>1. CASE UNCHANGED infraVars
    BY <2>1 DEF infraVars
  <2>2. ASSUME NEW m \in NLBs, EIPStep(m) \/ NLBStep(m) \/ NLBLeaves(m)
        PROVE  Operated(n)
    BY <2>2, OperatorMoves
  <2>3. CASE EnsureNLBsAndEIPs
    <3>1. [NoNLB EXCEPT !.object = "present"].object = "present"
      BY DEF NoNLB
    <3> QED
      BY <2>3, <3>1 DEF EnsureNLBsAndEIPs
  <2>4. CASE CollectIds \/ DeleteNLBs
    BY <2>4 DEF CollectIds, DeleteNLBs, At, InDeletion
  <2>5. CASE SyncEIPs \/ SyncNLBs
    BY <2>5, SyncInfra
  <2> QED
    BY <2>1, <2>2, <2>3, <2>4, <2>5, InfraChange DEF Operated
<1>2. ASSUME "deletePA" \notin UserEdits, NEW s \in Slots, pa'[s].deleting
      PROVE  pa[s].deleting
  <2>1. ~Deleted(s) /\ ~Created(s) /\ ~Left(s)
    BY <1>2 DEF Deleted, Created, Left, At, InDeletion, NewPA, NoPA
  <2> QED
    BY <1>2, <2>1, PAChange DEF Moved
<1> QED
  BY <1>1, <1>2

\* Nothing is torn down as long as the pool is in service, or its deletion is blocked.
\* (Users who delete a PA do so whatever the annotations of the pool say.)
THEOREM NothingBeforeApproval ==
  ASSUME "deletePA" \notin UserEdits
  PROVE  Spec => []ApprovedFirst
<1>1. Init => ApprovedFirst
  BY DEF Init, ApprovedFirst, NoNLB, NoPA
<1>2. ServiceInv /\ ApprovedFirst /\ [Next]_vars => ApprovedFirst'
  <2> SUFFICES ASSUME ServiceInv, ApprovedFirst, [Next]_vars,
                      pool' # Null, ~pool'.deleting \/ pool'.blocked
               PROVE  /\ \A n \in NLBs : eip'[n] # "deleting" /\ nlb'[n].object # "deleting"
                      /\ \A s \in Slots : ~pa'[s].deleting
    BY DEF ApprovedFirst
  <2>1. BaseInv /\ FlagsInv /\ InfraInv
    BY DEF ServiceInv
  <2>2. pool # Null /\ (~pool.deleting \/ pool.blocked)
    BY <2>1, PoolStep DEF Follows
  <2>3. ~InDeletion
    BY <2>1, <2>2 DEF FlagsInv, DeletionInv
  <2> QED
    BY <2>1, <2>2, <2>3, TearsDown DEF ApprovedFirst
<1> QED
  BY <1>1, <1>2, ServiceInvariant, PTL DEF Spec

\* The ids that the pool records.
LEMMA IdsStep ==
  ASSUME BaseInv, [Next]_vars, pool # Null, pool' # Null, ~CollectIds, ~WaitForCloud
  PROVE  pool'.ids = pool.ids
<1>1. PoolPart /\ pool \in PoolRecords
  BY DEF BaseInv, PoolPart
<1>2. CASE pool' = pool
  BY <1>2
<1>3. ASSUME NEW x,
             \/ pool' = [pool EXCEPT !.phase = x]
             \/ pool' = [pool EXCEPT !.finalizer = x]
             \/ pool' = [pool EXCEPT !.deleting = x]
             \/ pool' = [pool EXCEPT !.blocked = x]
      PROVE  pool'.ids = pool.ids
  BY <1>1, <1>3 DEF PoolRecords
<1>4. CASE DeletePool \/ Unblock \/ AddFinalizer
  <2>1. \/ pool' = [pool EXCEPT !.finalizer = TRUE]
        \/ pool' = [pool EXCEPT !.deleting = TRUE]
        \/ pool' = [pool EXCEPT !.blocked = FALSE]
    BY <1>4 DEF DeletePool, Unblock, AddFinalizer, Edit, WritePool
  <2> QED
    BY <1>3, <2>1
<1>5. CASE StartSizing \/ UpdatePhase
  <2>1. pool' = pool \/ \E x : pool' = [pool EXCEPT !.phase = x]
    BY <1>5, Zenon DEF StartSizing, UpdatePhase, TryStatus
  <2> QED
    BY <1>3, <2>1
<1>6. CASE StartDeletion
  <2>1. pool' = pool \/ pool' = [pool EXCEPT !.phase = "Deleting"]
    BY <1>1, <1>6 DEF StartDeletion, WritePool, PoolPart, SyncInv
  <2> QED
    BY <1>3, <2>1
<1>7. CASE RemoveFinalizer
  BY <1>7 DEF RemoveFinalizer, WritePool
<1>8. CASE EnsureNLBsAndEIPs \/ CheckSlots \/ CreateSlots \/ DeleteNLBs \/ DeletePAs
           \/ Abort \/ SyncPool \/ SyncPAs \/ SyncEIPs \/ SyncNLBs
  BY <1>2, <1>8
  DEF EnsureNLBsAndEIPs, CheckSlots, CreateSlots, DeleteNLBs, DeletePAs, Abort, SyncPool,
      SyncPAs, SyncEIPs, SyncNLBs, poolVars
<1>9. ASSUME NEW n \in NLBs, EIPStep(n) \/ NLBStep(n) \/ NLBLeaves(n) PROVE pool' = pool
  BY <1>9 DEF EIPStep, NLBStep, NLBLeaves, Infra, poolVars
<1>10. ASSUME NEW s \in Slots, PAStep(s) \/ PodStep(s) \/ DeletePA(s) \/ PALeaves(s)
       PROVE  pool' = pool
  BY <1>10 DEF PAStep, PodStep, PAMove, DeletePA, PALeaves, poolVars
<1>11. CASE UNCHANGED vars
  BY <1>2, <1>11 DEF vars, poolVars
<1> QED
  BY <1>2, <1>4, <1>5, <1>6, <1>7, <1>8, <1>9, <1>10, <1>11 DEF Next, WorkerStep

\* An NLB that the cloud still has is on record, and the worker which waits for it has
\* read the record.
CollectedInv ==
    /\ \A n \in collected : /\ nlb[n].object = "present" => nlb[n].id
                            /\ cloud[n] => pool # Null /\ pool.finalizer /\ n \in pool.ids
    /\ worker.pc \in {"collect", "deleteNLBs", "wait"} /\ pool # Null =>
          worker.mem.ids = pool.ids
    /\ worker.pc \in {"deletePAs", "verify"} => \A n \in collected : ~cloud[n]

\* An NLB that is gone does not come back.
LEMMA CollectedGo ==
  ASSUME ServiceInv, CollectedInv, [Next]_vars, NEW n \in collected
  PROVE  /\ cloud'[n] => cloud[n]
         /\ nlb'[n].object = "present" => nlb'[n].id
<1>1. BaseInv /\ FlagsInv /\ InfraInv /\ n \in NLBs
  BY DEF ServiceInv, BaseInv, HistoryPart
<1>2. ~InCharge
  BY <1>1 DEF InfraInv
<1>3. nlb[n].object = "present" => nlb[n].id /\ cloud[n]
  BY <1>1 DEF CollectedInv, InfraInv, BuiltInv
<1>4. CASE UNCHANGED infraVars
  BY <1>3, <1>4 DEF infraVars
<1>5. ~EnsureNLBsAndEIPs
  BY <1>2 DEF EnsureNLBsAndEIPs, At, InCharge, Sizing
<1>6. CASE CollectIds \/ DeleteNLBs
  BY <1>1, <1>3, <1>6, DeleteInfra DEF CollectIds, DeleteNLBs
<1>7. ASSUME NEW m \in NLBs, EIPStep(m) \/ NLBStep(m) \/ NLBLeaves(m)
      PROVE  Operated(n)
  BY <1>1, <1>7, OperatorMoves
<1>8. CASE SyncEIPs \/ SyncNLBs
  BY <1>1, <1>3, <1>8, SyncInfra
<1> QED
  BY <1>3, <1>4, <1>5, <1>6, <1>7, <1>8, InfraChange DEF Operated

\* The steps that neither start the deletion, nor record ids, nor drop them.
LEMMA OtherSteps ==
  ASSUME BaseInv, [Next]_vars, ~StartDeletion, ~CollectIds, ~WaitForCloud
  PROVE  /\ collected' = collected
         /\ worker'.pc \in {"collect", "deleteNLBs", "wait"} =>
               worker.pc \in {"collect", "deleteNLBs", "wait"} /\ worker'.mem = worker.mem
         /\ worker'.pc \in {"deletePAs", "verify"} => worker.pc \in {"deletePAs", "verify"}
<1>1. worker \in Workers
  BY DEF BaseInv, WorkerPart
<1>2. Idle.pc = "idle"
  BY DEF Idle
<1>3. CASE UNCHANGED <<worker, collected>>
  BY <1>3
<1>4. CASE collected' = collected /\ worker'.pc \in {"idle", "infra", "slots", "phase"}
  BY <1>4
<1>5. CASE AddFinalizer \/ SyncPool \/ SyncPAs \/ SyncEIPs \/ SyncNLBs
  BY <1>3, <1>5 DEF AddFinalizer, SyncPool, SyncPAs, SyncEIPs, SyncNLBs
<1>6. CASE StartSizing
  <2>1. worker'.pc = "infra"
    BY <1>6, Zenon DEF StartSizing, Idle
  <2> QED
    BY <1>4, <1>6, <2>1 DEF StartSizing
<1>7. CASE EnsureNLBsAndEIPs \/ CheckSlots \/ CreateSlots
  <2>1. worker'.pc \in {"idle", "slots", "phase"}
    <3>1. CASE EnsureNLBsAndEIPs
      BY <1>1, <1>2, <3>1, Zenon DEF EnsureNLBsAndEIPs, Workers
    <3>2. CASE CheckSlots \/ CreateSlots
      BY <1>1, <1>2, <3>2, Zenon DEF CheckSlots, CreateSlots, Workers
    <3> QED
      BY <1>7, <3>1, <3>2
  <2> QED
    BY <1>4, <1>7, <2>1 DEF EnsureNLBsAndEIPs, CheckSlots, CreateSlots
<1>8. CASE UpdatePhase \/ RemoveFinalizer \/ Abort
  BY <1>2, <1>4, <1>8 DEF UpdatePhase, RemoveFinalizer, Abort
<1>9. CASE DeleteNLBs
  <2>1. \/ worker'.pc = "idle"
        \/ worker'.pc = "wait" /\ worker'.mem = worker.mem
    BY <1>1, <1>2, <1>9, Zenon DEF DeleteNLBs, Workers
  <2> QED
    BY <1>9, <2>1 DEF DeleteNLBs, At
<1>10. CASE DeletePAs
  <2>1. worker'.pc \in {"idle", "verify"}
    BY <1>1, <1>2, <1>10, Zenon DEF DeletePAs, Workers
  <2> QED
    BY <1>10, <2>1 DEF DeletePAs, At
<1>11. CASE DeletePool \/ Unblock
  <2>1. worker' = [worker EXCEPT !.memOK = FALSE] /\ collected' = collected
    BY <1>11 DEF DeletePool, Unblock, Edit
  <2>2. worker'.pc = worker.pc /\ worker'.mem = worker.mem
    BY <1>1, <2>1, Zenon DEF Workers
  <2> QED
    BY <2>1, <2>2
<1>12. ASSUME NEW n \in NLBs, EIPStep(n) \/ NLBStep(n) \/ NLBLeaves(n)
       PROVE  UNCHANGED <<worker, collected>>
  BY <1>12 DEF EIPStep, NLBStep, NLBLeaves, Infra
<1>13. ASSUME NEW s \in Slots, PAStep(s) \/ PodStep(s) \/ DeletePA(s) \/ PALeaves(s)
       PROVE  UNCHANGED <<worker, collected>>
  BY <1>13 DEF PAStep, PodStep, PAMove, DeletePA, PALeaves
<1>14. CASE UNCHANGED vars
  BY <1>3, <1>14 DEF vars
<1> QED
  BY <1>3, <1>5, <1>6, <1>7, <1>8, <1>9, <1>10, <1>11, <1>12, <1>13, <1>14
  DEF Next, WorkerStep

\* Every step, where the worker reads the pool as it is.
LEMMA CollectedStep ==
  ASSUME "pool" \notin CacheLag, ServiceInv, CollectedInv, [Next]_vars
  PROVE  CollectedInv'
<1>1. /\ BaseInv /\ FlagsInv /\ PoolPart /\ DeletionInv
      /\ worker \in Workers /\ worker.mem \in PoolRecords
  BY DEF ServiceInv, BaseInv, FlagsInv, WorkerPart, Workers
<1>2. \A n \in collected : /\ cloud'[n] => cloud[n]
                           /\ nlb'[n].object = "present" => nlb'[n].id
  BY CollectedGo
\* The record of the pool, if it stays.
<1>3. ASSUME pool # Null, pool.finalizer, ~RemoveFinalizer
      PROVE  pool' # Null /\ pool'.finalizer
  BY <1>1, <1>3, PoolStep DEF Follows
<1>4. CASE CollectIds
  <2> DEFINE listed == {n \in NLBs : ListOfNLBs[n].object = "present"}
             ids    == {n \in NLBs : ListOfNLBs[n].id}
             r      == [worker.mem EXCEPT !.ids = ids]
             next   == [worker EXCEPT !.pc = "deleteNLBs", !.listed = listed]
  <2>1. worker.pc = "collect" /\ (pool # Null => worker.mem.ids = pool.ids)
        /\ UNCHANGED <<nlb, cloud>> /\ BaseInv /\ InfraInv
    BY <1>4 DEF CollectIds, At, CollectedInv, ServiceInv
  <2>2. r.ids = ids /\ (r.finalizer <=> worker.mem.finalizer) /\ r \in PoolRecords
    BY <1>1 DEF PoolRecords
  <2>3. \/ worker' = next /\ pool' = pool /\ collected' = collected
        \/ /\ worker.memOK /\ pool' = r /\ collected' = collected \cup ids
           /\ worker.mem.ids = {} /\ worker' = [next EXCEPT !.mem = r]
        \/ worker' = Idle /\ pool' = pool /\ collected' = collected
    BY <1>4 DEF CollectIds, WritePool
  <2>4. \A n \in ids : nlb[n].object = "present" => nlb[n].id
    BY <2>1, ListedId
  <2> HIDE DEF ids, r, listed
  <2>5. CASE worker' = next /\ pool' = pool /\ collected' = collected
    <3>1. worker'.pc = "deleteNLBs" /\ worker'.mem = worker.mem
      BY <1>1, <2>5, Zenon DEF Workers
    <3> QED
      BY <1>2, <2>1, <2>5, <3>1 DEF CollectedInv
  <2>6. CASE /\ worker.memOK /\ pool' = r /\ collected' = collected \cup ids
             /\ worker.mem.ids = {} /\ worker' = [next EXCEPT !.mem = r]
    <3>1. worker'.pc = "deleteNLBs" /\ worker'.mem = r
      BY <1>1, <2>6, Zenon DEF Workers
    <3>2. pool' # Null /\ pool'.finalizer /\ pool'.ids = ids
      BY <1>1, <2>1, <2>2, <2>6, NullIsNoRecord DEF DeletionInv, InDeletion
    <3>3. \A n \in collected : ~cloud[n]
      BY <2>1, <2>6 DEF CollectedInv
    <3> QED
      BY <1>2, <2>1, <2>4, <2>6, <3>1, <3>2, <3>3, <2>2 DEF CollectedInv
  <2>7. CASE worker' = Idle /\ pool' = pool /\ collected' = collected
    BY <1>2, <2>1, <2>7 DEF CollectedInv, Idle
  <2> QED
    BY <2>3, <2>5, <2>6, <2>7
<1>5. CASE WaitForCloud
  <2>1. worker.pc = "wait" /\ UNCHANGED <<nlb, cloud, collected>>
    BY <1>5 DEF WaitForCloud, At, infraVars
  <2>2. CASE \E n \in worker.mem.ids : cloud[n]
    <3>1. worker'.pc = "idle" /\ pool' = pool
      BY <1>5, <2>2 DEF WaitForCloud, Idle
    <3> QED
      BY <1>2, <2>1, <3>1 DEF CollectedInv
  <2>3. CASE ~\E n \in worker.mem.ids : cloud[n]
    <3>1. worker'.pc = "deletePAs"
      BY <1>1, <1>5, <2>3, Zenon DEF WaitForCloud, Workers
    <3>2. \A n \in collected : ~cloud[n]
      BY <2>1, <2>3 DEF CollectedInv
    <3> QED
      BY <1>2, <2>1, <3>1, <3>2 DEF CollectedInv
  <2> QED
    BY <2>2, <2>3
<1>6. CASE StartDeletion
  <2>1. poolSynced /\ pool = poolCache /\ pool \in PoolRecords
    BY <1>1, <1>6 DEF StartDeletion, Reconcile, PoolReadable, PoolPart, SyncInv
  <2> DEFINE r == [poolCache EXCEPT !.phase = "Deleting"]
  <2>2. r.ids = pool.ids
    BY <2>1 DEF PoolRecords
  <2>3. pool' = r /\ worker' = [Idle EXCEPT !.pc = "collect", !.mem = r, !.memOK = poolSynced]
        /\ UNCHANGED <<nlb, cloud, collected>>
    BY <1>6, <2>1 DEF StartDeletion, WritePool, infraVars
  <2> HIDE DEF r
  <2>4. worker'.pc = "collect" /\ worker'.mem = r
    BY <2>3, Zenon DEF Idle
  <2>5. ~RemoveFinalizer
    BY <1>6 DEF StartDeletion, Reconcile, RemoveFinalizer, At
  <2> QED
    BY <1>2, <1>3, <2>2, <2>3, <2>4, <2>5 DEF CollectedInv
<1>7. CASE RemoveFinalizer
  <2>1. worker'.pc = "idle" /\ UNCHANGED collected /\ worker.pc = "verify"
    BY <1>7 DEF RemoveFinalizer, Idle, At
  <2> QED
    BY <1>2, <2>1 DEF CollectedInv
<1>8. CASE ~StartDeletion /\ ~CollectIds /\ ~WaitForCloud /\ ~RemoveFinalizer
  <2>1. /\ collected' = collected
        /\ worker'.pc \in {"collect", "deleteNLBs", "wait"} =>
              worker.pc \in {"collect", "deleteNLBs", "wait"} /\ worker'.mem = worker.mem
        /\ worker'.pc \in {"deletePAs", "verify"} => worker.pc \in {"deletePAs", "verify"}
    BY <1>1, <1>8, OtherSteps
  <2>2. pool = Null => pool' = Null
    BY <1>1, PoolStep
  <2>3. pool # Null /\ pool' # Null => pool'.ids = pool.ids
    BY <1>1, <1>8, IdsStep
  <2> QED
    BY <1>2, <1>3, <1>8, <2>1, <2>2, <2>3 DEF CollectedInv
<1> QED
  BY <1>4, <1>5, <1>6, <1>7, <1>8

\* "PAs must NOT be deleted while the cloud cascade is incomplete": where the pool is
\* read as it is and no user deletes a PA, no PA is deleted as long as an NLB whose id
\* the pool has recorded exists in the cloud.  (With a cache that lags the worker may
\* not know of the ids that it has recorded.)
THEOREM PAsGoAfterCloud ==
  ASSUME "pool" \notin CacheLag, "deletePA" \notin UserEdits
  PROVE  Spec => PAsOutliveCollected
<1>1. Init => CollectedInv
  BY DEF Init, CollectedInv, Idle
<1>2. ServiceInv /\ CollectedInv /\ [Next]_vars => CollectedInv'
  BY CollectedStep
<1>3. ServiceInv /\ CollectedInv /\ [Next]_vars =>
        [(\E s \in Slots : pa'[s].deleting /\ ~pa[s].deleting) =>
             \A n \in collected : ~cloud[n]]_vars
  <2> SUFFICES ASSUME ServiceInv, CollectedInv, [Next]_vars,
                      NEW s \in Slots, pa'[s].deleting, ~pa[s].deleting
               PROVE  \A n \in collected : ~cloud[n]
    OBVIOUS
  <2>1. Deleted(s)
    BY PAChange DEF ServiceInv, Created, Moved, Left, NewPA
  <2> QED
    BY <2>1 DEF Deleted, CollectedInv, At
<1> QED
  BY <1>1, <1>2, <1>3, ServiceInvariant, PTL DEF Spec, PAsOutliveCollected

-----------------------------------------------------------------------------
(* The last thing to go, where the lists of NLBs and EIPs are current.      *)

Objects == \E n \in NLBs : eip[n] # "none" \/ nlb[n].object # "none"

OwnedInv == Objects => pool # Null /\ pool.finalizer

\* Only the worker that sizes the pool brings an object into being.
LEMMA ObjectsStep ==
  ASSUME BaseInv, InfraInv, FlagsInv, [Next]_vars, Objects'
  PROVE  Objects \/ (pool # Null /\ pool.finalizer /\ UNCHANGED pool)
<1>1. CASE UNCHANGED <<eip, nlb>>
  BY <1>1 DEF Objects
<1>2. CASE EnsureNLBsAndEIPs
  BY <1>2 DEF EnsureNLBsAndEIPs, FlagsInv, PoolInv, Sizing, At, poolVars
<1>3. CASE CollectIds
  BY <1>3 DEF CollectIds, Objects
<1>4. CASE DeleteNLBs
  <2>1. \A n \in NLBs : nlb'[n] = nlb[n] \/ nlb[n].object = "present"
    BY <1>4 DEF DeleteNLBs
  <2> QED
    BY <1>4, <2>1 DEF DeleteNLBs, Objects
<1>5. ASSUME NEW n \in NLBs, EIPStep(n) \/ NLBStep(n) \/ NLBLeaves(n) PROVE Objects
  BY <1>5, OperatorMoves DEF Objects, Operated
<1> QED
  BY <1>1, <1>2, <1>3, <1>4, <1>5, SyncInfra, InfraChange DEF infraVars

\* The finalizer goes last: no NLB or EIP object outlives the pool, however far the pool
\* and the list of its PAs are behind.  (A worker that lists NLBs and EIPs from a cache
\* may overlook the ones that it has just created, and remove the finalizer.)
THEOREM InfrastructureGoesFirst ==
  ASSUME "infra" \notin CacheLag
  PROVE  Spec => []PoolGoneLast
<1>1. Init => OwnedInv
  BY DEF Init, OwnedInv, Objects, NoNLB
<1>2. ServiceInv /\ OwnedInv /\ [Next]_vars => OwnedInv'
  <2> SUFFICES ASSUME ServiceInv, OwnedInv, [Next]_vars, Objects'
               PROVE  pool' # Null /\ pool'.finalizer
    BY DEF OwnedInv
  <2>1. BaseInv /\ FlagsInv /\ InfraInv
    BY DEF ServiceInv
  <2>2. CASE pool # Null /\ pool.finalizer /\ UNCHANGED pool
    BY <2>2
  <2>3. CASE Objects
    <3>1. HasChildResources <=> Objects
      BY DEF HasChildResources, Objects, ListOfNLBs, ListOfEIPs
    <3> QED
      BY <2>1, <2>3, <3>1, PoolStep DEF OwnedInv, Follows
  <2> QED
    BY <2>1, <2>2, <2>3, ObjectsStep
<1>3. OwnedInv => PoolGoneLast
  BY DEF OwnedInv, Objects, PoolGoneLast
<1> QED
  BY <1>1, <1>2, <1>3, ServiceInvariant, PTL DEF Spec
=============================================================================
