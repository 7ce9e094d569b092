------------------------ MODULE PAProvisioningProofs ------------------------
(***************************************************************************)
(* Type correctness of PAProvisioning, what its worker may rely on, and who *)
(* owns what there is in the cloud.                                         *)
(*                                                                          *)
(* TypeOK alone is not inductive.  A patch needs a PA to write to, a cloud  *)
(* call needs the id of an SG, and the worker has both only because it      *)
(* works on the current incarnation of the PA, however old its copy of it   *)
(* is.  BaseInv says so: a cached PA that the worker may start to provision *)
(* is an earlier version of the PA there is, and so is the worker's copy;   *)
(* and only the worker, by a CAS, removes a PA that has the finalizer.      *)
(*                                                                          *)
(* What PAProvisioning publishes is served, and it implements PASlot.       *)
(*                                                                          *)
(* The hard case of the first is a worker that goes by an old copy of the   *)
(* PA and repeats a CreateListener under a client token that the cloud      *)
(* still remembers: the answer is the id of a listener that may have failed *)
(* and been replaced.  ServedInv says why the worker never records it: a    *)
(* copy that does not show a listener which is known to run shows something *)
(* else, before that listener, which makes the worker patch the PA, or end  *)
(* the reconcile, and the response of the patch refreshes the copy.         *)
(***************************************************************************)
EXTENDS PAProvisioning, TLAPS

\* The ids in the arrays of a PA are those of its own SGs; an entry has an id as
\* soon as it is Creating.  The arrays are filled together, after the finalizer is
\* set and with the phase, and only a deletion empties them.
IdsOf(r) ==
    /\ \A i \in Ports :
         r.sgs[i].id = IF r.sgs[i].phase \in {"Creating", "Active"} THEN r.uid ELSE 0
    /\ \A k \in Listeners :
         r.lsns[k].id = 0 <=> r.lsns[k].phase \in {"Gone", "Pending"}

Empty(r) ==
    /\ \A i \in Ports : r.sgs[i].phase = "Gone"
    /\ \A k \in Listeners : r.lsns[k].phase = "Gone"

Filled(r) ==
    /\ \A i \in Ports : r.sgs[i].phase # "Gone"
    /\ \A k \in Listeners : r.lsns[k].phase # "Gone"

WellFormed(r) ==
    /\ IdsOf(r)
    /\ ~r.deleting => Empty(r) \/ Filled(r)
    /\ r.phase = "" \/ ~r.finalizer => Empty(r)
    /\ ~r.finalizer => \A k \in Listeners : r.endpoints[k] = 0

\* The version p of a PA has all that its earlier version r has.
Follows(r, p) ==
    /\ \A i \in Ports :
         /\ r.sgs[i].phase # "Gone" => p.sgs[i].phase # "Gone"
         /\ r.sgs[i].id # 0 => p.sgs[i].id # 0
    /\ \A k \in Listeners :
         /\ r.lsns[k].phase # "Gone" => p.lsns[k].phase # "Gone"
         /\ r.lsns[k].id # 0 => p.lsns[k].id # 0

\* r is a version of the PA p there is, which is not about to be removed behind the
\* back of whoever goes by r.
Current(r, p) ==
    /\ r # Null /\ r.finalizer
    /\ p # Null /\ p.uid = r.uid /\ p.finalizer
    /\ Follows(r, p)

Usable(r) == r # Null /\ r.finalizer /\ ~r.deleting

PAInv ==
    /\ pa # Null => pa.uid = uid /\ WellFormed(pa)
    /\ paCache # Null => paCache.uid <= uid /\ WellFormed(paCache)
    /\ paSynced => paCache = pa
    /\ Usable(paCache) => Current(paCache, pa)

InLoops == worker.pc \in {"serverGroups", "patchSG", "listeners", "patchListener", "promote"}

\* The worker in the middle of handleProvisioning.
LoopInv ==
    InLoops =>
        /\ Current(worker.mem, pa) /\ WellFormed(worker.mem) /\ Filled(worker.mem)
        /\ worker.i > 0
        /\ At("patchSG") =>
             /\ worker.i \in Ports
             /\ worker.id = uid
             /\ worker.mem.sgs[worker.i].phase = "Pending"
        /\ At("patchListener") => worker.i \in Listeners /\ worker.id > 0
        /\ worker.pc \in {"serverGroups", "patchSG"} /\ worker.ready =>
             \A j \in Ports : j < worker.i => worker.mem.sgs[j].id # 0
        /\ worker.pc \in {"listeners", "patchListener", "promote"} =>
             \A j \in Ports : worker.mem.sgs[j].id # 0

\* The worker in the middle of handleDeletion: a copy that is current differs from
\* the PA in its phase and in what is already off the arrays.
DeletionInv ==
    At("deletion") =>
        /\ worker.mem # Null /\ WellFormed(worker.mem)
        /\ worker.mem.deleting /\ worker.mem.finalizer
        /\ worker.mem.uid <= uid
        /\ worker.memOK =>
             /\ pa # Null /\ pa.deleting /\ pa.finalizer
             /\ worker.mem.uid = pa.uid
             /\ worker.mem.endpoints = pa.endpoints
             /\ \A i \in Ports : worker.mem.sgs[i] \in {Gone, pa.sgs[i]}
             /\ \A k \in Listeners : worker.mem.lsns[k] \in {Gone, pa.lsns[k]}
             /\ paCache # Null /\ paCache.deleting

WorkerInv ==
    /\ LoopInv
    /\ At("setAvailable") => pa # Null /\ pa.finalizer
    /\ DeletionInv

\* The ids that the cloud gives to listeners and remembers with its tokens.
CloudInv ==
    /\ \A k \in Listeners : listener[k] # Null => listener[k].id \in 1..made
    /\ \A k \in Listeners, t \in Prefixes : tokens[k][t] <= made

BaseInv == TypeOK /\ PAInv /\ WorkerInv /\ CloudInv

-----------------------------------------------------------------------------
(* The layout of the arrays.                                                *)

\* The listeners, numbered lane by lane, have a port and a lane each.
LEMMA Layout ==
  /\ \A k \in Listeners : PortOf(k) \in Ports /\ LaneOf(k) \in Lanes
  /\ \A l \in Lanes : l \in Listeners /\ LaneOf(l) = l
<1>1. NumPorts \in Nat /\ NumPorts >= 1 /\ NumLanes \in Nat /\ NumLanes >= 1
  BY ConstantsAssumption
<1>2. ASSUME NEW k \in Listeners PROVE PortOf(k) \in Ports /\ LaneOf(k) \in Lanes
  <2> DEFINE q == (k - 1) \div NumLanes
             m == (k - 1) % NumLanes
  <2>1. k \in Nat /\ k >= 1 /\ k <= NumPorts * NumLanes
    BY <1>1 DEF Listeners
  <2>2. q \in Int /\ m \in 0..(NumLanes - 1) /\ k - 1 = q * NumLanes + m
    BY <1>1, <2>1
  <2> HIDE DEF q, m
  <2>3. q >= 0
    BY <1>1, <2>1, <2>2
  <2>4. q < NumPorts
    BY <1>1, <2>1, <2>2
  <2> QED
    BY <1>1, <2>2, <2>3, <2>4 DEF q, m, PortOf, LaneOf, Ports, Lanes
<1>3. ASSUME NEW l \in Lanes PROVE l \in Listeners /\ LaneOf(l) = l
  <2>1. l <= NumPorts * NumLanes
    BY <1>1 DEF Lanes
  <2>2. (l - 1) % NumLanes = l - 1
    BY <1>1 DEF Lanes
  <2> QED
    BY <1>1, <2>1, <2>2 DEF Lanes, Listeners, LaneOf
<1> QED
  BY <1>2, <1>3

-----------------------------------------------------------------------------
(* Versions of a PA.                                                        *)

\* r is the next version of the PA p that is not being taken down.
Extends(r, p) ==
    /\ r \in PARecords /\ WellFormed(r)
    /\ r.uid = p.uid
    /\ p.finalizer => r.finalizer
    /\ Follows(p, r)

\* Whoever goes by a version of a PA may go by it after the PA has moved on.
LEMMA ExtendCurrent ==
  ASSUME NEW p \in PARecords, NEW r, Extends(r, p), NEW x, Current(x, p)
  PROVE  Current(x, r)
BY NullIsNoRecord DEF Extends, Current, Follows

\* The entries and records that are written have their types.
LEMMA Entries ==
  /\ Gone \in SGEntries /\ Pending \in SGEntries
  /\ Gone \in ListenerEntries /\ Pending \in ListenerEntries
  /\ \A id \in 0..MaxPAs : [id |-> id, phase |-> "Creating"] \in SGEntries
  /\ \A id \in Nat : [id |-> id, phase |-> "Creating"] \in ListenerEntries
  /\ \A e \in SGEntries : [e EXCEPT !.phase = "Active"] \in SGEntries
  /\ \A e \in ListenerEntries : [e EXCEPT !.phase = "Running"] \in ListenerEntries
BY ConstantsAssumption DEF Gone, Pending, SGEntries, ListenerEntries

\* The finalizer and the mark of a deletion are set.
LEMMA ExtendFlags ==
  ASSUME NEW p \in PARecords, WellFormed(p)
  PROVE  /\ Extends([p EXCEPT !.finalizer = TRUE], p)
         /\ Extends([p EXCEPT !.deleting = TRUE], p)
BY DEF PARecords, Extends, WellFormed, IdsOf, Empty, Filled, Follows

\* The phase moves on.
LEMMA ExtendPhase ==
  ASSUME NEW p \in PARecords, WellFormed(p), NEW phase \in Phases \ {""}
  PROVE  Extends([p EXCEPT !.phase = phase], p)
BY DEF PARecords, Extends, WellFormed, IdsOf, Empty, Filled, Follows, Phases

\* The arrays are filled.
LEMMA ExtendArrays ==
  ASSUME NEW p \in PARecords, WellFormed(p), Empty(p), p.finalizer
  PROVE  Extends(FilledArrays(p), p) /\ Filled(FilledArrays(p))
<1>1. FilledArrays(p) \in PARecords
  BY Entries DEF PARecords, FilledArrays, Phases
<1> QED
  BY <1>1 DEF PARecords, FilledArrays, Extends, WellFormed, IdsOf, Empty, Filled, Follows,
              Pending

\* An SG is recorded, or recorded as Active.
LEMMA ExtendSG ==
  ASSUME NEW p \in PARecords, WellFormed(p), Filled(p),
         NEW i \in Ports, NEW e \in SGEntries,
         e.phase \in {"Creating", "Active"}, e.id = p.uid
  PROVE  Extends([p EXCEPT !.sgs[i] = e], p) /\ Filled([p EXCEPT !.sgs[i] = e])
<1> DEFINE r == [p EXCEPT !.sgs[i] = e]
<1>1. r \in PARecords
  BY DEF PARecords
<1>2. p.uid # 0
  BY ConstantsAssumption DEF PARecords, Uids
<1>3. p.finalizer /\ p.phase # ""
  BY ConstantsAssumption DEF WellFormed, Empty, Filled, Ports
<1>4. /\ r.uid = p.uid /\ r.phase = p.phase /\ r.finalizer = p.finalizer
      /\ r.deleting = p.deleting /\ r.lsns = p.lsns /\ r.endpoints = p.endpoints
      /\ r.sgs = [p.sgs EXCEPT ![i] = e]
  BY DEF PARecords
<1>5. \A j \in Ports : r.sgs[j] = IF j = i THEN e ELSE p.sgs[j]
  BY <1>4 DEF PARecords
<1> HIDE DEF r
<1>6. IdsOf(r)
  <2>1. \A j \in Ports :
          r.sgs[j].id = IF r.sgs[j].phase \in {"Creating", "Active"} THEN r.uid ELSE 0
    <3>1. IdsOf(p)
      BY DEF WellFormed
    <3>2. ASSUME NEW j \in Ports, j = i
          PROVE  r.sgs[j].phase \in {"Creating", "Active"} /\ r.sgs[j].id = r.uid
      BY <1>4, <1>5, <3>2
    <3>3. ASSUME NEW j \in Ports, j # i
          PROVE  r.sgs[j] = p.sgs[j] /\ r.uid = p.uid
      BY <1>4, <1>5, <3>3
    <3> QED
      BY <3>1, <3>2, <3>3 DEF IdsOf
  <2> QED
    BY <1>4, <2>1 DEF WellFormed, IdsOf
<1>7. Filled(r)
  BY <1>4, <1>5 DEF Filled
<1>8. Follows(p, r)
  BY <1>2, <1>4, <1>5 DEF Follows
<1>9. Extends(r, p)
  BY <1>1, <1>3, <1>4, <1>6, <1>7, <1>8 DEF Extends, WellFormed
<1> QED
  BY <1>7, <1>9 DEF r

\* A listener is recorded, or recorded as Running.
LEMMA ExtendListener ==
  ASSUME NEW p \in PARecords, WellFormed(p), Filled(p),
         NEW k \in Listeners, NEW e \in ListenerEntries,
         e.phase \in {"Creating", "Running"}, e.id # 0
  PROVE  Extends([p EXCEPT !.lsns[k] = e], p) /\ Filled([p EXCEPT !.lsns[k] = e])
<1> DEFINE r == [p EXCEPT !.lsns[k] = e]
<1>1. r \in PARecords
  BY DEF PARecords
<1>2. p.finalizer /\ p.phase # ""
  BY ConstantsAssumption DEF WellFormed, Empty, Filled, Ports
<1>3. /\ r.uid = p.uid /\ r.phase = p.phase /\ r.finalizer = p.finalizer
      /\ r.deleting = p.deleting /\ r.sgs = p.sgs /\ r.endpoints = p.endpoints
      /\ r.lsns = [p.lsns EXCEPT ![k] = e]
  BY DEF PARecords
<1>4. \A j \in Listeners : r.lsns[j] = IF j = k THEN e ELSE p.lsns[j]
  BY <1>3 DEF PARecords
<1> HIDE DEF r
<1>5. IdsOf(r)
  <2>1. IdsOf(p)
    BY DEF WellFormed
  <2>2. ASSUME NEW j \in Listeners
        PROVE  r.lsns[j].id = 0 <=> r.lsns[j].phase \in {"Gone", "Pending"}
    <3>1. CASE j = k
      BY <1>4, <3>1
    <3>2. CASE j # k
      BY <1>4, <2>1, <3>2 DEF IdsOf
    <3> QED
      BY <3>1, <3>2
  <2> QED
    BY <1>3, <2>1, <2>2 DEF IdsOf
<1>6. Filled(r)
  BY <1>3, <1>4 DEF Filled
<1>7. Follows(p, r)
  BY <1>3, <1>4 DEF Follows
<1>8. Extends(r, p)
  BY <1>1, <1>2, <1>3, <1>5, <1>6, <1>7 DEF Extends, WellFormed
<1> QED
  BY <1>6, <1>8 DEF r

\* The endpoints are published.
LEMMA ExtendEndpoints ==
  ASSUME NEW p \in PARecords, WellFormed(p), p.finalizer, NEW e \in [Listeners -> Nat]
  PROVE  Extends([p EXCEPT !.endpoints = e], p)
BY DEF PARecords, Extends, WellFormed, IdsOf, Empty, Filled, Follows

-----------------------------------------------------------------------------
(* The initial states, and steps of everyone but the worker.                *)

\* The initial states.
LEMMA InitBase == Init => BaseInv
<1> SUFFICES ASSUME Init PROVE BaseInv
  OBVIOUS
<1>1. Idle \in Workers
  BY DEF Idle, Workers, Labels
<1>2. TypeOK
  <2>1. tokens \in [Listeners -> [Prefixes -> Nat]]
    BY DEF Init, NoTokens
  <2>2. uid \in 0..MaxPAs /\ faults \in 0..MaxFaults
    BY ConstantsAssumption DEF Init
  <2> QED
    BY <1>1, <2>1, <2>2 DEF Init, TypeOK
<1>3. PAInv /\ WorkerInv
  BY DEF Init, PAInv, Usable, WorkerInv, LoopInv, DeletionInv, InLoops, At, Idle
<1>4. CloudInv
  BY DEF Init, CloudInv, NoTokens
<1> QED
  BY <1>2, <1>3, <1>4 DEF BaseInv

\* The invariants of the PA and of the worker, after the PA has moved on.
LEMMA ExtendPAInv ==
  ASSUME BaseInv, pa # Null, NEW r, Extends(r, pa), WritePA(r), UNCHANGED <<paCache, uid>>
  PROVE  PAInv' /\ pa' \in PARecords /\ pa' # Null /\ paSynced' \in BOOLEAN
<1>1. pa \in PARecords /\ r # Null
  BY NullIsNoRecord DEF BaseInv, TypeOK, Extends
<1>2. Usable(paCache) => Current(paCache, r)
  BY <1>1, ExtendCurrent DEF BaseInv, PAInv
<1> QED
  BY <1>1, <1>2 DEF BaseInv, TypeOK, PAInv, WritePA, Extends, Usable

\* A worker whose copy a write overtakes still goes by an earlier version.
LEMMA OvertakenWorker ==
  ASSUME BaseInv, pa # Null, NEW r, Extends(r, pa), Overtake(r), UNCHANGED <<paCache, uid>>
  PROVE  WorkerInv' /\ worker' \in Workers
<1> DEFINE ok == worker.memOK /\ r = pa
<1>1. worker' = [worker EXCEPT !.memOK = ok] /\ pa' = r
  BY DEF Overtake, WritePA
<1>2. worker \in Workers /\ pa \in PARecords /\ r # Null
  BY NullIsNoRecord DEF BaseInv, TypeOK, Extends
<1>3. worker' \in Workers
  BY <1>1, <1>2 DEF Workers
<1>4. /\ worker'.pc = worker.pc /\ worker'.mem = worker.mem /\ worker'.i = worker.i
      /\ worker'.id = worker.id /\ worker'.ready = worker.ready
      /\ worker'.memOK => worker.memOK /\ pa' = pa
  BY <1>1, <1>2 DEF Workers
<1>5. InLoops => Current(worker.mem, pa')
  BY <1>1, <1>2, ExtendCurrent DEF BaseInv, WorkerInv, LoopInv
<1>6. LoopInv'
  BY <1>4, <1>5 DEF BaseInv, WorkerInv, LoopInv, InLoops, At
<1>7. DeletionInv'
  BY <1>4 DEF BaseInv, WorkerInv, DeletionInv, At
<1> QED
  BY <1>1, <1>2, <1>3, <1>4, <1>6, <1>7 DEF BaseInv, WorkerInv, At, Extends

\* The PA and its cache are as they were.
LEMMA KeepPAInv ==
  ASSUME PAInv, UNCHANGED <<pa, paCache, paSynced, uid>>
  PROVE  PAInv'
BY DEF PAInv

\* Steps that leave the worker, the PA and its cache alone.
LEMMA KeepWorkerInv ==
  ASSUME WorkerInv, UNCHANGED <<worker, pa, paCache, uid>>
  PROVE  WorkerInv'
BY DEF WorkerInv, LoopInv, DeletionInv, InLoops, At

\* The pool and users.
LEMMA PoolBase ==
  ASSUME BaseInv, CreatePA \/ InitialPhase \/ DeletePA
  PROVE  BaseInv'
<1>1. CASE CreatePA
  <2> DEFINE r == NewPA(uid + 1)
  <2>1. uid + 1 \in Uids /\ uid \in Nat
    BY <1>1, ConstantsAssumption DEF CreatePA, BaseInv, TypeOK, Uids
  <2>2. r \in PARecords
    BY <2>1, Entries DEF NewPA, PARecords, Phases
  <2>3. WellFormed(r)
    BY DEF NewPA, WellFormed, IdsOf, Empty, Filled, Gone
  <2>4. r # pa /\ r.uid = uid + 1
    BY <1>1, <2>2, NullIsNoRecord DEF CreatePA, NewPA
  <2>5. pa' = r /\ paSynced' = FALSE /\ worker' = [worker EXCEPT !.memOK = FALSE]
    BY <1>1, <2>4 DEF CreatePA, Overtake, WritePA, BaseInv, TypeOK, Workers
  <2> HIDE DEF r
  <2>6. PAInv'
    BY <1>1, <2>1, <2>3, <2>4, <2>5
    DEF CreatePA, BaseInv, TypeOK, PAInv, Usable, Current, PARecords, Uids
  <2>7. worker \in Workers /\ worker' \in Workers
    BY <2>5 DEF BaseInv, TypeOK, Workers
  <2>8. worker'.pc = worker.pc /\ worker'.mem = worker.mem /\ ~worker'.memOK
    BY <2>5, <2>7 DEF Workers
  <2>9. ~InLoops /\ ~At("setAvailable")
    BY <1>1 DEF CreatePA, BaseInv, WorkerInv, LoopInv, Current
  <2>10. worker.mem # Null => worker.mem.uid \in Nat
    BY <2>7 DEF Workers, PARecords, Uids
  <2>11. WorkerInv'
    BY <1>1, <2>1, <2>8, <2>9, <2>10
    DEF CreatePA, BaseInv, WorkerInv, LoopInv, DeletionInv, InLoops, At
  <2>12. TypeOK'
    <3>1. tokens' \in [Listeners -> [Prefixes -> Nat]]
      BY <1>1 DEF CreatePA, NoTokens
    <3>2. uid' \in 0..MaxPAs /\ poolWrites' \in BOOLEAN
      BY <1>1, <2>1 DEF CreatePA, Uids
    <3>3. pa' \in PARecords /\ paSynced' \in BOOLEAN /\ worker' \in Workers
      BY <2>2, <2>5, <2>7
    <3>4. UNCHANGED <<paCache, recorded, sg, listener, nlb, made, faults>>
      BY <1>1 DEF CreatePA
    <3> QED
      BY <3>1, <3>2, <3>3, <3>4 DEF BaseInv, TypeOK
  <2>13. CloudInv'
    BY <1>1 DEF CreatePA, BaseInv, TypeOK, CloudInv, NoTokens
  <2> QED
    BY <2>6, <2>11, <2>12, <2>13 DEF BaseInv
<1>2. ASSUME NEW r, pa # Null, Extends(r, pa), Overtake(r), poolWrites' \in BOOLEAN,
             UNCHANGED <<paCache, uid, recorded, cloudVars, faults>>
      PROVE  BaseInv'
  <2>1. WritePA(r)
    BY <1>2 DEF Overtake
  <2>2. PAInv' /\ pa' \in PARecords /\ paSynced' \in BOOLEAN
    BY <1>2, <2>1, ExtendPAInv
  <2>3. WorkerInv' /\ worker' \in Workers
    BY <1>2, OvertakenWorker
  <2>4. CloudInv'
    BY <1>2 DEF BaseInv, CloudInv, cloudVars
  <2> QED
    BY <1>2, <2>2, <2>3, <2>4 DEF BaseInv, TypeOK, cloudVars
<1>3. pa # Null => pa \in PARecords /\ WellFormed(pa)
  BY DEF BaseInv, TypeOK, PAInv
<1>4. CASE InitialPhase
  <2>1. Extends([pa EXCEPT !.phase = "Provisioning"], pa)
    BY <1>3, <1>4, ExtendPhase DEF InitialPhase, Phases
  <2> QED
    BY <1>2, <1>4, <2>1 DEF InitialPhase
<1>5. CASE DeletePA /\ pa.finalizer
  <2>1. Extends([pa EXCEPT !.deleting = TRUE], pa)
    BY <1>3, <1>5, ExtendFlags DEF DeletePA
  <2> QED
    BY <1>2, <1>5, <2>1 DEF DeletePA, BaseInv, TypeOK
<1>6. CASE DeletePA /\ ~pa.finalizer
  <2>1. pa' = Null /\ paSynced' = FALSE /\ worker' = [worker EXCEPT !.memOK = FALSE]
    BY <1>6 DEF DeletePA, Overtake, WritePA, BaseInv, TypeOK, Workers
  <2>2. ~Usable(paCache) /\ ~InLoops /\ ~At("setAvailable")
    BY <1>6 DEF DeletePA, BaseInv, PAInv, WorkerInv, LoopInv, Current
  <2>3. PAInv'
    BY <1>6, <2>1, <2>2 DEF DeletePA, BaseInv, PAInv, Usable
  <2>4. worker \in Workers /\ worker' \in Workers
    BY <2>1 DEF BaseInv, TypeOK, Workers
  <2>5. worker'.pc = worker.pc /\ worker'.mem = worker.mem /\ ~worker'.memOK
    BY <2>1, <2>4 DEF Workers
  <2>6. WorkerInv'
    BY <1>6, <2>2, <2>5
    DEF DeletePA, BaseInv, WorkerInv, LoopInv, DeletionInv, InLoops, At
  <2>7. TypeOK' /\ CloudInv'
    BY <1>6, <2>1, <2>4 DEF DeletePA, BaseInv, TypeOK, CloudInv, cloudVars
  <2> QED
    BY <2>3, <2>6, <2>7 DEF BaseInv
<1> QED
  BY <1>1, <1>4, <1>5, <1>6

\* The informer catches up.
LEMMA SyncBase == BaseInv /\ SyncPA => BaseInv'
<1> SUFFICES ASSUME BaseInv, SyncPA PROVE BaseInv'
  OBVIOUS
<1>1. paCache' = pa /\ paSynced' = TRUE /\ UNCHANGED <<pa, uid, worker>>
  BY DEF SyncPA
<1>2. pa # Null /\ Usable(pa) => Current(pa, pa)
  BY DEF Usable, Current, Follows
<1>3. PAInv'
  BY <1>1, <1>2 DEF BaseInv, TypeOK, PAInv, Usable
<1>4. WorkerInv'
  BY <1>1 DEF BaseInv, WorkerInv, LoopInv, DeletionInv, InLoops, At
<1> QED
  BY <1>1, <1>3, <1>4 DEF SyncPA, BaseInv, TypeOK, CloudInv, cloudVars

\* A fault is counted.
LEMMA FaultBound == BaseInv /\ Fault => faults' \in 0..MaxFaults
BY ConstantsAssumption DEF BaseInv, TypeOK, Fault

-----------------------------------------------------------------------------
(* Steps of the cloud.                                                      *)

\* The steps of the cloud.
LEMMA CloudBase == BaseInv /\ CloudStep => BaseInv'
<1> SUFFICES ASSUME BaseInv, CloudStep PROVE BaseInv'
  OBVIOUS
<1> USE DEF k8sVars, cloudVars
<1>1. UNCHANGED <<k8sVars, worker, made>>
  BY DEF CloudStep, SGReady, SGVanishes, ListenerReady, ListenerFails, ForgetToken,
         DeleteNLB, Cascade
<1>2. PAInv' /\ WorkerInv'
  BY <1>1, KeepPAInv, KeepWorkerInv DEF BaseInv
<1>3. ASSUME sg' \in [SGIds -> {"none", "Creating", "Available", "Deleted"}],
             listener' \in [Listeners -> CloudListeners \cup {Null}],
             \A k \in Listeners : listener'[k] # Null =>
                listener[k] # Null /\ listener'[k].id = listener[k].id,
             tokens' \in [Listeners -> [Prefixes -> Nat]],
             \A k \in Listeners, t \in Prefixes : tokens'[k][t] \in {0, tokens[k][t]},
             nlb' \in [Lanes -> {"Active", "Deleting", "Gone"}],
             faults' \in 0..MaxFaults
      PROVE  BaseInv'
  <2>1. made' = made /\ made \in Nat
    BY <1>1 DEF BaseInv, TypeOK
  <2>2. ASSUME NEW k \in Listeners, listener'[k] # Null PROVE listener'[k].id \in 1..made'
    BY <1>3, <2>1, <2>2 DEF BaseInv, CloudInv
  <2>3. ASSUME NEW k \in Listeners, NEW t \in Prefixes PROVE tokens'[k][t] <= made'
    <3>1. tokens'[k][t] = 0 \/ tokens'[k][t] = tokens[k][t]
      BY <1>3
    <3> QED
      BY <2>1, <3>1 DEF BaseInv, CloudInv
  <2>4. CloudInv'
    BY <2>2, <2>3 DEF CloudInv
  <2> QED
    BY <1>1, <1>2, <1>3, <2>4 DEF BaseInv, TypeOK
<1>4. /\ sg \in [SGIds -> {"none", "Creating", "Available", "Deleted"}]
      /\ listener \in [Listeners -> CloudListeners \cup {Null}]
      /\ tokens \in [Listeners -> [Prefixes -> Nat]]
      /\ nlb \in [Lanes -> {"Active", "Deleting", "Gone"}]
      /\ faults \in 0..MaxFaults
  BY DEF BaseInv, TypeOK
<1>5. ASSUME NEW s \in SGIds, SGReady(s) PROVE BaseInv'
  BY <1>3, <1>4, <1>5 DEF SGReady
<1>6. ASSUME NEW s \in SGIds, SGVanishes(s) PROVE BaseInv'
  BY <1>3, <1>4, <1>6, FaultBound DEF SGVanishes
<1>7. ASSUME NEW k \in Listeners, ListenerReady(k) PROVE BaseInv'
  <2>1. /\ listener[k] \in CloudListeners
        /\ listener' = [listener EXCEPT ![k] = [listener[k] EXCEPT !.running = TRUE]]
    BY <1>4, <1>7 DEF ListenerReady
  <2>2. [listener[k] EXCEPT !.running = TRUE] \in CloudListeners
    BY <2>1 DEF CloudListeners
  <2>3. [listener[k] EXCEPT !.running = TRUE].id = listener[k].id
    BY <2>1 DEF CloudListeners
  <2> QED
    BY <1>3, <1>4, <1>7, <2>1, <2>2, <2>3 DEF ListenerReady
<1>8. ASSUME NEW k \in Listeners, ListenerFails(k) PROVE BaseInv'
  BY <1>3, <1>4, <1>8, FaultBound DEF ListenerFails
<1>9. ASSUME NEW k \in Listeners, NEW t \in Prefixes, ForgetToken(k, t) PROVE BaseInv'
  BY <1>3, <1>4, <1>9 DEF ForgetToken
<1>10. ASSUME NEW l \in Lanes, DeleteNLB(l) PROVE BaseInv'
  BY <1>3, <1>4, <1>10 DEF DeleteNLB
<1>11. ASSUME NEW l \in Lanes, Cascade(l) PROVE BaseInv'
  BY <1>3, <1>4, <1>11 DEF Cascade
<1> QED
  BY <1>5, <1>6, <1>7, <1>8, <1>9, <1>10, <1>11 DEF CloudStep

-----------------------------------------------------------------------------
(* Steps of the worker in handleProvisioning write the PA only to extend it. *)

Onward == pa' = pa \/ (pa # Null /\ Extends(pa', pa))

-----------------------------------------------------------------------------
(* Steps of the worker: the start of a reconcile.                           *)

\* The reconcile ends.
LEMMA IdleBase ==
  ASSUME BaseInv, worker' = Idle, UNCHANGED <<k8sVars, cloudVars>>,
         faults' \in 0..MaxFaults
  PROVE  BaseInv' /\ Onward
<1>1. Idle \in Workers
  BY DEF Idle, Workers, Labels
<1>2. WorkerInv'
  BY DEF WorkerInv, LoopInv, DeletionInv, InLoops, At, Idle
<1> QED
  BY <1>1, <1>2, KeepPAInv DEF Onward, BaseInv, TypeOK, CloudInv, k8sVars, cloudVars

\* A step that writes the PA and leaves the worker idle.
LEMMA OneWriteBase ==
  ASSUME BaseInv, pa # Null, NEW r, Extends(r, pa), WritePA(r),
         worker' \in Workers, worker'.pc \in {"idle", "setAvailable"},
         worker'.pc = "setAvailable" => pa.finalizer,
         UNCHANGED <<paCache, poolWrites, uid, recorded, cloudVars, faults>>
  PROVE  BaseInv' /\ Onward
<1>1. PAInv' /\ pa' \in PARecords /\ pa' # Null /\ paSynced' \in BOOLEAN /\ pa' = r
  BY ExtendPAInv DEF WritePA
<1>2. WorkerInv'
  BY <1>1 DEF WorkerInv, LoopInv, DeletionInv, InLoops, At, Extends
<1> QED
  BY <1>1, <1>2 DEF Onward, BaseInv, TypeOK, CloudInv, cloudVars

\* The steps before the loops over the arrays.
LEMMA StartBase ==
  ASSUME BaseInv, AddFinalizer \/ InitStatus \/ FillArrays \/ StartProvisioning
  PROVE  BaseInv' /\ Onward
<1>1. paCache # Null /\ ~paCache.deleting /\ At("idle")
  BY DEF AddFinalizer, InitStatus, FillArrays, StartProvisioning, Reconcile
<1>2. paCache \in PARecords /\ WellFormed(paCache) /\ worker \in Workers
  BY <1>1 DEF BaseInv, TypeOK, PAInv
<1>3. paSynced => pa = paCache
  BY DEF BaseInv, PAInv
<1>4. ASSUME NEW r, Extends(r, paCache), OneWrite(r) PROVE BaseInv' /\ Onward
  BY <1>1, <1>2, <1>3, <1>4, OneWriteBase DEF OneWrite, At
<1>5. CASE AddFinalizer
  BY <1>2, <1>3, <1>4, <1>5, ExtendFlags DEF AddFinalizer, OneWrite
<1>6. CASE InitStatus
  <2>1. Empty(paCache)
    BY <1>2, <1>6 DEF InitStatus, Reconcile, WellFormed
  <2> QED
    BY <1>2, <1>3, <1>4, <1>6, <2>1, ExtendArrays DEF InitStatus, OneWrite
<1>7. CASE FillArrays
  <2>1. ~Filled(paCache)
    BY <1>7, ConstantsAssumption DEF FillArrays, NoArrays, Filled, Ports, Gone
  <2>2. Empty(paCache)
    BY <1>1, <1>2, <2>1 DEF WellFormed
  <2> QED
    BY <1>2, <1>3, <1>4, <1>7, <2>2, ExtendArrays DEF FillArrays, OneWrite
<1>8. CASE StartProvisioning
  <2> DEFINE w == [Idle EXCEPT !.pc = "serverGroups", !.mem = paCache, !.memOK = paSynced]
  <2>1. Current(paCache, pa)
    BY <1>1, <1>8 DEF StartProvisioning, BaseInv, PAInv, Usable
  <2>2. ~Empty(paCache)
    <3>1. PICK i \in Ports : paCache.sgs[i] # Gone
      BY <1>8 DEF StartProvisioning, NoArrays
    <3>2. paCache.sgs[i] \in SGEntries
      BY <1>2 DEF PARecords
    <3>3. paCache.sgs[i].id = 0 \/ paCache.sgs[i].phase # "Gone"
      BY <1>2 DEF WellFormed, IdsOf
    <3>4. paCache.sgs[i].phase # "Gone"
      BY <3>1, <3>2, <3>3 DEF SGEntries, Gone
    <3> QED
      BY <3>4 DEF Empty
  <2>3. Filled(paCache)
    BY <1>1, <1>2, <2>2 DEF WellFormed
  <2>4. w \in Workers
    BY <1>2 DEF Idle, Workers, Labels, BaseInv, TypeOK
  <2>5. w.pc = "serverGroups" /\ w.mem = paCache /\ w.i = 1
    BY DEF Idle
  <2>6. worker' = w /\ UNCHANGED <<k8sVars, cloudVars, faults>>
    BY <1>8 DEF StartProvisioning
  <2> HIDE DEF w
  <2>7. WorkerInv'
    BY <1>2, <2>1, <2>3, <2>5, <2>6
    DEF WorkerInv, LoopInv, DeletionInv, InLoops, At, k8sVars, Ports
  <2> QED
    BY <2>4, <2>6, <2>7, KeepPAInv DEF Onward, BaseInv, TypeOK, CloudInv, k8sVars, cloudVars
<1> QED
  BY <1>5, <1>6, <1>7, <1>8

-----------------------------------------------------------------------------
(* Steps of the worker: handleProvisioning.                                 *)

\* What the worker knows in the middle of it.
LEMMA InTheLoops ==
  ASSUME BaseInv, InLoops
  PROVE  /\ worker \in Workers /\ worker.mem \in PARecords
         /\ WellFormed(worker.mem) /\ Filled(worker.mem)
         /\ Current(worker.mem, pa)
         /\ pa \in PARecords /\ pa # Null /\ pa.uid = uid /\ WellFormed(pa) /\ Filled(pa)
         /\ worker.i \in Nat \ {0}
<1>1. Current(worker.mem, pa) /\ WellFormed(worker.mem) /\ Filled(worker.mem) /\ worker.i > 0
  BY DEF BaseInv, WorkerInv, LoopInv
<1>2. worker \in Workers /\ pa \in PARecords /\ pa.uid = uid /\ WellFormed(pa)
  BY <1>1 DEF BaseInv, TypeOK, PAInv, Current
<1>3. worker.mem \in PARecords /\ worker.i \in Nat
  BY <1>1, <1>2 DEF Workers, Current
<1>4. Filled(pa)
  BY <1>1 DEF Current, Follows, Filled
<1> QED
  BY <1>1, <1>2, <1>3, <1>4 DEF Current

\* The loop counts on.
LEMMA NextReady ==
  ASSUME NEW w \in Workers, NEW ready \in BOOLEAN
  PROVE  [w EXCEPT !.i = w.i + 1, !.ready = w.ready /\ ready] \in Workers
<1>1. w.i + 1 \in Nat /\ (w.ready /\ ready) \in BOOLEAN
  BY DEF Workers
<1> QED
  BY <1>1, Zenon DEF Workers

\* The loop moves on and writes nothing.
LEMMA NextBase ==
  ASSUME BaseInv, At("serverGroups") \/ At("listeners"), NEW ready \in BOOLEAN,
         NextElement(ready),
         At("serverGroups") /\ ready => worker.i \in Ports /\ worker.mem.sgs[worker.i].id # 0
  PROVE  BaseInv' /\ Onward
<1>1. InLoops
  BY DEF InLoops, At
<1>2. worker \in Workers /\ worker.i \in Nat \ {0}
  BY <1>1, InTheLoops
<1>3. worker' = [worker EXCEPT !.i = worker.i + 1, !.ready = worker.ready /\ ready]
  BY DEF NextElement
<1>4. worker' \in Workers
  BY <1>2, <1>3, NextReady
<1>5. /\ worker'.pc = worker.pc /\ worker'.mem = worker.mem /\ worker'.i = worker.i + 1
      /\ worker'.ready => worker.ready /\ ready
  BY <1>2, <1>3 DEF Workers
<1>6. UNCHANGED <<k8sVars, cloudVars, faults>>
  BY DEF NextElement
<1>7. WorkerInv'
  BY <1>1, <1>2, <1>5, <1>6
  DEF BaseInv, WorkerInv, LoopInv, DeletionInv, InLoops, At, k8sVars, Ports
<1> QED
  BY <1>4, <1>6, <1>7, KeepPAInv DEF Onward, BaseInv, TypeOK, CloudInv, k8sVars, cloudVars

\* The worker writes the next version of the PA and moves on.
LEMMA PatchedBase ==
  ASSUME BaseInv, InLoops, NEW label \in {"serverGroups", "listeners"}, NEW r,
         NEW ready \in BOOLEAN, PatchedNext(label, r, ready),
         Extends(r, pa), Filled(r), recorded' \in SUBSET SGIds,
         label = "serverGroups" /\ worker.ready /\ ready =>
            \A j \in Ports : j < worker.i + 1 => r.sgs[j].id # 0,
         label = "listeners" => \A j \in Ports : r.sgs[j].id # 0
  PROVE  BaseInv' /\ Onward
<1>1. /\ worker \in Workers /\ worker.i \in Nat \ {0} /\ pa # Null /\ pa.finalizer
  BY InTheLoops DEF Current
<1>2. PAInv' /\ pa' \in PARecords /\ pa' # Null /\ paSynced' \in BOOLEAN /\ pa' = r
  BY <1>1, ExtendPAInv DEF PatchedNext, WritePA
<1>3. worker' = [worker EXCEPT !.pc = label, !.mem = r, !.memOK = TRUE,
                               !.i = worker.i + 1, !.ready = worker.ready /\ ready]
  BY DEF PatchedNext
<1>4. worker' \in Workers
  <2>1. [worker EXCEPT !.pc = label, !.mem = r, !.memOK = TRUE] \in Workers
    BY <1>1, <1>2 DEF Workers, Labels
  <2> DEFINE w == [worker EXCEPT !.pc = label, !.mem = r, !.memOK = TRUE]
  <2>2. w.i = worker.i /\ w.ready = worker.ready
    BY <1>1 DEF Workers
  <2>3. worker' = [w EXCEPT !.i = w.i + 1, !.ready = w.ready /\ ready]
    BY <1>3, <2>2
  <2> HIDE DEF w
  <2> QED
    BY <2>1, <2>3, NextReady DEF w
<1>5. /\ worker'.pc = label /\ worker'.mem = r /\ worker'.i = worker.i + 1
      /\ worker'.ready => worker.ready /\ ready
  BY <1>1, <1>3 DEF Workers
<1>6. Current(r, r) /\ WellFormed(r)
  BY <1>1, <1>2 DEF Extends, Current, Follows
<1>7. WorkerInv'
  BY <1>1, <1>2, <1>5, <1>6 DEF WorkerInv, LoopInv, DeletionInv, InLoops, At
<1> QED
  BY <1>1, <1>2, <1>4, <1>7 DEF Onward, PatchedNext, BaseInv, TypeOK, CloudInv, cloudVars

\* A server group is created.
LEMMA CreateSGBase == BaseInv /\ CreateSG => BaseInv' /\ Onward
<1> SUFFICES ASSUME BaseInv, CreateSG PROVE BaseInv' /\ Onward
  OBVIOUS
<1>1. InLoops
  BY DEF CreateSG, InLoops, At
<1>2. /\ worker \in Workers /\ worker.mem \in PARecords /\ Current(worker.mem, pa)
      /\ pa.uid = uid
  BY <1>1, InTheLoops
<1>3. worker' = [worker EXCEPT !.pc = "patchSG", !.id = worker.mem.uid]
  BY DEF CreateSG
<1>4. worker' \in Workers
  <2>1. worker.mem.uid \in Nat
    BY <1>2 DEF PARecords, Uids
  <2> QED
    BY <1>2, <1>3, <2>1 DEF Workers, Labels
<1>5. /\ worker'.pc = "patchSG" /\ worker'.mem = worker.mem /\ worker'.i = worker.i
      /\ worker'.id = uid /\ worker'.ready = worker.ready
  BY <1>2, <1>3 DEF Workers, Current
<1>6. worker.i \in Ports /\ worker.mem.sgs[worker.i].phase = "Pending" /\ At("serverGroups")
  BY DEF CreateSG, Pending
<1>7. UNCHANGED <<k8sVars, listener, tokens, nlb, made, faults>>
  BY DEF CreateSG
<1>8. WorkerInv'
  BY <1>1, <1>5, <1>6, <1>7
  DEF BaseInv, WorkerInv, LoopInv, DeletionInv, InLoops, At, k8sVars
<1>9. sg' \in [SGIds -> {"none", "Creating", "Available", "Deleted"}]
  BY DEF CreateSG, BaseInv, TypeOK
<1> QED
  BY <1>4, <1>7, <1>8, <1>9, KeepPAInv DEF Onward, BaseInv, TypeOK, CloudInv, k8sVars

\* The id of a server group is patched into the PA.
LEMMA PatchSGBase == BaseInv /\ PatchSG => BaseInv' /\ Onward
<1> SUFFICES ASSUME BaseInv, PatchSG PROVE BaseInv' /\ Onward
  OBVIOUS
<1>1. InLoops /\ At("patchSG")
  BY DEF PatchSG, InLoops, At
<1>2. pa \in PARecords /\ WellFormed(pa) /\ Filled(pa) /\ pa.uid = uid
  BY <1>1, InTheLoops
<1>3. worker.i \in Ports /\ worker.id = uid /\ uid \in Uids
  BY <1>1, <1>2 DEF BaseInv, WorkerInv, LoopInv, PARecords
<1> DEFINE e == [id |-> worker.id, phase |-> "Creating"]
           r == [pa EXCEPT !.sgs[worker.i] = e]
<1>4. e \in SGEntries /\ e.phase = "Creating" /\ e.id = pa.uid
  BY <1>2, <1>3, Entries DEF Uids
<1>5. PatchedNext("serverGroups", r, FALSE)
  BY DEF PatchSG
<1>6. recorded' \in SUBSET SGIds
  BY <1>3 DEF PatchSG, BaseInv, TypeOK, SGIds
<1> HIDE DEF e
<1>7. Extends(r, pa) /\ Filled(r)
  BY <1>2, <1>3, <1>4, ExtendSG
<1> HIDE DEF r
<1> QED
  BY <1>1, <1>5, <1>6, <1>7, PatchedBase

\* A server group is looked up in the cloud.
LEMMA PollSGBase == BaseInv /\ PollSG => BaseInv' /\ Onward
<1> SUFFICES ASSUME BaseInv, PollSG PROVE BaseInv' /\ Onward
  OBVIOUS
<1> DEFINE e == worker.mem.sgs[worker.i]
           a == [e EXCEPT !.phase = "Active"]
           r == [pa EXCEPT !.sgs[worker.i] = a]
<1>1. InLoops /\ At("serverGroups") /\ worker.i \in Ports
  BY DEF PollSG, InLoops, At
<1>2. /\ worker.mem \in PARecords /\ WellFormed(worker.mem) /\ Current(worker.mem, pa)
      /\ pa \in PARecords /\ WellFormed(pa) /\ Filled(pa) /\ worker.i \in Nat \ {0}
  BY <1>1, InTheLoops
<1>3. e \in SGEntries /\ e.id = pa.uid
  BY <1>1, <1>2 DEF PollSG, PARecords, WellFormed, IdsOf, Current
<1>4. a \in SGEntries /\ a.id = pa.uid /\ a.phase = "Active"
  BY <1>3 DEF SGEntries
<1>5. CASE NextElement(FALSE)
  BY <1>1, <1>5, NextBase
<1>6. CASE PatchedNext("serverGroups", r, TRUE) /\ UNCHANGED recorded
  <2> HIDE DEF e, a
  <2>1. Extends(r, pa) /\ Filled(r)
    BY <1>1, <1>2, <1>4, ExtendSG
  <2>2. pa.uid # 0
    BY <1>2 DEF PARecords, Uids
  <2>3. worker.ready => \A j \in Ports : j < worker.i => worker.mem.sgs[j].id # 0
    BY <1>1 DEF BaseInv, WorkerInv, LoopInv, At
  <2>4. worker.ready => \A j \in Ports : j < worker.i + 1 => r.sgs[j].id # 0
    <3> SUFFICES ASSUME worker.ready, NEW j \in Ports, j < worker.i + 1
                 PROVE  r.sgs[j].id # 0
      OBVIOUS
    <3>1. CASE j = worker.i
      BY <1>1, <1>2, <1>4, <2>2, <3>1 DEF PARecords
    <3>2. CASE j < worker.i
      <4>1. pa.sgs[j].id # 0
        BY <1>2, <2>3, <3>2 DEF Current, Follows
      <4> QED
        BY <1>1, <1>2, <3>2, <4>1 DEF PARecords, Ports
    <3> QED
      BY <1>2, <3>1, <3>2 DEF Ports
  <2>5. recorded' \in SUBSET SGIds
    BY <1>6 DEF BaseInv, TypeOK
  <2> HIDE DEF r
  <2> QED
    BY <1>1, <1>6, <2>1, <2>4, <2>5, PatchedBase
<1> QED
  BY <1>5, <1>6 DEF PollSG

\* The loop over the server groups goes on, or ends.
LEMMA WalkSGsBase ==
  ASSUME BaseInv, SkipActiveSG \/ EndSGs
  PROVE  BaseInv' /\ Onward
<1>1. InLoops /\ At("serverGroups")
  BY DEF SkipActiveSG, EndSGs, InLoops, At
<1>2. /\ worker \in Workers /\ worker.mem \in PARecords /\ WellFormed(worker.mem)
      /\ worker.i \in Nat \ {0} /\ worker.mem.uid # 0
  BY <1>1, InTheLoops DEF PARecords, Uids
<1>3. CASE SkipActiveSG
  BY <1>1, <1>2, <1>3, NextBase DEF SkipActiveSG, WellFormed, IdsOf
<1>4. CASE EndSGs /\ ~worker.ready
  BY <1>4, IdleBase DEF EndSGs, BaseInv, TypeOK
<1>5. CASE EndSGs /\ worker.ready
  <2>1. worker' = [worker EXCEPT !.pc = "listeners", !.i = 1]
    BY <1>5 DEF EndSGs
  <2>2. worker' \in Workers
    BY <1>2, <2>1 DEF Workers, Labels
  <2>3. worker'.pc = "listeners" /\ worker'.mem = worker.mem /\ worker'.i = 1
    BY <1>2, <2>1 DEF Workers
  <2>4. \A j \in Ports : j < worker.i
    BY <1>2, <1>5, ConstantsAssumption DEF EndSGs, Ports
  <2>5. \A j \in Ports : worker.mem.sgs[j].id # 0
    BY <1>1, <1>5, <2>4 DEF BaseInv, WorkerInv, LoopInv, At
  <2>6. UNCHANGED <<k8sVars, cloudVars, faults>>
    BY <1>5 DEF EndSGs
  <2>7. WorkerInv'
    BY <1>1, <2>3, <2>5, <2>6
    DEF BaseInv, WorkerInv, LoopInv, DeletionInv, InLoops, At, k8sVars
  <2> QED
    BY <2>2, <2>6, <2>7, KeepPAInv DEF Onward, BaseInv, TypeOK, CloudInv, k8sVars, cloudVars
<1> QED
  BY <1>3, <1>4, <1>5

\* The worker has the id of a listener, new or found, that it is to record.
LEMMA NamedBase ==
  ASSUME BaseInv, At("listeners"), worker.i \in Listeners, NEW id \in Nat \ {0},
         worker' = [worker EXCEPT !.pc = "patchListener", !.id = id],
         UNCHANGED <<k8sVars, sg, nlb, faults>>, CloudInv', made' \in Nat,
         listener' \in [Listeners -> CloudListeners \cup {Null}],
         tokens' \in [Listeners -> [Prefixes -> Nat]]
  PROVE  BaseInv' /\ Onward
<1>1. InLoops
  BY DEF InLoops, At
<1>2. worker \in Workers
  BY <1>1, InTheLoops
<1>3. worker' \in Workers
  BY <1>2 DEF Workers, Labels
<1>4. /\ worker'.pc = "patchListener" /\ worker'.mem = worker.mem /\ worker'.i = worker.i
      /\ worker'.id = id /\ worker'.ready = worker.ready
  BY <1>2 DEF Workers
<1>5. WorkerInv'
  BY <1>1, <1>4 DEF BaseInv, WorkerInv, LoopInv, DeletionInv, InLoops, At, k8sVars
<1> QED
  BY <1>3, <1>5, KeepPAInv DEF Onward, BaseInv, TypeOK, k8sVars

\* The SG that a listener is to forward to is one of the PA's.
LEMMA SGOfPA ==
  ASSUME BaseInv, worker.pc \in {"listeners", "patchListener", "promote"}
  PROVE  \A k \in Listeners : SGOf(k) \in SGIds /\ SGOf(k)[1] = uid
<1>1. InLoops /\ \A j \in Ports : worker.mem.sgs[j].id # 0
  BY DEF InLoops, BaseInv, WorkerInv, LoopInv
<1>2. /\ worker.mem \in PARecords /\ WellFormed(worker.mem)
      /\ worker.mem.uid = uid
  BY <1>1, InTheLoops DEF Current
<1>3. \A j \in Ports : worker.mem.sgs[j].id = uid
  BY <1>1, <1>2 DEF WellFormed, IdsOf
<1>4. uid \in Uids
  BY <1>2 DEF PARecords
<1> QED
  BY <1>3, <1>4, Layout DEF SGOf, SGIds

\* CreateListener with a client token.
LEMMA SubmitBase ==
  ASSUME BaseInv, At("listeners"), worker.i \in Listeners, NEW t \in Prefixes,
         Submit(worker.i, t)
  PROVE  BaseInv' /\ Onward
<1> DEFINE k == worker.i
           old == tokens[k][t]
           new == [id |-> made + 1, sg |-> SGOf(k), running |-> FALSE]
<1>1. /\ listener \in [Listeners -> CloudListeners \cup {Null}]
      /\ tokens \in [Listeners -> [Prefixes -> Nat]] /\ made \in Nat
      /\ old \in Nat /\ tokens[k] \in [Prefixes -> Nat]
  BY DEF BaseInv, TypeOK
<1>2. worker' = [worker EXCEPT !.pc = "patchListener", !.id = Answer(k, t)]
  BY DEF Submit
<1>3. UNCHANGED <<k8sVars, sg, nlb, faults>>
  BY DEF Submit
<1>4. CASE old # 0
  <2>1. UNCHANGED <<listener, tokens, made>> /\ Answer(k, t) = old
    BY <1>4 DEF Submit, CloudCreateListener, Answer
  <2>2. CloudInv'
    BY <2>1 DEF BaseInv, CloudInv
  <2> HIDE DEF old
  <2> QED
    BY <1>1, <1>2, <1>3, <1>4, <2>1, <2>2, NamedBase
<1>5. CASE old = 0
  <2>1. /\ listener' = [listener EXCEPT ![k] = new]
        /\ tokens' = [tokens EXCEPT ![k][t] = made + 1]
        /\ made' = made + 1 /\ Answer(k, t) = made + 1
    BY <1>5 DEF Submit, CloudCreateListener, Answer
  <2>2. new \in CloudListeners /\ new.id = made + 1
    BY <1>1, SGOfPA DEF CloudListeners, At
  <2> HIDE DEF new
  <2>3. listener' \in [Listeners -> CloudListeners \cup {Null}]
    BY <1>1, <2>1, <2>2
  <2>4. tokens' = [tokens EXCEPT ![k] = [tokens[k] EXCEPT ![t] = made + 1]]
    BY <2>1
  <2>5. [tokens[k] EXCEPT ![t] = made + 1] \in [Prefixes -> Nat]
    BY <1>1
  <2>6. tokens' \in [Listeners -> [Prefixes -> Nat]]
    BY <1>1, <2>4, <2>5
  <2>7. ASSUME NEW j \in Listeners, listener'[j] # Null PROVE listener'[j].id \in 1..made'
    <3>1. CASE j = k
      BY <1>1, <2>1, <2>2, <3>1
    <3>2. CASE j # k
      BY <1>1, <2>1, <2>7, <3>2 DEF BaseInv, CloudInv
    <3> QED
      BY <3>1, <3>2
  <2>8. ASSUME NEW j \in Listeners, NEW u \in Prefixes PROVE tokens'[j][u] <= made'
    <3>1. tokens[j][u] \in Nat /\ tokens[j][u] <= made
      BY <1>1 DEF BaseInv, CloudInv
    <3>2. tokens'[j][u] \in {tokens[j][u], made + 1}
      BY <1>1, <2>4
    <3> QED
      BY <1>1, <2>1, <3>1, <3>2
  <2>9. CloudInv'
    BY <2>7, <2>8 DEF CloudInv
  <2>10. made + 1 \in Nat \ {0} /\ made' \in Nat
    BY <1>1, <2>1
  <2> QED
    BY <1>2, <1>3, <2>1, <2>3, <2>6, <2>9, <2>10, NamedBase
<1> QED
  BY <1>4, <1>5

\* The adoption of a listener on Conflict.Port.
LEMMA AdoptBase ==
  ASSUME BaseInv, At("listeners"), worker.i \in Listeners, Adopt(worker.i)
  PROVE  BaseInv' /\ Onward
<1>1. listener[worker.i].id \in Nat \ {0}
  BY DEF Adopt, BaseInv, CloudInv, TypeOK
<1>2. /\ worker' = [worker EXCEPT !.pc = "patchListener", !.id = listener[worker.i].id]
      /\ UNCHANGED <<k8sVars, cloudVars, faults>>
  BY DEF Adopt
<1>3. CloudInv' /\ made' \in Nat
  BY <1>2 DEF BaseInv, CloudInv, TypeOK, cloudVars
<1> QED
  BY <1>1, <1>2, <1>3, NamedBase DEF BaseInv, TypeOK, cloudVars

\* The steps of the loop over the listeners that call the cloud.
LEMMA ListenerBase ==
  ASSUME BaseInv, CreateListener \/ RecreateListener \/ ListenerRefused \/ EndListeners
  PROVE  BaseInv' /\ Onward
<1>1. CASE CreateListener
  <2>1. Prefix \in Prefixes
    BY DEF Prefix, Prefixes
  <2> QED
    BY <1>1, <2>1, SubmitBase, AdoptBase DEF CreateListener, AtListener
<1>2. CASE RecreateListener
  BY <1>2, SubmitBase, AdoptBase DEF RecreateListener, AtListener, Prefixes
<1>3. CASE ListenerRefused
  BY <1>3, IdleBase DEF ListenerRefused, BaseInv, TypeOK
<1>4. CASE EndListeners /\ ~worker.ready
  BY <1>4, IdleBase DEF EndListeners, BaseInv, TypeOK
<1>5. CASE EndListeners /\ worker.ready
  <2>1. InLoops /\ At("listeners")
    BY <1>5 DEF EndListeners, InLoops, At
  <2>2. worker \in Workers
    BY <2>1, InTheLoops
  <2>3. worker' = [worker EXCEPT !.pc = "promote"] /\ UNCHANGED <<k8sVars, cloudVars, faults>>
    BY <1>5 DEF EndListeners
  <2>4. worker' \in Workers
    BY <2>2, <2>3 DEF Workers, Labels
  <2>5. worker'.pc = "promote" /\ worker'.mem = worker.mem /\ worker'.i = worker.i
    BY <2>2, <2>3 DEF Workers
  <2>6. WorkerInv'
    BY <2>1, <2>3, <2>5
    DEF BaseInv, WorkerInv, LoopInv, DeletionInv, InLoops, At, k8sVars
  <2> QED
    BY <2>3, <2>4, <2>6, KeepPAInv DEF Onward, BaseInv, TypeOK, CloudInv, k8sVars, cloudVars
<1> QED
  BY <1>1, <1>2, <1>3, <1>4, <1>5

\* The id of a listener is patched into the PA.
LEMMA PatchListenerBase == BaseInv /\ PatchListener => BaseInv' /\ Onward
<1> SUFFICES ASSUME BaseInv, PatchListener PROVE BaseInv' /\ Onward
  OBVIOUS
<1> DEFINE e == [id |-> worker.id, phase |-> "Creating"]
           r == [pa EXCEPT !.lsns[worker.i] = e]
<1>1. InLoops /\ At("patchListener") /\ worker.i \in Listeners /\ worker.id > 0
  BY DEF PatchListener, InLoops, At, BaseInv, WorkerInv, LoopInv
<1>2. pa \in PARecords /\ WellFormed(pa) /\ Filled(pa) /\ worker \in Workers
  BY <1>1, InTheLoops
<1>3. e \in ListenerEntries /\ e.phase = "Creating" /\ e.id # 0
  BY <1>1, <1>2, Entries DEF Workers
<1>4. \A j \in Ports : pa.sgs[j].id # 0
  BY <1>1, InTheLoops DEF BaseInv, WorkerInv, LoopInv, At, Current, Follows
<1>5. PatchedNext("listeners", r, FALSE) /\ UNCHANGED recorded
  BY DEF PatchListener
<1> HIDE DEF e
<1>6. Extends(r, pa) /\ Filled(r) /\ \A j \in Ports : r.sgs[j].id # 0
  BY <1>1, <1>2, <1>3, <1>4, ExtendListener DEF PARecords
<1> HIDE DEF r
<1> QED
  BY <1>1, <1>5, <1>6, PatchedBase DEF BaseInv, TypeOK

\* A listener is looked up in the cloud.
LEMMA PollListenerBase ==
  ASSUME BaseInv, PollListener \/ SkipRunningListener
  PROVE  BaseInv' /\ Onward
<1>1. InLoops /\ At("listeners") /\ worker.i \in Listeners
  BY DEF PollListener, SkipRunningListener, AtListener, InLoops, At
<1>2. CASE NextElement(FALSE) \/ NextElement(TRUE)
  BY <1>1, <1>2, NextBase DEF At
<1> DEFINE e == worker.mem.lsns[worker.i]
           a == [e EXCEPT !.phase = "Running"]
           r == [pa EXCEPT !.lsns[worker.i] = a]
<1>3. CASE PatchedNext("listeners", r, TRUE) /\ UNCHANGED recorded /\ AtListener("Creating")
  <2>1. /\ worker.mem \in PARecords /\ WellFormed(worker.mem)
        /\ pa \in PARecords /\ WellFormed(pa) /\ Filled(pa)
    BY <1>1, InTheLoops
  <2>2. e \in ListenerEntries /\ e.phase = "Creating" /\ e.id # 0
    BY <1>1, <1>3, <2>1 DEF AtListener, PARecords, WellFormed, IdsOf
  <2>3. a \in ListenerEntries /\ a.phase = "Running" /\ a.id # 0
    BY <2>2 DEF ListenerEntries
  <2>4. \A j \in Ports : pa.sgs[j].id # 0
    BY <1>1, InTheLoops DEF BaseInv, WorkerInv, LoopInv, At, Current, Follows
  <2> HIDE DEF a
  <2>5. Extends(r, pa) /\ Filled(r) /\ \A j \in Ports : r.sgs[j].id # 0
    BY <1>1, <2>1, <2>3, <2>4, ExtendListener DEF PARecords
  <2> HIDE DEF r
  <2> QED
    BY <1>1, <1>3, <2>5, PatchedBase DEF BaseInv, TypeOK
<1> QED
  BY <1>2, <1>3 DEF PollListener, SkipRunningListener

\* The endpoints are written, then the phase.
LEMMA PromoteBase ==
  ASSUME BaseInv, Promote \/ SetAvailable
  PROVE  BaseInv' /\ Onward
<1>1. CASE worker' = Idle /\ UNCHANGED <<k8sVars, cloudVars, faults>>
  BY <1>1, IdleBase DEF BaseInv, TypeOK
<1>2. Idle \in Workers /\ [Idle EXCEPT !.pc = "setAvailable"] \in Workers
  BY DEF Idle, Workers, Labels
<1>3. CASE Promote /\ worker.memOK /\ \A l \in Lanes : nlb[l] # "Gone"
  <2> DEFINE e == [k \in Listeners |-> worker.mem.lsns[k].id]
             r == [pa EXCEPT !.endpoints = e]
             w == [Idle EXCEPT !.pc = "setAvailable"]
  <2>1. InLoops
    BY <1>3 DEF Promote, InLoops, At
  <2>2. /\ worker.mem \in PARecords /\ pa \in PARecords /\ WellFormed(pa) /\ pa.finalizer
        /\ pa # Null
    BY <2>1, InTheLoops DEF Current
  <2>3. e \in [Listeners -> Nat]
    BY <2>2 DEF PARecords, ListenerEntries
  <2>4. WritePA(r) /\ worker' = w /\ w.pc = "setAvailable" /\ w \in Workers
    BY <1>2, <1>3 DEF Promote, Idle
  <2> HIDE DEF e, w
  <2>5. Extends(r, pa)
    BY <2>2, <2>3, ExtendEndpoints
  <2> HIDE DEF r
  <2> QED
    BY <1>3, <2>2, <2>4, <2>5, OneWriteBase DEF Promote
<1>4. CASE SetAvailable /\ paSynced
  <2> DEFINE r == [pa EXCEPT !.phase = "Available"]
  <2>1. pa # Null /\ pa.finalizer
    BY <1>4 DEF SetAvailable, BaseInv, WorkerInv
  <2>2. pa \in PARecords /\ WellFormed(pa)
    BY <2>1 DEF BaseInv, TypeOK, PAInv
  <2>3. Extends(r, pa)
    BY <2>2, ExtendPhase DEF Phases
  <2>4. Idle.pc = "idle" /\ WritePA(r)
    BY <1>4 DEF Idle, SetAvailable
  <2> HIDE DEF r
  <2> QED
    BY <1>2, <1>4, <2>1, <2>3, <2>4, OneWriteBase DEF SetAvailable
<1> QED
  BY <1>1, <1>3, <1>4 DEF Promote, SetAvailable, k8sVars

\* All of it.
ProvisioningStep ==
    \/ AddFinalizer \/ InitStatus \/ FillArrays \/ StartProvisioning
    \/ CreateSG \/ PatchSG \/ PollSG \/ SkipActiveSG \/ EndSGs
    \/ CreateListener \/ PatchListener \/ PollListener \/ RecreateListener
    \/ ListenerRefused \/ SkipRunningListener \/ EndListeners
    \/ Promote \/ SetAvailable

\* All of provisioning.
LEMMA ProvisioningBase == BaseInv /\ ProvisioningStep => BaseInv' /\ Onward
BY StartBase, CreateSGBase, PatchSGBase, PollSGBase, WalkSGsBase, ListenerBase,
   PatchListenerBase, PollListenerBase, PromoteBase
DEF ProvisioningStep

-----------------------------------------------------------------------------
(* Steps of the worker: handleDeletion.                                     *)

\* The worker has taken something off its copy w.mem and tries to save it.
LEMMA SaveBase ==
  ASSUME BaseInv, NEW w \in Workers, w.pc = "deletion", w.mem # Null, WellFormed(w.mem),
         w.mem.deleting, w.mem.finalizer, w.mem.uid <= uid,
         w.memOK =>
            /\ pa # Null /\ pa.deleting /\ pa.finalizer
            /\ w.mem.uid = pa.uid /\ w.mem.endpoints = pa.endpoints
            /\ \A i \in Ports : w.mem.sgs[i] \in {Gone, pa.sgs[i]}
            /\ \A k \in Listeners : w.mem.lsns[k] \in {Gone, pa.lsns[k]}
            /\ paCache # Null /\ paCache.deleting,
         worker' = w, BestEffort(w) \/ UNCHANGED <<pa, paSynced, faults>>,
         UNCHANGED <<paCache, poolWrites, uid, recorded, listener, tokens, nlb, made>>,
         sg' \in [SGIds -> {"none", "Creating", "Available", "Deleted"}]
  PROVE  BaseInv'
<1>1. w.mem \in PARecords
  BY DEF Workers
<1>2. ASSUME UNCHANGED <<pa, paSynced>>, faults' \in 0..MaxFaults PROVE BaseInv'
  <2>1. WorkerInv'
    BY <1>2 DEF WorkerInv, LoopInv, DeletionInv, InLoops, At
  <2> QED
    BY <1>2, <2>1, KeepPAInv DEF BaseInv, TypeOK, CloudInv
<1>3. CASE w.memOK /\ WritePA(w.mem) /\ UNCHANGED faults
  <2>1. pa' = w.mem /\ pa' # Null /\ ~Usable(paCache) /\ pa.uid = uid
    BY <1>3 DEF WritePA, Usable, BaseInv, PAInv
  <2>2. paSynced' \in BOOLEAN /\ (paSynced' => paSynced /\ pa' = pa)
    BY <1>3 DEF WritePA, BaseInv, TypeOK
  <2>3. PAInv'
    BY <1>3, <2>1, <2>2 DEF BaseInv, PAInv, Usable
  <2>4. WorkerInv'
    BY <1>3, <2>1 DEF WorkerInv, LoopInv, DeletionInv, InLoops, At
  <2> QED
    BY <1>1, <1>3, <2>1, <2>2, <2>3, <2>4 DEF BaseInv, TypeOK, CloudInv
<1>4. CASE Fault /\ UNCHANGED <<pa, paSynced>>
  BY <1>2, <1>4, FaultBound
<1>5. CASE UNCHANGED <<pa, paSynced, faults>>
  BY <1>2, <1>5 DEF BaseInv, TypeOK
<1> QED
  BY <1>3, <1>4, <1>5 DEF BestEffort

\* The worker finds the PA deleted.
LEMMA StartDeletionBase == BaseInv /\ StartDeletion => BaseInv'
<1> SUFFICES ASSUME BaseInv, StartDeletion PROVE BaseInv'
  OBVIOUS
<1> DEFINE r == [paCache EXCEPT !.phase = "Deleting"]
           w == [Idle EXCEPT !.pc = "deletion", !.memOK = paSynced, !.mem = r]
<1>1. paCache \in PARecords /\ WellFormed(paCache) /\ paCache.deleting /\ paCache.finalizer
      /\ paCache.uid <= uid /\ paCache # Null
  BY DEF StartDeletion, BaseInv, TypeOK, PAInv
<1>2. Extends(r, paCache)
  BY <1>1, ExtendPhase DEF Phases
<1>3. /\ r \in PARecords /\ WellFormed(r) /\ r.deleting /\ r.finalizer /\ r.uid <= uid
      /\ r.uid = paCache.uid /\ r.endpoints = paCache.endpoints
      /\ r.sgs = paCache.sgs /\ r.lsns = paCache.lsns
  BY <1>1, <1>2 DEF Extends, PARecords
<1>4. r # Null /\ (paSynced => pa = paCache) /\ paSynced \in BOOLEAN
  BY <1>3, NullIsNoRecord DEF BaseInv, TypeOK, PAInv
<1>5. w \in Workers
  BY <1>3, <1>4 DEF Workers, Idle, Labels
<1>6. w.pc = "deletion" /\ w.mem = r /\ w.memOK = paSynced
  BY DEF Idle
<1>7. worker' = w /\ BestEffort(w)
      /\ UNCHANGED <<paCache, poolWrites, uid, recorded, cloudVars>>
  BY DEF StartDeletion
<1> HIDE DEF r, w
<1>8. sg' \in [SGIds -> {"none", "Creating", "Available", "Deleted"}]
      /\ UNCHANGED <<listener, tokens, nlb, made>>
  BY <1>7 DEF BaseInv, TypeOK, cloudVars
<1> QED
  BY <1>1, <1>3, <1>4, <1>5, <1>6, <1>7, <1>8, SaveBase

\* An element is taken off an array.
LEMMA TakenOff ==
  ASSUME NEW p \in PARecords, WellFormed(p), p.deleting, p.finalizer
  PROVE  /\ \A k \in Listeners : WellFormed([p EXCEPT !.lsns[k] = Gone])
         /\ \A i \in Ports : WellFormed([p EXCEPT !.sgs[i] = Gone])
<1>1. IdsOf(p) /\ (p.phase = "" => Empty(p))
  BY DEF WellFormed
<1>2. Gone.id = 0 /\ Gone.phase = "Gone"
  BY DEF Gone
<1>3. ASSUME NEW k \in Listeners PROVE WellFormed([p EXCEPT !.lsns[k] = Gone])
  <2> DEFINE r == [p EXCEPT !.lsns[k] = Gone]
  <2>1. /\ r.uid = p.uid /\ r.deleting /\ r.finalizer /\ r.phase = p.phase /\ r.sgs = p.sgs
        /\ \A j \in Listeners : r.lsns[j] = IF j = k THEN Gone ELSE p.lsns[j]
    BY DEF PARecords
  <2> HIDE DEF r
  <2>2. ASSUME NEW j \in Listeners
        PROVE  r.lsns[j].id = 0 <=> r.lsns[j].phase \in {"Gone", "Pending"}
    BY <1>1, <1>2, <2>1 DEF IdsOf
  <2>3. IdsOf(r)
    <3>1. r.uid = p.uid /\ r.sgs = p.sgs
      BY <2>1
    <3> QED
      BY <1>1, <2>2, <3>1 DEF IdsOf
  <2>4. Empty(p) => Empty(r)
    BY <1>2, <2>1 DEF Empty
  <2> QED
    BY <1>1, <2>1, <2>3, <2>4 DEF WellFormed, r
<1>4. ASSUME NEW i \in Ports PROVE WellFormed([p EXCEPT !.sgs[i] = Gone])
  <2> DEFINE r == [p EXCEPT !.sgs[i] = Gone]
  <2>1. /\ r.uid = p.uid /\ r.deleting /\ r.finalizer /\ r.phase = p.phase
        /\ r.lsns = p.lsns
        /\ \A j \in Ports : r.sgs[j] = IF j = i THEN Gone ELSE p.sgs[j]
    BY DEF PARecords
  <2> HIDE DEF r
  <2>2. ASSUME NEW j \in Ports
        PROVE  r.sgs[j].id =
                 IF r.sgs[j].phase \in {"Creating", "Active"} THEN r.uid ELSE 0
    <3>1. CASE j = i
      BY <1>2, <2>1, <3>1
    <3>2. CASE j # i
      BY <1>1, <2>1, <3>2 DEF IdsOf
    <3> QED
      BY <3>1, <3>2
  <2>3. IdsOf(r)
    BY <1>1, <2>1, <2>2 DEF IdsOf
  <2>4. Empty(p) => Empty(r)
    BY <1>2, <2>1 DEF Empty
  <2> QED
    BY <1>1, <2>1, <2>3, <2>4 DEF WellFormed, r
<1> QED
  BY <1>3, <1>4

\* What the worker knows in handleDeletion, and what is off the arrays of its copy.
LEMMA PopBase ==
  ASSUME BaseInv, At("deletion"), NEW r \in PARecords, WellFormed(r), NEW id,
         r.uid = worker.mem.uid, r.deleting = worker.mem.deleting,
         r.finalizer = worker.mem.finalizer, r.endpoints = worker.mem.endpoints,
         \A i \in Ports : r.sgs[i] \in {Gone, worker.mem.sgs[i]},
         \A k \in Listeners : r.lsns[k] \in {Gone, worker.mem.lsns[k]},
         Pop([worker EXCEPT !.mem = r], id), UNCHANGED <<listener, tokens, nlb, made>>,
         sg' \in [SGIds -> {"none", "Creating", "Available", "Deleted"}]
  PROVE  BaseInv'
<1> DEFINE w == [worker EXCEPT !.mem = r]
<1>1. worker \in Workers /\ r # Null
  BY NullIsNoRecord DEF BaseInv, TypeOK
<1>2. w \in Workers /\ w.pc = "deletion" /\ w.mem = r /\ w.memOK = worker.memOK
  BY <1>1 DEF Workers, At
<1>3. worker' = w /\ (BestEffort(w) \/ UNCHANGED <<pa, paSynced, faults>>)
      /\ UNCHANGED <<paCache, poolWrites, uid, recorded>>
  BY DEF Pop
<1> HIDE DEF w
<1>4. DeletionInv /\ At("deletion")
  BY DEF BaseInv, WorkerInv
<1>5. w.memOK =>
        /\ pa # Null /\ pa.deleting /\ pa.finalizer
        /\ w.mem.uid = pa.uid /\ w.mem.endpoints = pa.endpoints
        /\ \A i \in Ports : w.mem.sgs[i] \in {Gone, pa.sgs[i]}
        /\ \A k \in Listeners : w.mem.lsns[k] \in {Gone, pa.lsns[k]}
        /\ paCache # Null /\ paCache.deleting
  BY <1>2, <1>4 DEF DeletionInv
<1>6. w.mem # Null /\ w.mem.deleting /\ w.mem.finalizer /\ w.mem.uid <= uid
  BY <1>1, <1>2, <1>4 DEF DeletionInv
<1> QED
  BY <1>2, <1>3, <1>5, <1>6, SaveBase

\* The steps of handleDeletion.
LEMMA DeletionBase ==
  ASSUME BaseInv,
         \/ \E k \in Listeners : VerifyListener(k)
         \/ \E i \in Ports : DeleteServerGroup(i)
         \/ RemoveFinalizer
  PROVE  BaseInv'
<1>1. At("deletion") /\ worker \in Workers /\ worker.mem \in PARecords
      /\ WellFormed(worker.mem) /\ worker.mem.deleting /\ worker.mem.finalizer
  <2>1. At("deletion")
    BY DEF VerifyListener, FirstListener, DeleteServerGroup, FirstSG, RemoveFinalizer, AllGone
  <2> QED
    BY <2>1 DEF BaseInv, TypeOK, WorkerInv, DeletionInv, Workers
<1>2. CASE worker' = Idle /\ UNCHANGED <<k8sVars, cloudVars, faults>>
  BY <1>2, IdleBase DEF BaseInv, TypeOK
<1>3. ASSUME NEW k \in Listeners, VerifyListener(k) PROVE BaseInv'
  <2> DEFINE r == [worker.mem EXCEPT !.lsns[k] = Gone]
             id == worker.mem.lsns[k].id
  <2>1. CASE Exists(k, id)
    BY <1>2, <1>3, <2>1 DEF VerifyListener, k8sVars
  <2>2. CASE ~Exists(k, id)
    <3>1. r \in PARecords
      BY <1>1, Entries DEF PARecords
    <3>2. WellFormed(r)
      BY <1>1, TakenOff
    <3>3. /\ r.uid = worker.mem.uid /\ r.deleting = worker.mem.deleting
          /\ r.finalizer = worker.mem.finalizer /\ r.endpoints = worker.mem.endpoints
          /\ \A i \in Ports : r.sgs[i] \in {Gone, worker.mem.sgs[i]}
          /\ \A j \in Listeners : r.lsns[j] \in {Gone, worker.mem.lsns[j]}
      BY <1>1 DEF PARecords
    <3>4. Pop([worker EXCEPT !.mem = r], id)
      BY <1>3, <2>2 DEF VerifyListener
    <3>5. /\ UNCHANGED <<listener, tokens, nlb, made>>
          /\ sg' \in [SGIds -> {"none", "Creating", "Available", "Deleted"}]
      BY <1>3 DEF VerifyListener, cloudVars, BaseInv, TypeOK
    <3> HIDE DEF r, id
    <3> QED
      BY <1>1, <3>1, <3>2, <3>3, <3>4, <3>5, PopBase
  <2> QED
    BY <2>1, <2>2
<1>4. ASSUME NEW i \in Ports, DeleteServerGroup(i) PROVE BaseInv'
  <2> DEFINE r == [worker.mem EXCEPT !.sgs[i] = Gone]
             id == worker.mem.sgs[i].id
  <2>1. CASE id # 0 /\ InUse(<<id, i>>)
    BY <1>2, <1>4, <2>1 DEF DeleteServerGroup
  <2>2. CASE ~(id # 0 /\ InUse(<<id, i>>))
    <3>1. r \in PARecords
      BY <1>1, Entries DEF PARecords
    <3>2. WellFormed(r)
      BY <1>1, TakenOff
    <3>3. /\ r.uid = worker.mem.uid /\ r.deleting = worker.mem.deleting
          /\ r.finalizer = worker.mem.finalizer /\ r.endpoints = worker.mem.endpoints
          /\ \A j \in Ports : r.sgs[j] \in {Gone, worker.mem.sgs[j]}
          /\ \A k \in Listeners : r.lsns[k] \in {Gone, worker.mem.lsns[k]}
      BY <1>1 DEF PARecords
    <3>4. Pop([worker EXCEPT !.mem = r], id) /\ UNCHANGED <<listener, tokens, nlb, made>>
      BY <1>4, <2>2 DEF DeleteServerGroup
    <3>5. sg' \in [SGIds -> {"none", "Creating", "Available", "Deleted"}]
      BY <1>4, <2>2 DEF DeleteServerGroup, BaseInv, TypeOK
    <3> HIDE DEF r, id
    <3> QED
      BY <1>1, <3>1, <3>2, <3>3, <3>4, <3>5, PopBase
  <2> QED
    BY <2>1, <2>2
<1>5. CASE RemoveFinalizer /\ worker.memOK
  <2>1. pa # Null /\ ~Usable(paCache)
    BY <1>1, <1>5 DEF BaseInv, WorkerInv, DeletionInv, Usable
  <2>2. pa' = Null /\ paSynced' = FALSE /\ worker' = Idle
        /\ UNCHANGED <<paCache, poolWrites, uid, recorded, cloudVars, faults>>
    BY <1>5, <2>1 DEF RemoveFinalizer, WritePA, BaseInv, TypeOK
  <2>3. PAInv'
    BY <2>1, <2>2 DEF BaseInv, PAInv, Usable
  <2>4. WorkerInv' /\ Idle \in Workers
    BY <2>2 DEF WorkerInv, LoopInv, DeletionInv, InLoops, At, Idle, Workers, Labels
  <2> QED
    BY <2>2, <2>3, <2>4 DEF BaseInv, TypeOK, CloudInv, cloudVars
<1>6. CASE RemoveFinalizer /\ ~worker.memOK
  BY <1>2, <1>6 DEF RemoveFinalizer, k8sVars
<1> QED
  BY <1>3, <1>4, <1>5, <1>6

-----------------------------------------------------------------------------
(* The invariant.                                                           *)

\* A call fails or the process crashes.
LEMMA AbortBase == BaseInv /\ Abort => BaseInv'
BY IdleBase, FaultBound DEF Abort

\* Every step of the worker.
LEMMA WorkerBase == BaseInv /\ WorkerStep => BaseInv'
BY ProvisioningBase, StartDeletionBase, DeletionBase DEF WorkerStep, ProvisioningStep

\* Every step.
LEMMA BaseStep == BaseInv /\ [Next]_vars => BaseInv'
<1> SUFFICES ASSUME BaseInv, [Next]_vars PROVE BaseInv'
  OBVIOUS
<1>1. CASE UNCHANGED vars
  <2>1. UNCHANGED <<k8sVars, cloudVars, worker, faults>>
    BY <1>1 DEF vars
  <2>2. PAInv' /\ WorkerInv'
    BY <2>1, KeepPAInv, KeepWorkerInv DEF BaseInv, k8sVars
  <2> QED
    BY <2>1, <2>2 DEF BaseInv, TypeOK, CloudInv, k8sVars, cloudVars
<1> QED
  BY <1>1, PoolBase, SyncBase, WorkerBase, AbortBase, CloudBase DEF Next

\* It holds in every reachable state.
LEMMA BaseInvariant == Spec => []BaseInv
BY InitBase, BaseStep, PTL DEF Spec

\* Every record, index and id that a step writes has its type: in particular a patch
\* has a PA to write to, and a cloud call an SG that the PA has created.
THEOREM TypeCorrect == Spec => []TypeOK
<1>1. BaseInv => TypeOK
  BY DEF BaseInv
<1> QED
  BY <1>1, BaseInvariant, PTL

-----------------------------------------------------------------------------
(***************************************************************************)
(* Who owns what there is in the cloud.                                     *)
(*                                                                          *)
(* That no listener and no recorded server group (SG) outlives its PA rests *)
(* on the order in which handleDeletion takes things off the arrays and on  *)
(* the CAS at its end.  OwnershipInv says what a copy that is current       *)
(* proves: an element that is off its arrays stands for nothing that is     *)
(* still there.                                                             *)
(***************************************************************************)

\* Every listener forwards to the SG of its port, which is alive and recorded.
OwnerInv ==
    \A k \in Listeners : listener[k] # Null =>
        /\ pa # Null
        /\ listener[k].sg = <<pa.uid, PortOf(k)>>
        /\ Alive(listener[k].sg)
        /\ pa.sgs[PortOf(k)].id # 0

\* An SG that was recorded is recorded until it is deleted.
RecordedInv ==
    \A s \in recorded :
        /\ sg[s] # "none"
        /\ Alive(s) => pa # Null /\ pa.uid = s[1] /\ pa.sgs[s[2]].id # 0

\* An SG that is about to be recorded exists; one that is off the array of a current
\* copy does not exist any more, or never was recorded, and nothing forwards to it.
SGWorkerInv ==
    /\ At("patchSG") => sg[<<worker.id, worker.i>>] # "none"
    /\ At("deletion") /\ worker.memOK =>
         \A i \in Ports : worker.mem.sgs[i].phase = "Gone" =>
             /\ \A k \in Listeners : PortOf(k) = i => listener[k] = Null
             /\ <<pa.uid, i>> \in recorded => ~Alive(<<pa.uid, i>>)

OwnershipInv == OwnerInv /\ RecordedInv /\ SGWorkerInv

LivesOn(s) == sg'[s] \in {"Creating", "Available"}

\* Nothing is left that forwards to the SG of port i of the incarnation u, or would
\* have to be deleted.
Released(u, i) ==
    /\ \A k \in Listeners : PortOf(k) = i => listener'[k] = Null
    /\ <<u, i>> \in recorded => ~LivesOn(<<u, i>>)

Keeps(i) == pa'.sgs[i].id # 0 \/ Released(pa.uid, i)

\* No listener comes, and none changes its SG.
FewerListeners ==
    \A k \in Listeners : listener'[k] # Null =>
        listener[k] # Null /\ listener'[k].sg = listener[k].sg

\* An SG that is in use stays; none comes back.
SGsAge ==
    \A s \in SGIds :
        /\ Alive(s) /\ InUse(s) => LivesOn(s)
        /\ sg[s] # "none" => sg'[s] # "none"
        /\ sg[s] # "none" /\ LivesOn(s) => Alive(s)

\* Steps that create no listener, bring back no SG and forget no recorded id.
LEMMA OwnerKeep ==
  ASSUME BaseInv, OwnerInv, RecordedInv, FewerListeners, SGsAge, UNCHANGED recorded,
         pa # Null => pa' # Null /\ pa'.uid = pa.uid
                      /\ \A i \in Ports : pa.sgs[i].id # 0 => Keeps(i)
  PROVE  OwnerInv' /\ RecordedInv'
<1>1. ASSUME NEW k \in Listeners, listener'[k] # Null
      PROVE  /\ pa' # Null
             /\ listener'[k].sg = <<pa'.uid, PortOf(k)>>
             /\ LivesOn(listener'[k].sg)
             /\ pa'.sgs[PortOf(k)].id # 0
  <2>1. listener[k] # Null /\ listener'[k].sg = listener[k].sg
    BY <1>1 DEF FewerListeners
  <2>2. /\ pa # Null /\ pa' # Null /\ pa'.uid = pa.uid
        /\ listener[k].sg = <<pa.uid, PortOf(k)>>
        /\ Alive(listener[k].sg) /\ pa.sgs[PortOf(k)].id # 0
    BY <2>1 DEF OwnerInv
  <2>3. PortOf(k) \in Ports
    BY Layout
  <2>4. pa'.sgs[PortOf(k)].id # 0
    BY <1>1, <2>1, <2>2, <2>3 DEF Keeps, Released
  <2>5. listener[k].sg \in SGIds /\ InUse(listener[k].sg)
    BY <2>1 DEF BaseInv, TypeOK, CloudListeners, InUse
  <2>6. LivesOn(listener[k].sg)
    BY <2>2, <2>5 DEF SGsAge
  <2>7. LivesOn(listener'[k].sg)
    BY <2>1, <2>6
  <2> QED
    BY <2>1, <2>2, <2>4, <2>7
<1>2. ASSUME NEW s \in recorded
      PROVE  /\ sg'[s] # "none"
             /\ LivesOn(s) => pa' # Null /\ pa'.uid = s[1] /\ pa'.sgs[s[2]].id # 0
  <2>1. s \in SGIds /\ s[2] \in Ports /\ s = <<s[1], s[2]>>
    BY DEF BaseInv, TypeOK, SGIds
  <2>2. sg[s] # "none" /\ sg'[s] # "none" /\ (LivesOn(s) => Alive(s))
    BY <2>1 DEF RecordedInv, SGsAge
  <2>3. ASSUME LivesOn(s) PROVE pa' # Null /\ pa'.uid = s[1] /\ pa'.sgs[s[2]].id # 0
    <3>1. Alive(s) /\ pa # Null /\ pa.uid = s[1] /\ pa.sgs[s[2]].id # 0
      BY <2>2, <2>3 DEF RecordedInv
    <3>2. Keeps(s[2]) /\ s = <<pa.uid, s[2]>>
      BY <2>1, <3>1
    <3> QED
      BY <2>3, <3>1, <3>2 DEF Keeps, Released
  <2> QED
    BY <2>2, <2>3
<1> QED
  BY <1>1, <1>2 DEF OwnerInv, RecordedInv, Alive, LivesOn

\* An SG of which the PA has no id serves nothing.
LEMMA NoIdNoUse ==
  ASSUME OwnerInv, RecordedInv, pa # Null, NEW i \in Ports, pa.sgs[i].id = 0
  PROVE  /\ \A k \in Listeners : PortOf(k) = i => listener[k] = Null
         /\ <<pa.uid, i>> \in recorded => ~Alive(<<pa.uid, i>>)
BY DEF OwnerInv, RecordedInv

\* The worker does not move, or it is in neither of the two places.
LEMMA SGWorkerKeep ==
  ASSUME BaseInv, RecordedInv, SGWorkerInv, FewerListeners, SGsAge, UNCHANGED recorded,
         \/ worker'.pc \notin {"patchSG", "deletion"}
         \/ /\ worker'.pc = worker.pc /\ worker'.mem = worker.mem
            /\ worker'.i = worker.i /\ worker'.id = worker.id
            /\ worker'.memOK => worker.memOK /\ pa'.uid = pa.uid
  PROVE  SGWorkerInv'
<1>1. CASE worker'.pc \notin {"patchSG", "deletion"}
  BY <1>1 DEF SGWorkerInv, At
<1>2. CASE /\ worker'.pc = worker.pc /\ worker'.mem = worker.mem
           /\ worker'.i = worker.i /\ worker'.id = worker.id
           /\ worker'.memOK => worker.memOK /\ pa'.uid = pa.uid
  <2>1. ASSUME At("patchSG") PROVE sg'[<<worker.id, worker.i>>] # "none"
    <3>1. worker.id \in Uids /\ worker.i \in Ports
      <4>1. InLoops /\ worker.i \in Ports /\ worker.id = uid
        BY <2>1 DEF InLoops, At, BaseInv, WorkerInv, LoopInv
      <4> QED
        BY <4>1, InTheLoops DEF PARecords
    <3> QED
      BY <2>1, <3>1 DEF SGWorkerInv, SGsAge, SGIds
  <2>2. ASSUME At("deletion"), worker'.memOK, NEW i \in Ports,
               worker.mem.sgs[i].phase = "Gone"
        PROVE  /\ \A k \in Listeners : PortOf(k) = i => listener'[k] = Null
               /\ <<pa'.uid, i>> \in recorded' => ~LivesOn(<<pa'.uid, i>>)
    <3>1. /\ \A k \in Listeners : PortOf(k) = i => listener[k] = Null
          /\ <<pa.uid, i>> \in recorded => ~Alive(<<pa.uid, i>>)
          /\ pa'.uid = pa.uid
      BY <1>2, <2>2 DEF SGWorkerInv
    <3>2. <<pa.uid, i>> \in recorded =>
             <<pa.uid, i>> \in SGIds /\ sg[<<pa.uid, i>>] # "none"
      BY DEF BaseInv, TypeOK, RecordedInv
    <3>3. <<pa.uid, i>> \in recorded => ~LivesOn(<<pa.uid, i>>)
      BY <3>1, <3>2 DEF SGsAge
    <3>4. \A k \in Listeners : PortOf(k) = i => listener'[k] = Null
      BY <3>1 DEF FewerListeners
    <3> QED
      BY <3>1, <3>3, <3>4
  <2> QED
    BY <1>2, <2>1, <2>2 DEF SGWorkerInv, At, Alive, LivesOn
<1> QED
  BY <1>1, <1>2

\* Nothing happens in the cloud.
LEMMA CloudKeeps ==
  ASSUME UNCHANGED <<listener, sg>>
  PROVE  FewerListeners /\ SGsAge
BY DEF FewerListeners, SGsAge, Alive, LivesOn

\* Neither the SGs nor the listeners nor the worker's view of them are touched.
LEMMA OwnershipKeep ==
  ASSUME BaseInv, OwnershipInv, FewerListeners, SGsAge, UNCHANGED recorded,
         pa # Null => pa' # Null /\ pa'.uid = pa.uid
                      /\ \A i \in Ports : pa.sgs[i].id # 0 => Keeps(i),
         \/ worker'.pc \notin {"patchSG", "deletion"}
         \/ /\ worker'.pc = worker.pc /\ worker'.mem = worker.mem
            /\ worker'.i = worker.i /\ worker'.id = worker.id
            /\ worker'.memOK => worker.memOK /\ pa'.uid = pa.uid
  PROVE  OwnershipInv'
BY OwnerKeep, SGWorkerKeep DEF OwnershipInv

-----------------------------------------------------------------------------

\* The initial states.
LEMMA InitOwnership == Init => OwnershipInv
BY DEF Init, OwnershipInv, OwnerInv, RecordedInv, SGWorkerInv, At, Idle

\* The steps of the pool, of users and of the cache.
LEMMA PoolOwnership ==
  ASSUME BaseInv, OwnershipInv, CreatePA \/ InitialPhase \/ DeletePA \/ SyncPA
  PROVE  OwnershipInv'
<1> USE DEF cloudVars
<1>1. UNCHANGED <<listener, sg, recorded>> /\ FewerListeners /\ SGsAge
  BY CloudKeeps DEF CreatePA, InitialPhase, DeletePA, SyncPA
<1>2. worker \in Workers
  BY DEF BaseInv, TypeOK
<1>3. ASSUME NEW r, Overtake(r)
      PROVE  /\ worker'.pc = worker.pc /\ worker'.mem = worker.mem
             /\ worker'.i = worker.i /\ worker'.id = worker.id
             /\ worker'.memOK => worker.memOK /\ pa' = pa
             /\ pa' = r
  BY <1>2, <1>3 DEF Overtake, WritePA, Workers
<1>4. CASE CreatePA
  BY <1>1, <1>3, <1>4, OwnershipKeep DEF CreatePA
<1>5. CASE InitialPhase
  <2>1. pa \in PARecords /\ [pa EXCEPT !.phase = "Provisioning"] # Null
    BY <1>5, NullIsNoRecord DEF InitialPhase, BaseInv, TypeOK, PARecords, Phases
  <2>2. pa' = [pa EXCEPT !.phase = "Provisioning"]
    BY <1>3, <1>5 DEF InitialPhase
  <2>3. pa' # Null /\ pa'.uid = pa.uid /\ pa'.sgs = pa.sgs
    BY <2>1, <2>2 DEF PARecords
  <2> QED
    BY <1>1, <1>3, <1>5, <2>3, OwnershipKeep DEF InitialPhase, Keeps
<1>6. CASE DeletePA /\ pa.finalizer
  <2>1. pa \in PARecords /\ [pa EXCEPT !.deleting = TRUE] # Null
    BY <1>6, NullIsNoRecord DEF DeletePA, BaseInv, TypeOK, PARecords
  <2>2. pa' = [pa EXCEPT !.deleting = TRUE]
    BY <1>3, <1>6 DEF DeletePA
  <2>3. pa' # Null /\ pa'.uid = pa.uid /\ pa'.sgs = pa.sgs
    BY <2>1, <2>2 DEF PARecords
  <2> QED
    BY <1>1, <1>3, <1>6, <2>3, OwnershipKeep DEF DeletePA, Keeps
<1>7. CASE DeletePA /\ ~pa.finalizer
  <2>1. \A i \in Ports : pa.sgs[i].id = 0
    BY <1>7 DEF DeletePA, BaseInv, PAInv, WellFormed, Empty, IdsOf
  <2>2. \A k \in Listeners : listener[k] = Null
    BY <2>1, Layout DEF OwnershipInv, OwnerInv
  <2>3. \A s \in recorded : sg[s] # "none" /\ ~Alive(s)
    BY <2>1 DEF OwnershipInv, RecordedInv, BaseInv, TypeOK, SGIds
  <2>4. OwnerInv' /\ RecordedInv'
    BY <1>1, <2>2, <2>3 DEF OwnerInv, RecordedInv, Alive
  <2>5. /\ worker'.pc = worker.pc /\ worker'.mem = worker.mem
        /\ worker'.i = worker.i /\ worker'.id = worker.id /\ ~worker'.memOK
    <3>1. pa' = Null /\ pa # Null
      BY <1>3, <1>7 DEF DeletePA
    <3> QED
      BY <1>3, <1>7, <3>1 DEF DeletePA
  <2> QED
    BY <1>1, <2>4, <2>5, SGWorkerKeep DEF OwnershipInv
<1>8. CASE SyncPA
  BY <1>1, <1>8, OwnershipKeep DEF SyncPA, Keeps
<1> QED
  BY <1>4, <1>5, <1>6, <1>7, <1>8

\* The steps of the cloud.
LEMMA CloudOwnership ==
  ASSUME BaseInv, OwnershipInv, CloudStep
  PROVE  OwnershipInv'
<1> USE DEF k8sVars, cloudVars
<1>1. UNCHANGED <<pa, recorded, worker>>
  BY DEF CloudStep, SGReady, SGVanishes, ListenerReady, ListenerFails, ForgetToken,
         DeleteNLB, Cascade
<1>2. sg \in [SGIds -> {"none", "Creating", "Available", "Deleted"}]
      /\ listener \in [Listeners -> CloudListeners \cup {Null}]
  BY DEF BaseInv, TypeOK
<1>3. FewerListeners
  <2>1. CASE UNCHANGED listener
    BY <2>1 DEF FewerListeners
  <2>2. ASSUME NEW k \in Listeners, ListenerReady(k) PROVE FewerListeners
    <3>1. listener[k] \in CloudListeners
      BY <1>2, <2>2 DEF ListenerReady
    <3>2. listener'[k].sg = listener[k].sg
      BY <1>2, <2>2, <3>1 DEF ListenerReady, CloudListeners
    <3>3. \A j \in Listeners : j # k => listener'[j] = listener[j]
      BY <1>2, <2>2 DEF ListenerReady
    <3> QED
      BY <2>2, <3>2, <3>3 DEF FewerListeners, ListenerReady
  <2>3. ASSUME NEW k \in Listeners, listener' = [listener EXCEPT ![k] = Null]
        PROVE  FewerListeners
    BY <1>2, <2>3 DEF FewerListeners
  <2> QED
    BY <2>1, <2>2, <2>3
    DEF CloudStep, SGReady, SGVanishes, ListenerFails, ForgetToken, DeleteNLB, Cascade
<1>4. SGsAge
  <2>1. CASE UNCHANGED sg
    BY <2>1 DEF SGsAge, Alive, LivesOn
  <2>2. ASSUME NEW s \in SGIds, SGReady(s) PROVE SGsAge
    BY <1>2, <2>2 DEF SGReady, SGsAge, Alive, LivesOn
  <2>3. ASSUME NEW s \in SGIds, SGVanishes(s) PROVE SGsAge
    BY <1>2, <2>3 DEF SGVanishes, SGsAge, Alive, LivesOn
  <2> QED
    BY <2>1, <2>2, <2>3
    DEF CloudStep, ListenerReady, ListenerFails, ForgetToken, DeleteNLB, Cascade
<1> QED
  BY <1>1, <1>3, <1>4, OwnershipKeep DEF Keeps

\* Steps of handleProvisioning that change neither an SG nor what the PA records of it,
\* except that it is Active.
LEMMA ProvisioningOwnership ==
  ASSUME BaseInv, OwnershipInv,
         \/ AddFinalizer \/ InitStatus \/ FillArrays \/ StartProvisioning
         \/ PollSG \/ SkipActiveSG \/ EndSGs
         \/ PatchListener \/ PollListener \/ ListenerRefused \/ SkipRunningListener
         \/ EndListeners \/ Promote \/ SetAvailable \/ Abort
         \/ At("listeners") /\ Adopt(worker.i)
  PROVE  OwnershipInv'
<1> USE DEF k8sVars, cloudVars
<1>1. UNCHANGED <<listener, sg, recorded>>
  BY DEF AddFinalizer, InitStatus, FillArrays, StartProvisioning, OneWrite, PollSG,
         SkipActiveSG, EndSGs, PatchListener, PollListener, ListenerRefused,
         SkipRunningListener, EndListeners, Promote, SetAvailable, Abort, Adopt,
         PatchedNext, NextElement
<1>2. worker \in Workers /\ Idle.pc = "idle"
  BY DEF BaseInv, TypeOK, Idle
<1>3. worker'.pc \notin {"patchSG", "deletion"}
  <2>1. CASE AddFinalizer \/ InitStatus \/ FillArrays
    BY <2>1 DEF AddFinalizer, InitStatus, FillArrays, Reconcile, OneWrite, At
  <2>2. CASE StartProvisioning
    BY <2>2 DEF StartProvisioning, Idle
  <2>3. ASSUME NEW r, NEW label \in {"serverGroups", "listeners"}, NEW ready,
               PatchedNext(label, r, ready)
        PROVE  worker'.pc \notin {"patchSG", "deletion"}
    BY <1>2, <2>3 DEF PatchedNext, Workers
  <2>4. ASSUME NEW ready, NextElement(ready) PROVE worker'.pc = worker.pc
    BY <1>2, <2>4 DEF NextElement, Workers
  <2>5. CASE PollSG \/ SkipActiveSG
    BY <2>3, <2>4, <2>5 DEF PollSG, SkipActiveSG, At
  <2>6. CASE PatchListener \/ PollListener \/ SkipRunningListener
    BY <2>3, <2>4, <2>6 DEF PatchListener, PollListener, SkipRunningListener, AtListener, At
  <2>7. CASE EndSGs \/ EndListeners
    BY <1>2, <2>7 DEF EndSGs, EndListeners, Workers
  <2>8. CASE ListenerRefused \/ SetAvailable \/ Abort
    BY <1>2, <2>8 DEF ListenerRefused, SetAvailable, Abort
  <2>9. CASE Promote
    BY <1>2, <2>9 DEF Promote, Idle
  <2>10. CASE At("listeners") /\ Adopt(worker.i)
    BY <1>2, <2>10 DEF Adopt, Workers
  <2> QED
    BY <2>1, <2>2, <2>5, <2>6, <2>7, <2>8, <2>9, <2>10
<1>4. pa # Null => pa' # Null /\ pa'.uid = pa.uid
                   /\ \A i \in Ports : pa.sgs[i].id # 0 => pa'.sgs[i].id # 0
  <2>1. Onward
    BY ProvisioningBase, IdleBase, FaultBound
    DEF ProvisioningStep, Onward, Abort, Adopt
  <2> QED
    BY <2>1, NullIsNoRecord DEF Onward, Extends, Follows
<1> QED
  BY <1>1, <1>3, <1>4, CloudKeeps, OwnershipKeep DEF Keeps

\* The steps that create and record a server group.
LEMMA SGOwnership ==
  ASSUME BaseInv, OwnershipInv, CreateSG \/ PatchSG
  PROVE  OwnershipInv'
<1>1. InLoops /\ worker.i \in Ports /\ worker \in Workers /\ worker.mem.uid = uid
      /\ pa # Null /\ pa.uid = uid /\ uid \in Uids /\ uid # 0
  <2>1. InLoops /\ worker.i \in Ports
    BY DEF CreateSG, PatchSG, InLoops, At, BaseInv, WorkerInv, LoopInv
  <2> QED
    BY <2>1, InTheLoops DEF Current, PARecords, Uids
<1>2. sg \in [SGIds -> {"none", "Creating", "Available", "Deleted"}]
  BY DEF BaseInv, TypeOK
<1>3. pa' # Null /\ pa'.uid = pa.uid
      /\ \A i \in Ports : pa.sgs[i].id # 0 => pa'.sgs[i].id # 0
  BY <1>1, ProvisioningBase, NullIsNoRecord DEF ProvisioningStep, Onward, Extends, Follows
<1>4. CASE CreateSG
  <2>1. UNCHANGED <<pa, listener, recorded>>
    BY <1>4 DEF CreateSG, k8sVars
  <2> DEFINE s == <<worker.mem.uid, worker.i>>
  <2>2. s \in SGIds
    BY <1>1 DEF SGIds
  <2>3. sg' = [sg EXCEPT ![s] = IF sg[s] = "none" THEN "Creating" ELSE sg[s]]
    BY <1>4 DEF CreateSG
  <2>4. worker'.pc = "patchSG" /\ worker'.id = worker.mem.uid /\ worker'.i = worker.i
    BY <1>1, <1>4 DEF CreateSG, Workers
  <2> HIDE DEF s
  <2>5. FewerListeners /\ SGsAge
    BY <1>2, <2>1, <2>2, <2>3 DEF FewerListeners, SGsAge, Alive, LivesOn
  <2>6. sg'[s] # "none"
    BY <1>2, <2>2, <2>3
  <2>7. SGWorkerInv'
    BY <2>4, <2>6 DEF SGWorkerInv, At, s
  <2> QED
    BY <1>3, <2>1, <2>5, <2>7, OwnerKeep DEF OwnershipInv, Keeps
<1>5. CASE PatchSG
  <2> DEFINE s == <<worker.id, worker.i>>
  <2>1. UNCHANGED <<listener, sg>> /\ recorded' = recorded \cup {s}
    BY <1>5 DEF PatchSG, PatchedNext, cloudVars
  <2>2. worker.id = uid /\ sg[s] # "none"
    BY <1>5 DEF PatchSG, BaseInv, WorkerInv, LoopInv, InLoops, At, OwnershipInv, SGWorkerInv
  <2>3. worker'.pc = "serverGroups"
    BY <1>1, <1>5 DEF PatchSG, PatchedNext, Workers
  <2>4. pa'.sgs[worker.i].id # 0
    <3>1. pa' = [pa EXCEPT !.sgs[worker.i] = [id |-> worker.id, phase |-> "Creating"]]
      BY <1>5 DEF PatchSG, PatchedNext, WritePA
    <3>2. pa \in PARecords
      BY <1>1, InTheLoops
    <3> QED
      BY <1>1, <2>2, <3>1, <3>2 DEF PARecords
  <2>5. OwnerInv'
    BY <1>1, <1>3, <2>1, Layout DEF OwnershipInv, OwnerInv, Alive
  <2>6. ASSUME NEW x \in recorded
        PROVE  /\ sg'[x] # "none"
               /\ LivesOn(x) => pa' # Null /\ pa'.uid = x[1] /\ pa'.sgs[x[2]].id # 0
    <3>1. x \in SGIds /\ x[2] \in Ports
      BY DEF BaseInv, TypeOK, SGIds
    <3> QED
      BY <1>3, <2>1, <3>1 DEF OwnershipInv, RecordedInv, LivesOn, Alive
  <2>7. s[1] = uid /\ s[2] = worker.i
    BY <2>2
  <2> HIDE DEF s
  <2>8. RecordedInv'
    BY <1>1, <1>3, <2>1, <2>2, <2>4, <2>6, <2>7 DEF RecordedInv, Alive, LivesOn
  <2>9. SGWorkerInv'
    BY <2>3 DEF SGWorkerInv, At
  <2> QED
    BY <2>5, <2>8, <2>9 DEF OwnershipInv
<1> QED
  BY <1>4, <1>5

\* CreateListener: the new listener forwards to a recorded SG of this PA.
LEMMA SubmitOwnership ==
  ASSUME BaseInv, OwnershipInv, At("listeners"), worker.i \in Listeners,
         NEW t \in Prefixes, Submit(worker.i, t)
  PROVE  OwnershipInv'
<1> DEFINE k == worker.i
<1>1. UNCHANGED <<pa, sg, recorded>>
  BY DEF Submit, k8sVars
<1>2. InLoops /\ pa # Null /\ pa.uid = uid
      /\ \A i \in Ports : pa.sgs[i].id # 0
  <2>1. InLoops
    BY DEF InLoops, At
  <2> QED
    BY <2>1, InTheLoops DEF BaseInv, WorkerInv, LoopInv, At, Current, Follows
<1>3. \A j \in Listeners : SGOf(j) = <<uid, PortOf(j)>> /\ SGOf(j) \in SGIds
  BY SGOfPA DEF SGOf, At
<1>4. worker'.pc = "patchListener"
  BY DEF Submit, BaseInv, TypeOK, Workers
<1>5. SGWorkerInv'
  BY <1>4 DEF SGWorkerInv, At
<1>6. CASE tokens[k][t] # 0
  <2>1. UNCHANGED listener
    BY <1>6 DEF Submit, CloudCreateListener
  <2> QED
    BY <1>1, <1>4, <2>1, CloudKeeps, OwnershipKeep DEF Keeps
<1>7. CASE tokens[k][t] = 0
  <2>1. Alive(SGOf(k))
    BY <1>7 DEF Submit, Accepted
  <2>2. listener' = [listener EXCEPT ![k] =
                       [id |-> made + 1, sg |-> SGOf(k), running |-> FALSE]]
    BY <1>7 DEF Submit, CloudCreateListener
  <2>3. listener'[k].sg = SGOf(k) /\ \A j \in Listeners : j # k => listener'[j] = listener[j]
    BY <2>2 DEF BaseInv, TypeOK
  <2>4. OwnerInv'
    BY <1>1, <1>2, <1>3, <2>1, <2>3, Layout DEF OwnershipInv, OwnerInv, Alive
  <2>5. RecordedInv'
    BY <1>1 DEF OwnershipInv, RecordedInv, Alive
  <2> QED
    BY <1>5, <2>4, <2>5 DEF OwnershipInv
<1> QED
  BY <1>6, <1>7

\* The worker takes something off its copy w.mem and tries to save it.
LEMMA SaveOwnership ==
  ASSUME BaseInv, OwnershipInv, UNCHANGED <<listener, recorded>>, SGsAge,
         NEW w, w.pc = "deletion", worker' = w,
         pa' = pa \/ (w.memOK /\ pa' = w.mem /\ pa' # Null),
         w.memOK =>
            /\ pa # Null /\ w.mem.uid = pa.uid
            /\ \A i \in Ports : w.mem.sgs[i] \in {Gone, pa.sgs[i]}
            /\ \A i \in Ports : w.mem.sgs[i].phase = "Gone" => Released(pa.uid, i)
  PROVE  OwnershipInv'
<1>1. FewerListeners
  BY DEF FewerListeners
<1>2. pa # Null => pa' # Null /\ pa'.uid = pa.uid
                   /\ \A i \in Ports : pa.sgs[i].id # 0 => Keeps(i)
  BY DEF Keeps, Gone
<1>3. OwnerInv' /\ RecordedInv'
  BY <1>1, <1>2, OwnerKeep DEF OwnershipInv
<1>4. SGWorkerInv'
  BY DEF SGWorkerInv, Released, Alive, LivesOn, At
<1> QED
  BY <1>3, <1>4 DEF OwnershipInv

\* The worker finds the PA deleted.
LEMMA StartDeletionOwnership ==
  ASSUME BaseInv, OwnershipInv, StartDeletion
  PROVE  OwnershipInv'
<1> DEFINE r == [paCache EXCEPT !.phase = "Deleting"]
           w == [Idle EXCEPT !.pc = "deletion", !.memOK = paSynced, !.mem = r]
<1>1. paCache \in PARecords /\ paCache # Null /\ (paSynced => pa = paCache)
  BY DEF StartDeletion, BaseInv, TypeOK, PAInv
<1>2. r \in PARecords /\ r.uid = paCache.uid /\ r.sgs = paCache.sgs
  BY <1>1 DEF PARecords, Phases
<1>3. w.pc = "deletion" /\ w.memOK = paSynced /\ w.mem = r
  BY DEF Idle
<1>4. worker' = w /\ UNCHANGED <<recorded, listener, sg>>
  BY DEF StartDeletion, cloudVars
<1>5. pa' = pa \/ (w.memOK /\ pa' = w.mem)
  BY DEF StartDeletion, BestEffort, WritePA
<1>6. ASSUME paSynced, NEW i \in Ports, r.sgs[i].phase = "Gone" PROVE Released(pa.uid, i)
  <2>1. pa.sgs[i].id = 0
    BY <1>1, <1>2, <1>6 DEF BaseInv, PAInv, WellFormed, IdsOf
  <2> QED
    BY <1>1, <1>4, <1>6, <2>1, NoIdNoUse
    DEF OwnershipInv, Released, Alive, LivesOn
<1> HIDE DEF r, w
<1>7. r # Null /\ SGsAge
  BY <1>2, <1>4, NullIsNoRecord, CloudKeeps
<1> QED
  BY <1>1, <1>2, <1>3, <1>4, <1>5, <1>6, <1>7, SaveOwnership

\* The worker in handleDeletion knows this of its copy.
LEMMA InDeletion ==
  ASSUME BaseInv, OwnershipInv, At("deletion")
  PROVE  /\ worker \in Workers /\ worker.mem \in PARecords /\ WellFormed(worker.mem)
         /\ worker.mem.deleting /\ worker.mem.finalizer
         /\ worker.memOK =>
              /\ pa # Null /\ pa.deleting /\ pa.finalizer /\ worker.mem.uid = pa.uid
              /\ worker.mem.endpoints = pa.endpoints
              /\ \A i \in Ports : worker.mem.sgs[i] \in {Gone, pa.sgs[i]}
              /\ \A k \in Listeners : worker.mem.lsns[k] \in {Gone, pa.lsns[k]}
              /\ \A i \in Ports : worker.mem.sgs[i].phase = "Gone" =>
                   /\ \A k \in Listeners : PortOf(k) = i => listener[k] = Null
                   /\ <<pa.uid, i>> \in recorded => ~Alive(<<pa.uid, i>>)
BY DEF BaseInv, TypeOK, WorkerInv, DeletionInv, Workers, OwnershipInv, SGWorkerInv

\* A copy of which something was taken off is saved as such, or not at all.
LEMMA PopShape ==
  ASSUME BaseInv, At("deletion"), NEW r, NEW id, Pop([worker EXCEPT !.mem = r], id)
  PROVE  \E w : /\ w.pc = "deletion" /\ w.mem = r /\ w.memOK = worker.memOK
                /\ worker' = w
                /\ pa' = pa \/ (w.memOK /\ pa' = w.mem)
                /\ UNCHANGED recorded
<1> DEFINE w == [worker EXCEPT !.mem = r]
<1>1. w.pc = "deletion" /\ w.mem = r /\ w.memOK = worker.memOK
  BY DEF BaseInv, TypeOK, Workers, At
<1>2. pa' = pa \/ (w.memOK /\ pa' = w.mem)
  BY DEF Pop, BestEffort, WritePA
<1>3. worker' = w /\ UNCHANGED recorded
  BY DEF Pop
<1> HIDE DEF w
<1> QED
  BY <1>1, <1>2, <1>3

\* The steps of handleDeletion: the finalizer goes when nothing is left.
LEMMA DeletionOwnership ==
  ASSUME BaseInv, OwnershipInv,
         \/ \E k \in Listeners : VerifyListener(k)
         \/ \E i \in Ports : DeleteServerGroup(i)
         \/ RemoveFinalizer
  PROVE  OwnershipInv'
<1>1. At("deletion")
  BY DEF VerifyListener, FirstListener, DeleteServerGroup, FirstSG, RemoveFinalizer, AllGone
<1>2. worker.mem \in PARecords
  BY <1>1, InDeletion
<1>3. Idle.pc = "idle"
  BY DEF Idle
<1>4. CASE worker' = Idle /\ UNCHANGED <<pa, recorded, listener, sg>>
  BY <1>3, <1>4, CloudKeeps, OwnershipKeep DEF Keeps
<1>5. ASSUME NEW k \in Listeners, VerifyListener(k) PROVE OwnershipInv'
  <2> DEFINE r == [worker.mem EXCEPT !.lsns[k] = Gone]
             id == worker.mem.lsns[k].id
  <2>1. CASE Exists(k, id)
    BY <1>4, <1>5, <2>1 DEF VerifyListener, k8sVars, cloudVars
  <2>2. CASE ~Exists(k, id)
    <3>1. r \in PARecords /\ r.uid = worker.mem.uid /\ r.sgs = worker.mem.sgs
      BY <1>2, Entries DEF PARecords
    <3>2. Pop([worker EXCEPT !.mem = r], id) /\ UNCHANGED <<listener, sg>>
      BY <1>5, <2>2 DEF VerifyListener, cloudVars
    <3> HIDE DEF r, id
    <3>3. PICK w : /\ w.pc = "deletion" /\ w.mem = r /\ w.memOK = worker.memOK
                   /\ worker' = w
                   /\ pa' = pa \/ (w.memOK /\ pa' = w.mem)
                   /\ UNCHANGED recorded
      BY <1>1, <3>2, PopShape
    <3>4. r # Null /\ SGsAge
      BY <3>1, <3>2, NullIsNoRecord, CloudKeeps
    <3>5. w.memOK =>
            /\ pa # Null /\ w.mem.uid = pa.uid
            /\ \A i \in Ports : w.mem.sgs[i] \in {Gone, pa.sgs[i]}
            /\ \A i \in Ports : w.mem.sgs[i].phase = "Gone" => Released(pa.uid, i)
      BY <1>1, <3>1, <3>2, <3>3, InDeletion DEF Released, Alive, LivesOn
    <3> QED
      BY <3>2, <3>3, <3>4, <3>5, SaveOwnership
  <2> QED
    BY <2>1, <2>2
<1>6. ASSUME NEW i \in Ports, DeleteServerGroup(i) PROVE OwnershipInv'
  <2> DEFINE r == [worker.mem EXCEPT !.sgs[i] = Gone]
             id == worker.mem.sgs[i].id
             s  == <<id, i>>
  <2>1. CASE id # 0 /\ InUse(s)
    BY <1>4, <1>6, <2>1 DEF DeleteServerGroup, k8sVars, cloudVars
  <2>2. CASE ~(id # 0 /\ InUse(s))
    <3>1. r \in PARecords /\ r.uid = worker.mem.uid
      BY <1>2, Entries DEF PARecords
    <3>2. \A j \in Ports : r.sgs[j] = IF j = i THEN Gone ELSE worker.mem.sgs[j]
      BY <1>2 DEF PARecords
    <3>3. Pop([worker EXCEPT !.mem = r], id) /\ UNCHANGED listener
      BY <1>6, <2>2 DEF DeleteServerGroup
    <3>4. sg' = (IF id = 0 THEN sg ELSE [sg EXCEPT ![s] = "Deleted"])
      BY <1>6, <2>2 DEF DeleteServerGroup
    <3>5. id # 0 => id = worker.mem.uid /\ s \in SGIds
      <4>1. WellFormed(worker.mem)
        BY <1>1, InDeletion
      <4>2. id # 0 => id = worker.mem.uid
        BY <4>1 DEF WellFormed, IdsOf
      <4> QED
        BY <1>2, <4>2 DEF PARecords, SGIds
    <3>6. sg \in [SGIds -> {"none", "Creating", "Available", "Deleted"}]
      BY DEF BaseInv, TypeOK
    <3>7. worker.mem.sgs[i].phase # "Gone"
      BY <1>6 DEF DeleteServerGroup, FirstSG
    <3> HIDE DEF r, id
    <3>8. PICK w : /\ w.pc = "deletion" /\ w.mem = r /\ w.memOK = worker.memOK
                   /\ worker' = w
                   /\ pa' = pa \/ (w.memOK /\ pa' = w.mem)
                   /\ UNCHANGED recorded
      BY <1>1, <3>3, PopShape
    <3>9. SGsAge
      BY <2>2, <3>4, <3>5, <3>6 DEF SGsAge, Alive, LivesOn
    <3>10. ASSUME worker.memOK PROVE Released(pa.uid, i)
      <4>1. /\ pa # Null /\ worker.mem.uid = pa.uid
            /\ worker.mem.sgs[i] \in {Gone, pa.sgs[i]}
        BY <1>1, <3>10, InDeletion
      <4>2. worker.mem.sgs[i] = pa.sgs[i]
        BY <3>7, <4>1 DEF Gone
      <4>3. CASE id = 0
        BY <3>3, <3>4, <4>1, <4>2, <4>3, NoIdNoUse
        DEF id, OwnershipInv, Released, Alive, LivesOn
      <4>4. CASE id # 0
        <5>1. s = <<pa.uid, i>> /\ ~InUse(s) /\ sg'[s] = "Deleted"
          BY <2>2, <3>4, <3>5, <3>6, <4>1, <4>4
        <5>2. \A k \in Listeners : PortOf(k) = i => listener[k] = Null
          BY <5>1 DEF InUse, OwnershipInv, OwnerInv
        <5> QED
          BY <3>3, <5>1, <5>2 DEF Released, LivesOn
      <4> QED
        BY <4>3, <4>4
    <3>11. ASSUME worker.memOK, NEW j \in Ports, j # i, worker.mem.sgs[j].phase = "Gone"
           PROVE  Released(pa.uid, j)
      <4>1. /\ \A k \in Listeners : PortOf(k) = j => listener[k] = Null
            /\ <<pa.uid, j>> \in recorded => ~Alive(<<pa.uid, j>>)
        BY <1>1, <3>11, InDeletion
      <4>2. <<pa.uid, j>> \in recorded => ~LivesOn(<<pa.uid, j>>)
        BY <3>4, <3>6, <4>1 DEF Alive, LivesOn, BaseInv, TypeOK
      <4> QED
        BY <3>3, <4>1, <4>2 DEF Released
    <3>12. w.memOK =>
             /\ pa # Null /\ w.mem.uid = pa.uid
             /\ \A j \in Ports : w.mem.sgs[j] \in {Gone, pa.sgs[j]}
             /\ \A j \in Ports : w.mem.sgs[j].phase = "Gone" => Released(pa.uid, j)
      BY <1>1, <3>1, <3>2, <3>8, <3>10, <3>11, InDeletion
    <3>13. r # Null
      BY <3>1, NullIsNoRecord
    <3> QED
      BY <3>3, <3>8, <3>9, <3>12, <3>13, SaveOwnership
  <2> QED
    BY <2>1, <2>2
<1>7. CASE RemoveFinalizer /\ worker.memOK
  <2>1. worker' = Idle /\ UNCHANGED <<recorded, listener, sg>>
    BY <1>7 DEF RemoveFinalizer, cloudVars
  <2>2. \A i \in Ports : worker.mem.sgs[i].phase = "Gone"
    BY <1>7 DEF RemoveFinalizer, AllGone
  <2>3. \A i \in Ports :
          /\ \A k \in Listeners : PortOf(k) = i => listener[k] = Null
          /\ <<pa.uid, i>> \in recorded => ~Alive(<<pa.uid, i>>)
    BY <1>1, <1>7, <2>2, InDeletion
  <2>4. \A k \in Listeners : listener[k] = Null
    BY <2>3, Layout
  <2>5. ASSUME NEW s \in recorded PROVE sg[s] # "none" /\ ~Alive(s)
    <3>1. s[2] \in Ports /\ s = <<s[1], s[2]>>
      BY DEF BaseInv, TypeOK, SGIds
    <3> QED
      BY <2>3, <3>1 DEF OwnershipInv, RecordedInv
  <2>6. OwnerInv' /\ RecordedInv'
    BY <2>1, <2>4, <2>5 DEF OwnerInv, RecordedInv, Alive
  <2>7. SGWorkerInv'
    BY <1>3, <2>1 DEF SGWorkerInv, At
  <2> QED
    BY <2>6, <2>7 DEF OwnershipInv
<1>8. CASE RemoveFinalizer /\ ~worker.memOK
  BY <1>4, <1>8 DEF RemoveFinalizer, k8sVars, cloudVars
<1> QED
  BY <1>5, <1>6, <1>7, <1>8

\* Every step.
LEMMA OwnershipStep == BaseInv /\ OwnershipInv /\ [Next]_vars => OwnershipInv'
<1> SUFFICES ASSUME BaseInv, OwnershipInv, [Next]_vars PROVE OwnershipInv'
  OBVIOUS
<1>1. CASE UNCHANGED vars
  BY <1>1, CloudKeeps, OwnershipKeep DEF vars, k8sVars, cloudVars, Keeps
<1>2. CASE CreateListener \/ RecreateListener
  <2>1. Prefix \in Prefixes /\ "lsn-recreate" \in Prefixes
    BY DEF Prefix, Prefixes
  <2> QED
    BY <1>2, <2>1, SubmitOwnership, ProvisioningOwnership
    DEF CreateListener, RecreateListener, AtListener
<1> QED
  BY <1>1, <1>2, PoolOwnership, CloudOwnership, ProvisioningOwnership, SGOwnership,
     StartDeletionOwnership, DeletionOwnership
  DEF Next, WorkerStep

\* It holds in every reachable state.
LEMMA OwnershipInvariant == Spec => []OwnershipInv
BY InitOwnership, BaseInvariant, OwnershipStep, PTL DEF Spec

\* No listener outlives the PA it was created for: when the finalizer goes, the worker
\* has seen every listener gone on a copy that the CAS proves to be current.
THEOREM EveryListenerHasOwner == Spec => []ListenerHasOwner
<1>1. OwnershipInv => ListenerHasOwner
  BY DEF OwnershipInv, OwnerInv, ListenerHasOwner
<1> QED
  BY <1>1, OwnershipInvariant, PTL

\* No SG outlives the PA that has recorded it, however stale the cache that the worker
\* went by, and whichever of its writes were lost.
THEOREM NoRecordedSGLeaks == Spec => []RecordedSGDeleted
<1>1. OwnershipInv => RecordedSGDeleted
  BY DEF OwnershipInv, RecordedInv, RecordedSGDeleted
<1> QED
  BY <1>1, OwnershipInvariant, PTL

-----------------------------------------------------------------------------
(* What is published is served.                                             *)

\* As long as its NLB lives, the listener on port k runs and id names it.
Right(k, id) ==
    nlb[LaneOf(k)] = "Active" =>
        listener[k] # Null /\ listener[k].running /\ listener[k].id = id

\* A worker that goes by r and comes to listener j writes to the PA, or stops there.
NeedsPatch(r, j) ==
    \/ r.lsns[j].phase = "Pending"
    \/ r.lsns[j].phase = "Creating" /\ (Exists(j, r.lsns[j].id) => listener[j].running)

\* It does so, and its copy is refreshed, before it comes to listener k.
Before(r, k) ==
    \/ \E i \in Ports : r.sgs[i].phase # "Active"
    \/ \E j \in Listeners : j < k /\ NeedsPatch(r, j)

Bounded(r) == \A k \in Listeners : r.lsns[k].id <= made

\* What r says is Running is so, and the PA names it even if it does not say that it
\* is Running.
Attested(r) ==
    \A k \in Listeners : r.lsns[k].phase = "Running" =>
        Right(k, r.lsns[k].id) /\ Right(k, pa.lsns[k].id)

PublishedInv ==
    pa # Null =>
        /\ Bounded(pa)
        /\ Attested(pa)
        /\ \A k \in Listeners : pa.endpoints[k] # 0 => Right(k, pa.endpoints[k])
        /\ pa.phase = "Available" \/ At("setAvailable") =>
             \A k \in Listeners : pa.endpoints[k] # 0

\* A cache that does not show a listener which is Running makes the worker refresh
\* its copy before it gets there: it does not replay an old client token.
CacheInv ==
    Usable(paCache) =>
        /\ Bounded(paCache)
        /\ Attested(paCache)
        /\ \A k \in Listeners :
             paCache.lsns[k].phase = "Pending" /\ pa.lsns[k].phase = "Running"
                 => Before(paCache, k)

MemInv == InLoops => Bounded(worker.mem) /\ Attested(worker.mem)

InSGs == worker.pc \in {"serverGroups", "patchSG"}
InListeners == worker.pc \in {"listeners", "patchListener"}

\* The worker has yet to come to listener k.
Ahead(k) == InSGs \/ (InListeners /\ worker.i <= k)

\* The worker's copy is what the cache shows, or where it has yet to go the cache
\* has caught up or the copy is refreshed.
CopyInv ==
    InLoops /\ Usable(paCache) =>
        \/ worker.mem.sgs = paCache.sgs /\ worker.mem.lsns = paCache.lsns
        \/ \A k \in Listeners : Ahead(k) =>
             \/ paCache.lsns[k] = pa.lsns[k]
             \/ worker.mem.lsns[k] = pa.lsns[k] /\ Before(paCache, k)

\* The worker will refresh a copy that does not show a listener which is Running.
RefreshInv ==
    \A k \in Listeners :
        (Ahead(k) /\ worker.mem.lsns[k].phase = "Pending" /\ pa.lsns[k].phase = "Running") =>
            \/ InSGs /\ ~worker.ready
            \/ InSGs /\ \E i \in Ports : i >= worker.i /\ worker.mem.sgs[i].phase # "Active"
            \/ \E j \in Listeners : j < k /\ Ahead(j) /\ NeedsPatch(worker.mem, j)

\* The id that is about to be recorded for a listener which is known to run is its
\* id.
PatchInv ==
    At("patchListener") =>
        /\ worker.id <= made
        /\ NeedsPatch(worker.mem, worker.i)
        /\ \/ pa.lsns[worker.i].phase = "Running"
           \/ Usable(paCache) /\ paCache.lsns[worker.i].phase = "Running"
           => Right(worker.i, worker.id)

\* The listeners that the worker is past are those it will publish.
Passed(k) ==
    At("promote") \/ (InListeners /\ worker.ready /\ k < worker.i)

PassedInv ==
    \A k \in Listeners : Passed(k) =>
        /\ worker.mem.lsns[k].id # 0
        /\ Right(k, worker.mem.lsns[k].id)
        /\ Right(k, pa.lsns[k].id)

LoopServed == MemInv /\ CopyInv /\ RefreshInv /\ PatchInv /\ PassedInv

DeletingInv == At("deletion") => worker.mem.phase = "Deleting"

ServedInv == PublishedInv /\ CacheInv /\ LoopServed /\ DeletingInv

-----------------------------------------------------------------------------
(* What the cloud never takes back.                                         *)

\* A running listener stays as long as its NLB lives, NLBs do not come back, and ids
\* are not reused.
CloudAges ==
    /\ made <= made'
    /\ \A k \in Listeners :
         /\ nlb'[LaneOf(k)] = "Active" => nlb[LaneOf(k)] = "Active"
         /\ listener'[k] # Null =>
              \/ /\ listener[k] # Null /\ listener'[k].id = listener[k].id
                 /\ listener[k].running => listener'[k].running
              \/ listener[k] = Null /\ listener'[k].id > made
         /\ listener[k] # Null /\ listener[k].running /\ nlb'[LaneOf(k)] = "Active" =>
              listener'[k] # Null

\* Steps that leave the cloud alone.
LEMMA SameCloudAges ==
  ASSUME BaseInv, UNCHANGED <<made, nlb, listener>>
  PROVE  CloudAges
BY DEF CloudAges, BaseInv, TypeOK

\* The steps of the cloud.
LEMMA CloudStepAges ==
  ASSUME BaseInv, CloudStep
  PROVE  CloudAges
<1> USE DEF k8sVars, cloudVars
<1>1. /\ listener \in [Listeners -> CloudListeners \cup {Null}]
      /\ nlb \in [Lanes -> {"Active", "Deleting", "Gone"}] /\ made \in Nat
      /\ \A k \in Listeners : LaneOf(k) \in Lanes
  BY Layout DEF BaseInv, TypeOK
<1>2. ASSUME UNCHANGED <<made, nlb, listener>> PROVE CloudAges
  BY <1>2, SameCloudAges
<1>3. ASSUME NEW s \in SGIds, SGReady(s) \/ SGVanishes(s) PROVE CloudAges
  BY <1>2, <1>3 DEF SGReady, SGVanishes
<1>4. ASSUME NEW k \in Listeners, ListenerReady(k) PROVE CloudAges
  <2>1. listener[k] \in CloudListeners
    BY <1>1, <1>4 DEF ListenerReady
  <2>2. listener'[k] # Null /\ listener'[k].id = listener[k].id /\ listener'[k].running
    <3> DEFINE l == [listener[k] EXCEPT !.running = TRUE]
    <3>1. l \in CloudListeners /\ l.id = listener[k].id /\ l.running
      BY <2>1 DEF CloudListeners
    <3>2. listener'[k] = l
      BY <1>1, <1>4 DEF ListenerReady
    <3> QED
      BY <3>1, <3>2, NullIsNoRecord
  <2>3. UNCHANGED <<made, nlb>> /\ \A j \in Listeners : j # k => listener'[j] = listener[j]
    BY <1>1, <1>4 DEF ListenerReady
  <2> QED
    BY <1>1, <1>4, <2>2, <2>3 DEF ListenerReady, CloudAges
<1>5. ASSUME NEW k \in Listeners, ListenerFails(k) PROVE CloudAges
  BY <1>1, <1>5 DEF ListenerFails, CloudAges
<1>6. ASSUME NEW k \in Listeners, NEW t \in Prefixes, ForgetToken(k, t) PROVE CloudAges
  BY <1>2, <1>6 DEF ForgetToken
<1>7. ASSUME NEW l \in Lanes, DeleteNLB(l) PROVE CloudAges
  BY <1>1, <1>7 DEF DeleteNLB, CloudAges
<1>8. ASSUME NEW l \in Lanes, Cascade(l) PROVE CloudAges
  BY <1>1, <1>8 DEF Cascade, CloudAges
<1> QED
  BY <1>3, <1>4, <1>5, <1>6, <1>7, <1>8 DEF CloudStep

\* CreateListener: a new listener has a new id.
LEMMA SubmitAges ==
  ASSUME BaseInv, At("listeners"), worker.i \in Listeners, NEW t \in Prefixes,
         Submit(worker.i, t)
  PROVE  CloudAges
<1> DEFINE k == worker.i
<1>1. CASE tokens[k][t] # 0
  BY <1>1, SameCloudAges DEF Submit, CloudCreateListener
<1>2. CASE tokens[k][t] = 0
  <2>1. listener[k] = Null /\ made' = made + 1 /\ made \in Nat /\ UNCHANGED nlb
    BY <1>2 DEF Submit, Accepted, CloudCreateListener, BaseInv, TypeOK
  <2>2. listener'[k].id = made + 1 /\ \A j \in Listeners : j # k => listener'[j] = listener[j]
    BY <1>2 DEF Submit, CloudCreateListener, BaseInv, TypeOK
  <2> QED
    BY <2>1, <2>2 DEF CloudAges
<1> QED
  BY <1>1, <1>2

\* The same of the next state.
RightNext(k, id) ==
    nlb'[LaneOf(k)] = "Active" =>
        listener'[k] # Null /\ listener'[k].running /\ listener'[k].id = id

NeedsPatchNext(r, j) ==
    \/ r.lsns[j].phase = "Pending"
    \/ /\ r.lsns[j].phase = "Creating"
       /\ listener'[j] # Null /\ listener'[j].id = r.lsns[j].id => listener'[j].running

BeforeNext(r, k) ==
    \/ \E i \in Ports : r.sgs[i].phase # "Active"
    \/ \E j \in Listeners : j < k /\ NeedsPatchNext(r, j)

\* A listener that is right for its entry stays so as the cloud ages.
LEMMA RightStays ==
  ASSUME BaseInv, CloudAges, NEW k \in Listeners, NEW id, Right(k, id)
  PROVE  RightNext(k, id)
BY DEF CloudAges, Right, RightNext

\* An entry of an old copy that calls for a patch goes on calling for it.
LEMMA NeedsPatchStays ==
  ASSUME BaseInv, CloudAges, NEW r, NEW j \in Listeners, r.lsns[j].id \in Nat,
         r.lsns[j].id <= made, NeedsPatch(r, j)
  PROVE  NeedsPatchNext(r, j)
<1>1. made \in Nat
  BY DEF BaseInv, TypeOK
<1>2. CASE r.lsns[j].phase = "Pending"
  BY <1>2 DEF NeedsPatchNext
<1>3. CASE r.lsns[j].phase = "Creating" /\ (Exists(j, r.lsns[j].id) => listener[j].running)
  <2>1. ASSUME listener'[j] # Null, listener'[j].id = r.lsns[j].id
        PROVE  listener'[j].running
    <3>1. ~(listener'[j].id > made)
      BY <1>1, <2>1
    <3>2. /\ listener[j] # Null /\ listener'[j].id = listener[j].id
          /\ listener[j].running => listener'[j].running
      BY <2>1, <3>1 DEF CloudAges
    <3> QED
      BY <1>3, <2>1, <3>2 DEF Exists
  <2> QED
    BY <1>3, <2>1 DEF NeedsPatchNext
<1> QED
  BY <1>2, <1>3 DEF NeedsPatch

\* What stops a worker before an entry goes on stopping it.
LEMMA BeforeStays ==
  ASSUME BaseInv, CloudAges, NEW r \in PARecords, Bounded(r), NEW k \in Listeners,
         Before(r, k)
  PROVE  BeforeNext(r, k)
<1>1. \A j \in Listeners : r.lsns[j].id \in Nat /\ r.lsns[j].id <= made
  BY DEF Bounded, PARecords, ListenerEntries
<1>2. \A j \in Listeners : NeedsPatch(r, j) => NeedsPatchNext(r, j)
  BY <1>1, NeedsPatchStays
<1> QED
  BY <1>2 DEF Before, BeforeNext

-----------------------------------------------------------------------------
(* What a step leaves alone.                                                *)

\* The arrays of the PA stay, or lose an entry or get one that is Pending.
LEMMA PublishedKeep ==
  ASSUME BaseInv, BaseInv', CloudAges, PublishedInv, pa # Null,
         pa'.endpoints = pa.endpoints,
         \A k \in Listeners : pa'.lsns[k] \in {Gone, Pending, pa.lsns[k]},
         pa'.phase = "Available" \/ worker'.pc = "setAvailable" =>
            pa.phase = "Available" \/ At("setAvailable")
  PROVE  PublishedInv'
<1> SUFFICES ASSUME pa' # Null
             PROVE  /\ \A k \in Listeners : pa'.lsns[k].id <= made'
                    /\ \A k \in Listeners : pa'.lsns[k].phase = "Running" =>
                         RightNext(k, pa'.lsns[k].id)
                    /\ \A k \in Listeners :
                         pa'.endpoints[k] # 0 => RightNext(k, pa'.endpoints[k])
                    /\ pa'.phase = "Available" \/ worker'.pc = "setAvailable" =>
                         \A k \in Listeners : pa'.endpoints[k] # 0
  BY DEF PublishedInv, Bounded, Attested, Right, RightNext, At
<1>1. made \in Nat /\ made' \in Nat /\ made <= made' /\ pa \in PARecords
  BY DEF BaseInv, TypeOK, CloudAges
<1>2. ASSUME NEW k \in Listeners
      PROVE  /\ pa'.lsns[k].id <= made'
             /\ pa'.lsns[k].phase = "Running" => RightNext(k, pa'.lsns[k].id)
  <2>1. pa.lsns[k].id \in Nat /\ pa.lsns[k].id <= made
    BY <1>1 DEF PARecords, ListenerEntries, PublishedInv, Bounded
  <2>2. CASE pa'.lsns[k] = pa.lsns[k]
    BY <1>1, <2>1, <2>2, RightStays DEF PublishedInv, Attested
  <2>3. CASE pa'.lsns[k] \in {Gone, Pending}
    BY <1>1, <2>3 DEF Gone, Pending
  <2> QED
    BY <2>2, <2>3
<1>3. \A k \in Listeners : pa'.endpoints[k] # 0 => RightNext(k, pa'.endpoints[k])
  BY RightStays DEF PublishedInv
<1>4. pa'.phase = "Available" \/ worker'.pc = "setAvailable" =>
        \A k \in Listeners : pa'.endpoints[k] # 0
  BY DEF PublishedInv
<1> QED
  BY <1>2, <1>3, <1>4

\* A cached PA that may be provisioned goes by a PA of which only what the cache
\* accounts for has changed.
LEMMA CacheKeep ==
  ASSUME BaseInv, BaseInv', CloudAges, CacheInv, UNCHANGED paCache,
         Usable(paCache) =>
            \A k \in Listeners :
               \/ pa'.lsns[k] = pa.lsns[k]
               \/ /\ paCache.lsns[k].phase = "Running" => RightNext(k, pa'.lsns[k].id)
                  /\ paCache.lsns[k].phase = "Pending" /\ pa'.lsns[k].phase = "Running" =>
                       Before(paCache, k)
  PROVE  CacheInv'
<1> SUFFICES ASSUME Usable(paCache)
             PROVE  /\ \A k \in Listeners : paCache.lsns[k].id <= made'
                    /\ \A k \in Listeners : paCache.lsns[k].phase = "Running" =>
                         /\ RightNext(k, paCache.lsns[k].id)
                         /\ RightNext(k, pa'.lsns[k].id)
                    /\ \A k \in Listeners :
                         paCache.lsns[k].phase = "Pending" /\ pa'.lsns[k].phase = "Running"
                            => BeforeNext(paCache, k)
  BY DEF CacheInv, Bounded, Attested, Right, RightNext, Usable, Before, BeforeNext,
         NeedsPatch, NeedsPatchNext, Exists
<1>1. made \in Nat /\ made' \in Nat /\ made <= made' /\ paCache \in PARecords
  BY DEF BaseInv, TypeOK, CloudAges, Usable
<1>2. Bounded(paCache) /\ Attested(paCache)
  BY DEF CacheInv
<1>3. \A k \in Listeners : paCache.lsns[k].id <= made'
  BY <1>1, <1>2 DEF Bounded, PARecords, ListenerEntries
<1>4. ASSUME NEW k \in Listeners, paCache.lsns[k].phase = "Running"
      PROVE  RightNext(k, paCache.lsns[k].id) /\ RightNext(k, pa'.lsns[k].id)
  <2>1. RightNext(k, paCache.lsns[k].id) /\ RightNext(k, pa.lsns[k].id)
    BY <1>2, <1>4, RightStays DEF Attested
  <2> QED
    BY <1>4, <2>1
<1>5. ASSUME NEW k \in Listeners, paCache.lsns[k].phase = "Pending",
             pa'.lsns[k].phase = "Running"
      PROVE  BeforeNext(paCache, k)
  <2>1. Before(paCache, k)
    BY <1>5 DEF CacheInv
  <2> QED
    BY <1>1, <1>2, <2>1, BeforeStays
<1> QED
  BY <1>3, <1>4, <1>5

\* The worker is not in handleProvisioning.
LEMMA OutOfLoop ==
  ASSUME worker'.pc \notin {"serverGroups", "patchSG", "listeners", "patchListener", "promote"}
  PROVE  LoopServed'
BY DEF LoopServed, MemInv, CopyInv, RefreshInv, PatchInv, PassedInv, InLoops, Ahead, Passed,
       InSGs, InListeners, At

\* The worker stays where it is, and what it goes by stays as it is.
LEMMA LoopKeep ==
  ASSUME BaseInv, BaseInv', CloudAges, CacheInv, LoopServed, UNCHANGED paCache,
         worker'.pc = worker.pc, worker'.mem = worker.mem, worker'.i = worker.i,
         worker'.id = worker.id, worker'.ready = worker.ready,
         InLoops => pa'.lsns = pa.lsns
  PROVE  LoopServed'
<1> SUFFICES ASSUME InLoops PROVE LoopServed'
  BY OutOfLoop DEF InLoops
<1>1. /\ worker.mem \in PARecords /\ made \in Nat /\ made' \in Nat /\ made <= made'
      /\ pa'.lsns = pa.lsns /\ worker \in Workers
      /\ \A k \in Listeners : worker.mem.lsns[k].id \in Nat
  BY InTheLoops DEF BaseInv, TypeOK, CloudAges, PARecords, ListenerEntries
<1>2. Bounded(worker.mem) /\ Attested(worker.mem)
  BY DEF LoopServed, MemInv
<1>3. MemInv'
  <2>1. \A k \in Listeners : worker'.mem.lsns[k].id <= made'
    BY <1>1, <1>2 DEF Bounded
  <2>2. \A k \in Listeners : worker'.mem.lsns[k].phase = "Running" =>
           RightNext(k, worker'.mem.lsns[k].id) /\ RightNext(k, pa'.lsns[k].id)
    BY <1>1, <1>2, RightStays DEF Attested
  <2> QED
    BY <2>1, <2>2 DEF MemInv, Bounded, Attested, Right, RightNext
<1>4. \A j \in Listeners : NeedsPatch(worker.mem, j) => NeedsPatchNext(worker.mem, j)
  BY <1>1, <1>2, NeedsPatchStays DEF Bounded
<1>5. CopyInv'
  <2> SUFFICES ASSUME Usable(paCache)
               PROVE  \/ worker.mem.sgs = paCache.sgs /\ worker.mem.lsns = paCache.lsns
                      \/ \A k \in Listeners : Ahead(k) =>
                           \/ paCache.lsns[k] = pa.lsns[k]
                           \/ worker.mem.lsns[k] = pa.lsns[k] /\ BeforeNext(paCache, k)
    BY <1>1 DEF CopyInv, Usable, Ahead, InSGs, InListeners, BeforeNext, NeedsPatchNext, Before,
                NeedsPatch, Exists
  <2>1. \A k \in Listeners : Before(paCache, k) => BeforeNext(paCache, k)
    BY BeforeStays DEF BaseInv, TypeOK, Usable, CacheInv
  <2> QED
    BY <2>1 DEF LoopServed, CopyInv
<1>6. RefreshInv'
  <2>1. ASSUME NEW k \in Listeners, Ahead(k), worker.mem.lsns[k].phase = "Pending",
               pa.lsns[k].phase = "Running"
        PROVE  \/ InSGs /\ ~worker.ready
               \/ InSGs /\ \E i \in Ports : i >= worker.i /\ worker.mem.sgs[i].phase # "Active"
               \/ \E j \in Listeners : j < k /\ Ahead(j) /\ NeedsPatchNext(worker.mem, j)
    BY <1>4, <2>1 DEF LoopServed, RefreshInv
  <2> QED
    BY <1>1, <2>1 DEF RefreshInv, Ahead, InSGs, InListeners, NeedsPatchNext, NeedsPatch, Exists
<1>7. PatchInv'
  <2>1. ASSUME At("patchListener")
        PROVE  /\ worker.id <= made'
               /\ NeedsPatchNext(worker.mem, worker.i)
               /\ \/ pa.lsns[worker.i].phase = "Running"
                  \/ Usable(paCache) /\ paCache.lsns[worker.i].phase = "Running"
                  => RightNext(worker.i, worker.id)
    <3>1. worker.i \in Listeners /\ worker.id \in Nat
      BY <1>1, <2>1 DEF BaseInv, WorkerInv, LoopInv, Workers
    <3> QED
      BY <1>1, <1>4, <2>1, <3>1, RightStays DEF LoopServed, PatchInv
  <2> QED
    BY <1>1, <2>1
    DEF PatchInv, At, Usable, NeedsPatchNext, NeedsPatch, Exists, Right, RightNext
<1>8. PassedInv'
  <2>1. ASSUME NEW k \in Listeners, Passed(k)
        PROVE  /\ worker.mem.lsns[k].id # 0
               /\ RightNext(k, worker.mem.lsns[k].id)
               /\ RightNext(k, pa.lsns[k].id)
    BY <2>1, RightStays DEF LoopServed, PassedInv
  <2> QED
    BY <1>1, <2>1 DEF PassedInv, Passed, InListeners, At, Right, RightNext
<1> QED
  BY <1>3, <1>5, <1>6, <1>7, <1>8 DEF LoopServed

-----------------------------------------------------------------------------
(* The initial states, and steps of everyone but the worker.                *)

\* The initial states.
LEMMA InitServed == Init => ServedInv
BY DEF Init, ServedInv, PublishedInv, CacheInv, Usable, LoopServed, MemInv, CopyInv, RefreshInv,
       PatchInv, PassedInv, DeletingInv, InLoops, Ahead, Passed, InSGs, InListeners, At, Idle

\* Nothing but the cloud moves.
LEMMA QuietServed ==
  ASSUME BaseInv, BaseInv', ServedInv, CloudAges, UNCHANGED <<pa, paCache, worker>>
  PROVE  ServedInv'
<1>1. PublishedInv'
  <2>1. CASE pa = Null
    BY <2>1 DEF PublishedInv
  <2>2. CASE pa # Null
    BY <2>2, PublishedKeep DEF ServedInv, At
  <2> QED
    BY <2>1, <2>2
<1>2. CacheInv'
  BY CacheKeep DEF ServedInv
<1>3. LoopServed'
  BY LoopKeep DEF ServedInv
<1> QED
  BY <1>1, <1>2, <1>3 DEF ServedInv, DeletingInv, At

\* Someone else writes the PA, or removes one that was not provisioned.
LEMMA PoolServed ==
  ASSUME BaseInv, BaseInv', ServedInv, CreatePA \/ InitialPhase \/ DeletePA
  PROVE  ServedInv'
<1>1. CloudAges /\ UNCHANGED paCache
  BY SameCloudAges DEF CreatePA, InitialPhase, DeletePA, cloudVars
<1>2. worker \in Workers
  BY DEF BaseInv, TypeOK
<1>3. PICK r : /\ Overtake(r)
               /\ \/ pa = Null /\ r = NewPA(uid + 1)
                  \/ pa # Null /\ r = [pa EXCEPT !.phase = "Provisioning"]
                  \/ pa # Null /\ r = [pa EXCEPT !.deleting = TRUE]
                  \/ pa # Null /\ ~pa.finalizer /\ r = Null
  BY DEF CreatePA, InitialPhase, DeletePA
<1>4. pa' = r /\ worker'.pc = worker.pc /\ worker'.mem = worker.mem
      /\ worker'.i = worker.i /\ worker'.id = worker.id /\ worker'.ready = worker.ready
  BY <1>2, <1>3 DEF Overtake, WritePA, Workers
<1>5. DeletingInv'
  BY <1>4 DEF ServedInv, DeletingInv, At
<1>6. CASE \/ pa # Null /\ r = [pa EXCEPT !.phase = "Provisioning"]
           \/ pa # Null /\ r = [pa EXCEPT !.deleting = TRUE]
  <2>1. /\ pa # Null /\ r.lsns = pa.lsns /\ r.endpoints = pa.endpoints
        /\ r.phase = "Available" => pa.phase = "Available"
    BY <1>6 DEF BaseInv, TypeOK, PARecords
  <2>2. PublishedInv'
    BY <1>1, <1>4, <2>1, PublishedKeep DEF ServedInv, At
  <2>3. CacheInv'
    BY <1>1, <1>4, <2>1, CacheKeep DEF ServedInv
  <2>4. LoopServed'
    BY <1>1, <1>4, <2>1, LoopKeep DEF ServedInv
  <2> QED
    BY <1>5, <2>2, <2>3, <2>4 DEF ServedInv
<1>7. CASE \/ pa = Null /\ r = NewPA(uid + 1)
           \/ pa # Null /\ ~pa.finalizer /\ r = Null
  <2>1. ~Usable(paCache) /\ ~InLoops /\ ~At("setAvailable")
    BY <1>7 DEF BaseInv, PAInv, WorkerInv, LoopInv, Current
  <2>2. CacheInv' /\ LoopServed'
    BY <1>1, <1>4, <2>1, OutOfLoop DEF CacheInv, Usable, InLoops
  <2>3. PublishedInv'
    <3>1. CASE r = Null
      BY <1>4, <3>1 DEF PublishedInv
    <3>2. CASE r = NewPA(uid + 1)
      <4>1. made' \in Nat /\ pa'.phase = "" /\ worker'.pc # "setAvailable"
            /\ \A k \in Listeners : pa'.lsns[k] = Gone /\ pa'.endpoints[k] = 0
        BY <1>4, <2>1, <3>2 DEF NewPA, At, BaseInv, TypeOK
      <4>2. Gone.id = 0 /\ Gone.phase = "Gone"
        BY DEF Gone
      <4>3. 0 <= made'
        <5>1. made' \in Nat
          BY <4>1, Zenon
        <5> QED
          BY <5>1
      <4>4. \A k \in Listeners : /\ pa'.lsns[k].id <= made' /\ pa'.lsns[k].phase # "Running"
                                 /\ pa'.endpoints[k] = 0
        BY <4>1, <4>2, <4>3, Zenon
      <4> QED
        BY <4>1, <4>4 DEF PublishedInv, Bounded, Attested, At
    <3> QED
      BY <1>7, <3>1, <3>2
  <2> QED
    BY <1>5, <2>2, <2>3 DEF ServedInv
<1> QED
  BY <1>3, <1>6, <1>7

\* The cache now shows all there is.
LEMMA SyncServed ==
  ASSUME BaseInv, BaseInv', ServedInv, SyncPA
  PROVE  ServedInv'
<1>1. paCache' = pa /\ UNCHANGED <<pa, worker, made, nlb, listener>>
  BY DEF SyncPA, cloudVars
<1>2. CloudAges
  BY <1>1, SameCloudAges
<1>3. PublishedInv' /\ MemInv' /\ RefreshInv' /\ PassedInv' /\ DeletingInv'
  BY <1>1
  DEF ServedInv, LoopServed, PublishedInv, MemInv, RefreshInv, PassedInv, DeletingInv, Bounded,
      Attested, Right, InLoops, Ahead, Passed, InSGs, InListeners, NeedsPatch, Exists, At
<1>4. CacheInv'
  <2>1. pa # Null => Bounded(pa) /\ Attested(pa)
    BY DEF ServedInv, PublishedInv
  <2> QED
    BY <1>1, <2>1 DEF CacheInv, Usable, Bounded, Attested, Right
<1>5. CopyInv'
  BY <1>1 DEF CopyInv
<1>6. PatchInv'
  BY <1>1
  DEF ServedInv, LoopServed, PatchInv, NeedsPatch, Exists, Right, At
<1> QED
  BY <1>3, <1>4, <1>5, <1>6 DEF ServedInv, LoopServed

-----------------------------------------------------------------------------
(* Steps of the worker outside handleProvisioning, into it and out of it.   *)

\* The worker leaves, or is not in, handleProvisioning, and the PA keeps what it
\* published.
LEMMA LeaveServed ==
  ASSUME BaseInv, BaseInv', ServedInv, UNCHANGED <<paCache, made, nlb, listener>>,
         worker'.pc \in {"idle", "setAvailable"},
         pa # Null => /\ pa'.endpoints = pa.endpoints
                      /\ pa'.lsns = pa.lsns
                      /\ pa'.phase = "Available" \/ worker'.pc = "setAvailable" =>
                            pa.phase = "Available" \/ At("setAvailable"),
         pa = Null => pa' = Null
  PROVE  ServedInv'
<1>1. CloudAges
  BY SameCloudAges
<1>2. LoopServed' /\ DeletingInv'
  BY OutOfLoop DEF DeletingInv, At
<1>3. PublishedInv'
  <2>1. CASE pa = Null
    BY <2>1 DEF PublishedInv
  <2>2. CASE pa # Null
    BY <1>1, <2>2, PublishedKeep DEF ServedInv
  <2> QED
    BY <2>1, <2>2
<1>4. CacheInv'
  <2>1. Usable(paCache) => pa # Null
    BY DEF BaseInv, PAInv, Current
  <2> QED
    BY <1>1, <2>1, CacheKeep DEF ServedInv
<1> QED
  BY <1>2, <1>3, <1>4 DEF ServedInv

\* The worker gives up.
LEMMA IdleServed ==
  ASSUME BaseInv, BaseInv', ServedInv, worker' = Idle, UNCHANGED <<k8sVars, cloudVars>>
  PROVE  ServedInv'
<1>1. worker'.pc = "idle" /\ UNCHANGED <<pa, paCache, made, nlb, listener>>
  BY DEF Idle, k8sVars, cloudVars
<1> QED
  BY <1>1, LeaveServed

\* The steps before the loops over the arrays.
LEMMA StartServed ==
  ASSUME BaseInv, BaseInv', ServedInv,
         AddFinalizer \/ InitStatus \/ FillArrays \/ StartProvisioning
  PROVE  ServedInv'
<1>1. /\ At("idle") /\ paCache # Null /\ ~paCache.deleting /\ paCache \in PARecords
      /\ WellFormed(paCache)
      /\ UNCHANGED <<paCache, made, nlb, listener>>
  BY DEF AddFinalizer, InitStatus, FillArrays, StartProvisioning, Reconcile, OneWrite,
         k8sVars, cloudVars, BaseInv, TypeOK, PAInv
<1>2. CloudAges
  BY <1>1, SameCloudAges
<1>3. CASE AddFinalizer
  <2>1. pa = paCache /\ pa' = [pa EXCEPT !.finalizer = TRUE] /\ UNCHANGED worker
    BY <1>3 DEF AddFinalizer, OneWrite, WritePA, BaseInv, PAInv
  <2>2. pa'.endpoints = pa.endpoints /\ pa'.lsns = pa.lsns /\ pa'.phase = pa.phase
    BY <1>1, <2>1 DEF PARecords
  <2> QED
    BY <1>1, <2>1, <2>2, LeaveServed DEF At
<1>4. CASE InitStatus \/ FillArrays
  <2>1. pa = paCache /\ pa' = FilledArrays(pa) /\ UNCHANGED worker /\ paCache.finalizer
    BY <1>4 DEF InitStatus, FillArrays, OneWrite, WritePA, BaseInv, PAInv
  <2>2. Empty(pa)
    <3>1. CASE InitStatus
      BY <1>1, <2>1, <3>1 DEF InitStatus, Reconcile, WellFormed
    <3>2. CASE FillArrays
      <4>1. ~Filled(paCache)
        BY <3>2, ConstantsAssumption DEF FillArrays, NoArrays, Filled, Ports, Gone
      <4> QED
        BY <1>1, <2>1, <4>1 DEF WellFormed
    <3> QED
      BY <1>4, <3>1, <3>2
  <2>3. /\ pa'.endpoints = pa.endpoints /\ pa'.phase = "Provisioning"
        /\ \A k \in Listeners : pa'.lsns[k] = Pending
    BY <1>1, <2>1 DEF PARecords, FilledArrays
  <2>4. PublishedInv'
    BY <1>1, <1>2, <2>1, <2>3, PublishedKeep DEF ServedInv, At
  <2>5. CacheInv'
    BY <1>1, <1>2, <2>1, <2>2, <2>3, CacheKeep DEF ServedInv, Empty, Pending
  <2>6. LoopServed' /\ DeletingInv'
    BY <1>1, <2>1, OutOfLoop DEF DeletingInv, At
  <2> QED
    BY <2>4, <2>5, <2>6 DEF ServedInv
<1>5. CASE StartProvisioning
  <2>1. /\ worker'.pc = "serverGroups" /\ worker'.mem = paCache /\ worker'.i = 1
        /\ UNCHANGED <<pa, paCache, listener, nlb, made>>
    BY <1>5 DEF StartProvisioning, Idle, k8sVars, cloudVars
  <2>2. Usable(paCache) /\ pa # Null
    BY <1>1, <1>5 DEF StartProvisioning, Usable, BaseInv, PAInv, Current
  <2>3. /\ Bounded(paCache) /\ Attested(paCache)
        /\ \A k \in Listeners :
             paCache.lsns[k].phase = "Pending" /\ pa.lsns[k].phase = "Running"
               => Before(paCache, k)
    BY <2>2 DEF ServedInv, CacheInv
  <2>4. MemInv'
    BY <2>1, <2>3 DEF MemInv, Bounded, Attested, Right
  <2>5. CopyInv'
    BY <2>1 DEF CopyInv
  <2>6. RefreshInv'
    <3> SUFFICES ASSUME NEW k \in Listeners, paCache.lsns[k].phase = "Pending",
                        pa.lsns[k].phase = "Running"
                 PROVE  \/ \E i \in Ports : i >= 1 /\ paCache.sgs[i].phase # "Active"
                        \/ \E j \in Listeners : j < k /\ NeedsPatch(paCache, j)
      BY <2>1 DEF RefreshInv, Ahead, InSGs, InListeners, NeedsPatch, Exists
    <3>1. Before(paCache, k)
      BY <2>3
    <3> QED
      BY <3>1 DEF Before, Ports
  <2>7. PatchInv' /\ PassedInv' /\ DeletingInv'
    BY <2>1 DEF PatchInv, PassedInv, Passed, InListeners, DeletingInv, At
  <2>8. PublishedInv'
    BY <1>2, <2>1, <2>2, PublishedKeep DEF ServedInv, At
  <2>9. CacheInv'
    BY <1>2, <2>1, CacheKeep DEF ServedInv
  <2> QED
    BY <2>4, <2>5, <2>6, <2>7, <2>8, <2>9 DEF ServedInv, LoopServed
<1> QED
  BY <1>3, <1>4, <1>5

-----------------------------------------------------------------------------
(* Steps of the worker through its loops that write nothing.                *)

\* What the loops go by, unfolded.
LEMMA InLoopServed ==
  ASSUME BaseInv, ServedInv, InLoops
  PROVE  /\ PublishedInv /\ Bounded(pa) /\ Attested(pa)
         /\ Bounded(worker.mem) /\ Attested(worker.mem)
         /\ CacheInv /\ CopyInv /\ RefreshInv /\ PatchInv /\ PassedInv
BY InTheLoops DEF ServedInv, PublishedInv, LoopServed, MemInv

\* Only the worker has moved.
LEMMA AloneServed ==
  ASSUME BaseInv, BaseInv', ServedInv, UNCHANGED <<pa, paCache, made, nlb, listener>>,
         worker'.pc \notin {"setAvailable", "deletion"}, InLoops, LoopServed'
  PROVE  ServedInv'
<1>1. CloudAges /\ pa # Null
  BY SameCloudAges, InTheLoops
<1>2. PublishedInv'
  BY <1>1, PublishedKeep DEF ServedInv
<1>3. CacheInv'
  BY <1>1, CacheKeep DEF ServedInv
<1>4. DeletingInv'
  BY DEF DeletingInv, At
<1> QED
  BY <1>2, <1>3, <1>4 DEF ServedInv

\* The copy is as it was, and so is what it says.
LEMMA SameMem ==
  ASSUME MemInv, InLoops, worker'.mem = worker.mem, UNCHANGED <<pa, made, nlb, listener>>
  PROVE  MemInv'
BY DEF MemInv, Bounded, Attested, Right

\* CreateSG, and the loop over the SGs.
LEMMA SGLoopServed ==
  ASSUME BaseInv, BaseInv', ServedInv,
         \/ CreateSG \/ SkipActiveSG
         \/ PollSG /\ NextElement(FALSE)
         \/ EndSGs /\ worker.ready
  PROVE  ServedInv'
<1>1. InLoops /\ At("serverGroups")
  BY DEF CreateSG, PollSG, SkipActiveSG, EndSGs, InLoops, At
<1>2. worker \in Workers /\ worker.i \in Nat \ {0}
  BY <1>1, InTheLoops
<1>3. UNCHANGED <<pa, paCache, made, nlb, listener>>
  BY DEF CreateSG, PollSG, SkipActiveSG, EndSGs, NextElement, k8sVars, cloudVars
<1>4. /\ worker'.mem = worker.mem
      /\ \/ /\ worker'.pc \in {"serverGroups", "patchSG"}
            /\ \/ ~worker'.ready
               \/ /\ worker'.ready = worker.ready
                  /\ \A i \in Ports :
                       i >= worker.i /\ worker.mem.sgs[i].phase # "Active" => i >= worker'.i
         \/ /\ worker'.pc = "listeners" /\ worker'.i = 1 /\ worker.ready
            /\ worker.i \notin Ports
  <2>1. CASE CreateSG
    BY <1>2, <2>1 DEF CreateSG, Workers
  <2>2. CASE SkipActiveSG
    <3>1. worker' = [worker EXCEPT !.i = worker.i + 1, !.ready = worker.ready /\ TRUE]
      BY <2>2 DEF SkipActiveSG, NextElement
    <3>2. worker'.pc = "serverGroups" /\ worker'.mem = worker.mem /\ worker'.i = worker.i + 1
          /\ worker'.ready = worker.ready
      BY <1>1, <1>2, <3>1 DEF Workers, At
    <3> QED
      BY <1>2, <2>2, <3>2 DEF SkipActiveSG, Ports
  <2>3. CASE PollSG /\ NextElement(FALSE)
    BY <1>1, <1>2, <2>3 DEF NextElement, Workers, At
  <2>4. CASE EndSGs /\ worker.ready
    BY <1>2, <2>4 DEF EndSGs, Workers
  <2> QED
    BY <2>1, <2>2, <2>3, <2>4
<1>5. MemInv /\ CopyInv /\ RefreshInv
  BY DEF ServedInv, LoopServed
<1>6. MemInv'
  BY <1>1, <1>3, <1>4, <1>5, SameMem
<1>7. CopyInv'
  <2>1. \A k \in Listeners : Ahead(k)
    BY <1>1 DEF Ahead, InSGs, At
  <2> QED
    BY <1>1, <1>3, <1>4, <1>5, <2>1
    DEF CopyInv, Before, NeedsPatch, Exists, Usable
<1>8. RefreshInv'
  <2> SUFFICES ASSUME NEW k \in Listeners, worker.mem.lsns[k].phase = "Pending",
                      pa.lsns[k].phase = "Running"
               PROVE  \/ worker'.pc \in {"serverGroups", "patchSG"} /\ ~worker'.ready
                      \/ /\ worker'.pc \in {"serverGroups", "patchSG"}
                         /\ \E i \in Ports :
                              i >= worker'.i /\ worker.mem.sgs[i].phase # "Active"
                      \/ \E j \in Listeners :
                           /\ j < k
                           /\ \/ worker'.pc \in {"serverGroups", "patchSG"}
                              \/ worker'.pc \in {"listeners", "patchListener"} /\ worker'.i <= j
                           /\ NeedsPatch(worker.mem, j)
    BY <1>3, <1>4 DEF RefreshInv, Ahead, InSGs, InListeners, NeedsPatch, Exists
  <2>1. Ahead(k)
    BY <1>1 DEF Ahead, InSGs, At
  <2>2. \/ ~worker.ready
        \/ \E i \in Ports : i >= worker.i /\ worker.mem.sgs[i].phase # "Active"
        \/ \E j \in Listeners : j < k /\ NeedsPatch(worker.mem, j)
    BY <1>5, <2>1 DEF RefreshInv
  <2>3. \A j \in Listeners : 1 <= j
    BY DEF Listeners
  <2>4. CASE worker'.pc = "listeners" /\ worker'.i = 1 /\ worker.ready /\ worker.i \notin Ports
    <3>1. ~\E i \in Ports : i >= worker.i
      BY <1>2, <2>4, ConstantsAssumption DEF Ports
    <3> QED
      BY <2>2, <2>3, <2>4, <3>1
  <2>5. CASE worker'.pc \in {"serverGroups", "patchSG"}
    BY <1>4, <2>2, <2>5
  <2> QED
    BY <1>4, <2>4, <2>5
<1>9. PatchInv'
  BY <1>4 DEF PatchInv, At
<1>10. PassedInv'
  BY <1>4 DEF PassedInv, Passed, InListeners, Listeners, At
<1> QED
  BY <1>1, <1>3, <1>4, <1>6, <1>7, <1>8, <1>9, <1>10, AloneServed DEF LoopServed

\* The loop over the listeners.
LEMMA ListenerLoopServed ==
  ASSUME BaseInv, BaseInv', ServedInv,
         \/ SkipRunningListener
         \/ PollListener /\ NextElement(FALSE) /\ ~listener[worker.i].running
  PROVE  ServedInv'
<1> DEFINE i == worker.i
           mem == worker.mem
<1>1. InLoops /\ At("listeners") /\ i \in Listeners
  BY DEF SkipRunningListener, PollListener, AtListener, InLoops, At
<1>2. worker \in Workers /\ i \in Nat \ {0} /\ WellFormed(mem)
  BY <1>1, InTheLoops
<1>3. UNCHANGED <<pa, paCache, made, nlb, listener>>
  BY DEF SkipRunningListener, PollListener, NextElement, k8sVars, cloudVars
<1>4. /\ worker'.pc = "listeners" /\ worker'.mem = mem /\ worker'.i = i + 1
      /\ worker'.ready => worker.ready /\ mem.lsns[i].phase = "Running"
  <2>1. CASE SkipRunningListener
    <3>1. worker' = [worker EXCEPT !.i = worker.i + 1, !.ready = worker.ready /\ TRUE]
      BY <2>1 DEF SkipRunningListener, NextElement
    <3> QED
      BY <1>1, <1>2, <2>1, <3>1 DEF SkipRunningListener, AtListener, Workers, At
  <2>2. CASE NextElement(FALSE)
    BY <1>1, <1>2, <2>2 DEF NextElement, Workers, At
  <2> QED
    BY <2>1, <2>2
<1>5. ~NeedsPatch(mem, i)
  BY DEF SkipRunningListener, PollListener, AtListener, NeedsPatch
<1>6. MemInv /\ CopyInv /\ RefreshInv /\ PassedInv /\ Attested(mem)
  BY <1>1, InLoopServed DEF ServedInv, LoopServed
<1>7. MemInv'
  BY <1>1, <1>3, <1>4, <1>6, SameMem
<1>8. \A k \in Listeners : Ahead(k) <=> i <= k
  BY <1>1 DEF Ahead, InSGs, InListeners, At
<1>9. \A k \in Listeners : k \in Int
  BY DEF Listeners
<1>10. CopyInv'
  BY <1>1, <1>2, <1>3, <1>4, <1>6, <1>8, <1>9
  DEF CopyInv, Ahead, InSGs, InListeners, Before, NeedsPatch, Exists, Usable
<1>11. RefreshInv'
  <2> SUFFICES ASSUME NEW k \in Listeners, i + 1 <= k, mem.lsns[k].phase = "Pending",
                      pa.lsns[k].phase = "Running"
               PROVE  \E j \in Listeners : j < k /\ i + 1 <= j /\ NeedsPatch(mem, j)
    BY <1>3, <1>4 DEF RefreshInv, Ahead, InSGs, InListeners, NeedsPatch, Exists
  <2>1. \E j \in Listeners : j < k /\ Ahead(j) /\ NeedsPatch(mem, j)
    BY <1>1, <1>2, <1>6, <1>8, <1>9 DEF RefreshInv, InSGs, At
  <2> QED
    BY <1>2, <1>5, <1>8, <1>9, <2>1
<1>12. PassedInv'
  <2> SUFFICES ASSUME worker'.ready, NEW k \in Listeners, k < i + 1
               PROVE  /\ mem.lsns[k].id # 0
                      /\ Right(k, mem.lsns[k].id)
                      /\ Right(k, pa.lsns[k].id)
    BY <1>3, <1>4 DEF PassedInv, Passed, InListeners, At, Right
  <2>1. CASE k = i
    BY <1>1, <1>2, <1>4, <1>6, <2>1 DEF WellFormed, IdsOf, Attested
  <2>2. CASE k < i
    BY <1>1, <1>4, <1>6, <2>2 DEF PassedInv, Passed, InListeners, At
  <2> QED
    BY <1>2, <1>9, <2>1, <2>2
<1>13. PatchInv'
  BY <1>4 DEF PatchInv, At
<1> QED
  BY <1>1, <1>3, <1>4, <1>7, <1>10, <1>11, <1>12, <1>13, AloneServed DEF LoopServed

\* The loop ends with everything ready: nothing stood before the last entry.
LEMMA EndListenersServed ==
  ASSUME BaseInv, BaseInv', ServedInv, EndListeners, worker.ready
  PROVE  ServedInv'
<1>1. InLoops /\ At("listeners") /\ worker.i \notin Listeners
  BY DEF EndListeners, InLoops, At
<1>2. worker \in Workers /\ worker.i \in Nat \ {0}
  BY <1>1, InTheLoops
<1>3. UNCHANGED <<pa, paCache, made, nlb, listener>>
  BY DEF EndListeners, k8sVars, cloudVars
<1>4. worker'.pc = "promote" /\ worker'.mem = worker.mem
  BY <1>2 DEF EndListeners, Workers
<1>5. \A k \in Listeners : k < worker.i
  BY <1>1, <1>2, ConstantsAssumption DEF Listeners
<1>6. MemInv'
  BY <1>1, <1>3, <1>4, SameMem DEF ServedInv, LoopServed
<1>7. PassedInv'
  <2>1. \A k \in Listeners : Passed(k)
    BY <1>1, <1>5 DEF Passed, InListeners, At
  <2> QED
    BY <1>3, <1>4, <2>1 DEF ServedInv, LoopServed, PassedInv, Right
<1>8. CopyInv' /\ RefreshInv' /\ PatchInv'
  BY <1>4 DEF CopyInv, RefreshInv, PatchInv, Ahead, InSGs, InListeners, At
<1> QED
  BY <1>1, <1>3, <1>4, <1>6, <1>7, <1>8, AloneServed DEF LoopServed

-----------------------------------------------------------------------------
(* Steps of the worker that create, find or record.                         *)

\* The worker is about to record an id: that of a listener it has found, or the answer
\* to a CreateListener.
LEMMA NamedServed ==
  ASSUME BaseInv, BaseInv', ServedInv, CloudAges, At("listeners"), worker.i \in Listeners,
         UNCHANGED <<pa, paCache>>,
         NEW id \in Nat, worker' = [worker EXCEPT !.pc = "patchListener", !.id = id],
         id <= made', NeedsPatch(worker.mem, worker.i),
         \/ pa.lsns[worker.i].phase = "Running"
         \/ Usable(paCache) /\ paCache.lsns[worker.i].phase = "Running"
         => RightNext(worker.i, id)
  PROVE  ServedInv'
<1> DEFINE i == worker.i
           mem == worker.mem
<1>1. InLoops
  BY DEF InLoops, At
<1>2. /\ worker \in Workers /\ mem \in PARecords /\ made \in Nat /\ made' \in Nat
      /\ made <= made' /\ pa # Null
      /\ \A k \in Listeners : mem.lsns[k].id \in Nat
  BY <1>1, InTheLoops DEF BaseInv, TypeOK, CloudAges, PARecords, ListenerEntries
<1>3. /\ worker'.pc = "patchListener" /\ worker'.mem = mem /\ worker'.i = i
      /\ worker'.id = id /\ worker'.ready = worker.ready
  BY <1>2 DEF Workers
<1>4. Bounded(mem) /\ Attested(mem) /\ CacheInv /\ CopyInv /\ RefreshInv /\ PassedInv
  BY <1>1, InLoopServed
<1>5. \A j \in Listeners : NeedsPatch(mem, j) => NeedsPatchNext(mem, j)
  BY <1>2, <1>4, NeedsPatchStays DEF Bounded
<1>6. MemInv'
  <2>1. \A k \in Listeners : mem.lsns[k].id <= made'
    BY <1>2, <1>4 DEF Bounded
  <2>2. \A k \in Listeners : mem.lsns[k].phase = "Running" =>
           RightNext(k, mem.lsns[k].id) /\ RightNext(k, pa.lsns[k].id)
    BY <1>4, RightStays DEF Attested
  <2> QED
    BY <1>3, <2>1, <2>2 DEF MemInv, Bounded, Attested, Right, RightNext
<1>7. CopyInv'
  <2> SUFFICES ASSUME Usable(paCache)
               PROVE  \/ mem.sgs = paCache.sgs /\ mem.lsns = paCache.lsns
                      \/ \A k \in Listeners : i <= k =>
                           \/ paCache.lsns[k] = pa.lsns[k]
                           \/ mem.lsns[k] = pa.lsns[k] /\ BeforeNext(paCache, k)
    BY <1>3 DEF CopyInv, Usable, Ahead, InSGs, InListeners, BeforeNext, NeedsPatchNext, Before,
                NeedsPatch, Exists
  <2>1. \A k \in Listeners : Before(paCache, k) => BeforeNext(paCache, k)
    BY <1>4, BeforeStays DEF BaseInv, TypeOK, Usable, CacheInv
  <2>2. \A k \in Listeners : i <= k => Ahead(k)
    BY DEF Ahead, InListeners, At
  <2> QED
    BY <1>1, <1>4, <2>1, <2>2 DEF CopyInv
<1>8. RefreshInv'
  <2> SUFFICES ASSUME NEW k \in Listeners, i <= k, mem.lsns[k].phase = "Pending",
                      pa.lsns[k].phase = "Running"
               PROVE  \E j \in Listeners : j < k /\ i <= j /\ NeedsPatchNext(mem, j)
    BY <1>3
    DEF RefreshInv, Ahead, InSGs, InListeners, NeedsPatchNext, NeedsPatch, Exists
  <2>1. Ahead(k)
    BY DEF Ahead, InListeners, At
  <2>2. \E j \in Listeners : j < k /\ Ahead(j) /\ NeedsPatch(mem, j)
    BY <1>4, <2>1 DEF RefreshInv, InSGs, At
  <2> QED
    BY <1>5, <2>2 DEF Ahead, InSGs, InListeners, At
<1>9. PassedInv'
  <2>1. ASSUME NEW k \in Listeners, worker.ready /\ k < i
        PROVE  /\ mem.lsns[k].id # 0
               /\ RightNext(k, mem.lsns[k].id)
               /\ RightNext(k, pa.lsns[k].id)
    BY <1>4, <2>1, RightStays DEF PassedInv, Passed, InListeners, At
  <2> QED
    BY <1>3, <2>1 DEF PassedInv, Passed, InListeners, At, Right, RightNext
<1>10. PatchInv'
  <2>1. NeedsPatchNext(mem, i)
    BY <1>5
  <2> QED
    BY <1>3, <2>1
    DEF PatchInv, At, Usable, NeedsPatchNext, NeedsPatch, Exists, Right, RightNext
<1>11. PublishedInv'
  BY <1>2, <1>3, PublishedKeep DEF ServedInv
<1>12. CacheInv' /\ DeletingInv'
  BY <1>3, CacheKeep DEF ServedInv, DeletingInv, At
<1> QED
  BY <1>6, <1>7, <1>8, <1>9, <1>10, <1>11, <1>12 DEF ServedInv, LoopServed

\* Where a listener is known to run and its NLB lives, there is one.
LEMMA KnownRuns ==
  ASSUME BaseInv, ServedInv, InLoops, NEW k \in Listeners, nlb[LaneOf(k)] = "Active",
         \/ pa.lsns[k].phase = "Running"
         \/ Usable(paCache) /\ paCache.lsns[k].phase = "Running"
  PROVE  listener[k] # Null /\ Right(k, listener[k].id)
BY InLoopServed DEF CacheInv, Attested, Right

\* The adoption of a listener on Conflict.Port.
LEMMA AdoptServed ==
  ASSUME BaseInv, BaseInv', ServedInv, At("listeners"), worker.i \in Listeners,
         nlb[LaneOf(worker.i)] = "Active", NeedsPatch(worker.mem, worker.i), Adopt(worker.i)
  PROVE  ServedInv'
<1> DEFINE id == listener[worker.i].id
<1>1. InLoops
  BY DEF InLoops, At
<1>2. /\ worker' = [worker EXCEPT !.pc = "patchListener", !.id = id]
      /\ UNCHANGED <<pa, paCache, made, nlb, listener>>
  BY DEF Adopt, k8sVars, cloudVars
<1>3. CloudAges /\ id \in Nat /\ id <= made'
  BY <1>2, SameCloudAges DEF Adopt, BaseInv, CloudInv, TypeOK
<1>4. \/ pa.lsns[worker.i].phase = "Running"
      \/ Usable(paCache) /\ paCache.lsns[worker.i].phase = "Running"
      => RightNext(worker.i, id)
  BY <1>1, <1>3, KnownRuns, RightStays
<1> HIDE DEF id
<1> QED
  BY <1>2, <1>3, <1>4, NamedServed

\* A client token that the cloud remembers is repeated only for a listener that is not
\* known to run.
LEMMA NoReplay ==
  ASSUME BaseInv, ServedInv, AtListener("Pending")
  PROVE  /\ pa.lsns[worker.i].phase # "Running"
         /\ Usable(paCache) => paCache.lsns[worker.i].phase # "Running"
<1> DEFINE i == worker.i
           mem == worker.mem
<1>1. InLoops /\ At("listeners") /\ i \in Listeners /\ mem.lsns[i].phase = "Pending"
  BY DEF AtListener, InLoops, At
<1>2. Ahead(i)
  BY <1>1 DEF Ahead, InListeners, Listeners, At
<1>3. pa.lsns[i].phase # "Running"
  <2> SUFFICES ASSUME pa.lsns[i].phase = "Running" PROVE FALSE
    OBVIOUS
  <2>1. \E j \in Listeners : j < i /\ Ahead(j)
    BY <1>1, <1>2, InLoopServed DEF RefreshInv, InSGs, At
  <2> QED
    BY <1>1, <2>1 DEF Ahead, InSGs, InListeners, At, Listeners
<1>4. ASSUME Usable(paCache), paCache.lsns[i].phase = "Running" PROVE FALSE
  <2>1. \/ mem.lsns = paCache.lsns
        \/ paCache.lsns[i] = pa.lsns[i]
        \/ mem.lsns[i] = pa.lsns[i]
    BY <1>1, <1>2, <1>4, InLoopServed DEF CopyInv
  <2>2. mem.lsns[i] = pa.lsns[i]
    BY <1>1, <1>3, <1>4, <2>1
  <2>3. Current(paCache, pa) /\ WellFormed(paCache)
    BY <1>4 DEF BaseInv, PAInv, Usable
  <2>4. paCache.lsns[i].id # 0
    BY <1>1, <1>4, <2>3 DEF WellFormed, IdsOf
  <2>5. pa.lsns[i].id # 0
    BY <1>1, <2>3, <2>4 DEF Current, Follows
  <2>6. WellFormed(pa)
    BY <1>1, InTheLoops
  <2> QED
    BY <1>1, <2>2, <2>5, <2>6 DEF WellFormed, IdsOf
<1> QED
  BY <1>3, <1>4

\* The creation of a listener, by a token that the cloud may remember.
LEMMA CreateListenerServed ==
  ASSUME BaseInv, BaseInv', ServedInv, CreateListener \/ RecreateListener
  PROVE  ServedInv'
<1> DEFINE i == worker.i
<1>1. InLoops /\ At("listeners") /\ i \in Listeners /\ nlb[LaneOf(i)] = "Active"
      /\ NeedsPatch(worker.mem, i)
  BY DEF CreateListener, RecreateListener, AtListener, InLoops, At, NeedsPatch
<1>2. ASSUME NEW t \in Prefixes, Submit(i, t),
             listener[i] = Null \/ tokens[i][t] = 0 \/ AtListener("Pending")
      PROVE  ServedInv'
  <2> DEFINE id == Answer(i, t)
  <2>1. CloudAges
    BY <1>1, <1>2, SubmitAges
  <2>2. worker' = [worker EXCEPT !.pc = "patchListener", !.id = id]
        /\ UNCHANGED <<pa, paCache>>
    BY <1>2 DEF Submit, k8sVars
  <2>3. id \in Nat /\ id <= made'
    <3>1. tokens[i][t] \in Nat /\ tokens[i][t] <= made /\ made \in Nat
      BY <1>1 DEF BaseInv, TypeOK, CloudInv
    <3> QED
      BY <1>2, <3>1 DEF Submit, CloudCreateListener, Answer
  <2>4. ASSUME \/ pa.lsns[i].phase = "Running"
               \/ Usable(paCache) /\ paCache.lsns[i].phase = "Running"
        PROVE  FALSE
    <3>1. listener[i] # Null
      BY <1>1, <2>4, KnownRuns
    <3>2. tokens[i][t] # 0
      BY <1>2, <3>1 DEF Submit, Accepted
    <3>3. AtListener("Pending")
      BY <1>2, <3>1, <3>2
    <3> QED
      BY <2>4, <3>3, NoReplay
  <2> HIDE DEF id
  <2> QED
    BY <1>1, <2>1, <2>2, <2>3, <2>4, NamedServed
<1>3. Prefix \in Prefixes /\ "lsn-recreate" \in Prefixes
  BY DEF Prefix, Prefixes
<1>4. CASE CreateListener
  BY <1>1, <1>2, <1>3, <1>4, AdoptServed DEF CreateListener
<1>5. CASE RecreateListener
  BY <1>1, <1>2, <1>3, <1>5, AdoptServed DEF RecreateListener
<1> QED
  BY <1>4, <1>5

\* The response of a patch has refreshed the copy.
LEMMA Refreshed ==
  ASSUME pa' # Null, worker'.mem = pa', PublishedInv'
  PROVE  MemInv' /\ RefreshInv'
<1>1. MemInv'
  BY DEF MemInv, PublishedInv, Bounded, Attested, Right
<1>2. RefreshInv'
  BY DEF RefreshInv
<1> QED
  BY <1>1, <1>2

\* What a patch of one entry leaves behind.
LEMMA PatchedWorker ==
  ASSUME BaseInv, InLoops, NEW label \in {"serverGroups", "listeners"}, NEW r,
         NEW ready \in BOOLEAN, PatchedNext(label, r, ready)
  PROVE  /\ worker'.pc = label /\ worker'.mem = r /\ worker'.i = worker.i + 1
         /\ worker'.ready => worker.ready /\ ready
         /\ pa' = r /\ UNCHANGED <<paCache, made, nlb, listener>> /\ CloudAges
<1> DEFINE both == worker.ready /\ ready
<1>1. /\ worker' = [worker EXCEPT !.pc = label, !.mem = r, !.memOK = TRUE,
                                 !.i = @ + 1, !.ready = both]
      /\ pa' = r /\ UNCHANGED <<paCache, made, nlb, listener>>
  BY DEF PatchedNext, WritePA, cloudVars
<1>2. worker \in Workers
  BY InTheLoops
<1>3. worker'.ready => both
  <2> HIDE DEF both
  <2> QED
    BY <1>1, <1>2, Zenon DEF Workers
<1>4. worker'.pc = label /\ worker'.mem = r /\ worker'.i = worker.i + 1
  <2> HIDE DEF both
  <2> QED
    BY <1>1, <1>2 DEF Workers
<1> QED
  BY <1>1, <1>3, <1>4, SameCloudAges

\* An SG is recorded, or recorded as Active: the cache that the worker's copy comes from
\* shows an SG that is not Active.
LEMMA PatchedSGServed ==
  ASSUME BaseInv, BaseInv', ServedInv, InLoops, InSGs, NEW i \in Ports,
         worker.mem.sgs[i].phase # "Active", NEW r, NEW ready \in BOOLEAN,
         r.lsns = pa.lsns, r.endpoints = pa.endpoints, r.phase = pa.phase,
         PatchedNext("serverGroups", r, ready)
  PROVE  ServedInv'
<1>1. /\ worker'.pc = "serverGroups" /\ worker'.mem = r /\ pa' = r
      /\ UNCHANGED <<paCache, nlb, listener>> /\ CloudAges
  BY PatchedWorker
<1>2. pa # Null /\ CopyInv
  BY InTheLoops, InLoopServed
<1>3. PublishedInv' /\ CacheInv'
  BY <1>1, <1>2, PublishedKeep, CacheKeep DEF ServedInv, At
<1>4. pa' # Null
  BY <1>1, InTheLoops DEF BaseInv, WorkerInv, LoopInv, InLoops, Current
<1>5. CopyInv'
  <2> SUFFICES ASSUME Usable(paCache), NEW k \in Listeners
               PROVE  paCache.lsns[k] = pa.lsns[k] \/ Before(paCache, k)
    BY <1>1 DEF CopyInv, Before, NeedsPatch, Exists, Usable
  <2>1. Ahead(k)
    BY DEF Ahead
  <2> QED
    BY <1>2, <2>1 DEF CopyInv, Before
<1>6. PatchInv' /\ PassedInv' /\ DeletingInv'
  BY <1>1 DEF PatchInv, PassedInv, Passed, InListeners, DeletingInv, At
<1> QED
  BY <1>1, <1>3, <1>4, <1>5, <1>6, Refreshed DEF ServedInv, LoopServed

\* The patches of server groups.
LEMMA SGPatchesServed ==
  ASSUME BaseInv, BaseInv', ServedInv, PatchSG \/ PollSG
  PROVE  ServedInv'
<1>1. InLoops /\ InSGs /\ worker.i \in Ports /\ pa \in PARecords
  <2>1. InLoops /\ InSGs
    BY DEF PatchSG, PollSG, InLoops, InSGs, At
  <2> QED
    BY <2>1, InTheLoops DEF PatchSG, PollSG, BaseInv, WorkerInv, LoopInv, At
<1>2. ASSUME NEW e PROVE LET r == [pa EXCEPT !.sgs[worker.i] = e]
                         IN  r.lsns = pa.lsns /\ r.endpoints = pa.endpoints /\ r.phase = pa.phase
  BY <1>1 DEF PARecords
<1>3. CASE PatchSG
  <2>1. worker.mem.sgs[worker.i].phase # "Active"
    BY <1>3 DEF PatchSG, BaseInv, WorkerInv, LoopInv, InLoops, At
  <2> QED
    BY <1>1, <1>2, <1>3, <2>1, PatchedSGServed DEF PatchSG
<1>4. CASE PollSG /\ NextElement(FALSE)
  BY <1>4, SGLoopServed
<1>5. CASE PollSG /\ ~NextElement(FALSE)
  BY <1>1, <1>2, <1>5, PatchedSGServed DEF PollSG
<1> QED
  BY <1>3, <1>4, <1>5

\* A listener is recorded, or recorded as Running.
LEMMA PatchedListenerServed ==
  ASSUME BaseInv, BaseInv', ServedInv, InLoops, InListeners, worker.i \in Listeners,
         NeedsPatch(worker.mem, worker.i),
         NEW e \in ListenerEntries, NEW ready \in BOOLEAN,
         PatchedNext("listeners", [pa EXCEPT !.lsns[worker.i] = e], ready),
         e.phase \in {"Creating", "Running"}, e.id <= made,
         e.phase = "Running" \/ (Usable(paCache) /\ paCache.lsns[worker.i].phase = "Running")
            => Right(worker.i, e.id),
         e.phase = "Running" /\ Usable(paCache) /\ paCache.lsns[worker.i].phase = "Pending"
            => Before(paCache, worker.i),
         ready => e.phase = "Running" /\ e.id # 0
  PROVE  ServedInv'
<1> DEFINE i == worker.i
           mem == worker.mem
           r == [pa EXCEPT !.lsns[i] = e]
<1>1. /\ worker'.pc = "listeners" /\ worker'.mem = r /\ worker'.i = i + 1 /\ pa' = r
      /\ worker'.ready => worker.ready /\ ready
      /\ UNCHANGED <<paCache, made, nlb, listener>> /\ CloudAges
  BY PatchedWorker
<1>2. /\ pa \in PARecords /\ pa # Null /\ mem \in PARecords /\ Current(mem, pa)
      /\ i \in Nat \ {0} /\ worker \in Workers
  BY InTheLoops
<1>3. /\ PublishedInv /\ Bounded(pa) /\ Attested(pa) /\ Attested(mem)
      /\ CacheInv /\ CopyInv /\ RefreshInv /\ PassedInv
  BY InLoopServed
<1>4. r.phase = pa.phase /\ r.endpoints = pa.endpoints /\ r.sgs = pa.sgs
  BY <1>2 DEF PARecords
<1>5. \A k \in Listeners : r.lsns[k] = IF k = i THEN e ELSE pa.lsns[k]
  BY <1>2 DEF PARecords
<1> HIDE DEF r
<1>6. pa' # Null
  BY <1>1, InTheLoops DEF BaseInv, WorkerInv, LoopInv, InLoops, Current
<1>7. \A k \in Listeners : k \in Int
  BY DEF Listeners
<1>8. PublishedInv'
  <2>1. \A k \in Listeners : r.lsns[k].id <= made
    BY <1>3, <1>5 DEF Bounded
  <2>2. \A k \in Listeners : r.lsns[k].phase = "Running" => Right(k, r.lsns[k].id)
    BY <1>3, <1>5 DEF Attested
  <2>3. \A k \in Listeners : r.endpoints[k] # 0 => Right(k, r.endpoints[k])
    BY <1>2, <1>3, <1>4 DEF PublishedInv
  <2>4. r.phase = "Available" => \A k \in Listeners : r.endpoints[k] # 0
    BY <1>2, <1>3, <1>4 DEF PublishedInv
  <2> QED
    BY <1>1, <2>1, <2>2, <2>3, <2>4 DEF PublishedInv, Bounded, Attested, Right, At
<1>9. CacheInv'
  <2> SUFFICES ASSUME Usable(paCache), NEW k \in Listeners
               PROVE  \/ pa'.lsns[k] = pa.lsns[k]
                      \/ /\ paCache.lsns[k].phase = "Running" => RightNext(k, pa'.lsns[k].id)
                         /\ paCache.lsns[k].phase = "Pending" /\ pa'.lsns[k].phase = "Running" =>
                              Before(paCache, k)
    BY <1>1, <1>3, CacheKeep
  <2>1. CASE k = i
    BY <1>1, <1>5, <2>1, RightStays
  <2>2. CASE k # i
    BY <1>1, <1>5, <2>2
  <2> QED
    BY <2>1, <2>2
<1>10. CopyInv'
  <2> SUFFICES ASSUME Usable(paCache), NEW k \in Listeners, i < k
               PROVE  paCache.lsns[k] = r.lsns[k] \/ Before(paCache, k)
    BY <1>1, <1>2, <1>7
    DEF CopyInv, Before, NeedsPatch, Exists, Usable, Ahead, InSGs, InListeners
  <2>1. Ahead(k) /\ r.lsns[k] = pa.lsns[k]
    BY <1>2, <1>5, <1>7 DEF Ahead
  <2>2. CASE mem.sgs = paCache.sgs /\ mem.lsns = paCache.lsns
    BY <2>2 DEF Before, NeedsPatch
  <2>3. CASE paCache.lsns[k] = pa.lsns[k] \/ Before(paCache, k)
    BY <2>1, <2>3
  <2> QED
    BY <1>3, <2>1, <2>2, <2>3 DEF CopyInv
<1>11. PassedInv'
  <2> SUFFICES ASSUME worker'.ready, NEW k \in Listeners, k < i + 1
               PROVE  r.lsns[k].id # 0 /\ Right(k, r.lsns[k].id)
    BY <1>1 DEF PassedInv, Passed, InListeners, At, Right
  <2>1. CASE k = i
    BY <1>1, <1>5, <2>1
  <2>2. CASE k < i
    <3>1. Passed(k) /\ r.lsns[k] = pa.lsns[k]
      BY <1>1, <1>2, <1>5, <1>7, <2>2 DEF Passed
    <3>2. mem.lsns[k].id # 0 /\ Right(k, pa.lsns[k].id)
      BY <1>3, <3>1 DEF PassedInv
    <3> QED
      BY <1>2, <3>1, <3>2 DEF Current, Follows
  <2> QED
    BY <1>2, <1>7, <2>1, <2>2
<1>12. PatchInv' /\ DeletingInv'
  BY <1>1 DEF PatchInv, DeletingInv, At
<1> QED
  BY <1>1, <1>6, <1>8, <1>9, <1>10, <1>11, <1>12, Refreshed DEF ServedInv, LoopServed

\* The patches of listeners.
LEMMA ListenerPatchesServed ==
  ASSUME BaseInv, BaseInv', ServedInv, PatchListener \/ PollListener
  PROVE  ServedInv'
<1> DEFINE i == worker.i
           mem == worker.mem
<1>1. InLoops /\ InListeners
  BY DEF PatchListener, PollListener, AtListener, InLoops, InListeners, At
<1>2. /\ worker \in Workers /\ mem \in PARecords /\ WellFormed(mem) /\ Current(mem, pa)
      /\ WellFormed(pa)
  BY <1>1, InTheLoops
<1>3. CASE PatchListener
  <2> DEFINE e == [id |-> worker.id, phase |-> "Creating"]
  <2>1. i \in Listeners /\ worker.id \in Nat
    BY <1>1, <1>2, <1>3 DEF PatchListener, BaseInv, WorkerInv, LoopInv, Workers
  <2>2. e \in ListenerEntries /\ e.id = worker.id /\ e.phase = "Creating"
    BY <2>1, Entries
  <2>3. /\ worker.id <= made /\ NeedsPatch(mem, i)
        /\ Usable(paCache) /\ paCache.lsns[i].phase = "Running" => Right(i, worker.id)
    BY <1>1, <1>3, InLoopServed DEF PatchInv, PatchListener
  <2>4. PatchedNext("listeners", [pa EXCEPT !.lsns[i] = e], FALSE)
    BY <1>3 DEF PatchListener
  <2> HIDE DEF e
  <2> QED
    BY <1>1, <2>1, <2>2, <2>3, <2>4, PatchedListenerServed
<1>4. CASE PollListener /\ ~listener[i].running
  BY <1>4, ListenerLoopServed DEF PollListener
<1>5. CASE PollListener /\ listener[i].running
  <2> DEFINE old == mem.lsns[i]
             e == [old EXCEPT !.phase = "Running"]
  <2>1. /\ i \in Listeners /\ old.phase = "Creating" /\ Exists(i, old.id)
        /\ PatchedNext("listeners", [pa EXCEPT !.lsns[i] = e], TRUE)
        /\ NeedsPatch(mem, i)
    BY <1>5 DEF PollListener, AtListener, NeedsPatch
  <2>2. old \in ListenerEntries /\ old.id # 0
    BY <1>2, <2>1 DEF PARecords, WellFormed, IdsOf
  <2>3. e \in ListenerEntries /\ e.id = old.id /\ e.phase = "Running"
    BY <2>2 DEF ListenerEntries
  <2>4. old.id <= made
    BY <1>1, <2>1, InLoopServed DEF Bounded
  <2>5. Right(i, old.id)
    BY <1>5, <2>1 DEF Exists, Right
  <2>6. ASSUME Usable(paCache), paCache.lsns[i].phase = "Pending" PROVE Before(paCache, i)
    <3>1. Ahead(i)
      BY <1>1, <1>2 DEF Ahead, Workers
    <3>2. pa.lsns[i].id # 0
      BY <1>2, <2>1, <2>2 DEF Current, Follows
    <3>3. pa.lsns[i].phase # "Pending"
      BY <1>2, <2>1, <3>2 DEF WellFormed, IdsOf
    <3> QED
      BY <1>1, <2>1, <2>6, <3>1, <3>3, InLoopServed DEF CopyInv
  <2> HIDE DEF e
  <2> QED
    BY <1>1, <2>1, <2>2, <2>3, <2>4, <2>5, <2>6, PatchedListenerServed
<1> QED
  BY <1>3, <1>4, <1>5

-----------------------------------------------------------------------------
(* The end of handleProvisioning, and handleDeletion.                       *)

\* The endpoints are written, then the phase.
LEMMA PromoteServed ==
  ASSUME BaseInv, BaseInv', ServedInv, Promote \/ SetAvailable
  PROVE  ServedInv'
<1>1. UNCHANGED <<paCache, made, nlb, listener>> /\ Idle.pc = "idle"
  BY DEF Promote, SetAvailable, cloudVars, Idle
<1>2. CASE Promote /\ worker'.pc = "setAvailable"
  <2> DEFINE ids == [k \in Listeners |-> worker.mem.lsns[k].id]
  <2>1. InLoops /\ At("promote") /\ pa' = [pa EXCEPT !.endpoints = ids]
    BY <1>1, <1>2 DEF Promote, InLoops, At, WritePA
  <2>2. pa \in PARecords /\ pa # Null
    BY <2>1, InTheLoops
  <2>3. pa'.endpoints = ids /\ pa'.lsns = pa.lsns /\ pa'.phase = pa.phase
    BY <2>1, <2>2 DEF PARecords
  <2>4. \A k \in Listeners : ids[k] # 0 /\ Right(k, ids[k])
    BY <2>1, InLoopServed DEF PassedInv, Passed
  <2> HIDE DEF ids
  <2>5. Bounded(pa) /\ Attested(pa)
    BY <2>1, InLoopServed
  <2>6. PublishedInv'
    BY <1>1, <2>3, <2>4, <2>5 DEF PublishedInv, Bounded, Attested, Right
  <2>7. CacheInv'
    BY <1>1, <2>3, SameCloudAges, CacheKeep DEF ServedInv
  <2>8. LoopServed' /\ DeletingInv'
    BY <1>2, OutOfLoop DEF DeletingInv, At
  <2> QED
    BY <2>6, <2>7, <2>8 DEF ServedInv
<1>3. CASE Promote /\ worker'.pc # "setAvailable"
  <2>1. worker' = Idle /\ UNCHANGED <<k8sVars, cloudVars>>
    BY <1>3 DEF Promote, k8sVars, Idle
  <2> QED
    BY <2>1, IdleServed
<1>4. CASE SetAvailable
  <2>1. pa \in PARecords /\ pa # Null /\ At("setAvailable") /\ worker' = Idle
    BY <1>4 DEF SetAvailable, BaseInv, WorkerInv, TypeOK
  <2>2. pa' = pa \/ pa' = [pa EXCEPT !.phase = "Available"]
    BY <1>4 DEF SetAvailable, WritePA
  <2>3. pa'.endpoints = pa.endpoints /\ pa'.lsns = pa.lsns
    BY <2>1, <2>2 DEF PARecords
  <2> QED
    BY <1>1, <2>1, <2>3, LeaveServed
<1> QED
  BY <1>2, <1>3, <1>4

\* The worker saves its copy in handleDeletion, or does not.
LEMMA SaveServed ==
  ASSUME BaseInv, BaseInv', ServedInv, UNCHANGED <<paCache, made, nlb, listener>>,
         NEW w, w.pc = "deletion", w.mem.phase = "Deleting", worker' = w,
         pa' = pa \/ (w.memOK /\ pa' = w.mem),
         w.memOK =>
            /\ pa # Null /\ w.mem.endpoints = pa.endpoints
            /\ \A k \in Listeners : w.mem.lsns[k] \in {Gone, pa.lsns[k]}
            /\ ~Usable(paCache)
  PROVE  ServedInv'
<1>1. CloudAges
  BY SameCloudAges
<1>2. LoopServed' /\ DeletingInv'
  BY OutOfLoop DEF DeletingInv
<1>3. CASE pa' = pa
  <2>1. PublishedInv'
    <3>1. CASE pa = Null
      BY <1>3, <3>1 DEF PublishedInv
    <3>2. CASE pa # Null
      BY <1>1, <1>3, <3>2, PublishedKeep DEF ServedInv
    <3> QED
      BY <3>1, <3>2
  <2>2. CacheInv'
    BY <1>1, <1>3, CacheKeep DEF ServedInv
  <2> QED
    BY <1>2, <2>1, <2>2 DEF ServedInv
<1>4. CASE w.memOK /\ pa' = w.mem
  <2>1. PublishedInv'
    BY <1>1, <1>4, PublishedKeep DEF ServedInv
  <2>2. CacheInv'
    BY <1>4 DEF CacheInv, Usable
  <2> QED
    BY <1>2, <2>1, <2>2 DEF ServedInv
<1> QED
  BY <1>3, <1>4

\* The worker finds the PA deleted.
LEMMA StartDeletionServed ==
  ASSUME BaseInv, BaseInv', ServedInv, StartDeletion
  PROVE  ServedInv'
<1> DEFINE r == [paCache EXCEPT !.phase = "Deleting"]
           w == [Idle EXCEPT !.pc = "deletion", !.memOK = paSynced, !.mem = r]
<1>1. /\ paCache \in PARecords /\ paCache # Null /\ (paSynced => pa = paCache)
      /\ ~Usable(paCache)
  BY DEF StartDeletion, BaseInv, TypeOK, PAInv, Usable
<1>2. r.phase = "Deleting" /\ r.lsns = paCache.lsns /\ r.endpoints = paCache.endpoints
  BY <1>1 DEF PARecords
<1>3. w.pc = "deletion" /\ w.memOK = paSynced /\ w.mem = r
  BY DEF Idle
<1>4. worker' = w /\ UNCHANGED <<paCache, made, nlb, listener>>
  BY DEF StartDeletion, cloudVars
<1>5. pa' = pa \/ (w.memOK /\ pa' = w.mem)
  BY DEF StartDeletion, BestEffort, WritePA
<1> HIDE DEF r, w
<1> QED
  BY <1>1, <1>2, <1>3, <1>4, <1>5, SaveServed

\* The steps of handleDeletion.
LEMMA DeletionServed ==
  ASSUME BaseInv, OwnershipInv, BaseInv', ServedInv,
         \/ \E k \in Listeners : VerifyListener(k)
         \/ \E i \in Ports : DeleteServerGroup(i)
         \/ RemoveFinalizer
  PROVE  ServedInv'
<1>1. At("deletion")
  BY DEF VerifyListener, FirstListener, DeleteServerGroup, FirstSG, RemoveFinalizer, AllGone
<1>2. worker.mem \in PARecords /\ worker.mem.phase = "Deleting"
  BY <1>1, InDeletion DEF ServedInv, DeletingInv
<1>3. worker.memOK => ~Usable(paCache)
  BY <1>1 DEF BaseInv, WorkerInv, DeletionInv, Usable
<1>4. CASE worker' = Idle /\ UNCHANGED <<k8sVars, cloudVars>>
  BY <1>4, IdleServed
<1>5. ASSUME NEW r, NEW id, Pop([worker EXCEPT !.mem = r], id),
             UNCHANGED <<made, nlb, listener>>,
             r.phase = "Deleting", r.endpoints = worker.mem.endpoints,
             \A k \in Listeners : r.lsns[k] \in {Gone, worker.mem.lsns[k]}
      PROVE  ServedInv'
  <2>1. PICK w : /\ w.pc = "deletion" /\ w.mem = r /\ w.memOK = worker.memOK
                 /\ worker' = w
                 /\ pa' = pa \/ (w.memOK /\ pa' = w.mem)
                 /\ UNCHANGED recorded
    BY <1>1, <1>5, PopShape
  <2>2. UNCHANGED paCache
    BY <1>5 DEF Pop
  <2>3. w.memOK =>
            /\ pa # Null /\ w.mem.endpoints = pa.endpoints
            /\ \A k \in Listeners : w.mem.lsns[k] \in {Gone, pa.lsns[k]}
            /\ ~Usable(paCache)
    BY <1>1, <1>3, <1>5, <2>1, InDeletion
  <2> QED
    BY <1>5, <2>1, <2>2, <2>3, SaveServed
<1>6. ASSUME NEW k \in Listeners, VerifyListener(k) PROVE ServedInv'
  <2> DEFINE r == [worker.mem EXCEPT !.lsns[k] = Gone]
             id == worker.mem.lsns[k].id
  <2>1. CASE Exists(k, id)
    BY <1>4, <1>6, <2>1 DEF VerifyListener
  <2>2. CASE ~Exists(k, id)
    <3>1. r.phase = "Deleting" /\ r.endpoints = worker.mem.endpoints
      BY <1>2 DEF PARecords
    <3>2. \A j \in Listeners : r.lsns[j] \in {Gone, worker.mem.lsns[j]}
      BY <1>2 DEF PARecords
    <3>3. Pop([worker EXCEPT !.mem = r], id) /\ UNCHANGED <<made, nlb, listener>>
      BY <1>6, <2>2 DEF VerifyListener, cloudVars
    <3> HIDE DEF r, id
    <3> QED
      BY <1>5, <3>1, <3>2, <3>3
  <2> QED
    BY <2>1, <2>2
<1>7. ASSUME NEW i \in Ports, DeleteServerGroup(i) PROVE ServedInv'
  <2> DEFINE r == [worker.mem EXCEPT !.sgs[i] = Gone]
             id == worker.mem.sgs[i].id
  <2>1. CASE id # 0 /\ InUse(<<id, i>>)
    BY <1>4, <1>7, <2>1 DEF DeleteServerGroup
  <2>2. CASE ~(id # 0 /\ InUse(<<id, i>>))
    <3>1. r.phase = "Deleting" /\ r.endpoints = worker.mem.endpoints
          /\ r.lsns = worker.mem.lsns
      BY <1>2 DEF PARecords
    <3>2. Pop([worker EXCEPT !.mem = r], id) /\ UNCHANGED <<made, nlb, listener>>
      BY <1>7, <2>2 DEF DeleteServerGroup
    <3> HIDE DEF r, id
    <3> QED
      BY <1>5, <3>1, <3>2
  <2> QED
    BY <2>1, <2>2
<1>8. CASE RemoveFinalizer /\ worker.memOK
  <2>1. pa' = Null /\ worker'.pc = "idle" /\ UNCHANGED paCache
    BY <1>8 DEF RemoveFinalizer, WritePA, Idle
  <2>2. PublishedInv' /\ CacheInv'
    BY <1>3, <1>8, <2>1 DEF PublishedInv, CacheInv, Usable
  <2>3. LoopServed' /\ DeletingInv'
    BY <2>1, OutOfLoop DEF DeletingInv, At
  <2> QED
    BY <2>2, <2>3 DEF ServedInv
<1>9. CASE RemoveFinalizer /\ ~worker.memOK
  BY <1>4, <1>9 DEF RemoveFinalizer, k8sVars
<1> QED
  BY <1>6, <1>7, <1>8, <1>9

\* Every step.
LEMMA ServedStep == BaseInv /\ OwnershipInv /\ ServedInv /\ [Next]_vars => ServedInv'
<1> SUFFICES ASSUME BaseInv, OwnershipInv, ServedInv, [Next]_vars PROVE ServedInv'
  OBVIOUS
<1>1. BaseInv'
  BY BaseStep
<1>2. CASE UNCHANGED vars
  BY <1>1, <1>2, SameCloudAges, QuietServed DEF vars, k8sVars, cloudVars
<1>3. CASE CloudStep
  <2>1. UNCHANGED <<pa, paCache, worker>>
    BY <1>3 DEF CloudStep, SGReady, SGVanishes, ListenerReady, ListenerFails, ForgetToken,
                DeleteNLB, Cascade, k8sVars
  <2> QED
    BY <1>1, <1>3, <2>1, CloudStepAges, QuietServed
<1>4. CASE Abort \/ ListenerRefused
  BY <1>1, <1>4, IdleServed DEF Abort, ListenerRefused
<1>5. CASE EndSGs
  BY <1>1, <1>5, IdleServed, SGLoopServed DEF EndSGs
<1>6. CASE EndListeners
  BY <1>1, <1>6, IdleServed, EndListenersServed DEF EndListeners
<1> QED
  BY <1>1, <1>2, <1>3, <1>4, <1>5, <1>6, PoolServed, SyncServed, StartServed, SGLoopServed,
     SGPatchesServed, CreateListenerServed, ListenerPatchesServed, ListenerLoopServed,
     PromoteServed, StartDeletionServed, DeletionServed
  DEF Next, WorkerStep

\* All of it holds in every reachable state.
LEMMA ServedInvariant == Spec => [](BaseInv /\ OwnershipInv /\ ServedInv)
BY InitServed, BaseInvariant, OwnershipInvariant, ServedStep, PTL DEF Spec

\* While its NLBs live, an Available PA is served: the listeners run under the ids that
\* its endpoints name, and forward to its own SGs.
THEOREM EveryPromotedIsServed == Spec => []PromotedIsServed
<1>1. BaseInv /\ OwnershipInv /\ ServedInv => PromotedIsServed
  <2> SUFFICES ASSUME BaseInv, OwnershipInv, ServedInv, pa # Null, pa.phase = "Available",
                      \A l \in Lanes : nlb[l] = "Active", NEW k \in Listeners
               PROVE  /\ listener[k] # Null /\ listener[k].running
                      /\ listener[k].id = pa.endpoints[k]
                      /\ listener[k].sg[1] = pa.uid /\ Alive(listener[k].sg)
    BY DEF PromotedIsServed
  <2>1. LaneOf(k) \in Lanes
    BY Layout
  <2>2. Right(k, pa.endpoints[k])
    BY DEF ServedInv, PublishedInv
  <2>3. listener[k] # Null /\ listener[k].running /\ listener[k].id = pa.endpoints[k]
    BY <2>1, <2>2 DEF Right
  <2> QED
    BY <2>3 DEF OwnershipInv, OwnerInv
<1> QED
  BY <1>1, ServedInvariant, PTL

-----------------------------------------------------------------------------
(* The refinement.                                                          *)

\* The versions r and p of the PA are the same to the slot.
SameSlot(r, p) == r.endpoints = p.endpoints /\ r.deleting = p.deleting

SamePA == (pa = Null <=> pa' = Null) /\ (pa # Null => SameSlot(pa', pa))

\* A step that changes neither the PA nor the NLBs is a stutter of the slot.
LEMMA SlotStutters ==
  ASSUME SamePA, UNCHANGED nlb
  PROVE  UNCHANGED Slot!vars
BY DEF SamePA, SameSlot, Slot!vars

\* The initial states map to initial states.
LEMMA SlotInit == Init => Slot!Init
BY DEF Init, Slot!Init

\* So are those that differ in the other fields.
LEMMA SameFields ==
  ASSUME NEW p \in PARecords, NEW x
  PROVE  /\ SameSlot([p EXCEPT !.phase = x], p)
         /\ SameSlot([p EXCEPT !.finalizer = x], p)
         /\ SameSlot([p EXCEPT !.sgs = x], p)
         /\ SameSlot([p EXCEPT !.lsns = x], p)
         /\ SameSlot(FilledArrays(p), p)
BY Zenon DEF PARecords, FilledArrays, SameSlot

\* The steps of the pool and of users.
LEMMA SlotPool ==
  ASSUME BaseInv, CreatePA \/ InitialPhase \/ DeletePA
  PROVE  Slot!Create \/ Slot!Delete \/ Slot!Leave \/ UNCHANGED Slot!vars
<1>1. UNCHANGED nlb
  BY DEF CreatePA, InitialPhase, DeletePA, cloudVars
<1>2. CASE CreatePA
  <2>1. pa = Null /\ pa' = NewPA(uid + 1) /\ (\A l \in Lanes : nlb[l] = "Active")
    BY <1>2 DEF CreatePA, Overtake, WritePA
  <2>2. ~pa'.deleting /\ \A k \in Listeners : pa'.endpoints[k] = 0
    BY <2>1 DEF NewPA
  <2>3. pa' # Null
    <3>1. uid + 1 \in Uids
      BY <1>2, ConstantsAssumption DEF CreatePA, BaseInv, TypeOK, Uids
    <3>2. pa' \in PARecords
      BY <2>1, <3>1, Entries DEF NewPA, PARecords, Phases
    <3> QED
      BY <3>2, NullIsNoRecord
  <2>4. \E k \in Listeners : TRUE
    BY Layout, ConstantsAssumption DEF Lanes
  <2> QED
    BY <1>1, <2>1, <2>2, <2>3, <2>4 DEF Slot!Create
<1>3. CASE InitialPhase
  <2>1. pa \in PARecords /\ pa # Null /\ pa' = [pa EXCEPT !.phase = "Provisioning"]
    BY <1>3 DEF InitialPhase, Overtake, WritePA, BaseInv, TypeOK
  <2>2. pa' # Null
    BY <2>1, NullIsNoRecord DEF PARecords, Phases
  <2> QED
    BY <1>1, <2>1, <2>2, SameFields, SlotStutters DEF SamePA
<1>4. CASE DeletePA /\ pa.finalizer
  <2>1. pa \in PARecords /\ pa # Null /\ pa' = [pa EXCEPT !.deleting = TRUE]
    BY <1>4 DEF DeletePA, Overtake, WritePA, BaseInv, TypeOK
  <2>2. pa' # Null /\ pa'.deleting /\ pa'.endpoints = pa.endpoints
    BY <2>1, NullIsNoRecord DEF PARecords
  <2> QED
    BY <1>1, <2>1, <2>2 DEF Slot!Delete
<1>5. CASE DeletePA /\ ~pa.finalizer
  <2>1. pa # Null /\ pa' = Null /\ \A k \in Listeners : pa.endpoints[k] = 0
    BY <1>5 DEF DeletePA, Overtake, WritePA, BaseInv, PAInv, WellFormed
  <2>2. \E k \in Listeners : TRUE
    BY Layout, ConstantsAssumption DEF Lanes
  <2> QED
    BY <1>1, <2>1, <2>2 DEF Slot!Leave
<1> QED
  BY <1>2, <1>3, <1>4, <1>5

\* The steps of the cloud.
LEMMA SlotCloud ==
  ASSUME BaseInv, CloudStep
  PROVE  Slot!Infrastructure
<1> USE DEF k8sVars, cloudVars
<1>1. UNCHANGED pa
  BY DEF CloudStep, SGReady, SGVanishes, ListenerReady, ListenerFails, ForgetToken,
         DeleteNLB, Cascade
<1>2. \A l \in Lanes : nlb'[l] = "Active" => nlb[l] = "Active"
  BY DEF BaseInv, TypeOK, CloudStep, SGReady, SGVanishes, ListenerReady, ListenerFails,
         ForgetToken, DeleteNLB, Cascade
<1> QED
  BY <1>1, <1>2 DEF Slot!Infrastructure

\* Until the endpoints are published, the worker's writes are nothing to the slot.
LEMMA SlotProvisioning ==
  ASSUME BaseInv,
         \/ AddFinalizer \/ InitStatus \/ FillArrays \/ StartProvisioning
         \/ CreateSG \/ PatchSG \/ PollSG \/ SkipActiveSG \/ EndSGs
         \/ CreateListener \/ PatchListener \/ PollListener \/ RecreateListener
         \/ ListenerRefused \/ SkipRunningListener \/ EndListeners
         \/ SetAvailable \/ Abort \/ SyncPA
  PROVE  UNCHANGED Slot!vars
<1> USE DEF k8sVars, cloudVars
<1>1. UNCHANGED nlb
  BY DEF AddFinalizer, InitStatus, FillArrays, StartProvisioning, OneWrite, CreateSG, PatchSG,
         PollSG, SkipActiveSG, EndSGs, CreateListener, PatchListener, PollListener,
         RecreateListener, ListenerRefused, SkipRunningListener, EndListeners, SetAvailable,
         Abort, SyncPA, Submit, Adopt, PatchedNext, NextElement
<1>2. CASE UNCHANGED pa
  BY <1>1, <1>2, SlotStutters DEF SamePA, SameSlot
<1>3. ASSUME pa # Null,
             \/ \E x : pa' = [pa EXCEPT !.phase = x]
             \/ \E x : pa' = [pa EXCEPT !.finalizer = x]
             \/ \E x : pa' = [pa EXCEPT !.sgs = x]
             \/ \E x : pa' = [pa EXCEPT !.lsns = x]
             \/ pa' = FilledArrays(pa),
             Onward
      PROVE  UNCHANGED Slot!vars
  <2>1. pa \in PARecords /\ pa' # Null
    BY <1>3, NullIsNoRecord DEF BaseInv, TypeOK, Onward, Extends
  <2>2. SameSlot(pa', pa)
    BY <1>3, <2>1, SameFields, Zenon
  <2> QED
    BY <1>1, <1>3, <2>1, <2>2, SlotStutters DEF SamePA
<1>4. CASE AddFinalizer \/ InitStatus \/ FillArrays
  <2>1. pa # Null
    BY <1>4 DEF AddFinalizer, InitStatus, FillArrays, Reconcile, OneWrite, BaseInv, PAInv
  <2>2. Onward
    BY <1>4, ProvisioningBase DEF ProvisioningStep
  <2> QED
    BY <1>3, <1>4, <2>1, <2>2 DEF AddFinalizer, InitStatus, FillArrays, OneWrite, WritePA
<1>5. CASE PatchSG \/ PollSG \/ PatchListener \/ PollListener
  <2>1. InLoops
    BY <1>5 DEF PatchSG, PollSG, PatchListener, PollListener, AtListener, InLoops, At
  <2>2. Onward /\ pa # Null
    BY <1>5, <2>1, ProvisioningBase, InTheLoops DEF ProvisioningStep
  <2>3. \/ UNCHANGED pa
        \/ \E x : pa' = [pa EXCEPT !.sgs = x]
        \/ \E x : pa' = [pa EXCEPT !.lsns = x]
    BY <1>5 DEF PatchSG, PollSG, PatchListener, PollListener, PatchedNext, NextElement, WritePA
  <2> QED
    BY <1>2, <1>3, <2>2, <2>3
<1>6. CASE SetAvailable
  <2>1. Onward /\ pa # Null
    BY <1>6, ProvisioningBase DEF ProvisioningStep, SetAvailable, BaseInv, WorkerInv
  <2> QED
    BY <1>2, <1>3, <1>6, <2>1 DEF SetAvailable, WritePA
<1> QED
  BY <1>2, <1>4, <1>5, <1>6
  DEF StartProvisioning, CreateSG, SkipActiveSG, EndSGs, CreateListener, RecreateListener,
      ListenerRefused, SkipRunningListener, EndListeners, Abort, SyncPA, Submit, Adopt,
      NextElement

\* The promotion, which is the moment the slot serves.
LEMMA SlotPromote ==
  ASSUME BaseInv, ServedInv, Promote
  PROVE  Slot!Serve \/ UNCHANGED Slot!vars
<1>1. UNCHANGED nlb /\ InLoops /\ At("promote")
  BY DEF Promote, cloudVars, InLoops, At
<1>2. CASE UNCHANGED pa
  BY <1>1, <1>2, SlotStutters DEF SamePA, SameSlot
<1>3. CASE ~UNCHANGED pa
  <2> DEFINE ids == [k \in Listeners |-> worker.mem.lsns[k].id]
  <2>1. pa' = [pa EXCEPT !.endpoints = ids]
    BY <1>3 DEF Promote, WritePA
  <2>2. pa \in PARecords /\ pa # Null
    BY <1>1, InTheLoops
  <2>3. pa' # Null
    BY <2>2, ProvisioningBase, NullIsNoRecord DEF ProvisioningStep, Onward, Extends
  <2>4. pa'.endpoints = ids
    BY <2>1, <2>2 DEF PARecords
  <2>5. pa'.deleting = pa.deleting
    BY <2>1, <2>2, Zenon DEF PARecords
  <2>6. \A k \in Listeners : ids[k] # 0
    BY <1>1, InLoopServed DEF PassedInv, Passed
  <2> HIDE DEF ids
  <2> QED
    BY <1>1, <2>2, <2>3, <2>4, <2>5, <2>6 DEF Slot!Serve, Slot!vars
<1> QED
  BY <1>2, <1>3

\* The deletion: the slot is left when the finalizer goes.
LEMMA SlotDeletion ==
  ASSUME BaseInv, OwnershipInv, ServedInv,
         \/ StartDeletion
         \/ \E k \in Listeners : VerifyListener(k)
         \/ \E i \in Ports : DeleteServerGroup(i)
         \/ RemoveFinalizer
  PROVE  Slot!Leave \/ UNCHANGED Slot!vars
<1> USE DEF k8sVars, cloudVars
<1>1. UNCHANGED nlb
  BY DEF StartDeletion, VerifyListener, DeleteServerGroup, RemoveFinalizer
<1>2. CASE UNCHANGED pa
  BY <1>1, <1>2, SlotStutters DEF SamePA, SameSlot
<1>3. CASE StartDeletion /\ ~UNCHANGED pa
  <2>1. /\ pa = paCache /\ pa # Null /\ pa \in PARecords
        /\ pa' = [paCache EXCEPT !.phase = "Deleting"]
    BY <1>3 DEF StartDeletion, BestEffort, WritePA, BaseInv, TypeOK, PAInv, Idle
  <2>2. pa' # Null
    BY <2>1, NullIsNoRecord DEF PARecords, Phases
  <2> QED
    BY <1>1, <2>1, <2>2, SameFields, SlotStutters DEF SamePA
<1>4. ASSUME NEW r, NEW id, At("deletion"), Pop([worker EXCEPT !.mem = r], id), ~UNCHANGED pa,
             r \in PARecords, r.endpoints = worker.mem.endpoints,
             r.deleting = worker.mem.deleting
      PROVE  UNCHANGED Slot!vars
  <2>1. pa' = r /\ worker.memOK
    BY <1>4, PopShape
  <2>2. pa # Null /\ pa.deleting /\ worker.mem.endpoints = pa.endpoints /\ worker.mem.deleting
    BY <1>4, <2>1, InDeletion
  <2>3. pa \in PARecords
    BY <2>2 DEF BaseInv, TypeOK
  <2>4. pa' # Null /\ pa'.endpoints = pa.endpoints /\ (pa'.deleting = pa.deleting)
    BY <1>4, <2>1, <2>2, <2>3, NullIsNoRecord DEF PARecords
  <2> QED
    BY <1>1, <2>2, <2>4, SlotStutters DEF SamePA, SameSlot
<1>5. ASSUME NEW k \in Listeners, VerifyListener(k), ~UNCHANGED pa PROVE UNCHANGED Slot!vars
  <2> DEFINE r == [worker.mem EXCEPT !.lsns[k] = Gone]
             id == worker.mem.lsns[k].id
  <2>1. At("deletion") /\ Pop([worker EXCEPT !.mem = r], id)
    BY <1>5 DEF VerifyListener, FirstListener
  <2>2. worker.mem \in PARecords
    BY <2>1, InDeletion
  <2>3. r \in PARecords
    BY <2>2, Entries DEF PARecords
  <2>4. r.endpoints = worker.mem.endpoints /\ r.deleting = worker.mem.deleting
    BY <2>2, SameFields, Zenon DEF SameSlot
  <2> HIDE DEF r, id
  <2> QED
    BY <1>4, <1>5, <2>1, <2>3, <2>4
<1>6. ASSUME NEW i \in Ports, DeleteServerGroup(i), ~UNCHANGED pa PROVE UNCHANGED Slot!vars
  <2> DEFINE r == [worker.mem EXCEPT !.sgs[i] = Gone]
             id == worker.mem.sgs[i].id
  <2>1. At("deletion") /\ Pop([worker EXCEPT !.mem = r], id)
    BY <1>6 DEF DeleteServerGroup, FirstSG
  <2>2. worker.mem \in PARecords
    BY <2>1, InDeletion
  <2>3. r \in PARecords
    BY <2>2, Entries DEF PARecords
  <2>4. r.endpoints = worker.mem.endpoints /\ r.deleting = worker.mem.deleting
    BY <2>2, SameFields, Zenon DEF SameSlot
  <2> HIDE DEF r, id
  <2> QED
    BY <1>4, <1>6, <2>1, <2>3, <2>4
<1>7. CASE RemoveFinalizer /\ ~UNCHANGED pa
  <2>1. /\ At("deletion") /\ worker.memOK /\ pa' = Null
        /\ \A i \in Ports : worker.mem.sgs[i].phase = "Gone"
    BY <1>7 DEF RemoveFinalizer, AllGone, WritePA
  <2>2. pa # Null /\ pa.deleting /\ \A k \in Listeners : listener[k] = Null
    BY <2>1, InDeletion, Layout
  <2>3. ASSUME \A k \in Listeners : pa.endpoints[k] # 0, NEW l \in Lanes PROVE nlb[l] # "Active"
    <3>1. l \in Listeners /\ LaneOf(l) = l
      BY Layout
    <3> QED
      BY <2>2, <2>3, <3>1 DEF ServedInv, PublishedInv, Right
  <2> QED
    BY <1>1, <2>1, <2>2, <2>3 DEF Slot!Leave
<1> QED
  BY <1>2, <1>3, <1>5, <1>6, <1>7

\* The PA keeps what PASlot promises the pool: it comes into service once, and leaves
\* then only when it is deleted and none of its NLBs is live.
THEOREM ImplementsSlot == Spec => SlotPromise
<1>1. BaseInv /\ OwnershipInv /\ ServedInv /\ [Next]_vars => [Slot!Next]_(Slot!vars)
  <2> SUFFICES ASSUME BaseInv, OwnershipInv, ServedInv, [Next]_vars
               PROVE  [Slot!Next]_(Slot!vars)
    OBVIOUS
  <2>1. CASE UNCHANGED vars
    BY <2>1, SlotStutters DEF vars, k8sVars, cloudVars, SamePA, SameSlot
  <2> QED
    BY <2>1, SlotPool, SlotCloud, SlotProvisioning, SlotPromote, SlotDeletion
    DEF Next, WorkerStep, Slot!Next
<1> QED
  BY <1>1, SlotInit, ServedInvariant, PTL DEF Spec, SlotPromise, Slot!Spec
=============================================================================
