---------------------- MODULE PortAllocationLockProofs ----------------------
(***************************************************************************)
(* The claim annotation is a lock: NoDoubleBound, LiveClaimKept and         *)
(* OwnClaimCleared, where the caches are current and, if users edit the     *)
(* pool annotation, Pod names are not used again.                           *)
(*                                                                          *)
(* None is inductive.  LockInv says which PA may have a claim (only the one *)
(* that names the Pod), which phases and workers have given theirs up, and  *)
(* that a PA that holds the address of a running Pod has the claim on it.   *)
(***************************************************************************)
EXTENDS PortAllocationProofs

\* Where the lock works: reads do not lag ...
CurrentCaches == CacheLag = {}

\* ... and, if users edit the pool annotation, no Pod is followed by another of its name.
NamesUsedOnce == "pool" \in UserEdits => MaxIncarnations = 1

\* A lost write is harmless unless users edit the pool.
Undisturbed == "pool" \in UserEdits => faults = 0

\* No Pod carries the claim of PA p.
Unclaimed(p) == \A d \in Pods : ~HasClaim(pod, d, p)

\* Worker w is in a handler of the phase of its PA r.
Stage(r, w) ==
    /\ w.pc \in {"claimPod", "rollback", "setPodIP", "setBinding"} => r.phase = "Available"
    /\ w.pc = "bind"    => r.phase = "Binding"
    /\ w.pc = "disable" => r.phase = "Bound"
    /\ w.pc \in Closing => r.phase = "Releasing"
    /\ w.pc \notin {"idle", "setAvailable"} => w.mem.pod = r.pod

\* Pod d will not be created again.
Gone(d) == pod[d] = Null /\ incarnation[d] = MaxIncarnations

\* The claims of PA p, whose record is r and whose worker is w.
Lock(p, r, w) ==
    /\ \A d \in Pods : HasClaim(pod, d, p) => r.pod = d
    /\ w.pc \in {"claimPod", "rollback"} => Unclaimed(p)
    /\ w.pc \in Closing \ {"release", "clearPodClaim", "patchPodClaim"} => Unclaimed(p)
    /\ "pool" \notin UserEdits /\ r.phase = "Releasing" => Unclaimed(p)
    /\ w.podOK = TRUE => pod[w.mem.pod].claim = Null
    /\ w.pc = "patchPodClaim" => "pool" \in UserEdits
    /\ w.pc = "patchPodClaim" => HasClaim(pod, w.mem.pod, p) \/ Gone(w.mem.pod)
    /\ w.pc # "patchPodClaimAgain"

\* PA r, or its worker w, holds address ip.
Holds(r, w, ip) ==
    \/ r.phase \in {"Binding", "Bound", "Disabled"} /\ r.ip = ip
    \/ w.pc \in {"setPodIP", "setBinding"} /\ w.mem.ip = ip

\* A PA that holds the address of a running Pod has the claim on that Pod.
HolderClaims ==
    \A p \in PAs : \A d \in Pods :
        pod[d] # Null /\ Holds(pa[p], worker[p], <<d, pod[d].uid>>) => HasClaim(pod, d, p)

\* An address has one holder.
OneHolder ==
    \A p, q \in PAs : \A ip \in IPs :
        Holds(pa[p], worker[p], ip) /\ Holds(pa[q], worker[q], ip) => p = q

\* Every PA, with its worker, is as a claim allows.
Locked == \A p \in PAs : Stage(pa[p], worker[p]) /\ Lock(p, pa[p], worker[p])

\* The lock invariant; it holds as long as Undisturbed does.
LockInv == Locked /\ HolderClaims /\ OneHolder

\* The incarnations of a Pod, and the pool it is in.
Born ==
    /\ \A d \in Pods : pod[d] # Null => pod[d].uid <= incarnation[d]
    /\ \A p \in PAs : \A ip \in granted[p] : ip[2] <= incarnation[ip[1]]
    /\ "pool" \notin UserEdits => \A d \in Pods : pod[d] # Null => pod[d].inPool = TRUE

-----------------------------------------------------------------------------

\* Init.
LEMMA InitLock == Init => Born /\ LockInv
<1> SUFFICES ASSUME Init PROVE Born /\ LockInv
  OBVIOUS
<1>1. Idle.pc = "idle" /\ Idle.podOK = FALSE /\ EmptyPA.phase = "Available"
  BY DEF Idle, EmptyPA
<1>2. \A p \in PAs : pa[p] = EmptyPA /\ worker[p] = Idle
  BY DEF Init
<1>3. \A d \in Pods : pod[d] = Null
  BY DEF Init
<1>4. \A p \in PAs : granted[p] = {}
  BY DEF Init
<1>5. Born
  BY <1>3, <1>4 DEF Born
<1>6. Locked
  BY <1>1, <1>2, <1>3 DEF Locked, Stage, Lock, HasClaim, Unclaimed, Closing
<1>7. HolderClaims /\ OneHolder
  BY <1>1, <1>2, <1>3 DEF HolderClaims, OneHolder, Holds
<1> QED
  BY <1>5, <1>6, <1>7 DEF LockInv

\* Every step, as far as Born goes: a Pod keeps its number, gets the next one, or is
\* gone, and what is granted is the address of a Pod.
LEMMA KeepsBorn ==
  ASSUME TypeInv, Born, NEW d \in Pods, NEW r, pod' = [pod EXCEPT ![d] = r],
         r = Null \/ (pod[d] # Null /\ r.uid = pod[d].uid
                      /\ ("pool" \in UserEdits \/ r.inPool = pod[d].inPool)),
         UNCHANGED incarnation,
         \/ UNCHANGED granted
         \/ \E p \in PAs : /\ pod[d] # Null
                           /\ granted' = [granted EXCEPT ![p] = @ \cup {<<d, pod[d].uid>>}]
  PROVE  Born'
<1>1. \A e \in Pods : pod'[e] # Null => pod[e] # Null /\ pod'[e].uid = pod[e].uid
                        /\ ("pool" \in UserEdits \/ pod'[e].inPool = pod[e].inPool)
  BY DEF TypeInv, PodInv
<1>2. \A p \in PAs : \A ip \in granted'[p] :
         ip \in granted[p] \/ (pod[d] # Null /\ ip = <<d, pod[d].uid>>)
  BY DEF TypeInv, PodInv
<1>3. pod[d] # Null => pod[d].uid <= incarnation[d]
  BY DEF Born
<1>4. \A p \in PAs : \A ip \in granted'[p] : ip[2] <= incarnation[ip[1]]
  BY <1>2, <1>3 DEF Born
<1> QED
  BY <1>1, <1>4 DEF Born

\* The actions of PodStep.
LEMMA PodBorn ==
  ASSUME TypeInv, Born, NEW d \in Pods, PodStep(d)
  PROVE  Born'
<1>1. CASE PodCreate(d)
  <2>1. PICK r : /\ pod' = [pod EXCEPT ![d] = r]
                 /\ r.uid = incarnation[d] + 1 /\ r.inPool = TRUE
    <3>1. PICK x : x = [uid |-> incarnation[d] + 1, hasIP |-> FALSE, claim |-> Null,
                        inPool |-> TRUE, disabled |-> FALSE]
      OBVIOUS
    <3>2. x.uid = incarnation[d] + 1 /\ x.inPool = TRUE
      BY <3>1
    <3>3. pod' = [pod EXCEPT ![d] = x]
      BY <1>1, <3>1 DEF PodCreate, PodChange, WritePod
    <3> QED
      BY <3>2, <3>3
  <2>2. incarnation' = [incarnation EXCEPT ![d] = @ + 1] /\ UNCHANGED granted
    BY <1>1 DEF PodCreate, PodChange
  <2>3. incarnation \in [Pods -> Nat] /\ \A e \in Pods : incarnation'[e] \in Nat
                                             /\ incarnation[e] <= incarnation'[e]
    BY <2>2, ConstantsAssumption DEF TypeInv, PodInv
  <2>4. incarnation'[d] = incarnation[d] + 1
    BY <2>2, <2>3
  <2>5. \A e \in Pods : pod'[e] # Null => pod'[e].uid <= incarnation'[e]
    BY <2>1, <2>3, <2>4 DEF Born, TypeInv, PodInv, PodRecords
  <2>6. \A p \in PAs : \A ip \in granted'[p] : ip[2] <= incarnation'[ip[1]]
    <3>1. \A p \in PAs : \A ip \in granted[p] : ip[1] \in Pods /\ ip[2] \in 1..MaxIncarnations
      BY DEF TypeInv, PodInv, IPs
    <3> QED
      BY <2>2, <2>3, <3>1, ConstantsAssumption DEF Born
  <2>7. "pool" \notin UserEdits => \A e \in Pods : pod'[e] # Null => pod'[e].inPool = TRUE
    BY <2>1 DEF Born, TypeInv, PodInv
  <2> QED
    BY <2>5, <2>6, <2>7 DEF Born
<1>2. CASE ~PodCreate(d)
  <2>1. PICK r : /\ pod' = [pod EXCEPT ![d] = r] /\ UNCHANGED <<incarnation, granted>>
                 /\ r = Null \/ (pod[d] # Null /\ r.uid = pod[d].uid
                      /\ ("pool" \in UserEdits \/ r.inPool = pod[d].inPool))
    BY <1>2 DEF PodStep, PodGetsIP, PodDelete, EditDisabled, EditPool, PodChange, WritePod,
                TypeInv, PodInv, PodRecords
  <2> QED
    BY <2>1, KeepsBorn
<1> QED
  BY <1>1, <1>2

\* Who sets or clears a claim, and how.
SetsClaim(p, d, w) ==
    /\ d \in Pods /\ pod[d] # Null
    /\ SetClaim(p, d, w) /\ UNCHANGED <<paVars, cacheVars, incarnation, cloudVars, faults>>

\* Claims are set by step 2 of handleAvailable and by availableResumeBind.
LEMMA ClaimSetters ==
  ASSUME TypeInv, NEW p \in PAs
  PROVE  /\ ClaimPod(p) => SetsClaim(p, worker[p].mem.pod,
                                     [worker[p] EXCEPT !.pc = "setBinding", !.podOK = FALSE])
         /\ ResumeClaim(p) =>
              LET d == paCache[p].pod
              IN  SetsClaim(p, d, IF pod[d].hasIP THEN ResumeWith(p, <<d, pod[d].uid>>)
                                                  ELSE Idle)
<1>1. ASSUME ClaimPod(p)
      PROVE  SetsClaim(p, worker[p].mem.pod,
                       [worker[p] EXCEPT !.pc = "setBinding", !.podOK = FALSE])
  BY <1>1, WorkerSteps DEF ClaimPod, CurrentPod, Consistent, Workers, PARecords, SetsClaim
<1>2. ASSUME ResumeClaim(p)
      PROVE  LET d == paCache[p].pod
             IN  SetsClaim(p, d, IF pod[d].hasIP THEN ResumeWith(p, <<d, pod[d].uid>>)
                                                 ELSE Idle)
  <2>1. paCache[p].pod \in Pods /\ pod[paCache[p].pod] # Null
    BY <1>2 DEF ResumeClaim, Resume, CachedPod, TypeInv, PAInv, PodInv, PARecords
  <2> QED
    BY <1>2, <2>1 DEF ResumeClaim, SetsClaim
<1> QED
  BY <1>1, <1>2

\* Setting a claim leaves the incarnations as they are ...
LEMMA SetClaimBorn ==
  ASSUME TypeInv, Born, NEW p \in PAs, NEW d, NEW w, SetsClaim(p, d, w)
  PROVE  Born'
<1>1. PICK r : r = [pod[d] EXCEPT !.claim = p]
  OBVIOUS
<1>2. d \in Pods /\ pod[d] # Null /\ pod[d] \in PodRecords
  BY DEF SetsClaim, TypeInv, PodInv
<1>3. r.uid = pod[d].uid /\ r.inPool = pod[d].inPool
  BY <1>1, <1>2 DEF PodRecords
<1>4. /\ pod' = [pod EXCEPT ![d] = r]
      /\ granted' = [granted EXCEPT ![p] = @ \cup {<<d, pod[d].uid>>}]
      /\ UNCHANGED incarnation
  BY <1>1 DEF SetsClaim, SetClaim, WritePod
<1> QED
  BY <1>2, <1>3, <1>4, KeepsBorn

\* ... and so does clearing one.
LEMMA PatchClaimBorn ==
  ASSUME TypeInv, Born, NEW p \in PAs,
         NEW label \in {"patchPodClaim", "patchPodClaimAgain"}, NEW next,
         PatchPodClaim(p, label, next)
  PROVE  Born'
<1> DEFINE d == worker[p].mem.pod
<1>1. PICK r : r = IF pod[d] = Null THEN Null ELSE [pod[d] EXCEPT !.claim = Null]
  OBVIOUS
<1>2. d \in Pods
  BY WorkerSteps DEF PatchPodClaim, At, Consistent, Workers, PARecords
<1>3. r # Null => pod[d] # Null /\ r.uid = pod[d].uid /\ r.inPool = pod[d].inPool
  BY <1>1, <1>2 DEF TypeInv, PodInv, PodRecords
<1>4. pod' = [pod EXCEPT ![d] = r] /\ UNCHANGED <<incarnation, granted>>
  BY <1>1 DEF PatchPodClaim, WritePod
<1> HIDE DEF d
<1> QED
  BY <1>2, <1>3, <1>4, KeepsBorn

\* The steps of a worker that write a Pod; the others leave the Pods alone.
LEMMA PodWriters ==
  ASSUME TypeInv, NEW p \in PAs, WorkerStep(p) \/ WorkerFails(p)
  PROVE  \/ ClaimPod(p) \/ ResumeClaim(p)
         \/ PatchPodClaim(p, "patchPodClaim", "removeServers")
         \/ PatchPodClaim(p, "patchPodClaimAgain", "clearSpec")
         \/ UNCHANGED podVars
<1>1. CASE WorkerFails(p)
  BY <1>1 DEF WorkerFails, Abort, ClaimPodFails, ResumeClaimFails, Throttled, PatchPodClaimFails
<1>2. CASE \/ \E d \in Pods : HandleAvailable(p, d)
           \/ ClaimPod(p) \/ RollBack(p) \/ SetBinding(p)
           \/ ResumeConfirmed(p) \/ ResumeClaim(p) \/ ResumeClear(p) \/ SetPodIP(p)
           \/ SkipSG(p) \/ PatchServerStatus(p)
  BY <1>2 DEF HandleAvailable, RollBack, SetBinding, ResumeConfirmed, ResumeClear, SetPodIP,
              SkipSG, PatchServerStatus
<1>3. CASE \/ HandleBinding(p) \/ AbortBinding(p) \/ PollAdding(p) \/ AddServers(p)
           \/ FinishBinding(p)
           \/ HandleBound(p) \/ HandleDisable(p) \/ PollRemoving(p) \/ RemoveServer(p)
           \/ FinishDisable(p) \/ DisabledPodGone(p) \/ ReEnable(p)
  BY <1>3 DEF HandleBinding, AbortBinding, PollAdding, AddServers, FinishBinding, HandleBound,
              HandleDisable, PollRemoving, RemoveServer, FinishDisable, DisabledPodGone,
              ReEnable, MovePhase, EndLoop
<1>4. CASE \/ HandleReleasing(p) \/ ListAndRemove(p) \/ FinishReleasing(p)
           \/ ClearPodClaim(p) \/ RemoveServers(p) \/ ClearPodClaimAgain(p)
           \/ ClearSpec(p) \/ SetAvailable(p)
  BY <1>4 DEF HandleReleasing, ListAndRemove, FinishReleasing, ClearPodClaim, RemoveServers,
              ClearPodClaimAgain, ClearSpec, SetAvailable, ReadPodClaim
<1> QED
  BY <1>1, <1>2, <1>3, <1>4 DEF WorkerStep

\* Every step.
LEMMA BornStep == TypeInv /\ Born /\ [Next]_vars => Born'
<1> SUFFICES ASSUME TypeInv, Born, [Next]_vars PROVE Born'
  OBVIOUS
<1>1. ASSUME UNCHANGED podVars PROVE Born'
  BY <1>1 DEF podVars, Born
<1>2. ASSUME NEW p \in PAs, WorkerStep(p) \/ WorkerFails(p) PROVE Born'
  <2>1. CASE ClaimPod(p) \/ ResumeClaim(p)
    <3>1. PICK d, w : SetsClaim(p, d, w)
      BY <2>1, ClaimSetters
    <3> QED
      BY <3>1, SetClaimBorn
  <2>2. CASE \/ PatchPodClaim(p, "patchPodClaim", "removeServers")
             \/ PatchPodClaim(p, "patchPodClaimAgain", "clearSpec")
    BY <2>2, PatchClaimBorn
  <2> QED
    BY <1>1, <1>2, <2>1, <2>2, PodWriters
<1>3. ASSUME NEW p \in PAs, CloudStep(p) \/ CloudFails(p) \/ SyncPA(p) PROVE Born'
  BY <1>1, <1>3 DEF CloudStep, CloudFails, SyncPA, JobDone, JobFails
<1>4. ASSUME NEW d \in Pods, SyncPod(d) PROVE Born'
  BY <1>4 DEF SyncPod, Born
<1> QED
  BY <1>1, <1>2, <1>3, <1>4, PodBorn DEF Next, vars, podVars

-----------------------------------------------------------------------------
(* Steps that write a Pod.                                                  *)

\* An address that is held was granted.
LEMMA HeldGranted ==
  ASSUME TypeInv, GrantInv, NEW p \in PAs, NEW ip \in IPs, Holds(pa[p], worker[p], ip)
  PROVE  ip \in granted[p]
BY NullIsNoAddress DEF GrantInv, PAsBacked, Backed, Granted, Holds, IPs

\* What a write of Pod d by somebody else leaves of the lock of PA q.
LEMMA StaysLocked ==
  ASSUME TypeInv, LockInv, NEW q \in PAs, NEW d \in Pods, NEW r,
         pod' = [pod EXCEPT ![d] = r], pa'[q] = pa[q], worker'[q] = Overtaken(d, r)[q],
         \A e \in Pods : HasClaim(pod', e, q) => HasClaim(pod, e, q),
         \/ worker[q].pc # "patchPodClaim" \/ worker[q].mem.pod # d
         \/ HasClaim(pod, d, q)' \/ Gone(d)',
         incarnation'[worker[q].mem.pod] = incarnation[worker[q].mem.pod]
           \/ worker[q].pc # "patchPodClaim" \/ worker[q].mem.pod = d
  PROVE  /\ (Stage(pa[q], worker[q]) /\ Lock(q, pa[q], worker[q]))'
         /\ \A ip : Holds(pa[q], worker[q], ip)' => Holds(pa[q], worker[q], ip)
<1>1. /\ worker[q] \in Workers /\ Consistent(worker[q], pod)
      /\ Stage(pa[q], worker[q]) /\ Lock(q, pa[q], worker[q])
  BY WorkerSteps DEF LockInv, Locked
<1>2. /\ worker'[q].pc = worker[q].pc /\ worker'[q].mem = worker[q].mem
      /\ worker'[q].podOK = TRUE =>
           worker[q].podOK = TRUE /\ ~(worker[q].mem.pod = d /\ r # pod[d])
  BY <1>1 DEF Overtaken, Workers
<1>3. Stage(pa[q], worker[q])'
  BY <1>1, <1>2 DEF Stage
<1>4. Unclaimed(q) => Unclaimed(q)'
  BY DEF Unclaimed
<1>5. worker'[q].podOK = TRUE => pod'[worker[q].mem.pod].claim = Null
  BY <1>1, <1>2 DEF Lock, Consistent, Workers, PARecords, TypeInv, PodInv
<1>6. worker[q].pc = "patchPodClaim"
      => HasClaim(pod, worker[q].mem.pod, q)' \/ Gone(worker[q].mem.pod)'
  <2> SUFFICES ASSUME worker[q].pc = "patchPodClaim", worker[q].mem.pod # d
               PROVE  HasClaim(pod, worker[q].mem.pod, q)' \/ Gone(worker[q].mem.pod)'
    BY <1>2
  <2>1. worker[q].mem.pod \in Pods
    BY <1>1 DEF Consistent, Workers, PARecords
  <2>2. pod'[worker[q].mem.pod] = pod[worker[q].mem.pod]
    BY <2>1 DEF TypeInv, PodInv
  <2> QED
    BY <1>1, <1>2, <2>2 DEF Lock, HasClaim, Gone
<1>7. Lock(q, pa[q], worker[q])'
  BY <1>1, <1>2, <1>4, <1>5, <1>6 DEF Lock
<1>8. \A ip : Holds(pa[q], worker[q], ip)' => Holds(pa[q], worker[q], ip)
  BY <1>2 DEF Holds
<1> QED
  BY <1>3, <1>7, <1>8

\* The actions of PodStep.
LEMMA PodLock ==
  ASSUME TypeInv, GrantInv, Born, LockInv, NamesUsedOnce, NEW d \in Pods, PodStep(d)
  PROVE  LockInv'
<1>1. PICK r : /\ pod' = [pod EXCEPT ![d] = r] /\ worker' = Overtaken(d, r)
               /\ UNCHANGED paVars
  BY DEF PodStep, PodCreate, PodGetsIP, PodDelete, EditDisabled, EditPool, PodChange, WritePod
<1>2. \/ r = Null /\ pod[d] # Null /\ UNCHANGED incarnation
      \/ r.uid = pod[d].uid /\ r.claim = pod[d].claim /\ pod[d] # Null /\ UNCHANGED incarnation
      \/ /\ r.claim = Null /\ r.uid = incarnation[d] + 1 /\ pod[d] = Null
         /\ incarnation[d] < MaxIncarnations
         /\ incarnation' = [incarnation EXCEPT ![d] = @ + 1]
  <2>1. pod'[d] = r
    BY <1>1 DEF TypeInv, PodInv
  <2>2. CASE PodCreate(d)
    <3>1. PICK x : x = [uid |-> incarnation[d] + 1, hasIP |-> FALSE, claim |-> Null,
                        inPool |-> TRUE, disabled |-> FALSE]
      OBVIOUS
    <3>2. x.uid = incarnation[d] + 1 /\ x.claim = Null
      BY <3>1
    <3>3. pod'[d] = x
      BY <2>2, <3>1 DEF PodCreate, PodChange, WritePod, TypeInv, PodInv
    <3> QED
      BY <2>1, <2>2, <3>2, <3>3 DEF PodCreate
  <2>3. CASE PodDelete(d)
    BY <2>1, <2>3 DEF PodDelete, PodChange, WritePod, TypeInv, PodInv
  <2>4. CASE PodGetsIP(d) \/ EditDisabled(d) \/ EditPool(d)
    <3>1. pod[d] \in PodRecords /\ pod[d] # Null /\ UNCHANGED incarnation
      BY <2>4 DEF PodGetsIP, EditDisabled, EditPool, TypeInv, PodInv
    <3>2. pod'[d] \in {[pod[d] EXCEPT !.hasIP = TRUE], [pod[d] EXCEPT !.disabled = ~@],
                       [pod[d] EXCEPT !.inPool = ~@]}
      BY <2>4 DEF PodGetsIP, EditDisabled, EditPool, PodChange, WritePod, TypeInv, PodInv
    <3> QED
      BY <2>1, <3>1, <3>2 DEF PodRecords
  <2> QED
    BY <2>2, <2>3, <2>4 DEF PodStep
<1>3. /\ pod'[d] = r
      /\ \A e \in Pods : e # d => pod'[e] = pod[e] /\ incarnation'[e] = incarnation[e]
      /\ \A q \in PAs : pa'[q] = pa[q] /\ worker'[q] = Overtaken(d, r)[q]
  BY <1>1, <1>2 DEF TypeInv, PodInv, paVars
<1>4. \A e \in Pods, q \in PAs : HasClaim(pod', e, q) => HasClaim(pod, e, q)
  BY <1>2, <1>3, ConstantsAssumption DEF HasClaim
<1>5. ASSUME NEW q \in PAs
      PROVE  /\ (Stage(pa[q], worker[q]) /\ Lock(q, pa[q], worker[q]))'
             /\ \A ip : Holds(pa[q], worker[q], ip)' => Holds(pa[q], worker[q], ip)
  <2>1. \/ worker[q].pc # "patchPodClaim" \/ worker[q].mem.pod # d
        \/ HasClaim(pod, d, q)' \/ Gone(d)'
    <3> SUFFICES ASSUME worker[q].pc = "patchPodClaim", worker[q].mem.pod = d
                 PROVE  HasClaim(pod, d, q)' \/ Gone(d)'
      OBVIOUS
    <3>1. MaxIncarnations = 1 /\ (HasClaim(pod, d, q) \/ Gone(d))
      BY DEF LockInv, Locked, Lock, NamesUsedOnce
    <3>2. pod[d] # Null => incarnation[d] = 1
      BY <3>1 DEF Born, TypeInv, PodInv, PodRecords
    <3>3. pod[d] # Null
      BY <1>2, <3>1, ConstantsAssumption DEF HasClaim, Gone
    <3>4. incarnation'[d] = 1
      BY <1>2, <3>2, <3>3
    <3> QED
      BY <1>2, <1>3, <3>1, <3>3, <3>4 DEF HasClaim, Gone
  <2>2. \/ incarnation'[worker[q].mem.pod] = incarnation[worker[q].mem.pod]
        \/ worker[q].pc # "patchPodClaim" \/ worker[q].mem.pod = d
    <3>1. worker[q].pc = "patchPodClaim" => worker[q].mem.pod \in Pods
      BY WorkerSteps DEF Consistent, Workers, PARecords
    <3> QED
      BY <1>3, <3>1
  <2> QED
    BY <1>1, <1>3, <1>4, <2>1, <2>2, StaysLocked
<1>6. HolderClaims'
  <2> SUFFICES ASSUME NEW q \in PAs, NEW e \in Pods, pod'[e] # Null,
                      Holds(pa[q], worker[q], <<e, pod[e].uid>>)'
               PROVE  HasClaim(pod', e, q)
    BY DEF HolderClaims
  <2>1. Holds(pa[q], worker[q], <<e, pod'[e].uid>>)
    BY <1>5
  <2>2. <<e, pod'[e].uid>> \in IPs
    BY TypeStep DEF Next, TypeInv, PodInv, PodRecords, IPs
  <2>3. pod'[e].uid <= incarnation[e]
    BY <2>1, <2>2, HeldGranted DEF Born
  <2>4. pod[e] # Null /\ pod'[e].uid = pod[e].uid /\ pod'[e].claim = pod[e].claim
    BY <1>2, <1>3, <2>3 DEF TypeInv, PodInv
  <2> QED
    BY <2>1, <2>4 DEF LockInv, HolderClaims, HasClaim
<1>7. OneHolder'
  BY <1>5 DEF LockInv, OneHolder
<1> QED
  BY <1>5, <1>6, <1>7 DEF LockInv, Locked

\* The CAS on the Pod: nobody had the claim on it, and nobody held its address.
LEMMA SetClaimLock ==
  ASSUME TypeInv, GrantInv, LockInv, NEW p \in PAs, NEW d, NEW w, SetsClaim(p, d, w),
         pod[d].claim = Null, pa[p].pod = d, pa[p].phase = "Available",
         w.pc \in {"idle", "setPodIP", "setBinding"}, w.podOK = FALSE,
         w.pc # "idle" => w.mem.pod = d /\ w.mem.ip = <<d, pod[d].uid>>
  PROVE  LockInv'
<1>1. PICK r : r = [pod[d] EXCEPT !.claim = p]
  OBVIOUS
<1>2. d \in Pods /\ pod[d] # Null /\ pod[d] \in PodRecords
  BY DEF SetsClaim, TypeInv, PodInv
<1>3. r.uid = pod[d].uid /\ r.claim = p /\ r # pod[d]
  BY <1>1, <1>2, ConstantsAssumption DEF PodRecords
<1>4. /\ pod' = [pod EXCEPT ![d] = r]
      /\ worker' = [Overtaken(d, r) EXCEPT ![p] = w]
      /\ UNCHANGED <<pa, incarnation>>
  BY <1>1 DEF SetsClaim, SetClaim, WritePod, paVars
<1>5. pod'[d] = r /\ \A e \in Pods : e # d => pod'[e] = pod[e]
  BY <1>2, <1>4 DEF TypeInv, PodInv
<1>6. ASSUME NEW q \in PAs, q # p
      PROVE  /\ (Stage(pa[q], worker[q]) /\ Lock(q, pa[q], worker[q]))'
             /\ \A ip : Holds(pa[q], worker[q], ip)' => Holds(pa[q], worker[q], ip)
  <2>1. \A e \in Pods : HasClaim(pod', e, q) => HasClaim(pod, e, q)
    BY <1>3, <1>5, <1>6 DEF HasClaim
  <2>2. worker[q].pc # "patchPodClaim" \/ worker[q].mem.pod # d
    BY <1>2, ConstantsAssumption DEF LockInv, Locked, Lock, HasClaim, Gone
  <2>3. worker'[q] = Overtaken(d, r)[q]
    BY <1>4, <1>6
  <2> QED
    BY <1>2, <1>4, <2>1, <2>2, <2>3, StaysLocked
<1>7. worker'[p] = w
  BY <1>4 DEF Overtaken
<1>8. (Stage(pa[p], worker[p]) /\ Lock(p, pa[p], worker[p]))'
  <2>1. \A e \in Pods : HasClaim(pod', e, p) => pa[p].pod = e
    BY <1>5 DEF LockInv, Locked, Lock, HasClaim
  <2> QED
    BY <1>4, <1>7, <2>1 DEF Stage, Lock, Closing
<1>9. \A ip : Holds(pa[p], worker[p], ip)' => ip = <<d, pod[d].uid>>
  BY <1>4, <1>7 DEF Holds
<1>10. \A q \in PAs : ~Holds(pa[q], worker[q], <<d, pod[d].uid>>)
  BY <1>2, ConstantsAssumption DEF LockInv, HolderClaims, HasClaim
<1>11. OneHolder'
  BY <1>6, <1>9, <1>10 DEF LockInv, OneHolder
<1>12. HolderClaims'
  <2> SUFFICES ASSUME NEW q \in PAs, NEW e \in Pods, pod'[e] # Null,
                      Holds(pa[q], worker[q], <<e, pod[e].uid>>)'
               PROVE  HasClaim(pod', e, q)
    BY DEF HolderClaims
  <2>1. CASE q = p
    <3>1. e = d
      BY <1>9, <2>1
    <3> QED
      BY <1>3, <1>5, <2>1, <3>1 DEF HasClaim
  <2>2. CASE q # p
    <3>1. Holds(pa[q], worker[q], <<e, pod'[e].uid>>)
      BY <1>6, <2>2
    <3>2. e # d
      BY <1>3, <1>5, <1>10, <3>1
    <3> QED
      BY <1>5, <3>1, <3>2 DEF LockInv, HolderClaims, HasClaim
  <2> QED
    BY <2>1, <2>2
<1> QED
  BY <1>6, <1>8, <1>11, <1>12 DEF LockInv, Locked

\* The patch that clears the claim: the PA is being released and holds no address.
LEMMA PatchClaimLock ==
  ASSUME TypeInv, LockInv, NEW p \in PAs, PatchPodClaim(p, "patchPodClaim", "removeServers")
  PROVE  LockInv'
<1>0. PICK d : d = worker[p].mem.pod
  OBVIOUS
<1>1. PICK r, w : /\ r = IF pod[d] = Null THEN Null ELSE [pod[d] EXCEPT !.claim = Null]
                  /\ w = [worker[p] EXCEPT !.pc = "removeServers"]
  OBVIOUS
<1>2. /\ worker[p] \in Workers /\ worker[p].pc = "patchPodClaim" /\ d \in Pods
      /\ worker[p].podOK # TRUE
  BY <1>0, WorkerSteps DEF PatchPodClaim, At, Consistent, Workers, PARecords
<1>3. /\ Stage(pa[p], worker[p]) /\ Lock(p, pa[p], worker[p])
      /\ pa[p].phase = "Releasing"
  BY <1>2 DEF LockInv, Locked, Stage, Closing
<1>4. /\ w.pc = "removeServers" /\ w.mem = worker[p].mem /\ w.podOK = worker[p].podOK
  BY <1>1, <1>2 DEF Workers
<1>5. /\ pod' = [pod EXCEPT ![d] = r]
      /\ worker' = [Overtaken(d, r) EXCEPT ![p] = w]
      /\ UNCHANGED <<pa, incarnation>>
  BY <1>0, <1>1 DEF PatchPodClaim, WritePod, paVars
<1>6. /\ r # Null => pod[d] # Null /\ r.claim = Null /\ r.uid = pod[d].uid
      /\ pod[d] = Null => r = Null
  BY <1>1, <1>2 DEF TypeInv, PodInv, PodRecords
<1>7. HasClaim(pod, d, p) \/ Gone(d)
  BY <1>0, <1>2, <1>3 DEF Lock
<1>8. pod'[d] = r /\ \A e \in Pods : e # d => pod'[e] = pod[e]
  BY <1>2, <1>5 DEF TypeInv, PodInv
<1>9. \A e \in Pods, q \in PAs : HasClaim(pod', e, q) => HasClaim(pod, e, q)
  BY <1>6, <1>8, ConstantsAssumption DEF HasClaim
<1>9a. /\ \A e : incarnation'[e] = incarnation[e]
       /\ \A q : pa'[q] = pa[q]
  BY <1>5
<1>10. ASSUME NEW q \in PAs, q # p
       PROVE  /\ (Stage(pa[q], worker[q]) /\ Lock(q, pa[q], worker[q]))'
              /\ \A ip : Holds(pa[q], worker[q], ip)' => Holds(pa[q], worker[q], ip)
  <2>1. \/ worker[q].pc # "patchPodClaim" \/ worker[q].mem.pod # d
        \/ HasClaim(pod, d, q)' \/ Gone(d)'
    <3> SUFFICES ASSUME worker[q].pc = "patchPodClaim", worker[q].mem.pod = d
                 PROVE  Gone(d)'
      OBVIOUS
    <3>1. HasClaim(pod, d, q) \/ Gone(d)
      BY DEF LockInv, Locked, Lock
    <3> QED
      BY <1>6, <1>7, <1>8, <1>9a, <1>10, <3>1 DEF HasClaim, Gone
  <2>2. worker'[q] = Overtaken(d, r)[q]
    BY <1>5, <1>10
  <2> QED
    BY <1>2, <1>5, <1>9a, <1>9, <2>1, <2>2, StaysLocked
<1>11. worker'[p] = w
  BY <1>5 DEF Overtaken
<1>12. ~HasClaim(pod', d, p)
  BY <1>6, <1>8, ConstantsAssumption DEF HasClaim
<1>13. Unclaimed(p)'
  BY <1>0, <1>2, <1>3, <1>9, <1>12 DEF Unclaimed, Lock, Stage, Closing
<1>14. (Stage(pa[p], worker[p]) /\ Lock(p, pa[p], worker[p]))'
  BY <1>2, <1>3, <1>4, <1>5, <1>11, <1>13 DEF Stage, Lock, Closing, Unclaimed
<1>15. \A ip : ~Holds(pa[p], worker[p], ip)'
  BY <1>3, <1>4, <1>5, <1>11 DEF Holds
<1>16. OneHolder'
  BY <1>10, <1>15 DEF LockInv, OneHolder
<1>17. HolderClaims'
  <2> SUFFICES ASSUME NEW q \in PAs, NEW e \in Pods, pod'[e] # Null,
                      Holds(pa[q], worker[q], <<e, pod[e].uid>>)'
               PROVE  HasClaim(pod', e, q)
    BY DEF HolderClaims
  <2>1. q # p
    BY <1>15
  <2>2. pod[e] # Null /\ pod'[e].uid = pod[e].uid
    BY <1>6, <1>8
  <2>3. HasClaim(pod, e, q)
    BY <1>10, <2>1, <2>2 DEF LockInv, HolderClaims
  <2>4. e # d
    BY <1>7, <2>1, <2>3 DEF HasClaim, Gone
  <2> QED
    BY <1>8, <2>3, <2>4 DEF HasClaim
<1> QED
  BY <1>10, <1>14, <1>16, <1>17 DEF LockInv, Locked
-----------------------------------------------------------------------------
(* Steps of a worker that leave the Pods alone.                             *)

\* What such a step has to keep: r and w are what it leaves in the PA and in the worker.
LEMMA StepLock ==
  ASSUME TypeInv, LockInv, NEW p \in PAs, NEW r, NEW w,
         pa' = [pa EXCEPT ![p] = r], worker' = [worker EXCEPT ![p] = w], UNCHANGED podVars,
         Stage(r, w), Lock(p, r, w),
         \A ip \in IPs : Holds(r, w, ip) => \/ Holds(pa[p], worker[p], ip)
                                            \/ \E d \in Pods : /\ HasClaim(pod, d, p)
                                                               /\ ip = <<d, pod[d].uid>>
  PROVE  LockInv'
<1>1. /\ pa'[p] = r /\ worker'[p] = w
      /\ \A q \in PAs : q # p => pa'[q] = pa[q] /\ worker'[q] = worker[q]
      /\ pod' = pod /\ incarnation' = incarnation
  BY DEF TypeInv, PAInv, WorkerInv, podVars
<1>2. Locked'
  <2>1. ASSUME NEW q \in PAs, NEW x, NEW y, Stage(x, y), Lock(q, x, y)
        PROVE  (Stage(x, y) /\ Lock(q, x, y))'
    BY <1>1, <2>1 DEF Stage, Lock, Unclaimed, HasClaim, Gone
  <2>2. ASSUME NEW q \in PAs PROVE Stage(pa'[q], worker'[q]) /\ Lock(q, pa'[q], worker'[q])
    BY <1>1 DEF LockInv, Locked
  <2> QED
    BY <1>1, <2>1, <2>2 DEF Locked
<1>3. ASSUME NEW q \in PAs, NEW d \in Pods, pod[d] # Null,
             Holds(pa'[q], worker'[q], <<d, pod[d].uid>>)
      PROVE  HasClaim(pod, d, q)
  <2>1. <<d, pod[d].uid>> \in IPs
    BY <1>3 DEF TypeInv, PodInv, PodRecords, IPs
  <2> QED
    BY <1>1, <1>3, <2>1 DEF LockInv, HolderClaims
<1>4. HolderClaims'
  BY <1>1, <1>3 DEF HolderClaims, Holds, HasClaim
<1>5. OneHolder'
  <2> SUFFICES ASSUME NEW q \in PAs, q # p, NEW ip \in IPs,
                      Holds(r, w, ip), Holds(pa[q], worker[q], ip)
               PROVE  FALSE
    BY <1>1 DEF LockInv, OneHolder, Holds
  <2>1. CASE Holds(pa[p], worker[p], ip)
    BY <2>1 DEF LockInv, OneHolder
  <2>2. CASE \E d \in Pods : HasClaim(pod, d, p) /\ ip = <<d, pod[d].uid>>
    BY <2>2 DEF LockInv, HolderClaims, HasClaim
  <2> QED
    BY <2>1, <2>2
<1> QED
  BY <1>2, <1>4, <1>5 DEF LockInv

\* A reconcile that starts where reads do not lag.
LEMMA ReadsCurrent ==
  ASSUME TypeInv, CurrentCaches, NEW p \in PAs, CacheReadable(p)
  PROVE  /\ \A q \in PAs : paSynced[q] = TRUE /\ paCache[q] = pa[q]
         /\ \A d \in Pods : podSynced[d] = TRUE /\ podCache[d] = pod[d]
         /\ pa[p].pod # Null => pa[p].pod \in Pods /\ CachedPod(p) = pod[pa[p].pod]
         /\ pa[p].pod = Null => CachedPod(p) = Null
<1>1. CacheLag = {}
  BY DEF CurrentCaches
<1>2. \A q \in PAs : paSynced[q] = TRUE
  BY <1>1 DEF CacheReadable, TypeInv, PAInv
<1>3. \A d \in Pods : podSynced[d] = TRUE
  BY <1>1 DEF CacheReadable, TypeInv, PodInv
<1>4. pa[p].pod \in Pods \cup {Null}
  BY DEF TypeInv, PAInv, PARecords
<1>5. /\ \A q \in PAs : paCache[q] = pa[q]
      /\ \A d \in Pods : podCache[d] = pod[d]
  BY <1>2, <1>3 DEF TypeInv, PAInv, PodInv
<1> QED
  BY <1>2, <1>3, <1>4, <1>5 DEF CachedPod

\* A worker that is at the start, in one of the loops, or done, and leaves the phase
\* and the reservation alone.
LEMMA QuietLock ==
  ASSUME TypeInv, LockInv, NEW p \in PAs, NEW r, NEW w,
         pa' = [pa EXCEPT ![p] = r], worker' = [worker EXCEPT ![p] = w], UNCHANGED podVars,
         r.phase = pa[p].phase, r.pod = pa[p].pod, r.ip = pa[p].ip,
         w.podOK = FALSE, w.pc \in {"idle", "bind", "disable", "release"}, Stage(r, w)
  PROVE  LockInv'
<1>1. Lock(p, pa[p], worker[p])
  BY DEF LockInv, Locked
<1>2. Lock(p, r, w)
  BY <1>1 DEF Lock, Closing
<1>3. \A ip : Holds(r, w, ip) => Holds(pa[p], worker[p], ip)
  BY DEF Holds
<1> QED
  BY <1>2, <1>3, StepLock

\* The same for a step that writes no PA.
LEMMA GotoLock ==
  ASSUME TypeInv, LockInv, NEW p \in PAs, NEW w, Goto(p, w), UNCHANGED <<paVars, podVars>>,
         w.podOK = FALSE, w.pc \in {"idle", "bind", "disable", "release"}, Stage(pa[p], w)
  PROVE  LockInv'
<1>1. pa' = [pa EXCEPT ![p] = pa[p]]
  BY DEF paVars, TypeInv, PAInv
<1> QED
  BY <1>1, QuietLock DEF Goto

\* An aborted reconcile, and others that end without a write.
LEMMA IdleLock ==
  ASSUME TypeInv, LockInv, NEW p \in PAs, Goto(p, Idle), UNCHANGED <<paVars, podVars>>
  PROVE  LockInv'
<1>1. Idle.pc = "idle" /\ Idle.podOK = FALSE
  BY DEF Idle
<1>2. Stage(pa[p], Idle)
  BY <1>1 DEF Stage, Closing
<1> QED
  BY <1>1, <1>2, GotoLock

\* The loops over the SGs.
LEMMA LoopLock ==
  ASSUME TypeInv, LockInv, NEW p \in PAs,
         worker[p].pc \in {"bind", "disable", "release"},
         \/ \E clear : NextSG(p, clear)
         \/ \E status : PatchNext(p, status)
         \/ Goto(p, Idle),
         UNCHANGED <<paVars, podVars>>
  PROVE  LockInv'
<1>1. worker[p] \in Workers /\ Stage(pa[p], worker[p]) /\ worker[p].podOK = FALSE
  BY WorkerSteps DEF LockInv, Locked, Consistent, Workers
<1>2. ASSUME NEW clear, NextSG(p, clear) PROVE LockInv'
  <2>1. PICK w : w = [worker[p] EXCEPT !.i = @ + 1, !.clear = @ /\ clear]
    OBVIOUS
  <2>2. w.pc = worker[p].pc /\ w.mem = worker[p].mem /\ w.podOK = worker[p].podOK
    BY <1>1, <2>1 DEF Workers
  <2>3. Stage(pa[p], w)
    BY <1>1, <2>2 DEF Stage
  <2> QED
    BY <1>1, <1>2, <2>1, <2>2, <2>3, GotoLock DEF NextSG
<1>3. ASSUME NEW status, PatchNext(p, status) PROVE LockInv'
  <2>1. PICK w : w = [worker[p] EXCEPT !.to = status]
    OBVIOUS
  <2>2. w.pc = worker[p].pc /\ w.mem = worker[p].mem /\ w.podOK = worker[p].podOK
    BY <1>1, <2>1 DEF Workers
  <2>3. Stage(pa[p], w)
    BY <1>1, <2>2 DEF Stage
  <2> QED
    BY <1>1, <1>3, <2>1, <2>2, <2>3, GotoLock DEF PatchNext
<1> QED
  BY <1>2, <1>3, IdleLock

\* The patch of one server status.
LEMMA PatchStatusLock ==
  ASSUME TypeInv, LockInv, NEW p \in PAs, PatchServerStatus(p)
  PROVE  LockInv'
<1> DEFINE v == worker[p]
<1>1. PICK r, mem, clear, w :
         /\ r = [pa[p] EXCEPT !.ss[v.i] = v.to]
         /\ mem = [Decode(v.mem, r) EXCEPT !.ss[v.i] = v.to]
         /\ clear = (v.clear /\ v.to = Goal(v.pc))
         /\ w = [v EXCEPT !.mem = mem, !.memOK = TRUE, !.to = "none", !.i = @ + 1,
                          !.clear = clear]
  OBVIOUS
<1>2. /\ pa' = [pa EXCEPT ![p] = r] /\ worker' = [worker EXCEPT ![p] = w]
      /\ UNCHANGED podVars /\ v.to # "none"
  BY <1>1 DEF PatchServerStatus, WritePA, Goto
<1>3. /\ v \in Workers /\ v.mem \in PARecords /\ v.podOK = FALSE
      /\ v.pc \in {"bind", "disable", "release"} /\ v.i \in SGs /\ v.to \in ServerStatus
  BY <1>2, WorkerSteps DEF Consistent, Workers
<1>4. pa[p] \in PARecords
  BY DEF TypeInv, PAInv
<1>5. r \in PARecords /\ r.phase = pa[p].phase /\ r.pod = pa[p].pod /\ r.ip = pa[p].ip
  BY <1>1, <1>3, <1>4 DEF PARecords
<1>6. mem.pod = Decode(v.mem, r).pod
  <2>1. Decode(v.mem, r) \in PARecords
    BY <1>3, <1>5, DecodeType
  <2> QED
    BY <1>1, <2>1 DEF PARecords
<1>7. w.pc = v.pc /\ w.mem = mem /\ w.podOK = v.podOK
  BY <1>1, <1>3 DEF Workers
<1>8. Stage(pa[p], v)
  BY DEF LockInv, Locked
<1> HIDE DEF v
<1>9. mem.pod = r.pod
  BY <1>3, <1>5, <1>6, <1>8 DEF Decode, Stage
<1>10. Stage(r, w)
  BY <1>5, <1>7, <1>8, <1>9 DEF Stage
<1> QED
  BY <1>2, <1>3, <1>5, <1>7, <1>10, QuietLock

\* A handler that ends in one CAS on the phase.
LEMMA MoveLock ==
  ASSUME TypeInv, LockInv, NEW p \in PAs, NEW phase, MovePhase(p, phase), At(p, "idle"),
         \/ phase = "Releasing" /\ ("pool" \notin UserEdits => Unclaimed(p))
         \/ phase = "Binding" /\ pa[p].phase = "Disabled"
  PROVE  LockInv'
<1>1. PICK r : r = [pa[p] EXCEPT !.phase = phase]
  OBVIOUS
<1>2. r.phase = phase /\ r.pod = pa[p].pod /\ r.ip = pa[p].ip
  BY <1>1, FieldUpdates DEF TypeInv, PAInv
<1>3. /\ pa' = [pa EXCEPT ![p] = r] /\ worker' = [worker EXCEPT ![p] = worker[p]]
      /\ UNCHANGED podVars
  BY <1>1 DEF MovePhase, WritePA, TypeInv, WorkerInv
<1>4. worker[p].pc = "idle" /\ Stage(pa[p], worker[p]) /\ Lock(p, pa[p], worker[p])
  BY DEF At, LockInv, Locked
<1>5. Stage(r, worker[p]) /\ Lock(p, r, worker[p])
  BY <1>2, <1>4 DEF Stage, Lock, Closing
<1>6. \A ip : Holds(r, worker[p], ip) => Holds(pa[p], worker[p], ip)
  BY <1>2, <1>4 DEF Holds
<1> QED
  BY <1>3, <1>5, <1>6, StepLock

\* A worker that enters a loop.
LEMMA StartLoopLock ==
  ASSUME TypeInv, LockInv, NEW p \in PAs, NEW label, NEW copy, NEW current,
         StartLoop(p, label, copy, current), copy.pod = pa[p].pod,
         \/ label = "bind" /\ pa[p].phase = "Binding"
         \/ label = "disable" /\ pa[p].phase = "Bound"
         \/ label = "release" /\ pa[p].phase = "Releasing",
         NEW r, pa' = [pa EXCEPT ![p] = r], UNCHANGED podVars,
         r.phase = pa[p].phase, r.pod = pa[p].pod, r.ip = pa[p].ip
  PROVE  LockInv'
<1>1. PICK w : w = [Idle EXCEPT !.pc = label, !.mem = copy, !.memOK = current]
  OBVIOUS
<1>2. w.pc = label /\ w.mem = copy /\ w.podOK = FALSE
  BY <1>1 DEF Idle
<1>3. Stage(r, w)
  BY <1>2 DEF Stage, Closing
<1> QED
  BY <1>1, <1>2, <1>3, QuietLock DEF StartLoop, Goto

\* A PA has no claim if the Pod it names does not claim it.
LEMMA NoClaimThere ==
  ASSUME LockInv, NEW p \in PAs, pa[p].pod # Null => ~HasClaim(pod, pa[p].pod, p),
         ConstantsAssumption
  PROVE  Unclaimed(p)
BY DEF LockInv, Locked, Lock, Unclaimed, ConstantsAssumption

\* The end of a loop: the PA is Binding or Bound, so it holds its address already.
LEMMA EndLoopLock ==
  ASSUME TypeInv, LockInv, NEW p \in PAs,
         EndLoop(p, "bind", "Bound") \/ EndLoop(p, "disable", "Disabled")
  PROVE  LockInv'
<1>1. PICK label, phase :
        /\ (label = "bind" /\ phase = "Bound") \/ (label = "disable" /\ phase = "Disabled")
        /\ EndLoop(p, label, phase)
  OBVIOUS
<1>2. CASE ~(worker[p].clear /\ CurrentPA(p))
  BY <1>1, <1>2, IdleLock DEF EndLoop
<1>3. CASE worker[p].clear /\ CurrentPA(p)
  <2>1. PICK r : r = [pa[p] EXCEPT !.phase = phase, !.ss = worker[p].mem.ss]
    OBVIOUS
  <2>2. r.phase = phase /\ r.pod = pa[p].pod /\ r.ip = pa[p].ip
    BY <2>1, FieldUpdates DEF TypeInv, PAInv
  <2>3. /\ pa' = [pa EXCEPT ![p] = r] /\ worker' = [worker EXCEPT ![p] = Idle]
        /\ UNCHANGED podVars /\ worker[p].pc = label
    BY <1>1, <1>3, <2>1 DEF EndLoop, WritePA, Goto, LoopDone, At
  <2>4. pa[p].phase \in {"Binding", "Bound"}
    BY <1>1, <2>3 DEF LockInv, Locked, Stage
  <2>5. Idle.pc = "idle" /\ Idle.podOK = FALSE
    BY DEF Idle
  <2>6. Stage(r, Idle) /\ Lock(p, r, Idle)
    BY <1>1, <2>2, <2>5 DEF Stage, Lock, Closing, LockInv, Locked
  <2>7. \A ip : Holds(r, Idle, ip) => Holds(pa[p], worker[p], ip)
    BY <2>2, <2>4, <2>5 DEF Holds
  <2> QED
    BY <2>3, <2>6, <2>7, StepLock
<1> QED
  BY <1>2, <1>3

\* The actions of handleBinding.
LEMMA BindLock ==
  ASSUME TypeInv, ReservedInv, LockInv, CurrentCaches, NEW p \in PAs,
         \/ HandleBinding(p) \/ AbortBinding(p) \/ PollAdding(p) \/ AddServers(p)
         \/ FinishBinding(p)
  PROVE  LockInv'
<1>1. pa = [pa EXCEPT ![p] = pa[p]]
  BY DEF TypeInv, PAInv
<1>2. CASE HandleBinding(p)
  <2>1. pa[p].phase = "Binding" /\ paCache[p] = pa[p]
    BY <1>2, ReadsCurrent DEF HandleBinding, Reconcile
  <2>2. StartLoop(p, "bind", pa[p], paSynced[p]) /\ UNCHANGED <<paVars, podVars>>
    BY <1>2, <2>1 DEF HandleBinding
  <2> QED
    BY <1>1, <2>1, <2>2, StartLoopLock DEF paVars
<1>3. CASE AbortBinding(p)
  <2>1. At(p, "idle") /\ CacheReadable(p) /\ paCache[p].phase = "Binding"
    BY <1>3 DEF AbortBinding, Reconcile
  <2>2. paCache[p] = pa[p]
    BY <2>1, ReadsCurrent
  <2>3. pa[p].pod # Null /\ pa[p].ip # Null
    BY <2>1, <2>2, NullIsNoAddress
    DEF ReservedInv, Reserved, Copied, Shaped, Whole, TypeInv, PAInv, PARecords
  <2>4. ~HasClaim(pod, pa[p].pod, p)
    BY <1>3, <2>1, <2>2, <2>3, ReadsCurrent DEF AbortBinding, StillClaimed, HasClaim
  <2>5. Unclaimed(p)
    BY <2>4, NoClaimThere, ConstantsAssumption
  <2> QED
    BY <1>3, <2>1, <2>5, MoveLock DEF AbortBinding
<1>4. CASE PollAdding(p)
  BY <1>4, LoopLock DEF PollAdding, AtSG, InLoop, At
<1>5. CASE AddServers(p)
  BY <1>5, LoopLock DEF AddServers, AtSG, InLoop, At
<1>6. CASE FinishBinding(p)
  BY <1>6, EndLoopLock DEF FinishBinding
<1> QED
  BY <1>2, <1>3, <1>4, <1>5, <1>6

\* The actions of handleBound, handleDisable and handleDisabled.
LEMMA BoundLock ==
  ASSUME TypeInv, Born, LockInv, CurrentCaches, NEW p \in PAs,
         \/ HandleBound(p) \/ HandleDisable(p) \/ PollRemoving(p) \/ RemoveServer(p)
         \/ FinishDisable(p) \/ DisabledPodGone(p) \/ ReEnable(p)
  PROVE  LockInv'
<1>1. pa = [pa EXCEPT ![p] = pa[p]]
  BY DEF TypeInv, PAInv
<1>2. CASE HandleBound(p)
  <2>1. At(p, "idle") /\ CacheReadable(p) /\ MovePhase(p, "Releasing")
    BY <1>2 DEF HandleBound, Reconcile
  <2>2. ASSUME "pool" \notin UserEdits PROVE Unclaimed(p)
    <3>1. pa[p].pod # Null => ~HasClaim(pod, pa[p].pod, p)
      <4> SUFFICES ASSUME pa[p].pod # Null, HasClaim(pod, pa[p].pod, p) PROVE FALSE
        OBVIOUS
      <4>1. pa[p].pod \in Pods /\ CachedPod(p) = pod[pa[p].pod]
        BY <2>1, ReadsCurrent
      <4>2. CachedPod(p) # Null /\ CachedPod(p).claim = p /\ CachedPod(p).inPool = TRUE
        BY <2>2, <4>1 DEF HasClaim, Born
      <4> QED
        BY <1>2, <4>2 DEF HandleBound, BoundPodGone, BoundPodLost
    <3> QED
      BY <3>1, NoClaimThere, ConstantsAssumption
  <2> QED
    BY <2>1, <2>2, MoveLock
<1>3. CASE HandleDisable(p)
  <2>1. pa[p].phase = "Bound" /\ paCache[p] = pa[p]
    BY <1>3, ReadsCurrent DEF HandleDisable, Reconcile
  <2>2. StartLoop(p, "disable", pa[p], paSynced[p]) /\ UNCHANGED <<paVars, podVars>>
    BY <1>3, <2>1 DEF HandleDisable
  <2> QED
    BY <1>1, <2>1, <2>2, StartLoopLock DEF paVars
<1>4. CASE PollRemoving(p)
  BY <1>4, LoopLock DEF PollRemoving, AtSG, InLoop, At
<1>5. CASE RemoveServer(p)
  BY <1>5, LoopLock DEF RemoveServer, AtSG, InLoop, At
<1>6. CASE FinishDisable(p)
  BY <1>6, EndLoopLock DEF FinishDisable
<1>7. CASE DisabledPodGone(p)
  <2>1. /\ At(p, "idle") /\ CacheReadable(p) /\ MovePhase(p, "Releasing")
        /\ CachedPod(p) = Null
    BY <1>7 DEF DisabledPodGone, Reconcile
  <2>2. pa[p].pod # Null => ~HasClaim(pod, pa[p].pod, p)
    BY <2>1, ReadsCurrent DEF HasClaim
  <2> QED
    BY <2>1, <2>2, NoClaimThere, ConstantsAssumption, MoveLock
<1>8. CASE ReEnable(p)
  <2>1. At(p, "idle") /\ CacheReadable(p) /\ MovePhase(p, "Binding")
    BY <1>8 DEF ReEnable, Reconcile
  <2>2. pa[p].phase = "Disabled"
    BY <1>8, <2>1, ReadsCurrent DEF ReEnable, Reconcile
  <2> QED
    BY <2>1, <2>2, MoveLock
<1> QED
  BY <1>2, <1>3, <1>4, <1>5, <1>6, <1>7, <1>8

\* handleAvailable finds no claim on the Pod that it reserves the PA for: a claim that it
\* takes over would be one that its PA does not know.
LEMMA CandidateFree ==
  ASSUME TypeInv, LockInv, CurrentCaches, NEW p \in PAs, NEW d \in Pods,
         HandleAvailable(p, d)
  PROVE  /\ Unclaimed(p)
         /\ pod[d] # Null /\ pod[d].claim = Null
<1>1. CacheReadable(p) /\ Candidate(p, d) /\ paCache[p].pod = Null
  BY DEF HandleAvailable, Reconcile
<1>2. paCache[p] = pa[p] /\ podCache[d] = pod[d] /\ \A q \in PAs : paCache[q] = pa[q]
  BY <1>1, ReadsCurrent
<1>3. Unclaimed(p)
  BY <1>1, <1>2, NoClaimThere, ConstantsAssumption
<1>4. pod[d] # Null /\ pod[d] \in PodRecords
  BY <1>1, <1>2 DEF Candidate, TypeInv, PodInv
<1>5. \A q \in PAs : pod[d].claim = q => pa[q].pod = d
  BY <1>4 DEF LockInv, Locked, Lock, HasClaim
<1>6. pod[d].claim # p
  BY <1>3, <1>4 DEF Unclaimed, HasClaim
<1>7. ~StaleClaim(d)
  BY <1>2, <1>4, <1>5 DEF StaleClaim, PodRecords
<1> QED
  BY <1>1, <1>2, <1>3, <1>4, <1>6, <1>7 DEF Candidate

\* The actions of handleAvailable, and the abort of a reconcile.
LEMMA ClaimLock ==
  ASSUME TypeInv, GrantInv, ReservedInv, LockInv, CurrentCaches, NEW p \in PAs,
         \/ \E d \in Pods : HandleAvailable(p, d)
         \/ ClaimPod(p) \/ ClaimPodFails(p) \/ RollBack(p) \/ SetBinding(p) \/ Abort(p)
  PROVE  LockInv'
<1>1. /\ pa = [pa EXCEPT ![p] = pa[p]] /\ pa[p] \in PARecords
      /\ worker[p] \in Workers /\ Consistent(worker[p], pod)
      /\ Stage(pa[p], worker[p]) /\ Lock(p, pa[p], worker[p])
      /\ Backed(p, pa[p], paCache[p], worker[p])
  BY WorkerSteps DEF TypeInv, PAInv, LockInv, Locked, GrantInv, PAsBacked
<1>2. ASSUME NEW d \in Pods, HandleAvailable(p, d) PROVE LockInv'
  <2>1. PICK r, w : /\ r = [pa[p] EXCEPT !.pod = d, !.ip = <<d, podCache[d].uid>>]
                    /\ w = [Idle EXCEPT !.pc = "claimPod", !.mem = r, !.memOK = TRUE,
                                        !.podOK = podSynced[d]]
    OBVIOUS
  <2>2. r.phase = pa[p].phase /\ r.pod = d
    BY <1>1, <2>1, FieldUpdates
  <2>3. w.pc = "claimPod" /\ w.mem = r
    BY <2>1 DEF Idle
  <2>4. /\ pa' = [pa EXCEPT ![p] = r] /\ worker' = [worker EXCEPT ![p] = w]
        /\ UNCHANGED podVars
    BY <1>2, <2>1 DEF HandleAvailable, WritePA, Goto
  <2>5. pa[p].phase = "Available"
    BY <1>2, ReadsCurrent DEF HandleAvailable, Reconcile
  <2>6. Unclaimed(p) /\ pod[d].claim = Null
    BY <1>2, CandidateFree
  <2>7. Stage(r, w)
    BY <2>2, <2>3, <2>5 DEF Stage, Closing
  <2>8. Lock(p, r, w)
    BY <2>2, <2>3, <2>5, <2>6 DEF Lock, Closing, Unclaimed
  <2>9. \A ip : ~Holds(r, w, ip)
    BY <2>2, <2>3, <2>5 DEF Holds
  <2> QED
    BY <2>4, <2>7, <2>8, <2>9, StepLock
<1>3. CASE ClaimPod(p)
  <2>1. PICK w : w = [worker[p] EXCEPT !.pc = "setBinding", !.podOK = FALSE]
    OBVIOUS
  <2>2. SetsClaim(p, worker[p].mem.pod, w)
    BY <1>3, <2>1, ClaimSetters
  <2>3. w.pc = "setBinding" /\ w.podOK = FALSE /\ w.mem = worker[p].mem
    BY <1>1, <2>1 DEF Workers
  <2>4. worker[p].podOK = TRUE /\ worker[p].pc = "claimPod"
    BY <1>1, <1>3 DEF ClaimPod, CurrentPod, At, Workers
  <2>5. pod[worker[p].mem.pod].claim = Null
    BY <1>1, <2>4 DEF Lock
  <2>6. pa[p].pod = worker[p].mem.pod /\ pa[p].phase = "Available"
    BY <1>1, <2>4 DEF Stage
  <2>7. w.mem.ip = <<worker[p].mem.pod, pod[worker[p].mem.pod].uid>>
    BY <1>1, <2>3, <2>4 DEF Backed
  <2> QED
    BY <2>2, <2>3, <2>5, <2>6, <2>7, SetClaimLock
<1>4. CASE ClaimPodFails(p)
  <2>1. PICK w : w = [worker[p] EXCEPT !.pc = "rollback", !.podOK = FALSE]
    OBVIOUS
  <2>2. w.pc = "rollback" /\ w.podOK = FALSE /\ w.mem = worker[p].mem
    BY <1>1, <2>1 DEF Workers
  <2>3. worker[p].pc = "claimPod" /\ pa' = pa /\ worker' = [worker EXCEPT ![p] = w]
        /\ UNCHANGED podVars
    BY <1>4, <2>1 DEF ClaimPodFails, Goto, At, paVars
  <2>4. Stage(pa[p], w) /\ Lock(p, pa[p], w)
    BY <1>1, <2>2, <2>3 DEF Stage, Lock, Closing
  <2>5. \A ip : Holds(pa[p], w, ip) => Holds(pa[p], worker[p], ip)
    BY <2>2 DEF Holds
  <2> QED
    BY <1>1, <2>3, <2>4, <2>5, StepLock
<1>5. CASE RollBack(p)
  <2>1. PICK r : r = Unreserved(p)
    OBVIOUS
  <2>2. r.phase = pa[p].phase /\ r.pod = Null /\ r.ip = Null
    BY <1>1, <2>1, FieldUpdates DEF Unreserved
  <2>3. /\ pa' = [pa EXCEPT ![p] = r] /\ worker' = [worker EXCEPT ![p] = Idle]
        /\ UNCHANGED podVars /\ worker[p].pc = "rollback"
    BY <1>5, <2>1 DEF RollBack, WritePA, Goto, At
  <2>4. Idle.pc = "idle" /\ Idle.podOK = FALSE
    BY DEF Idle
  <2>5. Stage(r, Idle) /\ Lock(p, r, Idle)
    BY <1>1, <2>2, <2>3, <2>4 DEF Stage, Lock, Closing, Unclaimed
  <2>6. \A ip : ~Holds(r, Idle, ip)
    BY <1>1, <2>2, <2>3, <2>4 DEF Holds, Stage
  <2> QED
    BY <2>3, <2>5, <2>6, StepLock
<1>6. CASE SetBinding(p)
  <2>1. CASE ~CurrentPA(p)
    BY <1>6, <2>1, IdleLock DEF SetBinding
  <2>2. CASE CurrentPA(p)
    <3>1. PICK r : r = [pa[p] EXCEPT !.phase = "Binding"]
      OBVIOUS
    <3>2. r.phase = "Binding" /\ r.pod = pa[p].pod /\ r.ip = pa[p].ip
      BY <1>1, <3>1, FieldUpdates
    <3>3. /\ pa' = [pa EXCEPT ![p] = r] /\ worker' = [worker EXCEPT ![p] = Idle]
          /\ UNCHANGED podVars /\ worker[p].pc = "setBinding"
      BY <1>6, <2>2, <3>1 DEF SetBinding, WritePA, Goto, At
    <3>4. Idle.pc = "idle" /\ Idle.podOK = FALSE
      BY DEF Idle
    <3>5. Stage(r, Idle) /\ Lock(p, r, Idle)
      BY <1>1, <3>2, <3>4 DEF Stage, Lock, Closing
    <3>6. pa[p].ip = worker[p].mem.ip
      BY <1>1, <2>2, <3>3 DEF Backed, CurrentPA
    <3>7. \A ip : Holds(r, Idle, ip) => Holds(pa[p], worker[p], ip)
      BY <3>2, <3>3, <3>4, <3>6 DEF Holds
    <3> QED
      BY <3>3, <3>5, <3>7, StepLock
  <2> QED
    BY <2>1, <2>2
<1>7. CASE Abort(p)
  BY <1>7, IdleLock DEF Abort
<1> QED
  BY <1>2, <1>3, <1>4, <1>5, <1>6, <1>7

\* The worker that goes on with the Pod that its PA names.
LEMMA ResumeWithFields ==
  ASSUME TypeInv, NEW p \in PAs, NEW ip
  PROVE  /\ ResumeWith(p, ip).pc \in {"setPodIP", "setBinding"}
         /\ ResumeWith(p, ip).mem.pod = paCache[p].pod
         /\ ResumeWith(p, ip).mem.ip = ip
         /\ ResumeWith(p, ip).podOK = FALSE
<1>1. paCache[p] \in PARecords
  BY DEF TypeInv, PAInv
<1>2. PICK m : m = [paCache[p] EXCEPT !.ip = ip]
  OBVIOUS
<1>3. m.pod = paCache[p].pod /\ m.ip = ip
  BY <1>1, <1>2, FieldUpdates
<1> QED
  BY <1>2, <1>3 DEF ResumeWith, Idle

\* The actions of availableResumeBind.
LEMMA ResumeLock ==
  ASSUME TypeInv, GrantInv, LockInv, CurrentCaches, NEW p \in PAs,
         \/ ResumeConfirmed(p) \/ ResumeClaim(p) \/ ResumeClear(p) \/ ResumeClaimFails(p)
         \/ SetPodIP(p)
  PROVE  LockInv'
<1>1. /\ pa = [pa EXCEPT ![p] = pa[p]] /\ pa[p] \in PARecords
      /\ worker[p] \in Workers
      /\ Stage(pa[p], worker[p]) /\ Lock(p, pa[p], worker[p])
  BY WorkerSteps DEF TypeInv, PAInv, LockInv, Locked
<1>2. ASSUME Resume(p)
      PROVE  /\ worker[p].pc = "idle" /\ pa[p].phase = "Available"
             /\ paCache[p] = pa[p] /\ pa[p].pod \in Pods
             /\ CachedPod(p) = pod[pa[p].pod]
  BY <1>2, ReadsCurrent DEF Resume, Reconcile, At
<1>3. CASE ResumeConfirmed(p)
  <2>1. Resume(p) /\ CachedPod(p) # Null /\ CachedPod(p).claim = p
    BY <1>3 DEF ResumeConfirmed
  <2>2. PICK d, w : d = pa[p].pod /\ w = ResumeWith(p, <<d, pod[d].uid>>)
    OBVIOUS
  <2>3. d \in Pods /\ HasClaim(pod, d, p)
    BY <1>2, <2>1, <2>2 DEF HasClaim
  <2>4. worker' = [worker EXCEPT ![p] = w] /\ UNCHANGED <<pa, podVars>>
    BY <1>2, <1>3, <2>1, <2>2 DEF ResumeConfirmed, Goto, paVars
  <2>5. /\ w.pc \in {"setPodIP", "setBinding"} /\ w.podOK = FALSE
        /\ w.mem.pod = d /\ w.mem.ip = <<d, pod[d].uid>>
    <3>1. PICK ip : ip = <<d, pod[d].uid>>
      OBVIOUS
    <3>2. w = ResumeWith(p, ip) /\ paCache[p].pod = d
      BY <1>2, <2>1, <2>2, <3>1
    <3> QED
      BY <3>1, <3>2, ResumeWithFields
  <2>6. Stage(pa[p], w) /\ Lock(p, pa[p], w)
    BY <1>1, <1>2, <2>1, <2>2, <2>5 DEF Stage, Lock, Closing
  <2>7. \A ip \in IPs : Holds(pa[p], w, ip) =>
           \E e \in Pods : HasClaim(pod, e, p) /\ ip = <<e, pod[e].uid>>
    BY <1>2, <2>1, <2>3, <2>5 DEF Holds
  <2> QED
    BY <1>1, <2>4, <2>6, <2>7, StepLock
<1>4. CASE ResumeClaim(p)
  <2>1. Resume(p) /\ CachedPod(p).claim = Null
    BY <1>4 DEF ResumeClaim
  <2>2. PICK d, w : d = pa[p].pod /\ w = IF pod[d].hasIP THEN ResumeWith(p, <<d, pod[d].uid>>)
                                                         ELSE Idle
    OBVIOUS
  <2>3. SetsClaim(p, d, w)
    BY <1>2, <1>4, <2>1, <2>2, ClaimSetters
  <2>4. Idle.pc = "idle" /\ Idle.podOK = FALSE
    BY DEF Idle
  <2>5. /\ w.pc \in {"idle", "setPodIP", "setBinding"} /\ w.podOK = FALSE
        /\ w.pc # "idle" => w.mem.pod = d /\ w.mem.ip = <<d, pod[d].uid>>
    <3>1. PICK ip : ip = <<d, pod[d].uid>>
      OBVIOUS
    <3>2. w \in {ResumeWith(p, ip), Idle} /\ paCache[p].pod = d
      BY <1>2, <2>1, <2>2, <3>1
    <3>3. CASE w = ResumeWith(p, ip)
      BY <3>1, <3>2, <3>3, ResumeWithFields
    <3> QED
      BY <2>4, <3>2, <3>3
  <2> QED
    BY <1>2, <2>1, <2>2, <2>3, <2>5, SetClaimLock
<1>5. CASE ResumeClear(p) \/ ResumeClaimFails(p)
  <2>1. /\ Resume(p)
        /\ CachedPod(p) = Null \/ CachedPod(p).claim # p
    BY <1>5, ConstantsAssumption DEF ResumeClear, ResumeClaimFails
  <2>2. Unclaimed(p)
    BY <1>2, <2>1, NoClaimThere, ConstantsAssumption DEF HasClaim
  <2>3. PICK r : r = Unreserved(p)
    OBVIOUS
  <2>4. r.phase = pa[p].phase /\ r.pod = Null /\ r.ip = Null
    BY <1>1, <2>3, FieldUpdates DEF Unreserved
  <2>5. /\ pa' = [pa EXCEPT ![p] = r] /\ worker' = [worker EXCEPT ![p] = worker[p]]
        /\ UNCHANGED podVars
    BY <1>5, <2>3 DEF ResumeClear, ResumeClaimFails, WritePA, TypeInv, WorkerInv
  <2>6. Stage(r, worker[p]) /\ Lock(p, r, worker[p])
    BY <1>1, <1>2, <2>1, <2>2, <2>4 DEF Stage, Lock, Closing, Unclaimed
  <2>7. \A ip : ~Holds(r, worker[p], ip)
    BY <1>2, <2>1, <2>4 DEF Holds
  <2> QED
    BY <2>5, <2>6, <2>7, StepLock
<1>6. CASE SetPodIP(p)
  <2>1. CASE ~CurrentPA(p)
    BY <1>6, <2>1, IdleLock DEF SetPodIP
  <2>2. CASE CurrentPA(p)
    <3>1. PICK r, w : /\ r = [pa[p] EXCEPT !.ip = worker[p].mem.ip]
                      /\ w = [worker[p] EXCEPT !.pc = "setBinding"]
      OBVIOUS
    <3>2. r.phase = pa[p].phase /\ r.pod = pa[p].pod
      BY <1>1, <3>1, FieldUpdates
    <3>3. /\ w.pc = "setBinding" /\ w.mem = worker[p].mem
          /\ w.podOK = worker[p].podOK
      BY <1>1, <3>1 DEF Workers
    <3>4. /\ pa' = [pa EXCEPT ![p] = r] /\ worker' = [worker EXCEPT ![p] = w]
          /\ UNCHANGED podVars /\ worker[p].pc = "setPodIP"
      BY <1>6, <2>2, <3>1 DEF SetPodIP, WritePA, Goto, At
    <3>5. Stage(r, w) /\ Lock(p, r, w)
      BY <1>1, <3>2, <3>3, <3>4 DEF Stage, Lock, Closing
    <3>6. \A ip : Holds(r, w, ip) => Holds(pa[p], worker[p], ip)
      BY <1>1, <3>2, <3>3, <3>4 DEF Holds, Stage
    <3> QED
      BY <3>4, <3>5, <3>6, StepLock
  <2> QED
    BY <2>1, <2>2
<1> QED
  BY <1>3, <1>4, <1>5, <1>6

\* A worker that goes from one step of a release to the next.
LEMMA LabelLock ==
  ASSUME TypeInv, LockInv, NEW p \in PAs, worker[p].pc \in Closing,
         NEW w, Goto(p, w), UNCHANGED <<paVars, podVars>>,
         w.mem = worker[p].mem, w.podOK = FALSE,
         \/ w.pc = "clearPodClaim"
         \/ w.pc \in {"removeServers", "clearPodClaimAgain", "clearSpec"} /\ Unclaimed(p)
         \/ w.pc = "patchPodClaim" /\ "pool" \in UserEdits /\ HasClaim(pod, w.mem.pod, p),
         worker[p].pc # "setAvailable"
  PROVE  LockInv'
<1>1. pa' = [pa EXCEPT ![p] = pa[p]]
  BY DEF paVars, TypeInv, PAInv
<1>2. Stage(pa[p], worker[p]) /\ Lock(p, pa[p], worker[p])
  BY DEF LockInv, Locked
<1>3. pa[p].phase = "Releasing" /\ worker[p].mem.pod = pa[p].pod
  BY <1>2 DEF Stage, Closing
<1>4. Stage(pa[p], w) /\ Lock(p, pa[p], w)
  BY <1>2, <1>3 DEF Stage, Lock, Closing
<1>5. \A ip : ~Holds(pa[p], w, ip)
  BY <1>3 DEF Holds
<1> QED
  BY <1>1, <1>4, <1>5, StepLock DEF Goto

\* The two steps of clearPodClaim, in each of the two places.
LEMMA PodClaimLock ==
  ASSUME TypeInv, LockInv, CurrentCaches, NEW p \in PAs
  PROVE  /\ ClearPodClaim(p) => LockInv'
         /\ ClearPodClaimAgain(p) => LockInv'
<1>1. worker[p] \in Workers /\ Stage(pa[p], worker[p]) /\ Lock(p, pa[p], worker[p])
  BY WorkerSteps DEF LockInv, Locked
<1>2. ASSUME NEW label \in {"clearPodClaim", "clearPodClaimAgain"}, NEW patch, NEW next,
             \/ patch = "patchPodClaim" /\ next = "removeServers"
             \/ label = "clearPodClaimAgain" /\ next = "clearSpec",
             ReadPodClaim(p, label, patch, next)
      PROVE  LockInv'
  <2>1. /\ worker[p].pc = label /\ CacheReadable(p) /\ UNCHANGED <<paVars, podVars>>
        /\ worker[p].podOK = FALSE
    BY <1>2, WorkerSteps DEF ReadPodClaim, At, Consistent, Workers
  <2>2. /\ worker[p].pc \in Closing /\ worker[p].pc # "setAvailable"
        /\ pa[p].phase = "Releasing" /\ worker[p].mem.pod = pa[p].pod
    BY <1>1, <2>1 DEF Stage, Closing
  <2>3. SeesOwnClaim(p) <=> pa[p].pod # Null /\ HasClaim(pod, pa[p].pod, p)
    <3>1. pa[p].pod # Null => podCache[pa[p].pod] = pod[pa[p].pod]
      BY <2>1, ReadsCurrent
    <3> QED
      BY <2>2, <3>1 DEF SeesOwnClaim, HasClaim
  <2>4. PICK w : w = [worker[p] EXCEPT !.pc = IF SeesOwnClaim(p) THEN patch ELSE next]
    OBVIOUS
  <2>5. Goto(p, w)
    BY <1>2, <2>4 DEF ReadPodClaim
  <2>6. /\ w.pc = IF SeesOwnClaim(p) THEN patch ELSE next
        /\ w.mem = worker[p].mem /\ w.podOK = FALSE
    BY <1>1, <2>1, <2>4 DEF Workers
  <2>7. CASE SeesOwnClaim(p)
    <3>1. HasClaim(pod, pa[p].pod, p) /\ pa[p].pod \in Pods
      BY <2>1, <2>3, <2>7, ReadsCurrent
    <3>2. ~Unclaimed(p)
      BY <3>1 DEF Unclaimed
    <3>3. "pool" \in UserEdits /\ label # "clearPodClaimAgain"
      BY <1>1, <2>1, <2>2, <3>2 DEF Lock, Closing
    <3> QED
      BY <1>2, <2>1, <2>2, <2>5, <2>6, <2>7, <3>1, <3>3, LabelLock
  <2>8. CASE ~SeesOwnClaim(p)
    <3>1. Unclaimed(p)
      BY <2>3, <2>8, NoClaimThere, ConstantsAssumption
    <3>2. w.pc \in {"removeServers", "clearSpec"}
      BY <1>2, <2>6, <2>8
    <3> QED
      BY <2>1, <2>2, <2>5, <2>6, <3>1, <3>2, LabelLock
  <2> QED
    BY <2>7, <2>8
<1>3. ~PatchPodClaim(p, "patchPodClaimAgain", "clearSpec")
  BY <1>1 DEF PatchPodClaim, At, Lock
<1> QED
  BY <1>2, <1>3, PatchClaimLock DEF ClearPodClaim, ClearPodClaimAgain

\* The actions of handleReleasing and resetToAvailable.
LEMMA ReleaseLock ==
  ASSUME TypeInv, LockInv, CurrentCaches, Undisturbed', NEW p \in PAs,
         \/ HandleReleasing(p) \/ ListAndRemove(p) \/ FinishReleasing(p)
         \/ ClearPodClaim(p) \/ PatchPodClaimFails(p) \/ RemoveServers(p)
         \/ ClearPodClaimAgain(p) \/ ClearSpec(p) \/ SetAvailable(p)
  PROVE  LockInv'
<1>1. /\ pa = [pa EXCEPT ![p] = pa[p]] /\ pa[p] \in PARecords
      /\ worker[p] \in Workers /\ Consistent(worker[p], pod)
      /\ Stage(pa[p], worker[p]) /\ Lock(p, pa[p], worker[p])
  BY WorkerSteps DEF TypeInv, PAInv, LockInv, Locked
<1>2. worker[p].pc # "claimPod" => worker[p].podOK = FALSE
  BY <1>1 DEF Consistent, Workers
<1>3. CASE HandleReleasing(p)
  <2>1. pa[p].phase = "Releasing" /\ paCache[p] = pa[p]
    BY <1>3, ReadsCurrent DEF HandleReleasing, Reconcile
  <2>2. PICK r, copy, current :
           /\ StartLoop(p, "release", copy, current) /\ pa' = [pa EXCEPT ![p] = r]
           /\ copy.pod = pa[p].pod
           /\ r.phase = pa[p].phase /\ r.pod = pa[p].pod /\ r.ip = pa[p].ip
    <3>1. CASE paCache[p].since
      <4>1. StartLoop(p, "release", pa[p], paSynced[p]) /\ pa' = [pa EXCEPT ![p] = pa[p]]
        BY <1>1, <1>3, <2>1, <3>1 DEF HandleReleasing, paVars
      <4> QED
        BY <4>1
    <3>2. CASE ~paCache[p].since
      <4>1. PICK x : x = [pa[p] EXCEPT !.since = TRUE]
        OBVIOUS
      <4>2. x.phase = pa[p].phase /\ x.pod = pa[p].pod /\ x.ip = pa[p].ip
        BY <1>1, <4>1 DEF PARecords
      <4>3. pa' = [pa EXCEPT ![p] = x] /\ StartLoop(p, "release", Decode(pa[p], x), TRUE)
        BY <1>3, <2>1, <3>2, <4>1 DEF HandleReleasing, WritePA
      <4>4. Decode(pa[p], x).pod = pa[p].pod
        BY <4>2 DEF Decode
      <4> QED
        BY <4>2, <4>3, <4>4
    <3> QED
      BY <3>1, <3>2
  <2> QED
    BY <1>3, <2>1, <2>2, StartLoopLock DEF HandleReleasing
<1>4. CASE ListAndRemove(p)
  <2>1. \/ \E clear : NextSG(p, clear)
        \/ \E status : PatchNext(p, status)
    BY <1>4 DEF ListAndRemove
  <2> QED
    BY <1>4, <2>1, LoopLock DEF ListAndRemove, AtSG, InLoop, At
<1>5. CASE FinishReleasing(p)
  <2>1. worker[p].pc = "release"
    BY <1>5 DEF FinishReleasing, LoopDone, At
  <2>2. CASE Goto(p, Idle)
    BY <1>5, <2>2, IdleLock DEF FinishReleasing
  <2>3. CASE Goto(p, [worker[p] EXCEPT !.pc = "clearPodClaim"])
    <3>1. PICK w : w = [worker[p] EXCEPT !.pc = "clearPodClaim"]
      OBVIOUS
    <3>2. w.pc = "clearPodClaim" /\ w.mem = worker[p].mem /\ w.podOK = FALSE
      BY <1>1, <1>2, <2>1, <3>1 DEF Workers
    <3> QED
      BY <1>5, <2>1, <2>3, <3>1, <3>2, LabelLock DEF FinishReleasing, Closing
  <2> QED
    BY <1>5, <2>2, <2>3 DEF FinishReleasing
<1>6. CASE PatchPodClaimFails(p)
  <2>1. "pool" \in UserEdits
    BY <1>1, <1>6 DEF PatchPodClaimFails, At, Lock
  <2>2. faults' # 0
    BY <1>6 DEF PatchPodClaimFails, Fault, TypeInv
  <2> QED
    BY <2>1, <2>2 DEF Undisturbed
<1>7. CASE RemoveServers(p)
  <2>1. PICK w : w = [worker[p] EXCEPT !.pc = "clearPodClaimAgain"]
    OBVIOUS
  <2>2. Goto(p, w) /\ worker[p].pc = "removeServers" /\ UNCHANGED <<paVars, podVars>>
    BY <1>7, <2>1 DEF RemoveServers, At
  <2>3. w.pc = "clearPodClaimAgain" /\ w.mem = worker[p].mem /\ w.podOK = FALSE
    BY <1>1, <1>2, <2>1, <2>2 DEF Workers
  <2>4. Unclaimed(p)
    BY <1>1, <2>2 DEF Lock, Closing
  <2> QED
    BY <2>2, <2>3, <2>4, LabelLock DEF Closing
<1>8. CASE ClearSpec(p)
  <2>1. CASE ~CurrentPA(p)
    BY <1>8, <2>1, IdleLock DEF ClearSpec
  <2>2. CASE CurrentPA(p)
    <3>1. PICK r, w : /\ r = [pa[p] EXCEPT !.pod = Null, !.ip = Null, !.since = FALSE]
                      /\ w = [worker[p] EXCEPT !.pc = "setAvailable"]
      OBVIOUS
    <3>2. /\ pa' = [pa EXCEPT ![p] = r] /\ worker' = [worker EXCEPT ![p] = w]
          /\ UNCHANGED podVars /\ worker[p].pc = "clearSpec"
      BY <1>8, <2>2, <3>1 DEF ClearSpec, WritePA, Goto, At
    <3>3. r.pod = Null /\ r.phase = pa[p].phase /\ w.pc = "setAvailable" /\ w.podOK = FALSE
      BY <1>1, <1>2, <3>1, <3>2 DEF PARecords, Workers
    <3>4. pa[p].phase = "Releasing" /\ Unclaimed(p)
      BY <1>1, <3>2 DEF Stage, Lock, Closing
    <3>5. Stage(r, w) /\ Lock(p, r, w)
      BY <3>3, <3>4 DEF Stage, Lock, Closing, Unclaimed
    <3>6. \A ip : ~Holds(r, w, ip)
      BY <3>3, <3>4 DEF Holds
    <3> QED
      BY <3>2, <3>5, <3>6, StepLock
  <2> QED
    BY <2>1, <2>2
<1>9. CASE SetAvailable(p)
  <2>1. PICK r : r = [pa[p] EXCEPT !.phase = "Available", !.ss = [i \in SGs |-> ""]]
    OBVIOUS
  <2>2. r.phase = "Available" /\ r.pod = pa[p].pod
    BY <1>1, <2>1, FieldUpdates
  <2>3. /\ pa' = [pa EXCEPT ![p] = r] /\ worker' = [worker EXCEPT ![p] = Idle]
        /\ UNCHANGED podVars /\ worker[p].pc = "setAvailable"
    BY <1>9, <2>1 DEF SetAvailable, WritePA, Goto, At
  <2>4. Idle.pc = "idle" /\ Idle.podOK = FALSE
    BY DEF Idle
  <2>5. Stage(r, Idle) /\ Lock(p, r, Idle)
    BY <1>1, <2>2, <2>3, <2>4 DEF Stage, Lock, Closing
  <2>6. \A ip : ~Holds(r, Idle, ip)
    BY <2>2, <2>4 DEF Holds
  <2> QED
    BY <2>3, <2>5, <2>6, StepLock
<1> QED
  BY <1>3, <1>4, <1>5, <1>6, <1>7, <1>8, <1>9, PodClaimLock

-----------------------------------------------------------------------------
(* The theorems.                                                            *)

\* Faults are never taken back.
LEMMA FaultsStay ==
  ASSUME TypeInv, [Next]_vars
  PROVE  faults' = faults \/ faults' = faults + 1
<1>1. ASSUME NEW p \in PAs, WorkerFails(p) PROVE faults' = faults \/ faults' = faults + 1
  BY <1>1 DEF WorkerFails, Abort, ClaimPodFails, ResumeClaimFails, Throttled,
              PatchPodClaimFails, Fault
<1>2. ASSUME NEW p \in PAs,
             \/ \E d \in Pods : HandleAvailable(p, d)
             \/ ClaimPod(p) \/ RollBack(p) \/ SetBinding(p)
             \/ ResumeConfirmed(p) \/ ResumeClaim(p) \/ ResumeClear(p) \/ SetPodIP(p)
             \/ SkipSG(p) \/ PatchServerStatus(p)
      PROVE  faults' = faults
  BY <1>2 DEF HandleAvailable, ClaimPod, RollBack, SetBinding, ResumeConfirmed, ResumeClaim,
              ResumeClear, SetPodIP, SkipSG, PatchServerStatus
<1>3. ASSUME NEW p \in PAs,
             \/ HandleBinding(p) \/ AbortBinding(p) \/ PollAdding(p) \/ AddServers(p)
             \/ FinishBinding(p)
             \/ HandleBound(p) \/ HandleDisable(p) \/ PollRemoving(p) \/ RemoveServer(p)
             \/ FinishDisable(p) \/ DisabledPodGone(p) \/ ReEnable(p)
      PROVE  faults' = faults
  BY <1>3 DEF HandleBinding, AbortBinding, PollAdding, AddServers, FinishBinding, HandleBound,
              HandleDisable, PollRemoving, RemoveServer, FinishDisable, DisabledPodGone,
              ReEnable, MovePhase, EndLoop
<1>4. ASSUME NEW p \in PAs,
             \/ HandleReleasing(p) \/ ListAndRemove(p) \/ FinishReleasing(p)
             \/ ClearPodClaim(p) \/ RemoveServers(p) \/ ClearPodClaimAgain(p)
             \/ ClearSpec(p) \/ SetAvailable(p)
      PROVE  faults' = faults \/ faults' = faults + 1
  BY <1>4 DEF HandleReleasing, ListAndRemove, FinishReleasing, ClearPodClaim, RemoveServers,
              ClearPodClaimAgain, ClearSpec, SetAvailable, ReadPodClaim, PatchPodClaim, Fault
<1>5. ASSUME NEW p \in PAs, CloudStep(p) \/ CloudFails(p) \/ SyncPA(p)
      PROVE  faults' = faults \/ faults' = faults + 1
  BY <1>5 DEF CloudStep, CloudFails, JobDone, JobFails, Fault, SyncPA
<1>6. ASSUME NEW d \in Pods, PodStep(d) \/ SyncPod(d) PROVE faults' = faults
  BY <1>6 DEF PodStep, PodCreate, PodGetsIP, PodDelete, EditDisabled, EditPool, PodChange,
              SyncPod
<1> QED
  BY <1>1, <1>2, <1>3, <1>4, <1>5, <1>6 DEF Next, WorkerStep, vars

\* Every step.
LEMMA LockStep ==
  ASSUME TypeInv, GrantInv, ReservedInv, Born, LockInv, CurrentCaches, NamesUsedOnce,
         Undisturbed', [Next]_vars
  PROVE  LockInv'
<1>1. ASSUME UNCHANGED <<pa, pod, worker, incarnation>> PROVE LockInv'
  <2>1. Locked'
    BY <1>1 DEF LockInv, Locked, Stage, Lock, Unclaimed, HasClaim, Gone
  <2>2. HolderClaims' /\ OneHolder'
    BY <1>1 DEF LockInv, HolderClaims, OneHolder, Holds, HasClaim
  <2> QED
    BY <2>1, <2>2 DEF LockInv
<1>2. ASSUME NEW p \in PAs, SkipSG(p) \/ Throttled(p) \/ PatchServerStatus(p) PROVE LockInv'
  <2>1. CASE SkipSG(p)
    BY <2>1, LoopLock DEF SkipSG, AtSG, InLoop, At
  <2>2. CASE Throttled(p)
    BY <2>2, LoopLock DEF Throttled, InLoop, At
  <2> QED
    BY <1>2, <2>1, <2>2, PatchStatusLock
<1>3. ASSUME NEW p \in PAs, WorkerStep(p) \/ WorkerFails(p) PROVE LockInv'
  BY <1>2, <1>3, ClaimLock, ResumeLock, BindLock, BoundLock, ReleaseLock
  DEF WorkerStep, WorkerFails
<1>4. ASSUME NEW p \in PAs, CloudStep(p) \/ CloudFails(p) \/ SyncPA(p) PROVE LockInv'
  BY <1>1, <1>4 DEF CloudStep, CloudFails, JobDone, JobFails, SyncPA, paVars, podVars
<1>5. ASSUME NEW d \in Pods, PodStep(d) PROVE LockInv'
  BY <1>5, PodLock
<1>6. ASSUME NEW d \in Pods, SyncPod(d) PROVE LockInv'
  BY <1>1, <1>6 DEF SyncPod, paVars
<1> QED
  BY <1>1, <1>3, <1>4, <1>5, <1>6 DEF Next, vars

\* All that holds of a state.
ClaimInv == TypeInv /\ GrantInv /\ ReservedInv /\ Born /\ (Undisturbed => LockInv)

\* It is inductive: Undisturbed, once lost, is lost for good.
LEMMA ClaimInvariant ==
  ASSUME CurrentCaches, NamesUsedOnce
  PROVE  Spec => []ClaimInv
<1>1. Init => ClaimInv
  BY InitType, InitGrant, InitReserved, InitLock DEF ClaimInv
<1>2. ClaimInv /\ [Next]_vars => ClaimInv'
  <2> SUFFICES ASSUME ClaimInv, [Next]_vars PROVE ClaimInv'
    OBVIOUS
  <2>1. Undisturbed' => Undisturbed
    BY FaultsStay DEF Undisturbed, ClaimInv, TypeInv
  <2> QED
    BY <2>1, TypeStep, GrantStep, ReservedStep, BornStep, LockStep DEF ClaimInv
<1> QED
  BY <1>1, <1>2, PTL DEF Spec

\* Two PAs are not Bound to one Pod.
OneBound ==
    \A p, q \in PAs : p # q /\ pa[p].phase = "Bound" /\ pa[q].phase = "Bound" =>
        pa[p].ip # pa[q].ip

\* PAs that are Bound to one address both hold it.
LEMMA LockedOneBound == ClaimInv /\ Undisturbed => OneBound
<1> SUFFICES ASSUME ClaimInv, Undisturbed, NEW p \in PAs, NEW q \in PAs, p # q,
                    pa[p].phase = "Bound", pa[q].phase = "Bound", pa[p].ip = pa[q].ip
             PROVE  FALSE
  BY DEF OneBound
<1>1. LockInv
  BY DEF ClaimInv
<1>2. pa[p].ip \in IPs
  BY DEF ClaimInv, TypeInv, PAInv, PARecords, ReservedInv, Reserved, Copied, Shaped, Whole, IPs
<1>3. Holds(pa[p], worker[p], pa[p].ip) /\ Holds(pa[q], worker[q], pa[p].ip)
  BY DEF Holds
<1> QED
  BY <1>1, <1>2, <1>3 DEF LockInv, OneHolder

\* The claim is a lock: as long as no write is lost, two PAs are never Bound to one Pod.
THEOREM NeverDoubleBound ==
  ASSUME CurrentCaches, NamesUsedOnce
  PROVE  Spec => []NoDoubleBound
<1>1. ClaimInv => NoDoubleBound
  BY LockedOneBound DEF NoDoubleBound, OneBound, Undisturbed
<1> QED
  BY <1>1, ClaimInvariant, PTL

\* The same whatever crashes, fails or is throttled, if users leave the pool annotation
\* alone; Pod names may then come back as often as they like.
THEOREM NeverDoubleBoundFaults ==
  ASSUME CurrentCaches, "pool" \notin UserEdits
  PROVE  Spec => []OneBound
<1>1. NamesUsedOnce /\ Undisturbed
  BY DEF NamesUsedOnce, Undisturbed
<1>2. ClaimInv => OneBound
  BY <1>1, LockedOneBound
<1>3. Spec => []ClaimInv
  BY <1>1, ClaimInvariant
<1> QED
  BY <1>2, <1>3, PTL

\* What a write of a Pod does to the claims on it, and who clears one.
LEMMA ClaimWrites ==
  ASSUME TypeInv, LockInv, CurrentCaches, [Next]_vars, NEW d \in Pods,
         pod[d] # Null, pod'[d] # Null, pod'[d].claim # pod[d].claim
  PROVE  \/ pod[d].claim = Null
         \/ /\ pod'[d].claim = Null /\ "pool" \in UserEdits
            /\ \E p \in PAs : /\ pod[d].claim = p
                              /\ \A q \in PAs \ {p} : worker'[q] = worker[q]
<1>1. ASSUME NEW p \in PAs, NEW e, NEW w, SetsClaim(p, e, w), pod[e].claim = Null
      PROVE  pod[d].claim = Null
  BY <1>1 DEF SetsClaim, SetClaim, WritePod, TypeInv, PodInv
<1>2. ASSUME NEW p \in PAs, ClaimPod(p) PROVE pod[worker[p].mem.pod].claim = Null
  BY <1>2 DEF ClaimPod, CurrentPod, LockInv, Locked, Lock, TypeInv, WorkerInv, Workers
<1>3. ASSUME NEW p \in PAs, ResumeClaim(p) PROVE pod[paCache[p].pod].claim = Null
  <2>1. CacheReadable(p) /\ paCache[p].pod # Null /\ CachedPod(p).claim = Null
    BY <1>3 DEF ResumeClaim, Resume, Reconcile
  <2> QED
    BY <2>1, ReadsCurrent
<1>4. ASSUME NEW p \in PAs, ClaimPod(p) \/ ResumeClaim(p) PROVE pod[d].claim = Null
  BY <1>1, <1>2, <1>3, <1>4, ClaimSetters
<1>5. ASSUME NEW p \in PAs, PatchPodClaim(p, "patchPodClaim", "removeServers")
      PROVE  /\ pod'[d].claim = Null /\ "pool" \in UserEdits /\ pod[d].claim = p
             /\ \A q \in PAs \ {p} : worker'[q] = worker[q]
  <2>1. PICK e, r, w : /\ e = worker[p].mem.pod
                       /\ r = IF pod[e] = Null THEN Null ELSE [pod[e] EXCEPT !.claim = Null]
                       /\ w = [worker[p] EXCEPT !.pc = "removeServers"]
    OBVIOUS
  <2>2. /\ pod' = [pod EXCEPT ![e] = r]
        /\ worker' = [Overtaken(e, r) EXCEPT ![p] = w]
        /\ worker[p].pc = "patchPodClaim"
    BY <1>5, <2>1 DEF PatchPodClaim, WritePod, At
  <2>3. e = d
    BY <2>2 DEF TypeInv, PodInv
  <2>4. pod'[d] = r /\ r.claim = Null
    BY <2>1, <2>2, <2>3 DEF TypeInv, PodInv, PodRecords
  <2>5. pod[d].claim = p /\ "pool" \in UserEdits
    BY <2>1, <2>2, <2>3 DEF LockInv, Locked, Lock, HasClaim, Gone
  <2>6. ASSUME NEW q \in PAs \ {p} PROVE worker'[q] = worker[q]
    <3>1. worker[q].podOK = TRUE => worker[q].mem.pod # d
      BY <2>5, ConstantsAssumption DEF LockInv, Locked, Lock
    <3>2. worker[q] \in Workers
      BY WorkerSteps
    <3>3. worker[q].podOK = FALSE => worker[q] = [worker[q] EXCEPT !.podOK = FALSE]
      BY <3>2 DEF Workers
    <3>4. worker'[q] = Overtaken(d, r)[q]
      BY <2>2, <2>3
    <3> QED
      BY <3>1, <3>2, <3>3, <3>4 DEF Overtaken, Workers
  <2> QED
    BY <2>4, <2>5, <2>6
<1>6. ASSUME NEW p \in PAs PROVE ~PatchPodClaim(p, "patchPodClaimAgain", "clearSpec")
  BY DEF PatchPodClaim, At, LockInv, Locked, Lock
<1>7. ASSUME NEW e \in Pods PROVE ~PodStep(e)
  <2> SUFFICES ASSUME PodStep(e) PROVE FALSE
    OBVIOUS
  <2>1. PICK r : pod' = [pod EXCEPT ![e] = r]
    BY DEF PodStep, PodCreate, PodGetsIP, PodDelete, EditDisabled, EditPool, PodChange, WritePod
  <2>2. e = d
    BY <2>1 DEF TypeInv, PodInv
  <2>3. pod[d] \in PodRecords
    BY DEF TypeInv, PodInv
  <2>4. pod'[d] \in {[pod[d] EXCEPT !.hasIP = TRUE], [pod[d] EXCEPT !.disabled = ~@],
                     [pod[d] EXCEPT !.inPool = ~@]}
    BY <2>2 DEF PodStep, PodCreate, PodDelete, PodGetsIP, EditDisabled, EditPool, PodChange,
                WritePod, TypeInv, PodInv
  <2> QED
    BY <2>3, <2>4 DEF PodRecords
<1>8. ASSUME NEW p \in PAs, CloudStep(p) \/ CloudFails(p) \/ SyncPA(p) PROVE FALSE
  BY <1>8 DEF CloudStep, CloudFails, JobDone, JobFails, SyncPA, podVars
<1>9. ASSUME NEW e \in Pods, SyncPod(e) PROVE FALSE
  BY <1>9 DEF SyncPod
<1>10. ~UNCHANGED podVars
  BY DEF podVars
<1>11. ASSUME NEW p \in PAs, WorkerStep(p) \/ WorkerFails(p)
       PROVE  \/ ClaimPod(p) \/ ResumeClaim(p)
              \/ PatchPodClaim(p, "patchPodClaim", "removeServers")
  BY <1>6, <1>10, <1>11, PodWriters
<1> QED
  BY <1>4, <1>5, <1>7, <1>8, <1>9, <1>10, <1>11 DEF Next, vars, podVars

\* Where users edit the pool, no write is lost.
WritesKept == "pool" \in UserEdits => MaxFaults = 0

\* Where no write can be lost, the lock invariant holds in every state.
LEMMA AlwaysLocked ==
  ASSUME CurrentCaches, NamesUsedOnce, WritesKept
  PROVE  ClaimInv => TypeInv /\ LockInv
BY ConstantsAssumption DEF ClaimInv, Undisturbed, WritesKept, TypeInv

\* No live claim is overwritten.
THEOREM LiveClaimsKept ==
  ASSUME CurrentCaches, NamesUsedOnce, WritesKept
  PROVE  Spec => LiveClaimKept
<1> DEFINE Kept == \A d \in Pods : \A q \in PAs :
         /\ pod[d] # Null /\ pod'[d] # Null
         /\ pod[d].claim = q /\ pa[q].pod = d
         /\ pa[q].phase \in {"Binding", "Bound"}
         => pod'[d].claim \in {q, Null}
<1>1. ClaimInv /\ [Next]_vars => [Kept]_vars
  <2> SUFFICES ASSUME ClaimInv, [Next]_vars, NEW d \in Pods, NEW q \in PAs,
                      pod[d] # Null, pod'[d] # Null, pod[d].claim = q
               PROVE  pod'[d].claim \in {q, Null}
    OBVIOUS
  <2> QED
    BY ClaimWrites, AlwaysLocked, ConstantsAssumption
<1> QED
  BY <1>1, ClaimInvariant, PTL DEF Spec, LiveClaimKept

\* A worker clears no claim but its own.
THEOREM OnlyOwnClaimCleared ==
  ASSUME CurrentCaches, NamesUsedOnce, WritesKept
  PROVE  Spec => OwnClaimCleared
<1> DEFINE Own == \A d \in Pods : \A p, q \in PAs :
         /\ pod[d] # Null /\ pod[d].claim = q
         /\ pod'[d] # Null /\ pod'[d].claim = Null
         /\ worker'[p] # worker[p]
         => p = q
<1>1. ClaimInv /\ [Next]_vars => [Own]_vars
  <2> SUFFICES ASSUME ClaimInv, [Next]_vars, NEW d \in Pods, NEW p \in PAs, NEW q \in PAs,
                      pod[d] # Null, pod[d].claim = q, pod'[d] # Null, pod'[d].claim = Null,
                      worker'[p] # worker[p]
               PROVE  p = q
    OBVIOUS
  <2> QED
    BY ClaimWrites, AlwaysLocked, ConstantsAssumption
<1> QED
  BY <1>1, ClaimInvariant, PTL DEF Spec, OwnClaimCleared
=============================================================================
