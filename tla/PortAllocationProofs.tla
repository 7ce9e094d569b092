------------------------ MODULE PortAllocationProofs ------------------------
(***************************************************************************)
(* Type correctness of PortAllocation.                                      *)
(*                                                                          *)
(* TypeOK alone is not inductive: a CAS on a Pod writes a record only if    *)
(* the Pod exists, which the worker knows because its copy is current; a    *)
(* loop indexes the statuses of the SGs.  TypeInv adds what the steps rely  *)
(* on: a cache that is current equals the object, and a worker is           *)
(* consistent with what it is about to do.                                  *)
(*                                                                          *)
(* GrantedOnly: an address reaches an SG of a PA only after the Pod with    *)
(* that address has carried the claim on the PA. ReservationComplete: a PA  *)
(* that serves a Pod knows the Pod and an address of it.                    *)
(*                                                                          *)
(* Neither is inductive. handleBinding registers whatever address it reads  *)
(* from the cached PA, so the invariant of the first (GrantInv) says which  *)
(* PAs, cached PAs and workers may hold an address that no claim backs.     *)
(* Every patch makes the version of a worker's copy current again, so the   *)
(* compare-and-swap of a worker with an old copy may succeed: the           *)
(* invariant of the second (ReservedInv) says what may have become of a PA  *)
(* since the version that its cache and its worker hold.                    *)
(***************************************************************************)
EXTENDS PortAllocation, TLAPS

\* The PAs and their cache.
PAInv ==
    /\ pa \in [PAs -> PARecords]
    /\ paCache \in [PAs -> PARecords]
    /\ paSynced \in [PAs -> BOOLEAN]
    /\ \A p \in PAs : paSynced[p] => paCache[p] = pa[p]

\* The Pods and their cache.
PodInv ==
    /\ pod \in [Pods -> PodRecords \cup {Null}]
    /\ podCache \in [Pods -> PodRecords \cup {Null}]
    /\ podSynced \in [Pods -> BOOLEAN]
    /\ \A d \in Pods : podSynced[d] => podCache[d] = pod[d]
    /\ incarnation \in [Pods -> 0..MaxIncarnations]
    /\ granted \in [PAs -> SUBSET IPs]

\* A worker in the middle of a loop is at an SG, one that binds knows an address,
\* one that is about to patch a claim knows the Pod, and one whose copy of the
\* Pod is current is about to claim a Pod that exists.
Consistent(w, pods) ==
    /\ w.to # "none" => w.i \in SGs /\ w.pc \in {"bind", "disable", "release"}
    /\ w.pc = "bind" => w.mem.ip # Null
    /\ w.pc \in {"patchPodClaim", "patchPodClaimAgain"} => w.mem.pod # Null
    /\ w.podOK => w.pc = "claimPod" /\ w.mem.pod # Null /\ pods[w.mem.pod] # Null

WorkerInv ==
    /\ worker \in [PAs -> Workers]
    /\ \A p \in PAs : Consistent(worker[p], pod)

CloudInv ==
    /\ backends \in [PAs -> [SGs -> SUBSET IPs]]
    /\ jobs \in [PAs -> [SGs -> SUBSET Jobs]]

TypeInv == PAInv /\ PodInv /\ WorkerInv /\ CloudInv /\ faults \in 0..MaxFaults

\* The initial values of a worker and of a PA have their types.
LEMMA IdleWorker == Idle \in Workers /\ EmptyPA \in PARecords
  <1>1. EmptyPA \in PARecords
    BY DEF EmptyPA, PARecords, Phases, ServerStatus
  <1> QED
    BY <1>1, ConstantsAssumption DEF Idle, Workers, Labels, ServerStatus

\* The updates of a PA that the writes of the controller consist of.
LEMMA PAUpdates ==
  ASSUME NEW r \in PARecords
  PROVE  /\ \A phase \in Phases : [r EXCEPT !.phase = phase] \in PARecords
         /\ \A ip \in IPs \cup {Null} : [r EXCEPT !.ip = ip] \in PARecords
         /\ \A d \in Pods \cup {Null}, ip \in IPs \cup {Null} :
               [r EXCEPT !.pod = d, !.ip = ip] \in PARecords
         /\ [r EXCEPT !.pod = Null, !.ip = Null, !.since = FALSE] \in PARecords
         /\ [r EXCEPT !.since = TRUE] \in PARecords
         /\ \A i \in SGs, s \in ServerStatus :
               /\ [r EXCEPT !.ss[i] = s] \in PARecords
               /\ [r EXCEPT !.ss[i] = s].ip = r.ip
         /\ \A phase \in Phases, ss \in [SGs -> ServerStatus] :
               [r EXCEPT !.phase = phase, !.ss = ss] \in PARecords
BY DEF PARecords

\* Decoding a response keeps the type, and never loses a known address.
LEMMA DecodeType ==
  ASSUME NEW old \in PARecords, NEW new \in PARecords
  PROVE  /\ Decode(old, new) \in PARecords
         /\ Decode(old, new).ip \in {old.ip, new.ip}
         /\ old.ip # Null => Decode(old, new).ip # Null
BY DEF PARecords, Decode

\* Init.
LEMMA InitType == Init => TypeInv
BY IdleWorker, ConstantsAssumption
DEF Init, TypeInv, PAInv, PodInv, WorkerInv, CloudInv, Consistent, Idle, SGs

\* A write of a PA.
LEMMA WritePAType ==
  ASSUME PAInv, NEW p \in PAs, NEW r \in PARecords, WritePA(p, r), UNCHANGED paCache
  PROVE  PAInv'
BY DEF PAInv, WritePA

\* A write of a Pod.
LEMMA WritePodType ==
  ASSUME PodInv, NEW d \in Pods, NEW r \in PodRecords \cup {Null}, WritePod(d, r),
         UNCHANGED podCache, incarnation' \in [Pods -> 0..MaxIncarnations],
         granted' \in [PAs -> SUBSET IPs]
  PROVE  PodInv'
BY DEF PodInv, WritePod

\* A step of one worker.
LEMMA GotoType ==
  ASSUME WorkerInv, NEW p \in PAs, NEW w \in Workers, Goto(p, w), Consistent(w, pod),
         UNCHANGED pod
  PROVE  WorkerInv'
BY DEF WorkerInv, Goto, Consistent

\* The workers after a write of a Pod: no copy is current unless the Pod exists.
LEMMA OvertakenType ==
  ASSUME WorkerInv, PodInv, NEW d \in Pods, NEW r, pod' = [pod EXCEPT ![d] = r]
  PROVE  /\ Overtaken(d, r) \in [PAs -> Workers]
         /\ \A q \in PAs : Consistent(Overtaken(d, r)[q], pod')
  <1> DEFINE W == Overtaken(d, r)
  <1>1. W \in [PAs -> Workers]
    BY DEF W, Overtaken, WorkerInv, Workers
  <1>2. ASSUME NEW q \in PAs PROVE Consistent(W[q], pod')
    <2>1. worker[q].mem.pod \in Pods \cup {Null}
      BY DEF WorkerInv, Workers, PARecords
    <2>2. CASE worker[q].mem.pod = d /\ r # pod[d]
      BY <2>1, <2>2 DEF W, Overtaken, WorkerInv, Workers, Consistent
    <2>3. CASE ~(worker[q].mem.pod = d /\ r # pod[d])
      BY <2>1, <2>3 DEF W, Overtaken, WorkerInv, PodInv, Workers, Consistent
    <2> QED BY <2>2, <2>3
  <1> QED BY <1>1, <1>2

\* An accepted AddServers call.
LEMMA CloudAddType ==
  ASSUME CloudInv, NEW p \in PAs, NEW i \in SGs, NEW ip \in IPs, CloudAdd(p, i, ip)
  PROVE  CloudInv'
<1>1. <<"add", ip>> \in Jobs
  BY DEF Jobs
<1>2. CASE CloudAsync
  <2>1. /\ jobs' = [jobs EXCEPT ![p][i] = @ \cup {<<"add", ip>>}]
        /\ backends' = backends
    BY <1>2 DEF CloudAdd
  <2> QED BY <1>1, <2>1 DEF CloudInv
<1>3. CASE ~CloudAsync
  <2>1. /\ backends' = [backends EXCEPT ![p][i] = @ \cup {ip}]
        /\ jobs' = jobs
    BY <1>3 DEF CloudAdd
  <2> QED BY <2>1 DEF CloudInv
<1> QED BY <1>2, <1>3

\* An accepted RemoveServers call.
LEMMA CloudRemoveType ==
  ASSUME CloudInv, NEW p \in PAs, NEW gone \in [SGs -> SUBSET IPs], CloudRemove(p, gone)
  PROVE  CloudInv'
<1>1. CASE CloudAsync
  <2>1. /\ jobs' = [jobs EXCEPT ![p] =
                       [i \in SGs |-> jobs[p][i] \cup ({"remove"} \X gone[i])]]
        /\ backends' = backends
    BY <1>1 DEF CloudRemove
  <2>2. \A i \in SGs : jobs[p][i] \cup ({"remove"} \X gone[i]) \in SUBSET Jobs
    BY DEF CloudInv, Jobs
  <2>3. [i \in SGs |-> jobs[p][i] \cup ({"remove"} \X gone[i])] \in [SGs -> SUBSET Jobs]
    BY <2>2
  <2> QED BY <2>1, <2>3 DEF CloudInv
<1>2. CASE ~CloudAsync
  <2>1. /\ backends' = [backends EXCEPT ![p] = [i \in SGs |-> backends[p][i] \ gone[i]]]
        /\ jobs' = jobs
    BY <1>2 DEF CloudRemove
  <2>2. [i \in SGs |-> backends[p][i] \ gone[i]] \in [SGs -> SUBSET IPs]
    BY DEF CloudInv
  <2> QED BY <2>1, <2>2 DEF CloudInv
<1> QED BY <1>1, <1>2

\* Any change of a Pod by its workload or by a user.
LEMMA PodChangeType ==
  ASSUME TypeInv, NEW d \in Pods, NEW r \in PodRecords \cup {Null}, PodChange(d, r),
         incarnation' \in [Pods -> 0..MaxIncarnations]
  PROVE  TypeInv'
<1>1. PodInv'
  BY WritePodType DEF TypeInv, PodChange, PodInv, cacheVars
<1>2. WorkerInv'
  BY OvertakenType DEF TypeInv, PodChange, WritePod, WorkerInv
<1> QED
  BY <1>1, <1>2 DEF TypeInv, PodChange, cacheVars, paVars, cloudVars, PAInv, CloudInv

\* The actions of PodStep.
LEMMA PodStepType ==
  ASSUME TypeInv, NEW d \in Pods, PodStep(d)
  PROVE  TypeInv'
<1> USE DEF TypeInv, PodInv
<1>1. CASE PodCreate(d)
  <2> DEFINE new == [uid |-> incarnation[d] + 1, hasIP |-> FALSE, claim |-> Null,
                     inPool |-> TRUE, disabled |-> FALSE]
  <2>1. incarnation[d] + 1 \in 1..MaxIncarnations
    BY <1>1, ConstantsAssumption DEF PodCreate
  <2>2. new \in PodRecords
    BY <2>1 DEF PodRecords
  <2>3. incarnation' \in [Pods -> 0..MaxIncarnations]
    BY <1>1, <2>1 DEF PodCreate
  <2>4. PodChange(d, new)
    BY <1>1 DEF PodCreate
  <2> HIDE DEF new
  <2> QED
    BY <2>2, <2>3, <2>4, PodChangeType
<1>2. CASE PodDelete(d)
  BY <1>2, PodChangeType DEF PodDelete
<1>3. CASE PodGetsIP(d) \/ EditDisabled(d) \/ EditPool(d)
  <2>1. PICK r \in PodRecords : PodChange(d, r)
    <3>1. pod[d] \in PodRecords
      BY <1>3 DEF PodGetsIP, EditDisabled, EditPool
    <3>2. /\ [pod[d] EXCEPT !.hasIP = TRUE] \in PodRecords
          /\ [pod[d] EXCEPT !.disabled = ~@] \in PodRecords
          /\ [pod[d] EXCEPT !.inPool = ~@] \in PodRecords
      BY <3>1 DEF PodRecords
    <3> QED
      BY <1>3, <3>2 DEF PodGetsIP, EditDisabled, EditPool
  <2>2. incarnation' = incarnation
    BY <1>3 DEF PodGetsIP, EditDisabled, EditPool
  <2> QED
    BY <2>1, <2>2, PodChangeType
<1> QED
  BY <1>1, <1>2, <1>3 DEF PodStep

\* The informers.
LEMMA SyncType ==
  ASSUME TypeInv
  PROVE  /\ \A p \in PAs : SyncPA(p) => TypeInv'
         /\ \A d \in Pods : SyncPod(d) => TypeInv'
<1>1. ASSUME NEW p \in PAs, SyncPA(p) PROVE TypeInv'
  BY <1>1 DEF SyncPA, TypeInv, PAInv, PodInv, WorkerInv, CloudInv, podVars, cloudVars
<1>2. ASSUME NEW d \in Pods, SyncPod(d) PROVE TypeInv'
  BY <1>2 DEF SyncPod, TypeInv, PAInv, PodInv, WorkerInv, CloudInv, paVars, cloudVars
<1> QED BY <1>1, <1>2

\* The jobs of the cloud.
LEMMA CloudType ==
  ASSUME TypeInv, NEW p \in PAs, CloudStep(p) \/ CloudFails(p)
  PROVE  TypeInv'
<1>1. ASSUME NEW i \in SGs, NEW j \in jobs[p][i], JobDone(p, i, j) PROVE TypeInv'
  <2>1. j \in Jobs
    BY DEF TypeInv, CloudInv
  <2>2. j[2] \in IPs
    BY <2>1 DEF Jobs
  <2>3. CloudInv'
    <3>1. jobs' \in [PAs -> [SGs -> SUBSET Jobs]]
      BY <1>1 DEF JobDone, TypeInv, CloudInv
    <3>2. CASE backends' = [backends EXCEPT ![p][i] = @ \cup {j[2]}]
      BY <2>2, <3>1, <3>2 DEF TypeInv, CloudInv
    <3>3. CASE backends' = [backends EXCEPT ![p][i] = @ \ {j[2]}]
      BY <3>1, <3>3 DEF TypeInv, CloudInv
    <3> QED BY <1>1, <3>2, <3>3 DEF JobDone
  <2> QED
    BY <1>1, <2>3 DEF JobDone, TypeInv, PAInv, PodInv, WorkerInv, paVars, cacheVars, podVars
<1>2. ASSUME NEW i \in SGs, NEW j \in jobs[p][i], JobFails(p, i, j) PROVE TypeInv'
  BY <1>2, ConstantsAssumption
  DEF JobFails, Fault, TypeInv, PAInv, PodInv, WorkerInv, CloudInv, paVars, cacheVars, podVars
<1> QED
  BY <1>1, <1>2 DEF CloudStep, CloudFails

\* Handlers that end in one CAS on the phase.
LEMMA MovePhaseType ==
  ASSUME TypeInv, NEW p \in PAs, NEW phase \in Phases, MovePhase(p, phase)
  PROVE  TypeInv'
<1>1. [pa[p] EXCEPT !.phase = phase] \in PARecords
  BY PAUpdates DEF TypeInv, PAInv
<1>2. PAInv'
  BY <1>1, WritePAType DEF MovePhase, TypeInv, cacheVars
<1> QED
  BY <1>2 DEF MovePhase, TypeInv, PodInv, WorkerInv, CloudInv, cacheVars, podVars, cloudVars

\* A step of worker p that leaves the Pods alone.
LEMMA LocalType ==
  ASSUME TypeInv, NEW p \in PAs, NEW w \in Workers, Consistent(w, pod), Goto(p, w),
         PAInv', UNCHANGED <<podVars, podCache>>, CloudInv', faults' \in 0..MaxFaults
  PROVE  TypeInv'
BY GotoType DEF TypeInv, PodInv, podVars

\* The fault counter stays in its bound.
LEMMA FaultType ==
  ASSUME TypeInv, Fault
  PROVE  faults' \in 0..MaxFaults
BY ConstantsAssumption DEF TypeInv, Fault

\* What the invariant says of one worker.
LEMMA WorkerSteps ==
  ASSUME TypeInv, NEW p \in PAs
  PROVE  /\ worker[p] \in Workers
         /\ Consistent(worker[p], pod)
         /\ Idle \in Workers
         /\ Consistent(Idle, pod)
         /\ \A l \in Labels : [worker[p] EXCEPT !.pc = l, !.podOK = FALSE] \in Workers
         /\ \A l \in Labels \ {"bind", "patchPodClaim", "patchPodClaimAgain"} :
               worker[p].to = "none"
               => Consistent([worker[p] EXCEPT !.pc = l, !.podOK = FALSE], pod)
<1>1. worker[p] \in Workers /\ Consistent(worker[p], pod)
  BY DEF TypeInv, WorkerInv
<1>2. Consistent(Idle, pod)
  BY DEF Idle, Consistent
<1>3. \A l \in Labels : [worker[p] EXCEPT !.pc = l, !.podOK = FALSE] \in Workers
  BY <1>1 DEF Workers
<1>4. \A l \in Labels \ {"bind", "patchPodClaim", "patchPodClaimAgain"} :
         worker[p].to = "none"
         => Consistent([worker[p] EXCEPT !.pc = l, !.podOK = FALSE], pod)
  BY <1>1 DEF Workers, Consistent
<1> QED
  BY <1>1, <1>2, <1>3, <1>4, IdleWorker

\* A step that writes no PA but p, moves no worker but the one of p, and calls for no SGs
\* but those of p.
OwnOnly(p) ==
    /\ UNCHANGED cacheVars
    /\ UNCHANGED paVars \/ \E r : WritePA(p, r)
    /\ \/ UNCHANGED worker
       \/ \E w : Goto(p, w)
       \/ \E d, r, w : worker' = [Overtaken(d, r) EXCEPT ![p] = w]
    /\ \/ UNCHANGED cloudVars
       \/ \E i, ip : CloudAdd(p, i, ip)
       \/ \E gone : CloudRemove(p, gone)

\* Every step of a worker is one.
LEMMA OwnWrites ==
  ASSUME NEW p \in PAs, WorkerStep(p) \/ WorkerFails(p)
  PROVE  OwnOnly(p)
<1>1. ASSUME \/ \E d \in Pods : HandleAvailable(p, d)
             \/ ClaimPod(p) \/ ClaimPodFails(p) \/ RollBack(p) \/ SetBinding(p)
             \/ ResumeConfirmed(p) \/ ResumeClaim(p) \/ ResumeClear(p)
             \/ ResumeClaimFails(p) \/ SetPodIP(p)
      PROVE  OwnOnly(p)
  <2>1. CASE ClaimPod(p) \/ ResumeClaim(p)
    <3>1. PICK d, w : SetClaim(p, d, w)
      BY <2>1 DEF ClaimPod, ResumeClaim
    <3>2. PICK r : worker' = [Overtaken(d, r) EXCEPT ![p] = w]
      BY <3>1 DEF SetClaim
    <3> QED
      BY <2>1, <3>2 DEF OwnOnly, ClaimPod, ResumeClaim
  <2>2. CASE \E d \in Pods : HandleAvailable(p, d)
    BY <2>2 DEF OwnOnly, HandleAvailable
  <2>3. CASE ClaimPodFails(p) \/ RollBack(p) \/ SetBinding(p)
    BY <2>3 DEF OwnOnly, ClaimPodFails, RollBack, SetBinding
  <2>4. CASE ResumeConfirmed(p) \/ ResumeClear(p) \/ ResumeClaimFails(p) \/ SetPodIP(p)
    BY <2>4 DEF OwnOnly, ResumeConfirmed, ResumeClear, ResumeClaimFails, SetPodIP
  <2> QED
    BY <1>1, <2>1, <2>2, <2>3, <2>4
<1>2. ASSUME \/ HandleBinding(p) \/ AbortBinding(p) \/ PollAdding(p) \/ AddServers(p)
             \/ FinishBinding(p) \/ HandleBound(p) \/ HandleDisable(p) \/ PollRemoving(p)
             \/ RemoveServer(p) \/ FinishDisable(p) \/ DisabledPodGone(p) \/ ReEnable(p)
      PROVE  OwnOnly(p)
  BY <1>2 DEF OwnOnly, HandleBinding, AbortBinding, PollAdding, AddServers, FinishBinding,
     HandleBound, HandleDisable, PollRemoving, RemoveServer, FinishDisable,
     DisabledPodGone, ReEnable, MovePhase, StartLoop, NextSG, PatchNext, EndLoop,
     paVars, cacheVars
<1>3. ASSUME \/ SkipSG(p) \/ PatchServerStatus(p) \/ Throttled(p) \/ Abort(p)
             \/ HandleReleasing(p) \/ ListAndRemove(p) \/ FinishReleasing(p)
      PROVE  OwnOnly(p)
  BY <1>3 DEF OwnOnly, SkipSG, PatchServerStatus, Throttled, Abort, HandleReleasing,
     ListAndRemove, FinishReleasing, StartLoop, NextSG, PatchNext, paVars, cacheVars
<1>4. ASSUME \/ ClearPodClaim(p) \/ RemoveServers(p) \/ ClearPodClaimAgain(p)
             \/ ClearSpec(p) \/ SetAvailable(p) \/ PatchPodClaimFails(p)
      PROVE  OwnOnly(p)
  BY <1>4 DEF OwnOnly, ClearPodClaim, RemoveServers, ClearPodClaimAgain, ClearSpec,
     SetAvailable, PatchPodClaimFails, ReadPodClaim, PatchPodClaim, paVars, cacheVars
<1> QED
  BY <1>1, <1>2, <1>3, <1>4 DEF WorkerStep, WorkerFails

\* A worker that enters a loop.
LEMMA StartLoopType ==
  ASSUME TypeInv, NEW p \in PAs, NEW label \in {"bind", "disable", "release"},
         NEW copy \in PARecords, label = "bind" => copy.ip # Null, NEW current \in BOOLEAN, StartLoop(p, label, copy, current)
  PROVE  /\ Goto(p, [Idle EXCEPT !.pc = label, !.mem = copy, !.memOK = current])
         /\ [Idle EXCEPT !.pc = label, !.mem = copy, !.memOK = current] \in Workers
         /\ Consistent([Idle EXCEPT !.pc = label, !.mem = copy, !.memOK = current], pod)
BY IdleWorker DEF StartLoop, Idle, Workers, Labels, Consistent

\* A worker that goes on to the next SG.
LEMMA NextSGType ==
  ASSUME TypeInv, NEW p \in PAs, worker[p].i \in SGs, worker[p].to = "none",
         worker[p].pc \in {"bind", "disable", "release"},
         NEW clear \in BOOLEAN, NextSG(p, clear), UNCHANGED pod
  PROVE  WorkerInv'
<1> DEFINE w == [worker[p] EXCEPT !.i = @ + 1, !.clear = @ /\ clear]
<1>1. w \in Workers
  <2>1. ASSUME NEW i \in 1..(NumSG + 1), NEW c \in BOOLEAN
        PROVE  [worker[p] EXCEPT !.i = i, !.clear = c] \in Workers
    BY DEF TypeInv, WorkerInv, Workers
  <2>2. worker[p].i + 1 \in 1..(NumSG + 1)
    BY ConstantsAssumption DEF SGs
  <2>3. (worker[p].clear /\ clear) \in BOOLEAN
    OBVIOUS
  <2> QED
    BY <2>1, <2>2, <2>3
<1>2. Consistent(w, pod)
  BY DEF TypeInv, WorkerInv, Workers, Consistent
<1> QED
  BY <1>1, <1>2, GotoType DEF NextSG, TypeInv

\* A worker that is about to patch a server status.
LEMMA PatchNextType ==
  ASSUME TypeInv, NEW p \in PAs, worker[p].i \in SGs,
         worker[p].pc \in {"bind", "disable", "release"},
         NEW status \in ServerStatus, PatchNext(p, status), UNCHANGED pod
  PROVE  WorkerInv'
<1> DEFINE w == [worker[p] EXCEPT !.to = status]
<1>1. w \in Workers
  BY DEF TypeInv, WorkerInv, Workers
<1>2. Consistent(w, pod)
  BY DEF TypeInv, WorkerInv, Workers, Consistent
<1> QED
  BY <1>1, <1>2, GotoType DEF PatchNext, TypeInv

\* The CAS on the Pod.
LEMMA SetClaimType ==
  ASSUME TypeInv, NEW p \in PAs, NEW d \in Pods, pod[d] # Null, NEW w \in Workers,
         w.to = "none", w.pc = "setBinding" \/ w.pc = "setPodIP" \/ w.pc = "idle", ~w.podOK,
         SetClaim(p, d, w), UNCHANGED <<paVars, cacheVars, incarnation, cloudVars, faults>>
  PROVE  TypeInv'
<1> DEFINE r == [pod[d] EXCEPT !.claim = p]
<1>1. r \in PodRecords
  BY DEF TypeInv, PodInv, PodRecords
<1>2. <<d, pod[d].uid>> \in IPs
  BY DEF TypeInv, PodInv, PodRecords, IPs
<1>3. /\ WritePod(d, r)
      /\ worker' = [Overtaken(d, r) EXCEPT ![p] = w]
      /\ granted' = [granted EXCEPT ![p] = @ \cup {<<d, pod[d].uid>>}]
  BY DEF SetClaim
<1> HIDE DEF r
<1>4. PodInv'
  <2>1. granted' \in [PAs -> SUBSET IPs]
    BY <1>2, <1>3 DEF TypeInv, PodInv
  <2> QED
    BY <1>1, <1>3, <2>1, WritePodType DEF TypeInv, PodInv, cacheVars
<1>5. WorkerInv'
  <2>1. Consistent(w, pod')
    BY DEF Consistent
  <2>2. pod' = [pod EXCEPT ![d] = r]
    BY <1>3 DEF WritePod
  <2>3. /\ Overtaken(d, r) \in [PAs -> Workers]
        /\ \A q \in PAs : Consistent(Overtaken(d, r)[q], pod')
    BY <2>2, OvertakenType DEF TypeInv
  <2> QED
    BY <1>3, <2>1, <2>3 DEF WorkerInv
<1> QED
  BY <1>4, <1>5 DEF TypeInv, PAInv, CloudInv, paVars, cacheVars, cloudVars

\* A step that moves the worker to another label.
LEMMA LabelType ==
  ASSUME TypeInv, NEW p \in PAs, worker[p].to = "none", worker[p].pc # "claimPod",
         NEW l \in Labels \ {"bind"},
         l \in {"patchPodClaim", "patchPodClaimAgain"} => worker[p].mem.pod # Null
  PROVE  /\ [worker[p] EXCEPT !.pc = l] \in Workers
         /\ Consistent([worker[p] EXCEPT !.pc = l], pod)
         /\ [worker[p] EXCEPT !.pc = l].podOK = FALSE
<1>1. worker[p] \in Workers /\ worker[p].podOK = FALSE
  BY WorkerSteps DEF Consistent, Workers
<1> QED
  BY <1>1 DEF Workers, Consistent

\* A worker that resumes a binding.
LEMMA ResumeWithType ==
  ASSUME TypeInv, NEW p \in PAs, NEW ip \in IPs
  PROVE  /\ ResumeWith(p, ip) \in Workers
         /\ Consistent(ResumeWith(p, ip), pod)
         /\ ResumeWith(p, ip).podOK = FALSE
         /\ ResumeWith(p, ip).to = "none"
         /\ ResumeWith(p, ip).pc \in {"setBinding", "setPodIP"}
<1> DEFINE mem == [paCache[p] EXCEPT !.ip = ip]
<1>1. mem \in PARecords /\ paSynced[p] \in BOOLEAN
  BY PAUpdates DEF TypeInv, PAInv
<1> HIDE DEF mem
<1>2. ASSUME NEW l \in {"setBinding", "setPodIP"}
      PROVE  LET w == [Idle EXCEPT !.pc = l, !.mem = mem, !.memOK = paSynced[p]]
             IN  /\ w \in Workers /\ Consistent(w, pod)
                 /\ w.podOK = FALSE /\ w.to = "none" /\ w.pc = l
  BY <1>1, IdleWorker DEF Idle, Workers, Labels, Consistent
<1> QED
  BY <1>2 DEF ResumeWith, mem

\* The actions of availableResumeBind.
LEMMA ResumeType ==
  ASSUME TypeInv, NEW p \in PAs,
         \/ ResumeConfirmed(p) \/ ResumeClaim(p) \/ ResumeClear(p) \/ ResumeClaimFails(p)
         \/ SetPodIP(p)
  PROVE  TypeInv'
<1>1. CASE ResumeConfirmed(p)
  <2>1. paCache[p].pod \in Pods /\ CachedPod(p) \in PodRecords
    BY <1>1 DEF ResumeConfirmed, Resume, CachedPod, TypeInv, PAInv, PodInv, PARecords
  <2>2. <<paCache[p].pod, CachedPod(p).uid>> \in IPs
    BY <2>1 DEF PodRecords, IPs
  <2> QED
    BY <1>1, <2>2, ResumeWithType, LocalType
    DEF ResumeConfirmed, TypeInv, PAInv, CloudInv, paVars, cacheVars, podVars, cloudVars
<1>2. CASE ResumeClaim(p)
  <2> DEFINE d == paCache[p].pod
             w == IF pod[d].hasIP THEN ResumeWith(p, <<d, pod[d].uid>>) ELSE Idle
  <2>1. d \in Pods /\ pod[d] \in PodRecords /\ pod[d] # Null
    BY <1>2 DEF ResumeClaim, Resume, CachedPod, TypeInv, PAInv, PodInv, PARecords
  <2>2. <<d, pod[d].uid>> \in IPs
    BY <2>1 DEF PodRecords, IPs
  <2>3. /\ Idle.pc = "idle" /\ Idle.podOK = FALSE /\ Idle.to = "none"
    BY DEF Idle
  <2>4. /\ w \in Workers /\ w.podOK = FALSE /\ w.to = "none"
        /\ w.pc \in {"setBinding", "setPodIP", "idle"}
    BY <2>2, <2>3, ResumeWithType, IdleWorker
  <2>5. SetClaim(p, d, w)
    BY <1>2 DEF ResumeClaim
  <2> HIDE DEF d, w
  <2> QED
    BY <1>2, <2>1, <2>4, <2>5, SetClaimType DEF ResumeClaim
<1>3. CASE ResumeClear(p) \/ ResumeClaimFails(p)
  <2>1. Unreserved(p) \in PARecords
    BY PAUpdates DEF Unreserved, TypeInv, PAInv
  <2>2. PAInv'
    BY <1>3, <2>1, WritePAType DEF ResumeClear, ResumeClaimFails, TypeInv, cacheVars
  <2>3. faults' \in 0..MaxFaults
    BY <1>3, FaultType DEF ResumeClear, ResumeClaimFails, TypeInv
  <2> QED
    BY <1>3, <2>2, <2>3
    DEF ResumeClear, ResumeClaimFails, TypeInv, PodInv, WorkerInv, CloudInv,
        cacheVars, podVars, cloudVars
<1>4. CASE SetPodIP(p)
  <2>1. worker[p].mem.ip \in IPs \cup {Null}
    BY WorkerSteps DEF Workers, PARecords
  <2>2. [pa[p] EXCEPT !.ip = worker[p].mem.ip] \in PARecords
    BY <2>1, PAUpdates DEF TypeInv, PAInv
  <2>3. PAInv'
    BY <1>4, <2>2, WritePAType DEF SetPodIP, TypeInv, PAInv, paVars, cacheVars
  <2>4. worker[p].to = "none" /\ worker[p].pc # "claimPod"
    BY <1>4, WorkerSteps DEF SetPodIP, At, Consistent
  <2>5. /\ [worker[p] EXCEPT !.pc = "setBinding"] \in Workers
        /\ Consistent([worker[p] EXCEPT !.pc = "setBinding"], pod)
    BY <2>4, LabelType DEF Labels
  <2> QED
    BY <1>4, <2>3, <2>5, WorkerSteps, LocalType
    DEF SetPodIP, TypeInv, cacheVars, podVars, cloudVars, CloudInv
<1> QED
  BY <1>1, <1>2, <1>3, <1>4

\* The actions of handleAvailable, and the abort of a reconcile.
LEMMA ClaimType ==
  ASSUME TypeInv, NEW p \in PAs,
         \/ \E d \in Pods : HandleAvailable(p, d)
         \/ ClaimPod(p) \/ ClaimPodFails(p) \/ RollBack(p) \/ SetBinding(p) \/ Abort(p)
  PROVE  TypeInv'
<1>1. ASSUME NEW d \in Pods, HandleAvailable(p, d) PROVE TypeInv'
  <2> DEFINE r == [pa[p] EXCEPT !.pod = d, !.ip = <<d, podCache[d].uid>>]
             w == [Idle EXCEPT !.pc = "claimPod", !.mem = r, !.memOK = TRUE,
                               !.podOK = podSynced[d]]
  <2>1. podCache[d] \in PodRecords /\ podSynced[d] \in BOOLEAN
    BY <1>1 DEF HandleAvailable, Candidate, TypeInv, PodInv
  <2>2. <<d, podCache[d].uid>> \in IPs
    BY <2>1 DEF PodRecords, IPs
  <2>3. pa[p] \in PARecords
    BY DEF TypeInv, PAInv
  <2>4. r \in PARecords
    BY <2>2, <2>3, PAUpdates
  <2>5. r \in PARecords /\ r.pod = d
    BY <2>3, <2>4 DEF PARecords
  <2>6. podSynced[d] => pod[d] # Null
    BY <1>1 DEF HandleAvailable, Candidate, TypeInv, PodInv
  <2>7. WritePA(p, r) /\ Goto(p, w) /\ UNCHANGED <<cacheVars, podVars, cloudVars, faults>>
    BY <1>1 DEF HandleAvailable
  <2> HIDE DEF r
  <2>8. w \in Workers
    BY <2>1, <2>5, IdleWorker DEF Workers, Idle, Labels
  <2>9. Consistent(w, pod)
    BY <2>5, <2>6, ConstantsAssumption DEF Idle, Consistent
  <2> HIDE DEF w
  <2> QED
    BY <2>5, <2>7, <2>8, <2>9, WritePAType, LocalType
    DEF TypeInv, cacheVars, podVars, cloudVars, CloudInv
<1>2. CASE ClaimPod(p)
  <2> DEFINE w == [worker[p] EXCEPT !.pc = "setBinding", !.podOK = FALSE]
  <2>1. worker[p].mem.pod \in Pods /\ pod[worker[p].mem.pod] # Null
    BY <1>2 DEF ClaimPod, CurrentPod, TypeInv, WorkerInv, Consistent, Workers, PARecords
  <2>2. w \in Workers
    BY WorkerSteps DEF Labels
  <2>3. w.pc = "setBinding" /\ w.podOK = FALSE /\ w.to = worker[p].to
    BY WorkerSteps DEF Workers
  <2>4. w.to = "none"
    BY <1>2, <2>3, WorkerSteps DEF ClaimPod, At, Consistent
  <2>5. SetClaim(p, worker[p].mem.pod, w)
    BY <1>2 DEF ClaimPod
  <2> HIDE DEF w
  <2> QED
    BY <1>2, <2>4, <2>1, <2>2, <2>3, <2>5, SetClaimType DEF ClaimPod
<1>3. CASE ClaimPodFails(p)
  <2> DEFINE w == [worker[p] EXCEPT !.pc = "rollback", !.podOK = FALSE]
  <2>1. worker[p].to = "none"
    BY <1>3, WorkerSteps DEF ClaimPodFails, At, Consistent
  <2>2. w \in Workers /\ Consistent(w, pod)
    BY <2>1, WorkerSteps DEF Labels
  <2> QED
    BY <1>3, <2>2, LocalType, FaultType
    DEF ClaimPodFails, TypeInv, PAInv, CloudInv, paVars, cacheVars, podVars, cloudVars
<1>4. CASE RollBack(p)
  <2>1. Unreserved(p) \in PARecords
    BY PAUpdates DEF Unreserved, TypeInv, PAInv
  <2> QED
    BY <1>4, <2>1, WorkerSteps, WritePAType, LocalType
    DEF RollBack, TypeInv, cacheVars, podVars, cloudVars, CloudInv
<1>5. CASE SetBinding(p)
  <2>1. [pa[p] EXCEPT !.phase = "Binding"] \in PARecords
    BY PAUpdates DEF TypeInv, PAInv, Phases
  <2>2. PAInv'
    BY <1>5, <2>1, WritePAType DEF SetBinding, TypeInv, PAInv, paVars, cacheVars
  <2> QED
    BY <1>5, <2>2, WorkerSteps, LocalType
    DEF SetBinding, TypeInv, cacheVars, podVars, cloudVars, CloudInv
<1>6. CASE Abort(p)
  BY <1>6, WorkerSteps, LocalType, FaultType
  DEF Abort, TypeInv, PAInv, CloudInv, paVars, cacheVars, podVars, cloudVars
<1> QED
  BY <1>1, <1>2, <1>3, <1>4, <1>5, <1>6

\* A worker in a loop is at an SG.
LEMMA InLoopType ==
  ASSUME TypeInv, NEW p \in PAs, NEW label \in {"bind", "disable", "release"},
         InLoop(p, label)
  PROVE  /\ worker[p].i \in SGs
         /\ worker[p].to = "none"
         /\ worker[p].pc = label
BY ConstantsAssumption DEF InLoop, At, SGs, TypeInv, WorkerInv, Workers

\* The argument of CloudRemove in the loops.
LEMMA JustHereType ==
  ASSUME TypeInv, NEW p \in PAs, NEW ips \in SUBSET IPs
  PROVE  JustHere(p, ips) \in [SGs -> SUBSET IPs]
BY DEF JustHere

\* A step that changes the worker, the cloud and the fault counter only.
LEMMA CloudCallType ==
  ASSUME TypeInv, NEW p \in PAs, WorkerInv', CloudInv', faults' \in 0..MaxFaults,
         UNCHANGED <<paVars, cacheVars, podVars>>
  PROVE  TypeInv'
BY DEF TypeInv, PAInv, PodInv, paVars, cacheVars, podVars

\* The steps that the three loops share.
LEMMA LoopType ==
  ASSUME TypeInv, NEW p \in PAs, SkipSG(p) \/ Throttled(p) \/ PatchServerStatus(p)
  PROVE  TypeInv'
<1>1. CASE SkipSG(p)
  <2>1. PICK label \in {"bind", "disable", "release"} : InLoop(p, label)
    BY <1>1 DEF SkipSG, AtSG
  <2>2. WorkerInv'
    BY <1>1, <2>1, InLoopType, NextSGType DEF SkipSG, podVars
  <2> QED
    BY <1>1, <2>2, CloudCallType DEF SkipSG, TypeInv, CloudInv, cloudVars
<1>2. CASE Throttled(p)
  <2>1. PICK label \in {"bind", "disable", "release"} : InLoop(p, label)
    BY <1>2 DEF Throttled
  <2>2. WorkerInv'
    BY <1>2, <2>1, InLoopType, NextSGType DEF Throttled, podVars
  <2> QED
    BY <1>2, <2>2, CloudCallType, FaultType DEF Throttled, TypeInv, CloudInv, cloudVars
<1>3. CASE PatchServerStatus(p)
  <2> DEFINE w == worker[p]
             r == [pa[p] EXCEPT !.ss[w.i] = w.to]
             mem == [Decode(w.mem, r) EXCEPT !.ss[w.i] = w.to]
             clear == w.clear /\ w.to = Goal(w.pc)
             next == [w EXCEPT !.mem = mem, !.memOK = TRUE, !.to = "none", !.i = @ + 1,
                               !.clear = clear]
  <2>1. /\ w \in Workers /\ w.i \in SGs /\ w.to \in ServerStatus
        /\ w.pc \in {"bind", "disable", "release"}
    BY <1>3, WorkerSteps DEF PatchServerStatus, Consistent, Workers
  <2>2. r \in PARecords
    BY <2>1, PAUpdates DEF TypeInv, PAInv
  <2>3. Decode(w.mem, r) \in PARecords
    BY <2>1, <2>2, DecodeType DEF Workers
  <2>4. mem \in PARecords
    BY <2>1, <2>3, PAUpdates
  <2>5. w.i + 1 \in 1..(NumSG + 1) /\ clear \in BOOLEAN
    BY <2>1, ConstantsAssumption DEF SGs
  <2>6. WritePA(p, r) /\ UNCHANGED <<cacheVars, podVars, cloudVars, faults>>
    BY <1>3 DEF PatchServerStatus
  <2>7. Goto(p, next)
    BY <1>3 DEF PatchServerStatus
  <2>8. PAInv'
    BY <2>2, <2>6, WritePAType DEF TypeInv, cacheVars
  <2> HIDE DEF mem, clear, r
  <2>9. next \in Workers
    BY <2>1, <2>4, <2>5 DEF Workers
  <2>10. w.pc = "bind" => mem.ip # Null
    <3>1. w.mem \in PARecords /\ (w.pc = "bind" => w.mem.ip # Null)
      BY <2>1, WorkerSteps DEF Consistent, Workers
    <3>2. mem.ip = Decode(w.mem, r).ip
      BY <2>1, <2>3, PAUpdates DEF mem
    <3> QED
      BY <2>2, <3>1, <3>2, DecodeType
  <2>11. Consistent(next, pod)
    BY <2>1, <2>10, WorkerSteps DEF Consistent, Workers
  <2> HIDE DEF next
  <2> QED
    BY <2>6, <2>7, <2>8, <2>9, <2>11, LocalType
    DEF TypeInv, CloudInv, cacheVars, podVars, cloudVars
<1> QED
  BY <1>1, <1>2, <1>3

\* The end of a loop.
LEMMA EndLoopType ==
  ASSUME TypeInv, NEW p \in PAs, NEW label, NEW phase \in Phases, EndLoop(p, label, phase)
  PROVE  TypeInv'
<1>1. worker[p].mem.ss \in [SGs -> ServerStatus]
  BY WorkerSteps DEF Workers, PARecords
<1>2. [pa[p] EXCEPT !.phase = phase, !.ss = worker[p].mem.ss] \in PARecords
  BY <1>1, PAUpdates DEF TypeInv, PAInv
<1>3. PAInv'
  BY <1>2, WritePAType DEF EndLoop, TypeInv, PAInv, paVars, cacheVars
<1> QED
  BY <1>3, WorkerSteps, LocalType
  DEF EndLoop, TypeInv, CloudInv, cacheVars, podVars, cloudVars

\* The actions of handleBinding.
LEMMA BindType ==
  ASSUME TypeInv, NEW p \in PAs,
         \/ HandleBinding(p) \/ AbortBinding(p) \/ PollAdding(p) \/ AddServers(p)
         \/ FinishBinding(p)
  PROVE  TypeInv'
<1>1. CASE HandleBinding(p)
  <2>1. paCache[p] \in PARecords /\ paSynced[p] \in BOOLEAN
    BY DEF TypeInv, PAInv
  <2> DEFINE w == [Idle EXCEPT !.pc = "bind", !.mem = paCache[p], !.memOK = paSynced[p]]
  <2>2. w \in Workers /\ Consistent(w, pod) /\ Goto(p, w)
    BY <1>1, <2>1, StartLoopType DEF HandleBinding, StillClaimed
  <2> HIDE DEF w
  <2>3. WorkerInv'
    BY <1>1, <2>2, GotoType DEF HandleBinding, TypeInv, podVars
  <2> QED
    BY <1>1, <2>3, CloudCallType DEF HandleBinding, TypeInv, CloudInv, cloudVars
<1>2. CASE AbortBinding(p)
  BY <1>2, MovePhaseType DEF AbortBinding, Phases
<1>3. CASE PollAdding(p)
  <2>1. WorkerInv'
    BY <1>3, InLoopType, PatchNextType DEF PollAdding, AtSG, ServerStatus, podVars
  <2> QED
    BY <1>3, <2>1, CloudCallType DEF PollAdding, TypeInv, CloudInv, cloudVars
<1>4. CASE AddServers(p)
  <2>1. InLoop(p, "bind")
    BY <1>4 DEF AddServers, AtSG
  <2>2. WorkerInv'
    BY <1>4, <2>1, InLoopType, PatchNextType DEF AddServers, ServerStatus, podVars
  <2>3. worker[p].mem.ip \in IPs
    BY <2>1, InLoopType, WorkerSteps DEF Consistent, Workers, PARecords
  <2>4. CloudInv'
    BY <1>4, <2>1, <2>3, InLoopType, CloudAddType
    DEF AddServers, TypeInv, CloudInv, cloudVars
  <2> QED
    BY <1>4, <2>2, <2>4, CloudCallType DEF AddServers, TypeInv
<1>5. CASE FinishBinding(p)
  BY <1>5, EndLoopType DEF FinishBinding, Phases
<1> QED
  BY <1>1, <1>2, <1>3, <1>4, <1>5

\* The actions of handleBound, handleDisable and handleDisabled.
LEMMA BoundType ==
  ASSUME TypeInv, NEW p \in PAs,
         \/ HandleBound(p) \/ HandleDisable(p) \/ PollRemoving(p) \/ RemoveServer(p)
         \/ FinishDisable(p) \/ DisabledPodGone(p) \/ ReEnable(p)
  PROVE  TypeInv'
<1>1. CASE HandleBound(p) \/ DisabledPodGone(p) \/ ReEnable(p)
  BY <1>1, MovePhaseType DEF HandleBound, DisabledPodGone, ReEnable, Phases
<1>2. CASE HandleDisable(p)
  <2>1. paCache[p] \in PARecords /\ paSynced[p] \in BOOLEAN
    BY DEF TypeInv, PAInv
  <2> DEFINE w == [Idle EXCEPT !.pc = "disable", !.mem = paCache[p], !.memOK = paSynced[p]]
  <2>2. w \in Workers /\ Consistent(w, pod) /\ Goto(p, w)
    BY <1>2, <2>1, StartLoopType DEF HandleDisable
  <2> HIDE DEF w
  <2>3. WorkerInv'
    BY <1>2, <2>2, GotoType DEF HandleDisable, TypeInv, podVars
  <2> QED
    BY <1>2, <2>3, CloudCallType DEF HandleDisable, TypeInv, CloudInv, cloudVars
<1>3. CASE PollRemoving(p)
  <2>1. InLoop(p, "disable")
    BY <1>3 DEF PollRemoving, AtSG
  <2>2. WorkerInv'
    BY <1>3, <2>1, InLoopType, PatchNextType, NextSGType DEF PollRemoving, ServerStatus, podVars
  <2> QED
    BY <1>3, <2>2, CloudCallType DEF PollRemoving, TypeInv, CloudInv, cloudVars
<1>4. CASE RemoveServer(p)
  <2>1. InLoop(p, "disable")
    BY <1>4 DEF RemoveServer, AtSG
  <2>2. WorkerInv'
    BY <1>4, <2>1, InLoopType, PatchNextType, WorkerSteps, GotoType
    DEF RemoveServer, ServerStatus, podVars, TypeInv
  <2>3. CASE UNCHANGED cloudVars
    BY <1>4, <2>2, <2>3, CloudCallType DEF RemoveServer, TypeInv, CloudInv, cloudVars
  <2>4. CASE Registered(p) /\ CloudRemove(p, JustHere(p, {worker[p].mem.ip}))
    <3>1. {worker[p].mem.ip} \in SUBSET IPs
      BY <2>1, <2>4, InLoopType DEF Registered, TypeInv, CloudInv
    <3>2. JustHere(p, {worker[p].mem.ip}) \in [SGs -> SUBSET IPs]
      BY <3>1, JustHereType
    <3>3. CloudInv'
      BY <2>4, <3>2, CloudRemoveType DEF TypeInv
    <3> QED
      BY <1>4, <2>2, <3>3, CloudCallType DEF RemoveServer, TypeInv
  <2> QED
    BY <1>4, <2>3, <2>4 DEF RemoveServer
<1>5. CASE FinishDisable(p)
  BY <1>5, EndLoopType DEF FinishDisable, Phases
<1> QED
  BY <1>1, <1>2, <1>3, <1>4, <1>5

\* The two steps of clearPodClaim.
LEMMA PodClaimType ==
  ASSUME TypeInv, NEW p \in PAs,
         NEW label \in {"clearPodClaim", "clearPodClaimAgain"},
         NEW patch \in {"patchPodClaim", "patchPodClaimAgain"},
         NEW next \in {"removeServers", "clearSpec"}
  PROVE  /\ ReadPodClaim(p, label, patch, next) => TypeInv'
         /\ PatchPodClaim(p, patch, next) => TypeInv'
<1>1. ASSUME ReadPodClaim(p, label, patch, next) PROVE TypeInv'
  <2> DEFINE l == IF SeesOwnClaim(p) THEN patch ELSE next
             w == [worker[p] EXCEPT !.pc = l]
  <2>1. worker[p].to = "none" /\ worker[p].pc # "claimPod"
    BY <1>1, WorkerSteps DEF ReadPodClaim, At, Consistent
  <2>2. l \in Labels \ {"bind"}
    BY DEF Labels
  <2>3. l \in {"patchPodClaim", "patchPodClaimAgain"} => worker[p].mem.pod # Null
    BY DEF SeesOwnClaim
  <2>4. Goto(p, w)
    BY <1>1 DEF ReadPodClaim
  <2> HIDE DEF l
  <2>5. w \in Workers /\ Consistent(w, pod)
    BY <2>1, <2>2, <2>3, LabelType
  <2> HIDE DEF w
  <2>6. WorkerInv'
    BY <1>1, <2>4, <2>5, GotoType DEF ReadPodClaim, TypeInv, podVars
  <2> QED
    BY <1>1, <2>6, CloudCallType DEF ReadPodClaim, TypeInv, CloudInv, cloudVars
<1>2. ASSUME PatchPodClaim(p, patch, next) PROVE TypeInv'
  <2> DEFINE d == worker[p].mem.pod
             w == [worker[p] EXCEPT !.pc = next]
             r == IF pod[d] = Null THEN Null ELSE [pod[d] EXCEPT !.claim = Null]
  <2>1. worker[p].to = "none" /\ worker[p].pc # "claimPod" /\ d \in Pods
    BY <1>2, WorkerSteps DEF PatchPodClaim, At, Consistent, Workers, PARecords
  <2>2. r \in PodRecords \cup {Null}
    BY <2>1 DEF TypeInv, PodInv, PodRecords
  <2>3. w \in Workers /\ Consistent(w, pod) /\ w.podOK = FALSE
    BY <2>1, LabelType DEF Labels
  <2>4. /\ WritePod(d, r)
        /\ worker' = [Overtaken(d, r) EXCEPT ![p] = w]
        /\ UNCHANGED <<paVars, cacheVars, incarnation, granted, cloudVars, faults>>
    BY <1>2 DEF PatchPodClaim
  <2> HIDE DEF d, w, r
  <2>5. PodInv'
    BY <2>1, <2>2, <2>4, WritePodType DEF TypeInv, PodInv, cacheVars
  <2>6. WorkerInv'
    <3>1. Consistent(w, pod')
      BY <2>3 DEF Consistent
    <3>2. pod' = [pod EXCEPT ![d] = r]
      BY <2>4 DEF WritePod
    <3>3. /\ Overtaken(d, r) \in [PAs -> Workers]
          /\ \A q \in PAs : Consistent(Overtaken(d, r)[q], pod')
      BY <2>1, <3>2, OvertakenType DEF TypeInv
    <3> QED
      BY <2>3, <2>4, <3>1, <3>3 DEF WorkerInv
  <2> QED
    BY <2>4, <2>5, <2>6 DEF TypeInv, PAInv, CloudInv, paVars, cacheVars, cloudVars
<1> QED
  BY <1>1, <1>2

\* The actions of handleReleasing and resetToAvailable.
LEMMA ReleaseType ==
  ASSUME TypeInv, NEW p \in PAs,
         \/ HandleReleasing(p) \/ ListAndRemove(p) \/ FinishReleasing(p)
         \/ ClearPodClaim(p) \/ PatchPodClaimFails(p) \/ RemoveServers(p)
         \/ ClearPodClaimAgain(p) \/ ClearSpec(p) \/ SetAvailable(p)
  PROVE  TypeInv'
<1>1. CASE HandleReleasing(p)
  <2>1. /\ [pa[p] EXCEPT !.since = TRUE] \in PARecords
        /\ paCache[p] \in PARecords
        /\ paSynced[p] \in BOOLEAN
    BY PAUpdates DEF TypeInv, PAInv
  <2>2. PICK copy \in PARecords, current \in BOOLEAN : StartLoop(p, "release", copy, current)
    BY <1>1, <2>1, DecodeType DEF HandleReleasing
  <2>3. PAInv'
    BY <1>1, <2>1, WritePAType DEF HandleReleasing, TypeInv, PAInv, paVars, cacheVars
  <2> DEFINE w == [Idle EXCEPT !.pc = "release", !.mem = copy, !.memOK = current]
  <2>4. w \in Workers /\ Consistent(w, pod) /\ Goto(p, w)
    BY <2>2, StartLoopType
  <2> HIDE DEF w
  <2> QED
    BY <1>1, <2>3, <2>4, LocalType
    DEF HandleReleasing, TypeInv, CloudInv, cacheVars, podVars, cloudVars
<1>2. CASE ListAndRemove(p)
  <2> DEFINE listed == backends[p][worker[p].i]
  <2>1. InLoop(p, "release")
    BY <1>2 DEF ListAndRemove, AtSG
  <2>2. listed \in SUBSET IPs
    BY <2>1, InLoopType DEF TypeInv, CloudInv
  <2>3. CASE PatchNext(p, "") /\ UNCHANGED <<cloudVars, faults>>
    <3>1. WorkerInv'
      BY <1>2, <2>1, <2>3, InLoopType, PatchNextType DEF ListAndRemove, ServerStatus, podVars
    <3> QED
      BY <1>2, <2>3, <3>1, CloudCallType DEF ListAndRemove, TypeInv, CloudInv, cloudVars
  <2>4. CASE /\ \E missed \in SUBSET listed :
                  /\ IF missed = {} THEN UNCHANGED faults ELSE Fault
                  /\ CloudRemove(p, JustHere(p, listed \ missed))
             /\ NextSG(p, FALSE)
    <3>1. WorkerInv'
      BY <1>2, <2>1, <2>4, InLoopType, NextSGType DEF ListAndRemove, podVars
    <3>2. PICK missed \in SUBSET listed :
             /\ IF missed = {} THEN UNCHANGED faults ELSE Fault
             /\ CloudRemove(p, JustHere(p, listed \ missed))
      BY <2>4
    <3>3. JustHere(p, listed \ missed) \in [SGs -> SUBSET IPs]
      BY <2>2, JustHereType
    <3>4. CloudInv'
      BY <3>2, <3>3, CloudRemoveType DEF TypeInv
    <3> QED
      BY <1>2, <3>1, <3>2, <3>4, FaultType, CloudCallType DEF ListAndRemove, TypeInv
  <2> QED
    BY <1>2, <2>3, <2>4 DEF ListAndRemove
<1>3. CASE FinishReleasing(p)
  <2>1. worker[p].to = "none" /\ worker[p].pc # "claimPod"
    BY <1>3 DEF FinishReleasing, LoopDone, At
  <2>2. WorkerInv'
    BY <1>3, <2>1, LabelType, WorkerSteps, GotoType
    DEF FinishReleasing, Labels, TypeInv, podVars
  <2> QED
    BY <1>3, <2>2, CloudCallType DEF FinishReleasing, TypeInv, CloudInv, cloudVars
<1>4. CASE ClearPodClaim(p)
  BY <1>4, PodClaimType DEF ClearPodClaim
<1>5. CASE PatchPodClaimFails(p)
  <2>1. worker[p].to = "none" /\ worker[p].pc # "claimPod"
    BY <1>5, WorkerSteps DEF PatchPodClaimFails, At, Consistent
  <2>2. PICK l \in {"removeServers", "clearSpec"} : Goto(p, [worker[p] EXCEPT !.pc = l])
    BY <1>5, WorkerSteps DEF PatchPodClaimFails, At, Workers
  <2>3. WorkerInv'
    BY <1>5, <2>1, <2>2, LabelType, GotoType
    DEF PatchPodClaimFails, Labels, TypeInv, podVars
  <2> QED
    BY <1>5, <2>3, FaultType, CloudCallType
    DEF PatchPodClaimFails, TypeInv, CloudInv, cloudVars
<1>6. CASE RemoveServers(p)
  <2> DEFINE ip == worker[p].mem.ip
             present == {i \in SGs : ip \in backends[p][i]}
  <2>1. worker[p].to = "none" /\ worker[p].pc # "claimPod"
    BY <1>6, WorkerSteps DEF RemoveServers, At, Consistent
  <2>2. WorkerInv'
    BY <1>6, <2>1, LabelType, GotoType DEF RemoveServers, Labels, TypeInv, podVars
  <2>3. PICK missed \in SUBSET present :
           /\ IF missed = {} THEN UNCHANGED faults ELSE Fault
           /\ CloudRemove(p, [i \in SGs |-> IF i \in present \ missed THEN {ip} ELSE {}])
    BY <1>6 DEF RemoveServers
  <2>4. [i \in SGs |-> IF i \in present \ missed THEN {ip} ELSE {}] \in [SGs -> SUBSET IPs]
    BY DEF TypeInv, CloudInv
  <2>5. CloudInv'
    BY <2>3, <2>4, CloudRemoveType DEF TypeInv
  <2> QED
    BY <1>6, <2>2, <2>3, <2>5, FaultType, CloudCallType DEF RemoveServers, TypeInv
<1>7. CASE ClearPodClaimAgain(p)
  BY <1>7, PodClaimType DEF ClearPodClaimAgain
<1>8. CASE ClearSpec(p)
  <2>1. worker[p].to = "none" /\ worker[p].pc # "claimPod"
    BY <1>8, WorkerSteps DEF ClearSpec, At, Consistent
  <2>2. [pa[p] EXCEPT !.pod = Null, !.ip = Null, !.since = FALSE] \in PARecords
    BY PAUpdates DEF TypeInv, PAInv
  <2>3. PAInv'
    BY <1>8, <2>2, WritePAType DEF ClearSpec, TypeInv, PAInv, paVars, cacheVars
  <2>4. /\ [worker[p] EXCEPT !.pc = "setAvailable"] \in Workers
        /\ Consistent([worker[p] EXCEPT !.pc = "setAvailable"], pod)
    BY <2>1, LabelType DEF Labels
  <2> QED
    BY <1>8, <2>3, <2>4, WorkerSteps, LocalType
    DEF ClearSpec, TypeInv, CloudInv, cacheVars, podVars, cloudVars
<1>9. CASE SetAvailable(p)
  <2>1. [pa[p] EXCEPT !.phase = "Available", !.ss = [i \in SGs |-> ""]] \in PARecords
    BY PAUpdates DEF TypeInv, PAInv, Phases, ServerStatus
  <2> QED
    BY <1>9, <2>1, WritePAType, WorkerSteps, LocalType
    DEF SetAvailable, TypeInv, CloudInv, cacheVars, podVars, cloudVars
<1> QED
  BY <1>1, <1>2, <1>3, <1>4, <1>5, <1>6, <1>7, <1>8, <1>9

\* Every step.
LEMMA TypeStep == TypeInv /\ [Next]_vars => TypeInv'
<1> SUFFICES ASSUME TypeInv, [Next]_vars PROVE TypeInv'
  OBVIOUS
<1>1. ASSUME NEW p \in PAs, WorkerStep(p) \/ WorkerFails(p) PROVE TypeInv'
  BY <1>1, ClaimType, ResumeType, LoopType, BindType, BoundType, ReleaseType
  DEF WorkerStep, WorkerFails
<1>2. ASSUME NEW p \in PAs, CloudStep(p) \/ CloudFails(p) PROVE TypeInv'
  BY <1>2, CloudType
<1>3. ASSUME NEW p \in PAs, SyncPA(p) PROVE TypeInv'
  BY <1>3, SyncType
<1>4. ASSUME NEW d \in Pods, PodStep(d) PROVE TypeInv'
  BY <1>4, PodStepType
<1>5. ASSUME NEW d \in Pods, SyncPod(d) PROVE TypeInv'
  BY <1>5, SyncType
<1>6. CASE UNCHANGED vars
  BY <1>6 DEF vars, TypeInv, PAInv, PodInv, WorkerInv, CloudInv
<1> QED
  BY <1>1, <1>2, <1>3, <1>4, <1>5, <1>6 DEF Next

\* The inductive invariant.
LEMMA TypeInvariant == Spec => []TypeInv
BY InitType, TypeStep, PTL DEF Spec

\* Every variable keeps its type: no write of a handler, whatever crash or
\* conflict cut it short, stores a half made PA, Pod or worker.
THEOREM TypeCorrect == Spec => []TypeOK
<1>1. Spec => []TypeInv
  BY TypeInvariant
<1>2. TypeInv => TypeOK
  BY DEF TypeInv, PAInv, PodInv, WorkerInv, CloudInv, TypeOK
<1> QED
  BY <1>1, <1>2, PTL

-----------------------------------------------------------------------------
(* GrantedOnly.                                                             *)

\* An address of PA p that some claim backs.
Granted(p, ip) == ip = Null \/ ip \in granted[p]

\* What holds of a PA r, its cached copy c and its worker w.  An address that
\* no claim backs is in a PA only from the first CAS to the second or to the
\* roll back: the PA and its cached copy are Available all that time, so no
\* handler of another phase runs.
Backed(p, r, c, w) ==
    /\ ~Granted(p, r.ip) =>
          /\ r.phase = "Available"
          /\ c.phase = "Available"
          /\ w.pc \in {"idle", "claimPod", "rollback", "setPodIP", "setBinding"}
    /\ c.phase # "Available" => Granted(p, c.ip)
    /\ w.pc \in {"bind", "setPodIP", "setBinding"} => w.mem.ip \in granted[p]
    /\ w.pc = "setBinding" /\ w.memOK => r.ip = w.mem.ip
    /\ w.pc = "claimPod" => r.ip = w.mem.ip
    /\ w.podOK => w.mem.ip = <<w.mem.pod, pod[w.mem.pod].uid>>

\* Every PA.
PAsBacked == \A p \in PAs : Backed(p, pa[p], paCache[p], worker[p])

\* Every claim on a Pod, in the API server or in the cache, was granted.
ClaimsGranted ==
    \A d \in Pods : \A p \in PAs :
        /\ pod[d] # Null /\ pod[d].claim = p => <<d, pod[d].uid>> \in granted[p]
        /\ podCache[d] # Null /\ podCache[d].claim = p
              => <<d, podCache[d].uid>> \in granted[p]

GrantInv == PAsBacked /\ ClaimsGranted /\ GrantedOnly

\* Init.
LEMMA InitGrant == Init => GrantInv
<1> SUFFICES ASSUME Init PROVE GrantInv
  OBVIOUS
<1>1. ASSUME NEW p \in PAs PROVE Backed(p, pa[p], paCache[p], worker[p])
  <2>1. pa[p] = EmptyPA /\ paCache[p] = EmptyPA /\ worker[p] = Idle
    BY DEF Init
  <2>2. EmptyPA.ip = Null /\ EmptyPA.phase = "Available"
    BY DEF EmptyPA
  <2>3. Idle.pc = "idle" /\ Idle.podOK = FALSE
    BY DEF Idle
  <2> QED
    BY <2>1, <2>2, <2>3 DEF Backed, Granted
<1>2. ClaimsGranted
  BY DEF Init, ClaimsGranted
<1>3. GrantedOnly
  BY DEF Init, GrantedOnly
<1> QED
  BY <1>1, <1>2, <1>3 DEF GrantInv, PAsBacked

\* A step of worker p that writes its PA and the cloud, but no Pod.
LEMMA LocalGrant ==
  ASSUME GrantInv, NEW p \in PAs,
         UNCHANGED <<paCache, podVars, podCache>>,
         \A q \in PAs \ {p} : pa'[q] = pa[q] /\ worker'[q] = worker[q],
         Backed(p, pa'[p], paCache[p], worker'[p]),
         GrantedOnly'
  PROVE  GrantInv'
BY DEF GrantInv, PAsBacked, Backed, Granted, ClaimsGranted, podVars

\* A step that leaves the cloud alone; no claim is ever forgotten.
LEMMA SameCloudGrant ==
  ASSUME GrantInv, UNCHANGED cloudVars, \A p \in PAs : granted[p] \subseteq granted'[p]
  PROVE  GrantedOnly'
BY DEF GrantInv, GrantedOnly, cloudVars

\* An accepted AddServers call with an address that was granted.
LEMMA CloudAddGrant ==
  ASSUME TypeInv, GrantInv, NEW p \in PAs, NEW i \in SGs, NEW ip \in granted[p],
         CloudAdd(p, i, ip), UNCHANGED granted
  PROVE  GrantedOnly'
<1>1. CASE CloudAsync
  <2>1. /\ jobs' = [jobs EXCEPT ![p][i] = @ \cup {<<"add", ip>>}]
        /\ backends' = backends
    BY <1>1 DEF CloudAdd
  <2> QED
    BY <2>1 DEF GrantInv, GrantedOnly, TypeInv, CloudInv
<1>2. CASE ~CloudAsync
  <2>1. /\ backends' = [backends EXCEPT ![p][i] = @ \cup {ip}]
        /\ jobs' = jobs
    BY <1>2 DEF CloudAdd
  <2> QED
    BY <2>1 DEF GrantInv, GrantedOnly, TypeInv, CloudInv
<1> QED BY <1>1, <1>2

\* An accepted RemoveServers call with addresses that are registered.
LEMMA CloudRemoveGrant ==
  ASSUME TypeInv, GrantInv, NEW p \in PAs, NEW gone,
         \A i \in SGs : gone[i] \subseteq backends[p][i],
         CloudRemove(p, gone), UNCHANGED granted
  PROVE  GrantedOnly'
<1>1. CASE CloudAsync
  <2>1. /\ jobs' = [jobs EXCEPT ![p] =
                       [i \in SGs |-> jobs[p][i] \cup ({"remove"} \X gone[i])]]
        /\ backends' = backends
    BY <1>1 DEF CloudRemove
  <2> QED
    BY <2>1 DEF GrantInv, GrantedOnly, TypeInv, CloudInv
<1>2. CASE ~CloudAsync
  <2>1. /\ backends' = [backends EXCEPT ![p] = [i \in SGs |-> backends[p][i] \ gone[i]]]
        /\ jobs' = jobs
    BY <1>2 DEF CloudRemove
  <2> QED
    BY <2>1 DEF GrantInv, GrantedOnly, TypeInv, CloudInv
<1> QED BY <1>1, <1>2

\* The jobs of the cloud.
LEMMA CloudGrant ==
  ASSUME TypeInv, GrantInv, NEW p \in PAs, CloudStep(p) \/ CloudFails(p)
  PROVE  GrantInv'
<1>1. ASSUME NEW i \in SGs, NEW j \in jobs[p][i], JobDone(p, i, j) \/ JobFails(p, i, j)
      PROVE  GrantInv'
  <2>1. jobs' = [jobs EXCEPT ![p][i] = @ \ {j}]
    BY <1>1 DEF JobDone, JobFails
  <2>2. j[2] \in granted[p]
    BY DEF GrantInv, GrantedOnly
  <2>3. \A q \in PAs : \A k \in SGs : backends'[q][k] \subseteq granted[q]
    <3>1. CASE backends' = backends
      BY <3>1 DEF GrantInv, GrantedOnly
    <3>2. CASE backends' = [backends EXCEPT ![p][i] = @ \cup {j[2]}]
      BY <2>2, <3>2 DEF GrantInv, GrantedOnly, TypeInv, CloudInv
    <3>3. CASE backends' = [backends EXCEPT ![p][i] = @ \ {j[2]}]
      BY <3>3 DEF GrantInv, GrantedOnly, TypeInv, CloudInv
    <3> QED
      BY <1>1, <3>1, <3>2, <3>3 DEF JobDone, JobFails
  <2>4. UNCHANGED <<paVars, cacheVars, podVars, worker>>
    BY <1>1 DEF JobDone, JobFails
  <2>5. GrantedOnly'
    BY <2>1, <2>3, <2>4 DEF GrantInv, GrantedOnly, TypeInv, CloudInv, podVars
  <2> QED
    BY <2>4, <2>5, LocalGrant DEF GrantInv, PAsBacked, paVars, cacheVars, podVars
<1> QED
  BY <1>1 DEF CloudStep, CloudFails

\* The informers.
LEMMA SyncGrant ==
  ASSUME TypeInv, GrantInv
  PROVE  /\ \A p \in PAs : SyncPA(p) => GrantInv'
         /\ \A d \in Pods : SyncPod(d) => GrantInv'
<1>1. ASSUME NEW p \in PAs, SyncPA(p) PROVE GrantInv'
  <2>1. PAsBacked'
    BY <1>1 DEF SyncPA, GrantInv, PAsBacked, Backed, Granted, podVars, TypeInv, PAInv
  <2> QED
    BY <1>1, <2>1, SameCloudGrant DEF SyncPA, GrantInv, ClaimsGranted, podVars
<1>2. ASSUME NEW d \in Pods, SyncPod(d) PROVE GrantInv'
  <2>1. PAsBacked'
    BY <1>2 DEF SyncPod, GrantInv, PAsBacked, Backed, Granted, paVars
  <2>2. ClaimsGranted'
    BY <1>2 DEF SyncPod, GrantInv, ClaimsGranted, TypeInv, PodInv
  <2> QED
    BY <1>2, <2>1, <2>2, SameCloudGrant DEF SyncPod, GrantInv
<1> QED
  BY <1>1, <1>2

\* A worker after a write of a Pod by someone else.
LEMMA OvertakenBacked ==
  ASSUME TypeInv, GrantInv, NEW d \in Pods, NEW r, NEW q \in PAs,
         pod' = [pod EXCEPT ![d] = r], granted[q] \subseteq granted'[q],
         pa'[q] = pa[q], paCache'[q] = paCache[q], worker'[q] = Overtaken(d, r)[q]
  PROVE  Backed(q, pa[q], paCache[q], worker[q])'
<1>1. Backed(q, pa[q], paCache[q], worker[q])
  BY DEF GrantInv, PAsBacked
<1>2. worker[q] \in Workers /\ Consistent(worker[q], pod)
  BY WorkerSteps
<1>3. CASE worker[q].mem.pod = d /\ r # pod[d]
  <2>1. worker'[q] = [worker[q] EXCEPT !.podOK = FALSE]
    BY <1>3 DEF Overtaken
  <2> QED
    BY <1>1, <1>2, <2>1 DEF Backed, Granted, Workers
<1>4. CASE ~(worker[q].mem.pod = d /\ r # pod[d])
  <2>1. worker'[q] = worker[q]
    BY <1>4 DEF Overtaken
  <2>2. worker[q].podOK => pod'[worker[q].mem.pod] = pod[worker[q].mem.pod]
    BY <1>2, <1>4 DEF Consistent, Workers, PARecords, TypeInv, PodInv
  <2> QED
    BY <1>1, <2>1, <2>2 DEF Backed, Granted
<1> QED
  BY <1>3, <1>4

\* The actions of PodStep: a claim survives only with the same address.
LEMMA PodGrant ==
  ASSUME TypeInv, GrantInv, NEW d \in Pods, PodStep(d)
  PROVE  GrantInv'
<1>1. PICK r : /\ PodChange(d, r)
               /\ r # Null => r.claim = Null \/ (pod[d] # Null /\ r.claim = pod[d].claim
                                                           /\ r.uid = pod[d].uid)
  BY DEF PodStep, PodCreate, PodGetsIP, PodDelete, EditDisabled, EditPool,
         TypeInv, PodInv, PodRecords
<1>2. /\ pod' = [pod EXCEPT ![d] = r]
      /\ worker' = Overtaken(d, r)
      /\ UNCHANGED <<paVars, cacheVars, cloudVars, granted>>
  BY <1>1 DEF PodChange, WritePod
<1>3. PAsBacked'
  BY <1>2, OvertakenBacked DEF PAsBacked, paVars, cacheVars
<1>4. ClaimsGranted'
  BY <1>1, <1>2, ConstantsAssumption DEF GrantInv, ClaimsGranted, cacheVars, TypeInv, PodInv
<1> QED
  BY <1>2, <1>3, <1>4, SameCloudGrant DEF GrantInv

\* What the invariant says of a worker in a handler of another phase.
LEMMA LoopBacked ==
  ASSUME GrantInv, NEW p \in PAs,
         \/ paCache[p].phase # "Available"
         \/ worker[p].pc \notin {"idle", "claimPod", "rollback", "setPodIP", "setBinding"}
  PROVE  Granted(p, pa[p].ip)
BY DEF GrantInv, PAsBacked, Backed

\* The CAS on the Pod grants the address of the Pod.
LEMMA SetClaimGrant ==
  ASSUME TypeInv, GrantInv, NEW p \in PAs, NEW d \in Pods, pod[d] # Null, NEW w,
         SetClaim(p, d, w), UNCHANGED <<paVars, cacheVars, incarnation, cloudVars, faults>>,
         Backed(p, pa[p], paCache[p], w)'
  PROVE  GrantInv'
<1> DEFINE r == [pod[d] EXCEPT !.claim = p]
<1>1. /\ pod' = [pod EXCEPT ![d] = r]
      /\ worker' = [Overtaken(d, r) EXCEPT ![p] = w]
      /\ granted' = [granted EXCEPT ![p] = @ \cup {<<d, pod[d].uid>>}]
  BY DEF SetClaim, WritePod
<1>2. r.claim = p /\ r.uid = pod[d].uid
  BY DEF TypeInv, PodInv, PodRecords
<1>3. \A q \in PAs : granted[q] \subseteq granted'[q]
  BY <1>1 DEF TypeInv, PodInv
<1> HIDE DEF r
<1>4. ASSUME NEW q \in PAs PROVE Backed(q, pa[q], paCache[q], worker[q])'
  <2>1. CASE q = p
    <3>1. worker'[q] = w
      BY <1>1, <2>1 DEF Overtaken
    <3> QED
      BY <2>1, <3>1 DEF paVars, cacheVars
  <2>2. CASE q # p
    <3>1. worker'[q] = Overtaken(d, r)[q]
      BY <1>1, <2>2
    <3> QED
      BY <1>1, <1>3, <3>1, OvertakenBacked DEF paVars, cacheVars
  <2> QED
    BY <2>1, <2>2
<1>5. ClaimsGranted'
  BY <1>1, <1>2, <1>3 DEF GrantInv, ClaimsGranted, cacheVars, TypeInv, PodInv
<1> QED
  BY <1>3, <1>4, <1>5, SameCloudGrant DEF GrantInv, PAsBacked

\* A claim seen in the cache was granted.
LEMMA CachedClaimGranted ==
  ASSUME TypeInv, GrantInv, NEW p \in PAs, CachedPod(p) # Null, CachedPod(p).claim = p
  PROVE  <<paCache[p].pod, CachedPod(p).uid>> \in granted[p]
BY DEF CachedPod, GrantInv, ClaimsGranted, TypeInv, PAInv, PARecords

\* A step of worker p that changes neither a Pod nor the cloud: r and w are
\* what it leaves in the PA and in the worker.
LEMMA StepGrant ==
  ASSUME TypeInv, GrantInv, NEW p \in PAs, NEW r, NEW w,
         pa' = [pa EXCEPT ![p] = r], worker' = [worker EXCEPT ![p] = w],
         UNCHANGED <<cacheVars, podVars, cloudVars>>,
         Backed(p, r, paCache[p], w)
  PROVE  GrantInv'
<1>1. /\ pa'[p] = r
      /\ worker'[p] = w
      /\ \A q \in PAs \ {p} : pa'[q] = pa[q] /\ worker'[q] = worker[q]
  BY DEF TypeInv, PAInv, WorkerInv
<1>2. GrantedOnly'
  BY SameCloudGrant DEF podVars
<1> QED
  BY <1>1, <1>2, LocalGrant DEF cacheVars, podVars

\* Handlers of other phases than Available that end in one CAS on the phase.
LEMMA MovePhaseGrant ==
  ASSUME TypeInv, GrantInv, NEW p \in PAs, NEW phase \in Phases, MovePhase(p, phase),
         At(p, "idle"), paCache[p].phase # "Available"
  PROVE  GrantInv'
<1> DEFINE r == [pa[p] EXCEPT !.phase = phase]
<1>1. r.ip = pa[p].ip
  BY DEF TypeInv, PAInv, PARecords
<1>2. Granted(p, r.ip)
  BY <1>1, LoopBacked
<1>3. pa' = [pa EXCEPT ![p] = r] /\ worker' = [worker EXCEPT ![p] = worker[p]]
  BY DEF MovePhase, WritePA, TypeInv, WorkerInv
<1> HIDE DEF r
<1>4. Backed(p, r, paCache[p], worker[p])
  BY <1>2, WorkerSteps DEF GrantInv, PAsBacked, Backed, At, Consistent
<1> QED
  BY <1>3, <1>4, StepGrant DEF MovePhase

\* An idle worker owes nothing.
LEMMA IdleBacked ==
  ASSUME GrantInv, NEW p \in PAs, NEW r,
         \/ Granted(p, r.ip)
         \/ r.ip = pa[p].ip /\ r.phase = pa[p].phase
  PROVE  Backed(p, r, paCache[p], Idle)
BY DEF GrantInv, PAsBacked, Backed, Idle, Granted

\* The actions of handleAvailable, and the abort of a reconcile.
LEMMA ClaimGrant ==
  ASSUME TypeInv, GrantInv, NEW p \in PAs,
         \/ \E d \in Pods : HandleAvailable(p, d)
         \/ ClaimPod(p) \/ ClaimPodFails(p) \/ RollBack(p) \/ SetBinding(p) \/ Abort(p)
  PROVE  GrantInv'
<1>1. pa = [pa EXCEPT ![p] = pa[p]] /\ pa[p] \in PARecords
  BY DEF TypeInv, PAInv
<1>2. ASSUME NEW d \in Pods, HandleAvailable(p, d) PROVE GrantInv'
  <2> DEFINE r == [pa[p] EXCEPT !.pod = d, !.ip = <<d, podCache[d].uid>>]
             w == [Idle EXCEPT !.pc = "claimPod", !.mem = r, !.memOK = TRUE,
                               !.podOK = podSynced[d]]
  <2>1. /\ r.ip = <<d, podCache[d].uid>> /\ r.pod = d /\ r.phase = pa[p].phase
    BY <1>1 DEF PARecords
  <2>2. paCache[p].phase = "Available" /\ paCache[p] = pa[p]
    BY <1>2 DEF HandleAvailable, Reconcile, TypeInv, PAInv
  <2>3. /\ w.pc = "claimPod" /\ w.mem = r
        /\ w.podOK = podSynced[d]
    BY DEF Idle
  <2>4. w.podOK => podCache[d] = pod[d]
    BY <2>3 DEF TypeInv, PodInv
  <2>5. /\ pa' = [pa EXCEPT ![p] = r] /\ worker' = [worker EXCEPT ![p] = w]
        /\ UNCHANGED <<cacheVars, podVars, cloudVars>>
    BY <1>2 DEF HandleAvailable, WritePA, Goto
  <2> HIDE DEF r, w
  <2>6. Backed(p, r, paCache[p], w)
    BY <2>1, <2>2, <2>3, <2>4 DEF Backed
  <2> QED
    BY <2>5, <2>6, StepGrant
<1>3. CASE ClaimPod(p)
  <2> DEFINE d == worker[p].mem.pod
  <2>1. PICK w : w = [worker[p] EXCEPT !.pc = "setBinding", !.podOK = FALSE]
    OBVIOUS
  <2>2. d \in Pods /\ pod[d] # Null
    BY <1>3, WorkerSteps DEF ClaimPod, CurrentPod, Consistent, Workers, PARecords
  <2>3. w.pc = "setBinding" /\ w.mem = worker[p].mem /\ w.podOK = FALSE
    BY <2>1, WorkerSteps DEF Workers
  <2>4. worker[p].mem.ip = <<d, pod[d].uid>> /\ pa[p].ip = worker[p].mem.ip
    BY <1>3 DEF ClaimPod, CurrentPod, At, GrantInv, PAsBacked, Backed
  <2>5. SetClaim(p, d, w)
    BY <1>3, <2>1 DEF ClaimPod
  <2>6. /\ <<d, pod[d].uid>> \in granted'[p]
        /\ granted[p] \subseteq granted'[p]
    BY <2>5 DEF SetClaim, TypeInv, PodInv
  <2>7. Backed(p, pa[p], paCache[p], w)'
    <3>1. UNCHANGED <<pa, paCache>>
      BY <1>3 DEF ClaimPod, paVars, cacheVars
    <3> QED
      BY <2>3, <2>4, <2>6, <3>1 DEF Backed, Granted, GrantInv, PAsBacked
  <2> QED
    BY <1>3, <2>2, <2>5, <2>7, SetClaimGrant DEF ClaimPod
<1>4. CASE ClaimPodFails(p)
  <2> DEFINE w == [worker[p] EXCEPT !.pc = "rollback", !.podOK = FALSE]
  <2>1. w.pc = "rollback" /\ w.podOK = FALSE
    BY WorkerSteps DEF Workers
  <2>2. Backed(p, pa[p], paCache[p], w)
    BY <1>4, <2>1 DEF ClaimPodFails, At, Backed, GrantInv, PAsBacked
  <2> QED
    BY <1>1, <1>4, <2>2, StepGrant DEF ClaimPodFails, Goto, paVars
<1>5. CASE RollBack(p)
  <2>1. Unreserved(p).ip = Null
    BY <1>1 DEF Unreserved, PARecords
  <2>2. Backed(p, Unreserved(p), paCache[p], Idle)
    BY <2>1, IdleBacked DEF Granted
  <2> QED
    BY <1>5, <2>2, StepGrant DEF RollBack, WritePA, Goto
<1>6. CASE SetBinding(p)
  <2> DEFINE r == [pa[p] EXCEPT !.phase = "Binding"]
  <2>1. CASE CurrentPA(p)
    <3>1. r.ip = pa[p].ip
      BY <1>1 DEF PARecords
    <3>2. Granted(p, r.ip)
      BY <1>6, <2>1, <3>1 DEF SetBinding, CurrentPA, At, GrantInv, PAsBacked, Backed, Granted
    <3>3. Backed(p, r, paCache[p], Idle)
      BY <3>2, IdleBacked
    <3> QED
      BY <1>6, <2>1, <3>3, StepGrant DEF SetBinding, WritePA, Goto
  <2>2. CASE ~CurrentPA(p)
    BY <1>1, <1>6, <2>2, IdleBacked, StepGrant DEF SetBinding, Goto, paVars
  <2> QED
    BY <2>1, <2>2
<1>7. CASE Abort(p)
  BY <1>1, <1>7, IdleBacked, StepGrant DEF Abort, Goto, paVars
<1> QED
  BY <1>2, <1>3, <1>4, <1>5, <1>6, <1>7

\* The actions of availableResumeBind.
LEMMA ResumeGrant ==
  ASSUME TypeInv, GrantInv, NEW p \in PAs,
         \/ ResumeConfirmed(p) \/ ResumeClaim(p) \/ ResumeClear(p) \/ ResumeClaimFails(p)
         \/ SetPodIP(p)
  PROVE  GrantInv'
<1>1. pa = [pa EXCEPT ![p] = pa[p]] /\ pa[p] \in PARecords /\ paCache[p] \in PARecords
  BY DEF TypeInv, PAInv
<1>2. ASSUME NEW ip
      PROVE  LET w == ResumeWith(p, ip)
             IN  /\ w.pc \in {"setBinding", "setPodIP"} /\ w.podOK = FALSE /\ w.mem.ip = ip
                 /\ w.pc = "setBinding" /\ w.memOK => ip = pa[p].ip
  <2>1. [paCache[p] EXCEPT !.ip = ip].ip = ip
    BY <1>1 DEF PARecords
  <2>2. paSynced[p] => paCache[p].ip = pa[p].ip
    BY DEF TypeInv, PAInv
  <2> QED
    BY <2>1, <2>2 DEF ResumeWith, Idle
<1>3. CASE ResumeConfirmed(p)
  <2> DEFINE ip == <<paCache[p].pod, CachedPod(p).uid>>
  <2>1. ip \in granted[p]
    BY <1>3, CachedClaimGranted DEF ResumeConfirmed
  <2> HIDE DEF ip
  <2>2. Backed(p, pa[p], paCache[p], ResumeWith(p, ip))
    BY <1>2, <1>3, <2>1 DEF ResumeConfirmed, Resume, Reconcile, At, GrantInv, PAsBacked, Backed
  <2> QED
    BY <1>1, <1>3, <2>2, StepGrant DEF ResumeConfirmed, Goto, ip, paVars
<1>4. CASE ResumeClaim(p)
  <2> DEFINE d == paCache[p].pod
             ip == <<d, pod[d].uid>>
  <2>1. d \in Pods /\ pod[d] # Null
    BY <1>1, <1>4 DEF ResumeClaim, Resume, CachedPod, TypeInv, PodInv, PARecords
  <2>2. PICK w : w = IF pod[d].hasIP THEN ResumeWith(p, ip) ELSE Idle
    OBVIOUS
  <2>3. SetClaim(p, d, w)
    BY <1>4, <2>2 DEF ResumeClaim
  <2>4. ip \in granted'[p] /\ granted[p] \subseteq granted'[p]
    BY <2>3 DEF SetClaim, TypeInv, PodInv
  <2>5. \/ w = Idle
        \/ /\ w.pc \in {"setBinding", "setPodIP"} /\ w.podOK = FALSE /\ w.mem.ip = ip
           /\ w.pc = "setBinding" /\ w.memOK => ip = pa[p].ip
    BY <1>2, <2>2
  <2> HIDE DEF ip
  <2>6. Backed(p, pa[p], paCache[p], w)'
    <3>1. UNCHANGED <<pa, paCache>>
      BY <1>4 DEF ResumeClaim, paVars, cacheVars
    <3>2. Backed(p, pa[p], paCache[p], worker[p]) /\ worker[p].pc = "idle"
      BY <1>4 DEF GrantInv, PAsBacked, ResumeClaim, Resume, Reconcile, At
    <3> QED
      BY <2>4, <2>5, <3>1, <3>2 DEF Backed, Granted, Idle
  <2> QED
    BY <1>4, <2>1, <2>3, <2>6, SetClaimGrant DEF ResumeClaim
<1>5. CASE ResumeClear(p) \/ ResumeClaimFails(p)
  <2>1. Unreserved(p).ip = Null
    BY <1>1 DEF Unreserved, PARecords
  <2>2. worker[p].pc = "idle" /\ worker[p].podOK = FALSE
    BY <1>5, WorkerSteps
    DEF ResumeClear, ResumeClaimFails, Resume, Reconcile, At, Consistent, Workers
  <2>3. Backed(p, Unreserved(p), paCache[p], worker[p])
    BY <2>1, <2>2 DEF Backed, Granted, GrantInv, PAsBacked
  <2>4. worker' = [worker EXCEPT ![p] = worker[p]]
    BY <1>5 DEF ResumeClear, ResumeClaimFails, TypeInv, WorkerInv
  <2> QED
    BY <1>5, <2>3, <2>4, StepGrant DEF ResumeClear, ResumeClaimFails, WritePA
<1>6. CASE SetPodIP(p)
  <2> DEFINE r == [pa[p] EXCEPT !.ip = worker[p].mem.ip]
             w == [worker[p] EXCEPT !.pc = "setBinding"]
  <2>1. worker[p].mem.ip \in granted[p]
    BY <1>6 DEF SetPodIP, At, GrantInv, PAsBacked, Backed
  <2>2. CASE CurrentPA(p)
    <3>1. r.ip = worker[p].mem.ip /\ w.mem = worker[p].mem /\ w.pc = "setBinding"
          /\ w.podOK = worker[p].podOK
      BY <1>1, WorkerSteps DEF PARecords, Workers
    <3>2. worker[p].podOK = FALSE
      BY <1>6, WorkerSteps DEF SetPodIP, At, Consistent, Workers
    <3>3. Backed(p, r, paCache[p], w)
      BY <2>1, <3>1, <3>2 DEF Backed, Granted, GrantInv, PAsBacked
    <3> QED
      BY <1>6, <2>2, <3>3, StepGrant DEF SetPodIP, WritePA, Goto
  <2>3. CASE ~CurrentPA(p)
    BY <1>1, <1>6, <2>3, IdleBacked, StepGrant DEF SetPodIP, Goto, paVars
  <2> QED
    BY <2>2, <2>3
<1> QED
  BY <1>3, <1>4, <1>5, <1>6

\* The labels past the binding.
Late == Labels \ {"idle", "claimPod", "rollback", "setPodIP", "setBinding"}

\* What the invariant asks of a worker past the binding of its PA.
LateWorker(p, w) ==
    /\ w.pc \in Late
    /\ w.podOK = FALSE
    /\ w.pc = "bind" => w.mem.ip \in granted[p]

\* Such a worker keeps or clears the address of its PA.
LEMMA LateBacked ==
  ASSUME GrantInv, NEW p \in PAs, Granted(p, pa[p].ip), NEW r, r.ip \in {pa[p].ip, Null},
         NEW w, LateWorker(p, w)
  PROVE  Backed(p, r, paCache[p], w)
BY DEF Backed, Granted, GrantInv, PAsBacked, Late, LateWorker

\* What the invariant says of a worker past the binding.
LEMMA LateStart ==
  ASSUME TypeInv, GrantInv, NEW p \in PAs, worker[p].pc \in Late
  PROVE  Granted(p, pa[p].ip) /\ LateWorker(p, worker[p])
BY LoopBacked, WorkerSteps
DEF Late, LateWorker, GrantInv, PAsBacked, Backed, Consistent, Workers

\* A late step that changes the worker and the cloud only.
LEMMA LateGrant ==
  ASSUME TypeInv, GrantInv, NEW p \in PAs, worker[p].pc \in Late,
         NEW w, Goto(p, w), w = Idle \/ LateWorker(p, w),
         GrantedOnly', UNCHANGED <<paVars, cacheVars, podVars>>
  PROVE  GrantInv'
<1>1. Granted(p, pa[p].ip)
  BY LateStart
<1>2. Backed(p, pa[p], paCache[p], w)
  <2>1. CASE w = Idle
    BY <2>1, IdleBacked
  <2>2. CASE LateWorker(p, w)
    BY <1>1, <2>2, LateBacked
  <2> QED
    BY <2>1, <2>2
<1>3. worker' = [worker EXCEPT ![p] = w]
  BY DEF Goto
<1>4. /\ worker'[p] = w
      /\ \A q \in PAs \ {p} : pa'[q] = pa[q] /\ worker'[q] = worker[q]
  BY <1>3 DEF TypeInv, WorkerInv, paVars
<1>5. pa'[p] = pa[p]
  BY DEF paVars
<1> QED
  BY <1>2, <1>4, <1>5, LocalGrant DEF cacheVars

\* The loops keep the label and the copy of the PA.
LEMMA LoopWorker ==
  ASSUME TypeInv, GrantInv, NEW p \in PAs, worker[p].pc \in Late
  PROVE  /\ \A clear : NextSG(p, clear) => \E w : Goto(p, w) /\ LateWorker(p, w)
         /\ \A status : PatchNext(p, status) => \E w : Goto(p, w) /\ LateWorker(p, w)
<1>1. ASSUME NEW clear, NextSG(p, clear)
      PROVE  \E w : Goto(p, w) /\ LateWorker(p, w)
  <2> DEFINE w == [worker[p] EXCEPT !.i = @ + 1, !.clear = @ /\ clear]
  <2>1. Goto(p, w)
    BY <1>1 DEF NextSG
  <2>2. w.pc = worker[p].pc /\ w.podOK = worker[p].podOK /\ w.mem = worker[p].mem
    BY WorkerSteps DEF Workers
  <2> HIDE DEF w
  <2> QED
    BY LateStart, <2>1, <2>2 DEF LateWorker
<1>2. ASSUME NEW status, PatchNext(p, status)
      PROVE  \E w : Goto(p, w) /\ LateWorker(p, w)
  <2> DEFINE w == [worker[p] EXCEPT !.to = status]
  <2>1. Goto(p, w)
    BY <1>2 DEF PatchNext
  <2>2. w.pc = worker[p].pc /\ w.podOK = worker[p].podOK /\ w.mem = worker[p].mem
    BY WorkerSteps DEF Workers
  <2> HIDE DEF w
  <2> QED
    BY LateStart, <2>1, <2>2 DEF LateWorker
<1> QED
  BY <1>1, <1>2

\* A step of one of the three loops over the SGs.
LEMMA LoopStepGrant ==
  ASSUME TypeInv, GrantInv, NEW p \in PAs, worker[p].pc \in {"bind", "disable", "release"},
         \/ \E clear : NextSG(p, clear)
         \/ \E status : PatchNext(p, status)
         \/ Goto(p, Idle),
         GrantedOnly', UNCHANGED <<paVars, cacheVars, podVars>>
  PROVE  GrantInv'
<1>1. worker[p].pc \in Late
  BY DEF Late, Labels
<1>2. PICK w : Goto(p, w) /\ (w = Idle \/ LateWorker(p, w))
  BY <1>1, LoopWorker
<1> QED
  BY <1>1, <1>2, LateGrant

\* The steps that the three loops share.
LEMMA LoopGrant ==
  ASSUME TypeInv, GrantInv, NEW p \in PAs, SkipSG(p) \/ Throttled(p) \/ PatchServerStatus(p)
  PROVE  GrantInv'
<1>1. CASE SkipSG(p) \/ Throttled(p)
  <2>1. GrantedOnly'
    BY <1>1, SameCloudGrant DEF SkipSG, Throttled, podVars
  <2> QED
    BY <1>1, <2>1, LoopStepGrant DEF SkipSG, Throttled, AtSG, InLoop, At
<1>2. CASE PatchServerStatus(p)
  <2> DEFINE r == [pa[p] EXCEPT !.ss[worker[p].i] = worker[p].to]
             mem == [Decode(worker[p].mem, r) EXCEPT !.ss[worker[p].i] = worker[p].to]
             clear == worker[p].clear /\ worker[p].to = Goal(worker[p].pc)
             w == [worker[p] EXCEPT !.mem = mem, !.memOK = TRUE, !.to = "none", !.i = @ + 1,
                                    !.clear = clear]
  <2>1. /\ worker[p] \in Workers /\ worker[p].mem \in PARecords
        /\ worker[p].pc \in {"bind", "disable", "release"}
        /\ worker[p].i \in SGs /\ worker[p].to \in ServerStatus
    BY <1>2, WorkerSteps DEF PatchServerStatus, Consistent, Workers
  <2>2. pa[p] \in PARecords
    BY DEF TypeInv, PAInv
  <2>3. r \in PARecords /\ r.ip = pa[p].ip
    BY <2>1, <2>2, PAUpdates
  <2>4. Decode(worker[p].mem, r) \in PARecords
    BY <2>1, <2>3, DecodeType
  <2>5. mem.ip = Decode(worker[p].mem, r).ip
    BY <2>1, <2>4, PAUpdates
  <2> HIDE DEF mem, r, clear
  <2>6. w.pc = worker[p].pc /\ w.podOK = worker[p].podOK /\ w.mem = mem
    BY <2>1 DEF Workers
  <2>7. worker[p].pc \in Late
    BY <2>1 DEF Late, Labels
  <2>8. w.pc = "bind" => w.mem.ip \in granted[p]
    <3>1. worker[p].pc = "bind" => worker[p].mem.ip \in granted[p] /\ worker[p].mem.ip # Null
      BY <2>7, LateStart, WorkerSteps DEF Consistent, LateWorker
    <3>2. pa[p].ip = Null \/ pa[p].ip \in granted[p]
      BY <2>7, LateStart DEF Granted
    <3> QED
      BY <2>1, <2>3, <2>5, <2>6, <3>1, <3>2, DecodeType
  <2>9. /\ pa' = [pa EXCEPT ![p] = r] /\ worker' = [worker EXCEPT ![p] = w]
        /\ UNCHANGED <<cacheVars, podVars, cloudVars>>
    BY <1>2 DEF PatchServerStatus, WritePA, Goto, r, mem, clear
  <2> HIDE DEF w
  <2>10. LateWorker(p, w)
    BY <2>6, <2>7, <2>8, LateStart DEF LateWorker
  <2>11. Backed(p, r, paCache[p], w)
    BY <2>3, <2>7, <2>10, LateStart, LateBacked
  <2> QED
    BY <2>9, <2>11, StepGrant
<1> QED
  BY <1>1, <1>2

\* A worker that enters a loop.
LEMMA StartLoopGrant ==
  ASSUME TypeInv, GrantInv, NEW p \in PAs, paCache[p].phase # "Available",
         NEW label \in {"bind", "disable", "release"}, NEW copy, NEW current,
         label = "bind" => copy.ip \in granted[p],
         StartLoop(p, label, copy, current),
         NEW r, r.ip = pa[p].ip, pa' = [pa EXCEPT ![p] = r],
         UNCHANGED <<cacheVars, podVars, cloudVars>>
  PROVE  GrantInv'
<1> DEFINE w == [Idle EXCEPT !.pc = label, !.mem = copy, !.memOK = current]
<1>1. w.pc = label /\ w.podOK = FALSE /\ w.mem = copy
  BY DEF Idle
<1>2. worker' = [worker EXCEPT ![p] = w]
  BY DEF StartLoop, Goto
<1> HIDE DEF w
<1>3. LateWorker(p, w)
  BY <1>1 DEF LateWorker, Late, Labels
<1>4. Backed(p, r, paCache[p], w)
  BY <1>3, LoopBacked, LateBacked
<1> QED
  BY <1>2, <1>4, StepGrant

\* The end of a loop.
LEMMA EndLoopGrant ==
  ASSUME TypeInv, GrantInv, NEW p \in PAs, NEW label \in {"bind", "disable", "release"},
         NEW phase \in Phases, EndLoop(p, label, phase)
  PROVE  GrantInv'
<1> DEFINE r == [pa[p] EXCEPT !.phase = phase, !.ss = worker[p].mem.ss]
<1>1. Granted(p, pa[p].ip)
  BY LoopBacked DEF EndLoop, LoopDone, At
<1>2. r.ip = pa[p].ip
  BY DEF TypeInv, PAInv, PARecords
<1> HIDE DEF r
<1>3. PICK x : pa' = [pa EXCEPT ![p] = x] /\ x.ip = pa[p].ip
  <2>1. CASE pa' = [pa EXCEPT ![p] = r]
    BY <1>2, <2>1
  <2>2. CASE pa' = pa
    BY <2>2 DEF TypeInv, PAInv
  <2> QED
    BY <2>1, <2>2 DEF EndLoop, WritePA, paVars, r
<1>4. Backed(p, x, paCache[p], Idle)
  BY <1>1, <1>3, IdleBacked
<1> QED
  BY <1>3, <1>4, StepGrant DEF EndLoop, Goto

\* The actions of handleBinding.
LEMMA BindGrant ==
  ASSUME TypeInv, GrantInv, NEW p \in PAs,
         \/ HandleBinding(p) \/ AbortBinding(p) \/ PollAdding(p) \/ AddServers(p)
         \/ FinishBinding(p)
  PROVE  GrantInv'
<1>1. CASE HandleBinding(p)
  <2>1. paCache[p].phase = "Binding" /\ paCache[p].ip # Null
    BY <1>1 DEF HandleBinding, Reconcile, StillClaimed
  <2>2. paCache[p].ip \in granted[p]
    BY <2>1 DEF GrantInv, PAsBacked, Backed, Granted
  <2>3. pa' = [pa EXCEPT ![p] = pa[p]]
    BY <1>1 DEF HandleBinding, paVars, TypeInv, PAInv
  <2> QED
    BY <1>1, <2>1, <2>2, <2>3, StartLoopGrant DEF HandleBinding
<1>2. CASE AbortBinding(p)
  BY <1>2, MovePhaseGrant DEF AbortBinding, Reconcile, Phases
<1>3. CASE PollAdding(p)
  <2>1. GrantedOnly'
    BY <1>3, SameCloudGrant DEF PollAdding, podVars
  <2> QED
    BY <1>3, <2>1, LoopStepGrant DEF PollAdding, AtSG, InLoop, At
<1>4. CASE AddServers(p)
  <2>1. worker[p].pc = "bind" /\ worker[p].i \in SGs
    BY <1>4, InLoopType DEF AddServers, AtSG
  <2>2. worker[p].mem.ip \in granted[p]
    BY <2>1, LateStart DEF LateWorker, Late, Labels
  <2>3. UNCHANGED granted
    BY <1>4 DEF AddServers, podVars
  <2>4. GrantedOnly'
    BY <1>4, <2>1, <2>2, <2>3, SameCloudGrant, CloudAddGrant DEF AddServers
  <2> QED
    BY <1>4, <2>1, <2>4, LoopStepGrant DEF AddServers
<1>5. CASE FinishBinding(p)
  BY <1>5, EndLoopGrant DEF FinishBinding, Phases
<1> QED
  BY <1>1, <1>2, <1>3, <1>4, <1>5

\* The actions of handleBound, handleDisable and handleDisabled.
LEMMA BoundGrant ==
  ASSUME TypeInv, GrantInv, NEW p \in PAs,
         \/ HandleBound(p) \/ HandleDisable(p) \/ PollRemoving(p) \/ RemoveServer(p)
         \/ FinishDisable(p) \/ DisabledPodGone(p) \/ ReEnable(p)
  PROVE  GrantInv'
<1>1. CASE HandleBound(p) \/ DisabledPodGone(p) \/ ReEnable(p)
  BY <1>1, MovePhaseGrant DEF HandleBound, DisabledPodGone, ReEnable, Reconcile, Phases
<1>2. CASE HandleDisable(p)
  <2>1. paCache[p].phase = "Bound"
    BY <1>2 DEF HandleDisable, Reconcile
  <2>2. pa' = [pa EXCEPT ![p] = pa[p]]
    BY <1>2 DEF HandleDisable, paVars, TypeInv, PAInv
  <2> QED
    BY <1>2, <2>1, <2>2, StartLoopGrant DEF HandleDisable
<1>3. CASE PollRemoving(p)
  <2>1. GrantedOnly'
    BY <1>3, SameCloudGrant DEF PollRemoving, podVars
  <2> QED
    BY <1>3, <2>1, LoopStepGrant DEF PollRemoving, AtSG, InLoop, At
<1>4. CASE RemoveServer(p)
  <2>1. worker[p].pc = "disable" /\ worker[p].i \in SGs
    BY <1>4, InLoopType DEF RemoveServer, AtSG
  <2>2. UNCHANGED granted
    BY <1>4 DEF RemoveServer, podVars
  <2>3. GrantedOnly'
    <3>1. CASE UNCHANGED cloudVars
      BY <2>2, <3>1, SameCloudGrant
    <3>2. CASE Registered(p) /\ CloudRemove(p, JustHere(p, {worker[p].mem.ip}))
      <4>1. \A i \in SGs : JustHere(p, {worker[p].mem.ip})[i] \subseteq backends[p][i]
        BY <3>2 DEF JustHere, Registered
      <4> QED
        BY <2>2, <3>2, <4>1, CloudRemoveGrant
    <3> QED
      BY <1>4, <3>1, <3>2 DEF RemoveServer
  <2> QED
    BY <1>4, <2>1, <2>3, LoopStepGrant DEF RemoveServer
<1>5. CASE FinishDisable(p)
  BY <1>5, EndLoopGrant DEF FinishDisable, Phases
<1> QED
  BY <1>1, <1>2, <1>3, <1>4, <1>5

\* A step of worker p from one late label to another.
LEMMA LabelGrant ==
  ASSUME TypeInv, GrantInv, NEW p \in PAs, worker[p].pc \in Late,
         NEW l \in Late \ {"bind"}, Goto(p, [worker[p] EXCEPT !.pc = l]),
         GrantedOnly', UNCHANGED <<paVars, cacheVars, podVars>>
  PROVE  GrantInv'
<1> DEFINE w == [worker[p] EXCEPT !.pc = l]
<1>1. w.pc = l /\ w.podOK = worker[p].podOK
  BY WorkerSteps DEF Workers
<1> HIDE DEF w
<1>2. LateWorker(p, w)
  BY <1>1, LateStart DEF LateWorker
<1> QED
  BY <1>2, LateGrant DEF w

\* The two steps of clearPodClaim.
LEMMA PodClaimGrant ==
  ASSUME TypeInv, GrantInv, NEW p \in PAs,
         NEW label \in {"clearPodClaim", "clearPodClaimAgain"},
         NEW patch \in {"patchPodClaim", "patchPodClaimAgain"},
         NEW next \in {"removeServers", "clearSpec"}
  PROVE  /\ ReadPodClaim(p, label, patch, next) => GrantInv'
         /\ PatchPodClaim(p, patch, next) => GrantInv'
<1>1. ASSUME ReadPodClaim(p, label, patch, next) PROVE GrantInv'
  <2>1. worker[p].pc \in Late
    BY <1>1 DEF ReadPodClaim, At, Late, Labels
  <2>2. PICK l \in Late \ {"bind"} : Goto(p, [worker[p] EXCEPT !.pc = l])
    BY <1>1 DEF ReadPodClaim, Late, Labels
  <2>3. GrantedOnly'
    BY <1>1, SameCloudGrant DEF ReadPodClaim, podVars
  <2> QED
    BY <1>1, <2>1, <2>2, <2>3, LabelGrant DEF ReadPodClaim
<1>2. ASSUME PatchPodClaim(p, patch, next) PROVE GrantInv'
  <2> DEFINE d == worker[p].mem.pod
  <2>1. PICK w, r : /\ w = [worker[p] EXCEPT !.pc = next]
                    /\ r = IF pod[d] = Null THEN Null ELSE [pod[d] EXCEPT !.claim = Null]
    OBVIOUS
  <2>2. worker[p].pc \in {"patchPodClaim", "patchPodClaimAgain"}
    BY <1>2 DEF PatchPodClaim, At
  <2>3. d \in Pods
    BY <2>2, WorkerSteps DEF Consistent, Workers, PARecords
  <2>4. worker[p].pc \in Late /\ d \in Pods
    BY <2>2, <2>3 DEF Late, Labels
  <2>5. /\ pod' = [pod EXCEPT ![d] = r]
        /\ worker' = [Overtaken(d, r) EXCEPT ![p] = w]
        /\ UNCHANGED <<paVars, cacheVars, incarnation, granted, cloudVars, faults>>
    BY <1>2, <2>1 DEF PatchPodClaim, WritePod
  <2>6. LateWorker(p, w)
    <3>1. w.pc = next /\ w.podOK = worker[p].podOK
      BY <2>1, WorkerSteps DEF Workers
    <3> QED
      BY <2>4, <3>1, LateStart DEF LateWorker, Late, Labels
  <2>7. r # Null => pod[d] # Null /\ r.claim = Null
    BY <2>1, <2>4 DEF TypeInv, PodInv, PodRecords
  <2> HIDE DEF d
  <2>8. ASSUME NEW q \in PAs PROVE Backed(q, pa[q], paCache[q], worker[q])'
    <3>1. CASE q = p
      <4>1. worker'[q] = w
        BY <2>5, <3>1 DEF Overtaken
      <4>2. UNCHANGED <<pa, paCache, granted>>
        BY <2>5 DEF paVars, cacheVars
      <4>3. Granted(p, pa[p].ip)
        BY <2>4, LateStart
      <4> QED
        BY <2>6, <3>1, <4>1, <4>2, <4>3
        DEF Backed, Granted, GrantInv, PAsBacked, LateWorker, Late
    <3>2. CASE q # p
      <4>1. worker'[q] = Overtaken(d, r)[q]
        BY <2>5, <3>2
      <4> QED
        BY <2>4, <2>5, <4>1, OvertakenBacked DEF paVars, cacheVars
    <3> QED
      BY <3>1, <3>2
  <2>9. ClaimsGranted'
    BY <2>4, <2>5, <2>7, ConstantsAssumption
    DEF GrantInv, ClaimsGranted, cacheVars, TypeInv, PodInv
  <2> QED
    BY <2>5, <2>8, <2>9, SameCloudGrant DEF GrantInv, PAsBacked
<1> QED
  BY <1>1, <1>2

\* The actions of handleReleasing and resetToAvailable.
LEMMA ReleaseGrant ==
  ASSUME TypeInv, GrantInv, NEW p \in PAs,
         \/ HandleReleasing(p) \/ ListAndRemove(p) \/ FinishReleasing(p)
         \/ ClearPodClaim(p) \/ PatchPodClaimFails(p) \/ RemoveServers(p)
         \/ ClearPodClaimAgain(p) \/ ClearSpec(p) \/ SetAvailable(p)
  PROVE  GrantInv'
<1>1. pa = [pa EXCEPT ![p] = pa[p]] /\ pa[p] \in PARecords
  BY DEF TypeInv, PAInv
<1>2. CASE HandleReleasing(p)
  <2> DEFINE since == [pa[p] EXCEPT !.since = TRUE]
  <2>1. since.ip = pa[p].ip
    BY <1>1 DEF PARecords
  <2>2. PICK r : pa' = [pa EXCEPT ![p] = r] /\ r.ip = pa[p].ip
    BY <1>1, <1>2, <2>1 DEF HandleReleasing, WritePA, paVars
  <2>3. PICK copy, current : StartLoop(p, "release", copy, current)
    BY <1>2 DEF HandleReleasing
  <2>4. paCache[p].phase # "Available" /\ UNCHANGED <<cacheVars, podVars, cloudVars>>
    BY <1>2 DEF HandleReleasing, Reconcile
  <2> QED
    BY <2>2, <2>3, <2>4, StartLoopGrant
<1>3. CASE ListAndRemove(p)
  <2> DEFINE listed == backends[p][worker[p].i]
  <2>1. worker[p].pc = "release"
    BY <1>3 DEF ListAndRemove, AtSG, InLoop, At
  <2>2. UNCHANGED granted
    BY <1>3 DEF ListAndRemove, podVars
  <2>3. GrantedOnly'
    <3>1. CASE UNCHANGED cloudVars
      BY <2>2, <3>1, SameCloudGrant
    <3>2. ASSUME NEW missed, CloudRemove(p, JustHere(p, listed \ missed)) PROVE GrantedOnly'
      <4>1. \A i \in SGs : JustHere(p, listed \ missed)[i] \subseteq backends[p][i]
        BY DEF JustHere
      <4> QED
        BY <2>2, <3>2, <4>1, CloudRemoveGrant
    <3> QED
      BY <1>3, <3>1, <3>2 DEF ListAndRemove
  <2> QED
    BY <1>3, <2>1, <2>3, LoopStepGrant DEF ListAndRemove
<1>4. CASE FinishReleasing(p)
  <2>1. worker[p].pc \in Late
    BY <1>4 DEF FinishReleasing, LoopDone, At, Late, Labels
  <2>2. GrantedOnly'
    BY <1>4, SameCloudGrant DEF FinishReleasing, podVars
  <2>3. Goto(p, [worker[p] EXCEPT !.pc = "clearPodClaim"]) \/ Goto(p, Idle)
    BY <1>4 DEF FinishReleasing
  <2>4. "clearPodClaim" \in Late \ {"bind"}
    BY DEF Late, Labels
  <2> QED
    BY <1>4, <2>1, <2>2, <2>3, <2>4, LabelGrant, LateGrant DEF FinishReleasing
<1>5. CASE ClearPodClaim(p)
  BY <1>5, PodClaimGrant DEF ClearPodClaim
<1>6. CASE PatchPodClaimFails(p)
  <2>1. worker[p].pc \in Late
    BY <1>6 DEF PatchPodClaimFails, At, Late, Labels
  <2>2. PICK l \in {"removeServers", "clearSpec"} : Goto(p, [worker[p] EXCEPT !.pc = l])
    BY <1>6, WorkerSteps DEF PatchPodClaimFails, At, Workers
  <2>3. GrantedOnly'
    BY <1>6, SameCloudGrant DEF PatchPodClaimFails, podVars
  <2> QED
    BY <1>6, <2>1, <2>2, <2>3, LabelGrant DEF PatchPodClaimFails, Late, Labels
<1>7. CASE RemoveServers(p)
  <2> DEFINE ip == worker[p].mem.ip
             present == {i \in SGs : ip \in backends[p][i]}
             gone(missed) == [i \in SGs |-> IF i \in present \ missed THEN {ip} ELSE {}]
  <2>1. worker[p].pc \in Late
    BY <1>7 DEF RemoveServers, At, Late, Labels
  <2>2. PICK missed : CloudRemove(p, gone(missed))
    BY <1>7 DEF RemoveServers
  <2>3. \A i \in SGs : gone(missed)[i] \subseteq backends[p][i]
    OBVIOUS
  <2>4. UNCHANGED granted
    BY <1>7 DEF RemoveServers, podVars
  <2> HIDE DEF gone
  <2>5. GrantedOnly'
    BY <2>2, <2>3, <2>4, CloudRemoveGrant
  <2> QED
    BY <1>7, <2>1, <2>5, LabelGrant DEF RemoveServers, Late, Labels
<1>8. CASE ClearPodClaimAgain(p)
  BY <1>8, PodClaimGrant DEF ClearPodClaimAgain
<1>9. CASE ClearSpec(p)
  <2> DEFINE r == [pa[p] EXCEPT !.pod = Null, !.ip = Null, !.since = FALSE]
             w == [worker[p] EXCEPT !.pc = "setAvailable"]
  <2>1. worker[p].pc \in Late
    BY <1>9 DEF ClearSpec, At, Late, Labels
  <2>2. CASE CurrentPA(p)
    <3>1. r.ip = Null
      BY <1>1 DEF PARecords
    <3>2. w.pc = "setAvailable" /\ w.podOK = worker[p].podOK
      BY WorkerSteps DEF Workers
    <3>3. pa' = [pa EXCEPT ![p] = r] /\ worker' = [worker EXCEPT ![p] = w]
      BY <1>9, <2>2 DEF ClearSpec, WritePA, Goto
    <3> HIDE DEF r, w
    <3>4. LateWorker(p, w)
      BY <2>1, <3>2, LateStart DEF LateWorker, Late, Labels
    <3>5. Backed(p, r, paCache[p], w)
      BY <2>1, <3>1, <3>4, LateStart, LateBacked
    <3> QED
      BY <1>9, <3>3, <3>5, StepGrant DEF ClearSpec
  <2>3. CASE ~CurrentPA(p)
    BY <1>1, <1>9, <2>3, IdleBacked, StepGrant DEF ClearSpec, Goto, paVars
  <2> QED
    BY <2>2, <2>3
<1>10. CASE SetAvailable(p)
  <2> DEFINE r == [pa[p] EXCEPT !.phase = "Available", !.ss = [i \in SGs |-> ""]]
  <2>1. Granted(p, pa[p].ip)
    BY <1>10, LateStart DEF SetAvailable, At, Late, Labels
  <2>2. r.ip = pa[p].ip
    BY <1>1 DEF PARecords
  <2>3. pa' = [pa EXCEPT ![p] = r] /\ worker' = [worker EXCEPT ![p] = Idle]
    BY <1>10 DEF SetAvailable, WritePA, Goto
  <2> HIDE DEF r
  <2>4. Backed(p, r, paCache[p], Idle)
    BY <2>1, <2>2, IdleBacked
  <2> QED
    BY <1>10, <2>3, <2>4, StepGrant DEF SetAvailable
<1> QED
  BY <1>2, <1>3, <1>4, <1>5, <1>6, <1>7, <1>8, <1>9, <1>10

\* Every step.
LEMMA GrantStep == TypeInv /\ GrantInv /\ [Next]_vars => GrantInv'
<1> SUFFICES ASSUME TypeInv, GrantInv, [Next]_vars PROVE GrantInv'
  OBVIOUS
<1>1. ASSUME NEW p \in PAs, WorkerStep(p) \/ WorkerFails(p) PROVE GrantInv'
  BY <1>1, ClaimGrant, ResumeGrant, LoopGrant, BindGrant, BoundGrant, ReleaseGrant
  DEF WorkerStep, WorkerFails
<1>2. ASSUME NEW p \in PAs, CloudStep(p) \/ CloudFails(p) PROVE GrantInv'
  BY <1>2, CloudGrant
<1>3. ASSUME NEW p \in PAs, SyncPA(p) PROVE GrantInv'
  BY <1>3, SyncGrant
<1>4. ASSUME NEW d \in Pods, PodStep(d) PROVE GrantInv'
  BY <1>4, PodGrant
<1>5. ASSUME NEW d \in Pods, SyncPod(d) PROVE GrantInv'
  BY <1>5, SyncGrant
<1>6. CASE UNCHANGED vars
  BY <1>6 DEF vars, GrantInv, PAsBacked, Backed, Granted, ClaimsGranted, GrantedOnly
<1> QED
  BY <1>1, <1>2, <1>3, <1>4, <1>5, <1>6 DEF Next

\* AddServers follows the CAS on the Pod: whatever is registered, or on its way,
\* in an SG of a PA, is the address of a Pod that has carried the claim on that
\* PA, for any number of PAs, Pods and SGs, any lag, any faults.
THEOREM RegisteredWasGranted == Spec => []GrantedOnly
<1>1. Spec => []GrantInv
  BY TypeInvariant, InitGrant, GrantStep, PTL DEF Spec
<1>2. GrantInv => GrantedOnly
  BY DEF GrantInv
<1> QED
  BY <1>1, <1>2, PTL

-----------------------------------------------------------------------------
(* ReservationComplete.                                                     *)

HasClaim(pods, d, p) == pods[d] # Null /\ pods[d].claim = p

\* Whoever looks for the claim of PA p on Pod d sees it as long as it is there; it has
\* been dropped for good.
Seen(p, d) == d = Null \/ HasClaim(podCache, d, p) \/ ~HasClaim(pod, d, p)
Lost(p, d) == d # Null /\ ~HasClaim(podCache, d, p) /\ ~HasClaim(pod, d, p)

Clean(r)   == \A i \in SGs : r.ss[i] = ""
Touched(r) == \E i \in SGs : r.ss[i] \in {"Adding", "Bound"}
Whole(r)   == IF r.pod = Null THEN r.ip = Null
                              ELSE r.ip \in {r.pod} \X (1..MaxIncarnations)

\* A version of a PA.
Shaped(r) ==
    /\ Whole(r)
    /\ r.phase \in {"Binding", "Bound"} => r.pod # Null
    /\ r.phase = "Available" => Clean(r)

\* What may have become of a PA since the version c of it.
Behind(r, c) ==
    /\ c.phase = "Available" => r.phase \in {"Available", "Binding"} /\ Clean(r)
    /\ c.phase = "Binding"   => r.phase \in {"Binding", "Bound", "Releasing"}
    /\ c.phase = "Bound"     => r.phase \in {"Bound", "Releasing", "Disabled"}
    /\ c.phase = "Disabled"  => r.phase \in {"Disabled", "Binding", "Releasing", "Available"}
    /\ c.phase = "Releasing" => r.phase \in {"Releasing", "Disabled", "Available"}
    /\ c.phase \in {"Binding", "Bound"} => c.pod = r.pod

\* handleBinding has seen the claim before it touches an SG, so a PA that gave up
\* after that is never found claimed again.
Checked(p, r, c) ==
    /\ Touched(r) \/ r.phase = "Bound" => Seen(p, r.pod)
    /\ c.phase = "Bound" => Seen(p, c.pod)
    /\ c.phase = "Binding" /\ r.phase = "Releasing" /\ Touched(c) => Lost(p, c.pod)

Copied(p, r, c) == Shaped(r) /\ Shaped(c) /\ Behind(r, c) /\ Checked(p, r, c)

\* The worker w, by where it is.
Claims(r, c, w) ==
    /\ w.pc \in {"claimPod", "rollback"} => r.phase = "Available" /\ c.phase = "Available"
    /\ w.pc = "claimPod" => w.mem.pod = r.pod /\ r.pod # Null
    /\ w.pc \in {"setPodIP", "setBinding"} =>
         /\ r.phase \in {"Available", "Binding"} /\ c.phase \in {"Available", "Binding"}
         /\ w.memOK => r.phase = "Available" /\ w.mem.pod = r.pod /\ r.pod # Null
    /\ w.pc = "setPodIP" => w.mem.ip \in {w.mem.pod} \X (1..MaxIncarnations)

\* The loops that register and remove the address of the Pod.
InCharge(p, r, w) == w.mem.pod = r.pod /\ r.pod # Null /\ Seen(p, r.pod)

\* A PA that is being released is not made Bound.
GivesUp(w) ==
    w.clear =>
        /\ w.i = 1 /\ w.to \in {"none", "Adding"}
        /\ IF NumSG = 0 THEN ~w.memOK ELSE w.mem.ss[1] \notin {"Adding", "Bound"}

Binds(p, r, c, w) ==
    w.pc = "bind" =>
        /\ r.phase \in {"Binding", "Bound", "Releasing"}
        /\ c.phase \in {"Binding", "Bound", "Releasing"}
        /\ InCharge(p, r, w)
        /\ r.phase = "Releasing" => GivesUp(w)

Disables(p, r, c, w) ==
    w.pc = "disable" =>
        /\ r.phase \in {"Bound", "Releasing", "Disabled"}
        /\ c.phase \in {"Bound", "Releasing", "Disabled"}
        /\ InCharge(p, r, w)
        /\ w.to \in {"none", "", "Removing"}

Closing == {"release", "clearPodClaim", "patchPodClaim", "removeServers",
            "clearPodClaimAgain", "patchPodClaimAgain", "clearSpec", "setAvailable"}

Releases(r, c, w) ==
    w.pc \in Closing =>
        /\ r.phase \in {"Releasing", "Disabled", "Available"}
        /\ c.phase \in {"Releasing", "Disabled", "Available"}
        /\ w.to \in {"none", ""}

Working(p, r, c, w) ==
    Claims(r, c, w) /\ Binds(p, r, c, w) /\ Disables(p, r, c, w) /\ Releases(r, c, w)

Reserved(p) == Copied(p, pa[p], paCache[p]) /\ Working(p, pa[p], paCache[p], worker[p])

ReservedInv == \A p \in PAs : Reserved(p)

\* An idle worker owes nothing.
LEMMA IdleWorks ==
  ASSUME NEW p, NEW r, NEW c
  PROVE  Working(p, r, c, Idle)
<1>1. Idle.pc = "idle"
  BY DEF Idle
<1> QED
  BY <1>1 DEF Working, Claims, Binds, Disables, Releases, Closing

\* Init.
LEMMA InitReserved == Init => ReservedInv
<1> SUFFICES ASSUME Init, NEW p \in PAs PROVE Reserved(p)
  BY DEF ReservedInv
<1>1. pa[p] = EmptyPA /\ paCache[p] = EmptyPA /\ worker[p] = Idle
  BY DEF Init
<1>2. /\ EmptyPA.pod = Null /\ EmptyPA.ip = Null /\ EmptyPA.phase = "Available"
      /\ \A i \in SGs : EmptyPA.ss[i] = ""
  BY DEF EmptyPA
<1>3. Copied(p, EmptyPA, EmptyPA)
  BY <1>2 DEF Copied, Shaped, Whole, Clean, Behind, Checked, Seen
<1> QED
  BY <1>1, <1>3, IdleWorks DEF Reserved

\* A PA stays, and no Pod gets the claim of it.
LEMMA StaysCopied ==
  ASSUME TypeInv, ReservedInv, NEW q \in PAs,
         pa'[q] = pa[q], paCache'[q] = paCache[q], podCache' = podCache,
         \A d \in Pods : HasClaim(pod', d, q) => HasClaim(pod, d, q)
  PROVE  /\ Copied(q, pa[q], paCache[q])'
         /\ Seen(q, pa[q].pod) => Seen(q, pa[q].pod)'
<1>1. pa[q].pod \in Pods \cup {Null} /\ paCache[q].pod \in Pods \cup {Null}
  BY DEF TypeInv, PAInv, PARecords
<1>2. \A d \in Pods \cup {Null} :
        /\ Seen(q, d) => Seen(q, d)'
        /\ Lost(q, d) => Lost(q, d)'
  BY DEF Seen, Lost, HasClaim
<1>3. Copied(q, pa[q], paCache[q])
  BY DEF ReservedInv, Reserved
<1>4. Shaped(pa[q])' /\ Shaped(paCache[q])'
  BY <1>3 DEF Copied, Shaped, Whole, Clean
<1>5. Behind(pa[q], paCache[q])'
  BY <1>3 DEF Copied, Behind, Clean
<1>6. Checked(q, pa[q], paCache[q])'
  BY <1>1, <1>2, <1>3 DEF Copied, Checked, Touched
<1> QED
  BY <1>1, <1>2, <1>4, <1>5, <1>6 DEF Copied

\* Somebody else's step: the worker stays, too.
LEMMA StaysReserved ==
  ASSUME TypeInv, ReservedInv, NEW q \in PAs,
         pa'[q] = pa[q], paCache'[q] = paCache[q], podCache' = podCache,
         \A d \in Pods : HasClaim(pod', d, q) => HasClaim(pod, d, q),
         worker'[q] \in {worker[q], [worker[q] EXCEPT !.podOK = FALSE]}
  PROVE  Reserved(q)'
<1>1. worker[q] \in Workers
  BY WorkerSteps
<1>2. Seen(q, pa[q].pod) => Seen(q, pa[q].pod)'
  BY StaysCopied
<1>3. Copied(q, pa[q], paCache[q])'
  BY StaysCopied
<1>4. /\ worker'[q].pc = worker[q].pc /\ worker'[q].mem = worker[q].mem
      /\ worker'[q].memOK = worker[q].memOK /\ worker'[q].i = worker[q].i
      /\ worker'[q].to = worker[q].to /\ worker'[q].clear = worker[q].clear
  BY <1>1 DEF Workers
<1>5. Working(q, pa[q], paCache[q], worker[q])'
  <2>1. Working(q, pa[q], paCache[q], worker[q])
    BY DEF ReservedInv, Reserved
  <2>2. Claims(pa[q], paCache[q], worker[q])' /\ Releases(pa[q], paCache[q], worker[q])'
    BY <1>4, <2>1 DEF Working, Claims, Releases
  <2>3. /\ InCharge(q, pa[q], worker[q]) => InCharge(q, pa[q], worker[q])'
        /\ GivesUp(worker[q]) => GivesUp(worker[q])'
    BY <1>1, <1>2, <1>4 DEF InCharge, GivesUp
  <2> QED
    BY <1>4, <2>1, <2>2, <2>3 DEF Working, Binds, Disables
<1> QED
  BY <1>3, <1>5 DEF Reserved

\* A step of worker p that changes no Pod: r and w are what it leaves in the PA and in
\* the worker.
LEMMA StepReserved ==
  ASSUME TypeInv, ReservedInv, NEW p \in PAs, NEW r, NEW w,
         pa' = [pa EXCEPT ![p] = r], worker' = [worker EXCEPT ![p] = w],
         UNCHANGED <<cacheVars, podVars>>,
         Copied(p, r, paCache[p]), Working(p, r, paCache[p], w)
  PROVE  ReservedInv'
<1>1. /\ pa'[p] = r
      /\ worker'[p] = w
      /\ \A q \in PAs \ {p} : pa'[q] = pa[q] /\ worker'[q] = worker[q]
      /\ UNCHANGED <<paCache, podCache, pod>>
  BY DEF TypeInv, PAInv, WorkerInv, cacheVars, podVars
<1>2. ASSUME NEW q \in PAs \ {p} PROVE Reserved(q)'
  BY <1>1, StaysReserved
<1>3. Reserved(p)'
  <2>1. Copied(p, pa[p], paCache[p])'
    <3>1. Shaped(pa[p])' /\ Shaped(paCache[p])'
      BY <1>1 DEF Copied, Shaped, Whole, Clean
    <3>2. Behind(pa[p], paCache[p])'
      BY <1>1 DEF Copied, Behind, Clean
    <3>3. Checked(p, pa[p], paCache[p])'
      BY <1>1 DEF Copied, Checked, Touched, Seen, Lost, HasClaim
    <3> QED
      BY <3>1, <3>2, <3>3 DEF Copied
  <2>2. Working(p, pa[p], paCache[p], worker[p])'
    BY <1>1 DEF Working, Claims, Binds, Disables, Releases, InCharge, GivesUp, Seen, HasClaim
  <2> QED
    BY <2>1, <2>2 DEF Reserved
<1> QED
  BY <1>2, <1>3 DEF ReservedInv

\* A step of worker p that changes no PA and no Pod.
LEMMA WorkerReserved ==
  ASSUME TypeInv, ReservedInv, NEW p \in PAs, NEW w, Goto(p, w),
         UNCHANGED <<paVars, cacheVars, podVars>>,
         Working(p, pa[p], paCache[p], w)
  PROVE  ReservedInv'
<1>1. pa' = [pa EXCEPT ![p] = pa[p]]
  BY DEF paVars, TypeInv, PAInv
<1>2. Copied(p, pa[p], paCache[p])
  BY DEF ReservedInv, Reserved
<1> QED
  BY <1>1, <1>2, StepReserved DEF Goto

\* The cloud.
LEMMA CloudReserved ==
  ASSUME TypeInv, ReservedInv, UNCHANGED <<paVars, cacheVars, podVars, worker>>
  PROVE  ReservedInv'
BY StaysReserved DEF ReservedInv, paVars, cacheVars, podVars

\* The informers.
LEMMA SyncReserved ==
  ASSUME TypeInv, ReservedInv
  PROVE  /\ \A p \in PAs : SyncPA(p) => ReservedInv'
         /\ \A d \in Pods : SyncPod(d) => ReservedInv'
<1>1. ASSUME NEW p \in PAs, SyncPA(p) PROVE ReservedInv'
  <2>1. /\ paCache'[p] = pa[p]
        /\ \A q \in PAs \ {p} : paCache'[q] = paCache[q]
        /\ UNCHANGED <<pa, pod, podCache, worker>>
    BY <1>1 DEF SyncPA, TypeInv, PAInv, podVars
  <2>2. ASSUME NEW q \in PAs \ {p} PROVE Reserved(q)'
    BY <2>1, StaysReserved
  <2>3. Copied(p, pa[p], paCache[p]) /\ Working(p, pa[p], paCache[p], worker[p])
    BY DEF ReservedInv, Reserved
  <2>4. Copied(p, pa[p], pa[p])
    <3>1. pa[p].phase \in Phases
      BY DEF TypeInv, PAInv, PARecords
    <3> QED
      BY <2>3, <3>1 DEF Copied, Shaped, Behind, Checked, Phases
  <2>5. Working(p, pa[p], pa[p], worker[p])
    BY <2>3 DEF Working, Claims, Binds, Disables, Releases
  <2>6. Reserved(p)'
    <3>1. Shaped(pa[p])' /\ Shaped(paCache[p])' /\ Behind(pa[p], paCache[p])'
      BY <2>1, <2>4 DEF Copied, Shaped, Whole, Clean, Behind
    <3>2. Checked(p, pa[p], paCache[p])'
      BY <2>1, <2>4 DEF Copied, Checked, Touched, Seen, Lost, HasClaim
    <3>3. Working(p, pa[p], paCache[p], worker[p])'
      BY <2>1, <2>5
      DEF Working, Claims, Binds, Disables, Releases, InCharge, GivesUp, Seen, HasClaim
    <3> QED
      BY <3>1, <3>2, <3>3 DEF Reserved, Copied
  <2> QED
    BY <2>2, <2>6 DEF ReservedInv
<1>2. ASSUME NEW d \in Pods, SyncPod(d) PROVE ReservedInv'
  <2>1. /\ UNCHANGED <<pa, paCache, pod, worker>>
        /\ \A e \in Pods : podCache'[e] \in {podCache[e], pod[e]}
    BY <1>2 DEF SyncPod, TypeInv, PodInv, paVars
  <2>2. ASSUME NEW q \in PAs PROVE Reserved(q)'
    <3>1. pa[q].pod \in Pods \cup {Null} /\ paCache[q].pod \in Pods \cup {Null}
      BY DEF TypeInv, PAInv, PARecords
    <3>2. \A e \in Pods \cup {Null} :
            /\ Seen(q, e) => Seen(q, e)'
            /\ Lost(q, e) => Lost(q, e)'
      BY <2>1 DEF Seen, Lost, HasClaim
    <3>3. Copied(q, pa[q], paCache[q]) /\ Working(q, pa[q], paCache[q], worker[q])
      BY DEF ReservedInv, Reserved
    <3>4. Shaped(pa[q])' /\ Shaped(paCache[q])' /\ Behind(pa[q], paCache[q])'
      BY <2>1, <3>3 DEF Copied, Shaped, Whole, Clean, Behind
    <3>5. Checked(q, pa[q], paCache[q])'
      BY <2>1, <3>1, <3>2, <3>3 DEF Copied, Checked, Touched
    <3>6. Working(q, pa[q], paCache[q], worker[q])'
      BY <2>1, <3>1, <3>2, <3>3
      DEF Working, Claims, Binds, Disables, Releases, InCharge, GivesUp
    <3> QED
      BY <3>4, <3>5, <3>6 DEF Reserved, Copied
  <2> QED
    BY <2>2 DEF ReservedInv
<1> QED
  BY <1>1, <1>2

\* The workload and the users: no Pod gets a claim.
LEMMA PodReserved ==
  ASSUME TypeInv, ReservedInv, NEW d \in Pods, PodStep(d)
  PROVE  ReservedInv'
<1>1. PICK r : /\ PodChange(d, r)
               /\ r # Null => r.claim = Null \/ (pod[d] # Null /\ r.claim = pod[d].claim)
  BY DEF PodStep, PodCreate, PodGetsIP, PodDelete, EditDisabled, EditPool,
         TypeInv, PodInv, PodRecords
<1>2. /\ pod' = [pod EXCEPT ![d] = r]
      /\ worker' = Overtaken(d, r)
      /\ UNCHANGED <<paVars, cacheVars>>
  BY <1>1 DEF PodChange, WritePod
<1>3. ASSUME NEW q \in PAs PROVE Reserved(q)'
  <2>1. \A e \in Pods : HasClaim(pod', e, q) => HasClaim(pod, e, q)
    BY <1>1, <1>2, ConstantsAssumption DEF HasClaim, TypeInv, PodInv
  <2>2. worker'[q] \in {worker[q], [worker[q] EXCEPT !.podOK = FALSE]}
    BY <1>2 DEF Overtaken
  <2> QED
    BY <1>2, <2>1, <2>2, StaysReserved DEF paVars, cacheVars
<1> QED
  BY <1>3 DEF ReservedInv

\* The CAS on the Pod: only a worker whose PA is Available makes it, before any SG of
\* the PA has been touched.
LEMMA SetClaimReserved ==
  ASSUME TypeInv, ReservedInv, NEW p \in PAs, NEW d \in Pods, pod[d] # Null, NEW w,
         SetClaim(p, d, w), UNCHANGED <<paVars, cacheVars>>,
         paCache[p].phase = "Available", w.pc \in {"idle", "setPodIP", "setBinding"},
         Claims(pa[p], paCache[p], w)
  PROVE  ReservedInv'
<1> DEFINE r == [pod[d] EXCEPT !.claim = p]
<1>1. /\ pod' = [pod EXCEPT ![d] = r]
      /\ worker' = [Overtaken(d, r) EXCEPT ![p] = w]
      /\ UNCHANGED <<pa, paCache, podCache>>
  BY DEF SetClaim, WritePod, paVars, cacheVars
<1>2. r.claim = p
  BY DEF TypeInv, PodInv, PodRecords
<1> HIDE DEF r
<1>3. ASSUME NEW q \in PAs \ {p} PROVE Reserved(q)'
  <2>1. \A e \in Pods : HasClaim(pod', e, q) => HasClaim(pod, e, q)
    BY <1>1, <1>2 DEF HasClaim, TypeInv, PodInv
  <2>2. worker'[q] \in {worker[q], [worker[q] EXCEPT !.podOK = FALSE]}
    BY <1>1 DEF Overtaken
  <2> QED
    BY <1>1, <2>1, <2>2, StaysReserved
<1>4. Reserved(p)'
  <2>1. worker'[p] = w
    BY <1>1 DEF Overtaken
  <2>2. Copied(p, pa[p], paCache[p])
    BY DEF ReservedInv, Reserved
  <2>3. Shaped(pa[p])' /\ Shaped(paCache[p])' /\ Behind(pa[p], paCache[p])'
    BY <1>1, <2>2 DEF Copied, Shaped, Whole, Clean, Behind
  <2>4. Checked(p, pa[p], paCache[p])'
    BY <1>1, <2>2 DEF Copied, Behind, Clean, Touched, Checked
  <2>5. Working(p, pa[p], paCache[p], worker[p])'
    BY <1>1, <2>1 DEF Working, Claims, Binds, Disables, Releases, Closing
  <2> QED
    BY <2>3, <2>4, <2>5 DEF Reserved, Copied
<1> QED
  BY <1>3, <1>4 DEF ReservedInv

\* The updates of a PA that the handlers make, field by field.
LEMMA FieldUpdates ==
  ASSUME NEW r \in PARecords
  PROVE  /\ \A phase : /\ [r EXCEPT !.phase = phase].phase = phase
                       /\ [r EXCEPT !.phase = phase].pod = r.pod
                       /\ [r EXCEPT !.phase = phase].ip = r.ip
                       /\ [r EXCEPT !.phase = phase].ss = r.ss
         /\ \A d, ip : /\ [r EXCEPT !.pod = d, !.ip = ip].phase = r.phase
                       /\ [r EXCEPT !.pod = d, !.ip = ip].pod = d
                       /\ [r EXCEPT !.pod = d, !.ip = ip].ip = ip
                       /\ [r EXCEPT !.pod = d, !.ip = ip].ss = r.ss
         /\ \A ip : /\ [r EXCEPT !.ip = ip].phase = r.phase
                    /\ [r EXCEPT !.ip = ip].pod = r.pod
                    /\ [r EXCEPT !.ip = ip].ip = ip
                    /\ [r EXCEPT !.ip = ip].ss = r.ss
         /\ \A phase, ss : /\ [r EXCEPT !.phase = phase, !.ss = ss].phase = phase
                           /\ [r EXCEPT !.phase = phase, !.ss = ss].pod = r.pod
                           /\ [r EXCEPT !.phase = phase, !.ss = ss].ip = r.ip
                           /\ [r EXCEPT !.phase = phase, !.ss = ss].ss = ss
BY DEF PARecords

\* A PA that is Available, as far as the cache knows, and its reservation.
LEMMA AvailableCopied ==
  ASSUME TypeInv, ReservedInv, NEW p \in PAs, NEW r, Whole(r), r.ss = pa[p].ss,
         pa[p].phase = "Available",
         \/ r.phase = "Available" /\ paCache[p].phase \in {"Available", "Disabled", "Releasing"}
         \/ r.phase = "Binding" /\ r.pod # Null /\ paCache[p].phase = "Available"
  PROVE  Copied(p, r, paCache[p])
<1>1. Copied(p, pa[p], paCache[p])
  BY DEF ReservedInv, Reserved
<1>2. Clean(r)
  BY <1>1 DEF Copied, Shaped, Clean
<1>3. ~Touched(r)
  BY <1>2 DEF Clean, Touched
<1>4. Shaped(r) /\ Shaped(paCache[p])
  BY <1>1, <1>2 DEF Copied, Shaped
<1>5. Behind(r, paCache[p])
  BY <1>2 DEF Behind
<1>6. Checked(p, r, paCache[p])
  BY <1>3 DEF Checked
<1> QED
  BY <1>4, <1>5, <1>6 DEF Copied

\* The actions of handleAvailable, and the abort of a reconcile.
LEMMA ClaimReserved ==
  ASSUME TypeInv, ReservedInv, NEW p \in PAs,
         \/ \E d \in Pods : HandleAvailable(p, d)
         \/ ClaimPod(p) \/ ClaimPodFails(p) \/ RollBack(p) \/ SetBinding(p) \/ Abort(p)
  PROVE  ReservedInv'
<1>1. pa[p] \in PARecords /\ worker[p] \in Workers
  BY WorkerSteps DEF TypeInv, PAInv
<1>2. Copied(p, pa[p], paCache[p]) /\ Working(p, pa[p], paCache[p], worker[p])
  BY DEF ReservedInv, Reserved
<1>3. ASSUME NEW d \in Pods, HandleAvailable(p, d) PROVE ReservedInv'
  <2> DEFINE r == [pa[p] EXCEPT !.pod = d, !.ip = <<d, podCache[d].uid>>]
             w == [Idle EXCEPT !.pc = "claimPod", !.mem = r, !.memOK = TRUE,
                               !.podOK = podSynced[d]]
  <2>1. r.ip = <<d, podCache[d].uid>> /\ r.pod = d /\ r.phase = pa[p].phase /\ r.ss = pa[p].ss
    BY <1>1, FieldUpdates
  <2>2. paCache[p].phase = "Available" /\ paCache[p] = pa[p]
    BY <1>3 DEF HandleAvailable, Reconcile, TypeInv, PAInv
  <2>3. w.pc = "claimPod" /\ w.mem = r
    BY DEF Idle
  <2>4. /\ pa' = [pa EXCEPT ![p] = r] /\ worker' = [worker EXCEPT ![p] = w]
        /\ UNCHANGED <<cacheVars, podVars>>
    BY <1>3 DEF HandleAvailable, WritePA, Goto
  <2>5. d # Null /\ podCache[d].uid \in 1..MaxIncarnations
    BY <1>3, ConstantsAssumption DEF HandleAvailable, Candidate, TypeInv, PodInv, PodRecords
  <2> HIDE DEF r, w
  <2>6. Copied(p, r, paCache[p])
    <3>1. Whole(r)
      BY <2>1, <2>5 DEF Whole
    <3> QED
      BY <2>1, <2>2, <3>1, AvailableCopied
  <2>7. Working(p, r, paCache[p], w)
    BY <2>1, <2>2, <2>3, <2>5 DEF Working, Claims, Binds, Disables, Releases, Closing
  <2> QED
    BY <2>4, <2>6, <2>7, StepReserved
<1>4. CASE ClaimPod(p)
  <2> DEFINE d == worker[p].mem.pod
             w == [worker[p] EXCEPT !.pc = "setBinding", !.podOK = FALSE]
  <2>1. d \in Pods /\ pod[d] # Null
    BY <1>4, WorkerSteps DEF ClaimPod, CurrentPod, Consistent, Workers, PARecords
  <2>2. w.pc = "setBinding" /\ w.mem = worker[p].mem
    BY <1>1 DEF Workers
  <2>3. SetClaim(p, d, w) /\ UNCHANGED <<paVars, cacheVars>> /\ worker[p].pc = "claimPod"
    BY <1>4 DEF ClaimPod, At
  <2> HIDE DEF w, d
  <2>4. paCache[p].phase = "Available" /\ Claims(pa[p], paCache[p], w)
    BY <1>2, <2>2, <2>3 DEF Working, Claims
  <2> QED
    BY <2>1, <2>2, <2>3, <2>4, SetClaimReserved
<1>5. CASE ClaimPodFails(p)
  <2> DEFINE w == [worker[p] EXCEPT !.pc = "rollback", !.podOK = FALSE]
  <2>1. w.pc = "rollback"
    BY <1>1 DEF Workers
  <2>2. Goto(p, w) /\ UNCHANGED <<paVars, cacheVars, podVars>> /\ worker[p].pc = "claimPod"
    BY <1>5 DEF ClaimPodFails, At
  <2> HIDE DEF w
  <2>3. Working(p, pa[p], paCache[p], w)
    BY <1>2, <2>1, <2>2 DEF Working, Claims, Binds, Disables, Releases, Closing
  <2> QED
    BY <2>2, <2>3, WorkerReserved
<1>6. CASE RollBack(p)
  <2>1. pa[p].phase = "Available" /\ paCache[p].phase = "Available"
    BY <1>2, <1>6 DEF RollBack, At, Working, Claims
  <2>2. /\ Unreserved(p).phase = "Available" /\ Unreserved(p).ss = pa[p].ss
        /\ Unreserved(p).pod = Null /\ Unreserved(p).ip = Null
    BY <1>1, <2>1, FieldUpdates DEF Unreserved
  <2>3. Copied(p, Unreserved(p), paCache[p])
    BY <2>1, <2>2, AvailableCopied DEF Whole
  <2> QED
    BY <1>6, <2>3, IdleWorks, StepReserved DEF RollBack, WritePA, Goto
<1>7. CASE SetBinding(p)
  <2> DEFINE r == [pa[p] EXCEPT !.phase = "Binding"]
  <2>1. CASE CurrentPA(p)
    <3>1. pa[p].phase = "Available" /\ pa[p].pod # Null
      BY <1>2, <1>7, <2>1 DEF SetBinding, CurrentPA, At, Working, Claims
    <3>2. paCache[p].phase = "Available"
      BY <1>2, <1>7, <3>1 DEF SetBinding, At, Working, Claims, Copied, Behind
    <3>3. /\ r.phase = "Binding" /\ r.ss = pa[p].ss
          /\ r.pod = pa[p].pod /\ r.ip = pa[p].ip
      BY <1>1, FieldUpdates
    <3>4. pa' = [pa EXCEPT ![p] = r]
      BY <1>7, <2>1 DEF SetBinding, WritePA
    <3> HIDE DEF r
    <3>5. Copied(p, r, paCache[p])
      BY <1>2, <3>1, <3>2, <3>3, AvailableCopied DEF Whole, Copied, Shaped
    <3> QED
      BY <1>7, <3>4, <3>5, IdleWorks, StepReserved DEF SetBinding, Goto
  <2>2. CASE ~CurrentPA(p)
    BY <1>7, <2>2, IdleWorks, WorkerReserved DEF SetBinding
  <2> QED
    BY <2>1, <2>2
<1>8. CASE Abort(p)
  BY <1>8, IdleWorks, WorkerReserved DEF Abort
<1> QED
  BY <1>3, <1>4, <1>5, <1>6, <1>7, <1>8

\* A worker that resumes with an address of the Pod of its copy.
LEMMA ResumeWithClaims ==
  ASSUME TypeInv, ReservedInv, NEW p \in PAs, Resume(p),
         NEW u \in 1..MaxIncarnations
  PROVE  LET w == ResumeWith(p, <<paCache[p].pod, u>>)
         IN  /\ w.pc \in {"setPodIP", "setBinding"}
             /\ Claims(pa[p], paCache[p], w)
             /\ Working(p, pa[p], paCache[p], w)
<1> DEFINE ip == <<paCache[p].pod, u>>
           w == ResumeWith(p, ip)
<1>1. paCache[p].phase = "Available" /\ paCache[p].pod # Null /\ paCache[p] \in PARecords
  BY DEF Resume, Reconcile, TypeInv, PAInv
<1> DEFINE mem == [paCache[p] EXCEPT !.ip = ip]
<1>2. /\ w.pc \in {"setPodIP", "setBinding"}
      /\ w.mem.pod = paCache[p].pod /\ w.mem.ip = ip /\ w.memOK = paSynced[p]
  <2>1. mem.pod = paCache[p].pod /\ mem.ip = ip
    BY <1>1, FieldUpdates
  <2> HIDE DEF mem
  <2>2. w = [Idle EXCEPT !.pc = IF ip = paCache[p].ip THEN "setBinding" ELSE "setPodIP",
                         !.mem = mem, !.memOK = paSynced[p]]
    BY DEF ResumeWith, mem
  <2> HIDE DEF w
  <2> QED
    BY <2>1, <2>2 DEF Idle
<1>3. pa[p].phase \in {"Available", "Binding"}
  BY <1>1 DEF ReservedInv, Reserved, Copied, Behind
<1>4. paSynced[p] => paCache[p] = pa[p]
  BY DEF TypeInv, PAInv
<1> HIDE DEF w
<1>5. Claims(pa[p], paCache[p], w)
  BY <1>1, <1>2, <1>3, <1>4 DEF Claims
<1>6. Working(p, pa[p], paCache[p], w)
  BY <1>2, <1>5 DEF Working, Binds, Disables, Releases, Closing
<1> QED
  BY <1>2, <1>5, <1>6 DEF w

\* The actions of availableResumeBind.
LEMMA ResumeReserved ==
  ASSUME TypeInv, ReservedInv, NEW p \in PAs,
         \/ ResumeConfirmed(p) \/ ResumeClaim(p) \/ ResumeClear(p) \/ ResumeClaimFails(p)
         \/ SetPodIP(p)
  PROVE  ReservedInv'
<1>1. pa[p] \in PARecords /\ paCache[p] \in PARecords /\ worker[p] \in Workers
  BY WorkerSteps DEF TypeInv, PAInv
<1>2. Copied(p, pa[p], paCache[p]) /\ Working(p, pa[p], paCache[p], worker[p])
  BY DEF ReservedInv, Reserved
<1>3. CASE ResumeConfirmed(p)
  <2>1. CachedPod(p).uid \in 1..MaxIncarnations
    BY <1>1, <1>3 DEF ResumeConfirmed, CachedPod, TypeInv, PodInv, PodRecords, PARecords
  <2>2. Working(p, pa[p], paCache[p], ResumeWith(p, <<paCache[p].pod, CachedPod(p).uid>>))
    BY <1>3, <2>1, ResumeWithClaims DEF ResumeConfirmed
  <2> QED
    BY <1>3, <2>2, WorkerReserved DEF ResumeConfirmed
<1>4. CASE ResumeClaim(p)
  <2> DEFINE d == paCache[p].pod
  <2>1. d \in Pods /\ pod[d] # Null /\ pod[d].uid \in 1..MaxIncarnations
    BY <1>1, <1>4 DEF ResumeClaim, Resume, CachedPod, TypeInv, PodInv, PodRecords, PARecords
  <2>2. PICK w : w = IF pod[d].hasIP THEN ResumeWith(p, <<d, pod[d].uid>>) ELSE Idle
    OBVIOUS
  <2>3. SetClaim(p, d, w) /\ UNCHANGED <<paVars, cacheVars>> /\ Resume(p)
    BY <1>4, <2>2 DEF ResumeClaim
  <2>4. Idle.pc = "idle"
    BY DEF Idle
  <2>5. w.pc \in {"idle", "setPodIP", "setBinding"} /\ Claims(pa[p], paCache[p], w)
    <3>1. CASE w = Idle
      BY <2>4, <3>1 DEF Claims
    <3>2. CASE w = ResumeWith(p, <<d, pod[d].uid>>)
      BY <2>1, <2>3, <3>2, ResumeWithClaims
    <3> QED
      BY <2>2, <3>1, <3>2
  <2>6. paCache[p].phase = "Available"
    BY <2>3 DEF Resume, Reconcile
  <2> QED
    BY <2>1, <2>3, <2>5, <2>6, SetClaimReserved
<1>5. CASE ResumeClear(p) \/ ResumeClaimFails(p)
  <2>1. paCache[p].phase = "Available" /\ paCache[p] = pa[p] /\ worker[p].pc = "idle"
    BY <1>5 DEF ResumeClear, ResumeClaimFails, Resume, Reconcile, At, TypeInv, PAInv
  <2>2. /\ Unreserved(p).phase = "Available" /\ Unreserved(p).ss = pa[p].ss
        /\ Unreserved(p).pod = Null /\ Unreserved(p).ip = Null
    BY <1>1, <2>1, FieldUpdates DEF Unreserved
  <2>3. Copied(p, Unreserved(p), paCache[p])
    BY <2>1, <2>2, AvailableCopied DEF Whole
  <2>4. Working(p, Unreserved(p), paCache[p], worker[p])
    BY <2>1 DEF Working, Claims, Binds, Disables, Releases, Closing
  <2>5. /\ pa' = [pa EXCEPT ![p] = Unreserved(p)]
        /\ worker' = [worker EXCEPT ![p] = worker[p]]
        /\ UNCHANGED <<cacheVars, podVars>>
    BY <1>5 DEF ResumeClear, ResumeClaimFails, WritePA, TypeInv, WorkerInv
  <2> QED
    BY <2>3, <2>4, <2>5, StepReserved
<1>6. CASE SetPodIP(p)
  <2> DEFINE r == [pa[p] EXCEPT !.ip = worker[p].mem.ip]
             w == [worker[p] EXCEPT !.pc = "setBinding"]
  <2>1. CASE CurrentPA(p)
    <3>1. /\ pa[p].phase = "Available" /\ pa[p].pod # Null
          /\ worker[p].mem.pod = pa[p].pod
          /\ worker[p].mem.ip \in {pa[p].pod} \X (1..MaxIncarnations)
      BY <1>2, <1>6, <2>1 DEF SetPodIP, CurrentPA, At, Working, Claims
    <3>2. paCache[p].phase = "Available"
      BY <1>2, <1>6, <3>1 DEF SetPodIP, At, Working, Claims, Copied, Behind
    <3>3. /\ r.phase = "Available" /\ r.ss = pa[p].ss
          /\ r.pod = pa[p].pod /\ r.ip = worker[p].mem.ip
      BY <1>1, <3>1, FieldUpdates
    <3>4. w.pc = "setBinding" /\ w.mem = worker[p].mem
      BY <1>1 DEF Workers
    <3>5. pa' = [pa EXCEPT ![p] = r] /\ worker' = [worker EXCEPT ![p] = w]
      BY <1>6, <2>1 DEF SetPodIP, WritePA, Goto
    <3> HIDE DEF r, w
    <3>6. Copied(p, r, paCache[p])
      BY <3>1, <3>2, <3>3, AvailableCopied DEF Whole
    <3>7. Working(p, r, paCache[p], w)
      BY <3>1, <3>2, <3>3, <3>4 DEF Working, Claims, Binds, Disables, Releases, Closing
    <3> QED
      BY <1>6, <3>5, <3>6, <3>7, StepReserved DEF SetPodIP
  <2>2. CASE ~CurrentPA(p)
    BY <1>6, <2>2, IdleWorks, WorkerReserved DEF SetPodIP
  <2> QED
    BY <2>1, <2>2
<1> QED
  BY <1>3, <1>4, <1>5, <1>6

\* Handlers that move a PA of which the cache is current, by one CAS on the phase.
LEMMA MovePhaseReserved ==
  ASSUME TypeInv, ReservedInv, NEW p \in PAs, NEW phase, MovePhase(p, phase),
         At(p, "idle"), pa[p].pod # Null \/ phase = "Releasing",
         \/ /\ paCache[p].phase = "Binding" /\ phase = "Releasing"
            /\ ~HasClaim(podCache, paCache[p].pod, p)
         \/ paCache[p].phase = "Bound" /\ phase = "Releasing"
         \/ paCache[p].phase = "Disabled" /\ phase \in {"Releasing", "Binding"}
  PROVE  ReservedInv'
<1> DEFINE r == [pa[p] EXCEPT !.phase = phase]
<1>1. paCache[p] = pa[p] /\ pa[p] \in PARecords
  BY DEF MovePhase, TypeInv, PAInv
<1>2. /\ r.phase = phase /\ r.pod = pa[p].pod
      /\ r.ip = pa[p].ip /\ r.ss = pa[p].ss
  BY <1>1, FieldUpdates
<1>3. Copied(p, pa[p], paCache[p])
  BY DEF ReservedInv, Reserved
<1>4. /\ pa' = [pa EXCEPT ![p] = r] /\ worker' = [worker EXCEPT ![p] = worker[p]]
      /\ UNCHANGED <<cacheVars, podVars>>
  BY DEF MovePhase, WritePA, TypeInv, WorkerInv
<1> HIDE DEF r
<1>5. Shaped(r) /\ Shaped(paCache[p])
  BY <1>2, <1>3 DEF Copied, Shaped, Whole
<1>6. Behind(r, paCache[p])
  BY <1>1, <1>2 DEF Behind
<1>7. Touched(r) <=> Touched(pa[p])
  BY <1>2 DEF Touched
<1>8. Checked(p, r, paCache[p])
  BY <1>1, <1>2, <1>3, <1>7 DEF Copied, Shaped, Checked, Seen, Lost
<1>9. Working(p, r, paCache[p], worker[p])
  BY DEF At, Working, Claims, Binds, Disables, Releases, Closing
<1> QED
  BY <1>4, <1>5, <1>6, <1>8, <1>9, StepReserved DEF Copied

-----------------------------------------------------------------------------
(* The loops over the SGs keep what the invariant says of them.             *)

\* A worker that enters the loop of handleBinding, handleDisable or handleReleasing.
LEMMA StartLoopWorks ==
  ASSUME TypeInv, ReservedInv, NEW p \in PAs, NEW w,
         w.i = 1, w.to = "none", w.clear = TRUE,
         \/ /\ w.pc = "bind" /\ paCache[p].phase = "Binding"
            /\ HasClaim(podCache, paCache[p].pod, p)
            /\ w.mem = paCache[p] /\ w.memOK = paSynced[p]
         \/ /\ w.pc = "disable" /\ paCache[p].phase = "Bound"
            /\ w.mem = paCache[p]
         \/ w.pc = "release" /\ paCache[p].phase = "Releasing"
  PROVE  Working(p, pa[p], paCache[p], w)
<1>1. Copied(p, pa[p], paCache[p]) /\ (paSynced[p] => paCache[p] = pa[p])
  BY DEF ReservedInv, Reserved, TypeInv, PAInv
<1>2. CASE w.pc = "bind"
  <2>1. /\ pa[p].phase \in {"Binding", "Bound", "Releasing"}
        /\ paCache[p].pod = pa[p].pod /\ pa[p].pod # Null
    BY <1>1, <1>2 DEF Copied, Behind, Shaped
  <2>2. InCharge(p, pa[p], w)
    BY <1>2, <2>1 DEF InCharge, Seen
  <2>3. pa[p].phase = "Releasing" => GivesUp(w)
    <3>1. SUFFICES ASSUME pa[p].phase = "Releasing"
                   PROVE  IF NumSG = 0 THEN ~w.memOK
                                       ELSE w.mem.ss[1] \notin {"Adding", "Bound"}
      BY DEF GivesUp
    <3>2. ~w.memOK
      BY <1>1, <1>2, <3>1
    <3>3. ~Touched(paCache[p])
      BY <1>1, <1>2, <3>1 DEF Copied, Checked, Lost
    <3>4. NumSG # 0 => 1 \in SGs
      BY ConstantsAssumption DEF SGs
    <3> QED
      BY <1>2, <3>2, <3>3, <3>4 DEF Touched
  <2> QED
    BY <1>2, <2>1, <2>2, <2>3 DEF Working, Claims, Binds, Disables, Releases, Closing
<1>3. CASE w.pc = "disable"
  <2>1. /\ pa[p].phase \in {"Bound", "Releasing", "Disabled"}
        /\ paCache[p].pod = pa[p].pod /\ pa[p].pod # Null
    BY <1>1, <1>3 DEF Copied, Behind, Shaped
  <2>2. InCharge(p, pa[p], w)
    BY <1>1, <1>3, <2>1 DEF InCharge, Copied, Checked
  <2> QED
    BY <1>3, <2>1, <2>2 DEF Working, Claims, Binds, Disables, Releases, Closing
<1>4. CASE w.pc = "release"
  BY <1>1, <1>4 DEF Copied, Behind, Working, Claims, Binds, Disables, Releases, Closing
<1> QED
  BY <1>2, <1>3, <1>4

\* A worker that goes to the next SG, or is about to patch the status of this one.
LEMMA NextWorks ==
  ASSUME TypeInv, ReservedInv, NEW p \in PAs, worker[p].pc \in {"bind", "disable", "release"},
         NEW w \in Workers, w.pc = worker[p].pc, w.mem = worker[p].mem, w.memOK = worker[p].memOK,
         \/ /\ w.to = worker[p].to
            /\ w.clear => worker[p].clear /\ worker[p].mem.ss[worker[p].i] = Goal(w.pc)
         \/ /\ w.i = worker[p].i /\ w.clear = worker[p].clear
            /\ \/ w.pc = "bind" /\ w.to = "Adding"
               \/ w.pc = "bind" /\ worker[p].mem.ss[worker[p].i] = "Adding"
               \/ w.pc = "disable" /\ w.to \in {"", "Removing"}
               \/ w.pc = "release" /\ w.to = "",
         worker[p].i \in SGs
  PROVE  Working(p, pa[p], paCache[p], w)
<1>1. Working(p, pa[p], paCache[p], worker[p])
  BY DEF ReservedInv, Reserved
<1>2. Claims(pa[p], paCache[p], w)
  BY DEF Claims
<1>3. Binds(p, pa[p], paCache[p], w)
  <2>1. InCharge(p, pa[p], worker[p]) => InCharge(p, pa[p], w)
    BY DEF InCharge
  <2>2. GivesUp(worker[p]) /\ w.pc = "bind" => GivesUp(w)
    <3> SUFFICES ASSUME GivesUp(worker[p]), w.pc = "bind", w.clear
                 PROVE  /\ w.i = 1 /\ w.to \in {"none", "Adding"}
                        /\ IF NumSG = 0 THEN ~w.memOK
                                        ELSE w.mem.ss[1] \notin {"Adding", "Bound"}
      BY DEF GivesUp
    <3>1. w.clear = TRUE /\ worker[p].clear = TRUE
      BY WorkerSteps DEF Workers
    <3>2. /\ worker[p].i = 1 /\ worker[p].to \in {"none", "Adding"} /\ NumSG # 0
          /\ worker[p].mem.ss[1] \notin {"Adding", "Bound"}
      BY <3>1, ConstantsAssumption DEF GivesUp, SGs
    <3>3. Goal(w.pc) = "Bound"
      BY DEF Goal
    <3> QED
      BY <3>2, <3>3
  <2> QED
    BY <1>1, <2>1, <2>2 DEF Working, Binds
<1>4. Disables(p, pa[p], paCache[p], w)
  BY <1>1 DEF Working, Disables, InCharge
<1>5. Releases(pa[p], paCache[p], w)
  BY <1>1 DEF Working, Releases, Closing
<1> QED
  BY <1>2, <1>3, <1>4, <1>5 DEF Working

\* The two ways on in a loop.
LEMMA NextSGReserved ==
  ASSUME TypeInv, TypeInv', ReservedInv, NEW p \in PAs,
         NEW label \in {"bind", "disable", "release"},
         InLoop(p, label), NEW clear \in BOOLEAN, NextSG(p, clear),
         clear => AtSG(p, label, Goal(label)),
         UNCHANGED <<paVars, cacheVars, podVars>>
  PROVE  ReservedInv'
<1>1. PICK w : w = [worker[p] EXCEPT !.i = @ + 1, !.clear = @ /\ clear]
  OBVIOUS
<1>2. Goto(p, w) /\ worker[p] \in Workers
  BY <1>1, WorkerSteps DEF NextSG
<1>3. w \in Workers
  BY <1>2 DEF Goto, TypeInv, WorkerInv
<1>4. /\ w.pc = worker[p].pc /\ w.mem = worker[p].mem /\ w.memOK = worker[p].memOK
      /\ w.to = worker[p].to
      /\ w.clear => worker[p].clear /\ clear
  BY <1>1, <1>2 DEF Workers
<1>5. worker[p].i \in SGs /\ worker[p].pc = label
  BY InLoopType
<1>6. w.clear => worker[p].clear /\ worker[p].mem.ss[worker[p].i] = Goal(w.pc)
  BY <1>4, <1>5 DEF AtSG
<1>7. Working(p, pa[p], paCache[p], w)
  BY <1>3, <1>4, <1>5, <1>6, NextWorks
<1> QED
  BY <1>2, <1>7, WorkerReserved

\* A worker that is about to patch a server status.
LEMMA PatchNextReserved ==
  ASSUME TypeInv, TypeInv', ReservedInv, NEW p \in PAs,
         NEW label \in {"bind", "disable", "release"},
         InLoop(p, label), NEW status, PatchNext(p, status),
         \/ label = "bind" /\ status = "Adding"
         \/ AtSG(p, "bind", "Adding")
         \/ label = "disable" /\ status \in {"", "Removing"}
         \/ label = "release" /\ status = "",
         UNCHANGED <<paVars, cacheVars, podVars>>
  PROVE  ReservedInv'
<1>1. PICK w : w = [worker[p] EXCEPT !.to = status]
  OBVIOUS
<1>2. Goto(p, w) /\ worker[p] \in Workers
  BY <1>1, WorkerSteps DEF PatchNext
<1>3. w \in Workers
  BY <1>2 DEF Goto, TypeInv, WorkerInv
<1>4. /\ w.pc = worker[p].pc /\ w.mem = worker[p].mem /\ w.memOK = worker[p].memOK
      /\ w.to = status /\ w.i = worker[p].i /\ w.clear = worker[p].clear
  BY <1>1, <1>2 DEF Workers
<1>5. worker[p].i \in SGs /\ worker[p].pc = label
  BY InLoopType
<1>6. \/ w.pc = "bind" /\ w.to = "Adding"
      \/ w.pc = "bind" /\ worker[p].mem.ss[worker[p].i] = "Adding"
      \/ w.pc = "disable" /\ w.to \in {"", "Removing"}
      \/ w.pc = "release" /\ w.to = ""
  BY <1>4, <1>5 DEF AtSG, InLoop, At
<1>7. Working(p, pa[p], paCache[p], w)
  BY <1>3, <1>4, <1>5, <1>6, NextWorks
<1> QED
  BY <1>2, <1>7, WorkerReserved

\* The patch of one server status.
LEMMA PatchStatusCopied ==
  ASSUME TypeInv, ReservedInv, NEW p \in PAs, worker[p].to # "none",
         NEW r, r = [pa[p] EXCEPT !.ss[worker[p].i] = worker[p].to]
  PROVE  /\ r \in PARecords
         /\ r.phase = pa[p].phase /\ r.pod = pa[p].pod
         /\ Copied(p, r, paCache[p])
<1>1. /\ pa[p] \in PARecords
      /\ worker[p].i \in SGs /\ worker[p].to \in ServerStatus
      /\ worker[p].pc \in {"bind", "disable", "release"}
  <2>1. pa[p] \in PARecords
    BY DEF TypeInv, PAInv
  <2>2. worker[p] \in Workers /\ Consistent(worker[p], pod)
    BY DEF TypeInv, WorkerInv
  <2>3. worker[p].i \in SGs /\ worker[p].pc \in {"bind", "disable", "release"}
    BY <2>2 DEF Consistent
  <2>4. worker[p].to \in ServerStatus
    BY <2>2 DEF Workers
  <2> QED
    BY <2>1, <2>3, <2>4
<1>2. r \in PARecords
  BY <1>1, PAUpdates
<1>3. /\ r.phase = pa[p].phase /\ r.pod = pa[p].pod /\ r.ip = pa[p].ip
      /\ \A i \in SGs : r.ss[i] = IF i = worker[p].i THEN worker[p].to ELSE pa[p].ss[i]
  BY <1>1 DEF PARecords
<1>4. Copied(p, pa[p], paCache[p]) /\ Working(p, pa[p], paCache[p], worker[p])
  BY DEF ReservedInv, Reserved
<1>5. worker[p].pc = "release" => worker[p].to = ""
  BY <1>1, <1>4 DEF Working, Releases, Closing
<1>6. worker[p].to = "" => /\ Clean(pa[p]) => Clean(r)
                           /\ Touched(r) => Touched(pa[p])
  BY <1>3 DEF Clean, Touched
<1>7. pa[p].phase = "Available" \/ paCache[p].phase = "Available" => worker[p].pc = "release"
  BY <1>1, <1>4 DEF Working, Binds, Disables
<1>8. Shaped(r) /\ Shaped(paCache[p])
  BY <1>3, <1>4, <1>5, <1>6, <1>7 DEF Copied, Shaped, Whole
<1>9. Behind(r, paCache[p])
  BY <1>3, <1>4, <1>5, <1>6, <1>7 DEF Copied, Behind
<1>10. worker[p].pc \in {"bind", "disable"} => Seen(p, pa[p].pod)
  BY <1>4 DEF Working, Binds, Disables, InCharge
<1>11. Checked(p, r, paCache[p])
  BY <1>1, <1>3, <1>4, <1>5, <1>6, <1>10 DEF Copied, Checked
<1> QED
  BY <1>2, <1>3, <1>8, <1>9, <1>11 DEF Copied

\* The steps that the three loops share.
LEMMA LoopReserved ==
  ASSUME TypeInv, ReservedInv, NEW p \in PAs, SkipSG(p) \/ Throttled(p) \/ PatchServerStatus(p)
  PROVE  ReservedInv'
<1>1. TypeInv'
  BY LoopType
<1>2. CASE SkipSG(p)
  BY <1>1, <1>2, NextSGReserved DEF SkipSG, AtSG
<1>3. CASE Throttled(p)
  BY <1>1, <1>3, NextSGReserved DEF Throttled
<1>4. CASE PatchServerStatus(p)
  <2> DEFINE v == worker[p]
  <2>1. PICK r, mem, clear, w :
           /\ r = [pa[p] EXCEPT !.ss[v.i] = v.to]
           /\ mem = [Decode(v.mem, r) EXCEPT !.ss[v.i] = v.to]
           /\ clear = (v.clear /\ v.to = Goal(v.pc))
           /\ w = [v EXCEPT !.mem = mem, !.memOK = TRUE, !.to = "none", !.i = @ + 1,
                            !.clear = clear]
    OBVIOUS
  <2>2. /\ pa' = [pa EXCEPT ![p] = r] /\ worker' = [worker EXCEPT ![p] = w]
        /\ UNCHANGED <<cacheVars, podVars>> /\ v.to # "none"
    BY <1>4, <2>1 DEF PatchServerStatus, WritePA, Goto
  <2>3. r \in PARecords /\ r.phase = pa[p].phase /\ r.pod = pa[p].pod /\ Copied(p, r, paCache[p])
    BY <2>1, <2>2, PatchStatusCopied
  <2>4. /\ v \in Workers /\ v.mem \in PARecords
        /\ v.pc \in {"bind", "disable", "release"} /\ v.i \in SGs
    BY <2>2, WorkerSteps DEF Consistent, Workers
  <2>5. mem.pod = Decode(v.mem, r).pod
    <3>1. Decode(v.mem, r) \in PARecords
      BY <2>3, <2>4, DecodeType
    <3> QED
      BY <2>1, <3>1 DEF PARecords
  <2>6. r.pod # Null => mem.pod = r.pod
    BY <2>5 DEF Decode
  <2>7. w.pc = v.pc /\ w.mem = mem /\ w.to = "none"
    BY <2>1, <2>4 DEF Workers
  <2>8. w.clear = TRUE => v.clear = TRUE /\ v.to = Goal(v.pc)
    BY <2>1, <2>4 DEF Workers
  <2>9. w.clear \in BOOLEAN
    BY <1>1, <2>2 DEF TypeInv, WorkerInv, Workers
  <2>10. Working(p, pa[p], paCache[p], v)
    BY DEF ReservedInv, Reserved
  <2> HIDE DEF v
  <2>11. Binds(p, r, paCache[p], w)
    <3>1. InCharge(p, pa[p], v) => InCharge(p, r, w)
      BY <2>3, <2>6, <2>7 DEF InCharge
    <3>2. GivesUp(v) /\ v.pc = "bind" => GivesUp(w)
      BY <2>2, <2>8, <2>9 DEF GivesUp, Goal
    <3> QED
      BY <2>3, <2>7, <2>10, <3>1, <3>2 DEF Working, Binds
  <2>12. Disables(p, r, paCache[p], w)
    BY <2>3, <2>6, <2>7, <2>10 DEF Working, Disables, InCharge
  <2>13. Releases(r, paCache[p], w)
    BY <2>3, <2>7, <2>10 DEF Working, Releases
  <2>14. Working(p, r, paCache[p], w)
    BY <2>4, <2>7, <2>11, <2>12, <2>13 DEF Working, Claims
  <2> QED
    BY <2>2, <2>3, <2>14, StepReserved
<1> QED
  BY <1>2, <1>3, <1>4

\* The end of a loop: a PA is made Bound or Disabled by a worker that is in charge.
LEMMA EndLoopReserved ==
  ASSUME TypeInv, ReservedInv, NEW p \in PAs,
         EndLoop(p, "bind", "Bound") \/ EndLoop(p, "disable", "Disabled")
  PROVE  ReservedInv'
<1>0. PICK label, phase :
        /\ (label = "bind" /\ phase = "Bound") \/ (label = "disable" /\ phase = "Disabled")
        /\ EndLoop(p, label, phase)
  OBVIOUS
<1>1. CASE ~(worker[p].clear /\ CurrentPA(p))
  BY <1>0, <1>1, IdleWorks, WorkerReserved DEF EndLoop
<1>2. CASE worker[p].clear /\ CurrentPA(p)
  <2>1. PICK r : r = [pa[p] EXCEPT !.phase = phase, !.ss = worker[p].mem.ss]
    OBVIOUS
  <2>2. r.phase = phase /\ r.pod = pa[p].pod /\ r.ip = pa[p].ip
    BY <2>1, FieldUpdates DEF TypeInv, PAInv
  <2>3. Copied(p, pa[p], paCache[p]) /\ Working(p, pa[p], paCache[p], worker[p])
    BY DEF ReservedInv, Reserved
  <2>4. /\ worker[p].pc = label /\ worker[p].i > NumSG /\ worker[p].memOK
        /\ worker[p].to = "none"
    BY <1>0, <1>2 DEF EndLoop, LoopDone, At, CurrentPA
  <2>5. InCharge(p, pa[p], worker[p])
    BY <1>0, <2>3, <2>4 DEF Working, Binds, Disables
  <2>6. label = "bind" => pa[p].phase # "Releasing"
    <3> SUFFICES ASSUME label = "bind", pa[p].phase = "Releasing" PROVE FALSE
      OBVIOUS
    <3>1. GivesUp(worker[p])
      BY <2>3, <2>4 DEF Working, Binds
    <3> QED
      BY <1>2, <2>4, <3>1, ConstantsAssumption DEF GivesUp
  <2>7. \/ phase = "Bound" /\ paCache[p].phase \in {"Binding", "Bound"}
        \/ phase = "Disabled" /\ paCache[p].phase \in {"Bound", "Releasing", "Disabled"}
    BY <1>0, <2>3, <2>4, <2>6 DEF Working, Binds, Disables, Copied, Behind
  <2>8. Copied(p, r, paCache[p])
    <3>1. Shaped(r) /\ Shaped(paCache[p])
      BY <2>2, <2>3, <2>5, <2>7 DEF Copied, Shaped, Whole, InCharge
    <3>2. Behind(r, paCache[p])
      BY <2>2, <2>3, <2>7 DEF Copied, Behind
    <3>3. Checked(p, r, paCache[p])
      BY <2>2, <2>3, <2>5, <2>7 DEF Copied, Checked, InCharge
    <3> QED
      BY <3>1, <3>2, <3>3 DEF Copied
  <2>9. /\ pa' = [pa EXCEPT ![p] = r] /\ worker' = [worker EXCEPT ![p] = Idle]
        /\ UNCHANGED <<cacheVars, podVars>>
    BY <1>0, <1>2, <2>1 DEF EndLoop, WritePA, Goto
  <2> QED
    BY <2>8, <2>9, IdleWorks, StepReserved
<1> QED
  BY <1>1, <1>2

\* The actions of handleBinding.
LEMMA BindReserved ==
  ASSUME TypeInv, ReservedInv, NEW p \in PAs,
         \/ HandleBinding(p) \/ AbortBinding(p) \/ PollAdding(p) \/ AddServers(p)
         \/ FinishBinding(p)
  PROVE  ReservedInv'
<1>1. TypeInv'
  BY BindType
<1>2. Copied(p, pa[p], paCache[p])
  BY DEF ReservedInv, Reserved
<1>3. CASE HandleBinding(p)
  <2>1. PICK w : w = [Idle EXCEPT !.pc = "bind", !.mem = paCache[p], !.memOK = paSynced[p]]
    OBVIOUS
  <2>2. /\ w.pc = "bind" /\ w.mem = paCache[p] /\ w.memOK = paSynced[p]
        /\ w.i = 1 /\ w.to = "none" /\ w.clear = TRUE
    BY <2>1 DEF Idle
  <2>3. paCache[p].phase = "Binding" /\ HasClaim(podCache, paCache[p].pod, p)
    <3>1. paCache[p].phase = "Binding" /\ CachedPod(p) # Null /\ CachedPod(p).claim = p
      BY <1>3 DEF HandleBinding, Reconcile, StillClaimed
    <3> QED
      BY <3>1 DEF CachedPod, HasClaim
  <2>4. Working(p, pa[p], paCache[p], w)
    BY <2>2, <2>3, StartLoopWorks
  <2> QED
    BY <1>3, <2>1, <2>4, WorkerReserved DEF HandleBinding, StartLoop
<1>4. CASE AbortBinding(p)
  <2>1. paCache[p].phase = "Binding" /\ paCache[p].pod # Null /\ paCache[p].ip # Null
    BY <1>2, <1>4, NullIsNoAddress
    DEF AbortBinding, Reconcile, Copied, Shaped, Whole, TypeInv, PAInv, PARecords
  <2>2. ~HasClaim(podCache, paCache[p].pod, p)
    BY <1>4, <2>1 DEF AbortBinding, StillClaimed, CachedPod, HasClaim
  <2> QED
    BY <1>4, <2>1, <2>2, MovePhaseReserved DEF AbortBinding, Reconcile
<1>5. CASE PollAdding(p)
  BY <1>1, <1>5, PatchNextReserved DEF PollAdding, AtSG
<1>6. CASE AddServers(p)
  <2>1. InLoop(p, "bind") /\ PatchNext(p, "Adding") /\ UNCHANGED <<paVars, cacheVars, podVars>>
    BY <1>6 DEF AddServers, AtSG
  <2> QED
    BY <1>1, <2>1, PatchNextReserved
<1>7. CASE FinishBinding(p)
  <2>1. EndLoop(p, "bind", "Bound")
    BY <1>7 DEF FinishBinding
  <2> QED
    BY <2>1, EndLoopReserved
<1> QED
  BY <1>3, <1>4, <1>5, <1>6, <1>7

\* The actions of handleBound, handleDisable and handleDisabled.
LEMMA BoundReserved ==
  ASSUME TypeInv, ReservedInv, NEW p \in PAs,
         \/ HandleBound(p) \/ HandleDisable(p) \/ PollRemoving(p) \/ RemoveServer(p)
         \/ FinishDisable(p) \/ DisabledPodGone(p) \/ ReEnable(p)
  PROVE  ReservedInv'
<1>1. TypeInv'
  BY BoundType
<1>2. CASE HandleBound(p)
  BY <1>2, MovePhaseReserved DEF HandleBound, Reconcile
<1>3. CASE HandleDisable(p)
  <2>1. PICK w : w = [Idle EXCEPT !.pc = "disable", !.mem = paCache[p], !.memOK = paSynced[p]]
    OBVIOUS
  <2>2. /\ w.pc = "disable" /\ w.mem = paCache[p]
        /\ w.i = 1 /\ w.to = "none" /\ w.clear = TRUE
    BY <2>1 DEF Idle
  <2>3. Working(p, pa[p], paCache[p], w)
    BY <1>3, <2>2, StartLoopWorks DEF HandleDisable, Reconcile
  <2> QED
    BY <1>3, <2>1, <2>3, WorkerReserved DEF HandleDisable, StartLoop
<1>4. CASE PollRemoving(p)
  <2>1. InLoop(p, "disable") /\ UNCHANGED <<paVars, cacheVars, podVars>>
    BY <1>4 DEF PollRemoving, AtSG
  <2>2. CASE NextSG(p, FALSE)
    BY <1>1, <2>1, <2>2, NextSGReserved
  <2>3. CASE PatchNext(p, "")
    BY <1>1, <2>1, <2>3, PatchNextReserved
  <2> QED
    BY <1>4, <2>2, <2>3 DEF PollRemoving
<1>5. CASE RemoveServer(p)
  <2>1. InLoop(p, "disable") /\ UNCHANGED <<paVars, cacheVars, podVars>>
    BY <1>5 DEF RemoveServer, AtSG
  <2>2. CASE PatchNext(p, "Removing") \/ PatchNext(p, "")
    BY <1>1, <2>1, <2>2, PatchNextReserved
  <2>3. CASE Goto(p, Idle)
    BY <2>1, <2>3, IdleWorks, WorkerReserved
  <2> QED
    BY <1>5, <2>2, <2>3 DEF RemoveServer
<1>6. CASE FinishDisable(p)
  <2>1. EndLoop(p, "disable", "Disabled")
    BY <1>6 DEF FinishDisable
  <2> QED
    BY <2>1, EndLoopReserved
<1>7. CASE DisabledPodGone(p)
  BY <1>7, MovePhaseReserved DEF DisabledPodGone, Reconcile
<1>8. CASE ReEnable(p)
  <2>1. pa[p].pod # Null
    BY <1>8 DEF ReEnable, CachedPod, MovePhase, TypeInv, PAInv
  <2> QED
    BY <1>8, <2>1, MovePhaseReserved DEF ReEnable, Reconcile
<1> QED
  BY <1>2, <1>3, <1>4, <1>5, <1>6, <1>7, <1>8

\* A step of worker p from one label of handleReleasing to the next.
LEMMA LabelReserved ==
  ASSUME TypeInv, ReservedInv, NEW p \in PAs, worker[p].pc \in Closing, NEW l \in Closing,
         Goto(p, [worker[p] EXCEPT !.pc = l]), UNCHANGED <<paVars, cacheVars, podVars>>
  PROVE  ReservedInv'
<1>1. PICK w : w = [worker[p] EXCEPT !.pc = l]
  OBVIOUS
<1>2. w.pc = l /\ w.to = worker[p].to
  BY <1>1, WorkerSteps DEF Workers
<1>3. Releases(pa[p], paCache[p], worker[p])
  BY DEF ReservedInv, Reserved, Working
<1>4. Working(p, pa[p], paCache[p], w)
  BY <1>2, <1>3 DEF Working, Claims, Binds, Disables, Releases, Closing
<1> QED
  BY <1>1, <1>4, WorkerReserved

\* The two steps of clearPodClaim: the claim of no other Pod, and of no other PA, is
\* set.
LEMMA PodClaimReserved ==
  ASSUME TypeInv, ReservedInv, NEW p \in PAs,
         NEW label \in {"clearPodClaim", "clearPodClaimAgain"},
         NEW patch \in {"patchPodClaim", "patchPodClaimAgain"},
         NEW next \in {"removeServers", "clearSpec"}
  PROVE  /\ ReadPodClaim(p, label, patch, next) => ReservedInv'
         /\ PatchPodClaim(p, patch, next) => ReservedInv'
<1>1. ASSUME ReadPodClaim(p, label, patch, next) PROVE ReservedInv'
  <2>1. worker[p].pc \in Closing
    BY <1>1 DEF ReadPodClaim, At, Closing
  <2>2. PICK l \in {patch, next} : Goto(p, [worker[p] EXCEPT !.pc = l])
    BY <1>1 DEF ReadPodClaim
  <2>3. l \in Closing
    BY DEF Closing
  <2> QED
    BY <1>1, <2>1, <2>2, <2>3, LabelReserved DEF ReadPodClaim
<1>2. ASSUME PatchPodClaim(p, patch, next) PROVE ReservedInv'
  <2> DEFINE d == worker[p].mem.pod
  <2>1. PICK w, r : /\ w = [worker[p] EXCEPT !.pc = next]
                    /\ r = IF pod[d] = Null THEN Null ELSE [pod[d] EXCEPT !.claim = Null]
    OBVIOUS
  <2>2. worker[p].pc = patch /\ d \in Pods
    BY <1>2, WorkerSteps DEF PatchPodClaim, At, Consistent, Workers, PARecords
  <2>3. /\ pod' = [pod EXCEPT ![d] = r]
        /\ worker' = [Overtaken(d, r) EXCEPT ![p] = w]
        /\ UNCHANGED <<pa, paCache, podCache>>
    BY <1>2, <2>1 DEF PatchPodClaim, WritePod, paVars, cacheVars
  <2>4. r # Null => pod[d] # Null /\ r.claim = Null
    BY <2>1, <2>2 DEF TypeInv, PodInv, PodRecords
  <2> HIDE DEF d
  <2>5. \A q \in PAs, e \in Pods : HasClaim(pod', e, q) => HasClaim(pod, e, q)
    BY <2>2, <2>3, <2>4, ConstantsAssumption DEF HasClaim, TypeInv, PodInv
  <2>6. ASSUME NEW q \in PAs \ {p} PROVE Reserved(q)'
    <3>1. worker'[q] \in {worker[q], [worker[q] EXCEPT !.podOK = FALSE]}
      BY <2>3 DEF Overtaken
    <3> QED
      BY <2>3, <2>5, <3>1, StaysReserved
  <2>7. Reserved(p)'
    <3>1. worker'[p] = w
      BY <2>3 DEF Overtaken
    <3>2. w.pc = next /\ w.to = worker[p].to
      BY <2>1, WorkerSteps DEF Workers
    <3>3. Releases(pa[p], paCache[p], worker[p])
      BY DEF ReservedInv, Reserved, Working
    <3>4. Working(p, pa[p], paCache[p], worker[p])'
      BY <2>2, <2>3, <3>1, <3>2, <3>3 DEF Working, Claims, Binds, Disables, Releases, Closing
    <3>5. Copied(p, pa[p], paCache[p])'
      BY <2>3, <2>5, StaysCopied
    <3> QED
      BY <3>4, <3>5 DEF Reserved
  <2> QED
    BY <2>6, <2>7 DEF ReservedInv
<1> QED
  BY <1>1, <1>2

\* The actions of handleReleasing and resetToAvailable.
LEMMA ReleaseReserved ==
  ASSUME TypeInv, ReservedInv, NEW p \in PAs,
         \/ HandleReleasing(p) \/ ListAndRemove(p) \/ FinishReleasing(p)
         \/ ClearPodClaim(p) \/ PatchPodClaimFails(p) \/ RemoveServers(p)
         \/ ClearPodClaimAgain(p) \/ ClearSpec(p) \/ SetAvailable(p)
  PROVE  ReservedInv'
<1>1. pa[p] \in PARecords /\ worker[p] \in Workers
  BY WorkerSteps DEF TypeInv, PAInv
<1>2. Copied(p, pa[p], paCache[p]) /\ Working(p, pa[p], paCache[p], worker[p])
  BY DEF ReservedInv, Reserved
<1>3. TypeInv'
  BY ReleaseType
<1>4. CASE HandleReleasing(p)
  <2>1. PICK r : /\ pa' = [pa EXCEPT ![p] = r]
                 /\ r.phase = pa[p].phase /\ r.pod = pa[p].pod
                 /\ r.ip = pa[p].ip /\ r.ss = pa[p].ss
    <3>1. CASE paCache[p].since
      <4>1. pa' = [pa EXCEPT ![p] = pa[p]]
        BY <1>4, <3>1 DEF HandleReleasing, paVars, TypeInv, PAInv
      <4> QED
        BY <4>1
    <3>2. CASE ~paCache[p].since
      <4>1. PICK x : x = [pa[p] EXCEPT !.since = TRUE]
        OBVIOUS
      <4>2. pa' = [pa EXCEPT ![p] = x]
        BY <1>4, <3>2, <4>1 DEF HandleReleasing, WritePA
      <4>3. x.phase = pa[p].phase /\ x.pod = pa[p].pod /\ x.ip = pa[p].ip /\ x.ss = pa[p].ss
        BY <1>1, <4>1 DEF PARecords
      <4> QED
        BY <4>2, <4>3
    <3> QED
      BY <3>1, <3>2
  <2>2. PICK copy, current : StartLoop(p, "release", copy, current)
    BY <1>4 DEF HandleReleasing
  <2>3. PICK w : w = [Idle EXCEPT !.pc = "release", !.mem = copy, !.memOK = current]
    OBVIOUS
  <2>4. w.pc = "release" /\ w.to = "none"
    BY <2>3 DEF Idle
  <2>5. paCache[p].phase = "Releasing"
    BY <1>4 DEF HandleReleasing, Reconcile
  <2>6. Copied(p, r, paCache[p])
    BY <1>2, <2>1 DEF Copied, Shaped, Whole, Clean, Behind, Checked, Touched
  <2>7. Working(p, r, paCache[p], w)
    BY <1>2, <2>1, <2>4, <2>5
    DEF Copied, Behind, Working, Claims, Binds, Disables, Releases, Closing
  <2> QED
    BY <1>4, <2>1, <2>2, <2>3, <2>6, <2>7, StepReserved DEF HandleReleasing, StartLoop, Goto
<1>5. CASE ListAndRemove(p)
  <2>1. InLoop(p, "release") /\ UNCHANGED <<paVars, cacheVars, podVars>>
    BY <1>5 DEF ListAndRemove, AtSG
  <2>2. CASE NextSG(p, FALSE)
    BY <1>3, <2>1, <2>2, NextSGReserved
  <2>3. CASE PatchNext(p, "")
    BY <1>3, <2>1, <2>3, PatchNextReserved
  <2> QED
    BY <1>5, <2>2, <2>3 DEF ListAndRemove
<1>6. CASE FinishReleasing(p)
  <2>1. worker[p].pc \in Closing /\ "clearPodClaim" \in Closing
    BY <1>6 DEF FinishReleasing, LoopDone, At, Closing
  <2>2. CASE Goto(p, Idle)
    BY <1>6, <2>2, IdleWorks, WorkerReserved DEF FinishReleasing
  <2>3. CASE Goto(p, [worker[p] EXCEPT !.pc = "clearPodClaim"])
    BY <1>6, <2>1, <2>3, LabelReserved DEF FinishReleasing
  <2> QED
    BY <1>6, <2>2, <2>3 DEF FinishReleasing
<1>7. CASE ClearPodClaim(p)
  BY <1>7, PodClaimReserved DEF ClearPodClaim
<1>8. CASE PatchPodClaimFails(p)
  <2>1. worker[p].pc \in Closing
    BY <1>8 DEF PatchPodClaimFails, At, Closing
  <2>2. PICK l \in {"removeServers", "clearSpec"} : Goto(p, [worker[p] EXCEPT !.pc = l])
    BY <1>8, WorkerSteps DEF PatchPodClaimFails, At, Workers
  <2>3. l \in Closing
    BY DEF Closing
  <2> QED
    BY <1>8, <2>1, <2>2, <2>3, LabelReserved DEF PatchPodClaimFails
<1>9. CASE RemoveServers(p)
  BY <1>9, LabelReserved DEF RemoveServers, At, Closing
<1>10. CASE ClearPodClaimAgain(p)
  BY <1>10, PodClaimReserved DEF ClearPodClaimAgain
<1>11. CASE ClearSpec(p)
  <2>1. CASE CurrentPA(p)
    <3>1. PICK r, w : /\ r = [pa[p] EXCEPT !.pod = Null, !.ip = Null, !.since = FALSE]
                      /\ w = [worker[p] EXCEPT !.pc = "setAvailable"]
      OBVIOUS
    <3>2. /\ r.pod = Null /\ r.ip = Null /\ r.phase = pa[p].phase /\ r.ss = pa[p].ss
          /\ w.pc = "setAvailable" /\ w.to = worker[p].to
      BY <1>1, <3>1 DEF PARecords, Workers
    <3>3. /\ pa' = [pa EXCEPT ![p] = r] /\ worker' = [worker EXCEPT ![p] = w]
          /\ UNCHANGED <<cacheVars, podVars>> /\ worker[p].pc = "clearSpec"
      BY <1>11, <2>1, <3>1 DEF ClearSpec, WritePA, Goto, At
    <3>4. /\ pa[p].phase \in {"Releasing", "Disabled", "Available"}
          /\ paCache[p].phase \in {"Releasing", "Disabled", "Available"}
      BY <1>2, <3>3 DEF Working, Releases, Closing
    <3>5. Copied(p, r, paCache[p])
      BY <1>2, <3>2, <3>4 DEF Copied, Shaped, Whole, Clean, Behind, Checked, Touched, Seen
    <3>6. Working(p, r, paCache[p], w)
      BY <1>2, <3>2, <3>3, <3>4 DEF Working, Claims, Binds, Disables, Releases, Closing
    <3> QED
      BY <3>3, <3>5, <3>6, StepReserved
  <2>2. CASE ~CurrentPA(p)
    BY <1>11, <2>2, IdleWorks, WorkerReserved DEF ClearSpec
  <2> QED
    BY <2>1, <2>2
<1>12. CASE SetAvailable(p)
  <2>1. PICK r : r = [pa[p] EXCEPT !.phase = "Available", !.ss = [i \in SGs |-> ""]]
    OBVIOUS
  <2>2. /\ r.phase = "Available" /\ r.pod = pa[p].pod /\ r.ip = pa[p].ip
        /\ r.ss = [i \in SGs |-> ""]
    BY <1>1, <2>1, FieldUpdates
  <2>3. Clean(r) /\ ~Touched(r)
    BY <2>2 DEF Clean, Touched
  <2>4. /\ pa' = [pa EXCEPT ![p] = r] /\ worker' = [worker EXCEPT ![p] = Idle]
        /\ UNCHANGED <<cacheVars, podVars>> /\ worker[p].pc = "setAvailable"
    BY <1>12, <2>1 DEF SetAvailable, WritePA, Goto, At
  <2>5. paCache[p].phase \in {"Releasing", "Disabled", "Available"}
    BY <1>2, <2>4 DEF Working, Releases, Closing
  <2>6. Copied(p, r, paCache[p])
    BY <1>2, <2>2, <2>3, <2>5 DEF Copied, Shaped, Whole, Behind, Checked
  <2> QED
    BY <2>4, <2>6, IdleWorks, StepReserved
<1> QED
  BY <1>4, <1>5, <1>6, <1>7, <1>8, <1>9, <1>10, <1>11, <1>12

\* Every step.
LEMMA ReservedStep == TypeInv /\ ReservedInv /\ [Next]_vars => ReservedInv'
<1> SUFFICES ASSUME TypeInv, ReservedInv, [Next]_vars PROVE ReservedInv'
  OBVIOUS
<1>1. ASSUME NEW p \in PAs, WorkerStep(p) \/ WorkerFails(p) PROVE ReservedInv'
  BY <1>1, ClaimReserved, ResumeReserved, LoopReserved, BindReserved, BoundReserved,
     ReleaseReserved
  DEF WorkerStep, WorkerFails
<1>2. ASSUME NEW p \in PAs, CloudStep(p) \/ CloudFails(p) PROVE ReservedInv'
  BY <1>2, CloudReserved DEF CloudStep, CloudFails, JobDone, JobFails
<1>3. ASSUME NEW p \in PAs, SyncPA(p) PROVE ReservedInv'
  BY <1>3, SyncReserved
<1>4. ASSUME NEW d \in Pods, PodStep(d) PROVE ReservedInv'
  BY <1>4, PodReserved
<1>5. ASSUME NEW d \in Pods, SyncPod(d) PROVE ReservedInv'
  BY <1>5, SyncReserved
<1>6. CASE UNCHANGED vars
  BY <1>6, CloudReserved DEF vars, paVars, cacheVars, podVars
<1> QED
  BY <1>1, <1>2, <1>3, <1>4, <1>5, <1>6 DEF Next

\* A PA that is Binding or Bound knows the Pod and an address of it, however old what
\* its worker goes by is, whatever crashes, conflicts or fails.
THEOREM ReservationsComplete == Spec => []ReservationComplete
<1>1. Spec => []ReservedInv
  BY TypeInvariant, InitReserved, ReservedStep, PTL DEF Spec
<1>2. ReservedInv => ReservationComplete
  BY DEF ReservedInv, Reserved, Copied, Shaped, Whole, ReservationComplete
<1> QED
  BY <1>1, <1>2, PTL
=============================================================================
